------------------------------- MODULE EdgeParts ------------------------------
(***************************************************************************)
(* The parts of the Edge that share no state with one another, side by     *)
(* side: the CUDA engine, the camera, the file of the configuration, and   *)
(* those of Numerics.  A behaviour is one of any of them; the others rest  *)
(* in an initial state.                                                    *)
(***************************************************************************)
EXTENDS Numerics, CudaEngine, Camera, ConfigSave

edgePartsVars == <<numericsVars, engineVars, cameraVars, configVars>>

NumericsIdle == StrainIdle /\ StatisticsIdle /\ GridIdle
CameraIdle == CameraInit /\ kind = CHOOSE k \in Kinds : TRUE
ConfigIdle ==
    /\ ConfigInit
    /\ disk["path"] = CHOOSE c \in UNION {Loadable(text) : text \in
                             [width : Widths, offset : Offsets, rate : Rates]} : TRUE

EdgePartsInit ==
    /\ EngineInit
    /\ \/ NumericsInit /\ CameraIdle /\ ConfigIdle
       \/ part = "engine" /\ NumericsIdle /\ CameraIdle /\ ConfigIdle
       \/ part = "camera" /\ NumericsIdle /\ CameraInit /\ ConfigIdle
       \/ part = "config" /\ NumericsIdle /\ CameraIdle /\ ConfigInit

EdgePartsNext ==
    \/ NumericsNext /\ UNCHANGED <<engineVars, cameraVars, configVars>>
    \/ /\ part = "engine" /\ EngineNext
       /\ UNCHANGED <<numericsVars, cameraVars, configVars>>
    \/ /\ part = "camera" /\ CameraNext
       /\ UNCHANGED <<numericsVars, engineVars, configVars>>
    \/ /\ part = "config" /\ ConfigNext
       /\ UNCHANGED <<numericsVars, engineVars, cameraVars>>

(* The fairness of the engine; a resting engine has no step under it.      *)
EdgePartsSpec ==
    /\ EdgePartsInit /\ [][EdgePartsNext]_edgePartsVars
    /\ WF_engineVars(HostStep /\ UNCHANGED session) /\ WF_engineVars(DeviceStep)
=============================================================================
