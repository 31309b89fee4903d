------------------------------ MODULE Numerics ------------------------------
(***************************************************************************)
(* The three components that only compute, side by side: a behaviour is one *)
(* of any of them.  Nothing connects them but the order of the pipeline.    *)
(***************************************************************************)
EXTENDS GridStrain, RollingStatistics, GridSearch

VARIABLE part   \* the component that runs

numericsVars == <<part, strainVars, statisticsVars, gridVars>>

NumericsInit ==
    \/ part = "strain" /\ StrainInit /\ StatisticsIdle /\ GridIdle
    \/ part = "statistics" /\ StatisticsInit /\ StrainIdle /\ GridIdle
    \/ part = "grid" /\ GridInit /\ StrainIdle /\ StatisticsIdle

NumericsNext ==
    \/ part = "strain" /\ StrainNext /\ UNCHANGED <<part, statisticsVars, gridVars>>
    \/ part = "statistics" /\ StatisticsNext /\ UNCHANGED <<part, strainVars, gridVars>>
    \/ part = "grid" /\ GridNext /\ UNCHANGED <<part, strainVars, statisticsVars>>

NumericsSpec == NumericsInit /\ [][NumericsNext]_numericsVars

-----------------------------------------------------------------------------
(* Values for TLC.  Two grids with as many points each, so that only their   *)
(* coordinates tell them apart, and one that is smaller.                   *)
Grid(columns, rows, left) ==
    [i \in 1 .. columns * rows |->
        <<left + 2 * ((i - 1) % columns), 2 * ((i - 1) \div columns)>>]

TestLayouts == {Grid(3, 2, 4), Grid(6, 1, 4), Grid(2, 2, 0)}

TestGradients ==
    {[ux |-> 1, uy |-> -2, vx |-> 3, vy |-> 1], [ux |-> 0, uy |-> 1, vx |-> -1, vy |-> 2]}

TestDeltas == {-9, -2, -1, 0, 1, 3, 8}
=============================================================================
