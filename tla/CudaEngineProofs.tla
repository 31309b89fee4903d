--------------------------- MODULE CudaEngineProofs ---------------------------
(***************************************************************************)
(* The barriers of gauss_newton_kernel suffice, for any number of warps    *)
(* and of iterations.  Between two barriers all warps are in one phase,    *)
(* and they agree on when the loop ends, though each of them reads the     *)
(* shared stop_iteration and counts its iterations for itself.             *)
(*                                                                         *)
(* And process returns results of the frames it was given; no point starts *)
(* from an accepted displacement, and none of a recovery pass from a       *)
(* median, that was measured from another reference than the one on the    *)
(* device, though the device runs behind the host and calls may fail       *)
(* anywhere.                                                               *)
(***************************************************************************)
EXTENDS CudaEngine, SequenceTheorems, TLAPS

Phases ==
    {{"seed", "seeded"},
     {"decide", "sample", "deposit", "deposited"},
     {"combine", "combined"},
     {"solve", "solved"},
     {"write", "done"}}

(* What a warp that still has to decide will decide.                       *)
Leaves(w) ==
    IF at[w] = "decide"
    THEN stopIteration # 0 \/ iteration[w] + 1 = MaxIterations
    ELSE final[w]

Count(w) == IF at[w] = "decide" THEN iteration[w] + 1 ELSE iteration[w]

RegistersTyped ==
    /\ at \in [Warp -> WarpPC]
    /\ iteration \in [Warp -> Int] /\ final \in [Warp -> BOOLEAN]
    /\ DOMAIN partial = Warp /\ DOMAIN warpTotals = Warp

Together == \E phase \in Phases : \A w \in Warp : at[w] \in phase

Agreed == \A v, w \in Warp : (Leaves(v) <=> Leaves(w)) /\ Count(v) = Count(w)

Sums ==
    /\ \A w \in Warp :
        /\ at[w] = "deposit" => partial[w] = estimate
        /\ at[w] \in {"deposited", "combine", "combined"} => warpTotals[w] = estimate
    /\ at[0] \in {"combined", "solve", "write"} =>
        \A w \in Warp : totals[w] = estimate

KernelInv == RegistersTyped /\ Together /\ Agreed /\ Sums

LEMMA ZeroIsWarp == 0 \in Warp
BY KernelAssumption DEF Warp

(* Where a warp is, all are.                                               *)
LEMMA SamePhase ==
    ASSUME Together, NEW v \in Warp, NEW w \in Warp
    PROVE  \E phase \in Phases : at[v] \in phase /\ at[w] \in phase
BY DEF Together

(* The phase that a warp's place names.                                    *)
LEMMA PhaseOf ==
    ASSUME Together, NEW v \in Warp, NEW phase \in Phases, at[v] \in phase
    PROVE  \A w \in Warp : at[w] \in phase
<1>1. PICK p \in Phases : \A w \in Warp : at[w] \in p
  BY DEF Together
<1>2. p = phase
  <2>1. at[v] \in p
    BY <1>1
  <2>2. QED
    BY <2>1 DEF Phases
<1>3. QED
  BY <1>1, <1>2

LEMMA KernelInitInv == EngineInit => KernelInv
<1>1. SUFFICES ASSUME KernelInit PROVE KernelInv
  BY DEF EngineInit
<1>2. RegistersTyped
  BY <1>1 DEF KernelInit, RegistersTyped, WarpPC, Barrier
<1>3. Together
  BY <1>1 DEF KernelInit, Together, Phases
<1>4. Agreed
  BY <1>1 DEF KernelInit, Agreed, Leaves, Count
<1>5. Sums
  BY <1>1, ZeroIsWarp DEF KernelInit, Sums
<1>6. QED
  BY <1>2, <1>3, <1>4, <1>5 DEF KernelInv

LEMMA BeginBlockInv == BeginBlock /\ KernelInv => KernelInv'
<1>1. SUFFICES ASSUME BeginBlock, KernelInv PROVE KernelInv'
  OBVIOUS
<1>2. RegistersTyped'
  BY <1>1 DEF BeginBlock, RegistersTyped, WarpPC, Barrier, KernelInv, shared
<1>3. Together'
  BY <1>1 DEF BeginBlock, Together, Phases
<1>4. Agreed'
  BY <1>1 DEF BeginBlock, Agreed, Leaves, Count
<1>5. Sums'
  BY <1>1, ZeroIsWarp DEF BeginBlock, Sums
<1>6. QED
  BY <1>2, <1>3, <1>4, <1>5 DEF KernelInv

(* A warp that moves within its phase leaves them together.                *)
LEMMA Moves ==
    ASSUME RegistersTyped, Together,
           NEW w \in Warp, NEW pc \in WarpPC, Goto(w, pc),
           NEW phase \in Phases, at[w] \in phase, pc \in phase
    PROVE  Together'
<1>1. \A v \in Warp : at[v] \in phase
  BY PhaseOf
<1>2. \A v \in Warp : at'[v] \in phase
  BY <1>1 DEF Goto, RegistersTyped
<1>3. QED
  BY <1>2 DEF Together

LEMMA SeedInv ==
    ASSUME KernelInv, NEW w \in Warp, NEW f, Seed(w, f)
    PROVE  KernelInv'
<1>1. \A v \in Warp : at[v] \in {"seed", "seeded"}
  BY PhaseOf DEF KernelInv, Seed, Phases
<1>2. \A v \in Warp : at'[v] \in {"seed", "seeded"}
  BY <1>1 DEF KernelInv, RegistersTyped, Seed, Goto
<1>3. RegistersTyped'
  BY <1>1 DEF KernelInv, RegistersTyped, Seed, Goto, WarpPC, Barrier
<1>4. Together'
  BY <1>2 DEF Together, Phases
<1>5. Agreed'
  BY <1>1, <1>2 DEF KernelInv, Agreed, Leaves, Count, Seed
<1>6. Sums'
  BY <1>2, ZeroIsWarp DEF Sums
<1>7. QED
  BY <1>3, <1>4, <1>5, <1>6 DEF KernelInv

LEMMA SampleInv ==
    ASSUME KernelInv, NEW w \in Warp, Sample(w)
    PROVE  KernelInv'
<1>1. \A v \in Warp : at[v] \in {"decide", "sample", "deposit", "deposited"}
  BY PhaseOf DEF KernelInv, Sample, Phases
<1>2. RegistersTyped'
  BY DEF KernelInv, RegistersTyped, Sample, Goto, WarpPC, Barrier, shared
<1>3. Together'
  BY Moves DEF KernelInv, Phases, Sample, WarpPC, Barrier
<1>4. Agreed'
  BY DEF KernelInv, Agreed, Leaves, Count, Sample, Goto, RegistersTyped, shared
<1>5. Sums'
  BY <1>1, ZeroIsWarp DEF KernelInv, Sums, Sample, Goto, RegistersTyped, shared
<1>6. QED
  BY <1>2, <1>3, <1>4, <1>5 DEF KernelInv

LEMMA DepositInv ==
    ASSUME KernelInv, NEW w \in Warp, Deposit(w)
    PROVE  KernelInv'
<1>1. \A v \in Warp : at[v] \in {"decide", "sample", "deposit", "deposited"}
  BY PhaseOf DEF KernelInv, Deposit, Phases
<1>2. RegistersTyped'
  BY DEF KernelInv, RegistersTyped, Deposit, Goto, WarpPC, Barrier
<1>3. Together'
  BY Moves DEF KernelInv, Phases, Deposit, WarpPC, Barrier
<1>4. Agreed'
  BY DEF KernelInv, Agreed, Leaves, Count, Deposit, Goto, RegistersTyped
<1>5. Sums'
  BY <1>1, ZeroIsWarp DEF KernelInv, Sums, Deposit, Goto, RegistersTyped
<1>6. QED
  BY <1>2, <1>3, <1>4, <1>5 DEF KernelInv

LEMMA CombineInv ==
    ASSUME KernelInv, NEW w \in Warp, Combine(w)
    PROVE  KernelInv'
<1>1. \A v \in Warp : at[v] \in {"combine", "combined"}
  BY PhaseOf DEF KernelInv, Combine, Phases
<1>2. RegistersTyped'
  BY DEF KernelInv, RegistersTyped, Combine, Goto, WarpPC, Barrier
<1>3. Together'
  BY Moves DEF KernelInv, Phases, Combine, WarpPC, Barrier
<1>4. Agreed'
  BY DEF KernelInv, Agreed, Leaves, Count, Combine, Goto, RegistersTyped
<1>5. Sums'
  <2>1. \A v \in Warp : warpTotals[v] = estimate
    BY <1>1 DEF KernelInv, Sums
  <2>2. \A v \in Warp : at'[v] \in {"combine", "combined"}
    BY <1>1 DEF KernelInv, RegistersTyped, Combine, Goto
  <2>3. CASE w = 0
    BY <2>1, <2>2, <2>3, ZeroIsWarp DEF Sums, Combine
  <2>4. CASE w # 0
    <3>1. at'[0] = at[0]
      BY <2>4, ZeroIsWarp DEF KernelInv, RegistersTyped, Combine, Goto
    <3>2. QED
      BY <2>1, <2>2, <2>4, <3>1, ZeroIsWarp DEF KernelInv, Sums, Combine
  <2>5. QED
    BY <2>3, <2>4
<1>6. QED
  BY <1>2, <1>3, <1>4, <1>5 DEF KernelInv

(* When thread 0 moves the estimate nobody relies on the sums any more.    *)
LEMMA SolveInv ==
    ASSUME KernelInv, NEW w \in Warp, Solve(w)
    PROVE  KernelInv'
<1>1. \A v \in Warp : at[v] \in {"solve", "solved"}
  BY PhaseOf DEF KernelInv, Solve, Phases
<1>2. RegistersTyped'
  BY DEF KernelInv, RegistersTyped, Solve, Goto, WarpPC, Barrier
<1>3. Together'
  BY Moves DEF KernelInv, Phases, Solve, WarpPC, Barrier
<1>4. \A v \in Warp : at'[v] \in {"solve", "solved"}
  BY <1>1 DEF KernelInv, RegistersTyped, Solve, Goto
<1>5. Agreed'
  BY <1>1, <1>4 DEF KernelInv, Agreed, Leaves, Count, Solve
<1>6. Sums'
  <2>1. CASE w = 0
    BY <2>1, <1>4, ZeroIsWarp DEF KernelInv, RegistersTyped, Sums, Solve, Goto
  <2>2. CASE w # 0
    <3>1. at'[0] = at[0]
      BY <2>2, ZeroIsWarp DEF KernelInv, RegistersTyped, Solve, Goto
    <3>2. QED
      BY <2>2, <1>4, <3>1, ZeroIsWarp DEF KernelInv, Sums, Solve
  <2>3. QED
    BY <2>1, <2>2
<1>7. QED
  BY <1>2, <1>3, <1>5, <1>6 DEF KernelInv

LEMMA DecideInv ==
    ASSUME KernelInv, NEW w \in Warp, Decide(w)
    PROVE  KernelInv'
<1>1. \A v \in Warp : at[v] \in {"decide", "sample", "deposit", "deposited"}
  BY PhaseOf DEF KernelInv, Decide, Phases
<1>2. RegistersTyped'
  BY DEF KernelInv, RegistersTyped, Decide, Goto, WarpPC, Barrier, shared
<1>3. Together'
  BY Moves DEF KernelInv, Phases, Decide, WarpPC, Barrier
<1>4. Agreed'
  <2>1. \A v \in Warp : (Leaves(v)' <=> Leaves(v)) /\ Count(v)' = Count(v)
    BY DEF KernelInv, RegistersTyped, Leaves, Count, Decide, Goto, shared
  <2>2. QED
    BY <2>1 DEF KernelInv, Agreed
<1>5. Sums'
  BY <1>1, ZeroIsWarp DEF KernelInv, Sums, Decide, Goto, RegistersTyped, shared
<1>6. QED
  BY <1>2, <1>3, <1>4, <1>5 DEF KernelInv

LEMMA WriteInv ==
    ASSUME KernelInv, NEW w \in Warp, Write(w)
    PROVE  KernelInv'
<1>1. \A v \in Warp : at[v] \in {"write", "done"}
  BY PhaseOf DEF KernelInv, Write, Phases
<1>2. RegistersTyped'
  BY DEF KernelInv, RegistersTyped, Write, Goto, WarpPC, Barrier, shared
<1>3. Together'
  BY Moves DEF KernelInv, Phases, Write, WarpPC, Barrier
<1>4. Agreed'
  BY DEF KernelInv, Agreed, Leaves, Count, Write, Goto, RegistersTyped, shared
<1>5. Sums'
  BY <1>1, ZeroIsWarp DEF KernelInv, Sums, Write, Goto, RegistersTyped, shared
<1>6. QED
  BY <1>2, <1>3, <1>4, <1>5 DEF KernelInv

(* Behind each barrier the warps are together again: the loop ends for all *)
(* of them or for none.                                                    *)
LEMMA SynchroniseInv ==
    ASSUME KernelInv, Synchronise
    PROVE  KernelInv'
<1>1. PICK barrier \in Barrier :
        /\ \A w \in Warp : at[w] = barrier
        /\ at' = [w \in Warp |-> After(barrier, w)]
        /\ UNCHANGED <<iteration, final, partial, shared, images, result>>
  BY DEF Synchronise
<1>2. \A v, w \in Warp : (final[v] <=> final[w]) /\ iteration[v] = iteration[w]
  BY <1>1 DEF KernelInv, Agreed, Leaves, Count, Barrier
<1>3. final[0] \in BOOLEAN /\ \A w \in Warp : final[w] = final[0]
  BY <1>2, ZeroIsWarp DEF KernelInv, RegistersTyped
<1>4. CASE barrier = "seeded"
  <2>1. \A w \in Warp : at'[w] = "sample"
    BY <1>1, <1>4 DEF After
  <2>2. RegistersTyped'
    BY <1>1, <2>1 DEF KernelInv, RegistersTyped, WarpPC, Barrier, shared
  <2>3. QED
    BY <1>1, <1>2, <2>1, <2>2, ZeroIsWarp
    DEF KernelInv, Together, Phases, Agreed, Leaves, Count, Sums
<1>5. CASE barrier = "deposited"
  <2>1. \A w \in Warp : at'[w] = "combine"
    BY <1>1, <1>5 DEF After
  <2>2. RegistersTyped'
    BY <1>1, <2>1 DEF KernelInv, RegistersTyped, WarpPC, Barrier, shared
  <2>3. Sums'
    BY <1>1, <1>5, <2>1, ZeroIsWarp DEF KernelInv, Sums, shared
  <2>4. QED
    BY <1>1, <1>2, <2>1, <2>2, <2>3
    DEF KernelInv, Together, Phases, Agreed, Leaves, Count
<1>6. CASE barrier = "combined"
  <2>1. \E pc \in {"solve", "write"} : \A w \in Warp : at'[w] = pc
    BY <1>1, <1>3, <1>6 DEF After
  <2>2. RegistersTyped'
    BY <1>1, <2>1 DEF KernelInv, RegistersTyped, WarpPC, Barrier, shared
  <2>3. Together'
    BY <2>1 DEF Together, Phases
  <2>4. Agreed'
    BY <1>1, <1>2, <2>1 DEF Agreed, Leaves, Count
  <2>5. Sums'
    BY <1>1, <1>6, <2>1, ZeroIsWarp DEF KernelInv, Sums, shared
  <2>6. QED
    BY <2>2, <2>3, <2>4, <2>5 DEF KernelInv
<1>7. CASE barrier = "solved"
  <2>1. \A w \in Warp : at'[w] = "decide"
    BY <1>1, <1>7 DEF After
  <2>2. RegistersTyped'
    BY <1>1, <2>1 DEF KernelInv, RegistersTyped, WarpPC, Barrier, shared
  <2>3. Agreed'
    BY <1>1, <1>2, <2>1 DEF Agreed, Leaves, Count, shared
  <2>4. QED
    BY <2>1, <2>2, <2>3, ZeroIsWarp DEF KernelInv, Together, Phases, Sums
<1>8. QED
  BY <1>4, <1>5, <1>6, <1>7 DEF Barrier

LEMMA KernelStepInv ==
    ASSUME KernelInv, NEW f, KernelStep(f)
    PROVE  KernelInv'
<1>1. CASE Synchronise
  BY <1>1, SynchroniseInv
<1>2. ASSUME NEW w \in Warp, WarpStep(w, f) PROVE KernelInv'
  BY <1>2, SeedInv, SampleInv, DepositInv, CombineInv, SolveInv, DecideInv,
     WriteInv DEF WarpStep
<1>3. QED
  BY <1>1, <1>2 DEF KernelStep

(* Nothing else reads or writes what the warps share.                      *)
LEMMA ElsewhereInv ==
    ASSUME KernelInv, UNCHANGED <<control, partial, shared>>
    PROVE  KernelInv'
<1>1. RegistersTyped'
  BY DEF KernelInv, RegistersTyped, control, shared
<1>2. Together'
  BY DEF KernelInv, Together, control
<1>3. Agreed'
  BY DEF KernelInv, Agreed, Leaves, Count, control, shared
<1>4. Sums'
  BY DEF KernelInv, Sums, control, shared
<1>5. QED
  BY <1>1, <1>2, <1>3, <1>4 DEF KernelInv

LEMMA NextInv == KernelInv /\ [EngineNext]_engineVars => KernelInv'
<1>1. SUFFICES ASSUME KernelInv, [EngineNext]_engineVars PROVE KernelInv'
  OBVIOUS
<1>2. CASE KernelBegins
  BY <1>1, <1>2, BeginBlockInv DEF KernelBegins
<1>3. CASE KernelRuns
  BY <1>1, <1>3, KernelStepInv DEF KernelRuns
<1>4. CASE UNCHANGED <<control, partial, shared>>
  BY <1>1, <1>4, ElsewhereInv
<1>5. CASE BeginSession \/ Process \/ AllocateFails
  BY <1>4, <1>5 DEF BeginSession, Process, AllocateFails, kernelVars
<1>6. CASE HostStep
  BY <1>4, <1>6 DEF HostStep, Stage, EnqueueReference, EnqueueDeformed, Launch,
     Enqueue, Await, AwaitFails, Return, kernelVars
<1>7. CASE CopyReference \/ CopyDeformed \/ Reset \/ Precompute \/ KernelEnds \/ Download
  BY <1>4, <1>7 DEF CopyReference, CopyDeformed, Reset, Precompute, KernelEnds,
     Download, kernelVars
<1>8. CASE UNCHANGED engineVars
  BY <1>4, <1>8 DEF engineVars, kernelVars
<1>9. QED
  BY <1>1, <1>2, <1>3, <1>5, <1>6, <1>7, <1>8 DEF EngineNext, DeviceStep

(* In every state of the engine the warps of a block are together.         *)
LEMMA AlwaysKernelInv == EngineSpec => []KernelInv
BY KernelInitInv, NextInv, PTL DEF EngineSpec

-----------------------------------------------------------------------------
(* Whatever the number of warps, no warp of gauss_newton_kernel writes     *)
(* shared memory that another may read or write before the next barrier.   *)
THEOREM KernelIsRaceFree == EngineSpec => []RaceFree
<1>1. KernelInv => RaceFree
  <2>1. SUFFICES ASSUME KernelInv, NEW v \in Warp, NEW w \in Warp, v # w
                 PROVE  Writes(v) \cap (Reads(w) \cup Writes(w)) = {}
    BY DEF RaceFree
  <2>2. CASE at[v] = "seed" /\ v = 0
    <3>1. at[w] \in {"seed", "seeded"}
      BY <2>1, <2>2, PhaseOf DEF KernelInv, Phases
    <3>2. QED
      BY <2>1, <2>2, <3>1 DEF Reads, Writes
  <2>3. CASE at[v] = "deposit"
    <3>1. at[w] \in {"decide", "sample", "deposit", "deposited"}
      BY <2>1, <2>3, PhaseOf DEF KernelInv, Phases
    <3>2. QED
      BY <2>1, <2>3, <3>1 DEF Reads, Writes, Displacement
  <2>4. CASE at[v] = "combine" /\ v = 0
    <3>1. at[w] \in {"combine", "combined"}
      BY <2>1, <2>4, PhaseOf DEF KernelInv, Phases
    <3>2. QED
      BY <2>1, <2>4, <3>1 DEF Reads, Writes
  <2>5. CASE at[v] = "solve" /\ v = 0
    <3>1. at[w] \in {"solve", "solved"}
      BY <2>1, <2>5, PhaseOf DEF KernelInv, Phases
    <3>2. QED
      BY <2>1, <2>5, <3>1 DEF Reads, Writes
  <2>6. QED
    BY <2>2, <2>3, <2>4, <2>5 DEF Writes
<1>2. QED
  BY <1>1, AlwaysKernelInv, PTL

(* Whatever the number of warps and of iterations, thread 0 uses sums to   *)
(* which every warp contributed samples at the present displacement.       *)
THEOREM KernelSumsAreCurrent == EngineSpec => []SumsAreCurrent
<1>1. KernelInv => SumsAreCurrent
  BY DEF KernelInv, Sums, SumsAreCurrent
<1>2. QED
  BY <1>1, AlwaysKernelInv, PTL

-----------------------------------------------------------------------------
(* The host's side.  What is in the stream is a promise: the invariant     *)
(* says what the device will have when it has run the stream empty, while  *)
(* new operations are put behind it and others taken from its head.        *)
Step == {"idle", "stage", "reference", "deformed", "launch", "await", "return"}
Frames == 0 .. MaxFrames
Held == [buffer : Buffers \cup {"none"}, frame : 0 .. frames]

Op ==
    [op : {"reference", "deformed"}, from : Buffers \cup Staging]
        \cup [op : {"reset", "statistics", "download"}]
        \cup [op : {"kernel"}, fallback : Frames]

HostTypes ==
    /\ step \in Step
    /\ memory \in [Buffers \cup Staging -> Frames]
    /\ frames \in Frames
    /\ session \in Held /\ input \in Held /\ cached \in Held
    /\ stream \in Seq(Op)
    /\ launched \in BOOLEAN

Numbers ==
    /\ reference \in Frames /\ result.reference \in Frames
    /\ download.reference \in Frames /\ fallback \in Frames

Places == 1 .. Len(stream)
Is(i, op) == stream[i].op = op

(* While a call uses a buffer, the buffer has the frame it had when the    *)
(* call was made, and so has the staging image once it is filled.          *)
InPlace ==
    /\ step # "idle" => session # None
    /\ session # None =>
          session.buffer \in Buffers /\ memory[session.buffer] = session.frame
    /\ step # "idle" =>
          input.buffer \in Buffers /\ memory[input.buffer] = input.frame
    /\ step \notin {"idle", "stage"} =>
          memory[Source(input, "deformed_staging")] = input.frame
    /\ step = "reference" =>
          memory[Source(session, "reference_staging")] = session.frame
    /\ launched => stream # <<>> /\ Is(1, "kernel")

(* The last copy of an image in the stream copies the frame; without one   *)
(* the device has it already.                                              *)
ImageComes(op, image, frame) ==
    /\ \A i \in Places :
          Is(i, op) =>
             \/ memory[stream[i].from] = frame
             \/ \E j \in Places : j > i /\ Is(j, op)
    /\ (\A i \in Places : ~Is(i, op)) => image = frame

ReferenceComes == ImageComes("reference", reference, session.frame)
DeformedComes == ImageComes("deformed", deformed, input.frame)

(* Whatever reference is copied, its gradients are summed afterwards.      *)
StatisticsCome ==
    InverseCompositional =>
    /\ \A i \in Places :
          Is(i, "reference") =>
             \E j \in Places : j > i /\ Is(j, "statistics")
    /\ (\A i \in Places : ~Is(i, "statistics")) => statistics = session.frame

OfThisPair(r) ==
    /\ r.reference = session.frame
    /\ r.deformed = input.frame
    /\ r.matrix = session.frame

(* While process waits, the kernel and the download are the last           *)
(* operations; what they leave is of this pair.                            *)
ResultComes ==
    /\ stream # <<>> => Is(Len(stream), "download")
    /\ Len(stream) >= 2 => Is(Len(stream) - 1, "kernel")
    /\ Len(stream) = 2 /\ launched /\ at[0] = "done" => OfThisPair(result)
    /\ Len(stream) = 1 => OfThisPair(result)
    /\ stream = <<>> => OfThisPair(download)

Uploaded == {"deformed", "launch", "await", "return"}
Kept == step \in {"idle", "stage"} /\ session # None /\ cached = session

Coming ==
    /\ step \in Uploaded =>
           cached = session /\ ReferenceComes /\ StatisticsCome
    /\ step \in {"launch", "await", "return"} => DeformedComes
    /\ step = "await" => ResultComes
    /\ step = "return" => OfThisPair(download)
    /\ step = "return" \/ Kept =>
           stream = <<>> /\ reference = session.frame
    /\ Kept /\ InverseCompositional => statistics = session.frame

(* A result of another reference, present or to be copied, is reset before *)
(* place k of the stream.                                                  *)
Stale == result.valid /\ result.reference # reference
ResetComes(k) ==
    /\ Stale => \E j \in Places : j < k /\ Is(j, "reset")
    /\ \A i \in Places : i < k /\ Is(i, "reference") =>
         \E j \in Places : i < j /\ j < k /\ Is(j, "reset")

Tracks ==
    /\ \A k \in Places : Is(k, "kernel") => ResetComes(k)
    /\ step \in Uploaded => ResetComes(Len(stream) + 1)
    /\ Kept => ~Stale

EngineInv == KernelInv /\ HostTypes /\ InPlace /\ Coming /\ Tracks


(* The device takes the head of the stream.                                *)
LEMMA PopFacts ==
    ASSUME stream \in Seq(Op), stream # <<>>, Pop
    PROVE  /\ stream' \in Seq(Op)
           /\ Len(stream) \in Nat /\ Len(stream) >= 1
           /\ Len(stream') = Len(stream) - 1
           /\ Head(stream) = stream[1]
           /\ \A i \in 1 .. Len(stream) - 1 : stream'[i] = stream[i + 1]
           /\ stream' = <<>> <=> Len(stream) = 1
<1>1. Len(stream) \in Nat /\ Len(stream) >= 1 /\ Head(stream) = stream[1]
  BY LenProperties
<1>2. /\ stream' \in Seq(Op) /\ Len(stream') = Len(stream) - 1
      /\ \A i \in 1 .. Len(stream) - 1 : stream'[i] = stream[i + 1]
  BY HeadTailProperties DEF Pop
<1>3. stream' = <<>> <=> Len(stream') = 0
  BY <1>2, EmptySeq
<1>4. QED
  BY <1>1, <1>2, <1>3

(* An operation that comes after another still does when the head is gone. *)
LEMMA LaterStays ==
    ASSUME stream \in Seq(Op), stream # <<>>, Pop, NEW op,
           NEW i \in 0 .. Len(stream) - 1, NEW k \in Int,
           \E j \in Places : i + 1 < j /\ j < k + 1 /\ Is(j, op)
    PROVE  \E j \in Places' : i < j /\ j < k /\ Is(j, op)'
<1>1. PICK j \in Places : i + 1 < j /\ j < k + 1 /\ Is(j, op)
  OBVIOUS
<1>2. /\ j - 1 \in Places' /\ i < j - 1 /\ j - 1 < k
      /\ stream'[j - 1] = stream[j]
  BY <1>1, PopFacts DEF Places
<1>3. QED
  BY <1>1, <1>2 DEF Is

(* Taking the head keeps what is promised for the place behind it.         *)
LEMMA PopKeepsResets ==
    ASSUME stream \in Seq(Op), stream # <<>>, Pop,
           NEW k \in 1 .. Len(stream), ResetComes(k + 1),
           \/ ~Is(1, "reset") /\ UNCHANGED <<reference, result>>
           \/ Is(1, "reference") /\ UNCHANGED result
           \/ ~Stale'
    PROVE  ResetComes(k)'
<1>1. ASSUME Stale' PROVE \E j \in Places' : j < k /\ Is(j, "reset")'
  <2>1. \E j \in Places : 1 < j /\ j < k + 1 /\ Is(j, "reset")
    <3>1. CASE Is(1, "reference")
      BY <3>1, PopFacts DEF ResetComes, Places
    <3>2. CASE ~Is(1, "reset") /\ UNCHANGED <<reference, result>>
      BY <3>2, <1>1, PopFacts DEF ResetComes, Places, Stale
    <3>3. QED
      BY <3>1, <3>2, <1>1
  <2>2. 0 \in 0 .. Len(stream) - 1 /\ k \in Int /\ \A j \in Places : 1 < j <=> 0 + 1 < j
    BY PopFacts DEF Places
  <2>3. \E j \in Places' : 0 < j /\ j < k /\ Is(j, "reset")'
    <3>1. \E j \in Places : 0 + 1 < j /\ j < k + 1 /\ Is(j, "reset")
      BY <2>1
    <3>2. QED
      BY <2>2, <3>1, LaterStays
  <2>4. QED
    BY <2>3
<1>2. ASSUME NEW i \in Places', i < k, Is(i, "reference")'
      PROVE  \E j \in Places' : i < j /\ j < k /\ Is(j, "reset")'
  <2>1. i + 1 \in Places /\ Is(i + 1, "reference") /\ i \in 0 .. Len(stream) - 1
    BY <1>2, PopFacts DEF Places, Is
  <2>2. \E j \in Places : i + 1 < j /\ j < k + 1 /\ Is(j, "reset")
    BY <1>2, <2>1 DEF ResetComes, Places
  <2>3. QED
    BY <2>1, <2>2, LaterStays
<1>3. QED
  BY <1>1, <1>2 DEF ResetComes

(* When no operation of a kind is left, none was behind the head.          *)
LEMMA NoneBehind ==
    ASSUME stream \in Seq(Op), stream # <<>>, Pop, NEW op,
           \A i \in Places' : ~Is(i, op)'
    PROVE  \A i \in Places : i > 1 => ~Is(i, op)
<1>1. SUFFICES ASSUME NEW i \in Places, i > 1 PROVE ~Is(i, op)
  OBVIOUS
<1>2. i - 1 \in Places' /\ stream'[i - 1] = stream[i]
  BY <1>1, PopFacts DEF Places
<1>3. QED
  BY <1>2 DEF Is

(* Every kernel keeps its reset while the head is taken.                   *)
LEMMA PopKeepsTracks ==
    ASSUME EngineInv, stream # <<>>, Pop, UNCHANGED <<host, session>>,
           \/ ~Is(1, "reset") /\ UNCHANGED <<reference, result>>
           \/ Is(1, "reference") /\ UNCHANGED result
           \/ ~Stale'
    PROVE  Tracks'
<1> USE DEF EngineInv, HostTypes
<1>1. ASSUME NEW k \in Places', Is(k, "kernel")' PROVE ResetComes(k)'
  <2>1. k + 1 \in Places /\ Is(k + 1, "kernel") /\ k \in 1 .. Len(stream)
    BY <1>1, PopFacts DEF Places, Is
  <2>2. QED
    BY <2>1, PopKeepsResets DEF Tracks
<1>2. ASSUME step' \in Uploaded PROVE ResetComes(Len(stream) + 1)'
  <2>1. Len(stream) \in 1 .. Len(stream) /\ ResetComes(Len(stream) + 1)
    BY <1>2, PopFacts DEF Tracks, host
  <2>2. Len(stream') + 1 = Len(stream)
    BY PopFacts
  <2>3. QED
    BY <2>1, <2>2, PopKeepsResets
<1>3. ~Kept'
  BY DEF Coming, Kept, host
<1>4. QED
  BY <1>1, <1>2, <1>3 DEF Tracks

(* The images that the device will have are as promised when it has taken  *)
(* the head.                                                               *)
LEMMA PopKeepsImage ==
    ASSUME stream \in Seq(Op), stream # <<>>, Pop, UNCHANGED memory,
           NEW op, NEW image, NEW frame, ImageComes(op, image, frame),
           NEW next, next = IF Is(1, op) THEN memory[stream[1].from] ELSE image
    PROVE  /\ \A i \in Places' :
                 Is(i, op)' =>
                     \/ memory'[stream'[i].from] = frame
                     \/ \E j \in Places' : j > i /\ Is(j, op)'
           /\ (\A i \in Places' : ~Is(i, op)') => next = frame
<1>1. ASSUME NEW i \in Places', Is(i, op)'
      PROVE  \/ memory'[stream'[i].from] = frame
             \/ \E j \in Places' : j > i /\ Is(j, op)'
  <2>1. i + 1 \in Places /\ stream'[i] = stream[i + 1] /\ i \in 0 .. Len(stream) - 1
    BY PopFacts DEF Places
  <2>2. CASE \E j \in Places : j > i + 1 /\ Is(j, op)
    <3>1. /\ Len(stream) + 1 \in Int
          /\ \E j \in Places :
                 i + 1 < j /\ j < (Len(stream) + 1) + 1 /\ Is(j, op)
      BY <2>2, PopFacts DEF Places
    <3>2. \E j \in Places' : i < j /\ j < Len(stream) + 1 /\ Is(j, op)'
      BY <3>1, <2>1, LaterStays
    <3>3. QED
      BY <3>2 DEF Places
  <2>3. QED
    BY <1>1, <2>1, <2>2 DEF ImageComes, Is
<1>2. ASSUME \A i \in Places' : ~Is(i, op)' PROVE next = frame
  <2>1. \A i \in Places : i > 1 => ~Is(i, op)
    BY <1>2, NoneBehind
  <2>2. 1 \in Places /\ Places \subseteq Int
    BY PopFacts DEF Places
  <2>3. QED
    BY <2>1, <2>2 DEF ImageComes, Places
<1>3. QED
  BY <1>1, <1>2

(* The reference still comes, or has come, when the head is taken.         *)
LEMMA PopKeepsReference ==
    ASSUME stream \in Seq(Op), stream # <<>>, Pop, ReferenceComes,
           UNCHANGED <<memory, session>>,
           reference' = IF Is(1, "reference") THEN memory[stream[1].from]
                                              ELSE reference
    PROVE  ReferenceComes'
BY PopKeepsImage DEF ReferenceComes, ImageComes

(* So does the measured image.                                             *)
LEMMA PopKeepsDeformed ==
    ASSUME stream \in Seq(Op), stream # <<>>, Pop, DeformedComes,
           UNCHANGED <<memory, input>>,
           deformed' = IF Is(1, "deformed") THEN memory[stream[1].from]
                                            ELSE deformed
    PROVE  DeformedComes'
BY PopKeepsImage DEF DeformedComes, ImageComes

(* The statistics are those of the reference the device then has.          *)
LEMMA PopKeepsStatistics ==
    ASSUME stream \in Seq(Op), stream # <<>>, Pop, ReferenceComes, StatisticsCome,
           UNCHANGED session,
           statistics' = IF Is(1, "statistics") THEN reference ELSE statistics
    PROVE  StatisticsCome'
<1> SUFFICES ASSUME InverseCompositional PROVE StatisticsCome'
  BY DEF StatisticsCome
<1>1. ASSUME NEW i \in Places', Is(i, "reference")'
      PROVE  \E j \in Places' : j > i /\ Is(j, "statistics")'
  <2>1. i + 1 \in Places /\ stream'[i] = stream[i + 1] /\ i \in 0 .. Len(stream) - 1
    BY PopFacts DEF Places
  <2>2. /\ Len(stream) + 1 \in Int
        /\ \E j \in Places :
               i + 1 < j /\ j < (Len(stream) + 1) + 1 /\ Is(j, "statistics")
    BY <1>1, <2>1, PopFacts DEF StatisticsCome, Places, Is
  <2>3. \E j \in Places' : i < j /\ j < Len(stream) + 1 /\ Is(j, "statistics")'
    BY <2>1, <2>2, LaterStays
  <2>4. QED
    BY <2>3 DEF Places
<1>2. ASSUME \A i \in Places' : ~Is(i, "statistics")'
      PROVE  statistics' = session'.frame
  <2>1. \A i \in Places : i > 1 => ~Is(i, "statistics")
    BY <1>2, NoneBehind
  <2>2. 1 \in Places /\ Places \subseteq Int
    BY PopFacts DEF Places
  <2>3. CASE Is(1, "statistics")
    <3>1. \A i \in Places : ~Is(i, "reference")
      BY <2>1, <2>2, <2>3 DEF StatisticsCome, Is, Places
    <3>2. QED
      BY <2>3, <3>1 DEF ReferenceComes, ImageComes
  <2>4. CASE ~Is(1, "statistics")
    BY <2>1, <2>2, <2>4 DEF StatisticsCome, Places
  <2>5. QED
    BY <2>3, <2>4
<1>3. QED
  BY <1>1, <1>2 DEF StatisticsCome

(* The kernel and the download are the last operations, whatever is taken  *)
(* before them.                                                            *)
LEMMA PopKeepsResult ==
    ASSUME EngineInv, step = "await", stream # <<>>, Pop,
           UNCHANGED <<session, input>>,
           \/ /\ ~Is(1, "kernel") /\ ~Is(1, "download")
              /\ UNCHANGED launched
           \/ /\ Is(1, "kernel") /\ launched /\ at[0] = "done"
              /\ UNCHANGED result /\ launched' = FALSE
           \/ /\ Is(1, "download") /\ download' = result
              /\ UNCHANGED launched
    PROVE  ResultComes'
<1> USE DEF EngineInv, HostTypes
<1>1. ResultComes /\ (launched => Is(1, "kernel"))
  BY DEF Coming, InPlace
<1>2. /\ Len(stream) \in Nat /\ Len(stream) >= 1 /\ Len(stream') = Len(stream) - 1
      /\ stream' = <<>> <=> Len(stream) = 1
  BY PopFacts
<1>3. CASE Len(stream) = 1
  BY <1>1, <1>2, <1>3 DEF ResultComes, OfThisPair, Is
<1>4. CASE Len(stream) = 2
  <2>1. Is(1, "kernel") /\ Is(2, "download")
    BY <1>1, <1>4 DEF ResultComes
  <2>2. stream'[1] = stream[2]
    BY <1>4, PopFacts
  <2>3. launched /\ at[0] = "done" /\ UNCHANGED result /\ launched' = FALSE
    BY <2>1 DEF Is
  <2>4. OfThisPair(result)
    BY <1>1, <1>4, <2>3 DEF ResultComes
  <2>5. QED
    BY <1>2, <1>4, <2>1, <2>2, <2>3, <2>4 DEF ResultComes, OfThisPair, Is
<1>5. CASE Len(stream) >= 3
  <2>1. Is(Len(stream), "download") /\ Is(Len(stream) - 1, "kernel")
    BY <1>1, <1>2, <1>5 DEF ResultComes
  <2>2. /\ stream'[Len(stream')] = stream[Len(stream)]
        /\ stream'[Len(stream') - 1] = stream[Len(stream) - 1]
    <3>1. /\ Len(stream) - 1 \in 1 .. Len(stream) - 1
          /\ Len(stream) - 2 \in 1 .. Len(stream) - 1
      BY <1>2, <1>5
    <3>2. /\ stream'[Len(stream) - 1] = stream[(Len(stream) - 1) + 1]
          /\ stream'[Len(stream) - 2] = stream[(Len(stream) - 2) + 1]
      BY <3>1, PopFacts
    <3>3. QED
      BY <1>2, <1>5, <3>2
  <2>3. ~launched'
    BY <1>1 DEF Is
  <2>4. QED
    BY <1>2, <1>5, <2>1, <2>2, <2>3 DEF ResultComes, Is
<1>6. QED
  BY <1>2, <1>3, <1>4, <1>5

(* What a step of the kernel does to the point's result.                   *)
LEMMA KernelResult ==
    ASSUME KernelInv, NEW f, KernelStep(f)
    PROVE  /\ UNCHANGED images
           /\ \/ UNCHANGED result /\ (at'[0] = "done" => at[0] = "done")
              \/ /\ result'.reference = reference
                 /\ result'.deformed = deformed
                 /\ result'.matrix = IF InverseCompositional
                                     THEN statistics ELSE reference
<1>1. CASE Synchronise
  BY <1>1, ZeroIsWarp DEF Synchronise, After, Barrier
<1>2. ASSUME NEW w \in Warp, Write(w)
      PROVE  /\ UNCHANGED images
             /\ \/ UNCHANGED result /\ (at'[0] = "done" => at[0] = "done")
                \/ /\ result'.reference = reference
                   /\ result'.deformed = deformed
                   /\ result'.matrix = IF InverseCompositional
                                       THEN statistics ELSE reference
  BY <1>2, ZeroIsWarp DEF Write, Goto, KernelInv, RegistersTyped
<1>3. ASSUME NEW w \in Warp, WarpStep(w, f), ~Write(w)
      PROVE  UNCHANGED <<images, result>> /\ (at'[0] = "done" => at[0] = "done")
  BY <1>3, ZeroIsWarp DEF WarpStep, Seed, Sample, Deposit, Combine, Solve,
     Decide, Goto, KernelInv, RegistersTyped
<1>4. QED
  BY <1>1, <1>2, <1>3 DEF KernelStep

(* A stream is empty exactly when its length is zero.                      *)
LEMMA EmptyStream ==
    ASSUME stream \in Seq(Op)
    PROVE  Len(stream) \in Nat /\ (stream = <<>> <=> Len(stream) = 0)
BY EmptySeq, LenProperties

(* The device takes images, resets and statistics from the stream.         *)
LEMMA TakingKeepsEngine ==
    ASSUME EngineInv, KernelInv',
           CopyReference \/ CopyDeformed \/ Reset \/ Precompute \/ KernelEnds
              \/ Download
    PROVE  EngineInv'
<1> USE DEF EngineInv
<1>1. /\ stream \in Seq(Op) /\ stream # <<>> /\ Pop
      /\ UNCHANGED <<callerVars, host>>
  BY DEF HostTypes, CopyReference, CopyDeformed, Reset, Precompute, KernelEnds,
         Download, Pending, InPlace
<1>2. Head(stream) = stream[1]
  BY <1>1, PopFacts
<1>3. /\ \/ UNCHANGED launched /\ ~launched
         \/ launched' = FALSE
      /\ launched' = FALSE
  BY <1>2 DEF HostTypes, CopyReference, CopyDeformed, Reset, Precompute, KernelEnds,
         Download, Pending, InPlace, Is
<1>4. HostTypes'
  BY <1>1, <1>3, PopFacts DEF HostTypes, Held, callerVars, host
<1>5. InPlace'
  BY <1>1, <1>3 DEF InPlace, callerVars, host, Source
<1>6. reference' = IF Is(1, "reference") THEN memory[stream[1].from]
                                         ELSE reference
  BY <1>2 DEF CopyReference, CopyDeformed, Reset, Precompute, KernelEnds,
         Download, Pending, Is, kernelVars, images, InPlace
<1>7. deformed' = IF Is(1, "deformed") THEN memory[stream[1].from]
                                       ELSE deformed
  BY <1>2 DEF CopyReference, CopyDeformed, Reset, Precompute, KernelEnds,
         Download, Pending, Is, kernelVars, images, InPlace
<1>8. statistics' = IF Is(1, "statistics") THEN reference ELSE statistics
  BY <1>2 DEF CopyReference, CopyDeformed, Reset, Precompute, KernelEnds,
         Download, Pending, Is, kernelVars, images, InPlace
<1>9. Coming'
  <2>1. step \in Uploaded => ReferenceComes' /\ StatisticsCome'
    BY <1>1, <1>6, <1>8, PopKeepsReference, PopKeepsStatistics
       DEF Coming, callerVars
  <2>2. step \in {"launch", "await", "return"} => DeformedComes'
    BY <1>1, <1>7, PopKeepsDeformed DEF Coming, callerVars
  <2>3. step = "await" => ResultComes'
    <3>1. \/ /\ ~Is(1, "kernel") /\ ~Is(1, "download")
             /\ UNCHANGED launched
          \/ /\ Is(1, "kernel") /\ launched /\ at[0] = "done"
             /\ UNCHANGED result /\ launched' = FALSE
          \/ /\ Is(1, "download") /\ download' = result
             /\ UNCHANGED launched
      BY <1>2, ZeroIsWarp DEF CopyReference, CopyDeformed, Reset, Precompute, KernelEnds,
         Download, Pending, Is, kernelVars, InPlace, Finished
    <3>2. QED
      BY <1>1, <3>1, PopKeepsResult DEF callerVars
  <2>4. step # "return" /\ ~Kept
    BY <1>1 DEF Coming
  <2>5. QED
    BY <1>1, <2>1, <2>2, <2>3, <2>4 DEF Coming, Kept, callerVars, host, Uploaded
<1>10. Tracks'
  <2>1. \/ ~Is(1, "reset") /\ UNCHANGED <<reference, result>>
        \/ Is(1, "reference") /\ UNCHANGED result
        \/ ~Stale'
    BY <1>2 DEF CopyReference, CopyDeformed, Reset, Precompute, KernelEnds,
         Download, Pending, Is, kernelVars, images, InPlace, Stale, NoResult
  <2>2. QED
    BY <1>1, <2>1, PopKeepsTracks DEF callerVars
<1>11. QED
  BY <1>4, <1>5, <1>9, <1>10

(* The device runs the kernel, on the images it has.                       *)
LEMMA KernelKeepsEngine ==
    ASSUME EngineInv, KernelInv', KernelBegins \/ KernelRuns
    PROVE  EngineInv'
<1> USE DEF EngineInv
<1>1. /\ stream \in Seq(Op) /\ stream # <<>> /\ Len(stream) \in Nat
      /\ Head(stream) = stream[1] /\ Len(stream) >= 1
  BY LenProperties, EmptySeq
     DEF HostTypes, KernelBegins, KernelRuns, Pending, InPlace
<1>2. Is(1, "kernel") /\ 1 \in Places /\ Places \subseteq Int
  BY <1>1 DEF KernelBegins, KernelRuns, Pending, InPlace, Is, Places
<1>3. /\ UNCHANGED <<memory, frames, session, input, step, allocated, cached,
                     stream, download, reference, deformed, statistics>>
      /\ launched' = TRUE
  BY KernelResult DEF KernelBegins, KernelRuns, BeginBlock, callerVars, host,
     device, images
<1>4. \/ UNCHANGED result /\ (at'[0] = "done" => launched /\ at[0] = "done")
      \/ /\ result'.reference = reference /\ result'.deformed = deformed
         /\ result'.matrix = IF InverseCompositional
                             THEN statistics ELSE reference
  BY KernelResult, ZeroIsWarp DEF KernelBegins, KernelRuns, BeginBlock
<1>5. HostTypes' /\ InPlace'
  BY <1>1, <1>2, <1>3 DEF HostTypes, Held, InPlace, Source, Is
<1>6. ASSUME step = "await" PROVE ResultComes'
  <2>1. ResultComes /\ ReferenceComes /\ StatisticsCome /\ DeformedComes
    BY <1>6 DEF Coming, Uploaded
  <2>2. Len(stream) # 1
    BY <1>2, <2>1 DEF ResultComes, Is
  <2>3. ASSUME Len(stream) = 2 PROVE at'[0] = "done" => OfThisPair(result)'
    <3>1. \A i \in Places :
              ~Is(i, "reference") /\ ~Is(i, "statistics") /\ ~Is(i, "deformed")
      BY <1>2, <2>1, <2>3 DEF ResultComes, Is, Places
    <3>2. /\ reference = session.frame /\ deformed = input.frame
          /\ InverseCompositional => statistics = session.frame
      BY <2>1, <3>1 DEF ReferenceComes, StatisticsCome, DeformedComes, ImageComes
    <3>3. QED
      BY <1>3, <1>4, <2>1, <2>3, <3>2 DEF ResultComes, OfThisPair
  <2>4. QED
    BY <1>1, <1>3, <2>1, <2>2, <2>3 DEF ResultComes, OfThisPair, Is
<1>7. Coming'
  <2>1. (step \in Uploaded => ReferenceComes' /\ StatisticsCome')
        /\ (step \in {"launch", "await", "return"} => DeformedComes')
    BY <1>3 DEF Coming, ReferenceComes, StatisticsCome, DeformedComes,
       ImageComes, Places, Is
  <2>2. step # "return" /\ ~Kept
    BY <1>1 DEF Coming
  <2>3. QED
    BY <1>3, <1>6, <2>1, <2>2 DEF Coming, Kept, Uploaded
<1>8. Tracks'
  <2>1. ~Stale'
    <3>1. ~Stale
      BY <1>2 DEF Tracks, ResetComes, Places
    <3>2. QED
      BY <1>3, <1>4, <3>1 DEF Stale
  <2>2. QED
    BY <1>3, <2>1 DEF Tracks, ResetComes, Places, Is, Kept, Uploaded
<1>9. QED
  BY <1>5, <1>7, <1>8

-----------------------------------------------------------------------------
(* The host puts operations behind those in the stream.                    *)
LEMMA AppendFacts ==
    ASSUME stream \in Seq(Op), NEW ops \in Seq(Op), stream' = stream \o ops
    PROVE  /\ stream' \in Seq(Op)
           /\ Len(stream) \in Nat /\ Len(ops) \in Nat
           /\ Len(stream') = Len(stream) + Len(ops)
           /\ \A i \in Places : i \in Places' /\ stream'[i] = stream[i]
           /\ \A i \in 1 .. Len(ops) : stream'[Len(stream) + i] = ops[i]
           /\ \A i \in Places' :
                  i \in Places \/ \E n \in 1 .. Len(ops) : i = Len(stream) + n
           /\ stream # <<>> => stream' # <<>>
<1>1. /\ Len(stream) \in Nat /\ Len(ops) \in Nat
      /\ stream' \in Seq(Op) /\ Len(stream') = Len(stream) + Len(ops)
  BY LenProperties, ConcatProperties
<1>2. \A i \in Places : i \in Places' /\ stream'[i] = stream[i]
  BY <1>1, ConcatProperties DEF Places
<1>3. \A i \in 1 .. Len(ops) : stream'[Len(stream) + i] = ops[i]
  BY <1>1, ConcatProperties
<1>4. \A i \in Places' :
          i \in Places \/ \E n \in 1 .. Len(ops) : i = Len(stream) + n
  <2>1. SUFFICES ASSUME NEW i \in Places', i \notin Places
                 PROVE  \E n \in 1 .. Len(ops) : i = Len(stream) + n
    OBVIOUS
  <2>2. i - Len(stream) \in 1 .. Len(ops) /\ i = Len(stream) + (i - Len(stream))
    BY <2>1, <1>1 DEF Places
  <2>3. QED
    BY <2>2
<1>5. stream # <<>> => stream' # <<>>
  BY <1>1, EmptySeq
<1>6. QED
  BY <1>1, <1>2, <1>3, <1>4, <1>5

(* A reset that comes before a place still does.                           *)
LEMMA AppendKeepsResets ==
    ASSUME stream \in Seq(Op), NEW ops \in Seq(Op), stream' = stream \o ops,
           UNCHANGED <<reference, result>>,
           NEW k \in 1 .. Len(stream) + 1, ResetComes(k)
    PROVE  ResetComes(k)'
<1>1. ASSUME Stale' PROVE \E j \in Places' : j < k /\ Is(j, "reset")'
  BY <1>1, AppendFacts DEF ResetComes, Stale, Is
<1>2. ASSUME NEW i \in Places', i < k, Is(i, "reference")'
      PROVE  \E j \in Places' : i < j /\ j < k /\ Is(j, "reset")'
  <2>1. i \in Places /\ Is(i, "reference")
    BY <1>2, AppendFacts DEF Places, Is
  <2>2. PICK j \in Places : i < j /\ j < k /\ Is(j, "reset")
    BY <1>2, <2>1 DEF ResetComes
  <2>3. QED
    BY <2>2, AppendFacts DEF Is
<1>3. QED
  BY <1>1, <1>2 DEF ResetComes

(* A kernel is only enqueued where a reset comes before it.                *)
LEMMA AppendKeepsKernels ==
    ASSUME EngineInv, NEW ops \in Seq(Op), stream' = stream \o ops,
           UNCHANGED <<reference, result>>,
           \A n \in 1 .. Len(ops) :
               ops[n].op = "kernel" => n = 1 /\ step = "launch"
    PROVE  \A k \in Places' : Is(k, "kernel")' => ResetComes(k)'
<1> USE DEF EngineInv, HostTypes
<1>1. SUFFICES ASSUME NEW k \in Places', Is(k, "kernel")'
               PROVE  ResetComes(k)'
  OBVIOUS
<1>2. CASE k \in Places
  <2>1. k \in 1 .. Len(stream) + 1 /\ Is(k, "kernel")
    BY <1>1, <1>2, AppendFacts DEF Places, Is
  <2>2. QED
    BY <2>1, <1>2, AppendKeepsResets DEF Tracks
<1>3. CASE k \notin Places
  <2>1. PICK n \in 1 .. Len(ops) : k = Len(stream) + n
    BY <1>1, <1>3, AppendFacts
  <2>2. ops[n].op = "kernel" /\ Len(stream) \in Nat
    BY <1>1, <2>1, AppendFacts DEF Is
  <2>3. k = Len(stream) + 1 /\ step = "launch"
    BY <2>1, <2>2
  <2>4. k \in 1 .. Len(stream) + 1 /\ ResetComes(k)
    BY <2>2, <2>3 DEF Tracks, Uploaded
  <2>5. QED
    BY <2>4, AppendKeepsResets
<1>4. QED
  BY <1>2, <1>3

(* An image that comes still does behind other operations.                 *)
LEMMA AppendKeepsImage ==
    ASSUME stream \in Seq(Op), NEW ops \in Seq(Op), stream' = stream \o ops,
           UNCHANGED memory,
           NEW op, NEW image, NEW frame, ImageComes(op, image, frame),
           \A n \in 1 .. Len(ops) : ops[n].op # op
    PROVE  /\ \A i \in Places' :
                 Is(i, op)' =>
                     \/ memory'[stream'[i].from] = frame
                     \/ \E j \in Places' : j > i /\ Is(j, op)'
           /\ (\A i \in Places' : ~Is(i, op)') => image = frame
<1>1. ASSUME NEW i \in Places', Is(i, op)' PROVE i \in Places /\ Is(i, op)
  <2>1. ASSUME NEW n \in 1 .. Len(ops), i = Len(stream) + n PROVE FALSE
    BY <1>1, <2>1, AppendFacts DEF Is
  <2>2. QED
    BY <1>1, <2>1, AppendFacts DEF Is
<1>2. \A i \in Places : Is(i, op) => i \in Places' /\ Is(i, op)'
  BY AppendFacts DEF Is
<1>3. \A i \in Places : stream'[i] = stream[i]
  BY AppendFacts
<1>4. QED
  BY <1>1, <1>2, <1>3 DEF ImageComes

(* An image comes when a copy of it is enqueued last.                      *)
LEMMA AppendedImage ==
    ASSUME stream \in Seq(Op), NEW ops \in Seq(Op), stream' = stream \o ops,
           UNCHANGED memory,
           NEW op, NEW image, NEW frame,
           Len(ops) >= 1, ops[1].op = op, memory[ops[1].from] = frame,
           \A n \in 1 .. Len(ops) : n # 1 => ops[n].op # op
    PROVE  /\ \A i \in Places' :
                 Is(i, op)' =>
                     \/ memory'[stream'[i].from] = frame
                     \/ \E j \in Places' : j > i /\ Is(j, op)'
           /\ (\A i \in Places' : ~Is(i, op)') => image = frame
<1>1. PICK last \in Places' :
          last = Len(stream) + 1 /\ stream'[last] = ops[1] /\ last \in Nat
  BY AppendFacts DEF Places
<1>2. ASSUME NEW i \in Places', Is(i, op)', i # last PROVE last > i
  <2>1. ASSUME NEW n \in 1 .. Len(ops), i = Len(stream) + n PROVE FALSE
    BY <1>1, <1>2, <2>1, AppendFacts DEF Is
  <2>2. i \in Places
    BY <2>1, AppendFacts
  <2>3. QED
    BY <1>1, <2>2, AppendFacts DEF Places
<1>3. Is(last, op)' /\ memory'[stream'[last].from] = frame
  BY <1>1 DEF Is
<1>4. QED
  BY <1>1, <1>2, <1>3

(* A call of the device fails: process throws, and what it had enqueued    *)
(* stays in the stream.                                                    *)
LEMMA ThrowKeepsEngine ==
    ASSUME EngineInv, KernelInv', NEW ops \in Seq(Op), stream' = stream \o ops,
           step' = "idle", session' = None, cached' \in Held,
           UNCHANGED <<memory, frames, input, launched, reference, result>>,
           \A n \in 1 .. Len(ops) :
               ops[n].op = "kernel" => n = 1 /\ step = "launch"
    PROVE  EngineInv'
<1> USE DEF EngineInv
<1>1. HostTypes'
  <2>1. stream' \in Seq(Op)
    BY AppendFacts DEF HostTypes
  <2>2. session' \in Held
    BY DEF HostTypes, Held, None, Frames
  <2>3. QED
    BY <2>1, <2>2 DEF HostTypes, Held, Step
<1>2. InPlace'
  BY AppendFacts DEF HostTypes, InPlace, None, Is, Places
<1>3. Coming' /\ ~Kept'
  BY DEF Coming, Kept, Uploaded
<1>4. Tracks'
  BY <1>3, AppendKeepsKernels DEF Tracks, Uploaded
<1>5. QED
  BY <1>1, <1>2, <1>3, <1>4

(* Every stream is itself with nothing behind it.                          *)
LEMMA NothingAppended ==
    ASSUME stream \in Seq(Op)
    PROVE  <<>> \in Seq(Op) /\ stream = stream \o <<>> /\ Len(<<>>) = 0
BY EmptySeq, ConcatEmptySeq

(* Sessions begin, and calls, which may fail at once.                      *)
LEMMA BeginningsKeepEngine ==
    ASSUME EngineInv, KernelInv', BeginSession \/ Process \/ AllocateFails
    PROVE  EngineInv'
<1> USE DEF EngineInv
<1>1. CASE BeginSession
  <2>1. PICK b \in Buffers :
            NewFrame(b) /\ session' = [buffer |-> b, frame |-> frames + 1]
    BY <1>1 DEF BeginSession
  <2>2. frames \in Nat /\ frames + 1 \in Frames /\ frames' = frames + 1
    BY <2>1, EngineAssumption DEF HostTypes, NewFrame, Frames
  <2>3. memory' \in [Buffers \cup Staging -> Frames] /\ memory'[b] = frames + 1
    BY <2>1, <2>2 DEF HostTypes, NewFrame
  <2>4. Held \subseteq Held' /\ session' \in Held'
    BY <2>1, <2>2 DEF Held
  <2>5. cached' = cached /\ cached # session'
    BY <1>1, <2>1, <2>2 DEF BeginSession, host, HostTypes, Held
  <2>6. HostTypes'
    BY <1>1, <2>2, <2>3, <2>4 DEF BeginSession, host, device, HostTypes
  <2>7. InPlace'
    BY <1>1, <2>1, <2>3 DEF BeginSession, host, device, InPlace, Is
  <2>8. Coming' /\ ~Kept'
    BY <1>1, <2>5 DEF BeginSession, host, Coming, Kept, Uploaded
  <2>9. Tracks'
    BY <1>1, <2>8 DEF BeginSession, host, device, kernelVars, images, Tracks,
       Uploaded, ResetComes, Stale, Places, Is
  <2>10. QED
    BY <2>6, <2>7, <2>8, <2>9
<1>2. CASE Process
  <2>1. PICK b \in Buffers \ {session.buffer} :
            NewFrame(b) /\ input' = [buffer |-> b, frame |-> frames + 1]
    BY <1>2 DEF Process
  <2>2. frames \in Nat /\ frames + 1 \in Frames /\ frames' = frames + 1
    BY <2>1, EngineAssumption DEF HostTypes, NewFrame, Frames
  <2>3. /\ memory' \in [Buffers \cup Staging -> Frames]
        /\ memory'[b] = frames + 1
        /\ session.buffer \in Buffers
        /\ memory'[session.buffer] = memory[session.buffer]
    BY <1>2, <2>1, <2>2 DEF Process, HostTypes, NewFrame, InPlace
  <2>4. Held \subseteq Held' /\ input' \in Held' /\ None \in Held'
    BY <2>1, <2>2 DEF Held, None
  <2>5. /\ step = "idle" /\ step' = "stage" /\ session # None
        /\ UNCHANGED <<session, stream, launched, images>>
        /\ \/ UNCHANGED <<cached, result>>
           \/ cached' = None /\ result' = NoResult
    BY <1>2 DEF Process, device, images
  <2>6. HostTypes'
    BY <2>2, <2>3, <2>4, <2>5 DEF HostTypes, Step
  <2>7. InPlace'
    BY <2>1, <2>3, <2>5 DEF InPlace, Is
  <2>8. Kept' => Kept /\ UNCHANGED <<cached, result>>
    BY <2>5 DEF Kept
  <2>9. Coming'
    BY <2>5, <2>8 DEF Coming, Uploaded, images
  <2>10. Tracks'
    BY <2>5, <2>8 DEF Tracks, Uploaded, ResetComes, Stale, Places, Is,
       images, NoResult
  <2>11. QED
    BY <2>6, <2>7, <2>9, <2>10
<1>3. CASE AllocateFails
  <2>1. /\ step' = "idle" /\ session' = None
        /\ UNCHANGED <<memory, frames, input, cached, launched, stream,
                       reference, result>>
    BY <1>3 DEF AllocateFails, Throw, device, kernelVars, images
  <2>2. PICK ops \in Seq(Op) : stream' = stream \o ops /\ Len(ops) = 0
    BY <2>1, NothingAppended DEF HostTypes
  <2>3. cached' \in Held
    BY <2>1 DEF HostTypes
  <2>4. \A n \in 1 .. Len(ops) :
            ops[n].op = "kernel" => n = 1 /\ step = "launch"
    BY <2>2
  <2>5. QED
    BY <2>1, <2>2, <2>3, <2>4, ThrowKeepsEngine
<1>4. QED
  BY <1>1, <1>2, <1>3

(* Staging, and what follows the last download.                            *)
LEMMA HostKeepsEngine ==
    ASSUME EngineInv, KernelInv', Stage \/ Await \/ AwaitFails \/ Return
    PROVE  EngineInv'
<1> USE DEF EngineInv
<1>1. CASE Stage
  <2>1. /\ session # None /\ session.buffer \in Buffers
        /\ input.buffer \in Buffers
        /\ memory[session.buffer] = session.frame
        /\ memory[input.buffer] = input.frame
    BY <1>1 DEF Stage, InPlace
  <2>2. /\ memory' \in [Buffers \cup Staging -> Frames]
        /\ \A b \in Buffers : memory'[b] = memory[b]
        /\ UploadReference /\ session.buffer \notin Pinned =>
               memory'["reference_staging"] = memory[session.buffer]
        /\ input.buffer \notin Pinned =>
               memory'["deformed_staging"] = memory[input.buffer]
    BY <1>1, <2>1, EngineAssumption DEF Stage, HostTypes, Staging
  <2>3. /\ step = "stage"
        /\ step' = IF UploadReference THEN "reference" ELSE "deformed"
        /\ UNCHANGED <<frames, session, input, cached, stream, launched,
                       reference, statistics, result>>
    BY <1>1 DEF Stage, device, kernelVars, images
  <2>4. HostTypes'
    BY <2>2, <2>3 DEF HostTypes, Held, Step
  <2>5. memory'[Source(input, "deformed_staging")] = input.frame
    BY <2>1, <2>2 DEF Source
  <2>6. UploadReference =>
            memory'[Source(session, "reference_staging")] = session.frame
    BY <2>1, <2>2 DEF Source
  <2>7. InPlace'
    BY <2>1, <2>2, <2>3, <2>5, <2>6 DEF InPlace, Source, Is
  <2>8. ~UploadReference => Kept
    BY <2>1, <2>3 DEF UploadReference, HostTypes, Held, Kept
  <2>9. ~UploadReference =>
            /\ stream = <<>> /\ reference = session.frame /\ ~Stale
            /\ InverseCompositional => statistics = session.frame
            /\ Places = {} /\ Len(stream) = 0
    BY <2>8 DEF Coming, Tracks, Places
  <2>10. Coming'
    <3>1. CASE UploadReference
      BY <2>3, <3>1 DEF Coming, Uploaded, Kept
    <3>2. CASE ~UploadReference
      <4>1. Places' = {}
        BY <2>3, <2>9, <3>2 DEF Places
      <4>2. QED
        BY <2>3, <2>8, <2>9, <3>2, <4>1 DEF Coming, Uploaded, Kept,
           ReferenceComes, ImageComes, StatisticsCome
    <3>3. QED
      BY <3>1, <3>2
  <2>11. Tracks'
    <3>1. CASE UploadReference
      BY <2>3, <3>1 DEF Tracks, Uploaded, Kept, ResetComes, Stale, Places, Is
    <3>2. CASE ~UploadReference
      <4>1. Places' = {} /\ ~Stale'
        BY <2>3, <2>9, <3>2 DEF Places, Stale
      <4>2. QED
        BY <2>3, <3>2, <4>1 DEF Tracks, Kept, ResetComes
    <3>3. QED
      BY <3>1, <3>2
  <2>12. QED
    BY <2>4, <2>7, <2>10, <2>11
<1>2. CASE Await
  <2>1. /\ step = "await" /\ stream = <<>> /\ step' \in {"launch", "return"}
        /\ UNCHANGED <<memory, frames, session, input, cached, stream,
                       launched, download, images, result>>
    BY <1>2 DEF Await, callerVars, device, kernelVars
  <2>2. HostTypes' /\ InPlace'
    BY <2>1 DEF HostTypes, Held, Step, InPlace, Is, Source
  <2>3. OfThisPair(download) /\ reference = session.frame
    BY <2>1 DEF Coming, ResultComes, Uploaded, ReferenceComes, ImageComes,
       Places
  <2>4. Coming'
    BY <2>1, <2>3 DEF Coming, Uploaded, Kept, ReferenceComes, ImageComes,
       StatisticsCome, DeformedComes, OfThisPair, Places, Is, images
  <2>5. Tracks'
    BY <2>1 DEF Tracks, Uploaded, Kept, ResetComes, Stale, Places, Is, images
  <2>6. QED
    BY <2>2, <2>4, <2>5
<1>3. CASE AwaitFails
  <2>1. /\ step' = "idle" /\ session' = None
        /\ UNCHANGED <<memory, frames, input, cached, launched, stream,
                       reference, result>>
    BY <1>3 DEF AwaitFails, Throw, device, kernelVars, images
  <2>2. PICK ops \in Seq(Op) : stream' = stream \o ops /\ Len(ops) = 0
    BY <2>1, NothingAppended DEF HostTypes
  <2>3. cached' \in Held
    BY <2>1 DEF HostTypes
  <2>4. \A n \in 1 .. Len(ops) :
            ops[n].op = "kernel" => n = 1 /\ step = "launch"
    BY <2>2
  <2>5. QED
    BY <2>1, <2>2, <2>3, <2>4, ThrowKeepsEngine
<1>4. CASE Return
  <2>1. /\ step = "return" /\ step' = "idle" /\ stream = <<>>
        /\ cached = session /\ reference = session.frame
        /\ InverseCompositional => statistics = session.frame
        /\ UNCHANGED <<memory, frames, session, input, cached, stream,
                       launched, images, result>>
    BY <1>4 DEF Return, callerVars, device, kernelVars, Coming, Uploaded,
       StatisticsCome, Places
  <2>2. HostTypes' /\ InPlace'
    BY <2>1 DEF HostTypes, Held, Step, InPlace, Is, Source
  <2>3. ~Stale /\ Places = {}
    BY <2>1 DEF Tracks, Uploaded, ResetComes, Places
  <2>4. Coming' /\ Tracks'
    BY <2>1, <2>3 DEF Coming, Tracks, Uploaded, Kept, Stale, Places, images
  <2>5. QED
    BY <2>2, <2>4
<1>5. QED
  BY <1>1, <1>2, <1>3, <1>4

(* What the host enqueues are operations.                                  *)
LEMMA OperationsTyped ==
    ASSUME HostTypes, InPlace, step # "idle"
    PROVE  /\ ReferenceOperations \in Seq(Op)
           /\ Len(ReferenceOperations) = IF InverseCompositional THEN 3 ELSE 2
           /\ ReferenceOperations[1] =
                  Copy("reference", Source(session, "reference_staging"))
           /\ ReferenceOperations[2].op = "reset"
           /\ InverseCompositional => ReferenceOperations[3].op = "statistics"
           /\ <<Copy("deformed", Source(input, "deformed_staging"))>> \in Seq(Op)
<1>1. Copy("reference", Source(session, "reference_staging")) \in Op
  BY EngineAssumption DEF InPlace, Copy, Source, Op, Staging
<1>2. Copy("deformed", Source(input, "deformed_staging")) \in Op
  BY EngineAssumption DEF InPlace, Copy, Source, Op, Staging
<1>3. Operation("reset") \in Op /\ Operation("statistics") \in Op
  BY DEF Operation, Op
<1>4. QED
  BY <1>1, <1>2, <1>3, KernelAssumption DEF ReferenceOperations, Operation

(* A part of the operations of a call.                                     *)
LEMMA SubOperations ==
    ASSUME NEW operations \in Seq(Op), NEW n \in 0 .. Len(operations)
    PROVE  /\ SubSeq(operations, 1, n) \in Seq(Op)
           /\ Len(SubSeq(operations, 1, n)) = n
           /\ \A i \in 1 .. n : SubSeq(operations, 1, n)[i] = operations[i]
BY SubSeqProperties, LenProperties

(* What an enqueuing call leaves alone.                                    *)
LEMMA EnqueueFrame ==
    ASSUME NEW n, NEW operations, NEW next, Enqueue(n, operations, next)
    PROVE  /\ stream' = stream \o SubSeq(operations, 1, n)
           /\ \/ step' = "idle" /\ session' = None
              \/ n = Len(operations) /\ step' = next /\ UNCHANGED session
           /\ UNCHANGED <<memory, frames, input, launched, download, images,
                          reference, deformed, statistics, result>>
BY DEF Enqueue, Throw, kernelVars, images

(* A new reference is enqueued with its reset and its statistics.          *)
LEMMA EnqueueReferenceKeepsEngine ==
    ASSUME EngineInv, KernelInv', EnqueueReference
    PROVE  EngineInv'
<1> USE DEF EngineInv
<1>1. PICK n \in 0 .. Len(ReferenceOperations) :
          /\ Enqueue(n, ReferenceOperations, "deformed")
          /\ cached' = IF n >= 2 THEN session ELSE cached
  BY DEF EnqueueReference
<1>2. step = "reference" /\ stream \in Seq(Op)
  BY DEF EnqueueReference, HostTypes
<1>3. PICK ops \in Seq(Op) :
          /\ stream' = stream \o ops /\ Len(ops) = n
          /\ \A i \in 1 .. n : ops[i] = ReferenceOperations[i]
  <2>1. ReferenceOperations \in Seq(Op)
    BY <1>2, OperationsTyped
  <2>2. stream' = stream \o SubSeq(ReferenceOperations, 1, n)
    BY <1>1, EnqueueFrame
  <2>3. /\ SubSeq(ReferenceOperations, 1, n) \in Seq(Op)
        /\ Len(SubSeq(ReferenceOperations, 1, n)) = n
        /\ \A i \in 1 .. n :
               SubSeq(ReferenceOperations, 1, n)[i] = ReferenceOperations[i]
    BY <2>1, SubOperations
  <2>4. QED
    BY <2>2, <2>3
<1>4. \A i \in 1 .. Len(ops) : ops[i].op # "kernel" /\ ops[i].op # "deformed"
  <2>1. SUFFICES ASSUME NEW i \in 1 .. n
                 PROVE  ops[i].op # "kernel" /\ ops[i].op # "deformed"
    BY <1>3
  <2>2. /\ n \in 0 .. IF InverseCompositional THEN 3 ELSE 2
        /\ ReferenceOperations[1].op = "reference"
        /\ ReferenceOperations[2].op = "reset"
        /\ InverseCompositional => ReferenceOperations[3].op = "statistics"
    <3>1. Len(ReferenceOperations) = IF InverseCompositional THEN 3 ELSE 2
      BY <1>2, OperationsTyped
    <3>2. n \in 0 .. IF InverseCompositional THEN 3 ELSE 2
      BY <3>1
    <3>3. QED
      BY <1>2, <3>2, OperationsTyped DEF Copy
  <2>3. i = 1 \/ i = 2 \/ (i = 3 /\ InverseCompositional)
    BY <2>1, <2>2
  <2>4. ops[i] = ReferenceOperations[i]
    BY <1>3, <2>1
  <2>5. QED
    BY <2>2, <2>3, <2>4
<1>5. cached' \in Held
  BY <1>1 DEF HostTypes
<1>6. CASE step' = "idle" /\ session' = None
  BY <1>1, <1>3, <1>4, <1>5, <1>6, EnqueueFrame, ThrowKeepsEngine
<1>7. CASE n = Len(ReferenceOperations) /\ step' = "deformed" /\ UNCHANGED session
  <2>1. /\ UNCHANGED <<memory, frames, input, launched, reference, result>>
        /\ cached' = session
    BY <1>1, <1>2, <1>7, EnqueueFrame, OperationsTyped
  <2>2. /\ Len(ops) = IF InverseCompositional THEN 3 ELSE 2
        /\ ops[1] = Copy("reference", Source(session, "reference_staging"))
        /\ ops[2].op = "reset"
        /\ InverseCompositional => ops[3].op = "statistics"
    BY <1>2, <1>3, <1>7, OperationsTyped
  <2>3. HostTypes'
    BY <1>3, <1>7, <2>1, AppendFacts DEF HostTypes, Held, Step
  <2>4. InPlace'
    BY <1>2, <1>3, <1>7, <2>1, AppendFacts DEF InPlace, Is, Source, Places
  <2>5. ReferenceComes'
    <3>1. /\ Len(ops) >= 1 /\ ops[1].op = "reference"
          /\ memory[ops[1].from] = session.frame
          /\ \A i \in 1 .. Len(ops) : i # 1 => ops[i].op # "reference"
      BY <1>2, <2>2 DEF InPlace, Copy
    <3>2. /\ UNCHANGED <<session, memory, reference>>
          /\ stream \in Seq(Op) /\ stream' = stream \o ops
      BY <1>2, <1>3, <1>7, <2>1
    <3>3. /\ \A i \in Places' :
                Is(i, "reference")' =>
                    \/ memory'[stream'[i].from] = session.frame
                    \/ \E j \in Places' : j > i /\ Is(j, "reference")'
          /\ (\A i \in Places' : ~Is(i, "reference")') =>
                reference = session.frame
      BY <3>1, <3>2, AppendedImage
    <3>4. QED
      BY <3>2, <3>3 DEF ReferenceComes, ImageComes
  <2>6. StatisticsCome'
    <3>1. SUFFICES ASSUME InverseCompositional PROVE StatisticsCome'
      BY DEF StatisticsCome
    <3>2. PICK last \in Places' : last = Len(stream) + 3 /\ stream'[last] = ops[3]
      <4>1. /\ Len(ops) = 3 /\ 3 \in 1 .. Len(ops) /\ Len(stream) \in Nat
            /\ Len(stream') = Len(stream) + 3
        <5>1. Len(ops) = 3
          BY <2>2, <3>1
        <5>2. 3 \in 1 .. Len(ops)
          BY <5>1
        <5>3. /\ Len(stream) \in Nat
              /\ Len(stream') = Len(stream) + Len(ops)
          BY <1>2, <1>3, AppendFacts
        <5>4. QED
          BY <5>1, <5>2, <5>3
      <4>2. stream'[Len(stream) + 3] = ops[3]
        BY <1>2, <1>3, <4>1, AppendFacts
      <4>3. QED
        BY <4>1, <4>2 DEF Places
    <3>3. ASSUME NEW i \in Places', Is(i, "reference")' PROVE last > i
      <4>1. i # last
        BY <2>2, <3>1, <3>2, <3>3 DEF Is
      <4>2. /\ Len(stream) \in Nat /\ Len(stream') = Len(stream) + 3
        BY <1>2, <1>3, <2>2, <3>1, AppendFacts
      <4>3. QED
        BY <3>2, <3>3, <4>1, <4>2 DEF Places
    <3>4. Is(last, "statistics")'
      BY <2>2, <3>1, <3>2 DEF Is
    <3>5. QED
      BY <3>2, <3>3, <3>4 DEF StatisticsCome
  <2>7. Coming'
    BY <1>7, <2>1, <2>5, <2>6 DEF Coming, Kept, Uploaded
  <2>8. ResetComes(Len(stream) + 1)'
    <3>1. PICK reset \in Places' :
              /\ reset = Len(stream) + 2 /\ Is(reset, "reset")'
              /\ reset < Len(stream') + 1
      <4>1. /\ Len(ops) \in {2, 3} /\ 2 \in 1 .. Len(ops)
            /\ Len(stream) \in Nat
            /\ Len(stream') = Len(stream) + Len(ops)
        <5>1. Len(ops) \in {2, 3}
          BY <2>2
        <5>2. 2 \in 1 .. Len(ops)
          BY <5>1
        <5>3. /\ Len(stream) \in Nat
              /\ Len(stream') = Len(stream) + Len(ops)
          BY <1>2, <1>3, AppendFacts
        <5>4. QED
          BY <5>1, <5>2, <5>3
      <4>2. stream'[Len(stream) + 2] = ops[2]
        BY <1>2, <1>3, <4>1, AppendFacts
      <4>3. Len(stream) + 2 \in Places' /\ Len(stream) + 2 < Len(stream') + 1
        BY <4>1 DEF Places
      <4>4. QED
        BY <2>2, <4>2, <4>3 DEF Is
    <3>2. ASSUME NEW i \in Places', Is(i, "reference")' PROVE i < reset
      <4>1. i \in Places \/ i = Len(stream) + 1 \/ i = Len(stream) + 2
                \/ (i = Len(stream) + 3 /\ InverseCompositional)
        <5>1. CASE i \in Places
          BY <5>1
        <5>2. CASE i \notin Places
          <6>1. PICK m \in 1 .. Len(ops) : i = Len(stream) + m
            BY <1>2, <1>3, <3>2, <5>2, AppendFacts
          <6>2. m = 1 \/ m = 2 \/ (m = 3 /\ InverseCompositional)
            BY <2>2, <6>1
          <6>3. QED
            BY <6>1, <6>2
        <5>3. QED
          BY <5>1, <5>2
      <4>2. i # reset
        BY <3>1, <3>2 DEF Is
      <4>3. ~(i = Len(stream) + 3 /\ InverseCompositional)
        BY <1>2, <1>3, <2>2, <3>2, AppendFacts DEF Is
      <4>4. QED
        BY <1>2, <1>3, <3>1, <4>1, <4>2, <4>3, AppendFacts DEF Places
    <3>3. QED
      BY <3>1, <3>2 DEF ResetComes
  <2>9. Tracks'
    BY <1>2, <1>3, <1>4, <1>7, <2>1, <2>8, AppendKeepsKernels
       DEF Tracks, Kept, Uploaded
  <2>10. QED
    BY <2>3, <2>4, <2>7, <2>9
<1>8. QED
  BY <1>1, <1>6, <1>7, EnqueueFrame

(* The statistics still come when no reference does.                       *)
LEMMA AppendKeepsStatistics ==
    ASSUME stream \in Seq(Op), NEW ops \in Seq(Op), stream' = stream \o ops,
           UNCHANGED <<session, statistics>>, StatisticsCome,
           \A n \in 1 .. Len(ops) :
               ops[n].op # "reference" /\ ops[n].op # "statistics"
    PROVE  StatisticsCome'
<1>1. \A i \in Places : i \in Places' /\ stream'[i] = stream[i]
  BY AppendFacts
<1>2. ASSUME NEW i \in Places', Is(i, "reference")' PROVE i \in Places
  <2>1. ASSUME NEW n \in 1 .. Len(ops), i = Len(stream) + n PROVE FALSE
    BY <1>2, <2>1, AppendFacts DEF Is
  <2>2. QED
    BY <1>2, <2>1, AppendFacts
<1>3. SUFFICES ASSUME InverseCompositional PROVE StatisticsCome'
  BY DEF StatisticsCome
<1>4. ASSUME NEW i \in Places', Is(i, "reference")'
      PROVE  \E j \in Places' : j > i /\ Is(j, "statistics")'
  <2>1. i \in Places /\ Is(i, "reference")
    BY <1>1, <1>2, <1>4 DEF Is
  <2>2. PICK j \in Places : j > i /\ Is(j, "statistics")
    BY <1>3, <2>1 DEF StatisticsCome
  <2>3. QED
    BY <1>1, <2>2 DEF Is
<1>5. ASSUME \A i \in Places' : ~Is(i, "statistics")'
      PROVE  statistics' = session'.frame
  <2>1. \A i \in Places : ~Is(i, "statistics")
    BY <1>1, <1>5 DEF Is
  <2>2. QED
    BY <1>3, <2>1 DEF StatisticsCome
<1>6. QED
  BY <1>4, <1>5 DEF StatisticsCome

(* What was promised behind the stream is promised behind operations that  *)
(* bring no new reference.                                                 *)
LEMMA AppendExtendsResets ==
    ASSUME stream \in Seq(Op), NEW ops \in Seq(Op), stream' = stream \o ops,
           UNCHANGED <<reference, result>>, ResetComes(Len(stream) + 1),
           \A n \in 1 .. Len(ops) : ops[n].op # "reference"
    PROVE  ResetComes(Len(stream) + 1)'
<1>1. /\ Len(stream) \in Nat /\ Len(stream) <= Len(stream')
      /\ Len(stream') \in Nat /\ Places \subseteq Int
  BY AppendFacts DEF Places
<1>2. \A i \in Places : i \in Places' /\ stream'[i] = stream[i]
  BY AppendFacts
<1>3. ASSUME NEW i \in Places', Is(i, "reference")' PROVE i \in Places
  <2>1. ASSUME NEW n \in 1 .. Len(ops), i = Len(stream) + n PROVE FALSE
    BY <1>3, <2>1, AppendFacts DEF Is
  <2>2. QED
    BY <1>3, <2>1, AppendFacts
<1>4. ASSUME Stale'
      PROVE  \E j \in Places' : j < Len(stream') + 1 /\ Is(j, "reset")'
  <2>1. PICK j \in Places : j < Len(stream) + 1 /\ Is(j, "reset")
    BY <1>4 DEF ResetComes, Stale
  <2>2. j \in Places' /\ Is(j, "reset")'
    BY <1>2, <2>1 DEF Is
  <2>3. j < Len(stream') + 1
    BY <1>1, <2>1
  <2>4. QED
    BY <2>2, <2>3
<1>5. ASSUME NEW i \in Places', Is(i, "reference")'
      PROVE  \E j \in Places' : i < j /\ j < Len(stream') + 1 /\ Is(j, "reset")'
  <2>1. i \in Places /\ Is(i, "reference") /\ i < Len(stream) + 1
    BY <1>1, <1>2, <1>3, <1>5 DEF Is, Places
  <2>2. PICK j \in Places : i < j /\ j < Len(stream) + 1 /\ Is(j, "reset")
    BY <2>1 DEF ResetComes
  <2>3. j \in Places' /\ Is(j, "reset")'
    BY <1>2, <2>2 DEF Is
  <2>4. j < Len(stream') + 1
    BY <1>1, <2>2
  <2>5. QED
    BY <2>2, <2>3, <2>4
<1>6. QED
  BY <1>4, <1>5 DEF ResetComes

(* The measured image is enqueued, and then the kernel with the download.  *)
LEMMA EnqueueDeformedKeepsEngine ==
    ASSUME EngineInv, KernelInv', EnqueueDeformed
    PROVE  EngineInv'
<1> USE DEF EngineInv
<1> DEFINE copy == Copy("deformed", Source(input, "deformed_staging"))
<1>1. PICK n \in 0 .. 1 : Enqueue(n, <<copy>>, "launch") /\ UNCHANGED cached
  BY DEF EnqueueDeformed
<1>2. step = "deformed" /\ stream \in Seq(Op)
  BY DEF EnqueueDeformed, HostTypes
<1>3. PICK ops \in Seq(Op) :
          /\ stream' = stream \o ops /\ Len(ops) = n
          /\ \A i \in 1 .. n : ops[i] = copy
  <2>1. <<copy>> \in Seq(Op) /\ Len(<<copy>>) = 1 /\ <<copy>>[1] = copy
    BY <1>2, OperationsTyped
  <2>2. stream' = stream \o SubSeq(<<copy>>, 1, n)
    BY <1>1, EnqueueFrame
  <2>3. /\ SubSeq(<<copy>>, 1, n) \in Seq(Op)
        /\ Len(SubSeq(<<copy>>, 1, n)) = n
        /\ \A i \in 1 .. n : SubSeq(<<copy>>, 1, n)[i] = <<copy>>[i]
    BY <2>1, SubOperations
  <2>4. \A i \in 1 .. n : SubSeq(<<copy>>, 1, n)[i] = copy
    BY <2>1, <2>3
  <2>5. QED
    BY <2>2, <2>3, <2>4
<1>4. \A i \in 1 .. Len(ops) : ops[i].op = "deformed"
  BY <1>3 DEF Copy
<1>5. cached' \in Held
  BY <1>1 DEF HostTypes
<1>6. CASE step' = "idle" /\ session' = None
  BY <1>1, <1>3, <1>4, <1>5, <1>6, EnqueueFrame, ThrowKeepsEngine
<1>7. CASE n = Len(<<copy>>) /\ step' = "launch" /\ UNCHANGED session
  <2>1. UNCHANGED <<memory, frames, input, launched, reference, deformed,
                    statistics, result, cached>>
    BY <1>1, EnqueueFrame
  <2>2. /\ Len(ops) = 1 /\ ops[1].op = "deformed"
        /\ memory[ops[1].from] = input.frame
    BY <1>2, <1>3, <1>7 DEF InPlace, Copy
  <2>3. HostTypes'
    BY <1>3, <1>7, <2>1, AppendFacts DEF HostTypes, Held, Step
  <2>4. InPlace'
    BY <1>2, <1>3, <1>7, <2>1, AppendFacts DEF InPlace, Is, Source, Places
  <2>0. UNCHANGED session
    BY <1>7
  <2>5. ReferenceComes /\ StatisticsCome /\ cached = session
        /\ ResetComes(Len(stream) + 1)
    BY <1>2 DEF Coming, Tracks, Uploaded
  <2>6. ReferenceComes'
    <3>1. \A i \in 1 .. Len(ops) : ops[i].op # "reference"
      BY <1>4
    <3>2. ImageComes("reference", reference, session.frame)
      BY <2>5 DEF ReferenceComes
    <3>3. /\ \A i \in Places' :
                Is(i, "reference")' =>
                    \/ memory'[stream'[i].from] = session.frame
                    \/ \E j \in Places' : j > i /\ Is(j, "reference")'
          /\ (\A i \in Places' : ~Is(i, "reference")') =>
                reference = session.frame
      BY <1>2, <1>3, <2>1, <3>1, <3>2, AppendKeepsImage
    <3>4. QED
      BY <2>0, <2>1, <3>3 DEF ReferenceComes, ImageComes
  <2>7. StatisticsCome'
    <3>1. \A i \in 1 .. Len(ops) :
              ops[i].op # "reference" /\ ops[i].op # "statistics"
      BY <1>4
    <3>2. UNCHANGED <<session, statistics>> /\ StatisticsCome
      BY <2>0, <2>1, <2>5
    <3>3. QED
      BY <1>2, <1>3, <3>1, <3>2, AppendKeepsStatistics
  <2>8. DeformedComes'
    <3>1. /\ Len(ops) >= 1
          /\ \A i \in 1 .. Len(ops) : i # 1 => ops[i].op # "deformed"
      BY <2>2
    <3>2. /\ \A i \in Places' :
                Is(i, "deformed")' =>
                    \/ memory'[stream'[i].from] = input.frame
                    \/ \E j \in Places' : j > i /\ Is(j, "deformed")'
          /\ (\A i \in Places' : ~Is(i, "deformed")') =>
                deformed = input.frame
      BY <1>2, <1>3, <2>1, <2>2, <3>1, AppendedImage
    <3>3. QED
      BY <2>1, <3>2 DEF DeformedComes, ImageComes
  <2>9. Coming'
    BY <1>7, <2>1, <2>5, <2>6, <2>7, <2>8 DEF Coming, Kept, Uploaded
  <2>10. ResetComes(Len(stream) + 1)'
    BY <1>2, <1>3, <1>4, <2>1, <2>5, AppendExtendsResets
  <2>11. Tracks'
    BY <1>2, <1>3, <1>4, <1>7, <2>1, <2>10, AppendKeepsKernels
       DEF Tracks, Kept, Uploaded
  <2>12. QED
    BY <2>3, <2>4, <2>9, <2>11
<1>8. QED
  BY <1>1, <1>6, <1>7, EnqueueFrame

(* The kernel is enqueued where the reset comes before it.                 *)
LEMMA LaunchKeepsEngine ==
    ASSUME EngineInv, KernelInv', fallback \in Frames, Launch
    PROVE  EngineInv'
<1> USE DEF EngineInv
<1> DEFINE kernel == [op |-> "kernel", fallback |-> fallback]
           both == <<kernel, Operation("download")>>
<1>1. PICK n \in 0 .. 2 : Enqueue(n, both, "await") /\ UNCHANGED cached
  BY DEF Launch
<1>2. step = "launch" /\ stream \in Seq(Op)
  BY DEF Launch, HostTypes
<1>3. PICK ops \in Seq(Op) :
          /\ stream' = stream \o ops /\ Len(ops) = n
          /\ \A i \in 1 .. n : ops[i] = both[i]
  <2>1. kernel \in Op /\ Operation("download") \in Op
    BY DEF Op, Operation
  <2>2. both \in Seq(Op) /\ Len(both) = 2
    BY <2>1
  <2>3. stream' = stream \o SubSeq(both, 1, n)
    BY <1>1, EnqueueFrame
  <2>4. /\ SubSeq(both, 1, n) \in Seq(Op) /\ Len(SubSeq(both, 1, n)) = n
        /\ \A i \in 1 .. n : SubSeq(both, 1, n)[i] = both[i]
    BY <2>2, SubOperations
  <2>5. QED
    BY <2>3, <2>4
<1>4. \A i \in 1 .. Len(ops) :
          \/ i = 1 /\ ops[i].op = "kernel"
          \/ i = 2 /\ ops[i].op = "download"
  <2>1. both[1].op = "kernel" /\ both[2].op = "download"
    BY DEF Operation
  <2>2. QED
    BY <1>3, <2>1
<1>5. cached' \in Held
  BY <1>1 DEF HostTypes
<1>6. CASE step' = "idle" /\ session' = None
  BY <1>1, <1>2, <1>3, <1>4, <1>5, <1>6, EnqueueFrame, ThrowKeepsEngine
<1>7. CASE n = Len(both) /\ step' = "await" /\ UNCHANGED session
  <2>1. UNCHANGED <<memory, frames, input, launched, reference, deformed,
                    statistics, result, cached, download>>
    BY <1>1, EnqueueFrame
  <2>2. Len(ops) = 2 /\ ops[1].op = "kernel" /\ ops[2].op = "download"
    BY <1>3, <1>4, <1>7
  <2>3. HostTypes'
    BY <1>3, <1>7, <2>1, AppendFacts DEF HostTypes, Held, Step
  <2>4. InPlace'
    BY <1>2, <1>3, <1>7, <2>1, AppendFacts DEF InPlace, Is, Source, Places
  <2>0. UNCHANGED session
    BY <1>7
  <2>5. ReferenceComes /\ StatisticsCome /\ DeformedComes /\ cached = session
        /\ ResetComes(Len(stream) + 1)
    BY <1>2 DEF Coming, Tracks, Uploaded
  <2>6. ReferenceComes'
    <3>1. \A i \in 1 .. Len(ops) : ops[i].op # "reference"
      BY <1>4
    <3>2. ImageComes("reference", reference, session.frame)
      BY <2>5 DEF ReferenceComes
    <3>3. /\ \A i \in Places' :
                Is(i, "reference")' =>
                    \/ memory'[stream'[i].from] = session.frame
                    \/ \E j \in Places' : j > i /\ Is(j, "reference")'
          /\ (\A i \in Places' : ~Is(i, "reference")') =>
                reference = session.frame
      BY <1>2, <1>3, <2>1, <3>1, <3>2, AppendKeepsImage
    <3>4. QED
      BY <2>0, <2>1, <3>3 DEF ReferenceComes, ImageComes
  <2>7. StatisticsCome'
    <3>1. \A i \in 1 .. Len(ops) :
              ops[i].op # "reference" /\ ops[i].op # "statistics"
      BY <1>4
    <3>2. UNCHANGED <<session, statistics>> /\ StatisticsCome
      BY <2>0, <2>1, <2>5
    <3>3. QED
      BY <1>2, <1>3, <3>1, <3>2, AppendKeepsStatistics
  <2>8. DeformedComes'
    <3>1. \A i \in 1 .. Len(ops) : ops[i].op # "deformed"
      BY <1>4
    <3>2. ImageComes("deformed", deformed, input.frame)
      BY <2>5 DEF DeformedComes
    <3>3. /\ \A i \in Places' :
                Is(i, "deformed")' =>
                    \/ memory'[stream'[i].from] = input.frame
                    \/ \E j \in Places' : j > i /\ Is(j, "deformed")'
          /\ (\A i \in Places' : ~Is(i, "deformed")') =>
                deformed = input.frame
      BY <1>2, <1>3, <2>1, <3>1, <3>2, AppendKeepsImage
    <3>4. QED
      BY <2>1, <3>3 DEF DeformedComes, ImageComes
  <2>9. ResultComes'
    <3>1. /\ Len(stream) \in Nat /\ Len(stream') = Len(stream) + 2
          /\ 1 \in 1 .. Len(ops) /\ 2 \in 1 .. Len(ops)
      <4>1. 1 \in 1 .. Len(ops) /\ 2 \in 1 .. Len(ops)
        BY <2>2
      <4>2. /\ Len(stream) \in Nat
            /\ Len(stream') = Len(stream) + Len(ops)
        BY <1>2, <1>3, AppendFacts
      <4>3. QED
        BY <2>2, <4>1, <4>2
    <3>2. /\ stream'[Len(stream) + 1] = ops[1]
          /\ stream'[Len(stream) + 2] = ops[2]
      BY <1>2, <1>3, <3>1, AppendFacts
    <3>3. Len(stream) = 0 => ~launched'
      BY <1>2, <2>1, EmptyStream DEF InPlace
    <3>4. stream' # <<>>
      BY <2>3, <3>1, EmptySeq
    <3>5. Is(Len(stream), "download")' /\ Is(Len(stream) - 1, "kernel")'
      BY <2>2, <3>1, <3>2 DEF Is
    <3>6. QED
      BY <3>1, <3>3, <3>4, <3>5 DEF ResultComes
  <2>10. Coming'
    BY <1>7, <2>1, <2>5, <2>6, <2>7, <2>8, <2>9 DEF Coming, Kept, Uploaded
  <2>11. ResetComes(Len(stream) + 1)'
    BY <1>2, <1>3, <1>4, <2>1, <2>5, AppendExtendsResets
  <2>12. Tracks'
    BY <1>2, <1>3, <1>4, <1>7, <2>1, <2>11, AppendKeepsKernels
       DEF Tracks, Kept, Uploaded
  <2>13. QED
    BY <2>3, <2>4, <2>10, <2>12
<1>8. QED
  BY <1>1, <1>6, <1>7, EnqueueFrame

-----------------------------------------------------------------------------
(* The numbers of frames on the device stay numbers of frames.             *)
LEMMA NumbersKept ==
    ASSUME EngineInv, Numbers, [EngineNext]_engineVars
    PROVE  Numbers'
<1> USE DEF EngineInv, Numbers
<1>1. CASE BeginSession \/ Process \/ AllocateFails
  BY <1>1, EngineAssumption
     DEF BeginSession, Process, AllocateFails, kernelVars, images, host,
         device, NoResult, Frames
<1>2. CASE EnqueueReference \/ EnqueueDeformed \/ Launch
  BY <1>2 DEF EnqueueReference, EnqueueDeformed, Launch, Enqueue, kernelVars,
     images
<1>3. CASE Stage \/ Await \/ AwaitFails \/ Return
  BY <1>3 DEF Stage, Await, AwaitFails, Return, kernelVars, images, device
<1>4. CASE CopyReference
  <2>1. /\ stream \in Seq(Op) /\ stream # <<>> /\ Pop
        /\ Head(stream).op = "reference"
        /\ reference' = memory[Head(stream).from]
        /\ UNCHANGED <<result, download, fallback>>
    BY <1>4 DEF CopyReference, Pending, HostTypes, host
  <2>2. Head(stream) \in Op
    BY <2>1
  <2>3. Head(stream).from \in Buffers \cup Staging
    BY <2>1, <2>2 DEF Op
  <2>4. QED
    BY <2>1, <2>3 DEF HostTypes
<1>5. CASE CopyDeformed \/ Reset \/ Precompute \/ KernelEnds \/ Download
  BY <1>5, EngineAssumption
     DEF CopyDeformed, Reset, Precompute, KernelEnds, Download, kernelVars,
         images, host, NoResult, Frames
<1>6. CASE KernelBegins
  BY <1>6 DEF KernelBegins, BeginBlock, images, host
<1>7. CASE KernelRuns
  BY <1>7, KernelResult DEF KernelRuns, images, host, device
<1>8. CASE UNCHANGED engineVars
  BY <1>8 DEF engineVars, kernelVars, images, host, device
<1>9. QED
  BY <1>1, <1>2, <1>3, <1>4, <1>5, <1>6, <1>7, <1>8
     DEF EngineNext, HostStep, DeviceStep

(* The engine begins with nothing promised.                                *)
LEMMA EngineBegins == EngineInit => EngineInv /\ Numbers
<1> SUFFICES ASSUME EngineInit PROVE EngineInv /\ Numbers
  OBVIOUS
<1>1. 0 \in Frames /\ None \in Held
  BY EngineAssumption DEF EngineInit, Frames, Held, None
<1>2. HostTypes
  <2>1. memory \in [Buffers \cup Staging -> Frames]
    BY <1>1 DEF EngineInit
  <2>2. <<>> \in Seq(Op)
    OBVIOUS
  <2>3. frames \in Frames /\ session \in Held /\ input \in Held /\ cached \in Held
    BY <1>1 DEF EngineInit
  <2>4. QED
    BY <2>1, <2>2, <2>3 DEF EngineInit, HostTypes, Step
<1>3. InPlace /\ Coming
  BY DEF EngineInit, InPlace, Coming, Uploaded, Kept
<1>4. Tracks
  BY DEF EngineInit, Tracks, Uploaded, Kept, Places
<1>5. Numbers
  BY <1>1 DEF EngineInit, KernelInit, NoResult, Numbers
<1>6. QED
  BY <1>2, <1>3, <1>4, <1>5, KernelInitInv DEF EngineInv

(* Every step keeps what is promised.                                      *)
LEMMA EngineKept == EngineInv /\ Numbers /\ [EngineNext]_engineVars => EngineInv' /\ Numbers'
<1> SUFFICES ASSUME EngineInv, Numbers, [EngineNext]_engineVars PROVE EngineInv' /\ Numbers'
  OBVIOUS
<1>1. KernelInv'
  BY NextInv DEF EngineInv
<1>2. Numbers'
  BY NumbersKept
<1>3. CASE BeginSession \/ Process \/ AllocateFails
  BY <1>1, <1>2, <1>3, BeginningsKeepEngine
<1>4. CASE Stage \/ Await \/ AwaitFails \/ Return
  BY <1>1, <1>2, <1>4, HostKeepsEngine
<1>5. CASE EnqueueReference
  BY <1>1, <1>2, <1>5, EnqueueReferenceKeepsEngine
<1>6. CASE EnqueueDeformed
  BY <1>1, <1>2, <1>6, EnqueueDeformedKeepsEngine
<1>7. CASE Launch
  BY <1>1, <1>2, <1>7, LaunchKeepsEngine DEF Numbers
<1>8. CASE CopyReference \/ CopyDeformed \/ Reset \/ Precompute
              \/ KernelEnds \/ Download
  BY <1>1, <1>2, <1>8, TakingKeepsEngine
<1>9. CASE KernelBegins \/ KernelRuns
  BY <1>1, <1>2, <1>9, KernelKeepsEngine
<1>10. CASE UNCHANGED engineVars
  BY <1>2, <1>10 DEF engineVars, kernelVars, control, shared, images, callerVars, host, device,
     EngineInv, KernelInv,
     RegistersTyped, Together, Agreed, Leaves, Count, Sums, HostTypes, Held,
     InPlace, Source, Coming, ReferenceComes, DeformedComes, ImageComes,
     StatisticsCome, ResultComes, OfThisPair, Kept, Tracks, ResetComes, Stale,
     Places, Is
<1>11. QED
  BY <1>2, <1>3, <1>4, <1>5, <1>6, <1>7, <1>8, <1>9, <1>10
     DEF EngineNext, HostStep, DeviceStep

(* In every state of the engine, what is in the stream will put on the     *)
(* device what the host takes to be there.                                 *)
THEOREM EngineInvariant == EngineSpec => [](EngineInv /\ Numbers)
BY EngineBegins, EngineKept, PTL DEF EngineSpec

(* Whatever the number of frames and buffers, and whichever calls of the   *)
(* device fail, process returns a result of the session's reference and of *)
(* the frame it was given.                                                 *)
THEOREM ResultIsOfThisPair == EngineSpec => []ResultOfThisPair
<1>1. EngineInv => ResultOfThisPair
  BY DEF EngineInv, Coming, OfThisPair, ResultOfThisPair
<1>2. QED
  BY <1>1, EngineInvariant, PTL

-----------------------------------------------------------------------------
(* In a recovery pass the median is of this session, and nothing but the   *)
(* kernel that is given it and the download is left to do.                 *)
OfThePass(operation) ==
    /\ operation.op \in {"kernel", "download"}
    /\ operation.op = "kernel" => operation.fallback = session.frame

Recovery ==
    /\ passes \in Nat
    /\ passes # 0 =>
        /\ step \in {"launch", "await"}
        /\ fallback = session.frame
        /\ \A i \in Places : OfThePass(stream[i])

(* A call that waits begins a recovery pass with the median of its results.*)
LEMMA AwaitKeepsRecovery ==
    ASSUME EngineInv, Recovery, Await
    PROVE  Recovery'
<1>1. /\ step = "await" /\ stream = <<>> /\ stream' = <<>>
      /\ UNCHANGED session
      /\ fallback' \in {download.reference, fallback}
      /\ \/ /\ fallback' = download.reference
            /\ passes' = passes + 1 /\ step' = "launch"
         \/ passes' = 0
  BY DEF Await, callerVars, device
<1>2. download.reference = session.frame
  BY <1>1 DEF EngineInv, Coming, ResultComes, OfThisPair
<1>3. Places' = {}
  BY <1>1 DEF Places
<1>4. QED
  BY <1>1, <1>2, <1>3 DEF Recovery

(* The kernel of a pass gets the fallback of now.                          *)
LEMMA LaunchKeepsRecovery ==
    ASSUME EngineInv, Recovery, Numbers, Launch
    PROVE  Recovery'
<1> DEFINE kernel == [op |-> "kernel", fallback |-> fallback]
           both == <<kernel, Operation("download")>>
<1>1. PICK n \in 0 .. 2 : Enqueue(n, both, "await")
  BY DEF Launch
<1>2. /\ stream' = stream \o SubSeq(both, 1, n)
      /\ UNCHANGED fallback
      /\ \/ passes' = 0
         \/ step' = "await" /\ UNCHANGED <<session, passes>>
  BY <1>1 DEF Enqueue, Throw
<1>3. stream \in Seq(Op) /\ both \in Seq(Op) /\ Len(both) = 2
  BY DEF EngineInv, HostTypes, Numbers, Op, Operation
<1>4. PICK ops \in Seq(Op) :
          /\ stream' = stream \o ops /\ Len(ops) = n
          /\ \A i \in 1 .. n : ops[i] = both[i]
  <2>1. /\ SubSeq(both, 1, n) \in Seq(Op) /\ Len(SubSeq(both, 1, n)) = n
        /\ \A i \in 1 .. n : SubSeq(both, 1, n)[i] = both[i]
    BY <1>3, SubOperations
  <2>2. QED
    BY <1>2, <2>1
<1>5. CASE passes' = 0
  BY <1>5 DEF Recovery
<1>6. CASE step' = "await" /\ UNCHANGED <<session, passes>>
  <2>1. SUFFICES ASSUME passes # 0, NEW i \in Places'
                 PROVE  OfThePass(stream[i])'
    BY <1>2, <1>6 DEF Recovery
  <2>2. fallback = session.frame
    BY <2>1 DEF Recovery
  <2>3. CASE i \in Places
    <3>1. stream'[i] = stream[i]
      BY <1>3, <1>4, <2>3, AppendFacts DEF Places
    <3>2. OfThePass(stream[i])
      BY <2>1, <2>3 DEF Recovery
    <3>3. QED
      BY <1>6, <3>1, <3>2 DEF OfThePass
  <2>4. CASE i \notin Places
    <3>1. PICK j \in 1 .. n : stream'[i] = ops[j]
      <4>1. /\ Len(stream) \in Nat /\ Len(stream') = Len(stream) + n
            /\ \A j \in 1 .. n : stream'[Len(stream) + j] = ops[j]
        BY <1>3, <1>4, AppendFacts
      <4>2. i - Len(stream) \in 1 .. n /\ i = Len(stream) + (i - Len(stream))
        BY <2>1, <2>4, <4>1 DEF Places
      <4>3. QED
        BY <4>1, <4>2
    <3>2. j \in {1, 2} /\ stream'[i] = both[j]
      BY <1>4, <3>1
    <3>3. stream'[i] = kernel \/ stream'[i] = Operation("download")
      BY <3>2
    <3>4. QED
      BY <1>6, <2>2, <3>3 DEF OfThePass, Operation
  <2>5. QED
    BY <2>3, <2>4
<1>7. QED
  BY <1>2, <1>5, <1>6

(* The device only takes operations away.                                  *)
LEMMA TakingKeepsRecovery ==
    ASSUME stream \in Seq(Op), stream # <<>>, Pop, Recovery,
           UNCHANGED <<step, session, fallback, passes>>
    PROVE  Recovery'
<1>1. SUFFICES ASSUME passes # 0, NEW i \in Places'
               PROVE  OfThePass(stream[i])'
  BY DEF Recovery
<1>2. i + 1 \in Places /\ stream'[i] = stream[i + 1]
  BY <1>1, PopFacts DEF Places
<1>3. OfThePass(stream[i + 1])
  BY <1>1, <1>2 DEF Recovery
<1>4. QED
  BY <1>2, <1>3 DEF OfThePass

(* Every step keeps the recovery passes what they are.                     *)
LEMMA RecoveryKept ==
    EngineInv /\ Numbers /\ Recovery /\ [EngineNext]_engineVars => Recovery'
<1> SUFFICES ASSUME EngineInv, Numbers, Recovery, [EngineNext]_engineVars PROVE Recovery'
  OBVIOUS
<1>1. CASE BeginSession \/ Process \/ AllocateFails
  <2>1. passes' = 0
    BY <1>1 DEF BeginSession, Process, AllocateFails, Throw, Recovery, host
  <2>2. QED
    BY <2>1 DEF Recovery
<1>2. CASE Stage \/ EnqueueReference \/ EnqueueDeformed \/ AwaitFails \/ Return
  <2>1. passes' = 0
    BY <1>2 DEF Stage, EnqueueReference, EnqueueDeformed, AwaitFails, Return,
       Enqueue, Throw, Recovery
  <2>2. QED
    BY <2>1 DEF Recovery
<1>3. CASE Await
  BY <1>3, AwaitKeepsRecovery
<1>4. CASE Launch
  BY <1>4, LaunchKeepsRecovery
<1>5. CASE CopyReference \/ CopyDeformed \/ Reset \/ Precompute
              \/ KernelEnds \/ Download
  <2>1. /\ stream \in Seq(Op) /\ stream # <<>> /\ Pop
        /\ UNCHANGED <<step, session, fallback, passes>>
    BY <1>5 DEF EngineInv, HostTypes, InPlace, CopyReference, CopyDeformed,
       Reset, Precompute, KernelEnds, Download, Pending, callerVars, host
  <2>2. QED
    BY <2>1, TakingKeepsRecovery
<1>6. CASE KernelBegins \/ KernelRuns \/ UNCHANGED engineVars
  <2>1. UNCHANGED <<step, session, fallback, passes, stream>>
    BY <1>6 DEF KernelBegins, KernelRuns, engineVars, callerVars, host, device
  <2>2. QED
    BY <2>1 DEF Recovery, OfThePass, Places
<1>7. QED
  BY <1>1, <1>2, <1>3, <1>4, <1>5, <1>6 DEF EngineNext, HostStep, DeviceStep

(* A kernel starts a point from the point's accepted displacement, or a    *)
(* point of a recovery pass from the median, only if that was measured     *)
(* from the reference it finds on the device.                              *)
THEOREM TracksAreReset == EngineSpec => []TrackIsOfThisReference
<1>1. ASSUME EngineInv, launched
      PROVE  1 \in Places /\ Is(1, "kernel") /\ Head(stream) = stream[1]
  <2>1. stream # <<>> /\ Is(1, "kernel") /\ stream \in Seq(Op)
    BY <1>1 DEF EngineInv, InPlace, HostTypes
  <2>2. QED
    BY <2>1, LenProperties, EmptySeq DEF Places
<1>2. ASSUME EngineInv, launched, result.valid
      PROVE  result.reference = reference
  <2>1. 1 \in Places /\ Is(1, "kernel") /\ \A j \in Places : ~(j < 1)
    BY <1>1, <1>2 DEF Places
  <2>2. ResetComes(1)
    BY <1>2, <2>1 DEF EngineInv, Tracks
  <2>3. QED
    BY <1>2, <2>1, <2>2 DEF ResetComes, Stale
<1>3. ASSUME EngineInv, Recovery, launched, passes # 0
      PROVE  StartOfPoint = reference
  <2>1. \A i \in Places : ~Is(i, "reference")
    BY <1>3 DEF Recovery, OfThePass, Is
  <2>2. reference = session.frame
    BY <1>3, <2>1 DEF Recovery, EngineInv, Coming, Uploaded, ReferenceComes,
       ImageComes
  <2>3. Head(stream).fallback = session.frame
    BY <1>1, <1>3 DEF Recovery, OfThePass, Is
  <2>4. QED
    BY <1>2, <1>3, <2>2, <2>3 DEF StartOfPoint
<1>4. EngineInv /\ Recovery => TrackIsOfThisReference
  <2>1. Recovery /\ passes > 0 => passes # 0
    BY DEF Recovery
  <2>2. QED
    BY <1>2, <1>3, <2>1 DEF TrackIsOfThisReference
<1>5. EngineInit => Recovery
  BY DEF EngineInit, Recovery
<1>6. QED
  BY <1>4, <1>5, RecoveryKept, EngineInvariant, PTL DEF EngineSpec
===============================================================================
