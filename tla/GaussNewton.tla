----------------------------- MODULE GaussNewton -----------------------------
(***************************************************************************)
(* gauss_newton_kernel: one block of threads solves one grid point.  The   *)
(* threads of a warp run in lockstep, so a warp is a process here; warps   *)
(* meet at the barriers (__syncthreads) and share four variables and the   *)
(* two arrays of block_sum_six.  Blocks share nothing, so one of them is   *)
(* modelled.                                                               *)
(*                                                                         *)
(* Images are frame numbers.  The displacement is the number of steps the  *)
(* solver has taken and the reference it is measured from (base); a warp's *)
(* partial sum is the number of the estimate its samples were taken at.    *)
(***************************************************************************)
EXTENDS Integers

CONSTANTS
    Warps,          \* warps of a block: four in the code
    MaxIterations,  \* max_iterations
    InverseCompositional

ASSUME KernelAssumption ==
    /\ Warps \in Nat \ {0} /\ MaxIterations \in Nat \ {0}
    /\ InverseCompositional \in BOOLEAN

VARIABLES
    at,             \* program counter of each warp
    iteration,      \* iteration of each warp
    final,          \* has the warp left the loop?
    partial,        \* the warp's partial sums after warp_sum
    warpTotals,     \* shared: warp_totals
    totals,         \* shared: totals, by the warps they were summed from
    estimate,       \* shared: displacement_u and displacement_v
    base,           \* the reference they are measured from (0: none, zero)
    stopIteration,  \* shared: stop_iteration
    completed,      \* shared: completed_iterations
    reference,      \* device memory: the reference image
    deformed,       \* device memory: the deformed image
    statistics,     \* device memory: the reference reference_stats are of
    result          \* device memory: results[point_index]

control == <<at, iteration, final>>
shared == <<warpTotals, totals, estimate, base, stopIteration, completed>>
images == <<reference, deformed, statistics>>
kernelVars == <<control, partial, shared, images, result>>

Warp == 0 .. Warps - 1
Barrier == {"seeded", "deposited", "combined", "solved"}
WarpPC == Barrier \cup
          {"seed", "sample", "deposit", "combine", "solve", "decide", "write",
           "done"}

(* A result names the images it was computed from, and the reference the   *)
(* matrix of the solver was computed from.  Zeroed memory is no result.    *)
NoResult == [valid |-> FALSE, reference |-> 0, deformed |-> 0, matrix |-> 0]

Goto(w, pc) == at' = [at EXCEPT ![w] = pc]

-----------------------------------------------------------------------------
(* Thread 0 takes the point's last displacement, or the fallback.          *)
Seed(w, fallback) ==
    /\ at[w] = "seed"
    /\ Goto(w, "seeded")
    /\ IF w = 0
       THEN /\ base' = IF result.valid THEN result.reference ELSE fallback
            /\ estimate' = 0 /\ stopIteration' = 0 /\ completed' = 0
       ELSE UNCHANGED <<base, estimate, stopIteration, completed>>
    /\ UNCHANGED <<iteration, final, partial, warpTotals, totals, images, result>>

(* The samples of the warp's threads, at the displacement they read; and   *)
(* their sum over the warp.                                                *)
Sample(w) ==
    /\ at[w] = "sample"
    /\ partial' = [partial EXCEPT ![w] = estimate]
    /\ Goto(w, "deposit")
    /\ UNCHANGED <<iteration, final, shared, images, result>>

(* Bug for a mutant: no barrier after the deposit.                         *)
DepositUnsynchronised(w) ==
    /\ at[w] = "deposit"
    /\ warpTotals' = [warpTotals EXCEPT ![w] = partial[w]]
    /\ Goto(w, "combine")
    /\ UNCHANGED <<iteration, final, partial, totals, estimate, base,
                   stopIteration, completed, images, result>>

Deposit(w) ==
    /\ at[w] = "deposit"
    /\ warpTotals' = [warpTotals EXCEPT ![w] = partial[w]]
    /\ Goto(w, "deposited")
    /\ UNCHANGED <<iteration, final, partial, totals, estimate, base,
                   stopIteration, completed, images, result>>

(* Warp 0 adds up what the warps deposited.                                *)
Combine(w) ==
    /\ at[w] = "combine"
    /\ totals' = IF w = 0 THEN warpTotals ELSE totals
    /\ Goto(w, "combined")
    /\ UNCHANGED <<iteration, final, partial, warpTotals, estimate, base,
                   stopIteration, completed, images, result>>

(* Thread 0 solves for the next step: the system is singular or a sample   *)
(* lies outside of the image; or it takes the step, perhaps the last.      *)
SolveStep ==
    \/ stopIteration' = 2 /\ UNCHANGED <<estimate, completed>>
    \/ /\ stopIteration' \in {0, 1}
       /\ estimate' = estimate + 1 /\ completed' = iteration[0] + 1

Solve(w) ==
    /\ at[w] = "solve"
    /\ IF w = 0 THEN SolveStep ELSE UNCHANGED <<estimate, stopIteration, completed>>
    /\ Goto(w, "solved")
    /\ UNCHANGED <<iteration, final, partial, warpTotals, totals, base, images,
                   result>>

(* Bug for a mutant: only thread 0 leaves the loop before its end.         *)
DecideAlone(w) ==
    /\ at[w] = "decide"
    /\ iteration' = [iteration EXCEPT ![w] = @ + 1]
    /\ final' = [final EXCEPT ![w] =
                    \/ w = 0 /\ stopIteration # 0
                    \/ iteration[w] + 1 = MaxIterations]
    /\ Goto(w, "sample")
    /\ UNCHANGED <<partial, shared, images, result>>

(* Every warp reads whether to go on; after the loop it samples once more, *)
(* for the quality.                                                        *)
Decide(w) ==
    /\ at[w] = "decide"
    /\ iteration' = [iteration EXCEPT ![w] = @ + 1]
    /\ final' = [final EXCEPT ![w] =
                    stopIteration # 0 \/ iteration[w] + 1 = MaxIterations]
    /\ Goto(w, "sample")
    /\ UNCHANGED <<partial, shared, images, result>>

(* Thread 0 accepts or rejects the point by its quality; a point that was  *)
(* not solved, or that left the image, is rejected.                        *)
Write(w) ==
    /\ at[w] = "write"
    /\ IF w = 0
       THEN \E valid \in BOOLEAN :
              /\ valid => completed > 0 /\ stopIteration # 2
              /\ result' = [valid |-> valid, reference |-> reference,
                            deformed |-> deformed,
                            matrix |-> IF InverseCompositional
                                       THEN statistics ELSE reference]
       ELSE UNCHANGED result
    /\ Goto(w, "done")
    /\ UNCHANGED <<iteration, final, partial, shared, images>>

-----------------------------------------------------------------------------
(* __syncthreads: when every warp has arrived, all go on.                  *)
After(barrier, w) ==
    CASE barrier = "seeded" -> "sample"
      [] barrier = "deposited" -> "combine"
      [] barrier = "combined" -> IF final[w] THEN "write" ELSE "solve"
      [] barrier = "solved" -> "decide"

Synchronise ==
    \E barrier \in Barrier :
        /\ \A w \in Warp : at[w] = barrier
        /\ at' = [w \in Warp |-> After(barrier, w)]
        /\ UNCHANGED <<iteration, final, partial, shared, images, result>>

WarpStep(w, fallback) ==
    \/ Seed(w, fallback)
    \/ Sample(w) \/ Deposit(w) \/ Combine(w)
    \/ Solve(w) \/ Decide(w) \/ Write(w)

KernelStep(fallback) == Synchronise \/ \E w \in Warp : WarpStep(w, fallback)

Finished == \A w \in Warp : at[w] = "done"

(* The launch: every warp begins, with registers of its own.  Shared       *)
(* memory is not initialised, and nothing is read before it is written.    *)
BeginBlock ==
    /\ at' = [w \in Warp |-> "seed"]
    /\ iteration' = [w \in Warp |-> 0]
    /\ final' = [w \in Warp |-> FALSE]
    /\ UNCHANGED <<partial, shared, images, result>>

KernelInit ==
    /\ at = [w \in Warp |-> "done"]
    /\ iteration = [w \in Warp |-> 0] /\ final = [w \in Warp |-> FALSE]
    /\ partial = [w \in Warp |-> 0]
    /\ warpTotals = [w \in Warp |-> 0] /\ totals = [w \in Warp |-> 0]
    /\ estimate = 0 /\ base = 0 /\ stopIteration = 0 /\ completed = 0
    /\ reference = 0 /\ deformed = 0 /\ statistics = 0 /\ result = NoResult

-----------------------------------------------------------------------------
(* Properties.                                                             *)

(* What the next step of a warp reads and writes in shared memory: a       *)
(* variable, or a warp's slot of warp_totals.                              *)
Displacement == {<<"displacement", 0>>}
Progress == {<<"stop_iteration", 0>>, <<"completed_iterations", 0>>}
Totals == {<<"totals", 0>>}
Slots == {<<"warp_totals", w>> : w \in Warp}

Writes(w) ==
    CASE at[w] = "seed" /\ w = 0 -> Displacement \cup Progress
      [] at[w] = "deposit" -> {<<"warp_totals", w>>}
      [] at[w] = "combine" /\ w = 0 -> Totals
      [] at[w] = "solve" /\ w = 0 -> Displacement \cup Progress
      [] OTHER -> {}

Reads(w) ==
    CASE at[w] = "sample" -> Displacement
      [] at[w] = "combine" /\ w = 0 -> Slots
      [] at[w] = "solve" /\ w = 0 -> Totals \cup Displacement
      [] at[w] = "decide" -> {<<"stop_iteration", 0>>}
      [] at[w] = "write" /\ w = 0 -> Totals \cup Displacement \cup Progress
      [] OTHER -> {}

(* The kernel has no data race: no warp can write what another warp can    *)
(* read or write before the next barrier, though two barriers serve the    *)
(* whole of a reduction and its arrays are used again and again.           *)
RaceFree ==
    \A v, w \in Warp :
        v # w => Writes(v) \cap (Reads(w) \cup Writes(w)) = {}

(* Thread 0 steps, and judges the quality, on sums to which every warp     *)
(* contributed samples at the present displacement: no sum of another      *)
(* iteration is left in the arrays, and no warp runs ahead.                *)
SumsAreCurrent ==
    at[0] \in {"solve", "write"} => \A w \in Warp : totals[w] = estimate
=============================================================================
