----------------------------- MODULE GridSearch -----------------------------
(***************************************************************************)
(* The two CPU engines, which go over the points of a grid: ZnccGridEngine  *)
(* searches a whole-pixel displacement (src/zncc.cpp), HybridGridEngine also *)
(* refines it below a pixel by Gauss-Newton steps (src/subpixel.cpp).       *)
(*                                                                         *)
(* One axis of the image is modelled; the code does the same on both.  A     *)
(* displacement counts in parts of a pixel.  What the pixels say (the best   *)
(* score, texture, the next step, a singular system) may be anything; what  *)
(* is modelled is which pixels are read and which results are kept.         *)
(***************************************************************************)
EXTENDS Integers, FiniteSets

CONSTANTS
    Width, SubsetRadius, SearchRadius, PointStep,
    MaxRefinements,
    Parts,          \* parts of a pixel
    Tolerance,      \* convergence_tolerance, in parts
    Deltas,         \* steps that Gauss-Newton takes, in parts
    NotFinite       \* a step that is not a finite number

(* What the constructors of the engines require, and the types.            *)
ASSUME GridAssumption ==
    /\ SubsetRadius \in Nat /\ SearchRadius \in Nat /\ PointStep \in Nat \ {0}
    /\ SubsetRadius >= 2 /\ MaxRefinements \in Nat \ {0}
    /\ Width \in Nat /\ Parts \in Nat \ {0} /\ Tolerance \in Nat /\ Deltas \subseteq Int

VARIABLES
    engine,         \* "hybrid" or "zncc"
    stage,          \* where process is
    center,         \* x of the grid point
    translation,    \* u of refine_translation_znssd
    round,          \* Gauss-Newton iterations so far
    refined,        \* the result of the refinement so far
    point,          \* the last point of the result: its displacement and valid
    reads           \* the pixels of the deformed image read in the last step

gridVars == <<engine, stage, center, translation, round, refined, point, reads>>

NoMatch == [u |-> 0, scoredAt |-> 0, iterations |-> 0, converged |-> FALSE, valid |-> FALSE]

GridIdle ==
    /\ engine = "none" /\ stage = "done" /\ center = 0 /\ translation = 0 /\ round = 0
    /\ refined = NoMatch /\ point = NoMatch /\ reads = {}

Margin(e) == SubsetRadius + SearchRadius + (IF e = "hybrid" THEN 1 ELSE 0)

(* The loop over the grid goes on at x, or ends.                           *)
StageAt(x, e) == IF x + Margin(e) < Width THEN "search" ELSE "done"

Visit(x, e) == stage' = StageAt(x, e) /\ center' = x

GridInit ==
    /\ engine \in {"hybrid", "zncc"}
    /\ center = Margin(engine) /\ stage = StageAt(center, engine)
    /\ translation = 0 /\ round = 0
    /\ refined = NoMatch /\ point = NoMatch /\ reads = {}

(* find_integer_translation_zncc tries every displacement up to the radius   *)
(* and returns the best; without texture it returns none, which is zero.    *)
Search ==
    /\ stage = "search"
    /\ reads' = (center - SubsetRadius - SearchRadius) .. (center + SubsetRadius + SearchRadius)
    /\ \E best \in -SearchRadius .. SearchRadius, wellMatched \in BOOLEAN :
         IF engine = "hybrid"
         THEN /\ translation' = best * Parts /\ stage' = "refine"
              /\ UNCHANGED <<center, point>>
         ELSE /\ point' = [NoMatch EXCEPT !.u = best * Parts, !.scoredAt = best * Parts,
                                           !.valid = wellMatched]
              /\ Visit(center + PointStep, engine)
              /\ UNCHANGED translation
    /\ round' = 0 /\ refined' = NoMatch
    /\ UNCHANGED engine

(* sample_bilinear reads the pixel left of a position and the next one.     *)
LeftPixel(offset) == center + offset + (translation \div Parts)

(* Bug for a mutant: the right neighbour is forgotten.                     *)
SampleExistsAlone(offset) == LeftPixel(offset) >= 0 /\ LeftPixel(offset) < Width

SampleExists(offset) == LeftPixel(offset) >= 0 /\ LeftPixel(offset) + 1 < Width

Subset == -SubsetRadius .. SubsetRadius

(* The samples of an iteration are taken in order, up to one that is not in *)
(* the image.                                                              *)
Sampled == {o \in Subset : \A before \in -SubsetRadius .. o : SampleExists(before)}

SampleAt ==
    reads' = UNION {{LeftPixel(o), LeftPixel(o) + 1} : o \in Sampled}

(* Bug for a mutant: any refinement whose numbers are finite is taken.     *)
AcceptedIfFinite(r) == r.valid

Accepted(r) == r.valid /\ r.converged

(* process keeps the refined point, if its score is good enough.           *)
KeepPoint(r) ==
    /\ refined' = r
    /\ \E wellMatched \in BOOLEAN :
         point' = [r EXCEPT !.valid = Accepted(r) /\ wellMatched]
    /\ Visit(center + PointStep, engine)
    /\ UNCHANGED <<engine, translation, round>>

(* refine_translation_znssd returns before a step: the reference has no      *)
(* texture (first only), a sample is not in the image, the subset has no      *)
(* texture, or the system is singular.  What an earlier iteration left in    *)
(* the result stays.                                                       *)
RefinementStops ==
    /\ stage = "refine"
    /\ \/ round = 0 /\ reads' = {} /\ KeepPoint(NoMatch)
       \/ SampleAt /\ KeepPoint([refined EXCEPT !.u = translation, !.iterations = round])
       \/ /\ Sampled = Subset /\ SampleAt
          /\ KeepPoint([refined EXCEPT !.u = translation, !.iterations = round + 1])

Magnitude(d) == IF d < 0 THEN -d ELSE d

(* One iteration: the score is that of the estimate before the step.        *)
GaussNewtonStep ==
    /\ stage = "refine" /\ Sampled = Subset /\ SampleAt
    /\ \E delta \in Deltas :
         LET r == [u |-> translation + delta, scoredAt |-> translation,
                   iterations |-> round + 1,
                   converged |-> Magnitude(delta) <= Tolerance, valid |-> TRUE]
         IN  IF r.converged \/ round + 1 = MaxRefinements THEN KeepPoint(r)
             ELSE /\ translation' = r.u /\ round' = round + 1 /\ refined' = r
                  /\ UNCHANGED <<engine, stage, center, point>>

(* The step is not finite: the result is not valid.                        *)
GaussNewtonDiverges ==
    /\ stage = "refine" /\ Sampled = Subset /\ SampleAt
    /\ KeepPoint([u |-> NotFinite, scoredAt |-> translation, iterations |-> round + 1,
                  converged |-> FALSE, valid |-> FALSE])

GridNext == Search \/ RefinementStops \/ GaussNewtonStep \/ GaussNewtonDiverges

(* Neither the search nor the refinement reads a pixel outside the image,    *)
(* at any point of either grid and however far a step goes.                *)
ReadsStayInside == reads \subseteq 0 .. Width - 1

(* A point of the hybrid engine that is valid was refined to convergence:    *)
(* its displacement is within the tolerance of one at which the score was    *)
(* taken with the whole subset in the image, also when an earlier iteration *)
(* had left a finite result behind.                                        *)
ValidMeansMeasured ==
    engine = "hybrid" /\ point.valid =>
        /\ point.converged /\ point.iterations \in 1 .. MaxRefinements
        /\ Magnitude(point.u - point.scoredAt) <= Tolerance
=============================================================================
