----------------------------- MODULE GridStrain -----------------------------
(***************************************************************************)
(* GridStrainEstimator: the displacement gradient at each grid point, from  *)
(* a least-squares fit to its valid neighbours (src/strain_estimator.cpp).  *)
(* Who is whose neighbour is kept from call to call, and from session to    *)
(* session: the pipeline has one estimator as long as it lives.             *)
(*                                                                         *)
(* Numbers are integers and the arithmetic is exact: what is checked is     *)
(* which points a strain is computed from, and the formula, not rounding.   *)
(* A quotient is kept as numerator and determinant.  A point whose          *)
(* displacement is not finite is one that is not valid.                    *)
(***************************************************************************)
EXTENDS Integers, Sequences, FiniteSets, Functions

CONSTANTS
    GridStep,   \* grid_step_
    Layouts,    \* sequences of coordinates <<x, y>> that an engine returns
    Gradients   \* displacement gradients [ux, uy, vx, vy] that are tried

(* What the constructor requires; an engine returns no point twice.         *)
ASSUME StrainAssumption ==
    /\ GridStep \in Nat \ {0}
    /\ \A layout \in Layouts :
         /\ layout \in Seq(Int \X Int)
         /\ \A i, j \in DOMAIN layout : layout[i] = layout[j] => i = j
    /\ Gradients \subseteq [ux : Int, uy : Int, vx : Int, vy : Int]

VARIABLES
    coordinates,    \* coordinates_: the points the neighbours were found for
    neighbors,      \* neighbors_: for each point, the indices of its neighbours
    points,         \* result.points, with x, y, u, v, valid
    strains,        \* exx, eyy, exy and strain_valid of each point
    gradient        \* history: the gradient of the field that was applied

strainVars == <<coordinates, neighbors, points, strains, gradient>>

StrainIdle ==
    coordinates = <<>> /\ neighbors = <<>> /\ points = <<>> /\ strains = <<>>
        /\ gradient = <<>>

StrainInit == StrainIdle

(* Bug for a mutant: the number of points decides.                         *)
TopologyMatchesSize(new) == Len(coordinates) = Len(new)

TopologyMatches(new) ==
    /\ Len(coordinates) = Len(new)
    /\ \A i \in DOMAIN new : coordinates[i] = <<new[i].x, new[i].y>>

(* The indices of the points one grid step away, also diagonally.          *)
NeighborsIn(at, i) ==
    {j \in DOMAIN at \ {i} :
        /\ at[j][1] - at[i][1] \in {-GridStep, 0, GridStep}
        /\ at[j][2] - at[i][2] \in {-GridStep, 0, GridStep}}

RebuildTopology(new) ==
    /\ coordinates' = [i \in DOMAIN new |-> <<new[i].x, new[i].y>>]
    /\ neighbors' = [i \in DOMAIN new |-> NeighborsIn(coordinates', i)]

NoStrain == [exx |-> 0, eyy |-> 0, exy |-> 0, scale |-> 1, valid |-> FALSE]

(* The sums over the neighbours of a point that can be used.               *)
NormalEquations(all, i, usable) ==
    LET dx(j) == all[j].x - all[i].x
        dy(j) == all[j].y - all[i].y
        du(j) == all[j].u - all[i].u
        dv(j) == all[j].v - all[i].v
    IN  [axx |-> SumFunction([j \in usable |-> dx(j) * dx(j)]),
         axy |-> SumFunction([j \in usable |-> dx(j) * dy(j)]),
         ayy |-> SumFunction([j \in usable |-> dy(j) * dy(j)]),
         bux |-> SumFunction([j \in usable |-> dx(j) * du(j)]),
         buy |-> SumFunction([j \in usable |-> dy(j) * du(j)]),
         bvx |-> SumFunction([j \in usable |-> dx(j) * dv(j)]),
         bvy |-> SumFunction([j \in usable |-> dy(j) * dv(j)])]

Determinant(s) == s.axx * s.ayy - s.axy * s.axy

(* Their solution: exx, eyy and twice exy over the determinant.             *)
Solution(s) ==
    [exx |-> s.ayy * s.bux - s.axy * s.buy,
     eyy |-> s.axx * s.bvy - s.axy * s.bvx,
     exy |-> (s.axx * s.buy - s.axy * s.bux) + (s.ayy * s.bvx - s.axy * s.bvy),
     scale |-> Determinant(s),
     valid |-> TRUE]

(* The fit at one point.                                                   *)
Fit(all, i, near) ==
    LET usable == {j \in near : all[j].valid}
        sums == NormalEquations(all, i, usable)
    IN  IF ~all[i].valid \/ Cardinality(usable) < 3 \/ Determinant(sums) = 0 THEN NoStrain
        ELSE Solution(sums)

(* A result of the engine: a homogeneous field on one of its grids, in      *)
(* which some points were not found and carry arbitrary displacements.      *)
Measured(layout, valid, g) ==
    [i \in DOMAIN layout |->
        [x |-> layout[i][1], y |-> layout[i][2], valid |-> i \in valid,
         u |-> IF i \in valid THEN g.ux * layout[i][1] + g.uy * layout[i][2] ELSE 999,
         v |-> IF i \in valid THEN g.vx * layout[i][1] + g.vy * layout[i][2] ELSE -999]]

Apply ==
    \E layout \in Layouts, g \in Gradients : \E valid \in SUBSET DOMAIN layout :
        LET new == Measured(layout, valid, g)
        IN  /\ IF TopologyMatches(new) THEN UNCHANGED <<coordinates, neighbors>>
               ELSE RebuildTopology(new)
            /\ points' = new
            /\ strains' = [i \in DOMAIN new |-> Fit(new, i, neighbors'[i])]
            /\ gradient' = g

StrainNext == Apply

(* Whatever was measured before, and whichever points are missing: a point  *)
(* has a strain exactly if it and three of the eight points around it are    *)
(* valid, it is that of the field, and the other points have none left from *)
(* earlier.  (Three neighbours never lie on one line through the point.)    *)
StrainIsOfTheField ==
    \A i \in DOMAIN points :
        LET around == {j \in DOMAIN points \ {i} :
                         /\ points[j].valid
                         /\ points[j].x - points[i].x \in {-GridStep, 0, GridStep}
                         /\ points[j].y - points[i].y \in {-GridStep, 0, GridStep}}
            s == strains[i]
        IN  IF points[i].valid /\ Cardinality(around) >= 3
            THEN /\ s.valid
                 /\ s.exx = gradient.ux * s.scale
                 /\ s.eyy = gradient.vy * s.scale
                 /\ s.exy = (gradient.uy + gradient.vx) * s.scale
            ELSE s = NoStrain
=============================================================================
