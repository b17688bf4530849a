---------------------------- MODULE RoutePlanner -----------------------------
(***************************************************************************)
(* The navigation command of the orion and minddrive nodes, a port of the  *)
(* Bench2Drive RoutePlanner: which of its waypoints the planner takes to   *)
(* be passed.  A route is a line of waypoints one unit apart, so a deque   *)
(* that is only popped from the left is the interval of those that remain. *)
(***************************************************************************)
EXTENDS Integers

CONSTANTS
  RouteLen, \* waypoints of a route
  MinDist,  \* ROUTE_MIN_DIST: a waypoint this close counts as reached
  MaxDist   \* ROUTE_MAX_DIST: how far along the route is searched

ASSUME PlannerAssumption ==
  RouteLen \in Nat \ {0} /\ MinDist \in Nat /\ MaxDist \in Nat

Whole == [lo |-> 0, hi |-> RouteLen - 1]

Remaining(deque) == deque.hi - deque.lo + 1
Away(deque, i, x) == IF deque.lo + i < x THEN x - deque.lo - i ELSE deque.lo + i - x

\* The loop looks at a waypoint if the ones before it add up to no more than
\* MaxDist, and keeps those within MinDist of the car.
InReach(deque, x) ==
  {i \in 1..Remaining(deque) - 1 : i - 1 <= MaxDist /\ Away(deque, i, x) <= MinDist}

\* The first of those that are farthest from the car.
ToPop(deque, x) ==
  LET reach == InReach(deque, x)
      farthest == {i \in reach : \A j \in reach : Away(deque, j, x) <= Away(deque, i, x)}
  IN  IF reach = {} THEN 0 ELSE CHOOSE i \in farthest : \A j \in farthest : i <= j

\* Mutant: the last way point but one may go as well.
PopleftToOne(deque) == IF Remaining(deque) > 1 THEN [deque EXCEPT !.lo = @ + 1] ELSE deque

\* Mutant: three way points are kept.
PopleftToThree(deque) == IF Remaining(deque) > 3 THEN [deque EXCEPT !.lo = @ + 1] ELSE deque

Popleft(deque) == IF Remaining(deque) > 2 THEN [deque EXCEPT !.lo = @ + 1] ELSE deque
=============================================================================
