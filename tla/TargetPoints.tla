---------------------------- MODULE TargetPoints -----------------------------
(***************************************************************************)
(* Where on its route SimLingo is told to go.  The inference client asks   *)
(* RoutePlanner.run_step of the SimLingo repository, which pops a deque;   *)
(* simlingo_node.py has "a transcription" of it "with route progress       *)
(* tracked by an index instead of popleft()ing a deque".  A waypoint is a  *)
(* place on a line, so that a route may turn back on itself.               *)
(***************************************************************************)
EXTENDS Integers, Sequences, FiniteSetsExt

CONSTANTS
  MinDist, \* route_planner_min_distance, _MIN_TARGET_DIST_M
  MaxDist  \* route_planner_max_distance, _MAX_TARGET_DIST_M

ASSUME TargetAssumption == MinDist \in Nat /\ MaxDist \in Nat

Apart(a, b) == IF a < b THEN b - a ELSE a - b

\* How far it is along the route from its i-th waypoint to its j-th.
Along(way, i, j) == SumFunction([k \in 1..j - i |-> Apart(way[i + k - 1], way[i + k])])

\* The waypoint that both loops end with, scanning on from the i-th: the first
\* of those that are farthest from the car and yet within MinDist, or the i-th.
\* The scan ends after a waypoint for which the way is more than MaxDist.
Scanned(way, i)    == {j \in i + 1..Len(way) : Along(way, i, j - 1) <= MaxDist}
Reached(way, i, x) == {j \in Scanned(way, i) : Apart(way[j], x) <= MinDist}
Farthest(way, i, x) ==
  LET reached == Reached(way, i, x)
      far == {j \in reached : \A k \in reached : Apart(way[k], x) <= Apart(way[j], x)}
  IN  IF reached = {} THEN i ELSE Min(far)

\* RoutePlanner.run_step: what is left of the deque.
RunStep(deque, x) ==
  IF Len(deque) <= 2 THEN deque
  ELSE LET pops == Farthest(deque, 1, x) - 1
           keep == IF Len(deque) - pops >= 2 THEN pops ELSE Len(deque) - 2
       IN  SubSeq(deque, keep + 1, Len(deque))

\* The client: the two waypoints after the one at the front.
Targets(deque) ==
  CASE Len(deque) > 2 -> <<deque[2], deque[3]>>
    [] Len(deque) = 2 -> <<deque[2], deque[2]>>
    [] OTHER          -> <<deque[1], deque[1]>>

Lower(a, b) == IF a < b THEN a ELSE b

\* Mutant: a waypoint counts as passed even if one before it is farther away.
AdvanceIndexToTheLast(way, i, x) ==
  IF Len(way) - i + 1 > 2
  THEN Lower(Max(Reached(way, i, x) \cup {i}), Len(way) - 1) ELSE i

\* The node: _route_idx of the frame (here from 1, as sequences are) ...
AdvanceIndex(way, i, x) ==
  IF Len(way) - i + 1 > 2
  THEN Lower(Farthest(way, i, x), Len(way) - 1) ELSE i

\* ... and its tp0 and tp1.
IndexTargets(way, i) ==
  LET remaining == Len(way) - i + 1 IN
  CASE remaining > 2 -> <<way[i + 1], way[i + 2]>>
    [] remaining = 2 -> <<way[i + 1], way[i + 1]>>
    [] OTHER         -> <<way[i], way[i]>>
=============================================================================
