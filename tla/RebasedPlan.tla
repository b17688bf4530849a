----------------------------- MODULE RebasedPlan -----------------------------
(***************************************************************************)
(* rebase_plan of pid_control.py: a plan re-cut from where the car is now. *)
(* Time is counted in the steps of the plan and the car is on a line, so   *)
(* the rotation is dropped and what lies between two knots does not occur. *)
(***************************************************************************)
EXTENDS Integers, Sequences

\* Where the plan has the car t steps after its frame.  Beyond the horizon the
\* last segment is continued.
Knot(plan, i) == IF i = 0 THEN 0 ELSE plan[i]

\* Mutant: beyond the horizon the car stays at the last point.
PlannedAtClamped(plan, t) == IF t >= Len(plan) THEN plan[Len(plan)] ELSE Knot(plan, t)

PlannedAt(plan, t) ==
  LET n == Len(plan)
  IN  IF t >= n THEN plan[n] + (t - n) * (plan[n] - Knot(plan, n - 1)) ELSE Knot(plan, t)

Rebased(plan, age, frame, ego) ==
  [j \in 1..Len(plan) |-> frame + PlannedAt(plan, age + j) - ego]
=============================================================================
