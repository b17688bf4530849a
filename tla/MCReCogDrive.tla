---------------------------- MODULE MCReCogDrive -----------------------------
(***************************************************************************)
(* What the ReCogDrive node gives its model, and what it drives on; and    *)
(* the fast path, from which the plan of a frame may come.                 *)
(***************************************************************************)
EXTENDS ReCogDrive, MCFastContext, FiniteSets

VARIABLE part \* the one that is looked at: the "node" or its fast "path"

PartInit ==
  /\ part \in {"node", "path"}
  /\ Init /\ ContextInit
  /\ part = "node" => tail = (CHOOSE length \in Tails : TRUE) /\ ~tiles

PartNext ==
  /\ UNCHANGED part
  /\ \/ part = "node" /\ Next /\ UNCHANGED contextVars
     \/ part = "path" /\ ContextNext /\ UNCHANGED vars

PartSpec == PartInit /\ [][PartNext]_<<part, vars, contextVars>>

-----------------------------------------------------------------------------

Dist(a, b) == IF a < b THEN b - a ELSE a - b

Frame == job.at = "input" /\ job.serial = run

\* "Drop everything scoped to the route that ended": once the route has been
\* heard, all poses of a frame and its image are of the run the car is in.
FrameOfOneRun ==
  Frame => job.input.run = run /\ \A i \in 1..Frames : job.input.window[i].runs = {run}

\* "the ego is taken to have been standing where it was first seen": each pose
\* of the window is where the car was at that time, or where it was when
\* odometry was first heard if that is later; half a step off at most where
\* odometry skipped a tick.
HistoryTrue ==
  Frame => \A i \in 1..Frames :
    LET t == FrameTime(job.input.tRef, i)
        at == IF t < job.input.since THEN job.input.since ELSE t
    IN  \A s \in Steps : (\A u \in Steps : u <= s) => 2 * Dist(job.input.window[i].x, PosAt(at)) <= s

\* "plan discarded: route changed during the forward": a plan of another route
\* and a controller stepped on it are there only if the route came in the
\* moment between that test and the store.
StraysSlipped ==
  (plan # NoPlan /\ plan.serial # serial) \/ pid => slipped

\* "element j is where the model expected to be at age + dt * (j + 1)": for a
\* car that does what is planned, the first waypoint is one step ahead of it,
\* short of that by as much as it moved between the image and the dispatch.
RebasedToTheCar ==
  plan # NoPlan /\ ~Stalled /\ OnPlan =>
    LET late == plan.seen - epoch - plan.at IN FirstWaypoint = plan.poses[1] * (1 - late)
=============================================================================
