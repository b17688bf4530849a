------------------------------ MODULE MCClient -------------------------------
(***************************************************************************)
(* What the SimLingo client must keep together while messages come in.     *)
(***************************************************************************)
EXTENDS InferenceClient

\* A straight road, one that turns back, one whose waypoints lie close together.
SomeRoutes == {<<1, 2, 3, 4>>, <<1, 2, 3, 2, 1>>, <<1, 1, 2, 4, 3>>, <<2, 1>>, <<3>>}

\* Every control answers an image that was not answered before, and bears the
\* stamp of that image, though images come in while the one before is computed.
AnswersItsImage ==
  [][control' # control =>
       control'.stamp = control'.image /\ control'.stamp > control.stamp]_clientVars

\* The car is made to creep, past the brake the model asked for, exactly if it
\* has stood still for more than StuckThreshold frames on end, CreepDuration
\* frames ago or less.
StoodStill(k) ==
  /\ Len(slow) - k > StuckThreshold
  /\ \A i \in Len(slow) - k - StuckThreshold..Len(slow) - k : slow[i]
CreepsWhenStuck ==
  main = "idle" /\ slow # <<>> =>
    (control.does = "creep" <=> \E k \in 0..CreepDuration - 1 : StoodStill(k))

\* The node's index is "a transcription" of the planner: it gives the model the
\* same two target points on every frame, whatever way the route and the car take.
SameTargets ==
  main = "model" => Targets(planner) = IndexTargets(globalPlan, index)
=============================================================================
