---------------------------- MODULE MCTrajectory -----------------------------
(***************************************************************************)
(* The orion nodes without the PID, whichever launch file was started:     *)
(* orion.launch.py or orion_lite.launch.py.                                *)
(***************************************************************************)
EXTENDS OrionTrajectory, OrionLite

VARIABLE launch

Init == launch \in {"orion", "orion_lite"} /\ TrajectoryInit /\ LiteInit

Next ==
  /\ UNCHANGED launch
  /\ \/ launch = "orion" /\ TrajectoryNext /\ UNCHANGED liteVars
     \/ launch = "orion_lite" /\ LiteNext /\ UNCHANGED vars

Spec == Init /\ [][Next]_<<launch, vars, liteVars>>

-----------------------------------------------------------------------------
\* A front frame is given to the model once; but the reset for a new route,
\* done by the worker with the frame in its hands, makes the timer take that
\* frame for a new one and costs one more run of it.
FrameOnce == latest.runs <= 1 + latest.resets

\* The model never keeps a memory across a restart of the frame counter, though
\* a route may arrive at any point of a run, its token be used before its reset,
\* or its reset be lost in the one before it.
MemoryMovesOn == job.stage = "model" /\ Kept => job.idx > memory.idx

\* "immediately transformed to the map frame": as long as it is tracked, a
\* trajectory lies where the car was as it was published, give or take a tick.
Anchored == track # NoTrack => track.msg.at - track.anchor \in 0..MaxStep

\* The controller is never mute, and it stops the car exactly if the node has
\* sent nothing it can use for the timeout, whichever of odometry and trajectory
\* comes first.
SilentCarStops ==
  ~due => /\ silence > Timeout => command = "stop"
          /\ silence \in 1..Timeout => command = "go"

-----------------------------------------------------------------------------
\* No frame is located before both numbers are there: with neither of them as
\* __init__ left it, whichever threads are at them meanwhile.
LocatedOnAMap == \A map \in maps : NoPair \notin {map.lat, map.lon}
=============================================================================
