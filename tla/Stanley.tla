------------------------------- MODULE Stanley -------------------------------
(***************************************************************************)
(* stanley_controller_node.py, which the orion, simlingo and recogdrive    *)
(* packages each carry: it puts a trajectory on the map where it finds the *)
(* car when the trajectory arrives, tracks it until the next one, and      *)
(* stops the car when none has come for too long.  The road is a line and  *)
(* a place a number; steering is left out, and of the speeds only whether  *)
(* there is one.                                                           *)
(***************************************************************************)
EXTENDS Integers, Sequences

CONSTANTS
  Timeout,   \* trajectory_timeout_sec, in ticks
  TopicDepth \* depth of the subscription

ASSUME StanleyAssumption == Timeout \in Nat /\ TopicDepth \in Nat \ {0}

None    == -1
NoTrack == [anchor |-> None]
Never   == Timeout + 1 \* any age past the timeout

VARIABLES
  topic,   \* trajectories published and not yet delivered
  pose,    \* _latest_odom of the controller
  track,   \* _traj_xs, _traj_ys, _traj_speeds: a trajectory and where it was put
  age,     \* how long ago _last_traj_sec was
  command, \* the AckermannDrive last published
  due      \* the control timer has not run in this tick

stanleyVars == <<topic, pose, track, age, command, due>>

StanleyInit ==
  /\ topic = <<>> /\ pose = None
  /\ track = NoTrack /\ age = Never
  /\ command = "none" /\ due = TRUE

\* A publisher's message: a full queue loses its oldest.
Queued(queue, msg) ==
  IF Len(queue) < TopicDepth THEN Append(queue, msg) ELSE Append(Tail(queue), msg)

\* _odometry_cb
OdometryCb(place) ==
  /\ pose # place
  /\ pose' = place
  /\ UNCHANGED <<topic, track, age, command, due>>

On(msg, place) == [anchor |-> place, msg |-> msg]

\* Mutant: the time is taken before the trajectory is looked at.
TrajectoryCbStampsFirst ==
  /\ topic # <<>>
  /\ topic' = Tail(topic)
  /\ age' = 0
  /\ track' = IF pose = None THEN track ELSE On(Head(topic), pose)
  /\ UNCHANGED <<pose, command, due>>

\* _trajectory_cb: "no odometry yet" drops the trajectory.  (One of fewer than
\* two points is dropped too; what the nodes publish has a point for every half
\* second of the plan.)
TrajectoryCb ==
  /\ topic # <<>>
  /\ topic' = Tail(topic)
  /\ IF pose = None
     THEN UNCHANGED <<track, age>>
     ELSE track' = On(Head(topic), pose) /\ age' = 0
  /\ UNCHANGED <<pose, command, due>>

\* Mutant: the trajectory is taken to start where the car is now.
ControlCbReanchors ==
  /\ due /\ due' = FALSE
  /\ IF age > Timeout
     THEN command' = "stop" /\ UNCHANGED track
     ELSE IF pose = None \/ track = NoTrack
     THEN UNCHANGED <<command, track>>
     ELSE command' = "go" /\ track' = [track EXCEPT !.anchor = pose]
  /\ UNCHANGED <<topic, pose, age>>

\* _control_cb: stop, say nothing, or track.
ControlCb ==
  /\ due /\ due' = FALSE
  /\ command' = IF age > Timeout THEN "stop"
                ELSE IF pose = None \/ track = NoTrack THEN command
                ELSE "go"
  /\ UNCHANGED <<topic, pose, track, age>>

\* The clock, as the controller reads it.
Older == age' = IF age = Never THEN Never ELSE age + 1
=============================================================================
