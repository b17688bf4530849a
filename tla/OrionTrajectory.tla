--------------------------- MODULE OrionTrajectory ---------------------------
(***************************************************************************)
(* What orion.launch.py starts: orion_node.py, which runs one frame at a   *)
(* time on its worker and publishes the trajectory, and the Stanley        *)
(* controller that drives it.  Main runs the callbacks of the node; the    *)
(* worker is at one of the points between which main may write what it     *)
(* reads.  The cameras are one front frame that gets newer.                *)
(***************************************************************************)
EXTENDS Stanley

CONSTANTS
  MaxTime,   \* bound: ticks of the clock
  MaxStep,   \* how far a car that is told to go gets in a tick
  MaxRoutes  \* bound: new routes

ASSUME TrajectoryAssumption == {MaxTime, MaxStep, MaxRoutes} \subseteq Nat

VARIABLES
  now,       \* the clock
  car,       \* where the car is
  front,     \* stamp of the front frame in MultiCameraBuffer, None at first
  odom,      \* the node has a _latest_odom
  lastStamp, \* _last_ref_stamp
  frameIdx,  \* _frame_idx
  serial,    \* _route_serial, and with it _scene_token
  pending,   \* _pending_route_reset
  job,       \* the snapshot the worker has, what became of it, and its stage
  testFlag,  \* model.test_flag
  memory,    \* token and number of the frame in the temporal memory of the heads
  latest,    \* history: the front frame run last, its runs and resets
  silence    \* history: ticks since a trajectory the controller could place

nodeVars == <<odom, lastStamp, frameIdx, serial, pending, testFlag, memory>>
history  == <<latest, silence>>
vars     == <<stanleyVars, now, car, front, nodeVars, job, history>>

Idle == [stage |-> "idle"]

\* What was done with a frame: nothing yet, or what "latest" says.
Fresh(f) == [frame |-> f, runs |-> 0, resets |-> 0]
Of(f)    == IF latest.frame = f THEN latest ELSE Fresh(f)

TrajectoryInit ==
  /\ StanleyInit
  /\ now = 0 /\ car = 0
  /\ front = None /\ odom = FALSE /\ lastStamp = None
  /\ frameIdx = 0 /\ serial = 0 /\ pending = FALSE
  /\ job = Idle
  /\ testFlag = FALSE /\ memory = [token |-> 0, idx |-> 0]
  /\ latest = Fresh(None) /\ silence = Never

-----------------------------------------------------------------------------
(* the world                                                               *)

\* The controller's callbacks are short: a tick finds them all served.
Clock ==
  /\ now < MaxTime /\ ~due /\ topic = <<>> /\ pose \in {None, car}
  /\ now' = now + 1 /\ due' = TRUE
  /\ \E step \in IF command = "go" THEN 0..MaxStep ELSE {0} : car' = car + step
  /\ Older
  /\ silence' = IF silence = Never THEN Never ELSE silence + 1
  /\ UNCHANGED <<topic, pose, track, command, front, nodeVars, job, latest>>

\* A camera image ...
CameraCallback ==
  /\ front # now /\ front' = now
  /\ UNCHANGED <<stanleyVars, now, car, nodeVars, job, history>>

\* ... and the first odometry.
OdometryCallback ==
  /\ ~odom /\ odom' = TRUE
  /\ UNCHANGED <<stanleyVars, now, car, front, lastStamp, frameIdx, serial, pending,
                 testFlag, memory, job, history>>

Controller ==
  /\ OdometryCb(car) \/ TrajectoryCb \/ ControlCb
  /\ silence' = IF pose = None /\ pose' # None /\ topic # <<>> THEN 0 ELSE silence
  /\ UNCHANGED <<now, car, front, nodeVars, job, latest>>

-----------------------------------------------------------------------------
(* main                                                                    *)

\* _route_callback with a plan whose fingerprint is new.
RouteCallback ==
  /\ serial < MaxRoutes
  /\ serial' = serial + 1 /\ pending' = TRUE
  /\ UNCHANGED <<stanleyVars, now, car, front, odom, lastStamp, frameIdx, testFlag,
                 memory, job, history>>

\* Mutant: the stamp is never remembered.
TimerCallbackForgets ==
  /\ job = Idle
  /\ front # None /\ odom
  /\ front # lastStamp
  /\ job' = [stage |-> "taken", frame |-> front]
  /\ UNCHANGED <<stanleyVars, now, car, front, nodeVars, history>>

\* _timer_callback: not busy, nothing missing, and a new front frame.
TimerCallback ==
  /\ job = Idle
  /\ front # None /\ odom
  /\ front # lastStamp
  /\ lastStamp' = front
  /\ job' = [stage |-> "taken", frame |-> front]
  /\ UNCHANGED <<stanleyVars, now, car, front, odom, frameIdx, serial, pending,
                 testFlag, memory, history>>

-----------------------------------------------------------------------------
(* the worker: _run_inference                                              *)

\* The flag is looked at once ...
CheckReset ==
  /\ job.stage = "taken"
  /\ job' = [job EXCEPT !.stage = IF pending THEN "reset" ELSE "build"]
  /\ UNCHANGED <<stanleyVars, now, car, front, nodeVars, history>>

\* Mutant: the model has no test_flag to clear.
ResetWithoutTheModel ==
  /\ job.stage = "reset"
  /\ frameIdx' = 0 /\ lastStamp' = None
  /\ latest' = [Of(job.frame) EXCEPT !.resets = @ + 1]
  /\ job' = [job EXCEPT !.stage = "resetting"]
  /\ UNCHANGED <<stanleyVars, now, car, front, odom, serial, pending, testFlag,
                 memory, silence>>

\* ... _reset_for_new_route has the model start its memory anew, and forgets
\* the stamp the timer has just remembered ...
ResetForNewRoute ==
  /\ job.stage = "reset"
  /\ testFlag' = FALSE
  /\ frameIdx' = 0 /\ lastStamp' = None
  /\ latest' = [Of(job.frame) EXCEPT !.resets = @ + 1]
  /\ job' = [job EXCEPT !.stage = "resetting"]
  /\ UNCHANGED <<stanleyVars, now, car, front, odom, serial, pending, memory, silence>>

\* ... and last clears the flag, whatever arrived meanwhile.
ResetDone ==
  /\ job.stage = "resetting"
  /\ pending' = FALSE
  /\ job' = [job EXCEPT !.stage = "build"]
  /\ UNCHANGED <<stanleyVars, now, car, front, odom, lastStamp, frameIdx, serial,
                 testFlag, memory, history>>

\* _build_batch: the token is that of the route which is then in force.
BuildBatch ==
  /\ job.stage = "build"
  /\ frameIdx' = frameIdx + 1
  /\ job' = [stage |-> "model", frame |-> job.frame, token |-> serial, idx |-> frameIdx]
  /\ UNCHANGED <<stanleyVars, now, car, front, odom, lastStamp, serial, pending,
                 testFlag, memory, history>>

\* The heads keep their memory if test_flag is set and the token is the same.
Kept == testFlag /\ memory.token = job.token

Forward ==
  /\ job.stage = "model"
  /\ job' = [job EXCEPT !.stage = "publish"]
  /\ testFlag' = TRUE
  /\ memory' = [token |-> job.token, idx |-> job.idx]
  /\ latest' = [Of(job.frame) EXCEPT !.runs = @ + 1]
  /\ UNCHANGED <<stanleyVars, now, car, front, odom, lastStamp, frameIdx, serial,
                 pending, silence>>

\* The trajectory starts where the car was when the snapshot was taken, but all
\* it says of that is a stamp; "at" is where the car has got to by now.
Publish ==
  /\ job.stage = "publish"
  /\ topic' = Queued(topic, [at |-> car])
  /\ job' = Idle
  /\ silence' = IF pose # None THEN 0 ELSE silence
  /\ UNCHANGED <<pose, track, age, command, due, now, car, front, nodeVars, latest>>

\* _on_future_done logs what was raised; the next frame may run.
Raise ==
  /\ job.stage \in {"build", "model", "publish"}
  /\ job' = Idle
  /\ UNCHANGED <<stanleyVars, now, car, front, nodeVars, history>>

Worker ==
  \/ CheckReset \/ ResetForNewRoute \/ ResetDone
  \/ BuildBatch \/ Forward \/ Publish \/ Raise

TrajectoryNext ==
  \/ Clock \/ CameraCallback \/ OdometryCallback \/ Controller
  \/ RouteCallback \/ TimerCallback \/ Worker

TrajectorySpec == TrajectoryInit /\ [][TrajectoryNext]_vars
=============================================================================
