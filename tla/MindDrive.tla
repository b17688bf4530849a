------------------------------ MODULE MindDrive ------------------------------
(***************************************************************************)
(* minddrive_node.py: the frame dispatcher of Dispatch with this node's    *)
(* guards on a route change.  A snapshot carries the serial of the route   *)
(* it was taken on; it is taken only of images and odometry that arrived   *)
(* after the route did; the reset is carried out by whoever prepares the   *)
(* next frame, under _prep_lock; the serial is tested before the model and *)
(* after it.                                                               *)
(*                                                                         *)
(* Routes are numbered by _route_serial, which _scene_token shows; route 0 *)
(* is none.  A plan is the frame it was predicted from.                    *)
(***************************************************************************)
EXTENDS Dispatch, StaggeredViews

CONSTANTS
  MaxRoutes, \* bound: how many different routes arrive
  Warmups    \* forwards on a black frame before the first real one

ASSUME MindDriveAssumption == MaxRoutes \in Nat /\ Warmups \in Nat

Routes  == 0..MaxRoutes
Black   == 0                    \* the warm-up frame
NoPlan  == None
Sources == {"front", "rest"}  \* the front camera; the last to arrive of odometry and the other cameras

VARIABLES
  serial,    \* _route_serial, and with it _scene_token and _route
  pending,   \* _pending_route_reset
  arrived,   \* the route on which the latest message of each source arrived
  snap,      \* of each frame: route_serial, and the route of its oldest image or odometry
  token,     \* the scene token each frame was prepared with
  resetting, \* the thread inside _reset_for_new_route, with _prep_lock
  gate,      \* where _forward is between its tests and the lines after them
  read,      \* _forward's local route_serial
  testFlag,  \* model.test_flag: FALSE makes the next forward a first one
  views,     \* the staggered views of the backbone
  plan,      \* the frame _traj_state was predicted from
  tracked,   \* the plan a control tick is following
  fed,       \* history: frames whose plans _pid was stepped with
  late,      \* history: frames that entered the model when their route had ended
  strays,    \* history: frames whose plan was stored for a route that had ended
  slipped    \* history: routes that arrived between a test and what relies on it

inputVars == <<arrived, snap>>
batchVars == <<token, resetting>>
gateVars  == <<gate, read>>
modelVars == <<testFlag, views>>
slipVars  == <<late, strays, slipped>>
driveVars == <<plan, tracked, fed, slipVars>>
mdVars    == <<serial, pending, inputVars, batchVars, gateVars, modelVars, driveVars>>

\* _warmup: the black frame goes through the installed views like any other,
\* and only the heads' memory is cleared after it.
WarmedUp[n \in 0..Warmups] == IF n = 0 THEN NewViews ELSE Called(WarmedUp[n - 1], Black)

MDInit ==
  /\ Init
  /\ serial = 0 /\ pending = FALSE
  /\ arrived = [s \in Sources |-> -1]
  /\ snap = [f \in Frames |-> [serial |-> 0, inputs |-> 0]]
  /\ token = [f \in Frames |-> 0] /\ resetting = "none"
  /\ gate = "closed" /\ read = 0
  /\ testFlag = FALSE /\ views = WarmedUp[Warmups]
  /\ plan = NoPlan /\ tracked = NoPlan /\ fed = {}
  /\ late = {} /\ strays = {} /\ slipped = 0

-----------------------------------------------------------------------------
(* main: sensors, routes and the inference timer                           *)

MainFree == pc["main"] = "idle" /\ tracked = NoPlan

\* An image and the odometry are stored with the time they arrived at; speed and
\* IMU (_speed_callback, _imu_callback) are not, and are left out here.
FrontArrives ==
  /\ tracked = NoPlan
  /\ CameraFrame
  /\ arrived' = [arrived EXCEPT !["front"] = serial]
  /\ UNCHANGED <<serial, pending, snap, batchVars, gateVars, modelVars, driveVars>>

RestArrives ==
  /\ MainFree
  /\ arrived["rest"] # serial
  /\ arrived' = [arrived EXCEPT !["rest"] = serial]
  /\ UNCHANGED <<vars, serial, pending, snap, batchVars, gateVars, modelVars, driveVars>>

\* _route_callback with a new fingerprint drops the plan at once; the rest is
\* reset before the next frame.
RouteCallback ==
  /\ MainFree
  /\ serial < MaxRoutes
  /\ serial' = serial + 1 /\ pending' = TRUE
  /\ plan' = NoPlan
  /\ slipped' = IF gate = "closed" THEN slipped ELSE slipped + 1
  /\ UNCHANGED <<vars, inputVars, batchVars, gateVars, modelVars, tracked, fed, late, strays>>

Oldest == IF arrived["front"] < arrived["rest"] THEN arrived["front"] ELSE arrived["rest"]

\* _take_snapshot waits until odometry and every camera have been received, and
\* received since the route changed; of speed and IMU it takes what there is.
InputsCurrent == Oldest = serial

Snapshot == snap' = [snap EXCEPT ![taken'] = [serial |-> serial, inputs |-> Oldest]]

TimerSnapshot ==
  /\ tracked = NoPlan /\ InputsCurrent
  /\ TimerTake
  /\ IF taken' = taken THEN UNCHANGED snap ELSE Snapshot
  /\ UNCHANGED <<serial, pending, arrived, batchVars, gateVars, modelVars, driveVars>>

TimerWaits ==
  /\ pc["main"] = "takeRun" /\ ~InputsCurrent
  /\ Goto("main", "idle")
  /\ UNCHANGED <<frame, mainVars, slotVars, jobVars, lockVars, paceVars, logVars, mdVars>>

PrepSnapshot ==
  /\ tracked = NoPlan
  /\ MaybePipelinePrep
  /\ IF taken' = taken THEN UNCHANGED snap ELSE InputsCurrent /\ Snapshot
  /\ UNCHANGED <<serial, pending, arrived, batchVars, gateVars, modelVars, driveVars>>

\* The rest of the timer callback is the dispatcher's.
TimerElsewhere ==
  /\ tracked = NoPlan
  /\ \/ TimerCallback \/ TimerCheckPrep \/ TimerSubmit
     \/ SubmitPrep \/ AssignPrep \/ HookPrep
     \/ TryStartFromPrepared("main") \/ StartForward("main")
  /\ UNCHANGED mdVars

-----------------------------------------------------------------------------
(* whoever prepares: _prepare, under _prep_lock                            *)

\* Mutant: the reset leaves the model's memory as it is.
ResetKeepsMemory(t) ==
  /\ pc[t] = "buildWait" /\ prepLock = "free" /\ resetting = "none"
  /\ pending
  /\ resetting' = t
  /\ fresh' = TRUE
  /\ plan' = NoPlan /\ fed' = {}
  /\ UNCHANGED <<pc, frame, taken, slotVars, jobVars, lockVars, paceVars, logVars, serial,
                 pending, inputVars, token, gateVars, testFlag, views, tracked, slipVars>>

\* Mutant: the controller of the old route goes on.
ResetKeepsPid(t) ==
  /\ pc[t] = "buildWait" /\ prepLock = "free" /\ resetting = "none"
  /\ pending
  /\ resetting' = t
  /\ testFlag' = FALSE /\ fresh' = TRUE
  /\ plan' = NoPlan
  /\ UNCHANGED <<pc, frame, taken, slotVars, jobVars, lockVars, paceVars, logVars, serial,
                 pending, inputVars, token, gateVars, views, tracked, fed, slipVars>>

\* _reset_for_new_route: the model's memory, the last stamp, the controller
\* and the plan ...
ResetContext(t) ==
  /\ pc[t] = "buildWait" /\ prepLock = "free" /\ resetting = "none"
  /\ pending
  /\ resetting' = t
  /\ testFlag' = FALSE /\ fresh' = TRUE
  /\ plan' = NoPlan /\ fed' = {}
  /\ UNCHANGED <<pc, frame, taken, slotVars, jobVars, lockVars, paceVars, logVars, serial,
                 pending, inputVars, token, gateVars, views, tracked, slipVars>>

\* ... and last the flag, whatever arrived meanwhile.  Then the batch is built.
Build(t) ==
  /\ IF resetting = t THEN pending' = FALSE
                      ELSE resetting = "none" /\ ~pending /\ UNCHANGED pending
  /\ BuildBatch(t)
  /\ resetting' = "none"
  /\ token' = [token EXCEPT ![frame[t]] = serial]
  /\ UNCHANGED <<serial, inputVars, gateVars, modelVars, driveVars>>

\* _build_batch reads the scene token when the images are decoded: it is that of
\* some moment between the start of the build and its end.
Built(t) ==
  /\ PrepareDone(t)
  /\ \E s \in token[frame[t]]..serial : token' = [token EXCEPT ![frame[t]] = s]
  /\ UNCHANGED <<serial, pending, inputVars, resetting, gateVars, modelVars, driveVars>>

-----------------------------------------------------------------------------
(* gpu: _forward                                                           *)

Current == snap[frame["gpu"]].serial = serial /\ ~pending

\* A frame of another route than the present one is discarded, and its job ends
\* at once, before its callback is attached perhaps.
Discard ==
  /\ pc["gpu"] = "enter" /\ gate = "closed" /\ ~Current
  /\ EndJob("gpu", "gpu", "done")
  /\ UNCHANGED <<mainVars, slotVars, lockVars, paceVars, logVars, mdVars>>

\* Mutant: the serial of the snapshot is not tested before the model.
PassUntested ==
  /\ pc["gpu"] = "enter" /\ gate = "closed" /\ ~pending
  /\ gate' = "passed"
  /\ UNCHANGED <<vars, serial, pending, inputVars, batchVars, read, modelVars, driveVars>>

Pass ==
  /\ pc["gpu"] = "enter" /\ gate = "closed" /\ Current
  /\ gate' = "passed"
  /\ UNCHANGED <<vars, serial, pending, inputVars, batchVars, read, modelVars, driveVars>>

\* The serial to compare with later is read once more ...
ReadSerial ==
  /\ gate = "passed"
  /\ gate' = "read" /\ read' = serial
  /\ UNCHANGED <<vars, serial, pending, inputVars, batchVars, modelVars, driveVars>>

\* ... the modules of the model are wrapped, and it starts: as if for the first
\* time if its flag was cleared.
EnterModel ==
  /\ gate = "read"
  /\ ForwardProceed
  /\ gate' = "closed"
  /\ testFlag' = TRUE
  /\ late' = IF snap[frame["gpu"]].serial = serial THEN late ELSE late \cup {frame["gpu"]}
  /\ UNCHANGED <<serial, pending, inputVars, batchVars, read, views,
                 plan, tracked, fed, strays, slipped>>

UseViews == views' = Called(views, frame["gpu"])

\* The model raises before its backbone has run, in it, or after.
ModelRaises ==
  /\ gate = "closed"
  /\ ForwardRaises
  /\ UNCHANGED views \/ views' = Attempted(views) \/ UseViews
  /\ UNCHANGED <<serial, pending, inputVars, batchVars, gateVars, testFlag, driveVars>>

\* The plan of a route that ended meanwhile is dropped ...
PlanDiscarded ==
  /\ gate = "closed" /\ read # serial
  /\ ForwardDone
  /\ UseViews
  /\ UNCHANGED <<serial, pending, inputVars, batchVars, gateVars, testFlag, driveVars>>

\* Mutant: the serial is not tested after the model.
PlanAcceptedUntested ==
  /\ pc["gpu"] = "model" /\ gate = "closed"
  /\ gate' = "accepted"
  /\ UNCHANGED <<vars, serial, pending, inputVars, batchVars, read, modelVars, driveVars>>

PlanAccepted ==
  /\ pc["gpu"] = "model" /\ gate = "closed" /\ read = serial
  /\ gate' = "accepted"
  /\ UNCHANGED <<vars, serial, pending, inputVars, batchVars, read, modelVars, driveVars>>

\* ... any other becomes the one to track.
StorePlan ==
  /\ gate = "accepted"
  /\ ForwardDone
  /\ gate' = "closed"
  /\ UseViews
  /\ plan' = frame["gpu"]
  /\ strays' = IF snap[plan'].serial = serial THEN strays ELSE strays \cup {plan'}
  /\ UNCHANGED <<serial, pending, inputVars, batchVars, read, testFlag, tracked, fed, late, slipped>>

-----------------------------------------------------------------------------
(* main: the control timer                                                 *)

\* _control_callback takes the plan and cuts it again from now ...
ControlRead ==
  /\ MainFree
  /\ plan # NoPlan /\ serial # 0
  /\ tracked' = plan
  /\ UNCHANGED <<vars, serial, pending, inputVars, batchVars, gateVars, modelVars, plan, fed, slipVars>>

\* ... and steps the controller that is then in _pid.
ControlCompute ==
  /\ tracked # NoPlan
  /\ tracked' = NoPlan
  /\ fed' = fed \cup {tracked}
  /\ UNCHANGED <<vars, serial, pending, inputVars, batchVars, gateVars, modelVars, plan, slipVars>>

-----------------------------------------------------------------------------
WorkerElsewhere(t) ==
  /\ PrepareFails(t) \/ TryStartFromPrepared(t) \/ StartForward(t)
  /\ UNCHANGED mdVars

GpuThread ==
  \/ GpuTake /\ UNCHANGED mdVars
  \/ ResetContext("gpu") \/ Build("gpu") \/ Built("gpu") \/ WorkerElsewhere("gpu")
  \/ Discard \/ Pass \/ ReadSerial \/ EnterModel
  \/ ModelRaises \/ PlanDiscarded \/ PlanAccepted \/ StorePlan

PrepThread ==
  \/ PrepTake /\ UNCHANGED mdVars
  \/ ResetContext("prep") \/ Build("prep") \/ Built("prep") \/ WorkerElsewhere("prep")

TimerThread == TimerSnapshot \/ TimerWaits \/ PrepSnapshot \/ TimerElsewhere

MDNext ==
  \/ FrontArrives \/ RestArrives \/ RouteCallback
  \/ TimerThread \/ ControlRead \/ ControlCompute
  \/ GpuThread \/ PrepThread

mdAll  == <<vars, mdVars>>
MDSpec == MDInit /\ [][MDNext]_mdAll
=============================================================================
