----------------------------- MODULE ReCogDrive ------------------------------
(***************************************************************************)
(* recogdrive_node.py in control mode "pid": one worker plans from the     *)
(* front image and a history of poses cut at its stamp, main hears the     *)
(* topics and tracks the plan.  A tick of the clock is the 0.5 s between   *)
(* two poses of a plan.  Callbacks run on main, one at a time; the route   *)
(* planner is that of RoutePlanner and, here, of main alone.  By the time  *)
(* a route is heard the messages of the run before it are through.         *)
(***************************************************************************)
EXTENDS PoseHistory, RebasedPlan

CONSTANTS
  MaxTime,     \* bound: ticks of the clock
  Steps,       \* how far the car may move in a tick
  Speed,       \* how far the model would have it move
  MaxRuns,     \* bound: how many routes are driven
  LastRunAt,   \* bound: when the last of them begins
  MaxQuiet,    \* bound: ticks that pass between two odometry messages
  ClockSlack,  \* how far apart the stamps may be and still be of one clock
  StallTimeout,\* plan_stall_timeout_sec, in ticks
  Horizon,     \* NUM_TRAJECTORY_POSES
  FullHistory, \* require_full_history
  Fails        \* TRUE: decoding and planning may raise

ASSUME ReCogAssumption ==
  /\ {MaxTime, Speed, MaxRuns, LastRunAt, MaxQuiet, ClockSlack, StallTimeout} \subseteq Nat
  /\ Horizon \in Nat \ {0} /\ Steps \subseteq Nat
  /\ {FullHistory, Fails} \subseteq BOOLEAN

VARIABLES
  wall,     \* time.time(), time.monotonic()
  epoch,    \* when the simulator's clock started
  run,      \* the run the simulator is in
  path,     \* where the car was at each tick of the run, from `start' on
  start,    \* simulated time at which the run began
  quiet,    \* ticks since the last odometry message
  samples,  \* _history
  since,    \* history: simulated time of the first sample since it was emptied
  origin,   \* _latest_origin_pose
  cam,      \* the front camera buffer
  heard,    \* which topics were heard since _route_change_mono
  fresh,    \* the stamp of the image differs from _last_ref_stamp
  serial,   \* _route_serial
  job,      \* the frame the worker is on
  plan,     \* _plan_state
  pid,      \* history: the present PID has been stepped on another route's plan
  slipped   \* history: the present route came between test and store

simVars   == <<wall, epoch, run, path, start, quiet>>
inputVars == <<samples, since, origin, cam, heard>>
routeVars == <<serial, slipped>>
driveVars == <<plan, pid>>
vars == <<simVars, inputVars, fresh, routeVars, job, driveVars>>

None     == -1
NoImage  == [run |-> 0, t |-> None]
NoOrigin == [run |-> 0, t |-> None, x |-> 0]
NoInput  == [run |-> 0, window |-> <<>>, since |-> 0, tRef |-> 0]
NoJob    == [at |-> "none", input |-> NoInput, pose |-> 0, poseAt |-> 0, serial |-> 0,
             seen |-> 0]
NoPlan   == [poses |-> <<>>, frame |-> 0, seen |-> 0, arrived |-> 0, serial |-> 0,
             at |-> 0]

sim == wall - epoch
PosAt(t) == path[t - start + 1]

Init ==
  /\ wall = 0 /\ epoch = 0 /\ run = 1 /\ path = <<0>> /\ start = 0 /\ quiet = 0
  /\ samples = <<>> /\ since = None /\ origin = NoOrigin
  /\ cam = NoImage /\ heard = {} /\ fresh = FALSE
  /\ serial = 1 /\ slipped = FALSE
  /\ job = NoJob /\ plan = NoPlan /\ pid = FALSE

-----------------------------------------------------------------------------
(* the simulator                                                           *)

Tick ==
  /\ wall < MaxTime /\ quiet < MaxQuiet
  /\ wall' = wall + 1 /\ quiet' = quiet + 1
  /\ \E s \in Steps : path' = Append(path, path[Len(path)] + s)
  /\ UNCHANGED <<epoch, run, start, inputVars, fresh, routeVars, job, driveVars>>

\* The next route: the car is put somewhere else, and the simulator may have
\* been restarted.
NewRun ==
  /\ run = serial /\ run < MaxRuns /\ wall <= LastRunAt
  /\ run' = run + 1
  /\ path' = <<0>> /\ quiet' = 0
  /\ \/ epoch' = epoch /\ start' = sim
     \/ epoch' = wall /\ start' = 0
  /\ UNCHANGED <<wall, inputVars, fresh, routeVars, job, driveVars>>

-----------------------------------------------------------------------------
(* the callbacks of main                                                   *)

CameraCallback ==
  /\ cam # [run |-> run, t |-> sim]
  /\ cam' = [run |-> run, t |-> sim]
  /\ fresh' = TRUE
  /\ heard' = heard \cup {"camera"}
  /\ UNCHANGED <<simVars, samples, since, origin, routeVars, job, driveVars>>

OdometryCallback ==
  LET s == [t |-> sim, run |-> run, x |-> PosAt(sim)] IN
  /\ origin # s
  /\ samples' = Add(samples, s)
  /\ since' = IF samples = <<>> \/ Backwards(samples, s) THEN sim ELSE since
  /\ origin' = s
  /\ quiet' = 0
  /\ heard' = heard \cup {"odometry"}
  /\ UNCHANGED <<wall, epoch, run, path, start, cam, fresh, routeVars, job, driveVars>>

\* Mutant: the history is kept.
RouteCallbackKeeps ==
  /\ serial < run
  /\ serial' = serial + 1 /\ slipped' = (job.at = "store")
  /\ fresh' = TRUE /\ heard' = {}
  /\ plan' = NoPlan /\ pid' = FALSE
  /\ UNCHANGED <<simVars, samples, since, origin, cam, job>>

\* A fingerprint that is new.  The same route once more changes nothing here.
RouteCallback ==
  /\ serial < run
  /\ serial' = serial + 1 /\ slipped' = (job.at = "store")
  /\ samples' = <<>> /\ fresh' = TRUE /\ heard' = {}
  /\ plan' = NoPlan /\ pid' = FALSE
  /\ UNCHANGED <<simVars, since, origin, cam, job>>

\* _take_snapshot: the stamp of the image, if it is of the odometry's clock and
\* odometry has got there.
RefTime(image) ==
  LET newest == Newest(samples).t
  IN  IF image.t > newest \/ newest - image.t > ClockSlack THEN newest ELSE image.t

Held(tRef) == {i \in 1..Frames : FrameTime(tRef, i) < Oldest(samples).t}

TimerCallback ==
  /\ job.at = "none"
  /\ heard = {"camera", "odometry"}
  /\ fresh
  /\ LET tRef == RefTime(cam)
         window == Window(samples, tRef) IN
       /\ FullHistory => Held(tRef) = {}
       /\ job' = [NoJob EXCEPT !.at = "input", !.serial = serial, !.seen = wall,
                 !.input = [run |-> cam.run, window |-> window, since |-> since, tRef |-> tRef],
                 !.pose = window[Frames].x, !.poseAt = IF tRef < since THEN since ELSE tRef]
  /\ fresh' = FALSE
  /\ UNCHANGED <<simVars, inputVars, routeVars, driveVars>>

-----------------------------------------------------------------------------
(* _run_inference, on the worker                                           *)

\* By the fast path or, where there is none or it does not cover this frame, by
\* the reference; both are given the snapshot.
Plan ==
  /\ job.at = "input"
  /\ job' = [job EXCEPT !.at = "model", !.input = NoInput]
  /\ UNCHANGED <<simVars, inputVars, fresh, routeVars, driveVars>>

Raises ==
  /\ Fails /\ job.at \in {"input", "model"}
  /\ job' = NoJob
  /\ UNCHANGED <<simVars, inputVars, fresh, routeVars, driveVars>>

\* Mutant: a route that came during the forward is not looked for.
AcceptedAlways == TRUE

Accepted == job.serial = serial

PlanReady ==
  /\ job.at = "model"
  /\ job' = IF Accepted THEN [job EXCEPT !.at = "store"] ELSE NoJob
  /\ UNCHANGED <<simVars, inputVars, fresh, routeVars, driveVars>>

\* What the model plans is to drive at Speed.
StorePlan ==
  /\ job.at = "store"
  /\ plan' = [poses |-> [i \in 1..Horizon |-> i * Speed], frame |-> job.pose,
              seen |-> job.seen, arrived |-> wall, serial |-> job.serial,
              at |-> job.poseAt]
  /\ job' = NoJob
  /\ UNCHANGED <<simVars, inputVars, fresh, routeVars, pid>>

-----------------------------------------------------------------------------
(* the control timer, on main                                              *)

\* history: the car has done what the plan says since the pose it starts from,
\* and odometry has told that pose and where the car is now.
OnPlan ==
  /\ plan.serial = run /\ origin.run = run /\ origin.t = sim
  /\ plan.frame = PosAt(plan.at)
  /\ \A t \in plan.at..sim - 1 : PosAt(t + 1) - PosAt(t) = plan.poses[1]

Stalled == wall - plan.arrived > StallTimeout
FirstWaypoint == Rebased(plan.poses, wall - plan.seen, plan.frame, origin.x)[1]

ControlCallback ==
  /\ plan # NoPlan /\ ~Stalled
  /\ pid' = (pid \/ plan.serial # serial)
  /\ UNCHANGED <<simVars, inputVars, fresh, routeVars, job, plan>>

-----------------------------------------------------------------------------
Simulator == Tick \/ NewRun
Main == CameraCallback \/ OdometryCallback \/ RouteCallback
          \/ TimerCallback \/ ControlCallback
Worker == Plan \/ Raises \/ PlanReady \/ StorePlan

Next == Simulator \/ Main \/ Worker
Spec == Init /\ [][Next]_vars
=============================================================================
