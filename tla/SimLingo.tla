------------------------------ MODULE SimLingo -------------------------------
(***************************************************************************)
(* The plan and its consumers in simlingo_node.py.  Three threads share    *)
(* them: "main" runs the default callback group (route and inference       *)
(* timer), "ctrl" the control group (control loop and watchdog), and one   *)
(* worker runs the model.  _plan_lock covers _plan and _controller; the    *)
(* fields of the control loop are written without it.                      *)
(*                                                                         *)
(* Granularity: a block under the lock is one step, and so is each line    *)
(* that reads or writes an unlocked field both groups use.  Clocks are two *)
(* flags, raised when an age passes its limit.                             *)
(***************************************************************************)
EXTENDS Integers, FiniteSets

CONSTANTS
  MaxRoutes,       \* bound: route messages that arrive
  MaxPlans,        \* bound: plans stored for each of them
  Waypoints,       \* how many points a predicted route has
  PredictionFails  \* an inference may raise or return nothing usable

ASSUME SimLingoAssumption ==
  /\ MaxRoutes \in Nat /\ MaxPlans \in Nat
  /\ Waypoints \in Nat \ {0}
  /\ PredictionFails \in BOOLEAN

NoPlan == [seq |-> 0, route |-> 0, made |-> 0]
NoJob  == 0

VARIABLES
  route,       \* _route_wps and _route_idx, numbered by message
  plan,        \* _plan: its seq, the route of its payload, the controller it met
  planSeq,     \* _plan_seq
  old,         \* the plan's age is above max_plan_age_sec
  controller,  \* _controller, numbered by the reset that made it
  progress,    \* _plan_progress
  progressSeq, \* _plan_progress_seq
  armed,       \* _last_control_sec is not None
  begun,       \* _first_control_sec is not None
  image,       \* _latest_image: "none", or whether it came before the last reset
               \* or since; _img_first_wall is None unless it came since
  odom,        \* _latest_odom is not None
  job,         \* the route of the payload in the worker
  stage,       \* what the worker does with it: "model" or "publish"
  pc,          \* what each callback group does next
  tick,        \* the locals of _control_cb
  applied,     \* the command CARLA goes on applying
  overdue,     \* control_timeout_sec has passed since the last tracked command
  fed,         \* history: resets whose plans the present controller was stepped with
  furthest,    \* history: the furthest point yet, of the plan tracked last
  stored,      \* bound: plans stored for the present route
  strays       \* history: plans stored since it arrived, but for a route before

planVars    == <<plan, planSeq, old, controller>>
controlVars == <<progress, progressSeq, armed, begun, tick, applied, overdue, fed, furthest>>
inputs      == <<image, odom>>
work        == <<job, stage>>
counts      == <<stored, strays>>
vars        == <<route, inputs, planVars, controlVars, work, pc, counts>>

Init ==
  /\ route = 0 /\ image = "none" /\ odom = FALSE /\ stored = 0 /\ strays = 0
  /\ job = NoJob /\ stage = "model"
  /\ plan = NoPlan /\ planSeq = 0 /\ old = FALSE /\ controller = 0
  /\ progress = 0 /\ progressSeq = -1
  /\ armed = FALSE /\ begun = FALSE
  /\ pc = [main |-> "idle", ctrl |-> "idle"]
  /\ tick = [plan |-> NoPlan, controller |-> 0, at |-> 0, cmd |-> "brake"]
  /\ applied = "none" /\ overdue = FALSE
  /\ fed = {} /\ furthest = [plan |-> NoPlan, at |-> 0]

\* An exception in a callback ends executor.spin() and with it the node.
Spinning == pc.ctrl # "raised"
Goto(group, from, to) == pc[group] = from /\ Spinning /\ pc' = [pc EXCEPT ![group] = to]

-----------------------------------------------------------------------------
\* _route_cb stores the new route, then resets what was scoped to the old one.
RouteCallback ==
  /\ Goto("main", "idle", "dropPlan")
  /\ route < MaxRoutes
  /\ route' = route + 1 /\ stored' = 0 /\ strays' = 0
  /\ UNCHANGED <<inputs, planVars, controlVars, work>>

\* A new PID, that knows nothing of the plans before.
MakeController == controller + 1

DropPlan ==
  /\ Goto("main", "dropPlan", "zeroProgress")
  /\ plan' = NoPlan /\ old' = FALSE
  /\ controller' = MakeController /\ fed' = {}
  /\ UNCHANGED <<route, inputs, planSeq, progress, progressSeq, armed, begun, tick,
                 applied, overdue, furthest, work, counts>>

ZeroProgress ==
  /\ Goto("main", "zeroProgress", "forgetSeq")
  /\ progress' = 0
  /\ UNCHANGED <<route, inputs, planVars, progressSeq, armed, begun, tick,
                 applied, overdue, fed, furthest, work, counts>>

\* Mutant: the reset also starts the numbering of the plans anew.
ForgetSeqAndNumbering ==
  /\ Goto("main", "forgetSeq", "unbegin")
  /\ progressSeq' = -1 /\ planSeq' = 0
  /\ UNCHANGED <<route, inputs, plan, old, controller, progress, armed, begun, tick,
                 applied, overdue, fed, furthest, work, counts>>

ForgetSeq ==
  /\ Goto("main", "forgetSeq", "unbegin")
  /\ progressSeq' = -1
  /\ UNCHANGED <<route, inputs, planVars, progress, armed, begun, tick,
                 applied, overdue, fed, furthest, work, counts>>

Unbegin ==
  /\ Goto("main", "unbegin", "disarm")
  /\ begun' = FALSE
  /\ UNCHANGED <<route, inputs, planVars, progress, progressSeq, armed, tick,
                 applied, overdue, fed, furthest, work, counts>>

\* The last of the reset.  The image stays, but not when the first one came.
Disarm ==
  /\ Goto("main", "disarm", "idle")
  /\ armed' = FALSE
  /\ image' = IF image = "none" THEN "none" ELSE "before"
  /\ UNCHANGED <<route, odom, planVars, progress, progressSeq, begun, tick,
                 applied, overdue, fed, furthest, work, counts>>

-----------------------------------------------------------------------------
\* _image_cb and _image_cb_compressed, with _note_image.
ImageCallback ==
  /\ Goto("main", "idle", "idle")
  /\ image' = "since" /\ image' # image
  /\ UNCHANGED <<route, odom, planVars, controlVars, work, counts>>

\* _odometry_cb; the speed has a value from the start.
OdometryCallback ==
  /\ Goto("main", "idle", "idle")
  /\ odom' = TRUE /\ odom' # odom
  /\ UNCHANGED <<route, image, planVars, controlVars, work, counts>>

\* _build_payload wants an image, an odometry and a route, and reckons the drift
\* of the camera from the first image: it raises before the next one has come.
Payload == image = "since" /\ odom /\ route # 0

Submit ==
  /\ stored < MaxPlans
  /\ job' = route /\ stage' = "model"
  /\ UNCHANGED <<route, inputs, planVars, controlVars, counts>>

\* Mutant: a future that was ever submitted counts as active.
TimerCallbackOnce ==
  /\ Goto("main", "idle", "idle")
  /\ job = NoJob /\ planSeq = 0
  /\ Payload /\ Submit

\* _timer_cb: with no inference under way and all there is to see, submit one.
TimerCallback ==
  /\ Goto("main", "idle", "idle")
  /\ job = NoJob
  /\ Payload /\ Submit

-----------------------------------------------------------------------------
\* The worker: the model answers and _store_plan anchors what it predicts ...
StorePlan ==
  /\ job # NoJob /\ stage = "model" /\ stage' = "publish"
  /\ planSeq' = planSeq + 1
  /\ plan' = [seq |-> planSeq', route |-> job, made |-> controller]
  /\ old' = FALSE
  /\ IF job = route THEN stored' = stored + 1 /\ UNCHANGED strays
                    ELSE strays' = strays + 1 /\ UNCHANGED stored
  /\ UNCHANGED <<route, inputs, controller, controlVars, job, pc>>

\* ... or predicts nothing that could be followed ...
NoPrediction ==
  /\ PredictionFails
  /\ job # NoJob /\ stage = "model" /\ stage' = "publish"
  /\ UNCHANGED <<route, inputs, planVars, controlVars, job, pc, counts>>

\* ... or raises; _on_done says so, and no more.
ModelRaises ==
  /\ PredictionFails
  /\ job # NoJob /\ stage = "model" /\ job' = NoJob
  /\ UNCHANGED <<route, inputs, planVars, controlVars, stage, pc, counts>>

\* Mutant: the worker goes on with the payload it has.
PublishAndPredictAgain ==
  /\ job # NoJob /\ stage = "publish"
  /\ stage' = "model"
  /\ UNCHANGED <<route, inputs, planVars, controlVars, job, pc, counts>>

\* The trajectory, its markers and the language go out, and the job is done.
PublishTrajectory ==
  /\ job # NoJob /\ stage = "publish"
  /\ job' = NoJob /\ stage' = "model"
  /\ UNCHANGED <<route, inputs, planVars, controlVars, pc, counts>>

PlanAges ==
  /\ plan # NoPlan /\ ~old
  /\ old' = TRUE
  /\ UNCHANGED <<route, inputs, plan, planSeq, controller, controlVars, work, pc, counts>>

TimeoutPasses ==
  /\ applied # "none" /\ ~overdue
  /\ overdue' = TRUE
  /\ UNCHANGED <<route, inputs, planVars, progress, progressSeq, armed, begun, tick,
                 applied, fed, furthest, work, pc, counts>>

-----------------------------------------------------------------------------
\* _control_cb reads plan and controller together; a plan too old is braked on.
ControlRead ==
  /\ plan # NoPlan
  /\ Goto("ctrl", "idle", IF old THEN "publish" ELSE "track")
  /\ tick' = [plan |-> plan, controller |-> controller, at |-> 0, cmd |-> "brake"]
  /\ UNCHANGED <<route, inputs, planVars, progress, progressSeq, armed, begun,
                 applied, overdue, fed, furthest, work, counts>>

\* A new plan starts its own progress.
TrackSeq ==
  /\ Goto("ctrl", "track", "advance")
  /\ progressSeq' = tick.plan.seq
  /\ progress' = IF progressSeq = tick.plan.seq THEN progress ELSE 0
  /\ furthest' = IF furthest.plan = tick.plan THEN furthest
                 ELSE [plan |-> tick.plan, at |-> 0]
  /\ UNCHANGED <<route, inputs, planVars, armed, begun, tick, applied, overdue, fed, work, counts>>

Further(a, b) == IF a > b THEN a ELSE b

\* Progress along the plan never goes back, wherever the ego is.
Advance ==
  /\ Goto("ctrl", "advance", "look")
  /\ \E nearest \in 0..Waypoints - 1 :
       /\ progress' = Further(nearest, progress)
       /\ furthest' = [furthest EXCEPT !.at = Further(nearest, furthest.at)]
  /\ UNCHANGED <<route, inputs, planVars, progressSeq, armed, begun, tick,
                 applied, overdue, fed, work, counts>>

\* With fewer than two points left ahead, the plan is outrun: brake.
Outrun(at) == Waypoints - (at + 1) < 2

Look ==
  /\ Goto("ctrl", "look", IF Outrun(progress) THEN "publish" ELSE "since")
  /\ tick' = [tick EXCEPT !.at = progress]
  /\ UNCHANGED <<route, inputs, planVars, progress, progressSeq, armed, begun,
                 applied, overdue, fed, furthest, work, counts>>

\* The time since the last command: _last_control_sec is tested, then read.
Since ==
  /\ Goto("ctrl", "since", IF armed THEN "sinceRead" ELSE "step")
  /\ UNCHANGED <<route, inputs, planVars, controlVars, work, counts>>

SinceRead ==
  /\ Goto("ctrl", "sinceRead", IF armed THEN "step" ELSE "raised")
  /\ UNCHANGED <<route, inputs, planVars, controlVars, work, counts>>

Commands == {"drive", "brake"}

\* Mutant: the controller is looked up when it is stepped.
StepLiveController ==
  /\ Goto("ctrl", "step", "first")
  /\ \E cmd \in Commands : tick' = [tick EXCEPT !.cmd = cmd]
  /\ fed' = fed \cup {tick.plan.made}
  /\ UNCHANGED <<route, inputs, planVars, progress, progressSeq, armed, begun,
                 applied, overdue, furthest, work, counts>>

\* controller.step and apply_creep: both move the history of the controller
\* that was read with the plan, and choose to drive or to brake.
Step ==
  /\ Goto("ctrl", "step", "first")
  /\ \E cmd \in Commands : tick' = [tick EXCEPT !.cmd = cmd]
  /\ fed' = IF tick.controller = controller THEN fed \cup {tick.plan.made} ELSE fed
  /\ UNCHANGED <<route, inputs, planVars, progress, progressSeq, armed, begun,
                 applied, overdue, furthest, work, counts>>

\* The initial brake: _first_control_sec is set if it is not, then read.
First ==
  /\ Goto("ctrl", "first", "firstRead")
  /\ begun' = TRUE
  /\ UNCHANGED <<route, inputs, planVars, progress, progressSeq, armed, tick,
                 applied, overdue, fed, furthest, work, counts>>

FirstRead ==
  /\ Goto("ctrl", "firstRead", IF begun THEN "publish" ELSE "raised")
  /\ UNCHANGED <<route, inputs, planVars, controlVars, work, counts>>

\* _publish_control sends the command ...
Publish ==
  /\ Goto("ctrl", "publish", "stamp")
  /\ applied' = tick.cmd /\ overdue' = FALSE
  /\ UNCHANGED <<route, inputs, planVars, progress, progressSeq, armed, begun, tick,
                 fed, furthest, work, counts>>

\* ... and records when.
Stamp ==
  /\ Goto("ctrl", "stamp", "idle")
  /\ armed' = TRUE
  /\ UNCHANGED <<route, inputs, planVars, progress, progressSeq, begun, tick,
                 applied, overdue, fed, furthest, work, counts>>

\* _watchdog_cb, in the same group, tests _last_control_sec and then reads it.
WatchdogCheck ==
  /\ armed
  /\ Goto("ctrl", "idle", "watch")
  /\ UNCHANGED <<route, inputs, planVars, controlVars, work, counts>>

WatchdogRead ==
  /\ Goto("ctrl", "watch", IF armed THEN "idle" ELSE "raised")
  /\ applied' = IF armed /\ overdue THEN "brake" ELSE applied
  /\ UNCHANGED <<route, inputs, planVars, progress, progressSeq, armed, begun, tick,
                 overdue, fed, furthest, work, counts>>

-----------------------------------------------------------------------------
ResetSteps  == DropPlan \/ ZeroProgress \/ ForgetSeq \/ Unbegin \/ Disarm
Worker      == StorePlan \/ NoPrediction \/ ModelRaises \/ PublishTrajectory
Sensors     == ImageCallback \/ OdometryCallback
Clocks      == PlanAges \/ TimeoutPasses
TickSteps   == \/ TrackSeq \/ Advance \/ Look \/ Since \/ SinceRead \/ Step
               \/ First \/ FirstRead \/ Publish \/ Stamp \/ WatchdogRead
Next == Sensors \/ RouteCallback \/ ResetSteps \/ TimerCallback \/ Worker \/ Clocks
        \/ ControlRead \/ WatchdogCheck \/ TickSteps

Spec == Init /\ [][Next]_vars

\* A callback that began runs to its end, the worker finishes its job, and the
\* executor serves the timer again and again.  The camera and the odometry go on
\* for as long as the node does.  Nothing is asked of the control group.
Fairness ==
  /\ WF_vars(ResetSteps) /\ WF_vars(Worker)
  /\ SF_vars(Sensors) /\ SF_vars(TimerCallback)
=============================================================================
