----------------------------- MODULE OrionDrive ------------------------------
(***************************************************************************)
(* Time in orion_withpid_node.py: how old a frame, a plan and the memory   *)
(* of the model may get, and where on its route the car is meanwhile.  A   *)
(* forward takes as long as it takes; the control timer runs between any   *)
(* two ticks of the clock, and brake_when_stale is on, as it is by         *)
(* default.  One worker prepares and runs a frame (what the second one     *)
(* changes is the matter of Dispatch), and pops the route that main reads: *)
(* a deque is known by its delivery.                                       *)
(***************************************************************************)
EXTENDS RoutePlanner, Sequences

CONSTANTS
  MaxTime,       \* bound: ticks of the clock
  MaxStep,       \* waypoints the car may cover in a tick
  MaxRoutes,     \* bound: how many different routes arrive
  MaxDeliveries, \* bound: how many route messages arrive
  MemoryMaxDt,   \* ORION_MEMORY_MAX_DT, in ticks
  StallTimeout,  \* plan_stall_timeout_sec, in ticks
  Modes,         \* what timestamp_mode may be set to
  Fails          \* TRUE: preparing and inferring may raise

ASSUME DriveAssumption ==
  /\ {MaxTime, MaxStep, MaxRoutes, MaxDeliveries, MemoryMaxDt, StallTimeout} \subseteq Nat
  /\ Modes \subseteq {"sensor", "agent"} /\ Fails \in BOOLEAN

None   == -1
NoOdom == [route |-> 0, pos |-> 0, at |-> None]
NoPlan == None

VARIABLES
  mode,     \* timestamp_mode
  now,      \* the clock
  car,      \* how far the car has got on the present route
  odom,     \* _latest_odom
  fresh,    \* the front frame's stamp differs from _last_ref_stamp
  deques,   \* the waypoint deques, by delivery: _route is the last
  serial,   \* _route_serial, and with it _scene_token
  pending,  \* _pending_route_reset
  prevTs,   \* _prev_sensor_ts
  job,      \* the frame the worker is on, and how far it has got
  testFlag, \* model.test_flag
  memory,   \* token and timestamp of the last frame in the heads' memory
  plan,     \* _traj_state, by the time it arrived at
  ctrl,     \* where _control_callback is
  applied,  \* the command the car is under
  due,      \* the control timer has not run in this tick
  ran,      \* history: stamp of the last frame run since the reset
  skipped,  \* history: a frame was built since and not run
  astray    \* history: "replayed" if the present route was delivered again,
            \* "coasted" if the car moved under a command that outlived its plan

worldVars   == <<now, car, odom, fresh, due>>
routeVars   == <<deques, serial, pending, astray>>
contextVars == <<prevTs, ran, skipped>>
modelVars   == <<testFlag, memory>>
driveVars   == <<plan, ctrl, applied>>
vars == <<mode, worldVars, routeVars, contextVars, job, modelVars, driveVars>>

NoFrame == [odom |-> NoOdom, deque |-> 0, pops |-> 0, token |-> 0,
            gap |-> FALSE, kept |-> FALSE, at |-> "none"]

Init ==
  /\ mode \in Modes
  /\ now = 0 /\ car = 0 /\ odom = NoOdom
  /\ fresh = FALSE /\ due = TRUE
  /\ deques = <<>> /\ serial = 0 /\ pending = FALSE /\ astray = {}
  /\ prevTs = None /\ ran = None /\ skipped = FALSE
  /\ job = NoFrame
  /\ testFlag = FALSE /\ memory = [token |-> 0, time |-> None]
  /\ plan = NoPlan /\ ctrl = "idle" /\ applied = "none"

-----------------------------------------------------------------------------
(* the world                                                               *)

\* Time passes.  The car moves, but no further than its command allows; its
\* odometry and its cameras are heard several times a tick, and the inference
\* timer takes what is new as soon as it may.
Tick ==
  /\ now < MaxTime /\ ~due /\ ctrl = "idle"
  /\ job.at = "model" \/ (job.at = "none" /\ ~fresh)
  /\ now' = now + 1 /\ due' = TRUE /\ fresh' = TRUE
  /\ \E step \in IF applied = "drive" THEN 0..MaxStep ELSE {0} :
       car' = IF car + step < RouteLen THEN car + step ELSE car
  /\ odom' = [route |-> serial, pos |-> car', at |-> now']
  /\ astray' = astray \cup (IF applied = "drive" /\ plan = NoPlan THEN {"coasted"} ELSE {})
  /\ UNCHANGED <<mode, deques, serial, pending, contextVars, job, modelVars, driveVars>>

\* _route_callback replaces the deque whatever it is given; a new fingerprint
\* (and with it a car that starts somewhere else) asks for a reset.
RouteCallback ==
  /\ ctrl = "idle"
  /\ Len(deques) < MaxDeliveries
  /\ deques' = Append(deques, Whole)
  /\ \/ /\ serial < MaxRoutes
        /\ serial' = serial + 1 /\ pending' = TRUE
        /\ car' = 0
        /\ astray' = {}
     \/ /\ serial # 0
        /\ astray' = astray \cup {"replayed"}
        /\ UNCHANGED <<mode, serial, pending, car>>
  /\ UNCHANGED <<mode, now, odom, fresh, due, contextVars, job, modelVars, driveVars>>

-----------------------------------------------------------------------------
(* the inference timer and its worker                                      *)

TimerCallback ==
  /\ ctrl = "idle" /\ job.at = "none"
  /\ odom # NoOdom /\ fresh
  /\ fresh' = FALSE
  /\ job' = [NoFrame EXCEPT !.odom = odom, !.at = "build"]
  /\ UNCHANGED <<mode, now, car, odom, due, routeVars, contextVars, modelVars, driveVars>>

\* Mutant: the stamp is remembered of the first frame only.
BuildBatchFirstStamp ==
  /\ job.at = "build"
  /\ prevTs' = IF prevTs = None THEN job.odom.at ELSE prevTs
  /\ job' = [job EXCEPT
       !.at    = "popping",
       !.token = serial,
       !.gap   = prevTs # None /\ job.odom.at - prevTs >= MemoryMaxDt,
       !.deque = Len(deques),
       !.pops  = IF deques = <<>> \/ job.odom.route # serial THEN 0
                 ELSE ToPop(deques[Len(deques)], job.odom.pos)]
  /\ UNCHANGED <<mode, worldVars, routeVars, ran, skipped, modelVars, driveVars>>

\* _build_batch up to _compute_driving_command: token and timestamp,
\* _check_memory_continuity, and the scan of the route.
BuildBatch ==
  /\ job.at = "build"
  /\ prevTs' = job.odom.at
  /\ job' = [job EXCEPT
       !.at    = "popping",
       !.token = serial,
       !.gap   = prevTs # None /\ job.odom.at - prevTs >= MemoryMaxDt,
       !.deque = Len(deques),
       !.pops  = IF deques = <<>> \/ job.odom.route # serial THEN 0
                 ELSE ToPop(deques[Len(deques)], job.odom.pos)]
  /\ UNCHANGED <<mode, worldVars, routeVars, ran, skipped, modelVars, driveVars>>

\* The deque is popped one waypoint at a time, as it was scanned; by now _route
\* may be another.
PopWaypoint ==
  /\ job.at = "popping" /\ job.pops > 0
  /\ deques' = [deques EXCEPT ![job.deque] = Popleft(@)]
  /\ job' = [job EXCEPT !.pops = @ - 1]
  /\ UNCHANGED <<mode, worldVars, serial, pending, astray, contextVars, modelVars, driveVars>>

BuildDone ==
  /\ job.at = "popping" /\ job.pops = 0
  /\ job' = [job EXCEPT !.at = "built"]
  /\ UNCHANGED <<mode, worldVars, routeVars, contextVars, modelVars, driveVars>>

\* _forward finds a reset pending: _reset_for_new_route, and the snapshot is
\* prepared once more.
ResetForNewRoute ==
  /\ job.at = "built" /\ pending
  /\ pending' = FALSE
  /\ testFlag' = FALSE /\ prevTs' = None /\ ran' = None /\ skipped' = FALSE
  /\ fresh' = TRUE
  /\ plan' = NoPlan
  /\ job' = [NoFrame EXCEPT !.odom = job.odom, !.at = "build"]
  /\ UNCHANGED <<mode, now, car, odom, due, deques, serial, astray, memory, ctrl, applied>>

\* pre_update_memory keeps the memory if the token is the same and less than
\* MemoryMaxDt has passed between the two timestamps: those of the odometry, or
\* in mode "agent" the frame index, at a twentieth of a second each.
MemoryKept ==
  /\ testFlag /\ memory.token = job.token
  /\ mode = "agent" \/ job.odom.at - memory.time < MemoryMaxDt

Forward ==
  /\ job.at = "built" /\ ~pending
  /\ job' = [job EXCEPT !.at = "model", !.kept = MemoryKept]
  /\ testFlag' = TRUE
  /\ memory' = [token |-> job.token, time |-> job.odom.at]
  /\ UNCHANGED <<mode, worldVars, routeVars, contextVars, driveVars>>

ForwardDone ==
  /\ job.at = "model"
  /\ plan' = now
  /\ ran' = job.odom.at /\ skipped' = FALSE
  /\ job' = NoFrame
  /\ UNCHANGED <<mode, worldVars, routeVars, prevTs, modelVars, ctrl, applied>>

\* Preparation raises, after the scan, or the model does; the memory has the
\* frame by then or has it not.
Raises ==
  /\ Fails
  /\ \/ job.at = "popping" /\ job.pops = 0 /\ UNCHANGED modelVars
     \/ job.at = "built" /\ ~pending /\ testFlag' = TRUE /\ UNCHANGED memory
     \/ job.at = "model" /\ UNCHANGED modelVars
  /\ job' = NoFrame /\ skipped' = TRUE
  /\ UNCHANGED <<mode, worldVars, routeVars, prevTs, ran, driveVars>>

-----------------------------------------------------------------------------
(* the control timer                                                       *)

Command(c) == applied' = c /\ due' = FALSE /\ ctrl' = "idle"

\* Mutant: how long the plan has been there is not looked at.
StalledNever == FALSE

Stalled == plan # NoPlan /\ now - plan > StallTimeout

ControlIdle ==
  /\ ctrl = "idle" /\ due
  /\ plan = NoPlan
  /\ due' = FALSE
  /\ UNCHANGED <<mode, now, car, odom, fresh, routeVars, contextVars, job, modelVars, driveVars>>

\* _stop_the_car: the model has stopped answering.
ControlStalled ==
  /\ ctrl = "idle" /\ due
  /\ Stalled
  /\ Command("brake")
  /\ UNCHANGED <<mode, now, car, odom, fresh, routeVars, contextVars, job, modelVars, plan>>

\* The plan is rebased; near_node is _route[1] if there is more than one left ...
ControlTest ==
  /\ ctrl = "idle" /\ due
  /\ plan # NoPlan /\ ~Stalled
  /\ ctrl' = IF deques = <<>> THEN "noNode"
             ELSE IF Remaining(deques[Len(deques)]) > 1 THEN "second" ELSE "first"
  /\ UNCHANGED <<mode, worldVars, routeVars, contextVars, job, modelVars, plan, applied>>

\* ... which is read a moment later, and steers.  Without a route nothing is
\* published.
ControlPublish ==
  /\ ctrl \in {"first", "second"}
  /\ Command("drive")
  /\ UNCHANGED <<mode, now, car, odom, fresh, routeVars, contextVars, job, modelVars, plan>>

ControlNoNode ==
  /\ ctrl = "noNode"
  /\ ctrl' = "idle" /\ due' = FALSE
  /\ UNCHANGED <<mode, now, car, odom, fresh, routeVars, contextVars, job, modelVars, plan, applied>>

-----------------------------------------------------------------------------
World   == Tick \/ RouteCallback
Control == ControlIdle \/ ControlStalled \/ ControlTest \/ ControlPublish \/ ControlNoNode
Worker  == BuildBatch \/ PopWaypoint \/ BuildDone \/ ResetForNewRoute \/ Forward
             \/ ForwardDone \/ Raises

Next == World \/ TimerCallback \/ Control \/ Worker
Spec == Init /\ [][Next]_vars
=============================================================================
