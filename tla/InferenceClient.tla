--------------------------- MODULE InferenceClient ---------------------------
(***************************************************************************)
(* inference_client_simlingo.py.  The reactor thread of roslibpy runs the  *)
(* callbacks, one at a time; the main thread runs run_once in a loop.  The *)
(* lock covers the latest messages, but not the route.                     *)
(***************************************************************************)
EXTENDS TargetPoints

CONSTANTS
  Routes,         \* the routes that may be sent
  Places,         \* where the car may be
  MaxImages,      \* bound: camera images
  Delay,          \* inital_frames_delay
  StuckThreshold, \* stuck_threshold, in frames
  CreepDuration   \* creep_duration, in frames

ASSUME ClientAssumption ==
  /\ Places \subseteq Int /\ \A r \in Routes : r \in Seq(Places) /\ r # <<>>
  /\ {MaxImages, Delay, StuckThreshold, CreepDuration} \subseteq Nat

None == 0
VARIABLES
  latest,     \* _latest: image and stamp by number, the car's place, its speed
  globalPlan, \* the global plan that CARLA sends
  planner,    \* what is left of _route_planner.route, <<>> before there is one
  routeSet,   \* _route_set
  setting,    \* _on_route_gnss has made the planner and not set the flag
  main,       \* where the main thread is
  frame,      \* the locals of run_once
  step,       \* step, up to the delay
  target,     \* target_point_prev
  commands,   \* commands, by the waypoint each is of: None is FOLLOWLANE
  stuck,      \* stuck_detector
  force,      \* force_move
  control,    \* the control last published: its stamp, and what it does
  index,      \* history: _route_idx, had simlingo_node been given these frames
  slow        \* history: which of the last frames the car did not move in

messages   == <<latest, globalPlan, planner, routeSet, setting>>
driving    == <<step, target, commands, stuck, force, control>>
clientVars == <<messages, main, frame, driving, index, slow>>

NoFrame == [image |-> None, stamp |-> None, at |-> None, moving |-> FALSE, heard |-> FALSE]

ClientInit ==
  /\ latest = NoFrame
  /\ globalPlan \in Routes
  /\ planner = <<>> /\ routeSet = FALSE /\ setting = FALSE
  /\ main = "idle" /\ frame = NoFrame
  /\ step = 0 /\ target = None
  /\ commands = <<None, None>>
  /\ stuck = 0 /\ force = 0
  /\ control = [stamp |-> None, image |-> None, does |-> "nothing"]
  /\ index = 1 /\ slow = <<>>

-----------------------------------------------------------------------------
(* the reactor                                                             *)

Reactor == main # "ended" /\ ~setting

\* _on_image: both under the lock.
OnImage ==
  /\ Reactor
  /\ latest.image < MaxImages
  /\ latest' = [latest EXCEPT !.image = @ + 1, !.stamp = latest.image + 1]
  /\ UNCHANGED <<globalPlan, planner, routeSet, setting, main, frame, driving, index, slow>>

\* _on_imu, _on_gps and _on_speed; they hear of the same car.
OnSensors ==
  /\ Reactor
  /\ \E x \in Places, moving \in BOOLEAN :
       latest' = [latest EXCEPT !.at = x, !.moving = moving, !.heard = TRUE]
  /\ latest' # latest
  /\ UNCHANGED <<globalPlan, planner, routeSet, setting, main, frame, driving, index, slow>>

\* _on_route_gnss makes the planner, of the first plan that comes ...
OnRoute ==
  /\ Reactor /\ ~routeSet
  /\ planner' = globalPlan /\ setting' = TRUE
  /\ UNCHANGED <<latest, globalPlan, routeSet, main, frame, driving, index, slow>>

\* ... and then says so.
RouteSet ==
  /\ setting /\ setting' = FALSE
  /\ routeSet' = TRUE
  /\ UNCHANGED <<latest, globalPlan, planner, main, frame, driving, index, slow>>

-----------------------------------------------------------------------------
(* run_once                                                                *)

\* Mutant: the stamp is left where it is.
TakeLatestAgain ==
  /\ main = "idle" /\ main' = "check"
  /\ frame' = latest
  /\ UNCHANGED <<messages, driving, index, slow>>

\* Under the lock, the messages are copied and the stamp is used up.
TakeLatest ==
  /\ main = "idle" /\ main' = "check"
  /\ frame' = latest
  /\ latest' = [latest EXCEPT !.stamp = None]
  /\ UNCHANGED <<globalPlan, planner, routeSet, setting, driving, index, slow>>

Complete == frame.stamp # None /\ frame.heard /\ routeSet

\* An incomplete frame is lost, with its stamp.
Incomplete ==
  /\ main = "check" /\ ~Complete
  /\ main' = "idle" /\ frame' = NoFrame
  /\ UNCHANGED <<messages, driving, index, slow>>

Sent(does) == [stamp |-> frame.stamp, image |-> frame.image, does |-> does]

\* The first frames are braked on.
InitialBrake ==
  /\ main = "check" /\ Complete /\ step < Delay
  /\ step' = step + 1
  /\ control' = Sent("brake")
  /\ main' = "idle" /\ frame' = NoFrame
  /\ UNCHANGED <<messages, target, commands, stuck, force, index, slow>>

\* tick: the planner drops what is passed, and the command moves on when the
\* target does.  That is asked of each coordinate by itself, so that of two
\* targets with one coordinate in common the second is not seen (here, two at
\* one place; their heights are taken to differ).
Tick ==
  /\ main = "check" /\ Complete /\ step = Delay
  /\ main' = "model"
  /\ planner' = RunStep(planner, frame.at)
  /\ index' = AdvanceIndex(globalPlan, index, frame.at)
  /\ LET far == Len(globalPlan) - Len(planner') + Lower(2, Len(planner')) IN
       IF target # None /\ (far = target \/ globalPlan[far] = globalPlan[target])
       THEN UNCHANGED <<target, commands>>
       ELSE target' = far /\ commands' = <<commands[2], far>>
  /\ UNCHANGED <<latest, globalPlan, routeSet, setting, frame, step, stuck, force, control, slow>>

\* What the model raises ends the loop, and so does a plan that is missing: the
\* last control stays in force.
ModelFails ==
  /\ main = "model" /\ main' = "ended"
  /\ UNCHANGED <<messages, frame, driving, index, slow>>

\* Mutant: the count of slow frames goes on when the car moves.
StuckAgain == IF frame.moving THEN stuck ELSE stuck + 1

Stuck == IF frame.moving THEN 0 ELSE stuck + 1

\* The PID's command, unless the car has been stuck and is made to creep.
Drive ==
  /\ main = "model" /\ main' = "idle"
  /\ stuck' = Lower(Stuck, StuckThreshold + 1)
  /\ LET forced == IF Stuck > StuckThreshold THEN CreepDuration ELSE force IN
       /\ force' = IF forced > 0 THEN forced - 1 ELSE 0
       /\ \E does \in IF forced > 0 THEN {"creep"} ELSE {"drive", "brake"} :
            control' = Sent(does)
  /\ slow' = LET all == Append(slow, ~frame.moving)
                 n   == StuckThreshold + CreepDuration
             IN  IF Len(all) > n THEN SubSeq(all, Len(all) - n + 1, Len(all)) ELSE all
  /\ frame' = NoFrame
  /\ UNCHANGED <<messages, step, target, commands, index>>

\* The bridge closes the connection, and main leaves its loop.
Disconnected ==
  /\ main = "idle" /\ main' = "ended"
  /\ UNCHANGED <<messages, frame, driving, index, slow>>

Callbacks == OnImage \/ OnSensors \/ OnRoute \/ RouteSet
RunOnce   == TakeLatest \/ Incomplete \/ InitialBrake \/ Tick \/ ModelFails \/ Drive
ClientNext == Callbacks \/ RunOnce \/ Disconnected

ClientSpec == ClientInit /\ [][ClientNext]_clientVars
=============================================================================
