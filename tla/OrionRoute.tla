----------------------------- MODULE OrionRoute ------------------------------
(***************************************************************************)
(* Route changes in orion_withpid_node.py: the state scoped to a route on  *)
(* top of the frame dispatcher, shared by main (route and control          *)
(* callbacks), the gpu worker (reset, forward) and whoever prepares a      *)
(* frame.  Routes are numbered by _route_serial, which _scene_token shows. *)
(***************************************************************************)
EXTENDS Dispatch

CONSTANT MaxRoutes \* bound: how many different routes arrive

ASSUME RouteAssumption == MaxRoutes \in Nat

NoPlan == -1

VARIABLES
  token,        \* _route_serial, and with it _scene_token and _route
  pendingReset, \* _pending_route_reset
  resetting,    \* the gpu worker is inside _reset_for_new_route
  frameIdx,     \* _frame_idx
  batch,        \* route and index each frame was last prepared with
  testFlag,     \* model.test_flag: the heads keep their memory
  memory,       \* the route of the frames in that memory
  plan,         \* the route _traj_state was predicted for
  tracked,      \* the plan _control_callback has read and is still using
  resetFor,     \* history: the route of the last reset
  staleTicks    \* history: control ticks of an older route's plan since then

buildVars   == <<frameIdx, batch>>
memoryVars  == <<testFlag, memory>>
controlVars == <<plan, tracked, staleTicks>>
routeVars   == <<token, pendingReset, resetting, buildVars, memoryVars, controlVars, resetFor>>

RouteInit ==
  /\ Init
  /\ token = 0 /\ pendingReset = FALSE /\ resetting = FALSE
  /\ frameIdx = 0 /\ batch = [f \in Frames |-> [token |-> 0, idx |-> 0]]
  /\ testFlag = FALSE /\ memory = 0
  /\ plan = NoPlan /\ tracked = NoPlan
  /\ resetFor = 0 /\ staleTicks = 0

-----------------------------------------------------------------------------
\* _route_callback with a new fingerprint.  (With a known one it only stores
\* the way points again.)  Its three assignments are a few bytecodes apart,
\* against the tens of milliseconds between the points that read them.
RouteCallback ==
  /\ pc["main"] = "idle" /\ tracked = NoPlan
  /\ token < MaxRoutes
  /\ token' = token + 1
  /\ pendingReset' = TRUE
  /\ UNCHANGED <<vars, resetting, buildVars, memoryVars, controlVars, resetFor>>

\* _control_callback takes the plan, if there is one ...
ControlRead ==
  /\ pc["main"] = "idle" /\ tracked = NoPlan
  /\ plan # NoPlan
  /\ tracked' = plan
  /\ UNCHANGED <<vars, token, pendingReset, resetting, buildVars, memoryVars,
                 plan, staleTicks, resetFor>>

\* ... and later feeds it to the controller that is then in _pid.
\* StaleBound caps the count; the property is about the first two.
StaleBound == 3
ControlCompute ==
  /\ tracked # NoPlan
  /\ staleTicks' = IF tracked < resetFor /\ staleTicks < StaleBound
                   THEN staleTicks + 1 ELSE staleTicks
  /\ tracked' = NoPlan
  /\ UNCHANGED <<vars, token, pendingReset, resetting, buildVars, memoryVars, plan, resetFor>>

-----------------------------------------------------------------------------
\* Mutant: the reset leaves the old route's plan in force.
ResetContextKeepingPlan ==
  /\ pc["gpu"] = "enter" /\ pendingReset /\ ~resetting
  /\ resetting' = TRUE
  /\ testFlag' = FALSE /\ frameIdx' = 0
  /\ resetFor' = token /\ staleTicks' = 0
  /\ UNCHANGED <<vars, token, pendingReset, batch, memory, plan, tracked>>

\* Mutant: the reset leaves the heads their memory.
ResetContextKeepingMemory ==
  /\ pc["gpu"] = "enter" /\ pendingReset /\ ~resetting
  /\ resetting' = TRUE
  /\ frameIdx' = 0
  /\ plan' = NoPlan
  /\ resetFor' = token /\ staleTicks' = 0
  /\ UNCHANGED <<vars, token, pendingReset, batch, memoryVars, tracked>>

\* _forward finds a reset pending: _reset_for_new_route clears the context ...
ResetContext ==
  /\ pc["gpu"] = "enter" /\ pendingReset /\ ~resetting
  /\ resetting' = TRUE
  /\ testFlag' = FALSE /\ frameIdx' = 0
  /\ plan' = NoPlan
  /\ resetFor' = token /\ staleTicks' = 0
  /\ UNCHANGED <<vars, token, pendingReset, batch, memory, tracked>>

\* Mutant: the batch prepared before the reset goes to the model as it is.
ResetWithoutReprepare ==
  /\ resetting
  /\ ForwardProceed
  /\ pendingReset' = FALSE /\ resetting' = FALSE
  /\ UNCHANGED <<token, buildVars, memoryVars, controlVars, resetFor>>

\* ... and last the flag, whatever arrived meanwhile; the frame is prepared anew.
ResetDone ==
  /\ resetting
  /\ ForwardReprepare
  /\ pendingReset' = FALSE /\ resetting' = FALSE
  /\ UNCHANGED <<token, buildVars, memoryVars, controlVars, resetFor>>

\* Mutant: the pending reset is not looked at.
ProceedAnyway ==
  /\ ForwardProceed
  /\ UNCHANGED routeVars

Proceed ==
  /\ ~pendingReset /\ ~resetting
  /\ ForwardProceed
  /\ UNCHANGED routeVars

\* _build_batch reads the token and numbers the frame, whichever worker it is on.
Build(t) ==
  /\ BuildBatch(t)
  /\ batch' = [batch EXCEPT ![frame[t]] = [token |-> token, idx |-> frameIdx]]
  /\ frameIdx' = frameIdx + 1
  /\ UNCHANGED <<token, pendingReset, resetting, memoryVars, controlVars, resetFor>>

\* The model drops its memory when test_flag is off or the token is another
\* one; the plan becomes the one to track.
Infer ==
  /\ ForwardDone
  /\ testFlag' = TRUE
  /\ memory' = batch[frame["gpu"]].token
  /\ plan' = batch[frame["gpu"]].token
  /\ UNCHANGED <<token, pendingReset, resetting, buildVars, tracked, staleTicks, resetFor>>

InferRaises ==
  /\ ForwardRaises
  /\ testFlag' = TRUE
  /\ memory' = batch[frame["gpu"]].token
  /\ UNCHANGED <<token, pendingReset, resetting, buildVars, controlVars, resetFor>>

\* Everything else the dispatcher does leaves the route state alone; main runs
\* one callback at a time.
MainElsewhere ==
  /\ tracked = NoPlan
  /\ CameraFrame \/ MainStep
  /\ UNCHANGED routeVars

WorkerElsewhere(t) ==
  /\ PrepareDone(t) \/ PrepareFails(t) \/ TryStartFromPrepared(t) \/ StartForward(t)
  /\ UNCHANGED routeVars

\* Both workers prepare frames and hand them on; the gpu worker runs them.
WorkerTake(t) ==
  /\ IF t = "gpu" THEN GpuTake ELSE PrepTake
  /\ UNCHANGED routeVars

Worker(t) == WorkerTake(t) \/ Build(t) \/ WorkerElsewhere(t)
Forward   == ResetContext \/ ResetDone \/ Proceed \/ Infer \/ InferRaises

Workers   == {"gpu", "prep"}
RouteNext ==
  \/ RouteCallback \/ ControlRead \/ ControlCompute \/ MainElsewhere
  \/ Forward \/ \E t \in Workers : Worker(t)

allVars == <<vars, routeVars>>
RouteSpec == RouteInit /\ [][RouteNext]_allVars

\* As in Dispatch; the executor besides serves the inference timer however
\* often the control timer is due.
RouteFairness ==
  /\ WF_allVars(ControlCompute) /\ SF_allVars(MainElsewhere)
  /\ WF_allVars(Forward \/ Worker("gpu")) /\ WF_allVars(Worker("prep"))
  /\ \A t \in Workers : SF_allVars(TryAcquire(t) /\ UNCHANGED routeVars)
RouteFairSpec == RouteSpec /\ RouteFairness
=============================================================================
