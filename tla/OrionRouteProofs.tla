-------------------------- MODULE OrionRouteProofs ---------------------------
(***************************************************************************)
(* The route-scoped state of the orion node, for any number of frames and  *)
(* routes.  It leaves the dispatcher a dispatcher; and where frames are    *)
(* not pipelined, nothing crosses a route boundary but what the properties *)
(* allow.  (Where they are, TLC shows how it does.)                        *)
(***************************************************************************)
EXTENDS MCOrionRoute, DispatchProofs

RouteTyped ==
  /\ token \in Nat /\ resetFor \in Nat /\ frameIdx \in Nat /\ memory \in Nat
  /\ pendingReset \in BOOLEAN /\ resetting \in BOOLEAN /\ testFlag \in BOOLEAN
  /\ batch \in [Frames -> [token : Nat, idx : Nat]]
  /\ plan \in Nat \cup {NoPlan} /\ tracked \in Nat \cup {NoPlan}
  /\ staleTicks \in Nat

\* The gpu worker has a batch that it was to go on with.
Built == \/ pc["gpu"] \in {"build", "rebuild", "model"}
         \/ pc["gpu"] = "enter" /\ ~resetting

Last == modelLog[Len(modelLog)]

\* From the reset to the second preparation the heads have no memory.
ResetPlace ==
  /\ resetting => pc["gpu"] = "enter" /\ pendingReset /\ ~testFlag
  /\ pc["gpu"] \in {"rebuildWait", "rebuild"} => ~testFlag
  /\ resetFor <= token

\* A batch is of the route of the last reset, or of one that came since.
BatchCurrent ==
  Built =>
    /\ resetFor <= Batch.token /\ Batch.idx < frameIdx
    /\ ~pendingReset => Batch.token = token

\* What the heads remember is of the present route, or a reset is pending.
MemoryCurrent ==
  testFlag =>
    /\ ~pendingReset => memory = token
    /\ modelLog # <<>> /\ batch[Last].idx < frameIdx
    /\ Built => batch[Last].idx < Batch.idx
    /\ InModel => memory = Batch.token

\* After a reset only the tick that was under way is on an older plan.
PlanCurrent ==
  /\ plan # NoPlan => resetFor <= plan
  /\ tracked # NoPlan /\ tracked < resetFor => staleTicks = 0
  /\ OneStaleTick

RouteScoped == ResetPlace /\ BatchCurrent /\ MemoryCurrent /\ PlanCurrent

-----------------------------------------------------------------------------
(* The dispatcher underneath                                               *)

\* Whatever the route callbacks and the reset do besides, to the dispatcher a
\* step is one of its own or nothing.
LEMMA StepOfDispatcher == [RouteNext]_allVars => [Next]_vars
<1> SUFFICES ASSUME [RouteNext]_allVars PROVE [Next]_vars
  OBVIOUS
<1>1. CASE RouteCallback \/ ControlRead \/ ControlCompute \/ ResetContext
  BY <1>1 DEF RouteCallback, ControlRead, ControlCompute, ResetContext
<1>2. CASE MainElsewhere
  BY <1>2 DEF MainElsewhere, Next
<1>3. CASE ResetDone \/ Proceed \/ Infer \/ InferRaises
  BY <1>3 DEF ResetDone, Proceed, Infer, InferRaises, Next, GpuStep
<1>4. CASE Worker("gpu")
  BY <1>4 DEF Worker, WorkerTake, Build, WorkerElsewhere, Next, GpuStep
<1>5. CASE Worker("prep")
  BY <1>5 DEF Worker, WorkerTake, Build, WorkerElsewhere, Next, PrepStep
<1>6. CASE UNCHANGED allVars
  BY <1>6 DEF allVars
<1> QED BY <1>1, <1>2, <1>3, <1>4, <1>5, <1>6 DEF RouteNext, Forward, Workers

\* The node with its route scoping still is the dispatcher: the theorems of
\* DispatchProofs hold of it, with the reset at the moments the code gives it.
THEOREM RouteKeepsDispatcher == RouteSpec => Spec
<1>1. RouteInit => Init
  BY DEF RouteInit
<1> QED BY <1>1, StepOfDispatcher, PTL DEF RouteSpec, Spec

LEMMA Underneath == RouteSpec => [](Typed /\ OneOwner)
  BY RouteKeepsDispatcher, Inductive, PTL

\* What a step of main leaves to the gpu worker.
GpuUntouched ==
  pc'["gpu"] = pc["gpu"] /\ frame'["gpu"] = frame["gpu"] /\ modelLog' = modelLog

LEMMA MainApart ==
  ASSUME Typed, MainElsewhere
  PROVE  GpuUntouched
<1> USE DEF GpuUntouched, Typed, TypeOK, TypeThreads, Threads, Goto, logVars
<1>1. CASE CameraFrame \/ TimerCallback \/ TimerCheckPrep \/ TimerTake \/ TimerSubmit
  BY <1>1 DEF CameraFrame, TimerCallback, TimerCheckPrep, TimerTake, TimerSubmit,
              TakeSnapshot, NoSnapshot
<1>2. CASE MaybePipelinePrep \/ SubmitPrep \/ AssignPrep \/ HookPrep
  BY <1>2 DEF MaybePipelinePrep, SubmitPrep, AssignPrep, HookPrep, TakeSnapshot
<1>3. CASE TryStartFromPrepared("main") \/ StartForward("main")
  BY <1>3 DEF TryStartFromPrepared, TryAcquire, TryCheck, TryClear, TrySubmit, TryRelease,
              StartForward, SetActive, HookGpu
<1> QED BY <1>1, <1>2, <1>3 DEF MainElsewhere, MainStep

\* What the gpu worker does apart from numbering a frame and from the forward.
LEMMA GpuElsewhere ==
  ASSUME Typed, WorkerElsewhere("gpu")
  PROVE  /\ modelLog' = modelLog
         /\ \/ /\ frame'["gpu"] = frame["gpu"]
               /\ \/ pc["gpu"] = "build" /\ pc'["gpu"] = "enter"
                  \/ pc["gpu"] = "rebuild" /\ pc'["gpu"] = "model"
            \/ pc["gpu"] # "enter" /\ pc'["gpu"] \notin GpuLabels
<1> USE DEF Typed, TypeOK, TypeThreads, Threads, Goto, logVars, GpuLabels, BuildLabels
<1>1. CASE PrepareDone("gpu") \/ PrepareFails("gpu")
  BY <1>1 DEF PrepareDone, PrepareFails, Resolve, EndJob
<1>2. CASE TryStartFromPrepared("gpu")
  BY <1>2 DEF TryStartFromPrepared, TryAcquire, TryCheck, TryClear, TrySubmit, TryRelease
<1>3. CASE StartForward("gpu")
  BY <1>3 DEF StartForward, SetActive, HookGpu
<1> QED BY <1>1, <1>2, <1>3 DEF WorkerElsewhere

\* Without pipelining the prep worker has nothing to do ...
LEMMA PrepIdle ==
  ASSUME Alone, ~Pipelined
  PROVE  ~Worker("prep")
<1>1. pc["prep"] = "idle" /\ prepQueue = <<>>
  BY DEF Alone
<1>2. ~WorkerTake("prep") /\ ~Build("prep")
  BY <1>1 DEF WorkerTake, PrepTake, Build, BuildBatch
<1>3. ~PrepareDone("prep") /\ ~PrepareFails("prep")
  BY <1>1 DEF PrepareDone, PrepareFails
<1>4. ~TryStartFromPrepared("prep") /\ ~StartForward("prep")
  BY <1>1 DEF TryStartFromPrepared, TryAcquire, TryCheck, TryClear, TrySubmit, TryRelease,
              StartForward, SetActive, HookGpu
<1> QED BY <1>2, <1>3, <1>4 DEF Worker, WorkerElsewhere

\* ... and the gpu worker prepares every frame it takes.
LEMMA TakesUnprepared ==
  ASSUME Typed, OneOwner, ~Pipelined, WorkerTake("gpu")
  PROVE  pc["gpu"] = "idle" /\ pc'["gpu"] = "buildWait" /\ modelLog' = modelLog
<1>1. Head(gpuQueue) \in Frames
  BY DEF WorkerTake, GpuTake, Typed, TypeOK, TypeQueues
<1>2. Sequential(Head(gpuQueue))
  BY <1>1 DEF Sequential, OneOwner, Alone
<1> QED
  BY <1>2 DEF WorkerTake, GpuTake, Goto, Typed, TypeOK, TypeThreads, Threads, logVars

\* The frame the gpu worker is on has not been through the model.
LEMMA OnNewFrame ==
  ASSUME Typed, OneOwner, pc["gpu"] \in GpuLabels
  PROVE  /\ frame["gpu"] \in Frames
         /\ modelLog \in Seq(Frames)
         /\ modelLog # <<>> => Last \in Frames /\ Last # frame["gpu"]
<1>1. frame["gpu"] \in Frames /\ modelLog \in Seq(Frames)
  BY Domains DEF Typed, TypeOK, TypeQueues, HasFrame, FrameLabels
<1>2. \A i \in DOMAIN modelLog : modelLog[i] \in Frames /\ modelLog[i] # frame["gpu"]
  BY LogDiffers DEF OneOwner, WorkerOwned
<1>3. modelLog # <<>> => Len(modelLog) \in DOMAIN modelLog
  BY <1>1
<1> QED BY <1>1, <1>2, <1>3 DEF Last

LEMMA LastAppended ==
  ASSUME NEW log \in Seq(Frames), NEW f \in Frames
  PROVE  Append(log, f) # <<>> /\ Append(log, f)[Len(Append(log, f))] = f
  OBVIOUS

-----------------------------------------------------------------------------
(* Route scoping                                                           *)

LEMMA InitRoute == RouteInit => RouteTyped /\ RouteScoped
<1> SUFFICES ASSUME RouteInit PROVE RouteTyped /\ RouteScoped
  OBVIOUS
<1>1. RouteTyped
  BY DEF RouteInit, RouteTyped
<1>2. pc["gpu"] = "idle"
  BY Domains DEF RouteInit, Init
<1>3. RouteScoped
  BY <1>2 DEF RouteInit, RouteScoped, ResetPlace, BatchCurrent, MemoryCurrent, PlanCurrent,
              OneStaleTick, Built
<1> QED BY <1>1, <1>3

LEMMA NextRouteTyped ==
  ASSUME Typed, OneOwner, RouteTyped, [RouteNext]_allVars
  PROVE  RouteTyped'
<1> USE DEF RouteTyped, buildVars, memoryVars, controlVars
<1>1. CASE RouteCallback
  <2>1. token' \in Nat /\ pendingReset' \in BOOLEAN
    BY <1>1 DEF RouteCallback
  <2> QED BY <1>1, <2>1 DEF RouteCallback
<1>2. CASE ControlRead
  BY <1>2 DEF ControlRead
<1>3. CASE ControlCompute
  <2>1. staleTicks' \in {staleTicks, staleTicks + 1} /\ tracked' = NoPlan
    BY <1>3 DEF ControlCompute
  <2> QED BY <1>3, <2>1 DEF ControlCompute
<1>4. CASE ResetContext
  BY <1>4 DEF ResetContext
<1>5. CASE ResetDone
  BY <1>5 DEF ResetDone
<1>6. CASE Infer \/ InferRaises
  <2>1. frame["gpu"] \in Frames
    BY <1>6, OnNewFrame DEF Infer, InferRaises, ForwardDone, ForwardRaises, GpuLabels, BuildLabels
  <2> QED BY <1>6, <2>1 DEF Infer, InferRaises
<1>7. ASSUME NEW t \in Workers, Build(t)
      PROVE  RouteTyped'
  <2>1. batch' \in [Frames -> [token : Nat, idx : Nat]]
    BY <1>7 DEF Build
  <2>2. frameIdx' \in Nat
    BY <1>7 DEF Build
  <2> QED BY <1>7, <2>1, <2>2 DEF Build
<1>8. CASE UNCHANGED routeVars
  BY <1>8 DEF routeVars
<1> QED
  BY <1>1, <1>2, <1>3, <1>4, <1>5, <1>6, <1>7, <1>8
  DEF RouteNext, Forward, Proceed, Worker, WorkerTake, WorkerElsewhere, MainElsewhere, allVars

\* A route that arrives leaves the reset to the next forward.
LEMMA ScopedRoute ==
  ASSUME Typed, RouteTyped, RouteScoped, RouteCallback
  PROVE  RouteScoped'
<1> USE DEF RouteTyped, RouteCallback, buildVars, memoryVars, controlVars, vars, logVars
<1>1. ResetPlace' /\ PlanCurrent'
  BY DEF RouteScoped, ResetPlace, PlanCurrent, OneStaleTick
<1>2. BatchCurrent'
  BY DEF RouteScoped, BatchCurrent, Built, Batch
<1>3. MemoryCurrent'
  BY DEF RouteScoped, MemoryCurrent, Built, Batch, InModel, Last
<1> QED BY <1>1, <1>2, <1>3 DEF RouteScoped

LEMMA ScopedControl ==
  ASSUME Typed, RouteTyped, RouteScoped, ControlRead \/ ControlCompute
  PROVE  RouteScoped'
<1> USE DEF RouteTyped, ControlRead, ControlCompute, buildVars, memoryVars, controlVars,
            vars, logVars
<1>1. ResetPlace'
  BY DEF RouteScoped, ResetPlace
<1>2. BatchCurrent'
  BY DEF RouteScoped, BatchCurrent, Built, Batch
<1>3. MemoryCurrent'
  BY DEF RouteScoped, MemoryCurrent, Built, Batch, InModel, Last
<1>4. PlanCurrent'
  BY DEF RouteScoped, PlanCurrent, OneStaleTick, StaleBound
<1> QED BY <1>1, <1>2, <1>3, <1>4 DEF RouteScoped

\* The reset clears what is of the old route, and lets go of the batch.
LEMMA ScopedReset ==
  ASSUME Typed, RouteTyped, RouteScoped, ResetContext \/ ResetDone
  PROVE  RouteScoped'
<1> USE DEF RouteTyped, buildVars, memoryVars, controlVars
<1>1. CASE ResetContext
  <2>1. ~Built' /\ ~testFlag'
    BY <1>1 DEF ResetContext, Built, vars
  <2> QED
    BY <1>1, <2>1
    DEF ResetContext, RouteScoped, ResetPlace, BatchCurrent, MemoryCurrent, PlanCurrent,
        OneStaleTick, vars
<1>2. CASE ResetDone
  <2>1. pc'["gpu"] = "rebuildWait" /\ ~testFlag'
    BY <1>2 DEF ResetDone, ForwardReprepare, Goto, Typed, TypeOK, TypeThreads, Threads,
                RouteScoped, ResetPlace
  <2>2. ~Built'
    BY <2>1 DEF Built
  <2> QED
    BY <1>2, <2>1, <2>2
    DEF ResetDone, RouteScoped, ResetPlace, BatchCurrent, MemoryCurrent, PlanCurrent, OneStaleTick
<1> QED BY <1>1, <1>2

LEMMA ScopedProceed ==
  ASSUME Typed, RouteTyped, RouteScoped, Proceed
  PROVE  RouteScoped'
<1>1. /\ pc["gpu"] = "enter" /\ pc'["gpu"] = "model" /\ ~resetting /\ ~pendingReset
      /\ Batch' = Batch /\ Last' = Last /\ modelLog' = modelLog
      /\ UNCHANGED <<token, pendingReset, resetting, frameIdx, batch, testFlag, memory,
                     plan, tracked, resetFor, staleTicks>>
  BY DEF Proceed, ForwardProceed, Goto, Typed, TypeOK, TypeThreads, Threads, routeVars, buildVars,
         memoryVars, controlVars, logVars, Batch, Last
<1>2. ResetPlace' /\ BatchCurrent' /\ PlanCurrent'
  BY <1>1 DEF RouteScoped, ResetPlace, BatchCurrent, PlanCurrent, OneStaleTick, Built
<1>3. MemoryCurrent'
  BY <1>1 DEF RouteScoped, BatchCurrent, MemoryCurrent, Built, InModel
<1> QED BY <1>2, <1>3 DEF RouteScoped

\* A frame is numbered after all before it, for the route there is.
LEMMA ScopedBuild ==
  ASSUME Typed, OneOwner, RouteTyped, RouteScoped, Build("gpu")
  PROVE  RouteScoped'
<1>1. /\ pc["gpu"] \in {"buildWait", "rebuildWait"} /\ pc'["gpu"] \in {"build", "rebuild"}
      /\ pc["gpu"] = "buildWait" <=> pc'["gpu"] = "build"
      /\ frame["gpu"] \in Frames /\ modelLog \in Seq(Frames)
      /\ modelLog # <<>> => Last \in Frames /\ Last # frame["gpu"]
  BY OnNewFrame
  DEF Build, BuildBatch, Goto, Typed, TypeOK, TypeThreads, Threads, GpuLabels, BuildLabels
<1>2. /\ Last' = Last /\ modelLog' = modelLog
      /\ Batch' = [token |-> token, idx |-> frameIdx]
      /\ \A f \in Frames : f # frame["gpu"] => batch'[f] = batch[f]
      /\ frameIdx' = frameIdx + 1
      /\ UNCHANGED <<token, pendingReset, resetting, testFlag, memory,
                     plan, tracked, resetFor, staleTicks>>
  BY <1>1 DEF Build, BuildBatch, RouteTyped, memoryVars, controlVars, Batch, Last
<1> USE DEF RouteTyped
<1>3. ResetPlace' /\ BatchCurrent' /\ PlanCurrent'
  BY <1>1, <1>2
  DEF RouteScoped, ResetPlace, BatchCurrent, PlanCurrent, OneStaleTick
<1>4. MemoryCurrent'
  <2>1. modelLog # <<>> => batch'[Last] = batch[Last] /\ batch[Last].idx \in Nat
    BY <1>1, <1>2
  <2> QED BY <1>1, <1>2, <2>1 DEF RouteScoped, MemoryCurrent, InModel
<1> QED BY <1>3, <1>4 DEF RouteScoped

\* What the heads have seen and what is to be tracked is of the batch's route.
LEMMA ScopedInfer ==
  ASSUME Typed, OneOwner, RouteTyped, RouteScoped, Infer \/ InferRaises
  PROVE  RouteScoped'
<1>1. /\ pc["gpu"] = "model"
      /\ frame["gpu"] \in Frames /\ modelLog \in Seq(Frames)
      /\ modelLog' = Append(modelLog, frame["gpu"])
      /\ memory' = Batch.token /\ testFlag'
      /\ plan' = Batch.token \/ plan' = plan
      /\ pc'["gpu"] \in {"tryAcquire", "idle"}
      /\ UNCHANGED <<token, pendingReset, resetting, frameIdx, batch, tracked,
                     staleTicks, resetFor>>
  BY OnNewFrame
  DEF Infer, InferRaises, ForwardDone, ForwardRaises, Resolve, EndJob, Goto, Typed, TypeOK, TypeThreads,
      Threads, GpuLabels, BuildLabels, buildVars, controlVars, Batch
<1>2. resetFor <= Batch.token /\ Batch.idx < frameIdx /\ (~pendingReset => Batch.token = token)
  BY <1>1 DEF RouteScoped, BatchCurrent, Built
<1>3. modelLog' # <<>> /\ Last' = frame["gpu"]
  BY <1>1, LastAppended DEF Last
<1>4. ~Built' /\ ~InModel'
  BY <1>1 DEF Built, InModel
<1> USE DEF RouteTyped
<1>5. ResetPlace' /\ BatchCurrent' /\ PlanCurrent'
  BY <1>1, <1>2, <1>4
  DEF RouteScoped, ResetPlace, BatchCurrent, PlanCurrent, OneStaleTick
<1>6. MemoryCurrent'
  BY <1>1, <1>2, <1>3, <1>4 DEF MemoryCurrent, Batch
<1> QED BY <1>5, <1>6 DEF RouteScoped

\* The rest of the gpu worker's steps, and main's, leave the batch it is on.
LEMMA ScopedElsewhere ==
  ASSUME Typed, OneOwner, RouteTyped, RouteScoped, ~Pipelined,
         MainElsewhere \/ WorkerTake("gpu") \/ WorkerElsewhere("gpu")
  PROVE  RouteScoped'
<1>1. /\ modelLog' = modelLog /\ Last' = Last
      /\ UNCHANGED <<token, pendingReset, resetting, frameIdx, batch, testFlag, memory,
                     plan, tracked, resetFor, staleTicks>>
  BY MainApart, TakesUnprepared, GpuElsewhere
  DEF MainElsewhere, WorkerTake, WorkerElsewhere, GpuUntouched, routeVars, buildVars,
      memoryVars, controlVars, Last
<1>2. \/ pc'["gpu"] = pc["gpu"] /\ Batch' = Batch
      \/ pc["gpu"] = "build" /\ pc'["gpu"] = "enter" /\ Batch' = Batch
      \/ pc["gpu"] = "rebuild" /\ pc'["gpu"] = "model" /\ Batch' = Batch
      \/ pc["gpu"] # "enter" /\ (pc'["gpu"] \notin GpuLabels \/ pc'["gpu"] = "buildWait")
  BY <1>1, MainApart, TakesUnprepared, GpuElsewhere DEF GpuUntouched, Batch
<1> USE DEF RouteTyped, Built, GpuLabels, BuildLabels
<1>3. ResetPlace'
  BY <1>1, <1>2 DEF RouteScoped, ResetPlace
<1>4. BatchCurrent'
  BY <1>1, <1>2 DEF RouteScoped, BatchCurrent, ResetPlace
<1>5. MemoryCurrent'
  BY <1>1, <1>2 DEF RouteScoped, ResetPlace, MemoryCurrent, InModel
<1>6. PlanCurrent'
  BY <1>1 DEF RouteScoped, PlanCurrent, OneStaleTick
<1> QED BY <1>3, <1>4, <1>5, <1>6 DEF RouteScoped

LEMMA NextRouteScoped ==
  ASSUME Typed, OneOwner, RouteTyped, RouteScoped, ~Pipelined, [RouteNext]_allVars
  PROVE  RouteScoped'
<1>1. CASE UNCHANGED allVars
  BY <1>1
  DEF allVars, vars, logVars, routeVars, buildVars, memoryVars, controlVars, RouteScoped,
      ResetPlace, BatchCurrent, MemoryCurrent, PlanCurrent, OneStaleTick, Built, Batch, Last, InModel
<1>2. ~Worker("prep")
  BY PrepIdle DEF OneOwner
<1> QED
  BY <1>1, <1>2, ScopedRoute, ScopedControl, ScopedReset, ScopedProceed, ScopedBuild,
     ScopedInfer, ScopedElsewhere
  DEF RouteNext, Forward, Workers, Worker

LEMMA RouteInductive ==
  ASSUME ~Pipelined
  PROVE  RouteSpec => [](RouteTyped /\ RouteScoped)
<1>1. RouteInit => RouteTyped /\ RouteScoped
  BY InitRoute
<1>2. /\ Typed /\ OneOwner /\ RouteTyped /\ RouteScoped /\ [RouteNext]_allVars
      => (RouteTyped /\ RouteScoped)'
  BY NextRouteTyped, NextRouteScoped
<1> QED BY <1>1, <1>2, Underneath, PTL DEF RouteSpec

\* Without pipelining, however many routes arrive and whenever: no frame that
\* was prepared before the context was reset for a route reaches the model.
THEOREM SequentialRoutes ==
  ASSUME ~Pipelined
  PROVE  RouteSpec => []NoRouteCrossing
<1>1. RouteScoped => NoRouteCrossing
  BY DEF RouteScoped, BatchCurrent, Built, NoRouteCrossing, InModel
<1> QED BY <1>1, RouteInductive, PTL

\* Without pipelining the model never attends to another route's memory, nor
\* to a memory that ends later than its frame counter, although a route that
\* arrives during a reset finds its pending flag cleared.
THEOREM SequentialMemory ==
  ASSUME ~Pipelined
  PROVE  RouteSpec => []MemoryOneRoute
<1>1. RouteScoped => MemoryOneRoute
  BY DEF RouteScoped, MemoryCurrent, Built, MemoryOneRoute, InModel, Last
<1> QED BY <1>1, RouteInductive, PTL

\* Without pipelining at most the control tick that was under way when the
\* controller was replaced feeds it a plan of the old route.
THEOREM SequentialControl ==
  ASSUME ~Pipelined
  PROVE  RouteSpec => []OneStaleTick
<1>1. RouteScoped => OneStaleTick
  BY DEF RouteScoped, PlanCurrent
<1> QED BY <1>1, RouteInductive, PTL
=============================================================================
