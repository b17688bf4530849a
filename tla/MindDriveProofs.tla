--------------------------- MODULE MindDriveProofs ---------------------------
(***************************************************************************)
(* The MindDrive node on a route change, for any number of frames and      *)
(* routes and any setting of the dispatcher's parameters.                  *)
(***************************************************************************)
EXTENDS MCMindDrive, DispatchProofs, FiniteSetTheorems

NodeTyped ==
  /\ serial \in Nat /\ read \in Nat /\ slipped \in Nat
  /\ pending \in BOOLEAN /\ testFlag \in BOOLEAN
  /\ snap \in [Frames -> [serial : Nat, inputs : Int]] /\ token \in [Frames -> Nat]
  /\ resetting \in {"none", "gpu", "prep"}
  /\ gate \in {"closed", "passed", "read", "accepted"}
  /\ plan \in Frames \cup {NoPlan} /\ tracked \in Frames \cup {NoPlan}
  /\ fed \subseteq Frames /\ late \subseteq Frames /\ strays \subseteq Frames

\* What the gpu worker is given is not being prepared, or not any more.
Handed ==
  /\ \A f \in Frames : gpuJob[f] # "none" => prepJob[f] \in {"none", "done"}
  /\ \A t \in Threads : pc[t] = "trySubmit" => prepJob[frame[t]] = "done"
  /\ \A t \in Threads : pc[t] \notin {"rebuildWait", "rebuild"}

\* Where the gpu worker and the resetting one are.
Places ==
  /\ gate \in {"passed", "read"} => pc["gpu"] = "enter"
  /\ gate = "accepted" => pc["gpu"] = "model"
  /\ resetting # "none" => pc[resetting] = "buildWait" /\ pending

\* A frame that the gpu worker may go on with after the tests of the serial.
Tested == gate \in {"passed", "read"} \/ InModel
Now    == frame["gpu"]

\* A batch is built after its snapshot was taken, which is of one route.
Ages ==
  /\ \A f \in Frames : snap[f].inputs = snap[f].serial /\ snap[f].serial <= serial
  /\ \A f \in Frames : token[f] <= serial
  /\ \A f \in Frames : prepJob[f] = "done" => snap[f].serial <= token[f]
  /\ \A t \in {"gpu", "prep"} : pc[t] = "build" => snap[frame[t]].serial <= token[frame[t]]
  /\ pc["gpu"] \in {"enter", "model"} => snap[Now].serial <= token[Now]

\* The frame that was tested is of one route; of an ended one if a reset is due.
Passed ==
  /\ Tested => token[Now] = snap[Now].serial
  /\ Tested /\ pending => snap[Now].serial # serial

\* A frame whose route ended at a gate has a slip to its account.
Spare == Cardinality(late \cup strays) + 1 <= slipped
Slips ==
  /\ read <= serial
  /\ gate \in {"passed", "read"} => snap[Now].serial = serial \/ Spare
  /\ gate = "read" => snap[Now].serial <= read
  /\ InModel /\ gate = "closed" => Now \in late \/ snap[Now].serial = read
  /\ gate = "accepted" => Now \in late \/ snap[Now].serial = serial \/ Spare
  /\ StraysSlipped

\* The frame the model was entered with last.
Newest == IF InModel THEN Now ELSE Last

\* Unless that one was late, the heads remember its route, and a reset that is
\* under way has cleared them.
Remembered ==
  testFlag =>
    /\ InModel \/ modelLog # <<>>
    /\ \/ Newest \in late
       \/ /\ ~pending => snap[Newest].serial = serial
          /\ gate \in {"passed", "read"} => snap[Newest].serial = snap[Now].serial
          /\ resetting = "none"

\* The plan, the one a control tick is on and those the controller has been
\* stepped with are of frames that were taken; without strays, of the route.
Followed ==
  /\ \A f \in fed \cup {plan, tracked} : f <= taken
  /\ strays = {} =>
       /\ pending => plan = NoPlan /\ tracked = NoPlan
       /\ resetting # "none" => fed = {}
       /\ \A f \in {plan, tracked} : f # NoPlan => snap[f].serial = serial
       /\ CleanPid

RoutesKept == Handed /\ Places /\ Ages /\ Passed /\ Slips /\ Remembered /\ Followed

-----------------------------------------------------------------------------
(* The dispatcher underneath                                               *)

LEMMA StepOfDispatcher ==
  ASSUME [MDNext]_mdAll
  PROVE  \/ [Next]_vars
         \/ TimerWaits \/ Discard \/ ResetContext("gpu") \/ ResetContext("prep")
<1>1. CASE FrontArrives \/ RestArrives \/ RouteCallback \/ ControlRead \/ ControlCompute
  BY <1>1 DEF FrontArrives, RestArrives, RouteCallback, ControlRead, ControlCompute, Next
<1>2. CASE TimerThread
  BY <1>2 DEF TimerThread, TimerSnapshot, PrepSnapshot, TimerElsewhere, Next, MainStep
<1>3. CASE GpuThread
  <2>1. CASE GpuTake /\ UNCHANGED mdVars
    BY <2>1 DEF Next, GpuStep
  <2>2. CASE Build("gpu") \/ Built("gpu") \/ WorkerElsewhere("gpu")
    BY <2>2 DEF Build, Built, WorkerElsewhere, Next, GpuStep
  <2>3. CASE Pass \/ ReadSerial \/ PlanAccepted
    BY <2>3 DEF Pass, ReadSerial, PlanAccepted
  <2>4. CASE EnterModel \/ ModelRaises \/ PlanDiscarded \/ StorePlan
    BY <2>4 DEF EnterModel, ModelRaises, PlanDiscarded, StorePlan, Next, GpuStep
  <2> QED BY <1>3, <2>1, <2>2, <2>3, <2>4 DEF GpuThread
<1>4. CASE PrepThread
  BY <1>4 DEF PrepThread, Build, Built, WorkerElsewhere, Next, PrepStep
<1>5. CASE UNCHANGED mdAll
  BY <1>5 DEF mdAll
<1> QED BY <1>1, <1>2, <1>3, <1>4, <1>5 DEF MDNext

\* What this node adds to the dispatcher leaves every frame its one owner.
LEMMA NodeKeepsOwner ==
  ASSUME Typed, OneOwner, [MDNext]_mdAll
  PROVE  Typed' /\ OneOwner'
<1> USE Domains
    DEF Goto, mainVars, slotVars, jobVars, lockVars, paceVars, logVars
<1>1. CASE [Next]_vars
  BY <1>1, NextTyped, NextOneOwner
<1>2. CASE ResetContext("gpu") \/ ResetContext("prep")
  <2>1. /\ fresh' = TRUE
        /\ UNCHANGED <<pc, frame, taken, slotVars, jobVars, lockVars, paceVars, logVars>>
    BY <1>2 DEF ResetContext
  <2>2. Typed'
    BY <2>1 DEF Typed, TypeOK, TypeThreads, TypeFutures, TypeJobs, TypeQueues, TypeFlags, HasFrame
  <2>3. OneOwner'
    BY <2>1 DEF OneOwner, DispatchHeld, SlotOwned, HandOwned, SnapshotNew, WorkerOwned, Queued,
                LoggedEnded, ModelOnce, PreparedKept, Alone, InFlight
  <2> QED BY <2>2, <2>3
<1>3. CASE TimerWaits
  <2>1. /\ pc["main"] = "takeRun" /\ pc' = [pc EXCEPT !["main"] = "idle"]
        /\ UNCHANGED <<frame, mainVars, slotVars, jobVars, lockVars, paceVars, logVars>>
    BY <1>3 DEF TimerWaits
  <2> USE DEF Typed, TypeOK, TypeThreads, TypeFutures, TypeJobs, TypeQueues, TypeFlags, HasFrame
  <2>2. Typed'
    BY <2>1 DEF FrameLabels, MainLabels, GpuLabels, BuildLabels
  <2> USE DEF OneOwner
  <2>3. DispatchHeld' /\ SlotOwned' /\ HandOwned' /\ SnapshotNew'
    BY <2>1 DEF DispatchHeld, SlotOwned, HandOwned, SnapshotNew
  <2>4. WorkerOwned' /\ LoggedEnded' /\ ModelOnce'
    BY <2>1 DEF WorkerOwned, Queued, LoggedEnded, ModelOnce, GpuLabels, BuildLabels
  <2>5. PreparedKept'
    BY <2>1 DEF PreparedKept
  <2>6. Alone'
    BY <2>1 DEF Alone, InFlight
  <2> QED BY <2>2, <2>3, <2>4, <2>5, <2>6
<1>4. CASE Discard
  <2> DEFINE f == frame["gpu"]
  <2>1. /\ pc["gpu"] = "enter" /\ f \in Frames /\ gpuJob[f] = "running"
        /\ gpuJob' = [gpuJob EXCEPT ![f] = "done"]
        /\ pc' = [pc EXCEPT !["gpu"] = "tryAcquire"] \/ pc' = [pc EXCEPT !["gpu"] = "idle"]
        /\ UNCHANGED <<frame, mainVars, slotVars, prepJob, hooked, gpuQueue, prepQueue,
                       lockVars, paceVars, logVars>>
    BY <1>4 DEF Discard, EndJob, Typed, HasFrame, FrameLabels, GpuLabels, BuildLabels,
                OneOwner, WorkerOwned
  <2> HIDE DEF f
  <2>2. \A g \in Frames : gpuJob'[g] = IF g = f THEN "done" ELSE gpuJob[g]
    BY <2>1 DEF Typed, TypeOK, TypeJobs
  <2> USE DEF Typed, TypeOK, TypeThreads, TypeFutures, TypeJobs, TypeQueues, TypeFlags, HasFrame
  <2>3. Typed'
    BY ZenonT(60), <2>1 DEF FrameLabels, MainLabels, TryLabels, GpuLabels, BuildLabels, JobStates
  <2> USE DEF OneOwner, Done
  <2>4. DispatchHeld' /\ SlotOwned' /\ HandOwned' /\ SnapshotNew'
    BY <2>1, <2>2 DEF DispatchHeld, SlotOwned, HandOwned, SnapshotNew, FrameLabels
  <2>5. WorkerOwned' /\ LoggedEnded' /\ ModelOnce'
    BY <2>1, <2>2 DEF WorkerOwned, Queued, LoggedEnded, ModelOnce, GpuLabels, BuildLabels
  <2>6. PreparedKept'
    BY <2>1, <2>2 DEF PreparedKept
  <2>7. Alone'
    BY <2>1, <2>2 DEF Alone, InFlight
  <2> QED BY <2>3, <2>4, <2>5, <2>6, <2>7
<1> QED BY <1>1, <1>2, <1>3, <1>4, StepOfDispatcher

\* What a step of the node is to the frames' jobs.
LEMMA StepKinds ==
  ASSUME [MDNext]_mdAll
  PROVE  \/ UNCHANGED <<pc, frame, gpuJob, prepJob>>
         \/ TimerWaits \/ TimerTake \/ MaybePipelinePrep
         \/ TimerCallback \/ TimerCheckPrep \/ TimerSubmit \/ SubmitPrep \/ AssignPrep \/ HookPrep
         \/ \E t \in Threads : TryStartFromPrepared(t) \/ StartForward(t)
         \/ GpuTake \/ PrepTake
         \/ \E t \in {"gpu", "prep"} : BuildBatch(t) \/ PrepareDone(t) \/ PrepareFails(t)
         \/ Discard \/ ForwardProceed \/ ForwardDone \/ ForwardRaises
<1> USE Domains DEF vars, jobVars
<1>1. CASE FrontArrives \/ RestArrives \/ RouteCallback \/ ControlRead \/ ControlCompute
  BY <1>1 DEF FrontArrives, RestArrives, RouteCallback, ControlRead, ControlCompute, CameraFrame
<1>2. CASE TimerThread
  BY <1>2 DEF TimerThread, TimerSnapshot, PrepSnapshot, TimerElsewhere
<1>3. CASE GpuThread
  <2>1. CASE ResetContext("gpu") \/ Pass \/ ReadSerial \/ PlanAccepted
    BY <2>1 DEF ResetContext, Pass, ReadSerial, PlanAccepted
  <2>2. CASE Build("gpu") \/ Built("gpu") \/ WorkerElsewhere("gpu")
    BY <2>2 DEF Build, Built, WorkerElsewhere
  <2>3. CASE EnterModel \/ ModelRaises \/ PlanDiscarded \/ StorePlan
    BY <2>3 DEF EnterModel, ModelRaises, PlanDiscarded, StorePlan
  <2> QED BY <1>3, <2>1, <2>2, <2>3 DEF GpuThread
<1>4. CASE PrepThread
  <2>1. CASE ResetContext("prep")
    BY <2>1 DEF ResetContext
  <2>2. CASE Build("prep") \/ Built("prep") \/ WorkerElsewhere("prep")
    BY <2>2 DEF Build, Built, WorkerElsewhere
  <2> QED BY <1>4, <2>1, <2>2 DEF PrepThread
<1>5. CASE UNCHANGED mdAll
  BY <1>5 DEF mdAll
<1> QED BY <1>1, <1>2, <1>3, <1>4, <1>5 DEF MDNext

\* Only what is prepared, or what nobody prepares, gets to the gpu worker.
LEMMA NextHanded ==
  ASSUME Typed, OneOwner, Handed, [MDNext]_mdAll
  PROVE  Handed'
<1> USE Domains
    DEF Handed, Typed, TypeOK, TypeThreads, TypeFutures, TypeJobs, TypeQueues, HasFrame,
        FrameLabels, GpuLabels, BuildLabels, JobStates, Goto, Done
<1>1. CASE UNCHANGED <<pc, frame, gpuJob, prepJob>>
  BY <1>1
<1>2. CASE TimerWaits \/ TimerTake \/ MaybePipelinePrep
  <2>1. /\ UNCHANGED <<gpuJob, prepJob>>
        /\ \A t \in Threads :
             \/ pc'[t] = pc[t] /\ frame'[t] = frame[t]
             \/ pc'[t] \in {"idle", "submitRun", "submitPrep"}
    BY <1>2 DEF TimerWaits, TimerTake, MaybePipelinePrep, TakeSnapshot, NoSnapshot, jobVars
  <2> QED BY <2>1
<1>3. CASE TimerCallback \/ TimerCheckPrep \/ AssignPrep \/ HookPrep
  BY <1>3 DEF TimerCallback, TimerCheckPrep, AssignPrep, HookPrep, jobVars
<1>4. CASE TimerSubmit
  BY <1>4 DEF TimerSubmit, SubmitGpu, OneOwner, SnapshotNew
<1>5. CASE SubmitPrep
  BY <1>5 DEF SubmitPrep, OneOwner, SnapshotNew, HandOwned
<1>6. ASSUME NEW t \in Threads, TryStartFromPrepared(t)
      PROVE  Handed'
  <2>1. CASE TryAcquire(t) \/ TryRelease(t)
    BY <2>1 DEF TryAcquire, TryRelease, jobVars
  <2>2. CASE TryCheck(t)
    <3>1. /\ UNCHANGED <<gpuJob, prepJob>> /\ pc'[t] \in {"tryClear", "tryRelease"}
          /\ \A u \in Threads : u # t => pc'[u] = pc[u] /\ frame'[u] = frame[u]
      BY <2>2 DEF TryCheck, jobVars
    <3> QED BY <3>1
  <2>3. CASE TryClear(t)
    BY <2>3 DEF TryClear, jobVars
  <2>4. CASE TrySubmit(t)
    BY <2>4 DEF TrySubmit, SubmitGpu
  <2> QED BY <1>6, <2>1, <2>2, <2>3, <2>4 DEF TryStartFromPrepared
<1>7. ASSUME NEW t \in Threads, StartForward(t)
      PROVE  Handed'
  BY <1>7 DEF StartForward, SetActive, HookGpu, jobVars
<1>8. CASE GpuTake
  BY <1>8 DEF GpuTake, OneOwner, WorkerOwned, Queued
<1>9. CASE PrepTake
  <2>1. Head(prepQueue) \in Frames /\ prepJob[Head(prepQueue)] = "pending"
    BY <1>9 DEF PrepTake, OneOwner, WorkerOwned, Queued
  <2> QED BY <1>9, <2>1 DEF PrepTake
<1>10. ASSUME NEW t \in {"gpu", "prep"}, BuildBatch(t)
       PROVE  Handed'
  BY <1>10 DEF BuildBatch, jobVars
<1>11. ASSUME NEW t \in {"gpu", "prep"}, PrepareDone(t)
       PROVE  Handed'
  <2>1. CASE t = "gpu"
    BY <1>11, <2>1 DEF PrepareDone, jobVars
  <2>2. CASE t = "prep"
    BY <1>11, <2>2 DEF PrepareDone, Resolve, EndJob, OneOwner, WorkerOwned
  <2> QED BY <2>1, <2>2
<1>12. ASSUME NEW t \in {"gpu", "prep"}, PrepareFails(t)
       PROVE  Handed'
  <2>1. CASE t = "gpu"
    BY <1>12, <2>1 DEF PrepareFails, Resolve, EndJob, OneOwner, WorkerOwned
  <2>2. CASE t = "prep"
    BY <1>12, <2>2 DEF PrepareFails, Resolve, EndJob, OneOwner, WorkerOwned
  <2> QED BY <2>1, <2>2
<1>13. CASE Discard
  BY <1>13 DEF Discard, EndJob, OneOwner, WorkerOwned
<1>14. CASE ForwardProceed
  BY <1>14 DEF ForwardProceed, jobVars
<1>15. CASE ForwardDone \/ ForwardRaises
  BY <1>15 DEF ForwardDone, ForwardRaises, Resolve, EndJob, OneOwner, WorkerOwned
<1> QED
  BY <1>1, <1>2, <1>3, <1>4, <1>5, <1>6, <1>7, <1>8, <1>9, <1>10, <1>11, <1>12, <1>13,
     <1>14, <1>15, StepKinds

-----------------------------------------------------------------------------
(* Steps that the route state does not take part in                        *)

\* What they may do to the frames that it speaks of: a frame the gpu worker
\* goes on with stays, comes from its build, or was prepared before.
RouteKept ==
  UNCHANGED <<serial, pending, snap, token, resetting, gate, read, testFlag,
              plan, tracked, fed, late, strays, slipped>>

GpuGoesOn ==
  pc'["gpu"] \in GpuLabels =>
    \/ pc'["gpu"] = pc["gpu"] /\ Now' = Now
    \/ pc["gpu"] = "build" /\ pc'["gpu"] = "enter" /\ Now' = Now
    \/ pc["gpu"] = "idle" /\ pc'["gpu"] = "buildWait"
    \/ pc["gpu"] = "idle" /\ pc'["gpu"] = "enter" /\ Now' \in Frames /\ prepJob'[Now'] = "done"

GpuLeaves ==
  pc["gpu"] \in {"enter", "model"} /\ pc'["gpu"] # pc["gpu"] =>
    pc["gpu"] = "enter" /\ gate = "closed"

BuildsStay ==
  \A t \in {"gpu", "prep"} :
    /\ pc[t] = "buildWait" => pc'[t] = "buildWait"
    /\ pc'[t] = "build" => pc[t] = "build" /\ frame'[t] = frame[t]

PreparedStays ==
  \A f \in Frames : prepJob'[f] = "done" =>
    prepJob[f] = "done" \/ (pc["prep"] = "build" /\ f = frame["prep"])

Bystander ==
  /\ RouteKept /\ UNCHANGED <<taken, modelLog>>
  /\ GpuGoesOn /\ GpuLeaves /\ BuildsStay /\ PreparedStays

LEMMA Bystanders ==
  ASSUME Typed, OneOwner, Handed,
         \/ FrontArrives \/ RestArrives \/ TimerWaits \/ TimerElsewhere \/ Discard
         \/ WorkerElsewhere("gpu") \/ WorkerElsewhere("prep")
         \/ (GpuTake \/ PrepTake) /\ UNCHANGED mdVars
         \/ UNCHANGED mdAll
  PROVE  Bystander
<1> DEFINE Moves == /\ GpuGoesOn /\ GpuLeaves /\ BuildsStay /\ PreparedStays
                   /\ UNCHANGED <<taken, modelLog>>
<1>1. RouteKept
  <2>1. CASE FrontArrives \/ RestArrives
    BY <2>1 DEF RouteKept, FrontArrives, RestArrives, batchVars, gateVars, modelVars, driveVars, slipVars
  <2>2. CASE UNCHANGED mdVars
    BY <2>2 DEF RouteKept, mdVars, inputVars, batchVars, gateVars, modelVars, driveVars, slipVars
  <2> QED BY <2>1, <2>2 DEF TimerWaits, TimerElsewhere, Discard, WorkerElsewhere, mdAll
<1> SUFFICES Moves
  BY <1>1 DEF Bystander
<1>2. /\ pc \in [Threads -> MainLabels \cup TryLabels \cup GpuLabels]
      /\ frame \in [Threads -> Frames \cup {None}] /\ prepJob \in [Frames -> JobStates]
  BY DEF Typed, TypeOK, TypeThreads, TypeJobs
<1>3. ASSUME UNCHANGED <<pc, frame, prepJob, taken, modelLog>>
      PROVE  Moves
  BY <1>3 DEF GpuGoesOn, GpuLeaves, BuildsStay, PreparedStays, Now
<1>4. ASSUME pc'["gpu"] = pc["gpu"], pc'["prep"] = pc["prep"],
             frame'["gpu"] = frame["gpu"], frame'["prep"] = frame["prep"],
             UNCHANGED <<taken, modelLog>>, PreparedStays
      PROVE  Moves
  BY <1>4 DEF GpuGoesOn, GpuLeaves, BuildsStay, Now
<1>5. CASE FrontArrives \/ RestArrives \/ UNCHANGED mdAll
  <2>1. UNCHANGED <<pc, frame, prepJob, taken, modelLog>>
    <3>1. CASE FrontArrives
      BY <3>1 DEF FrontArrives, CameraFrame, jobVars, logVars
    <3>2. CASE RestArrives \/ UNCHANGED mdAll
      BY <3>2 DEF RestArrives, mdAll, vars, mainVars, jobVars, logVars
    <3> QED BY <1>5, <3>1, <3>2
  <2> QED BY <1>3, <2>1
<1> USE DEF Threads, Goto, mainVars, jobVars, logVars
<1>6. CASE TimerWaits \/ TimerCallback \/ TimerCheckPrep \/ TimerSubmit \/ AssignPrep \/ HookPrep
  <2>1. UNCHANGED <<taken, modelLog, prepJob, frame>>
    BY <1>6 DEF TimerWaits, TimerCallback, TimerCheckPrep, TimerSubmit, SubmitGpu, AssignPrep, HookPrep
  <2>2. pc'["gpu"] = pc["gpu"] /\ pc'["prep"] = pc["prep"]
    BY <1>2, <1>6 DEF TimerWaits, TimerCallback, TimerCheckPrep, TimerSubmit, AssignPrep, HookPrep
  <2> QED BY <1>4, <2>1, <2>2 DEF PreparedStays
<1>7. CASE SubmitPrep
  <2>1. UNCHANGED <<taken, modelLog, frame>> /\ pc'["gpu"] = pc["gpu"] /\ pc'["prep"] = pc["prep"]
    BY <1>2, <1>7 DEF SubmitPrep
  <2>2. PreparedStays
    BY <1>2, <1>7 DEF SubmitPrep, PreparedStays
  <2> QED BY <1>4, <2>1, <2>2
<1>8. ASSUME NEW t \in Threads, TryStartFromPrepared(t) \/ StartForward(t)
      PROVE  /\ UNCHANGED <<taken, modelLog, prepJob>>
             /\ \A u \in Threads : u # t => pc'[u] = pc[u] /\ frame'[u] = frame[u]
             /\ pc[t] \notin GpuLabels /\ pc'[t] \notin GpuLabels
  <2>1. UNCHANGED <<taken, modelLog, prepJob>>
    BY <1>8 DEF TryStartFromPrepared, TryAcquire, TryCheck, TryClear, TrySubmit, TryRelease,
                SubmitGpu, StartForward, SetActive, HookGpu
  <2>2. \A u \in Threads : u # t => pc'[u] = pc[u] /\ frame'[u] = frame[u]
    BY <1>2, <1>8 DEF TryStartFromPrepared, TryAcquire, TryCheck, TryClear, TrySubmit, TryRelease,
                StartForward, SetActive, HookGpu
  <2>3. pc[t] \notin GpuLabels /\ pc'[t] \notin GpuLabels
    BY <1>2, <1>8 DEF TryStartFromPrepared, TryAcquire, TryCheck, TryClear, TrySubmit, TryRelease,
                StartForward, SetActive, HookGpu, GpuLabels, BuildLabels
  <2> QED BY <2>1, <2>2, <2>3
<1>9. CASE TryStartFromPrepared("main") \/ StartForward("main")
  <2>1. /\ pc'["gpu"] = pc["gpu"] /\ pc'["prep"] = pc["prep"]
        /\ frame'["gpu"] = frame["gpu"] /\ frame'["prep"] = frame["prep"]
        /\ UNCHANGED <<taken, modelLog, prepJob>>
    BY <1>8, <1>9
  <2> QED BY <1>4, <2>1 DEF PreparedStays
<1>10. ASSUME pc'["prep"] = pc["prep"], frame'["prep"] = frame["prep"],
              UNCHANGED <<taken, modelLog, prepJob>>,
              pc["gpu"] \notin {"buildWait", "enter", "model"}, pc'["gpu"] \notin GpuLabels
       PROVE  Moves
  BY <1>10 DEF GpuGoesOn, GpuLeaves, BuildsStay, PreparedStays, GpuLabels, BuildLabels
<1>11. CASE TryStartFromPrepared("gpu") \/ StartForward("gpu")
  <2>1. /\ UNCHANGED <<taken, modelLog, prepJob>>
        /\ pc'["prep"] = pc["prep"] /\ frame'["prep"] = frame["prep"]
        /\ pc["gpu"] \notin GpuLabels /\ pc'["gpu"] \notin GpuLabels
    BY <1>8, <1>11
  <2> QED BY <1>10, <2>1 DEF GpuLabels, BuildLabels
<1>13. CASE PrepareFails("gpu")
  <2>1. /\ UNCHANGED <<taken, modelLog, prepJob, frame>> /\ pc'["prep"] = pc["prep"]
        /\ pc["gpu"] = "build" /\ pc'["gpu"] \notin GpuLabels
    BY <1>2, <1>13 DEF PrepareFails, Resolve, EndJob, Handed, GpuLabels, BuildLabels
  <2> QED BY <1>10, <2>1
<1>14. ASSUME pc'["gpu"] = pc["gpu"], frame'["gpu"] = frame["gpu"],
              UNCHANGED <<taken, modelLog>>,
              pc["prep"] # "buildWait", pc'["prep"] # "build", PreparedStays
       PROVE  Moves
  BY <1>14 DEF GpuGoesOn, GpuLeaves, BuildsStay, Now
<1>15. CASE TryStartFromPrepared("prep") \/ StartForward("prep")
  <2>1. /\ UNCHANGED <<taken, modelLog, prepJob>>
        /\ pc'["gpu"] = pc["gpu"] /\ frame'["gpu"] = frame["gpu"]
        /\ pc["prep"] \notin GpuLabels /\ pc'["prep"] \notin GpuLabels
    BY <1>8, <1>15
  <2> QED BY <1>14, <2>1 DEF PreparedStays, GpuLabels, BuildLabels
<1>16. CASE PrepareFails("prep")
  <2>1. /\ UNCHANGED <<taken, modelLog, frame>> /\ pc'["gpu"] = pc["gpu"]
        /\ pc["prep"] = "build" /\ pc'["prep"] \in {"tryAcquire", "idle"}
    BY <1>2, <1>16 DEF PrepareFails, Resolve, EndJob, Handed
  <2>2. prepJob' = [prepJob EXCEPT ![frame["prep"]] = "failed"]
    BY <1>16 DEF PrepareFails, Resolve, EndJob
  <2>3. PreparedStays
    BY <1>2, <2>1, <2>2 DEF PreparedStays
  <2> QED BY <1>14, <2>1, <2>3
<1>17. CASE GpuTake
  <2> DEFINE f == Head(gpuQueue)
  <2>1. f \in Frames /\ gpuJob[f] = "pending"
    BY <1>17 DEF GpuTake, OneOwner, WorkerOwned, Queued, Typed, TypeOK, TypeQueues
  <2>2. /\ pc["gpu"] = "idle" /\ Now' = f /\ UNCHANGED <<prepJob, taken, modelLog>>
        /\ pc'["gpu"] = IF prepJob[f] = "none" THEN "buildWait" ELSE "enter"
        /\ pc'["prep"] = pc["prep"] /\ frame'["prep"] = frame["prep"]
    BY <1>2, <1>17 DEF GpuTake, Sequential, Now
  <2>3. prepJob[f] \in {"none", "done"}
    BY <2>1 DEF Handed
  <2> HIDE DEF f
  <2>4. GpuGoesOn
    BY <2>1, <2>2, <2>3 DEF GpuGoesOn
  <2> QED BY <2>2, <2>4 DEF GpuLeaves, BuildsStay, PreparedStays
<1>18. CASE PrepTake
  <2>1. /\ pc["prep"] = "idle" /\ pc'["prep"] = "buildWait"
        /\ pc'["gpu"] = pc["gpu"] /\ frame'["gpu"] = frame["gpu"]
        /\ UNCHANGED <<taken, modelLog>>
    BY <1>2, <1>18 DEF PrepTake
  <2>2. PreparedStays
    BY <1>2, <1>18 DEF PrepTake, PreparedStays
  <2> QED BY <1>14, <2>1, <2>2
<1>19. CASE Discard
  <2>1. /\ pc["gpu"] = "enter" /\ gate = "closed" /\ pc'["gpu"] \in {"tryAcquire", "idle"}
        /\ pc'["prep"] = pc["prep"] /\ UNCHANGED <<taken, modelLog, prepJob, frame>>
    BY <1>2, <1>19 DEF Discard, EndJob
  <2> QED
    BY <2>1 DEF GpuGoesOn, GpuLeaves, BuildsStay, PreparedStays, GpuLabels, BuildLabels
<1> QED
  BY <1>5, <1>6, <1>7, <1>9, <1>11, <1>13, <1>15, <1>16, <1>17, <1>18, <1>19
  DEF TimerElsewhere, WorkerElsewhere

LEMMA BystanderKeeps ==
  ASSUME Typed, OneOwner, NodeTyped, RoutesKept, Bystander
  PROVE  Places' /\ Ages' /\ Passed' /\ Slips' /\ Remembered' /\ Followed'
<1>1. /\ RouteKept /\ UNCHANGED <<taken, modelLog>>
      /\ GpuGoesOn /\ GpuLeaves /\ BuildsStay /\ PreparedStays
      /\ Places /\ Ages /\ Passed /\ Slips /\ Remembered /\ Followed
  BY DEF Bystander, RoutesKept
<1>2. /\ gate \in {"closed", "passed", "read", "accepted"}
      /\ resetting \in {"none", "gpu", "prep"}
  BY DEF NodeTyped
<1>3. (InModel' <=> InModel) /\ (InModel => Now' = Now)
  BY <1>1 DEF GpuGoesOn, GpuLeaves, InModel, GpuLabels, BuildLabels
<1>4. gate # "closed" => pc'["gpu"] = pc["gpu"] /\ Now' = Now
  BY <1>1, <1>2 DEF Places, GpuGoesOn, GpuLeaves, GpuLabels, BuildLabels
<1>5. Places'
  BY <1>1, <1>2, <1>4 DEF Places, RouteKept, BuildsStay
<1>6. Ages'
  <2>1. pc'["gpu"] \in {"enter", "model"} => snap[Now'].serial <= token[Now']
    <3>1. CASE pc["gpu"] = "idle" /\ Now' \in Frames /\ prepJob'[Now'] = "done"
      BY <1>1, <3>1 DEF Ages, PreparedStays
    <3>2. CASE Now' = Now /\ pc["gpu"] \in {"build", "enter", "model"}
      BY <1>1, <3>2 DEF Ages, Now
    <3> QED BY <1>1, <3>1, <3>2 DEF GpuGoesOn, GpuLabels, BuildLabels
  <2>2. \A f \in Frames : prepJob'[f] = "done" => snap[f].serial <= token[f]
    BY <1>1 DEF Ages, PreparedStays
  <2>3. \A t \in {"gpu", "prep"} : pc'[t] = "build" => snap[frame'[t]].serial <= token[frame'[t]]
    BY <1>1 DEF Ages, BuildsStay
  <2> QED BY <1>1, <2>1, <2>2, <2>3 DEF Ages, RouteKept
<1>7. (Tested' <=> Tested) /\ (Tested => Now' = Now)
  BY <1>1, <1>3, <1>4 DEF Tested, RouteKept
<1>8. Passed'
  BY <1>1, <1>7 DEF Passed, RouteKept
<1>9. Slips'
  BY <1>1, <1>2, <1>3, <1>4 DEF Slips, RouteKept, Spare, StraysSlipped
<1>10. Remembered'
  <2>1. Newest' = Newest
    BY <1>1, <1>3 DEF Newest, Last
  <2> QED BY <1>1, <1>3, <1>4, <2>1 DEF Remembered, RouteKept
<1>11. Followed'
  BY <1>1 DEF Followed, RouteKept, CleanPid
<1> QED BY <1>5, <1>6, <1>8, <1>9, <1>10, <1>11

-----------------------------------------------------------------------------
(* Snapshots and routes                                                    *)

\* Whatever a worker, a plan or a log speaks of was taken before.
LEMMA TakenBefore ==
  ASSUME Typed, OneOwner
  PROVE  /\ \A f \in Frames : gpuJob[f] # "none" \/ prepJob[f] # "none" => f <= taken
         /\ pc["gpu"] \in GpuLabels => Now \in Frames /\ Now <= taken
         /\ pc["prep"] \in GpuLabels => frame["prep"] \in Frames /\ frame["prep"] <= taken
         /\ modelLog # <<>> => Last \in Frames /\ Last <= taken
<1>1. \A f \in Frames : ~(f > taken) <=> f <= taken
  BY DispatchAssumption DEF DispatchAssumption, Frames, Typed, TypeOK, TypeFutures
<1>2. \A f \in Frames : gpuJob[f] # "none" \/ prepJob[f] # "none" => f <= taken
  BY <1>1 DEF OneOwner, SnapshotNew
<1>3. pc["gpu"] \in GpuLabels => Now \in Frames /\ Now <= taken
  BY <1>2, Domains DEF Now, Typed, HasFrame, FrameLabels, OneOwner, WorkerOwned
<1>4. pc["prep"] \in GpuLabels => frame["prep"] \in Frames /\ frame["prep"] <= taken
  BY <1>2, Domains DEF Typed, HasFrame, FrameLabels, OneOwner, WorkerOwned
<1>5. modelLog # <<>> => Last \in Frames /\ Last <= taken
  <2>1. ASSUME modelLog # <<>>
        PROVE  Last \in Frames /\ gpuJob[Last] # "none"
    <3>1. modelLog \in Seq(Frames) /\ Len(modelLog) \in DOMAIN modelLog
      BY <2>1 DEF Typed, TypeOK, TypeQueues
    <3> QED BY <3>1 DEF Last, OneOwner, LoggedEnded, Done
  <2> QED BY <1>2, <2>1
<1> QED BY <1>2, <1>3, <1>4, <1>5

\* A snapshot is of inputs of the present route, and new to everyone.
LEMMA SnapshotKeeps ==
  ASSUME Typed, OneOwner, NodeTyped, RoutesKept, TimerSnapshot \/ PrepSnapshot
  PROVE  NodeTyped' /\ Places' /\ Ages' /\ Passed' /\ Slips' /\ Remembered' /\ Followed'
<1>1. /\ pc'["gpu"] = pc["gpu"] /\ pc'["prep"] = pc["prep"]
      /\ frame'["gpu"] = frame["gpu"] /\ frame'["prep"] = frame["prep"]
      /\ UNCHANGED <<gpuJob, prepJob, modelLog>>
      /\ UNCHANGED <<serial, pending, token, resetting, gate, read, testFlag,
                     plan, tracked, fed, late, strays, slipped>>
  <2>1. pc'["gpu"] = pc["gpu"] /\ pc'["prep"] = pc["prep"]
        /\ frame'["gpu"] = frame["gpu"] /\ frame'["prep"] = frame["prep"]
    BY DEF TimerSnapshot, PrepSnapshot, TimerTake, MaybePipelinePrep, TakeSnapshot, NoSnapshot,
           Typed, TypeOK, TypeThreads, Threads, Goto
  <2>2. UNCHANGED <<gpuJob, prepJob, modelLog>>
    BY DEF TimerSnapshot, PrepSnapshot, TimerTake, MaybePipelinePrep, jobVars, logVars
  <2>3. UNCHANGED <<serial, pending, token, resetting, gate, read, testFlag,
                    plan, tracked, fed, late, strays, slipped>>
    BY DEF TimerSnapshot, PrepSnapshot, batchVars, gateVars, modelVars, driveVars, slipVars
  <2> QED BY <2>1, <2>2, <2>3
<1>2. \/ UNCHANGED <<taken, snap>>
      \/ /\ taken' = taken + 1 /\ taken \in Nat
         /\ snap' = [snap EXCEPT ![taken'] = [serial |-> serial, inputs |-> serial]]
  <2>1. taken' = taken \/ taken' = taken + 1
    BY DEF TimerSnapshot, PrepSnapshot, TimerTake, MaybePipelinePrep, TakeSnapshot, NoSnapshot, mainVars
  <2>2. taken \in Nat
    BY DispatchAssumption DEF DispatchAssumption, Typed, TypeOK, TypeFutures
  <2>3. IF taken' = taken THEN UNCHANGED snap ELSE Oldest = serial /\ Snapshot
    BY DEF TimerSnapshot, PrepSnapshot, InputsCurrent
  <2> QED BY <2>1, <2>2, <2>3 DEF Snapshot
<1>3. \A f \in Frames : f <= taken => f <= taken' /\ snap'[f] = snap[f]
  <2>1. \A f \in Frames : f \in Nat
    BY DispatchAssumption DEF DispatchAssumption, Frames
  <2>2. snap \in [Frames -> [serial : Nat, inputs : Int]]
    BY DEF NodeTyped
  <2>3. CASE UNCHANGED <<taken, snap>>
    BY <2>3
  <2>4. CASE taken' = taken + 1 /\ taken \in Nat
             /\ snap' = [snap EXCEPT ![taken'] = [serial |-> serial, inputs |-> serial]]
    BY <2>1, <2>2, <2>4
  <2> QED BY <1>2, <2>3, <2>4
<1>4. NodeTyped'
  <2>1. snap' \in [Frames -> [serial : Nat, inputs : Int]]
    <3>1. [serial |-> serial, inputs |-> serial] \in [serial : Nat, inputs : Int]
      BY DEF NodeTyped
    <3> QED BY <1>2, <3>1 DEF NodeTyped
  <2> QED BY <1>1, <2>1 DEF NodeTyped
<1>5. /\ \A f \in Frames : gpuJob[f] # "none" \/ prepJob[f] # "none" => snap'[f] = snap[f]
      /\ pc["gpu"] \in GpuLabels => Now \in Frames /\ snap'[Now] = snap[Now]
      /\ pc["prep"] \in GpuLabels => snap'[frame["prep"]] = snap[frame["prep"]]
      /\ modelLog # <<>> => Last \in Frames /\ snap'[Last] = snap[Last]
  BY <1>3, TakenBefore
<1>6. Now' = Now /\ Last' = Last
  BY <1>1 DEF Now, Last
<1>7. gate \in {"closed", "passed", "read", "accepted"}
  BY DEF NodeTyped
<1>8. Places /\ Ages /\ Passed /\ Slips /\ Remembered /\ Followed
  BY DEF RoutesKept
<1>9. Places'
  BY <1>1, <1>8 DEF Places, NodeTyped
<1>10. Ages'
  <2>1. \A f \in Frames : snap'[f].inputs = snap'[f].serial /\ snap'[f].serial <= serial
    BY <1>2, <1>8 DEF Ages, NodeTyped
  <2>2. \A f \in Frames : prepJob[f] = "done" => snap'[f].serial <= token[f]
    BY <1>5, <1>8 DEF Ages
  <2>3. \A t \in {"gpu", "prep"} : pc[t] = "build" => snap'[frame[t]].serial <= token[frame[t]]
    BY <1>5, <1>8 DEF Ages, GpuLabels, BuildLabels, Now
  <2>4. pc["gpu"] \in {"enter", "model"} => snap'[Now].serial <= token[Now]
    BY <1>5, <1>8 DEF Ages, GpuLabels
  <2> QED BY <1>1, <1>6, <1>8, <2>1, <2>2, <2>3, <2>4 DEF Ages
<1>11. gate # "closed" \/ InModel => pc["gpu"] \in GpuLabels /\ snap'[Now] = snap[Now]
  BY <1>5, <1>7, <1>8 DEF Places, InModel, GpuLabels
<1>12. Passed'
  BY <1>1, <1>6, <1>8, <1>11 DEF Passed, Tested, InModel
<1>13. Slips'
  BY <1>1, <1>6, <1>8, <1>11 DEF Slips, Spare, InModel, StraysSlipped
<1>14. Remembered'
  <2>1. Newest' = Newest /\ (InModel \/ modelLog # <<>> => snap'[Newest] = snap[Newest])
    BY <1>1, <1>5, <1>6, <1>11 DEF Newest, InModel
  <2> QED BY <1>1, <1>6, <1>8, <1>11, <2>1 DEF Remembered, InModel
<1>15. Followed'
  <2>1. \A f \in fed \cup {plan, tracked} : f \in Frames => f <= taken' /\ snap'[f] = snap[f]
    BY <1>3, <1>8 DEF Followed
  <2>2. NoPlan <= taken'
    BY <1>2, DispatchAssumption DEF NoPlan, None, DispatchAssumption, Typed, TypeOK, TypeFutures
  <2>3. \A f \in fed \cup {plan, tracked} : f \in Frames \/ f = NoPlan
    BY DEF NodeTyped
  <2>4. \A f \in fed \cup {plan, tracked} : f <= taken'
    BY <2>1, <2>2, <2>3
  <2>5. \A f \in fed : f \in Frames
    BY DEF NodeTyped
  <2> QED BY <1>1, <1>8, <2>1, <2>3, <2>4, <2>5 DEF Followed, CleanPid
<1> QED BY <1>4, <1>9, <1>10, <1>12, <1>13, <1>14, <1>15

LEMMA RouteKeeps ==
  ASSUME Typed, OneOwner, NodeTyped, RoutesKept, RouteCallback
  PROVE  NodeTyped' /\ Places' /\ Ages' /\ Passed' /\ Slips' /\ Remembered' /\ Followed'
<1>1. /\ tracked = NoPlan /\ serial' = serial + 1 /\ pending' = TRUE /\ plan' = NoPlan
      /\ slipped' = IF gate = "closed" THEN slipped ELSE slipped + 1
      /\ UNCHANGED <<pc, frame, prepJob, taken, modelLog>>
      /\ UNCHANGED <<snap, token, resetting, gate, read, testFlag, tracked, fed, late, strays>>
  BY DEF RouteCallback, MainFree, vars, mainVars, jobVars, logVars, inputVars, batchVars, gateVars,
         modelVars
<1>2. serial \in Nat /\ slipped \in Nat /\ read \in Nat
      /\ gate \in {"closed", "passed", "read", "accepted"}
      /\ \A f \in Frames : snap[f].serial \in Nat /\ token[f] \in Nat
  BY DEF NodeTyped
<1>3. Now' = Now /\ Last' = Last /\ (InModel' <=> InModel) /\ (Tested' <=> Tested)
      /\ Newest' = Newest
  BY <1>1 DEF Now, Last, InModel, Tested, Newest
<1>4. NodeTyped'
  <2>1. serial' \in Nat /\ slipped' \in Nat /\ pending' \in BOOLEAN
    BY <1>1, <1>2
  <2>2. plan' \in Frames \cup {NoPlan}
    BY <1>1
  <2> QED BY <1>1, <2>1, <2>2 DEF NodeTyped
<1>5. Places /\ Ages /\ Passed /\ Slips /\ Remembered /\ Followed
  BY DEF RoutesKept
<1>6. pc["gpu"] \in {"enter", "model"} => Now \in Frames /\ snap[Now].serial <= serial
  BY <1>5, TakenBefore DEF Ages, GpuLabels
<1>7. Tested => pc["gpu"] \in {"enter", "model"}
  BY <1>5 DEF Tested, Places, InModel
<1>8. Places'
  BY <1>1, <1>5 DEF Places
<1>9. Ages'
  BY <1>1, <1>2, <1>3, <1>5 DEF Ages
<1>10. Passed'
  <2>1. Tested => snap[Now].serial # serial'
    BY <1>1, <1>2, <1>6, <1>7
  <2> QED BY <1>1, <1>3, <1>5, <2>1 DEF Passed
<1>11. Slips'
  <2>1. Cardinality(late \cup strays) \in Nat
    <3>1. IsFiniteSet(Frames)
      BY FS_Interval, DispatchAssumption DEF DispatchAssumption, Frames
    <3> QED BY <3>1, FS_Subset, FS_CardinalityType DEF NodeTyped
  <2>2. gate # "closed" => Spare'
    BY <1>1, <1>2, <1>5, <2>1 DEF Slips, StraysSlipped, Spare
  <2>3. StraysSlipped'
    BY <1>1, <1>2, <1>5, <2>1 DEF Slips, StraysSlipped
  <2>4. read <= serial'
    BY <1>1, <1>2, <1>5 DEF Slips
  <2> QED BY <1>1, <1>2, <1>3, <1>5, <2>2, <2>3, <2>4 DEF Slips
<1>12. Remembered'
  BY <1>1, <1>3, <1>5 DEF Remembered
<1>13. Followed'
  BY <1>1, <1>5 DEF Followed, CleanPid
<1> QED BY <1>4, <1>8, <1>9, <1>10, <1>11, <1>12, <1>13

LEMMA ControlKeeps ==
  ASSUME Typed, OneOwner, NodeTyped, RoutesKept, ControlRead \/ ControlCompute
  PROVE  NodeTyped' /\ Places' /\ Ages' /\ Passed' /\ Slips' /\ Remembered' /\ Followed'
<1>1. /\ UNCHANGED <<pc, frame, prepJob, taken, modelLog>>
      /\ UNCHANGED <<serial, pending, snap, token, resetting, gate, read, testFlag, plan,
                     late, strays, slipped>>
  BY DEF ControlRead, ControlCompute, vars, mainVars, jobVars, logVars, inputVars, batchVars,
         gateVars, modelVars, slipVars
<1>2. \/ tracked' = plan /\ plan # NoPlan /\ fed' = fed
      \/ tracked' = NoPlan /\ tracked # NoPlan /\ fed' = fed \cup {tracked}
  BY DEF ControlRead, ControlCompute
<1>3. NodeTyped'
  <2>1. tracked' \in Frames \cup {NoPlan} /\ fed' \subseteq Frames
    BY <1>2 DEF NodeTyped
  <2> QED BY <1>1, <2>1 DEF NodeTyped
<1>4. Places /\ Ages /\ Passed /\ Slips /\ Remembered /\ Followed
  BY DEF RoutesKept
<1>5. Places' /\ Ages' /\ Passed'
  BY <1>1, <1>4 DEF Places, Ages, Passed, Tested, InModel, Now
<1>6. Slips' /\ Remembered'
  BY <1>1, <1>4 DEF Slips, Spare, StraysSlipped, Remembered, InModel, Now, Newest, Last
<1>7. Followed'
  <2>1. NoPlan <= taken
    BY DispatchAssumption DEF NoPlan, None, DispatchAssumption, Typed, TypeOK, TypeFutures
  <2>2. \A f \in fed' \cup {plan', tracked'} : f <= taken
    BY <1>1, <1>2, <1>4, <2>1 DEF Followed
  <2>3. ASSUME strays = {}
        PROVE  /\ pending => plan = NoPlan /\ tracked' = NoPlan
               /\ resetting # "none" => fed' = {}
               /\ \A f \in {plan, tracked'} : f # NoPlan => snap[f].serial = serial
               /\ ~pending => \A f \in fed' : snap[f].serial = serial
    <3>1. /\ pending => plan = NoPlan /\ tracked = NoPlan
          /\ resetting # "none" => fed = {} /\ pending
          /\ \A f \in {plan, tracked} : f # NoPlan => snap[f].serial = serial
          /\ ~pending => \A f \in fed : snap[f].serial = serial
      BY <1>4, <2>3 DEF Followed, CleanPid, Places
    <3> QED BY <1>2, <3>1
  <2> QED BY <1>1, <2>2, <2>3 DEF Followed, CleanPid
<1> QED BY <1>3, <1>5, <1>6, <1>7

-----------------------------------------------------------------------------
(* The reset and the build                                                 *)

LEMMA ResetKeeps ==
  ASSUME Typed, OneOwner, NodeTyped, RoutesKept,
         NEW t \in {"gpu", "prep"}, ResetContext(t)
  PROVE  NodeTyped' /\ Places' /\ Ages' /\ Passed' /\ Slips' /\ Remembered' /\ Followed'
<1>1. /\ pc[t] = "buildWait" /\ pending /\ resetting' = t /\ testFlag' = FALSE
      /\ plan' = NoPlan /\ fed' = {}
      /\ UNCHANGED <<pc, frame, prepJob, taken, modelLog>>
      /\ UNCHANGED <<serial, pending, snap, token, gate, read, tracked, late, strays, slipped>>
  BY DEF ResetContext, jobVars, logVars, inputVars, gateVars, slipVars
<1>2. NodeTyped'
  BY <1>1 DEF NodeTyped
<1>3. Places /\ Ages /\ Passed /\ Slips /\ Followed
  BY DEF RoutesKept
<1>4. Places' /\ Ages' /\ Passed'
  BY <1>1, <1>3 DEF Places, Ages, Passed, Tested, InModel, Now
<1>5. Slips' /\ Remembered'
  BY <1>1, <1>3 DEF Slips, Spare, StraysSlipped, Remembered, InModel, Now
<1>6. Followed'
  <2>1. NoPlan <= taken
    BY DispatchAssumption DEF NoPlan, None, DispatchAssumption, Typed, TypeOK, TypeFutures
  <2> QED BY <1>1, <1>3, <2>1 DEF Followed, CleanPid
<1> QED BY <1>2, <1>4, <1>5, <1>6

LEMMA BuildKeeps ==
  ASSUME Typed, OneOwner, NodeTyped, RoutesKept,
         NEW t \in {"gpu", "prep"}, Build(t)
  PROVE  NodeTyped' /\ Places' /\ Ages' /\ Passed' /\ Slips' /\ Remembered' /\ Followed'
<1> DEFINE f == frame[t]
<1>1. /\ pc[t] = "buildWait" /\ f \in Frames
      /\ pending => resetting = t
      /\ pending' = FALSE /\ resetting' = "none"
      /\ token' = [token EXCEPT ![f] = serial]
      /\ pc' = [pc EXCEPT ![t] = "build"]
      /\ UNCHANGED <<frame, prepJob, taken, modelLog>>
      /\ UNCHANGED <<serial, snap, gate, read, testFlag, plan, tracked, fed, late, strays, slipped>>
  <2>1. pc[t] = "buildWait"
    BY Domains DEF Build, BuildBatch, RoutesKept, Handed
  <2>2. f \in Frames
    BY <2>1, Domains DEF Typed, HasFrame, FrameLabels, GpuLabels, BuildLabels
  <2>3. (pending => resetting = t) /\ pending' = FALSE
    BY DEF Build, NodeTyped
  <2> QED
    BY <2>1, <2>2, <2>3
    DEF Build, BuildBatch, Goto, mainVars, jobVars, inputVars, gateVars, modelVars, driveVars,
        slipVars
<1>2. /\ \A g \in Frames : token[g] \in Nat /\ snap[g].serial \in Nat
      /\ serial \in Nat /\ token \in [Frames -> Nat]
  BY DEF NodeTyped
<1>3. \A u \in {"gpu", "prep"} :
        pc'[u] = IF u = t THEN "build" ELSE pc[u]
  BY <1>1 DEF Typed, TypeOK, TypeThreads, Threads
<1>4. Places /\ Ages /\ Passed /\ Slips /\ Remembered /\ Followed
  BY DEF RoutesKept
<1>5. gate # "closed" \/ InModel => t = "prep" /\ Now \in Frames /\ Now # f
  <2>1. gate # "closed" \/ InModel => pc["gpu"] \in {"enter", "model"}
    BY <1>4 DEF Places, InModel, NodeTyped
  <2>2. ASSUME pc["gpu"] \in {"enter", "model"}
        PROVE  t = "prep" /\ Now \in Frames /\ Now # f
    <3>1. t = "prep"
      BY <1>1, <2>2
    <3>2. Now \in Frames /\ gpuJob[Now] = "running"
      BY <2>2, Domains
      DEF Typed, HasFrame, FrameLabels, GpuLabels, OneOwner, WorkerOwned, Now
    <3>3. prepJob[f] = "running"
      BY <1>1, <3>1 DEF OneOwner, WorkerOwned, GpuLabels, BuildLabels
    <3> QED BY <3>1, <3>2, <3>3 DEF RoutesKept, Handed
  <2> QED BY <2>1, <2>2
<1> HIDE DEF f
<1>6. \A g \in Frames : /\ token'[g] = IF g = f THEN serial ELSE token[g]
                        /\ token[g] <= token'[g]
  BY <1>1, <1>2, <1>4 DEF Ages
<1>7. Now' = Now /\ Last' = Last
  BY <1>1 DEF Now, Last
<1>8. NodeTyped'
  <2>1. token' \in [Frames -> Nat]
    BY <1>1, <1>2
  <2> QED BY <1>1, <2>1 DEF NodeTyped
<1>9. (InModel' <=> InModel) /\ (Tested' <=> Tested) /\ Newest' = Newest
  BY <1>1, <1>3, <1>7 DEF InModel, Tested, Newest
<1>10. Places'
  BY <1>1, <1>3, <1>4, <1>5 DEF Places
<1>11. Ages'
  <2>1. \A g \in Frames : prepJob[g] = "done" => snap[g].serial <= token'[g]
    BY <1>2, <1>4, <1>6 DEF Ages
  <2>2. \A g \in Frames : token'[g] <= serial
    BY <1>2, <1>4, <1>6 DEF Ages
  <2>3. snap[f].serial <= token'[f]
    BY <1>1, <1>4, <1>6 DEF Ages
  <2>4. \A u \in {"gpu", "prep"} : pc'[u] = "build" => snap[frame[u]].serial <= token'[frame[u]]
    <3>1. \A u \in {"gpu", "prep"} : pc[u] = "build" =>
            frame[u] \in Frames /\ snap[frame[u]].serial <= token[frame[u]]
      BY <1>4, Domains DEF Ages, Typed, HasFrame, FrameLabels, GpuLabels, BuildLabels
    <3>2. \A u \in {"gpu", "prep"} : pc[u] = "build" => snap[frame[u]].serial <= token'[frame[u]]
      BY <1>2, <1>6, <3>1
    <3> QED BY <1>3, <2>3, <3>2 DEF f
  <2>5. pc'["gpu"] \in {"enter", "model"} => snap[Now].serial <= token'[Now]
    <3>1. pc["gpu"] \in {"enter", "model"} => Now \in Frames /\ snap[Now].serial <= token[Now]
      BY <1>4, Domains DEF Ages, Typed, HasFrame, FrameLabels, GpuLabels, Now
    <3>2. pc["gpu"] \in {"enter", "model"} => snap[Now].serial <= token'[Now]
      BY <1>2, <1>6, <3>1
    <3> QED BY <1>3, <3>2
  <2> QED BY <1>1, <1>4, <1>7, <2>1, <2>2, <2>4, <2>5 DEF Ages
<1>12. Passed'
  <2>1. Tested => Now \in Frames /\ Now # f
    BY <1>5 DEF Tested
  <2> QED BY <1>1, <1>4, <1>6, <1>7, <1>9, <2>1 DEF Passed
<1>13. Slips'
  BY <1>1, <1>4, <1>7, <1>9 DEF Slips, Spare, StraysSlipped
<1>14. Remembered'
  BY <1>1, <1>4, <1>7, <1>9 DEF Remembered
<1>15. Followed'
  BY <1>1, <1>4 DEF Followed, CleanPid
<1> QED BY <1>8, <1>10, <1>11, <1>12, <1>13, <1>14, <1>15

\* At the end of the build the token is read that is in the batch.
LEMMA BuiltKeeps ==
  ASSUME Typed, OneOwner, NodeTyped, RoutesKept,
         NEW t \in {"gpu", "prep"}, Built(t)
  PROVE  NodeTyped' /\ Places' /\ Ages' /\ Passed' /\ Slips' /\ Remembered' /\ Followed'
<1> DEFINE f == frame[t]
<1>1. /\ pc[t] = "build" /\ f \in Frames
      /\ UNCHANGED <<frame, taken, modelLog>>
      /\ UNCHANGED <<serial, pending, snap, resetting, gate, read, testFlag, plan, tracked, fed,
                     late, strays, slipped>>
      /\ \E s \in token[f]..serial : token' = [token EXCEPT ![f] = s]
  <2>1. pc[t] = "build"
    BY Domains DEF Built, PrepareDone, RoutesKept, Handed
  <2>2. f \in Frames
    BY <2>1, Domains DEF Typed, HasFrame, FrameLabels, GpuLabels, BuildLabels
  <2> QED
    BY <2>1, <2>2
    DEF Built, PrepareDone, Resolve, EndJob, mainVars, logVars, inputVars, gateVars, modelVars,
        driveVars, slipVars
<1>2. /\ \A g \in Frames : token[g] \in Nat /\ snap[g].serial \in Nat
      /\ serial \in Nat /\ token \in [Frames -> Nat]
  BY DEF NodeTyped
<1>3. \/ /\ t = "gpu" /\ pc'["gpu"] = "enter" /\ pc'["prep"] = pc["prep"]
         /\ prepJob' = prepJob
      \/ /\ t = "prep" /\ pc'["prep"] \in {"tryAcquire", "idle"} /\ pc'["gpu"] = pc["gpu"]
         /\ prepJob' = [prepJob EXCEPT ![f] = "done"]
  BY <1>1 DEF Built, PrepareDone, Resolve, EndJob, Goto, jobVars, Typed, TypeOK, TypeThreads, Threads
<1>4. Places /\ Ages /\ Passed /\ Slips /\ Remembered /\ Followed
  BY DEF RoutesKept
<1>5. gate # "closed" \/ InModel => t = "prep" /\ Now \in Frames /\ Now # f
  <2>1. gate # "closed" \/ InModel => pc["gpu"] \in {"enter", "model"}
    BY <1>4 DEF Places, InModel, NodeTyped
  <2>2. ASSUME pc["gpu"] \in {"enter", "model"}
        PROVE  t = "prep" /\ Now \in Frames /\ Now # f
    <3>1. t = "prep"
      BY <1>1, <2>2
    <3>2. Now \in Frames /\ gpuJob[Now] = "running"
      BY <2>2, Domains
      DEF Typed, HasFrame, FrameLabels, GpuLabels, OneOwner, WorkerOwned, Now
    <3>3. prepJob[f] = "running"
      BY <1>1, <3>1 DEF OneOwner, WorkerOwned, GpuLabels, BuildLabels
    <3> QED BY <3>1, <3>2, <3>3 DEF RoutesKept, Handed
  <2> QED BY <2>1, <2>2
<1> HIDE DEF f
<1>6. /\ token' \in [Frames -> Nat]
      /\ \A g \in Frames : g # f => token'[g] = token[g]
      /\ \A g \in Frames : token[g] <= token'[g] /\ token'[g] <= serial
  <2>1. PICK s \in token[f]..serial : token' = [token EXCEPT ![f] = s]
    BY <1>1
  <2>2. s \in Nat /\ token[f] <= s /\ s <= serial
    BY <1>1, <1>2, <2>1
  <2>3. \A g \in Frames : token[g] <= serial
    BY <1>4 DEF Ages
  <2> QED BY <1>1, <1>2, <2>1, <2>2, <2>3
<1>7. Now' = Now /\ Last' = Last
  BY <1>1 DEF Now, Last
<1>8. NodeTyped'
  BY <1>1, <1>6 DEF NodeTyped
<1>9. (InModel' <=> InModel) /\ (Tested' <=> Tested) /\ Newest' = Newest
  BY <1>1, <1>3, <1>7 DEF InModel, Tested, Newest
<1>10. Places'
  <2>1. gate # "closed" => pc'["gpu"] = pc["gpu"]
    BY <1>3, <1>5
  <2>2. resetting # "none" => pc'[resetting] = pc[resetting]
    BY <1>1, <1>3, <1>4 DEF Places, NodeTyped
  <2> QED BY <1>1, <1>4, <2>1, <2>2 DEF Places, NodeTyped
<1>11. Ages'
  <2>1. snap[f].serial <= token'[f]
    <3>1. snap[f].serial <= token[f] /\ token[f] \in Nat /\ token'[f] \in Nat /\ snap[f].serial \in Nat
      BY <1>1, <1>2, <1>4, <1>6 DEF Ages, f
    <3> QED BY <1>1, <1>6, <3>1
  <2>2. ASSUME NEW g \in Frames, snap[g].serial <= token[g] \/ g = f
        PROVE  snap[g].serial <= token'[g]
    BY <1>1, <1>2, <1>6, <2>1, <2>2
  <2>3. \A g \in Frames : prepJob'[g] = "done" => prepJob[g] = "done" \/ g = f
    BY <1>3 DEF Typed, TypeOK, TypeJobs
  <2>4. \A u \in {"gpu", "prep"} : pc'[u] = "build" =>
          pc[u] = "build" /\ frame[u] \in Frames /\ snap[frame[u]].serial <= token[frame[u]]
    BY <1>1, <1>3, <1>4, Domains DEF Ages, Typed, HasFrame, FrameLabels, GpuLabels, BuildLabels
  <2>5. pc'["gpu"] \in {"enter", "model"} =>
          Now \in Frames /\ (Now = f \/ snap[Now].serial <= token[Now])
    BY <1>1, <1>3, <1>4, Domains
    DEF Ages, Typed, HasFrame, FrameLabels, GpuLabels, Now, f
  <2>6. \A g \in Frames : snap[g].inputs = snap[g].serial /\ snap[g].serial <= serial
    BY <1>4 DEF Ages
  <2>7. \A g \in Frames : prepJob'[g] = "done" => snap[g].serial <= token'[g]
    BY <1>4, <2>2, <2>3 DEF Ages
  <2>8. \A u \in {"gpu", "prep"} : pc'[u] = "build" => snap[frame[u]].serial <= token'[frame[u]]
    BY <2>2, <2>4
  <2>9. pc'["gpu"] \in {"enter", "model"} => snap[Now].serial <= token'[Now]
    BY <2>2, <2>5
  <2> QED BY <1>1, <1>6, <1>7, <2>6, <2>7, <2>8, <2>9 DEF Ages
<1>12. Passed'
  <2>1. Tested => Now \in Frames /\ Now # f
    BY <1>5 DEF Tested
  <2> QED BY <1>1, <1>4, <1>6, <1>7, <1>9, <2>1 DEF Passed
<1>13. Slips'
  BY <1>1, <1>4, <1>7, <1>9 DEF Slips, Spare, StraysSlipped
<1>14. Remembered'
  BY <1>1, <1>4, <1>7, <1>9 DEF Remembered
<1>15. Followed'
  BY <1>1, <1>4 DEF Followed, CleanPid
<1> QED BY <1>8, <1>10, <1>11, <1>12, <1>13, <1>14, <1>15

-----------------------------------------------------------------------------
(* The forward                                                             *)

LEMMA GateKeeps ==
  ASSUME Typed, OneOwner, NodeTyped, RoutesKept, Pass \/ ReadSerial \/ PlanAccepted
  PROVE  NodeTyped' /\ Places' /\ Ages' /\ Passed' /\ Slips' /\ Remembered' /\ Followed'
<1>1. /\ UNCHANGED <<pc, frame, prepJob, taken, modelLog>>
      /\ UNCHANGED <<serial, pending, snap, token, resetting, testFlag,
                     plan, tracked, fed, late, strays, slipped>>
  BY DEF Pass, ReadSerial, PlanAccepted, vars, mainVars, jobVars, logVars, inputVars, batchVars,
         modelVars, driveVars, slipVars
<1>2. \/ /\ pc["gpu"] = "enter" /\ gate = "closed" /\ gate' = "passed" /\ read' = read
         /\ snap[Now].serial = serial /\ ~pending
      \/ gate = "passed" /\ gate' = "read" /\ read' = serial
      \/ /\ pc["gpu"] = "model" /\ gate = "closed" /\ gate' = "accepted" /\ read' = read
         /\ read = serial
  BY DEF Pass, ReadSerial, PlanAccepted, Current, Now
<1>3. NodeTyped'
  <2>1. gate' \in {"closed", "passed", "read", "accepted"} /\ read' \in Nat
    BY <1>2 DEF NodeTyped
  <2> QED BY <1>1, <2>1 DEF NodeTyped
<1>4. Now' = Now /\ Last' = Last /\ (InModel' <=> InModel) /\ Newest' = Newest
  BY <1>1 DEF Now, Last, InModel, Newest
<1>5. Places /\ Ages /\ Passed /\ Slips /\ Remembered /\ Followed
  BY DEF RoutesKept
<1>6. Places' /\ Ages' /\ Followed'
  BY <1>1, <1>2, <1>4, <1>5 DEF Places, Ages, Followed, CleanPid
<1>7. pc["gpu"] \in {"enter", "model"} =>
        /\ snap[Now].serial \in Nat /\ token[Now] \in Nat /\ serial \in Nat
        /\ snap[Now].serial <= token[Now] /\ token[Now] <= serial
  BY <1>5, Domains DEF Ages, NodeTyped, Typed, HasFrame, FrameLabels, GpuLabels, Now
<1>8. Passed'
  BY <1>1, <1>2, <1>4, <1>5, <1>7 DEF Passed, Tested, InModel
<1>9. Slips'
  BY <1>1, <1>2, <1>4, <1>5, <1>7 DEF Slips, Spare, StraysSlipped, Places, InModel, NodeTyped
<1>10. Remembered'
  BY <1>1, <1>2, <1>4, <1>5, <1>7 DEF Remembered, Places, InModel
<1> QED BY <1>3, <1>6, <1>8, <1>9, <1>10

\* What a slip allows for covers one frame more.
LEMMA OneMore ==
  ASSUME NodeTyped, NEW f \in Frames, Spare
  PROVE  Cardinality(late \cup strays \cup {f}) <= slipped
<1>1. IsFiniteSet(Frames)
  BY FS_Interval, DispatchAssumption DEF DispatchAssumption, Frames
<1>2. IsFiniteSet(late \cup strays) /\ IsFiniteSet(late \cup strays \cup {f})
  BY <1>1, FS_Subset DEF NodeTyped
<1>3. Cardinality(late \cup strays) \in Nat /\ Cardinality(late \cup strays \cup {f}) \in Nat
  BY <1>2, FS_CardinalityType
<1>4. \/ Cardinality(late \cup strays \cup {f}) = Cardinality(late \cup strays)
      \/ Cardinality(late \cup strays \cup {f}) = Cardinality(late \cup strays) + 1
  BY <1>2, FS_AddElement
<1>5. slipped \in Nat
  BY DEF NodeTyped
<1> QED BY <1>3, <1>4, <1>5 DEF Spare

LEMMA LastAppended ==
  ASSUME NEW S, NEW seq \in Seq(S), NEW e \in S
  PROVE  Append(seq, e) # <<>> /\ Append(seq, e)[Len(Append(seq, e))] = e
  OBVIOUS

LEMMA EnterKeeps ==
  ASSUME Typed, OneOwner, NodeTyped, RoutesKept, EnterModel
  PROVE  NodeTyped' /\ Places' /\ Ages' /\ Passed' /\ Slips' /\ Remembered' /\ Followed'
<1>1. /\ gate = "read" /\ gate' = "closed" /\ testFlag' = TRUE
      /\ pc["gpu"] = "enter" /\ pc' = [pc EXCEPT !["gpu"] = "model"]
      /\ late' = IF snap[Now].serial = serial THEN late ELSE late \cup {Now}
      /\ UNCHANGED <<frame, prepJob, taken, modelLog>>
      /\ UNCHANGED <<serial, pending, snap, token, resetting, read, plan, tracked, fed, strays, slipped>>
  BY DEF EnterModel, ForwardProceed, Goto, Now, mainVars, jobVars, logVars, inputVars, batchVars
<1>2. Now \in Frames
  BY <1>1, Domains DEF Typed, HasFrame, FrameLabels, GpuLabels, Now
<1>3. pc'["gpu"] = "model" /\ pc'["prep"] = pc["prep"]
  BY <1>1 DEF Typed, TypeOK, TypeThreads, Threads
<1>4. NodeTyped'
  <2>1. late' \subseteq Frames
    BY <1>1, <1>2 DEF NodeTyped
  <2> QED BY <1>1, <2>1 DEF NodeTyped
<1>5. Now' = Now /\ Last' = Last /\ InModel' /\ Newest' = Now /\ Tested /\ Tested'
  BY <1>1, <1>3 DEF Now, Last, InModel, Newest, Tested
<1>6. Places /\ Ages /\ Passed /\ Slips /\ Remembered /\ Followed
  BY DEF RoutesKept
<1>7. Places'
  BY <1>1, <1>3, <1>6 DEF Places
<1>8. Ages'
  BY <1>1, <1>3, <1>5, <1>6 DEF Ages
<1>9. Passed'
  BY <1>1, <1>5, <1>6 DEF Passed
<1>10. Slips'
  <2>1. snap[Now].serial \in Nat /\ serial \in Nat /\ read \in Nat
    BY <1>2 DEF NodeTyped
  <2>2. Now \in late' \/ snap[Now].serial = read
    BY <1>1, <1>6, <2>1 DEF Slips
  <2>3. StraysSlipped'
    <3>1. CASE late' = late
      BY <1>1, <1>6, <3>1 DEF Slips, StraysSlipped
    <3>2. CASE snap[Now].serial # serial /\ late' = late \cup {Now}
      <4>1. Spare
        BY <1>1, <1>6, <3>2 DEF Slips
      <4>2. late' \cup strays' = late \cup strays \cup {Now}
        BY <1>1, <3>2
      <4> QED BY <1>1, <1>2, <4>1, <4>2, OneMore DEF StraysSlipped
    <3> QED BY <1>1, <3>1, <3>2
  <2> QED BY <1>1, <1>5, <1>6, <2>2, <2>3 DEF Slips
<1>11. Remembered'
  <2>1. Now \in late' \/ snap[Now].serial = serial
    BY <1>1
  <2>2. snap[Now].serial = serial => resetting = "none"
    BY <1>5, <1>6 DEF Passed, Places
  <2> QED BY <1>1, <1>5, <2>1, <2>2 DEF Remembered
<1>12. Followed'
  BY <1>1, <1>6 DEF Followed, CleanPid
<1> QED BY <1>4, <1>7, <1>8, <1>9, <1>10, <1>11, <1>12

\* However the model ends, the frame is the last it was given.
LEMMA ModelEnds ==
  ASSUME Typed, OneOwner, NodeTyped, RoutesKept, ForwardDone \/ ForwardRaises
  PROVE  /\ pc["gpu"] = "model" /\ Now \in Frames /\ Now <= taken
         /\ pc'["gpu"] \in {"tryAcquire", "idle"} /\ pc'["prep"] = pc["prep"]
         /\ UNCHANGED <<frame, prepJob, taken>>
         /\ modelLog' # <<>> /\ Last' = Now /\ Now' = Now
<1>1. /\ pc["gpu"] = "model" /\ modelLog' = Append(modelLog, Now)
      /\ pc' = [pc EXCEPT !["gpu"] = "tryAcquire"] \/ pc' = [pc EXCEPT !["gpu"] = "idle"]
      /\ UNCHANGED <<frame, prepJob, taken>>
  BY DEF ForwardDone, ForwardRaises, Resolve, EndJob, Goto, Now, mainVars
<1>2. Now \in Frames /\ Now <= taken
  BY <1>1, TakenBefore DEF GpuLabels
<1>3. modelLog' # <<>> /\ modelLog'[Len(modelLog')] = Now
  BY <1>1, <1>2, LastAppended DEF Typed, TypeOK, TypeQueues
<1>4. pc'["gpu"] \in {"tryAcquire", "idle"} /\ pc'["prep"] = pc["prep"]
  BY <1>1 DEF Typed, TypeOK, TypeThreads, Threads
<1> QED BY <1>1, <1>2, <1>3, <1>4 DEF Last, Now

LEMMA EndKeeps ==
  ASSUME Typed, OneOwner, NodeTyped, RoutesKept, ModelRaises \/ PlanDiscarded
  PROVE  NodeTyped' /\ Places' /\ Ages' /\ Passed' /\ Slips' /\ Remembered' /\ Followed'
<1>1. /\ gate = "closed"
      /\ UNCHANGED <<serial, pending, snap, token, resetting, gate, read, testFlag,
                     plan, tracked, fed, late, strays, slipped>>
  BY DEF ModelRaises, PlanDiscarded, inputVars, batchVars, gateVars, driveVars, slipVars
<1>2. /\ pc["gpu"] = "model" /\ pc'["gpu"] \in {"tryAcquire", "idle"} /\ pc'["prep"] = pc["prep"]
      /\ UNCHANGED <<frame, prepJob, taken>>
      /\ modelLog' # <<>> /\ Last' = Now /\ Now' = Now
  BY ModelEnds DEF ModelRaises, PlanDiscarded
<1>3. Places /\ Ages /\ Passed /\ Slips /\ Remembered /\ Followed
  BY DEF RoutesKept
<1>4. ~InModel' /\ ~Tested' /\ Newest' = Newest /\ InModel
  BY <1>1, <1>2 DEF InModel, Tested, Newest
<1>5. NodeTyped'
  BY <1>1 DEF NodeTyped
<1>6. Places' /\ Ages'
  BY <1>1, <1>2, <1>3 DEF Places, Ages, NodeTyped
<1>7. Passed' /\ Slips'
  BY <1>1, <1>2, <1>3, <1>4 DEF Passed, Slips, Spare, StraysSlipped
<1>8. Remembered' /\ Followed'
  BY <1>1, <1>2, <1>3, <1>4 DEF Remembered, Followed, CleanPid
<1> QED BY <1>5, <1>6, <1>7, <1>8

LEMMA StoreKeeps ==
  ASSUME Typed, OneOwner, NodeTyped, RoutesKept, StorePlan
  PROVE  NodeTyped' /\ Places' /\ Ages' /\ Passed' /\ Slips' /\ Remembered' /\ Followed'
<1>1. /\ gate = "accepted" /\ gate' = "closed" /\ plan' = Now
      /\ strays' = IF snap[Now].serial = serial THEN strays ELSE strays \cup {Now}
      /\ UNCHANGED <<serial, pending, snap, token, resetting, read, testFlag,
                     tracked, fed, late, slipped>>
  BY DEF StorePlan, Now, inputVars, batchVars
<1>2. /\ pc["gpu"] = "model" /\ pc'["gpu"] \in {"tryAcquire", "idle"} /\ pc'["prep"] = pc["prep"]
      /\ UNCHANGED <<frame, prepJob, taken>>
      /\ modelLog' # <<>> /\ Last' = Now /\ Now' = Now /\ Now \in Frames /\ Now <= taken
  BY ModelEnds DEF StorePlan
<1>3. Places /\ Ages /\ Passed /\ Slips /\ Remembered /\ Followed
  BY DEF RoutesKept
<1>4. ~InModel' /\ ~Tested' /\ Newest' = Newest /\ InModel /\ Tested
  BY <1>1, <1>2 DEF InModel, Tested, Newest
<1>5. NodeTyped'
  <2>1. strays' \subseteq Frames /\ plan' \in Frames \cup {NoPlan}
    BY <1>1, <1>2 DEF NodeTyped
  <2> QED BY <1>1, <2>1 DEF NodeTyped
<1>6. Places' /\ Ages'
  BY <1>1, <1>2, <1>3 DEF Places, Ages, NodeTyped
<1>7. Passed'
  BY <1>4 DEF Passed
<1>8. Slips'
  <2>1. StraysSlipped'
    <3>1. CASE late' \cup strays' = late \cup strays
      BY <1>1, <1>3, <3>1 DEF Slips, StraysSlipped
    <3>2. CASE Spare /\ late' \cup strays' = late \cup strays \cup {Now}
      BY <1>1, <1>2, <3>2, OneMore DEF StraysSlipped
    <3> QED BY <1>1, <1>3, <3>1, <3>2 DEF Slips
  <2> QED BY <1>1, <1>3, <1>4, <2>1 DEF Slips
<1>9. Remembered'
  BY <1>1, <1>2, <1>3, <1>4 DEF Remembered
<1>10. Followed'
  <2>1. ASSUME strays' = {}
        PROVE  strays = {} /\ snap[Now].serial = serial /\ ~pending
    BY <1>1, <1>3, <1>4, <2>1 DEF Passed
  <2>2. \A f \in fed \cup {Now, tracked} : f <= taken
    BY <1>2, <1>3 DEF Followed
  <2> QED BY <1>1, <1>2, <1>3, <2>1, <2>2 DEF Followed, CleanPid, Places
<1> QED BY <1>5, <1>6, <1>7, <1>8, <1>9, <1>10

\* There is one way into the model.
LEMMA OneEntrance ==
  ASSUME Typed, OneOwner, NodeTyped, RoutesKept, [MDNext]_mdAll,
         pc["gpu"] = "enter", pc'["gpu"] = "model"
  PROVE  EnterModel
<1>1. pc' # pc
  OBVIOUS
<1>2. CASE \/ FrontArrives \/ RestArrives \/ TimerWaits \/ TimerElsewhere \/ Discard
           \/ WorkerElsewhere("gpu") \/ WorkerElsewhere("prep")
           \/ (GpuTake \/ PrepTake) /\ UNCHANGED mdVars
           \/ UNCHANGED mdAll
  <2>1. Bystander
    BY <1>2, Bystanders DEF RoutesKept
  <2> QED BY <2>1 DEF Bystander, GpuGoesOn, GpuLabels, BuildLabels
<1>3. CASE TimerSnapshot \/ PrepSnapshot
  <2>1. pc'["gpu"] = pc["gpu"]
    BY <1>3 DEF TimerSnapshot, PrepSnapshot, TimerTake, MaybePipelinePrep, TakeSnapshot, NoSnapshot,
       Typed, TypeOK, TypeThreads, Threads, Goto
  <2> QED BY <2>1
<1>4. CASE RouteCallback \/ ControlRead \/ ControlCompute \/ ResetContext("gpu")
           \/ ResetContext("prep") \/ Pass \/ ReadSerial \/ PlanAccepted
  BY <1>1, <1>4 DEF RouteCallback, ControlRead, ControlCompute, ResetContext, Pass, ReadSerial,
     PlanAccepted, vars
<1>5. CASE \E t \in {"gpu", "prep"} : Build(t) \/ Built(t)
  <2>1. pc'["gpu"] = "enter"
    BY <1>5, Domains DEF Build, BuildBatch, Built, PrepareDone, Resolve, EndJob, Goto, Typed,
                         TypeOK, TypeThreads
  <2> QED BY <2>1
<1>6. CASE ModelRaises \/ PlanDiscarded \/ StorePlan
  BY <1>6 DEF ModelRaises, PlanDiscarded, StorePlan, ForwardDone, ForwardRaises
<1> QED
  BY <1>2, <1>3, <1>4, <1>5, <1>6 DEF MDNext, TimerThread, GpuThread, PrepThread

-----------------------------------------------------------------------------
(* The theorems                                                            *)

RoutesInductive == Typed /\ OneOwner /\ NodeTyped /\ RoutesKept

LEMMA InitRoutes == MDInit => RoutesInductive
<1> SUFFICES ASSUME MDInit PROVE RoutesInductive
  OBVIOUS
<1>1. Typed /\ OneOwner
  BY InitTyped, InitOneOwner DEF MDInit
<1>2. NodeTyped
  <2>1. snap \in [Frames -> [serial : Nat, inputs : Int]] /\ token \in [Frames -> Nat]
    BY DEF MDInit
  <2> QED BY <2>1 DEF MDInit, NodeTyped
<1>3. Handed /\ Places /\ Ages /\ Remembered
  <2>1. \A t \in Threads : pc[t] = "idle"
    BY DEF MDInit, Init
  <2>2. \A f \in Frames : gpuJob[f] = "none" /\ prepJob[f] = "none"
    BY DEF MDInit, Init
  <2>3. pc["gpu"] = "idle" /\ pc["prep"] = "idle"
    BY <2>1 DEF Threads
  <2> QED BY <2>1, <2>2, <2>3 DEF MDInit, Handed, Places, Ages, Remembered, Now
<1>4. ~InModel
  BY DEF MDInit, Init, Threads, InModel
<1>5. Passed /\ Slips
  BY <1>4, FS_EmptySet DEF MDInit, Passed, Tested, Slips, StraysSlipped
<1>6. Followed
  BY DEF MDInit, Init, Followed, CleanPid, NoPlan, None
<1> QED BY <1>1, <1>2, <1>3, <1>5, <1>6 DEF RoutesInductive, RoutesKept

LEMMA NextRoutes == RoutesInductive /\ [MDNext]_mdAll => RoutesInductive'
<1> SUFFICES ASSUME Typed, OneOwner, NodeTyped, RoutesKept, [MDNext]_mdAll
             PROVE  RoutesInductive'
  BY DEF RoutesInductive
<1>1. Typed' /\ OneOwner' /\ Handed'
  BY NodeKeepsOwner, NextHanded DEF RoutesKept
<1> DEFINE Keeps == NodeTyped' /\ Places' /\ Ages' /\ Passed' /\ Slips' /\ Remembered' /\ Followed'
<1> SUFFICES Keeps
  BY <1>1 DEF RoutesInductive, RoutesKept
<1>2. CASE \/ FrontArrives \/ RestArrives \/ TimerWaits \/ TimerElsewhere \/ Discard
           \/ WorkerElsewhere("gpu") \/ WorkerElsewhere("prep")
           \/ (GpuTake \/ PrepTake) /\ UNCHANGED mdVars
           \/ UNCHANGED mdAll
  <2>1. Bystander
    BY <1>2, Bystanders DEF RoutesKept
  <2>2. NodeTyped'
    BY <2>1 DEF Bystander, RouteKept, NodeTyped
  <2> QED BY <2>1, <2>2, BystanderKeeps
<1>3. CASE TimerSnapshot \/ PrepSnapshot
  BY <1>3, SnapshotKeeps
<1>4. CASE RouteCallback
  BY <1>4, RouteKeeps
<1>5. CASE ControlRead \/ ControlCompute
  BY <1>5, ControlKeeps
<1>6. CASE ResetContext("gpu") \/ ResetContext("prep")
  BY <1>6, ResetKeeps
<1>7. CASE \E t \in {"gpu", "prep"} : Build(t) \/ Built(t)
  BY <1>7, BuildKeeps, BuiltKeeps
<1>8. CASE Pass \/ ReadSerial \/ PlanAccepted
  BY <1>8, GateKeeps
<1>9. CASE EnterModel
  BY <1>9, EnterKeeps
<1>10. CASE ModelRaises \/ PlanDiscarded
  BY <1>10, EndKeeps
<1>11. CASE StorePlan
  BY <1>11, StoreKeeps
<1> QED
  BY <1>2, <1>3, <1>4, <1>5, <1>6, <1>7, <1>8, <1>9, <1>10, <1>11
  DEF MDNext, TimerThread, GpuThread, PrepThread

LEMMA RoutesInvariant == MDSpec => []RoutesInductive
  BY InitRoutes, NextRoutes, PTL DEF MDSpec

\* Whatever arrives between snapshot, preparation and forward, and whichever
\* worker prepares, the model is given images and odometry, a route and a scene
\* token of one route.
THEOREM OneRoutePerFrame == MDSpec => []FrameOfOneRoute
<1>1. RoutesInductive => FrameOfOneRoute
  <2> SUFFICES ASSUME RoutesInductive, InModel
               PROVE  token[Now] = snap[Now].serial /\ snap[Now].inputs = snap[Now].serial
    BY DEF FrameOfOneRoute, Now
  <2>1. Now \in Frames
    BY Domains DEF RoutesInductive, Typed, HasFrame, FrameLabels, GpuLabels, InModel, Now
  <2> QED BY <2>1 DEF RoutesInductive, RoutesKept, Ages, Passed, Tested
<1> QED BY <1>1, RoutesInvariant, PTL

\* A frame outlives its route, in the model or as the plan that is followed,
\* only if the route ended between a test of the serial and what relies on it.
THEOREM SlipsAreCounted == MDSpec => []StraysSlipped
<1>1. RoutesInductive => StraysSlipped
  BY DEF RoutesInductive, RoutesKept, Slips
<1> QED BY <1>1, RoutesInvariant, PTL

\* But for such plans, after a reset the controller has followed no plan of an
\* ended route.
THEOREM ControllerOfThisRoute == MDSpec => []CleanPid
<1>1. RoutesInductive => CleanPid
  BY DEF RoutesInductive, RoutesKept, Followed, CleanPid
<1> QED BY <1>1, RoutesInvariant, PTL

\* The heads meet the first frame of a route with their memory cleared, unless
\* a late frame entered the model after the reset.
THEOREM MemoryOfThisRoute == MDSpec => FirstFramePath
<1> DEFINE Entered == pc["gpu"] = "enter" /\ pc'["gpu"] = "model"
                        => \/ ~testFlag \/ snap[frame["gpu"]].serial = LastModelled
                           \/ modelLog # <<>> /\ Last \in late
<1>1. RoutesInductive /\ [MDNext]_mdAll => [Entered]_mdAll
  <2> SUFFICES ASSUME RoutesInductive, [MDNext]_mdAll, pc["gpu"] = "enter", pc'["gpu"] = "model",
                      testFlag
               PROVE  \/ snap[Now].serial = LastModelled
                      \/ modelLog # <<>> /\ Last \in late
    BY DEF Now
  <2>1. gate = "read"
    BY OneEntrance DEF RoutesInductive, EnterModel
  <2>2. modelLog # <<>> /\ Newest = Last
    BY <2>1 DEF RoutesInductive, RoutesKept, Remembered, InModel, Newest
  <2> QED BY <2>1, <2>2 DEF RoutesInductive, RoutesKept, Remembered, LastModelled
<1> QED BY <1>1, RoutesInvariant, PTL DEF MDSpec, FirstFramePath
=============================================================================
