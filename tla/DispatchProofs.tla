--------------------------- MODULE DispatchProofs ----------------------------
(***************************************************************************)
(* What holds of the dispatcher for any number of frames and any setting   *)
(* of its parameters: type correctness, that no frame is ever given to the *)
(* model twice, no prepared frame is dropped, and nothing but a job that   *)
(* ends before its callback is attached stops the node; and that Dispatch  *)
(* implements FrameServer.                                                 *)
(***************************************************************************)
EXTENDS MCDispatch, TLAPS

\* All the proofs need to know of the constants and of the names of threads.
LEMMA Domains ==
  /\ None \notin Frames
  /\ "main" \in Threads /\ "gpu" \in Threads /\ "prep" \in Threads
  /\ "free" \notin Threads
  BY DispatchAssumption DEF DispatchAssumption, Frames, None, Threads

\* Frames are numbered from 1 on in the order taken.
LEMMA Numbering ==
  /\ 0 \in 0..MaxFrames
  /\ \A n \in 0..MaxFrames : n < MaxFrames => n + 1 \in Frames /\ n + 1 \in 0..MaxFrames
  BY DispatchAssumption DEF DispatchAssumption, Frames

\* Where a thread has a frame in its local variables.
FrameLabels ==
  {"submitRun", "submitPrep", "assignPrep", "tryClear", "trySubmit", "setActive",
   "hookGpu"} \cup GpuLabels

HasFrame == \A t \in Threads : pc[t] \in FrameLabels => frame[t] \in Frames

Typed == TypeOK /\ HasFrame

LEMMA InitTyped == Init => Typed
<1> SUFFICES ASSUME Init PROVE Typed
  OBVIOUS
<1>1. TypeThreads /\ TypeJobs
  BY DEF Init, TypeThreads, TypeJobs, MainLabels, JobStates
<1>2. TypeFutures
  BY Numbering DEF Init, TypeFutures
<1>3. TypeQueues
  BY DEF Init, TypeQueues
<1>4. TypeFlags
  BY DEF Init, TypeFlags
<1>5. HasFrame
  BY DEF Init, HasFrame, FrameLabels, GpuLabels, BuildLabels
<1> QED BY <1>1, <1>2, <1>3, <1>4, <1>5 DEF Typed, TypeOK

\* A step of the dispatcher takes a well-typed state to a well-typed one.
LEMMA NextTyped ==
  ASSUME Typed, [Next]_vars
  PROVE  Typed'
<1> USE Domains
    DEF Typed, TypeOK, TypeThreads, TypeFutures, TypeJobs, TypeQueues, TypeFlags,
        HasFrame, FrameLabels, MainLabels, TryLabels, GpuLabels, BuildLabels,
        JobStates, Goto, mainVars, slotVars, jobVars, lockVars, paceVars, logVars
<1>1. CASE CameraFrame
    BY <1>1 DEF CameraFrame
<1>2. CASE TimerCallback
    BY <1>2 DEF TimerCallback
<1>3. CASE TimerCheckPrep
    BY <1>3 DEF TimerCheckPrep
<1>4. CASE TimerTake
    <2>1. taken < MaxFrames => taken + 1 \in Frames /\ taken + 1 \in 0..MaxFrames
      BY Numbering
    <2>2. TypeThreads'
      <3>1. frame' \in [Threads -> Frames \cup {None}]
        BY <1>4, <2>1 DEF TimerTake, TakeSnapshot, NoSnapshot
      <3>2. pc' \in [Threads -> MainLabels \cup TryLabels \cup GpuLabels]
        BY ZenonT(60), <1>4 DEF TimerTake, TakeSnapshot, NoSnapshot
      <3> QED BY <3>1, <3>2
    <2>3. HasFrame'
      BY <1>4, <2>1 DEF TimerTake, TakeSnapshot, NoSnapshot
    <2>4. TypeFutures' /\ TypeJobs' /\ TypeQueues' /\ TypeFlags'
      BY <1>4, <2>1 DEF TimerTake, TakeSnapshot, NoSnapshot
    <2> QED BY <2>2, <2>3, <2>4 DEF Typed, TypeOK
<1>5. CASE TimerSubmit
    BY <1>5 DEF TimerSubmit, SubmitGpu
<1>6. CASE MaybePipelinePrep
    <2>1. taken < MaxFrames => taken + 1 \in Frames /\ taken + 1 \in 0..MaxFrames
      BY Numbering
    <2>2. TypeThreads'
      <3>1. frame' \in [Threads -> Frames \cup {None}]
        BY <1>6, <2>1 DEF MaybePipelinePrep, TakeSnapshot
      <3>2. pc' \in [Threads -> MainLabels \cup TryLabels \cup GpuLabels]
        BY ZenonT(60), <1>6 DEF MaybePipelinePrep, TakeSnapshot
      <3> QED BY <3>1, <3>2
    <2>3. HasFrame'
      BY <1>6, <2>1 DEF MaybePipelinePrep, TakeSnapshot
    <2>4. TypeFutures' /\ TypeJobs' /\ TypeQueues' /\ TypeFlags'
      BY <1>6, <2>1 DEF MaybePipelinePrep, TakeSnapshot
    <2> QED BY <2>2, <2>3, <2>4 DEF Typed, TypeOK
<1>7. CASE SubmitPrep
    BY <1>7 DEF SubmitPrep
<1>8. CASE AssignPrep
    BY <1>8 DEF AssignPrep
<1>9. CASE HookPrep
    <2>1. TypeThreads'
      BY <1>9 DEF HookPrep
    <2>2. HasFrame'
      BY <1>9 DEF HookPrep
    <2>3. TypeJobs'
      BY <1>9 DEF HookPrep
    <2>4. TypeFutures' /\ TypeQueues' /\ TypeFlags'
      BY <1>9 DEF HookPrep
    <2> QED BY <2>1, <2>2, <2>3, <2>4 DEF Typed, TypeOK
<1>10. ASSUME NEW t \in Threads, TryStartFromPrepared(t)
       PROVE  Typed'
  <2>1. CASE TryAcquire(t)
      BY <2>1 DEF TryAcquire
  <2>2. CASE TryCheck(t)
      <3>1. TypeThreads'
        BY ZenonT(60), <2>2 DEF TryCheck
      <3>2. HasFrame'
        BY ZenonT(60), <2>2 DEF TryCheck
      <3>3. TypeFutures' /\ TypeJobs' /\ TypeQueues' /\ TypeFlags'
        BY <2>2 DEF TryCheck
      <3> QED BY <3>1, <3>2, <3>3 DEF Typed, TypeOK
  <2>3. CASE TryClear(t)
      BY <2>3 DEF TryClear
  <2>4. CASE TrySubmit(t)
      BY <2>4 DEF TrySubmit, SubmitGpu
  <2>5. CASE TryRelease(t)
      BY <2>5 DEF TryRelease
  <2> QED BY <1>10, <2>1, <2>2, <2>3, <2>4, <2>5 DEF TryStartFromPrepared
<1>11. ASSUME NEW t \in Threads, StartForward(t)
       PROVE  Typed'
  <2>1. CASE SetActive(t)
      BY <2>1 DEF SetActive
  <2>2. CASE HookGpu(t)
      <3>1. TypeThreads'
        BY <2>2 DEF HookGpu
      <3>2. HasFrame'
        BY <2>2 DEF HookGpu
      <3>3. TypeJobs'
        BY <2>2 DEF HookGpu
      <3>4. TypeFutures' /\ TypeQueues' /\ TypeFlags'
        BY <2>2 DEF HookGpu
      <3> QED BY <3>1, <3>2, <3>3, <3>4 DEF Typed, TypeOK
  <2> QED BY <1>11, <2>1, <2>2 DEF StartForward
<1>12. CASE GpuTake
    BY <1>12 DEF GpuTake
<1>13. CASE PrepTake
    BY <1>13 DEF PrepTake
<1>14. ASSUME NEW t \in {"gpu", "prep"}, BuildBatch(t)
       PROVE  Typed'
    BY <1>14 DEF BuildBatch
<1>15. ASSUME NEW t \in {"gpu", "prep"}, PrepareDone(t)
       PROVE  Typed'
    <2>1. TypeThreads'
      BY <1>15 DEF PrepareDone, Resolve, EndJob
    <2>2. HasFrame'
      BY <1>15 DEF PrepareDone, Resolve, EndJob
    <2>3. TypeJobs'
      BY <1>15 DEF PrepareDone, Resolve, EndJob
    <2>4. TypeFutures' /\ TypeQueues' /\ TypeFlags'
      BY <1>15 DEF PrepareDone, Resolve, EndJob
    <2> QED BY <2>1, <2>2, <2>3, <2>4 DEF Typed, TypeOK
<1>16. ASSUME NEW t \in {"gpu", "prep"}, PrepareFails(t)
       PROVE  Typed'
    BY <1>16 DEF PrepareFails, Resolve, EndJob
<1>17. CASE ForwardReprepare
    BY <1>17 DEF ForwardReprepare
<1>18. CASE ForwardProceed
    BY <1>18 DEF ForwardProceed
<1>19. CASE ForwardDone
    <2>1. TypeThreads'
      BY <1>19 DEF ForwardDone, Resolve, EndJob
    <2>2. HasFrame'
      BY <1>19 DEF ForwardDone, Resolve, EndJob
    <2>3. TypeJobs'
      BY <1>19 DEF ForwardDone, Resolve, EndJob
    <2>4. TypeQueues'
      BY <1>19 DEF ForwardDone, Resolve, EndJob
    <2>5. TypeFutures' /\ TypeFlags'
      BY <1>19 DEF ForwardDone, Resolve, EndJob
    <2> QED BY <2>1, <2>2, <2>3, <2>4, <2>5 DEF Typed, TypeOK
<1>20. CASE ForwardRaises
    <2>1. TypeThreads'
      BY <1>20 DEF ForwardRaises, Resolve, EndJob
    <2>2. HasFrame'
      BY <1>20 DEF ForwardRaises, Resolve, EndJob
    <2>3. TypeJobs'
      BY <1>20 DEF ForwardRaises, Resolve, EndJob
    <2>4. TypeQueues'
      BY <1>20 DEF ForwardRaises, Resolve, EndJob
    <2>5. TypeFutures' /\ TypeFlags'
      BY <1>20 DEF ForwardRaises, Resolve, EndJob
    <2> QED BY <2>1, <2>2, <2>3, <2>4, <2>5 DEF Typed, TypeOK
<1>21. CASE UNCHANGED vars
  BY <1>21 DEF vars
<1> QED
  BY <1>1, <1>2, <1>3, <1>4, <1>5, <1>6, <1>7, <1>8, <1>9, <1>10, <1>11,
     <1>12, <1>13, <1>14, <1>15, <1>16, <1>17, <1>18, <1>19, <1>20, <1>21
     DEF Next, MainStep, GpuStep, PrepStep

\* Every field of the node always holds a value the code can put there.
THEOREM TypeCorrect == Spec => []TypeOK
  BY InitTyped, NextTyped, PTL DEF Spec, Typed

-----------------------------------------------------------------------------
(* Ownership of frames                                                     *)

LEMMA AppendElement ==
  ASSUME NEW S, NEW seq \in Seq(S), NEW e \in S
  PROVE  \A i \in DOMAIN Append(seq, e) :
           (i \in DOMAIN seq /\ Append(seq, e)[i] = seq[i]) \/ Append(seq, e)[i] = e
  OBVIOUS

LEMMA AppendNew ==
  ASSUME NEW S, NEW seq \in Seq(S), NEW e \in S,
         \A i \in DOMAIN seq : seq[i] # e,
         \A i, j \in DOMAIN seq : i # j => seq[i] # seq[j]
  PROVE  \A i, j \in DOMAIN Append(seq, e) :
           i # j => Append(seq, e)[i] # Append(seq, e)[j]
  OBVIOUS

LEMMA LogDiffers ==
  ASSUME Typed, LoggedEnded, gpuJob[frame["gpu"]] = "running"
  PROVE  \A i \in DOMAIN modelLog :
           modelLog[i] \in Frames /\ modelLog[i] # frame["gpu"]
  BY SMTT(30) DEF Typed, TypeOK, TypeQueues, LoggedEnded, Done

LEMMA InitOneOwner == Init => OneOwner
  BY Domains DEF Init, OneOwner, DispatchHeld, SlotOwned, HandOwned, SnapshotNew,
     WorkerOwned, Queued, LoggedEnded, ModelOnce, PreparedKept, Alone, InFlight,
     GpuLabels, BuildLabels

\* A step leaves every frame with one owner: the slot, a dispatching thread or main.
LEMMA NextOwned ==
  ASSUME Typed, Typed', OneOwner, [Next]_vars
  PROVE  DispatchHeld' /\ SlotOwned' /\ HandOwned' /\ SnapshotNew'
<1> USE Domains
    DEF DispatchHeld, SlotOwned, HandOwned, SnapshotNew, WorkerOwned, Queued, Done,
        OneOwner, Typed, TypeOK, TypeThreads, TypeFutures, TypeJobs, TypeQueues, HasFrame,
        FrameLabels, GpuLabels, BuildLabels, JobStates, Goto,
        mainVars, slotVars, jobVars, lockVars, paceVars, logVars
<1>1. CASE CameraFrame
  BY <1>1 DEF CameraFrame
<1>2. CASE TimerCallback
  BY <1>2 DEF TimerCallback, ForwardInFlight
<1>3. CASE TimerCheckPrep
  BY <1>3 DEF TimerCheckPrep
<1>4. CASE TimerTake
  <2>1. taken < MaxFrames => taken + 1 \in Frames
    BY Numbering
  <2>2. \A f \in Frames : f > taken + 1 => f > taken
    BY DEF Frames
  <2>3. taken' \in {taken, taken + 1} /\ UNCHANGED <<gpuJob, prepJob>>
    BY <1>4 DEF TimerTake, TakeSnapshot, NoSnapshot
  <2>4. DispatchHeld' /\ SlotOwned' /\ HandOwned'
    <3>1. DispatchHeld'
      BY <1>4 DEF TimerTake, TakeSnapshot, NoSnapshot
    <3>2. SlotOwned'
      BY <1>4 DEF TimerTake, TakeSnapshot, NoSnapshot
    <3>3. HandOwned'
      BY <1>4 DEF TimerTake, TakeSnapshot, NoSnapshot
    <3> QED BY <3>1, <3>2, <3>3
  <2>5. \A f \in Frames : f > taken' => gpuJob'[f] = "none" /\ prepJob'[f] = "none"
    BY <2>2, <2>3
  <2>6. SnapshotNew'
    <3>1. CASE frame' = frame /\ taken' = taken
      BY <1>4, <3>1 DEF TimerTake, TakeSnapshot, NoSnapshot
    <3>2. CASE taken' = taken + 1 /\ taken < MaxFrames
      <4>1. taken' \in Frames /\ taken' > taken
        BY <2>1, <3>2
      <4>2. gpuJob'[taken'] = "none" /\ prepJob'[taken'] = "none"
        BY <2>3, <4>1
      <4> QED BY <1>4, <2>5, <3>2, <4>2 DEF TimerTake, TakeSnapshot, NoSnapshot
    <3> QED BY <1>4, <3>1, <3>2 DEF TimerTake, TakeSnapshot, NoSnapshot
  <2> QED BY <2>4, <2>6
<1>5. CASE TimerSubmit
  BY <1>5 DEF TimerSubmit, SubmitGpu
<1>6. CASE MaybePipelinePrep
  <2>1. taken < MaxFrames => taken + 1 \in Frames
    BY Numbering
  <2>2. \A f \in Frames : f > taken + 1 => f > taken
    BY DEF Frames
  <2>3. taken' \in {taken, taken + 1} /\ UNCHANGED <<gpuJob, prepJob>>
    BY <1>6 DEF MaybePipelinePrep, TakeSnapshot
  <2>4. DispatchHeld' /\ SlotOwned' /\ HandOwned'
    <3>1. DispatchHeld'
      BY <1>6 DEF MaybePipelinePrep, TakeSnapshot
    <3>2. SlotOwned'
      BY <1>6 DEF MaybePipelinePrep, TakeSnapshot
    <3>3. HandOwned'
      BY <1>6 DEF MaybePipelinePrep, TakeSnapshot
    <3> QED BY <3>1, <3>2, <3>3
  <2>5. \A f \in Frames : f > taken' => gpuJob'[f] = "none" /\ prepJob'[f] = "none"
    BY <2>2, <2>3
  <2>6. SnapshotNew'
    <3>1. CASE frame' = frame /\ taken' = taken
      BY <1>6, <3>1 DEF MaybePipelinePrep, TakeSnapshot
    <3>2. CASE taken' = taken + 1 /\ taken < MaxFrames
      <4>1. taken' \in Frames /\ taken' > taken
        BY <2>1, <3>2
      <4>2. gpuJob'[taken'] = "none" /\ prepJob'[taken'] = "none"
        BY <2>3, <4>1
      <4> QED BY <1>6, <2>5, <3>2, <4>2 DEF MaybePipelinePrep, TakeSnapshot
    <3> QED BY <1>6, <3>1, <3>2 DEF MaybePipelinePrep, TakeSnapshot
  <2> QED BY <2>4, <2>6
<1>7. CASE SubmitPrep
  BY <1>7 DEF SubmitPrep
<1>8. CASE AssignPrep
  BY <1>8 DEF AssignPrep
<1>9. CASE HookPrep
  BY <1>9 DEF HookPrep
<1>10. ASSUME NEW t \in Threads, TryStartFromPrepared(t)
       PROVE  DispatchHeld' /\ SlotOwned' /\ HandOwned' /\ SnapshotNew'
  <2>1. CASE TryAcquire(t)
    BY <2>1 DEF TryAcquire
  <2>2. CASE TryCheck(t)
    <3>1. DispatchHeld' /\ SlotOwned'
      BY <2>2 DEF TryCheck, ForwardInFlight
    <3>2. HandOwned'
      BY <2>2 DEF TryCheck, ForwardInFlight
    <3>3. SnapshotNew'
      BY <2>2 DEF TryCheck, ForwardInFlight
    <3> QED BY <3>1, <3>2, <3>3
  <2>3. CASE TryClear(t)
    BY <2>3 DEF TryClear
  <2>4. CASE TrySubmit(t)
    BY <2>4 DEF TrySubmit, SubmitGpu
  <2>5. CASE TryRelease(t)
    BY <2>5 DEF TryRelease
  <2> QED BY <1>10, <2>1, <2>2, <2>3, <2>4, <2>5 DEF TryStartFromPrepared
<1>11. ASSUME NEW t \in Threads, StartForward(t)
       PROVE  DispatchHeld' /\ SlotOwned' /\ HandOwned' /\ SnapshotNew'
  <2>1. CASE SetActive(t)
    BY <2>1 DEF SetActive
  <2>2. CASE HookGpu(t)
    BY <2>2 DEF HookGpu
  <2> QED BY <1>11, <2>1, <2>2 DEF StartForward
<1>12. CASE GpuTake
  BY <1>12 DEF GpuTake, Sequential
<1>13. CASE PrepTake
  BY <1>13 DEF PrepTake
<1>14. ASSUME NEW t \in {"gpu", "prep"}, BuildBatch(t)
       PROVE  DispatchHeld' /\ SlotOwned' /\ HandOwned' /\ SnapshotNew'
  BY <1>14 DEF BuildBatch
<1>15. ASSUME NEW t \in {"gpu", "prep"}, PrepareDone(t)
       PROVE  DispatchHeld' /\ SlotOwned' /\ HandOwned' /\ SnapshotNew'
  BY <1>15 DEF PrepareDone, Resolve, EndJob
<1>16. ASSUME NEW t \in {"gpu", "prep"}, PrepareFails(t)
       PROVE  DispatchHeld' /\ SlotOwned' /\ HandOwned' /\ SnapshotNew'
  BY <1>16 DEF PrepareFails, Resolve, EndJob
<1>17. CASE ForwardReprepare
  BY <1>17 DEF ForwardReprepare
<1>18. CASE ForwardProceed
  BY <1>18 DEF ForwardProceed
<1>19. CASE ForwardDone
  BY <1>19 DEF ForwardDone, Resolve, EndJob
<1>20. CASE ForwardRaises
  BY <1>20 DEF ForwardRaises, Resolve, EndJob
<1>21. CASE UNCHANGED vars
  BY <1>21 DEF vars
<1> QED
  BY <1>1, <1>2, <1>3, <1>4, <1>5, <1>6, <1>7, <1>8, <1>9, <1>10, <1>11,
     <1>12, <1>13, <1>14, <1>15, <1>16, <1>17, <1>18, <1>19, <1>20, <1>21
     DEF Next, MainStep, GpuStep, PrepStep

\* A step leaves the queues, the running jobs and the model's history in accord.
LEMMA NextWorkers ==
  ASSUME Typed, Typed', OneOwner, [Next]_vars
  PROVE  WorkerOwned' /\ LoggedEnded' /\ ModelOnce'
<1> USE Domains
    DEF WorkerOwned, Queued, LoggedEnded, ModelOnce, HandOwned, SnapshotNew, Done,
        OneOwner, Typed, TypeOK, TypeThreads, TypeFutures, TypeJobs, TypeQueues, HasFrame,
        FrameLabels, GpuLabels, BuildLabels, JobStates, Goto,
        mainVars, slotVars, jobVars, lockVars, paceVars, logVars
<1>1. CASE CameraFrame
  BY <1>1 DEF CameraFrame
<1>2. CASE TimerCallback
  BY <1>2 DEF TimerCallback, ForwardInFlight
<1>3. CASE TimerCheckPrep
  BY <1>3 DEF TimerCheckPrep
<1>4. CASE TimerTake
  BY <1>4 DEF TimerTake, TakeSnapshot, NoSnapshot
<1>5. CASE TimerSubmit
  BY <1>5 DEF TimerSubmit, SubmitGpu
<1>6. CASE MaybePipelinePrep
  BY <1>6 DEF MaybePipelinePrep, TakeSnapshot
<1>7. CASE SubmitPrep
  BY <1>7 DEF SubmitPrep
<1>8. CASE AssignPrep
  BY <1>8 DEF AssignPrep
<1>9. CASE HookPrep
  BY <1>9 DEF HookPrep
<1>10. ASSUME NEW t \in Threads, TryStartFromPrepared(t)
       PROVE  WorkerOwned' /\ LoggedEnded' /\ ModelOnce'
  <2>1. CASE TryAcquire(t)
    BY <2>1 DEF TryAcquire
  <2>2. CASE TryCheck(t)
    BY <2>2 DEF TryCheck, ForwardInFlight
  <2>3. CASE TryClear(t)
    BY <2>3 DEF TryClear
  <2>4. CASE TrySubmit(t)
    BY <2>4 DEF TrySubmit, SubmitGpu
  <2>5. CASE TryRelease(t)
    BY <2>5 DEF TryRelease
  <2> QED BY <1>10, <2>1, <2>2, <2>3, <2>4, <2>5 DEF TryStartFromPrepared
<1>11. ASSUME NEW t \in Threads, StartForward(t)
       PROVE  WorkerOwned' /\ LoggedEnded' /\ ModelOnce'
  <2>1. CASE SetActive(t)
    BY <2>1 DEF SetActive
  <2>2. CASE HookGpu(t)
    BY <2>2 DEF HookGpu
  <2> QED BY <1>11, <2>1, <2>2 DEF StartForward
<1>12. CASE GpuTake
  BY <1>12 DEF GpuTake, Sequential
<1>13. CASE PrepTake
  BY <1>13 DEF PrepTake
<1>14. ASSUME NEW t \in {"gpu", "prep"}, BuildBatch(t)
       PROVE  WorkerOwned' /\ LoggedEnded' /\ ModelOnce'
  BY <1>14 DEF BuildBatch
<1>15. ASSUME NEW t \in {"gpu", "prep"}, PrepareDone(t)
       PROVE  WorkerOwned' /\ LoggedEnded' /\ ModelOnce'
  BY <1>15 DEF PrepareDone, Resolve, EndJob
<1>16. ASSUME NEW t \in {"gpu", "prep"}, PrepareFails(t)
       PROVE  WorkerOwned' /\ LoggedEnded' /\ ModelOnce'
  <2>1. CASE t = "gpu"
    BY <1>16, <2>1 DEF PrepareFails, Resolve, EndJob
  <2>2. CASE t = "prep"
    BY <1>16, <2>2 DEF PrepareFails, Resolve, EndJob
  <2> QED BY <2>1, <2>2
<1>17. CASE ForwardReprepare
  BY <1>17 DEF ForwardReprepare
<1>18. CASE ForwardProceed
  BY <1>18 DEF ForwardProceed
<1>19. CASE ForwardDone
  <2>1. /\ frame["gpu"] \in Frames /\ gpuJob[frame["gpu"]] = "running"
        /\ gpuJob' = [gpuJob EXCEPT ![frame["gpu"]] = "done"]
        /\ modelLog' = Append(modelLog, frame["gpu"])
    BY <1>19 DEF ForwardDone, Resolve, EndJob
  <2>2. \A i \in DOMAIN modelLog : modelLog[i] \in Frames /\ modelLog[i] # frame["gpu"]
    BY <2>1, LogDiffers
  <2>3. LoggedEnded'
    <3>1. \A i \in DOMAIN modelLog : Done(gpuJob'[modelLog[i]])
      BY <2>1, <2>2
    <3>2. Done(gpuJob'[frame["gpu"]])
      BY <2>1
    <3> QED BY <2>1, <3>1, <3>2, AppendElement
  <2>4. ModelOnce'
    BY <2>1, <2>2, AppendNew DEF ModelOnce
  <2>5. WorkerOwned'
    BY <1>19 DEF ForwardDone, Resolve, EndJob
  <2> QED BY <2>3, <2>4, <2>5
<1>20. CASE ForwardRaises
  <2>1. /\ frame["gpu"] \in Frames /\ gpuJob[frame["gpu"]] = "running"
        /\ gpuJob' = [gpuJob EXCEPT ![frame["gpu"]] = "failed"]
        /\ modelLog' = Append(modelLog, frame["gpu"])
    BY <1>20 DEF ForwardRaises, Resolve, EndJob
  <2>2. \A i \in DOMAIN modelLog : modelLog[i] \in Frames /\ modelLog[i] # frame["gpu"]
    BY <2>1, LogDiffers
  <2>3. LoggedEnded'
    <3>1. \A i \in DOMAIN modelLog : Done(gpuJob'[modelLog[i]])
      BY <2>1, <2>2
    <3>2. Done(gpuJob'[frame["gpu"]])
      BY <2>1
    <3> QED BY <2>1, <3>1, <3>2, AppendElement
  <2>4. ModelOnce'
    BY <2>1, <2>2, AppendNew DEF ModelOnce
  <2>5. WorkerOwned'
    BY <1>20 DEF ForwardRaises, Resolve, EndJob
  <2> QED BY <2>3, <2>4, <2>5
<1>21. CASE UNCHANGED vars
  BY <1>21 DEF vars
<1> QED
  BY <1>1, <1>2, <1>3, <1>4, <1>5, <1>6, <1>7, <1>8, <1>9, <1>10, <1>11,
     <1>12, <1>13, <1>14, <1>15, <1>16, <1>17, <1>18, <1>19, <1>20, <1>21
     DEF Next, MainStep, GpuStep, PrepStep

\* A step never drops a prepared frame.
LEMMA NextPreparedKept ==
  ASSUME Typed, Typed', OneOwner, [Next]_vars
  PROVE  PreparedKept'
<1> USE Domains
    DEF PreparedKept, WorkerOwned, Queued, SlotOwned, HandOwned, DispatchHeld, SnapshotNew, Done,
        OneOwner, Typed, TypeOK, TypeThreads, TypeFutures, TypeJobs, TypeQueues, HasFrame,
        FrameLabels, GpuLabels, BuildLabels, JobStates, Goto,
        mainVars, slotVars, jobVars, lockVars, paceVars, logVars
<1>1. CASE CameraFrame
  BY <1>1 DEF CameraFrame
<1>2. CASE TimerCallback
  BY <1>2 DEF TimerCallback, ForwardInFlight
<1>3. CASE TimerCheckPrep
  BY <1>3 DEF TimerCheckPrep
<1>4. CASE TimerTake
  BY <1>4 DEF TimerTake, TakeSnapshot, NoSnapshot
<1>5. CASE TimerSubmit
  BY <1>5 DEF TimerSubmit, SubmitGpu
<1>6. CASE MaybePipelinePrep
  BY <1>6 DEF MaybePipelinePrep, TakeSnapshot
<1>7. CASE SubmitPrep
  BY <1>7 DEF SubmitPrep
<1>8. CASE AssignPrep
  <2>1. /\ pc["main"] = "assignPrep" /\ prepFuture = None /\ prepFuture' = frame["main"]
        /\ \A t \in Threads : t # "main" => pc'[t] = pc[t]
        /\ UNCHANGED <<frame, gpuJob, prepJob>>
    BY <1>8 DEF AssignPrep
  <2>2. ASSUME NEW f \in Frames, prepJob[f] \in {"pending", "running", "done"}
        PROVE  \/ prepFuture' = f \/ gpuJob'[f] # "none"
               \/ \E t \in Threads : pc'[t] \in {"tryClear", "trySubmit"} /\ frame'[t] = f
    <3>1. prepFuture # f
      BY <2>1
    <3>2. ASSUME NEW t \in Threads, pc[t] \in {"tryClear", "trySubmit"}
          PROVE  pc'[t] = pc[t] /\ frame'[t] = frame[t]
      BY <2>1, <3>2
    <3> QED BY <2>1, <2>2, <3>1, <3>2
  <2> QED BY <2>1, <2>2
<1>9. CASE HookPrep
  BY <1>9 DEF HookPrep
<1>10. ASSUME NEW t \in Threads, TryStartFromPrepared(t)
       PROVE  PreparedKept'
  <2>1. CASE TryAcquire(t)
    BY <2>1 DEF TryAcquire
  <2>2. CASE TryCheck(t)
    BY <2>2 DEF TryCheck, ForwardInFlight
  <2>3. CASE TryClear(t)
    BY <2>3 DEF TryClear
  <2>4. CASE TrySubmit(t)
    BY <2>4 DEF TrySubmit, SubmitGpu
  <2>5. CASE TryRelease(t)
    BY <2>5 DEF TryRelease
  <2> QED BY <1>10, <2>1, <2>2, <2>3, <2>4, <2>5 DEF TryStartFromPrepared
<1>11. ASSUME NEW t \in Threads, StartForward(t)
       PROVE  PreparedKept'
  <2>1. CASE SetActive(t)
    BY <2>1 DEF SetActive
  <2>2. CASE HookGpu(t)
    BY <2>2 DEF HookGpu
  <2> QED BY <1>11, <2>1, <2>2 DEF StartForward
<1>12. CASE GpuTake
  BY <1>12 DEF GpuTake, Sequential
<1>13. CASE PrepTake
  BY <1>13 DEF PrepTake
<1>14. ASSUME NEW t \in {"gpu", "prep"}, BuildBatch(t)
       PROVE  PreparedKept'
  BY <1>14 DEF BuildBatch
<1>15. ASSUME NEW t \in {"gpu", "prep"}, PrepareDone(t)
       PROVE  PreparedKept'
  <2>1. CASE t = "gpu"
    BY <1>15, <2>1 DEF PrepareDone, Resolve, EndJob
  <2>2. CASE t = "prep"
    BY <1>15, <2>2 DEF PrepareDone, Resolve, EndJob
  <2> QED BY <2>1, <2>2
<1>16. ASSUME NEW t \in {"gpu", "prep"}, PrepareFails(t)
       PROVE  PreparedKept'
  <2>1. CASE t = "gpu"
    BY <1>16, <2>1 DEF PrepareFails, Resolve, EndJob
  <2>2. CASE t = "prep"
    BY <1>16, <2>2 DEF PrepareFails, Resolve, EndJob
  <2> QED BY <2>1, <2>2
<1>17. CASE ForwardReprepare
  BY <1>17 DEF ForwardReprepare
<1>18. CASE ForwardProceed
  BY <1>18 DEF ForwardProceed
<1>19. CASE ForwardDone
  <2>1. gpuJob[frame["gpu"]] = "running" /\ gpuJob' = [gpuJob EXCEPT ![frame["gpu"]] = "done"]
    BY <1>19 DEF ForwardDone, Resolve, EndJob
  <2>2. \A f \in Frames : gpuJob[f] # "none" => gpuJob'[f] # "none"
    BY <2>1
  <2> QED BY <1>19, <2>2 DEF ForwardDone, Resolve, EndJob
<1>20. CASE ForwardRaises
  BY SMTT(30), <1>20 DEF ForwardRaises, Resolve, EndJob
<1>21. CASE UNCHANGED vars
  BY <1>21 DEF vars
<1> QED
  BY <1>1, <1>2, <1>3, <1>4, <1>5, <1>6, <1>7, <1>8, <1>9, <1>10, <1>11,
     <1>12, <1>13, <1>14, <1>15, <1>16, <1>17, <1>18, <1>19, <1>20, <1>21
     DEF Next, MainStep, GpuStep, PrepStep

\* Without pipelining a step keeps main the only thread to dispatch.
LEMMA NextAlone ==
  ASSUME Typed, Typed', OneOwner, [Next]_vars
  PROVE  Alone'
<1> USE Domains
    DEF Alone, InFlight, ForwardInFlight, Done, WorkerOwned, Queued,
        OneOwner, Typed, TypeOK, TypeThreads, TypeFutures, TypeJobs, TypeQueues, HasFrame,
        FrameLabels, GpuLabels, BuildLabels, JobStates, Goto,
        mainVars, slotVars, jobVars, lockVars, paceVars, logVars
<1>1. CASE CameraFrame
  BY <1>1 DEF CameraFrame
<1>2. CASE TimerCallback
  BY <1>2 DEF TimerCallback
<1>3. CASE TimerCheckPrep
  BY <1>3 DEF TimerCheckPrep
<1>4. CASE TimerTake
  BY <1>4 DEF TimerTake, TakeSnapshot, NoSnapshot
<1>5. CASE TimerSubmit
  BY <1>5 DEF TimerSubmit, SubmitGpu
<1>6. CASE MaybePipelinePrep
  BY <1>6 DEF MaybePipelinePrep, TakeSnapshot
<1>7. CASE SubmitPrep
  BY <1>7 DEF SubmitPrep
<1>8. CASE AssignPrep
  BY <1>8 DEF AssignPrep
<1>9. CASE HookPrep
  BY <1>9 DEF HookPrep
<1>10. ASSUME NEW t \in Threads, TryStartFromPrepared(t)
       PROVE  Alone'
  <2>1. CASE TryAcquire(t)
    BY <2>1 DEF TryAcquire
  <2>2. CASE TryCheck(t)
    BY <2>2 DEF TryCheck
  <2>3. CASE TryClear(t)
    BY <2>3 DEF TryClear
  <2>4. CASE TrySubmit(t)
    BY <2>4 DEF TrySubmit, SubmitGpu
  <2>5. CASE TryRelease(t)
    BY <2>5 DEF TryRelease
  <2> QED BY <1>10, <2>1, <2>2, <2>3, <2>4, <2>5 DEF TryStartFromPrepared
<1>11. ASSUME NEW t \in Threads, StartForward(t)
       PROVE  Alone'
  <2>1. CASE SetActive(t)
    BY <2>1 DEF SetActive, Threads
  <2>2. CASE HookGpu(t)
    BY <2>2 DEF HookGpu
  <2> QED BY <1>11, <2>1, <2>2 DEF StartForward
<1>12. CASE GpuTake
  BY <1>12 DEF GpuTake, Sequential
<1>13. CASE PrepTake
  BY <1>13 DEF PrepTake
<1>14. ASSUME NEW t \in {"gpu", "prep"}, BuildBatch(t)
       PROVE  Alone'
  BY <1>14 DEF BuildBatch
<1>15. ASSUME NEW t \in {"gpu", "prep"}, PrepareDone(t)
       PROVE  Alone'
  BY <1>15 DEF PrepareDone, Resolve, EndJob
<1>16. ASSUME NEW t \in {"gpu", "prep"}, PrepareFails(t)
       PROVE  Alone'
  BY <1>16 DEF PrepareFails, Resolve, EndJob
<1>17. CASE ForwardReprepare
  BY <1>17 DEF ForwardReprepare
<1>18. CASE ForwardProceed
  BY <1>18 DEF ForwardProceed
<1>19. CASE ForwardDone
  BY <1>19 DEF ForwardDone, Resolve, EndJob
<1>20. CASE ForwardRaises
  BY <1>20 DEF ForwardRaises, Resolve, EndJob
<1>21. CASE UNCHANGED vars
  BY <1>21 DEF vars
<1> QED
  BY <1>1, <1>2, <1>3, <1>4, <1>5, <1>6, <1>7, <1>8, <1>9, <1>10, <1>11,
     <1>12, <1>13, <1>14, <1>15, <1>16, <1>17, <1>18, <1>19, <1>20, <1>21
     DEF Next, MainStep, GpuStep, PrepStep

LEMMA NextOneOwner ==
  ASSUME Typed, OneOwner, [Next]_vars
  PROVE  OneOwner'
  BY NextTyped, NextOwned, NextWorkers, NextPreparedKept, NextAlone DEF OneOwner

LEMMA Inductive == Spec => [](Typed /\ OneOwner)
<1>1. Init => Typed /\ OneOwner
  BY InitTyped, InitOneOwner
<1>2. Typed /\ OneOwner /\ [Next]_vars => (Typed /\ OneOwner)'
  BY NextTyped, NextOneOwner
<1> QED BY <1>1, <1>2, PTL DEF Spec

\* However the timer and the workers' callbacks race, for any number of frames
\* the model is never given the same one twice.
THEOREM NoFrameTwice == Spec => []ModelOnce
  BY Inductive, PTL DEF OneOwner

\* A batch the prep worker has finished is in the slot, in the hands of the
\* thread that dispatches it, or with the GPU: no interleaving drops it.
THEOREM NoPreparedFrameLost == Spec => []PreparedKept
  BY Inductive, PTL DEF OneOwner

-----------------------------------------------------------------------------
(* What stops the node                                                     *)

\* A thread between the submission of a forward and its add_done_callback, or
\* that has come back to the lock because that forward had ended.
Handing(t) == pc[t] \in {"setActive", "hookGpu"} \/ WaitsForItself(t)

\* Nobody else has that forward, and so nobody attaches its callback.
HandingAlone ==
  /\ \A e \in hooked : e[1] = "gpu" => gpuJob[e[2]] # "none"
  /\ \A t \in Threads : Handing(t) =>
       /\ frame[t] \in Frames /\ gpuJob[frame[t]] # "none"
       /\ <<"gpu", frame[t]>> \notin hooked
       /\ \A u \in Threads : Handing(u) /\ u # t => frame[u] # frame[t]

\* A thread has the lock only inside _try_start_from_prepared, or comes back.
Inside ==
  \A t \in Threads : dispatchLock = t =>
    \/ pc[t] \in {"tryCheck", "tryClear", "trySubmit", "setActive", "hookGpu", "tryRelease"}
    \/ pc[t] = "tryAcquire" /\ Done(gpuJob[frame[t]])

\* Nobody but main attaches the callback of the preparation main has submitted;
\* it is taken out of the slot before only if it has ended.
Unhooked ==
  /\ \A e \in hooked : e[1] = "prep" => prepJob[e[2]] # "none"
  /\ pc["main"] \in {"assignPrep", "hookPrep", "crashed"} =>
       <<"prep", frame["main"]>> \notin hooked
  /\ pc["main"] \in {"hookPrep", "crashed"} => frame["main"] \in Frames
  /\ pc["main"] = "hookPrep" => prepFuture = frame["main"] \/ Done(prepJob[frame["main"]])
  /\ pc["main"] = "crashed" => Done(prepJob[frame["main"]])

StopsWhy == HandingAlone /\ Inside /\ Unhooked

LEMMA NextStopsWhy ==
  ASSUME Typed, OneOwner, StopsWhy, [Next]_vars
  PROVE  StopsWhy'
<1> USE Domains
    DEF StopsWhy, HandingAlone, Handing, WaitsForItself, Inside, Unhooked, Done, Goto,
        Typed, TypeOK, TypeThreads, TypeFutures, TypeJobs, HasFrame, FrameLabels, GpuLabels,
        BuildLabels, JobStates, mainVars, slotVars, jobVars, lockVars, paceVars, logVars
<1>1. CASE CameraFrame \/ UNCHANGED vars
  BY <1>1 DEF CameraFrame, vars
<1>2. CASE TimerCallback \/ TimerCheckPrep
  BY <1>2 DEF TimerCallback, TimerCheckPrep
<1>3. CASE TimerTake \/ MaybePipelinePrep
  <2>1. /\ pc["main"] \in {"takeRun", "maybePrep"}
        /\ pc'["main"] \in {"idle", "submitRun", "submitPrep"}
        /\ \A t \in Threads : t # "main" => pc'[t] = pc[t] /\ frame'[t] = frame[t]
        /\ UNCHANGED <<prepFuture, gpuJob, prepJob, hooked, dispatchLock>>
    BY <1>3 DEF TimerTake, MaybePipelinePrep, TakeSnapshot, NoSnapshot
  <2> QED BY <2>1
<1>4. CASE TimerSubmit
  <2>1. frame["main"] \in Frames /\ gpuJob[frame["main"]] = "none"
    BY <1>4 DEF TimerSubmit, OneOwner, SnapshotNew
  <2> QED BY <1>4, <2>1 DEF TimerSubmit, SubmitGpu
<1>5. CASE SubmitPrep
  <2>1. frame["main"] \in Frames /\ prepJob[frame["main"]] = "none"
    BY <1>5 DEF SubmitPrep, OneOwner, SnapshotNew
  <2> QED BY <1>5, <2>1 DEF SubmitPrep
<1>6. CASE AssignPrep
  BY <1>6 DEF AssignPrep
<1>7. CASE HookPrep
  <2>1. prepFuture # None => prepFuture \in Frames /\ prepJob[prepFuture] # "none"
    BY DEF OneOwner, SlotOwned
  <2>2. /\ pc["main"] = "hookPrep" /\ frame["main"] \in Frames
        /\ UNCHANGED <<frame, prepFuture, gpuJob, prepJob, dispatchLock>>
    BY <1>7 DEF HookPrep
  <2>3. \/ prepFuture = None /\ pc' = [pc EXCEPT !["main"] = "crashed"] /\ hooked' = hooked
        \/ pc' = [pc EXCEPT !["main"] = "tryAcquire"] /\ hooked' = hooked
        \/ /\ prepFuture # None /\ pc' = [pc EXCEPT !["main"] = "idle"]
           /\ hooked' = hooked \cup {<<"prep", prepFuture>>}
    BY <1>7 DEF HookPrep
  <2>4. dispatchLock # "main"
    BY <2>2
  <2> QED BY <2>1, <2>2, <2>3, <2>4
<1>8. ASSUME NEW t \in Threads, TryStartFromPrepared(t)
      PROVE  StopsWhy'
  <2>1. CASE TryAcquire(t)
    BY <2>1 DEF TryAcquire
  <2>2. CASE TryCheck(t)
    <3>1. /\ pc[t] = "tryCheck" /\ pc'[t] \in {"tryClear", "tryRelease"}
          /\ \A u \in Threads : u # t => pc'[u] = pc[u] /\ frame'[u] = frame[u]
          /\ UNCHANGED <<prepFuture, gpuJob, prepJob, hooked, dispatchLock>>
      BY <2>2 DEF TryCheck
    <3> QED BY <3>1
  <2>3. CASE TryClear(t)
    <3>1. frame[t] = prepFuture /\ Done(prepJob[frame[t]])
      BY <2>3 DEF TryClear, OneOwner, HandOwned
    <3> QED BY <2>3, <3>1 DEF TryClear
  <2>4. CASE TrySubmit(t)
    <3>1. frame[t] \in Frames /\ gpuJob[frame[t]] = "none"
      BY <2>4 DEF TrySubmit, OneOwner, HandOwned
    <3> QED BY <2>4, <3>1 DEF TrySubmit, SubmitGpu
  <2>5. CASE TryRelease(t)
    BY <2>5 DEF TryRelease
  <2> QED BY <1>8, <2>1, <2>2, <2>3, <2>4, <2>5 DEF TryStartFromPrepared
<1>9. ASSUME NEW t \in Threads, SetActive(t)
      PROVE  StopsWhy'
  BY <1>9 DEF SetActive
<1>10. ASSUME NEW t \in Threads, HookGpu(t)
       PROVE  StopsWhy'
  <2>1. /\ pc[t] = "hookGpu" /\ frame[t] \in Frames /\ gpuJob[frame[t]] # "none"
        /\ UNCHANGED <<frame, prepFuture, gpuJob, prepJob, dispatchLock>>
    BY <1>10 DEF HookGpu
  <2>2. CASE Done(gpuJob[frame[t]])
    <3>1. pc' = [pc EXCEPT ![t] = "tryAcquire"] /\ hooked' = hooked
      BY <1>10, <2>2 DEF HookGpu
    <3> QED BY <2>1, <2>2, <3>1
  <2>3. CASE ~Done(gpuJob[frame[t]])
    <3>1. /\ hooked' = hooked \cup {<<"gpu", frame[t]>>}
          /\ pc' = [pc EXCEPT ![t] = IF dispatchLock = t THEN "tryRelease" ELSE "idle"]
      BY <1>10, <2>3 DEF HookGpu
    <3> QED BY <2>1, <3>1
  <2> QED BY <2>2, <2>3
<1>11. CASE GpuTake
  <2>1. Head(gpuQueue) \in Frames /\ gpuJob[Head(gpuQueue)] = "pending"
    BY <1>11 DEF GpuTake, OneOwner, WorkerOwned, Queued, TypeQueues
  <2> QED BY <1>11, <2>1 DEF GpuTake
<1>12. CASE PrepTake
  <2>1. Head(prepQueue) \in Frames /\ prepJob[Head(prepQueue)] = "pending"
    BY <1>12 DEF PrepTake, OneOwner, WorkerOwned, Queued, TypeQueues
  <2> QED BY <1>12, <2>1 DEF PrepTake
<1>13. CASE ForwardReprepare \/ ForwardProceed
  BY <1>13 DEF ForwardReprepare, ForwardProceed
<1>14. ASSUME NEW t \in {"gpu", "prep"}, NEW result \in {"done", "failed"}, pc[t] \in GpuLabels,
              Resolve(t, t, result), UNCHANGED <<prepFuture, dispatchLock>>
       PROVE  StopsWhy'
  <2>1. \/ t = "gpu" /\ gpuJob[frame[t]] = "running" /\ prepJob' = prepJob
           /\ gpuJob' = [gpuJob EXCEPT ![frame[t]] = result]
        \/ t = "prep" /\ prepJob[frame[t]] = "running" /\ gpuJob' = gpuJob
           /\ prepJob' = [prepJob EXCEPT ![frame[t]] = result]
    BY <1>14 DEF Resolve, EndJob, OneOwner, WorkerOwned
  <2>2. /\ frame[t] \in Frames /\ t \in Threads
        /\ pc' = [pc EXCEPT ![t] = "tryAcquire"] \/ pc' = [pc EXCEPT ![t] = "idle"]
        /\ UNCHANGED <<frame, hooked>>
    BY <1>14 DEF Resolve, EndJob
  <2>3. dispatchLock # t
    BY <1>14, <2>2
  <2>4. /\ \A f \in Frames : gpuJob[f] # "none" => gpuJob'[f] # "none"
        /\ \A f \in Frames : Done(gpuJob[f]) => Done(gpuJob'[f])
        /\ \A f \in Frames : prepJob[f] # "none" => prepJob'[f] # "none"
        /\ \A f \in Frames : Done(prepJob[f]) => Done(prepJob'[f])
    BY <2>1, <2>2
  <2>5. HandingAlone'
    BY <1>14, <2>2, <2>3, <2>4
  <2>6. Inside'
    <3>1. ASSUME NEW u \in Threads, dispatchLock = u
          PROVE  pc'[u] = pc[u] /\ frame'[u] = frame[u]
      BY <2>2, <2>3, <3>1
    <3>2. ASSUME NEW u \in Threads, dispatchLock = u, pc[u] = "tryAcquire"
          PROVE  frame[u] \in Frames /\ Done(gpuJob[frame[u]])
      BY <3>2
    <3> QED BY <1>14, <2>4, <3>1, <3>2
  <2>7. Unhooked'
    BY <1>14, <2>2, <2>4
  <2> QED BY <2>5, <2>6, <2>7
<1>15. ASSUME NEW t \in {"gpu", "prep"}, BuildBatch(t) \/ PrepareDone(t) \/ PrepareFails(t)
       PROVE  StopsWhy'
  <2>1. CASE PrepareFails(t) \/ (t = "prep" /\ PrepareDone(t))
    BY <1>14, <2>1 DEF PrepareFails, PrepareDone
  <2>2. CASE BuildBatch(t)
    BY <2>2 DEF BuildBatch
  <2>3. CASE t = "gpu" /\ PrepareDone(t)
    BY <2>3 DEF PrepareDone
  <2> QED BY <1>15, <2>1, <2>2, <2>3
<1>16. CASE ForwardDone \/ ForwardRaises
  BY <1>14, <1>16 DEF ForwardDone, ForwardRaises
<1> QED
  BY <1>1, <1>2, <1>3, <1>4, <1>5, <1>6, <1>7, <1>8, <1>9, <1>10, <1>11, <1>12, <1>13,
     <1>15, <1>16
  DEF Next, MainStep, GpuStep, PrepStep, StartForward

\* However the threads race and however short a job is, the timer raises only
\* if the preparation it has submitted ended before its callback was attached,
\* and a thread waits for its own lock only if the forward it has submitted did.
THEOREM StopsExplained == Spec => []StopsOnEarlyEnd
<1>1. Init => StopsWhy
  BY Domains DEF Init, StopsWhy, HandingAlone, Handing, WaitsForItself, Inside, Unhooked
<1>2. Typed /\ OneOwner /\ StopsWhy /\ [Next]_vars => StopsWhy'
  BY NextStopsWhy
<1>3. Typed /\ StopsWhy => StopsOnEarlyEnd
  BY DEF StopsWhy, HandingAlone, Handing, WaitsForItself, Inside, Unhooked, StopsOnEarlyEnd, EndedEarly
<1> QED BY <1>1, <1>2, <1>3, Inductive, PTL DEF Spec

-----------------------------------------------------------------------------
(* Dispatch implements FrameServer                                         *)

LEMMA Accepts ==
  ASSUME gpuJob \in [Frames -> JobStates],
         NEW f \in Frames, gpuJob[f] = "none",
         gpuJob' = [gpuJob EXCEPT ![f] = "pending"],
         ~Pipelined => InFlight = {} /\ \A g \in Ended : g < f
  PROVE  Server!Accept(f)
  BY DEF Server!Accept, InFlight, Ended, Done, JobStates

LEMMA Ends ==
  ASSUME gpuJob \in [Frames -> JobStates],
         NEW f \in Frames, gpuJob[f] = "running",
         NEW result \in {"done", "failed"},
         gpuJob' = [gpuJob EXCEPT ![f] = result]
  PROVE  Server!End(f)
  BY DEF Server!End, InFlight, Ended, Done, JobStates

LEMMA StartsRunning ==
  ASSUME gpuJob \in [Frames -> JobStates],
         NEW f \in Frames, gpuJob[f] = "pending",
         gpuJob' = [gpuJob EXCEPT ![f] = "running"]
  PROVE  UNCHANGED <<InFlight, Ended>>
  BY DEF InFlight, Ended, Done, JobStates

LEMMA Unaffected ==
  ASSUME UNCHANGED gpuJob
  PROVE  UNCHANGED <<InFlight, Ended>>
  BY DEF InFlight, Ended

LEMMA NextServes ==
  ASSUME Typed, OneOwner, [Next]_vars
  PROVE  [Server!Next]_<<InFlight, Ended>>
<1> USE DEF Typed, TypeOK, TypeThreads, TypeFutures, TypeJobs, TypeQueues, HasFrame, FrameLabels,
            GpuLabels, BuildLabels, mainVars, slotVars, jobVars, lockVars, paceVars, logVars
<1>1. CASE TimerSubmit
  <2> DEFINE f == frame["main"]
  <2>1. /\ f \in Frames /\ f = taken /\ gpuJob[f] = "none"
        /\ gpuJob' = [gpuJob EXCEPT ![f] = "pending"]
    BY <1>1, Domains DEF TimerSubmit, SubmitGpu, OneOwner, SnapshotNew
  <2>2. ~Pipelined => InFlight = {}
    BY <1>1 DEF TimerSubmit, OneOwner, Alone
  <2>3. \A g \in Ended : g < f
    <3>1. \A g \in Ended : ~(g > taken) /\ g # taken
      BY <2>1 DEF OneOwner, SnapshotNew, Ended, Done
    <3> QED BY <2>1, <3>1 DEF Ended, Frames
  <2>4. Server!Accept(f)
    BY <2>1, <2>2, <2>3, Accepts
  <2> QED BY <2>1, <2>4 DEF Server!Next
<1>2. ASSUME NEW t \in Threads, TrySubmit(t)
      PROVE  [Server!Next]_<<InFlight, Ended>>
  <2> DEFINE f == frame[t]
  <2>1. /\ f \in Frames /\ gpuJob[f] = "none"
        /\ gpuJob' = [gpuJob EXCEPT ![f] = "pending"]
    BY <1>2 DEF TrySubmit, SubmitGpu, OneOwner, HandOwned
  <2>2. Pipelined
    BY <1>2, DispatchAssumption DEF DispatchAssumption, TrySubmit, OneOwner, Alone
  <2>3. Server!Accept(f)
    BY <2>1, <2>2, Accepts
  <2> QED BY <2>1, <2>3 DEF Server!Next
<1>3. ASSUME NEW result \in {"done", "failed"}, pc["gpu"] \in GpuLabels,
             Resolve("gpu", "gpu", result)
      PROVE  [Server!Next]_<<InFlight, Ended>>
  <2> DEFINE f == frame["gpu"]
  <2>1. /\ f \in Frames /\ gpuJob[f] = "running"
        /\ gpuJob' = [gpuJob EXCEPT ![f] = result]
    BY <1>3, Domains DEF Resolve, EndJob, OneOwner, WorkerOwned
  <2>2. Server!End(f)
    BY <2>1, Ends
  <2> QED BY <2>1, <2>2 DEF Server!Next
<1>4. CASE GpuTake
  <2>1. /\ Head(gpuQueue) \in Frames /\ gpuJob[Head(gpuQueue)] = "pending"
        /\ gpuJob' = [gpuJob EXCEPT ![Head(gpuQueue)] = "running"]
    BY <1>4 DEF GpuTake, OneOwner, WorkerOwned, Queued
  <2> QED BY <2>1, StartsRunning
<1>5. CASE ForwardDone \/ ForwardRaises
  BY <1>3, <1>5 DEF ForwardDone, ForwardRaises
<1>6. CASE PrepareFails("gpu")
  BY <1>3, <1>6 DEF PrepareFails
<1>7. CASE PrepareDone("gpu") \/ PrepareDone("prep") \/ PrepareFails("prep")
  BY <1>7, Unaffected DEF PrepareDone, PrepareFails, Resolve, EndJob
<1>8. CASE CameraFrame \/ TimerCallback \/ TimerCheckPrep \/ TimerTake
  BY <1>8, Unaffected DEF CameraFrame, TimerCallback, TimerCheckPrep, TimerTake
<1>9. CASE MaybePipelinePrep \/ SubmitPrep \/ AssignPrep \/ HookPrep
  BY <1>9, Unaffected DEF MaybePipelinePrep, SubmitPrep, AssignPrep, HookPrep
<1>10. ASSUME NEW t \in Threads, TryAcquire(t) \/ TryCheck(t) \/ TryClear(t) \/ TryRelease(t)
       PROVE  [Server!Next]_<<InFlight, Ended>>
  BY <1>10, Unaffected DEF TryAcquire, TryCheck, TryClear, TryRelease
<1>11. ASSUME NEW t \in Threads, SetActive(t) \/ HookGpu(t) \/ BuildBatch(t)
       PROVE  [Server!Next]_<<InFlight, Ended>>
  BY <1>11, Unaffected DEF SetActive, HookGpu, BuildBatch
<1>12. CASE PrepTake \/ ForwardReprepare \/ ForwardProceed
  BY <1>12, Unaffected DEF PrepTake, ForwardReprepare, ForwardProceed
<1>13. CASE UNCHANGED vars
  BY <1>13, Unaffected DEF vars
<1> QED
  BY <1>1, <1>2, <1>4, <1>5, <1>6, <1>7, <1>8, <1>9, <1>10, <1>11, <1>12, <1>13, Domains
     DEF Next, MainStep, GpuStep, PrepStep, TryStartFromPrepared, StartForward

LEMMA InitServes == Init => Server!Init
  BY DEF Init, Server!Init, InFlight, Ended, Done

\* The dispatcher implements FrameServer: the GPU accepts each frame at most
\* once and finishes what it accepted; without pipelining one frame at a time,
\* each newer than all before it.
THEOREM DispatchImplementsServer == Spec => ServesFrames
<1>1. Typed /\ OneOwner /\ [Next]_vars => [Server!Next]_<<InFlight, Ended>>
  BY NextServes
<1> QED BY <1>1, InitServes, Inductive, PTL DEF Spec, ServesFrames, Server!Spec

=============================================================================
