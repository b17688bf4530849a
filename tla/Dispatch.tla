------------------------------ MODULE Dispatch ------------------------------
(***************************************************************************)
(* The frame dispatcher of orion_withpid_node.py (minddrive_node.py keeps  *)
(* the same one).  Three threads share it:                                 *)
(*                                                                         *)
(*   main   rclpy.spin: the sensor callbacks and the inference timer       *)
(*   gpu    the one worker of _executor: prepares and/or runs a frame      *)
(*   prep   the one worker of _prep_executor: prepares the next frame      *)
(*          while a forward is in flight                                   *)
(*                                                                         *)
(* A frame is a snapshot of the sensors, numbered in the order taken.      *)
(* Each step below is what one thread does between two points where        *)
(* another thread can see or change the shared fields.  Wall-clock         *)
(* durations are abstracted to choices.                                    *)
(***************************************************************************)
EXTENDS Integers, Sequences, FiniteSets

CONSTANTS
  MaxFrames,    \* bound: how many snapshots are taken in a behaviour
  Pipelined,    \* the pipeline_prep parameter
  PrepFails,    \* TRUE: preparing a frame may raise
  ForwardFails, \* TRUE: the forward pass may raise
  NewRoutes,    \* TRUE: a route reset may be pending when a forward is entered
  EagerJobs     \* TRUE: a job may end before its submitter has attached the
                \* done callback; FALSE: every job outlives those few bytecodes

ASSUME DispatchAssumption ==
  /\ MaxFrames \in Nat \ {0}
  /\ {Pipelined, PrepFails, ForwardFails, NewRoutes, EagerJobs} \subseteq BOOLEAN

Frames  == 1..MaxFrames
None    == 0
Threads == {"main", "gpu", "prep"}

VARIABLES
  pc,           \* where each thread is
  frame,        \* the frame in each thread's local variables
  taken,        \* number of snapshots taken so far
  fresh,        \* the front frame's stamp differs from _last_ref_stamp
  activeFuture, \* _active_future, by the frame of its job
  prepFuture,   \* _prep_future, by the frame of its job
  gpuJob,       \* state of the future of each frame's _executor job
  prepJob,      \* state of the future of each frame's _prep_executor job
  hooked,       \* <<executor, frame>> whose future holds its done callback
  gpuQueue,     \* work queue of _executor
  prepQueue,    \* work queue of _prep_executor
  dispatchLock, \* holder of _dispatch_lock
  prepLock,     \* holder of _prep_lock
  measured,     \* _fwd_ms_avg is not None, and long enough to pipeline
  expected,     \* _fwd_expected_end is not None
  buildLog,     \* history: frames in the order _build_batch numbered them
  modelLog      \* history: frames in the order the model was given them

mainVars  == <<taken, fresh>>
slotVars  == <<activeFuture, prepFuture>>
jobVars   == <<gpuJob, prepJob, hooked, gpuQueue, prepQueue>>
lockVars  == <<dispatchLock, prepLock>>
paceVars  == <<measured, expected>>
logVars   == <<buildLog, modelLog>>
vars == <<pc, frame, mainVars, slotVars, jobVars, lockVars, paceVars, logVars>>

JobStates == {"none", "pending", "running", "done", "failed"}
Done(s)   == s \in {"done", "failed"}      \* Future.done()

MainLabels == {"idle", "checkPrep", "takeRun", "submitRun", "maybePrep",
               "submitPrep", "assignPrep", "hookPrep", "crashed"}
TryLabels  == {"tryAcquire", "tryCheck", "tryClear", "trySubmit",
               "setActive", "hookGpu", "tryRelease"}
BuildLabels == {"buildWait", "build"}
GpuLabels  == BuildLabels \cup {"enter", "rebuildWait", "rebuild", "model"}

Goto(t, label) == pc' = [pc EXCEPT ![t] = label]

Init ==
  /\ pc = [t \in Threads |-> "idle"]
  /\ frame = [t \in Threads |-> None]
  /\ taken = 0 /\ fresh = FALSE
  /\ activeFuture = None /\ prepFuture = None
  /\ gpuJob  = [f \in Frames |-> "none"]
  /\ prepJob = [f \in Frames |-> "none"]
  /\ hooked = {}
  /\ gpuQueue = <<>> /\ prepQueue = <<>>
  /\ dispatchLock = "free" /\ prepLock = "free"
  /\ measured = FALSE /\ expected = FALSE
  /\ buildLog = <<>> /\ modelLog = <<>>

-----------------------------------------------------------------------------
(* main: sensor callbacks and the inference timer                          *)

\* A subscription callback stores a front frame with a new stamp.
CameraFrame ==
  /\ pc["main"] = "idle"
  /\ ~fresh
  /\ fresh' = TRUE
  /\ UNCHANGED <<pc, frame, taken, slotVars, jobVars, lockVars, paceVars, logVars>>

ForwardInFlight == activeFuture # None /\ ~Done(gpuJob[activeFuture])

\* Mutant: the timer no longer looks at the forward in flight.
TimerCallbackUngated ==
  /\ pc["main"] = "idle"
  /\ Goto("main", "checkPrep")
  /\ UNCHANGED <<frame, mainVars, slotVars, jobVars, lockVars, paceVars, logVars>>

\* _timer_callback, first test: a forward is in flight, or not.
TimerCallback ==
  /\ pc["main"] = "idle"
  /\ Goto("main", IF ForwardInFlight THEN "maybePrep" ELSE "checkPrep")
  /\ UNCHANGED <<frame, mainVars, slotVars, jobVars, lockVars, paceVars, logVars>>

\* _timer_callback, second test: a prepared frame is waiting, or not.
TimerCheckPrep ==
  /\ pc["main"] = "checkPrep"
  /\ Goto("main", IF prepFuture # None THEN "tryAcquire" ELSE "takeRun")
  /\ UNCHANGED <<frame, mainVars, slotVars, jobVars, lockVars, paceVars, logVars>>

\* _take_snapshot hands out the latest of each input once per front frame.
\* The other gates (cameras missing, no odometry) only ever delay the first.
TakeSnapshot(next) ==
  /\ fresh
  /\ taken < MaxFrames
  /\ taken' = taken + 1
  /\ fresh' = FALSE
  /\ frame' = [frame EXCEPT !["main"] = taken + 1]
  /\ Goto("main", next)

NoSnapshot ==
  /\ ~fresh \/ taken = MaxFrames
  /\ Goto("main", "idle")
  /\ UNCHANGED <<frame, mainVars>>

\* Mutant: a snapshot that is None is submitted all the same.
TimerTakeUngated ==
  /\ pc["main"] = "takeRun"
  /\ \/ TakeSnapshot("submitRun")
     \/ ~fresh /\ Goto("main", "submitRun") /\ UNCHANGED <<frame, mainVars>>
  /\ UNCHANGED <<slotVars, jobVars, lockVars, paceVars, logVars>>

TimerTake ==
  /\ pc["main"] = "takeRun"
  /\ TakeSnapshot("submitRun") \/ NoSnapshot
  /\ UNCHANGED <<slotVars, jobVars, lockVars, paceVars, logVars>>

SubmitGpu(f) ==
  /\ gpuQueue' = Append(gpuQueue, f)
  /\ gpuJob' = [gpuJob EXCEPT ![f] = "pending"]
  /\ UNCHANGED <<prepJob, hooked, prepQueue>>

TimerSubmit ==
  /\ pc["main"] = "submitRun"
  /\ SubmitGpu(frame["main"])
  /\ Goto("main", "setActive")
  /\ UNCHANGED <<frame, mainVars, slotVars, lockVars, paceVars, logVars>>

\* _maybe_pipeline_prep.  The preparation window opens no earlier than one
\* preparation (some 150 ms) after the active job was submitted: the job the
\* gpu worker is in has by then got past its start.  Whether the window is open
\* is a matter of time.
WindowMayBeOpen == pc["gpu"] \in {"build", "rebuild", "model"}

\* Mutant: the test that no prepared frame is waiting is forgotten.
MaybePipelinePrepOverSlot ==
  /\ pc["main"] = "maybePrep"
  /\ \/ /\ Pipelined /\ expected /\ measured /\ WindowMayBeOpen
        /\ TakeSnapshot("submitPrep")
     \/ Goto("main", "idle") /\ UNCHANGED <<frame, mainVars>>
  /\ UNCHANGED <<slotVars, jobVars, lockVars, paceVars, logVars>>

MaybePipelinePrep ==
  /\ pc["main"] = "maybePrep"
  /\ \/ /\ Pipelined /\ prepFuture = None /\ expected /\ measured
        /\ WindowMayBeOpen
        /\ TakeSnapshot("submitPrep")
     \/ Goto("main", "idle") /\ UNCHANGED <<frame, mainVars>>
  /\ UNCHANGED <<slotVars, jobVars, lockVars, paceVars, logVars>>

SubmitPrep ==
  /\ pc["main"] = "submitPrep"
  /\ prepQueue' = Append(prepQueue, frame["main"])
  /\ prepJob' = [prepJob EXCEPT ![frame["main"]] = "pending"]
  /\ Goto("main", "assignPrep")
  /\ UNCHANGED <<frame, mainVars, slotVars, gpuJob, hooked, gpuQueue,
                 lockVars, paceVars, logVars>>

AssignPrep ==
  /\ pc["main"] = "assignPrep"
  /\ prepFuture' = frame["main"]
  /\ Goto("main", "hookPrep")
  /\ UNCHANGED <<frame, mainVars, activeFuture, jobVars, lockVars, paceVars, logVars>>

\* self._prep_future.add_done_callback(self._on_prep_done): the field is read
\* again, so it may be None by now (AttributeError ends rclpy.spin); on a
\* future that is already done the callback runs at once, in this thread.
HookPrep ==
  /\ pc["main"] = "hookPrep"
  /\ \/ /\ prepFuture = None
        /\ Goto("main", "crashed")
        /\ UNCHANGED hooked
     \/ /\ prepFuture # None /\ Done(prepJob[prepFuture])
        /\ Goto("main", "tryAcquire")
        /\ UNCHANGED hooked
     \/ /\ prepFuture # None /\ ~Done(prepJob[prepFuture])
        /\ hooked' = hooked \cup {<<"prep", prepFuture>>}
        /\ Goto("main", "idle")
  /\ UNCHANGED <<frame, mainVars, slotVars, gpuJob, prepJob, gpuQueue, prepQueue,
                 lockVars, paceVars, logVars>>

-----------------------------------------------------------------------------
(* any thread: _try_start_from_prepared and _start_forward                 *)

\* Mutant: the dispatch is not under the lock.
TryAcquireUnlocked(t) ==
  /\ pc[t] = "tryAcquire"
  /\ Goto(t, "tryCheck")
  /\ UNCHANGED <<frame, mainVars, slotVars, jobVars, lockVars, paceVars, logVars>>

\* threading.Lock is not reentrant: a holder that comes back waits forever.
TryAcquire(t) ==
  /\ pc[t] = "tryAcquire"
  /\ dispatchLock = "free"
  /\ dispatchLock' = t
  /\ Goto(t, "tryCheck")
  /\ UNCHANGED <<frame, mainVars, slotVars, jobVars, prepLock, paceVars, logVars>>

\* Mutant: the prepared future is taken whether it is done or not.
TryCheckUnfinished(t) ==
  /\ pc[t] = "tryCheck"
  /\ IF prepFuture # None /\ ~ForwardInFlight
     THEN Goto(t, "tryClear") /\ frame' = [frame EXCEPT ![t] = prepFuture]
     ELSE Goto(t, "tryRelease") /\ UNCHANGED frame
  /\ UNCHANGED <<mainVars, slotVars, jobVars, lockVars, paceVars, logVars>>

TryCheck(t) ==
  /\ pc[t] = "tryCheck"
  /\ IF prepFuture # None /\ Done(prepJob[prepFuture]) /\ ~ForwardInFlight
     THEN Goto(t, "tryClear") /\ frame' = [frame EXCEPT ![t] = prepFuture]
     ELSE Goto(t, "tryRelease") /\ UNCHANGED frame
  /\ UNCHANGED <<mainVars, slotVars, jobVars, lockVars, paceVars, logVars>>

\* Mutant: the slot still holds the frame after it was dispatched.
TryClearForgotten(t) ==
  /\ pc[t] = "tryClear"
  /\ Goto(t, IF prepJob[frame[t]] = "done" THEN "trySubmit" ELSE "tryRelease")
  /\ UNCHANGED <<frame, mainVars, slotVars, jobVars, lockVars, paceVars, logVars>>

\* A preparation that raised is logged and its frame given up.
TryClear(t) ==
  /\ pc[t] = "tryClear"
  /\ prepFuture' = None
  /\ Goto(t, IF prepJob[frame[t]] = "done" THEN "trySubmit" ELSE "tryRelease")
  /\ UNCHANGED <<frame, mainVars, activeFuture, jobVars, lockVars, paceVars, logVars>>

TrySubmit(t) ==
  /\ pc[t] = "trySubmit"
  /\ SubmitGpu(frame[t])
  /\ Goto(t, "setActive")
  /\ UNCHANGED <<frame, mainVars, slotVars, lockVars, paceVars, logVars>>

\* _start_forward, up to the assignment of _active_future.
SetActive(t) ==
  /\ pc[t] = "setActive"
  /\ activeFuture' = frame[t]
  /\ expected' = measured
  /\ Goto(t, "hookGpu")
  /\ UNCHANGED <<frame, mainVars, prepFuture, jobVars, lockVars, measured, logVars>>

\* _start_forward, future.add_done_callback(self._on_future_done): on a future
\* that is already done _on_future_done runs here, before the lock is released.
HookGpu(t) ==
  /\ pc[t] = "hookGpu"
  /\ IF Done(gpuJob[frame[t]])
     THEN Goto(t, "tryAcquire") /\ UNCHANGED hooked
     ELSE /\ hooked' = hooked \cup {<<"gpu", frame[t]>>}
          /\ Goto(t, IF dispatchLock = t THEN "tryRelease" ELSE "idle")
  /\ UNCHANGED <<frame, mainVars, slotVars, gpuJob, prepJob, gpuQueue, prepQueue,
                 lockVars, paceVars, logVars>>

TryRelease(t) ==
  /\ pc[t] = "tryRelease"
  /\ dispatchLock' = "free"
  /\ Goto(t, "idle")
  /\ UNCHANGED <<frame, mainVars, slotVars, jobVars, prepLock, paceVars, logVars>>

TryStartFromPrepared(t) ==
  \/ TryAcquire(t) \/ TryCheck(t) \/ TryClear(t) \/ TrySubmit(t) \/ TryRelease(t)

StartForward(t) == SetActive(t) \/ HookGpu(t)

-----------------------------------------------------------------------------
(* the workers                                                             *)

\* A job submitted by _timer_callback prepares its frame on the gpu worker.
Sequential(f) == prepJob[f] = "none"

GpuTake ==
  /\ pc["gpu"] = "idle"
  /\ gpuQueue # <<>>
  /\ LET f == Head(gpuQueue) IN
       /\ gpuJob' = [gpuJob EXCEPT ![f] = "running"]
       /\ frame' = [frame EXCEPT !["gpu"] = f]
       /\ Goto("gpu", IF Sequential(f) THEN "buildWait" ELSE "enter")
  /\ gpuQueue' = Tail(gpuQueue)
  /\ UNCHANGED <<mainVars, slotVars, prepJob, hooked, prepQueue, lockVars, paceVars, logVars>>

PrepTake ==
  /\ pc["prep"] = "idle"
  /\ prepQueue # <<>>
  /\ LET f == Head(prepQueue) IN
       /\ prepJob' = [prepJob EXCEPT ![f] = "running"]
       /\ frame' = [frame EXCEPT !["prep"] = f]
  /\ prepQueue' = Tail(prepQueue)
  /\ Goto("prep", "buildWait")
  /\ UNCHANGED <<mainVars, slotVars, gpuJob, hooked, gpuQueue, lockVars, paceVars, logVars>>

\* _prepare: take _prep_lock; _build_batch numbers the frame first thing.
BuildBatch(t) ==
  /\ pc[t] \in {"buildWait", "rebuildWait"}
  /\ prepLock = "free"
  /\ prepLock' = t
  /\ buildLog' = Append(buildLog, frame[t])
  /\ Goto(t, IF pc[t] = "buildWait" THEN "build" ELSE "rebuild")
  /\ UNCHANGED <<frame, mainVars, slotVars, jobVars, dispatchLock, paceVars, modelLog>>

\* The future of t's job is resolved and its done callback, if attached, runs.
EndJob(exec, t, result) ==
  LET f == frame[t] IN
  /\ IF exec = "gpu"
     THEN gpuJob' = [gpuJob EXCEPT ![f] = result] /\ UNCHANGED prepJob
     ELSE prepJob' = [prepJob EXCEPT ![f] = result] /\ UNCHANGED gpuJob
  /\ Goto(t, IF <<exec, f>> \in hooked THEN "tryAcquire" ELSE "idle")
  /\ UNCHANGED <<frame, hooked, gpuQueue, prepQueue>>

\* Most jobs last a hundred milliseconds and more.
Resolve(exec, t, result) ==
  /\ EagerJobs \/ <<exec, frame[t]>> \in hooked
  /\ EndJob(exec, t, result)

\* _prepare returns: on the prep worker its job ends; on the gpu worker
\* _forward is entered, or its model call comes next.
PrepareDone(t) ==
  /\ pc[t] \in {"build", "rebuild"}
  /\ prepLock' = "free"
  /\ IF t = "prep"
     THEN Resolve("prep", t, "done")
     ELSE /\ Goto(t, IF pc[t] = "build" THEN "enter" ELSE "model")
          /\ UNCHANGED <<frame, jobVars>>
  /\ UNCHANGED <<mainVars, slotVars, dispatchLock, paceVars, logVars>>

\* Mutant: an exception leaves _prepare without giving _prep_lock back.
PrepareFailsLocked(t) ==
  /\ PrepFails
  /\ pc[t] \in {"build", "rebuild"}
  /\ Resolve(t, t, "failed")
  /\ UNCHANGED <<mainVars, slotVars, lockVars, paceVars, logVars>>

\* _build_batch raises: the lock is released and the job's future fails.
PrepareFails(t) ==
  /\ PrepFails
  /\ pc[t] \in {"build", "rebuild"}
  /\ prepLock' = "free"
  /\ Resolve(t, t, "failed")
  /\ UNCHANGED <<mainVars, slotVars, dispatchLock, paceVars, logVars>>

\* _forward: after a new route it resets the context (_last_ref_stamp too) and
\* prepares the snapshot once more.  Whether there is one belongs to OrionRoute.
ForwardReprepare ==
  /\ NewRoutes
  /\ pc["gpu"] = "enter"
  /\ Goto("gpu", "rebuildWait")
  /\ fresh' = TRUE
  /\ UNCHANGED <<frame, taken, slotVars, jobVars, lockVars, paceVars, logVars>>

ForwardProceed ==
  /\ pc["gpu"] = "enter"
  /\ Goto("gpu", "model")
  /\ UNCHANGED <<frame, mainVars, slotVars, jobVars, lockVars, paceVars, logVars>>

\* The model call returns and _traj_state holds the frame's plan.
ForwardDone ==
  /\ pc["gpu"] = "model"
  /\ Resolve("gpu", "gpu", "done")
  /\ modelLog' = Append(modelLog, frame["gpu"])
  /\ measured' = TRUE
  /\ UNCHANGED <<mainVars, slotVars, lockVars, expected, buildLog>>

ForwardRaises ==
  /\ ForwardFails
  /\ pc["gpu"] = "model"
  /\ Resolve("gpu", "gpu", "failed")
  /\ modelLog' = Append(modelLog, frame["gpu"])
  /\ UNCHANGED <<mainVars, slotVars, lockVars, paceVars, buildLog>>

-----------------------------------------------------------------------------
MainStep ==
  \/ TimerCallback \/ TimerCheckPrep \/ TimerTake \/ TimerSubmit
  \/ MaybePipelinePrep \/ SubmitPrep \/ AssignPrep \/ HookPrep
  \/ TryStartFromPrepared("main") \/ StartForward("main")

GpuStep ==
  \/ GpuTake \/ BuildBatch("gpu") \/ PrepareDone("gpu") \/ PrepareFails("gpu")
  \/ ForwardReprepare \/ ForwardProceed \/ ForwardDone \/ ForwardRaises
  \/ TryStartFromPrepared("gpu") \/ StartForward("gpu")

PrepStep ==
  \/ PrepTake \/ BuildBatch("prep") \/ PrepareDone("prep") \/ PrepareFails("prep")
  \/ TryStartFromPrepared("prep") \/ StartForward("prep")

Next == CameraFrame \/ MainStep \/ GpuStep \/ PrepStep

Spec == Init /\ [][Next]_vars

\* The operating system runs every thread that can run, the timer is periodic
\* and a forward that was started returns or raises.  The timer holds the lock
\* for microseconds every 50 ms: a worker that waits for it gets it.
Fairness ==
  /\ WF_vars(MainStep) /\ WF_vars(GpuStep) /\ WF_vars(PrepStep)
  /\ SF_vars(TryAcquire("gpu")) /\ SF_vars(TryAcquire("prep"))
FairSpec == Spec /\ Fairness

=============================================================================
