----------------------------- MODULE MCDispatch ------------------------------
(***************************************************************************)
(* What the dispatcher must get right whatever the interleaving.  The      *)
(* constants are given by the configurations.                              *)
(***************************************************************************)
EXTENDS Dispatch

TypeThreads ==
  /\ pc \in [Threads -> MainLabels \cup TryLabels \cup GpuLabels]
  /\ frame \in [Threads -> Frames \cup {None}]

TypeFutures ==
  /\ taken \in 0..MaxFrames
  /\ activeFuture \in Frames \cup {None}
  /\ prepFuture \in Frames \cup {None}

TypeJobs ==
  /\ gpuJob \in [Frames -> JobStates]
  /\ prepJob \in [Frames -> JobStates]
  /\ hooked \in SUBSET ({"gpu", "prep"} \X Frames)

TypeQueues ==
  /\ gpuQueue \in Seq(Frames)
  /\ prepQueue \in Seq(Frames)
  /\ buildLog \in Seq(Frames)
  /\ modelLog \in Seq(Frames)

TypeFlags ==
  /\ dispatchLock \in Threads \cup {"free"}
  /\ prepLock \in Threads \cup {"free"}
  /\ fresh \in BOOLEAN
  /\ measured \in BOOLEAN
  /\ expected \in BOOLEAN

\* Every field and every local variable holds what the code can put there.
TypeOK == TypeThreads /\ TypeFutures /\ TypeJobs /\ TypeQueues /\ TypeFlags

InFlight == {f \in Frames : gpuJob[f] \in {"pending", "running"}}
Ended    == {f \in Frames : Done(gpuJob[f])}

Server == INSTANCE FrameServer
            WITH flight <- InFlight, ended <- Ended, Exclusive <- ~Pipelined

\* However the timer and the two workers' callbacks race to dispatch, the GPU
\* accepts a frame at most once and no ended frame comes back; without
\* pipelining it moreover has one frame at a time, each newer than the last.
ServesFrames == Server!Spec

\* The model is never given the same frame twice, although the timer, the
\* prep-done callback and the forward-done callback all may dispatch it.
ModelOnce == \A i, j \in DOMAIN modelLog : i # j => modelLog[i] # modelLog[j]

\* A frame given to the prep worker is never dropped, unless preparing it
\* raised: it stays in _prep_future, or in the hands of a thread that is about
\* to dispatch it, until it is on the GPU.
PreparedKept ==
  \A f \in Frames : prepJob[f] \in {"pending", "running", "done"} =>
    \/ prepFuture = f
    \/ gpuJob[f] # "none"
    \/ pc["main"] = "assignPrep" /\ frame["main"] = f
    \/ \E t \in Threads : pc[t] \in {"tryClear", "trySubmit"} /\ frame[t] = f

-----------------------------------------------------------------------------
(* Why these hold, as an inductive invariant.                              *)

\* _dispatch_lock is held by the thread inside _try_start_from_prepared.
DispatchHeld ==
  \A t \in Threads :
    pc[t] \in {"tryCheck", "tryClear", "trySubmit", "tryRelease"} => dispatchLock = t

\* The frame in _prep_future was given to the prep worker and not to the GPU;
\* the slot is empty while main is about to fill it.
SlotOwned ==
  /\ prepFuture # None => gpuJob[prepFuture] = "none" /\ prepJob[prepFuture] # "none"
  /\ pc["main"] \in {"submitPrep", "assignPrep"} => prepFuture = None

\* A thread dispatching a prepared frame has taken it out of the slot and is
\* the only one to have it.
HandOwned ==
  \A t \in Threads :
    /\ pc[t] = "tryClear" => frame[t] = prepFuture /\ Done(prepJob[frame[t]])
    /\ pc[t] = "trySubmit" =>
         /\ frame[t] # prepFuture
         /\ gpuJob[frame[t]] = "none" /\ prepJob[frame[t]] # "none"
         /\ pc["main"] = "assignPrep" => frame["main"] # frame[t]

\* A snapshot is new to both workers until the main thread submits it.
SnapshotNew ==
  /\ pc["main"] \in {"submitRun", "submitPrep"} => frame["main"] = taken
  /\ pc["main"] \in {"submitRun", "submitPrep"} =>
       gpuJob[taken] = "none" /\ prepJob[taken] = "none"
  /\ pc["main"] = "assignPrep" =>
       gpuJob[frame["main"]] = "none" /\ prepJob[frame["main"]] # "none"
  /\ \A f \in Frames : f > taken => gpuJob[f] = "none" /\ prepJob[f] = "none"

\* A queued frame is pending, the frame a worker is on is running.
Queued(queue, job) ==
  /\ \A i \in DOMAIN queue : job[queue[i]] = "pending"
  /\ \A i, j \in DOMAIN queue : i # j => queue[i] # queue[j]

WorkerOwned ==
  /\ Queued(gpuQueue, gpuJob) /\ Queued(prepQueue, prepJob)
  /\ pc["gpu"] \in GpuLabels => gpuJob[frame["gpu"]] = "running"
  /\ pc["prep"] \in GpuLabels => prepJob[frame["prep"]] = "running"

\* Whatever the model was given has ended.
LoggedEnded == \A i \in DOMAIN modelLog : Done(gpuJob[modelLog[i]])

\* Without pipelining only main dispatches, and only when nothing is in flight.
Alone ==
  ~Pipelined =>
    /\ prepFuture = None /\ prepQueue = <<>> /\ pc["prep"] = "idle"
    /\ \A f \in Frames : prepJob[f] = "none"
    /\ \A t \in Threads : pc[t] \notin {"tryClear", "trySubmit"}
    /\ pc["main"] \notin {"submitPrep", "assignPrep", "hookPrep"}
    /\ pc["gpu"] \notin {"setActive", "hookGpu"}
    /\ \A f \in InFlight :
         /\ pc["main"] \notin {"checkPrep", "takeRun", "submitRun"}
         /\ f = IF pc["main"] = "setActive" THEN frame["main"] ELSE activeFuture

\* One owner for every frame, from the snapshot to the model: together these
\* are preserved by every step and imply the properties above.
OneOwner ==
  /\ DispatchHeld /\ SlotOwned /\ HandOwned /\ SnapshotNew /\ WorkerOwned
  /\ LoggedEnded /\ ModelOnce /\ PreparedKept /\ Alone

-----------------------------------------------------------------------------
\* A job has ended before its submitter attached the done callback.
EndedEarly(exec, f) ==
  /\ <<exec, f>> \notin hooked
  /\ Done(IF exec = "gpu" THEN gpuJob[f] ELSE prepJob[f])

\* A thread waits for the lock that it holds itself.
WaitsForItself(t) == pc[t] = "tryAcquire" /\ dispatchLock = t

\* What stops the node is the end of one job in the few bytecodes between its
\* submission and add_done_callback, and nothing else, however the threads
\* race: the timer finds an empty _prep_future and ends rclpy.spin only if the
\* preparation it has just submitted ended there, and a thread comes back to
\* the lock it holds only if the forward it has just submitted did.
StopsOnEarlyEnd ==
  /\ pc["main"] = "crashed" => EndedEarly("prep", frame["main"])
  /\ \A t \in Threads : WaitsForItself(t) => EndedEarly("gpu", frame[t])

\* "The timer fires at ~20 Hz": it always comes back, to be fired again.
TimerReturns == []<>(pc["main"] = "idle")

Settled(f) == Done(gpuJob[f]) \/ prepJob[f] = "failed"

\* Every snapshot that is taken is in the end run by the model or given up,
\* though nothing but the callback of another job may be left to hand it on.
\* (There are finitely many of them and what is settled stays so: that each
\* leads to its end is that in the end all have met theirs.)
FramesSettle == <>[](\A f \in 1..taken : Settled(f))
=============================================================================
