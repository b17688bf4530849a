--------------------------- MODULE TrajectoryProofs ---------------------------
(***************************************************************************)
(* The orion nodes without the PID, proved for any clock, any speed, any   *)
(* number of routes, any timeout and depth of the topic, and any number of *)
(* executor threads.  The proof has three parts that share nothing but the *)
(* steps: the frames and the memory of the worker, the trajectory on its   *)
(* way to the controller, and the threads at the map reference.            *)
(***************************************************************************)
EXTENDS MCTrajectory, SequenceTheorems, TLAPS

Stamps == Nat \cup {None}

-----------------------------------------------------------------------------
(* the worker and its frames                                               *)

Tallies == [frame : Stamps, runs : Nat, resets : Nat]

\* The fields of the job a stage has.
Jobs == {Idle}
        \cup [stage : {"taken", "reset", "resetting", "build"}, frame : Nat]
        \cup [stage : {"model", "publish"}, frame : Nat, token : Nat, idx : Nat]

NodeTyped ==
  /\ now \in Nat
  /\ front \in Stamps /\ front <= now
  /\ lastStamp \in Stamps /\ lastStamp <= front
  /\ frameIdx \in Nat /\ serial \in Nat
  /\ memory \in [token : Nat, idx : Nat]
  /\ job \in Jobs
  /\ latest \in Tallies /\ latest.frame <= front

\* The stamp of the frame the worker has is remembered, and that frame is owed a
\* run by its resets; or the worker has forgotten the stamp, and has counted a
\* reset for that.
Owed     == lastStamp = job.frame /\ Of(job.frame).runs <= Of(job.frame).resets
Forgiven == lastStamp = None /\ latest.frame = job.frame /\ latest.runs < latest.resets

FramesCounted ==
  /\ latest.runs <= 1 + latest.resets
  /\ lastStamp = None => latest.runs <= latest.resets
  /\ lastStamp # None => latest.frame <= lastStamp
  /\ job # Idle => job.frame <= front
  /\ job.stage \in {"taken", "reset"} => Owed
  /\ job.stage = "resetting" => Forgiven
  /\ job.stage \in {"build", "model"} => Owed \/ Forgiven

\* What the heads remember is behind the counter, and behind the number of the
\* frame that is about to enter them.
MemoryBehind ==
  testFlag => memory.idx < IF job.stage = "model" THEN job.idx ELSE frameIdx

NumberTaken == job.stage = "model" => job.idx + 1 = frameIdx

WorkerInvariant == NodeTyped /\ FramesCounted /\ MemoryBehind /\ NumberTaken

-----------------------------------------------------------------------------
(* the trajectory and the controller                                       *)

\* All that waits in the topic was published since the last tick.
Message == [at |-> car]

TracksAt(reach) == {t \in [anchor : Nat, msg : [at : Nat]] : t.msg.at - t.anchor \in reach}

ControllerTyped ==
  /\ car \in Nat
  /\ topic \in Seq({Message})
  /\ pose \in Stamps /\ (pose # None => car - pose \in 0..MaxStep)
  /\ track = NoTrack \/ track \in TracksAt(0..MaxStep)
  /\ age \in 0..Never
  /\ due \in BOOLEAN

\* The history is the controller's own age, except between the publishing of a
\* trajectory and its delivery.
AgeIsSilence ==
  silence = IF topic # <<>> /\ pose # None THEN 0 ELSE age

YoungIsTracked == age <= Timeout => pose # None /\ track # NoTrack

ControllerInvariant ==
  ControllerTyped /\ AgeIsSilence /\ YoungIsTracked /\ SilentCarStops

-----------------------------------------------------------------------------
LEMMA Bounds ==
  /\ Timeout \in Nat /\ TopicDepth \in Nat \ {0} /\ MaxStep \in Nat
  /\ None = -1 /\ Never = Timeout + 1
<1> QED
  BY StanleyAssumption, TrajectoryAssumption DEF None, Never

\* A queue that loses its oldest has only what was put into it.
LEMMA QueuedProperties ==
  ASSUME NEW S, NEW q \in Seq(S), NEW m \in S
  PROVE  Queued(q, m) \in Seq(S) /\ Queued(q, m) # <<>>
<1>1. CASE Len(q) < TopicDepth
  BY <1>1, AppendProperties DEF Queued
<1>2. CASE ~(Len(q) < TopicDepth)
  <2>1. q # <<>>
    BY <1>2, Bounds
  <2>2. Tail(q) \in Seq(S)
    BY <2>1, HeadTailProperties
  <2> QED
    BY ZenonT(60), <1>2, <2>2, AppendProperties DEF Queued
<1> QED
  BY <1>1, <1>2

-----------------------------------------------------------------------------
(* first part                                                              *)

LEMMA WorkerStarts ==
  ASSUME TrajectoryInit
  PROVE  WorkerInvariant
<1> QED
  BY DEF TrajectoryInit, StanleyInit, WorkerInvariant, NodeTyped, FramesCounted, MemoryBehind,
         NumberTaken, Stamps, Tallies, Jobs, Idle, Fresh, None

\* What each stage of the job has.
LEMMA JobFields ==
  ASSUME job \in Jobs
  PROVE  /\ job = Idle \/ job.frame \in Nat
         /\ (job = Idle) <=> (job.stage = "idle")
         /\ job.stage \in {"taken", "reset", "resetting", "build"} =>
              job = [stage |-> job.stage, frame |-> job.frame]
         /\ job.stage \in {"model", "publish"} =>
              /\ job.token \in Nat /\ job.idx \in Nat
              /\ job = [stage |-> job.stage, frame |-> job.frame,
                        token |-> job.token, idx |-> job.idx]
         /\ job.stage \in {"idle", "taken", "reset", "resetting", "build", "model", "publish"}
<1> QED
  BY DEF Jobs, Idle

LEMMA TallyFields ==
  ASSUME NodeTyped, NEW f \in Nat
  PROVE  /\ Of(f) \in Tallies /\ Of(f).frame = f
         /\ Of(f).runs \in Nat /\ Of(f).resets \in Nat
         /\ latest.frame \in Stamps /\ latest.runs \in Nat /\ latest.resets \in Nat
         /\ latest.frame = f => Of(f) = latest
         /\ latest.frame # f => Of(f).runs = 0 /\ Of(f).resets = 0
<1> QED
  BY DEF NodeTyped, Tallies, Stamps, Of, Fresh

\* Whatever touches neither the job nor the fields the worker writes.
LEMMA WorkerUntouched ==
  ASSUME WorkerInvariant, serial' \in Nat, now' \in Nat, front' \in Stamps,
         front' <= now', front <= front',
         UNCHANGED <<lastStamp, frameIdx, memory, testFlag, job, latest>>
  PROVE  WorkerInvariant'
<1>1. NodeTyped'
  BY DEF WorkerInvariant, NodeTyped, Stamps, Tallies, None
<1>2. FramesCounted'
  <2>1. job # Idle => job.frame \in Nat
    BY JobFields DEF WorkerInvariant, NodeTyped
  <2>2. job' # Idle => job'.frame <= front'
    BY <2>1 DEF WorkerInvariant, NodeTyped, FramesCounted, Stamps, None
  <2> QED
    BY <2>2 DEF WorkerInvariant, FramesCounted, Owed, Forgiven, Of, Fresh
<1>3. MemoryBehind' /\ NumberTaken'
  BY DEF WorkerInvariant, MemoryBehind, NumberTaken
<1> QED
  BY <1>1, <1>2, <1>3 DEF WorkerInvariant

LEMMA TimerKeepsWorker ==
  ASSUME WorkerInvariant, TimerCallback
  PROVE  WorkerInvariant'
<1> DEFINE f == front
<1>1. f \in Nat /\ job = Idle /\ lastStamp \in Stamps /\ lastStamp <= f /\ lastStamp # f
  BY DEF WorkerInvariant, NodeTyped, TimerCallback, Stamps
<1>2. /\ lastStamp' = f /\ job' = [stage |-> "taken", frame |-> f]
      /\ UNCHANGED <<now, front, frameIdx, serial, testFlag, memory, latest>>
  BY DEF TimerCallback, nodeVars, history
<1>3. NodeTyped'
  BY <1>1, <1>2 DEF WorkerInvariant, NodeTyped, Jobs, Stamps, Tallies
<1>4. Of(f).runs <= Of(f).resets
  <2>1. latest.frame = f => lastStamp = None
    BY <1>1, TallyFields DEF WorkerInvariant, FramesCounted, Stamps, None
  <2> QED
    BY <1>1, <2>1, TallyFields DEF WorkerInvariant, FramesCounted
<1>5. FramesCounted'
  <2>1. latest.frame <= f
    BY DEF WorkerInvariant, NodeTyped
  <2>2. Owed'
    BY <1>2, <1>4 DEF Owed, Of, Fresh
  <2> QED
    BY <1>1, <1>2, <2>1, <2>2 DEF WorkerInvariant, FramesCounted, Stamps, None
<1>6. MemoryBehind' /\ NumberTaken'
  BY <1>1, <1>2 DEF WorkerInvariant, MemoryBehind, NumberTaken, Idle
<1> QED
  BY <1>3, <1>5, <1>6 DEF WorkerInvariant

LEMMA CheckKeepsWorker ==
  ASSUME WorkerInvariant, CheckReset
  PROVE  WorkerInvariant'
<1>1. job.frame \in Nat /\ job = [stage |-> "taken", frame |-> job.frame] /\ job # Idle
  BY JobFields DEF WorkerInvariant, NodeTyped, CheckReset, Idle
<1>2. /\ job' \in {[stage |-> "reset", frame |-> job.frame],
                   [stage |-> "build", frame |-> job.frame]}
      /\ UNCHANGED <<now, front, lastStamp, frameIdx, serial, testFlag, memory, latest>>
  BY <1>1 DEF CheckReset, nodeVars, history
<1>3. NodeTyped'
  BY <1>1, <1>2 DEF WorkerInvariant, NodeTyped, Jobs, Stamps, Tallies
<1>4. FramesCounted'
  BY <1>1, <1>2 DEF WorkerInvariant, FramesCounted, Owed, Of, Fresh
<1>5. MemoryBehind' /\ NumberTaken'
  BY <1>1, <1>2 DEF WorkerInvariant, MemoryBehind, NumberTaken
<1> QED
  BY <1>3, <1>4, <1>5 DEF WorkerInvariant

LEMMA ResetKeepsWorker ==
  ASSUME WorkerInvariant, ResetForNewRoute
  PROVE  WorkerInvariant'
<1> DEFINE f == job.frame
<1>1. f \in Nat /\ job = [stage |-> "reset", frame |-> f] /\ job # Idle
  BY JobFields DEF WorkerInvariant, NodeTyped, ResetForNewRoute, Idle
<1>2. /\ job' = [stage |-> "resetting", frame |-> f]
      /\ testFlag' = FALSE /\ frameIdx' = 0 /\ lastStamp' = None
      /\ latest' = [Of(f) EXCEPT !.resets = @ + 1]
      /\ UNCHANGED <<now, front, serial, memory>>
  BY <1>1 DEF ResetForNewRoute
<1>3. /\ Of(f) \in Tallies /\ Of(f).frame = f /\ f <= front
      /\ Of(f).runs \in Nat /\ Of(f).resets \in Nat /\ Of(f).runs <= Of(f).resets
  BY <1>1, TallyFields DEF WorkerInvariant, FramesCounted, Owed
<1>4. /\ latest' \in Tallies /\ latest'.frame = f
      /\ latest'.runs = Of(f).runs /\ latest'.resets = Of(f).resets + 1
  BY <1>2, <1>3 DEF Tallies
<1>5. NodeTyped'
  BY <1>1, <1>2, <1>3, <1>4 DEF WorkerInvariant, NodeTyped, Jobs, Stamps, None
<1>6. FramesCounted'
  BY <1>1, <1>2, <1>3, <1>4 DEF FramesCounted, Forgiven, Idle
<1>7. MemoryBehind' /\ NumberTaken'
  BY <1>2 DEF MemoryBehind, NumberTaken
<1> QED
  BY <1>5, <1>6, <1>7 DEF WorkerInvariant

LEMMA ResetDoneKeepsWorker ==
  ASSUME WorkerInvariant, ResetDone
  PROVE  WorkerInvariant'
<1>1. job.frame \in Nat /\ job = [stage |-> "resetting", frame |-> job.frame] /\ job # Idle
  BY JobFields DEF WorkerInvariant, NodeTyped, ResetDone, Idle
<1>2. /\ job' = [stage |-> "build", frame |-> job.frame]
      /\ UNCHANGED <<now, front, lastStamp, frameIdx, serial, testFlag, memory, latest>>
  BY <1>1 DEF ResetDone, history
<1>3. NodeTyped'
  BY <1>1, <1>2 DEF WorkerInvariant, NodeTyped, Jobs, Stamps, Tallies
<1>4. FramesCounted'
  BY <1>1, <1>2 DEF WorkerInvariant, FramesCounted, Forgiven
<1>5. MemoryBehind' /\ NumberTaken'
  BY <1>1, <1>2 DEF WorkerInvariant, MemoryBehind, NumberTaken
<1> QED
  BY <1>3, <1>4, <1>5 DEF WorkerInvariant

LEMMA BuildKeepsWorker ==
  ASSUME WorkerInvariant, BuildBatch
  PROVE  WorkerInvariant'
<1>1. job.frame \in Nat /\ job = [stage |-> "build", frame |-> job.frame] /\ job # Idle
  BY JobFields DEF WorkerInvariant, NodeTyped, BuildBatch, Idle
<1>2. /\ job' = [stage |-> "model", frame |-> job.frame, token |-> serial, idx |-> frameIdx]
      /\ frameIdx' = frameIdx + 1
      /\ UNCHANGED <<now, front, lastStamp, serial, testFlag, memory, latest>>
  BY <1>1 DEF BuildBatch, history
<1>3. NodeTyped'
  BY <1>1, <1>2 DEF WorkerInvariant, NodeTyped, Jobs, Stamps, Tallies
<1>4. FramesCounted'
  BY <1>1, <1>2 DEF WorkerInvariant, FramesCounted, Forgiven, Owed, Of, Fresh
<1>5. MemoryBehind' /\ NumberTaken'
  BY <1>1, <1>2 DEF WorkerInvariant, NodeTyped, MemoryBehind, NumberTaken
<1> QED
  BY <1>3, <1>4, <1>5 DEF WorkerInvariant

LEMMA ForwardKeepsWorker ==
  ASSUME WorkerInvariant, Forward
  PROVE  WorkerInvariant'
<1> DEFINE f == job.frame
<1>1. /\ f \in Nat /\ job.token \in Nat /\ job.idx \in Nat /\ job # Idle
      /\ job = [stage |-> "model", frame |-> f, token |-> job.token, idx |-> job.idx]
  BY JobFields DEF WorkerInvariant, NodeTyped, Forward, Idle
<1>2. /\ job' = [stage |-> "publish", frame |-> f, token |-> job.token, idx |-> job.idx]
      /\ testFlag' = TRUE /\ memory' = [token |-> job.token, idx |-> job.idx]
      /\ latest' = [Of(f) EXCEPT !.runs = @ + 1]
      /\ UNCHANGED <<now, front, lastStamp, frameIdx, serial>>
  BY <1>1 DEF Forward
<1>3. Of(f) \in Tallies /\ Of(f).frame = f /\ f <= front /\ Of(f).runs \in Nat /\ Of(f).resets \in Nat
  BY <1>1, TallyFields DEF WorkerInvariant, FramesCounted
<1>4. \/ lastStamp = f /\ Of(f).runs <= Of(f).resets
      \/ lastStamp = None /\ Of(f).runs < Of(f).resets
  BY <1>1, TallyFields DEF WorkerInvariant, FramesCounted, Owed, Forgiven
<1>5. /\ latest' \in Tallies /\ latest'.frame = f
      /\ latest'.runs = Of(f).runs + 1 /\ latest'.resets = Of(f).resets
  BY <1>2, <1>3 DEF Tallies
<1>6. NodeTyped'
  BY <1>1, <1>2, <1>3, <1>5 DEF WorkerInvariant, NodeTyped, Jobs, Stamps
<1>7. FramesCounted'
  BY <1>1, <1>2, <1>3, <1>4, <1>5 DEF FramesCounted, None
<1>8. MemoryBehind' /\ NumberTaken'
  BY <1>1, <1>2 DEF WorkerInvariant, NodeTyped, MemoryBehind, NumberTaken
<1> QED
  BY <1>6, <1>7, <1>8 DEF WorkerInvariant

\* Publish and Raise leave the worker idle; a frame that was owed a run may go
\* without it.
LEMMA EndKeepsWorker ==
  ASSUME WorkerInvariant, Publish \/ Raise
  PROVE  WorkerInvariant'
<1>1. /\ job' = Idle /\ job.stage \in {"build", "model", "publish"}
      /\ UNCHANGED <<now, front, lastStamp, frameIdx, serial, testFlag, memory, latest>>
  BY DEF Publish, Raise, nodeVars, history
<1>2. NodeTyped'
  BY <1>1 DEF WorkerInvariant, NodeTyped, Jobs, Stamps, Tallies
<1>3. FramesCounted'
  BY <1>1 DEF WorkerInvariant, FramesCounted, Idle
<1>4. MemoryBehind' /\ NumberTaken'
  <2>1. job.stage = "model" => job.idx \in Nat /\ frameIdx = job.idx + 1
    BY JobFields DEF WorkerInvariant, NodeTyped, NumberTaken
  <2>2. memory.idx \in Nat /\ frameIdx \in Nat
    BY DEF WorkerInvariant, NodeTyped
  <2> QED
    BY <1>1, <2>1, <2>2 DEF WorkerInvariant, MemoryBehind, NumberTaken, Idle
<1> QED
  BY <1>2, <1>3, <1>4 DEF WorkerInvariant

LEMMA WorkerStep ==
  ASSUME WorkerInvariant, TrajectoryNext \/ UNCHANGED vars
  PROVE  WorkerInvariant'
<1> DEFINE kept == <<lastStamp, frameIdx, memory, testFlag, job, latest>>
<1>t. now \in Nat /\ front \in Stamps /\ front <= now /\ serial \in Nat /\ front <= front
  BY DEF WorkerInvariant, NodeTyped, Stamps, None
<1>1. CASE Clock
  <2>1. now' = now + 1 /\ UNCHANGED <<front, serial>> /\ UNCHANGED kept
    BY <1>1 DEF Clock, nodeVars
  <2> QED
    BY <1>t, <2>1, WorkerUntouched DEF Stamps, None
<1>2. CASE CameraCallback
  <2>1. front' = now /\ UNCHANGED <<now, serial>> /\ UNCHANGED kept
    BY <1>2 DEF CameraCallback, nodeVars, history
  <2> QED
    BY <1>t, <2>1, WorkerUntouched DEF Stamps, None
<1>3. CASE OdometryCallback \/ Controller \/ UNCHANGED vars
  <2>1. UNCHANGED <<now, front, serial>> /\ UNCHANGED kept
    BY <1>3 DEF OdometryCallback, Controller, vars, nodeVars, history
  <2> QED
    BY <1>t, <2>1, WorkerUntouched
<1>4. CASE RouteCallback
  <2>1. serial' = serial + 1 /\ UNCHANGED <<now, front>> /\ UNCHANGED kept
    BY <1>4 DEF RouteCallback, history
  <2> QED
    BY <1>t, <2>1, WorkerUntouched
<1>5. CASE TimerCallback
  BY <1>5, TimerKeepsWorker
<1>6. CASE Worker
  BY <1>6, CheckKeepsWorker, ResetKeepsWorker, ResetDoneKeepsWorker, BuildKeepsWorker,
     ForwardKeepsWorker, EndKeepsWorker DEF Worker
<1> QED
  BY <1>1, <1>2, <1>3, <1>4, <1>5, <1>6 DEF TrajectoryNext

-----------------------------------------------------------------------------
(* second part                                                             *)

LEMMA ControllerStarts ==
  ASSUME TrajectoryInit
  PROVE  ControllerInvariant
<1> QED
  BY Bounds DEF TrajectoryInit, StanleyInit, ControllerInvariant, ControllerTyped, AgeIsSilence,
                YoungIsTracked, SilentCarStops, Stamps

\* A tick finds every message delivered and the controller where the car is.
LEMMA ClockKeepsController ==
  ASSUME ControllerInvariant, Clock
  PROVE  ControllerInvariant'
<1>1. /\ topic = <<>> /\ pose \in {None, car} /\ due' = TRUE
      /\ age' = IF age = Never THEN Never ELSE age + 1
      /\ silence' = IF silence = Never THEN Never ELSE silence + 1
      /\ UNCHANGED <<topic, pose, track>>
  BY DEF Clock, Older
<1>2. \E move \in 0..MaxStep : car' = car + move
  BY Bounds DEF Clock
<1>3. ControllerTyped'
  <2>1. car' \in Nat /\ car' - car \in 0..MaxStep /\ car \in Nat
    BY <1>2, Bounds DEF ControllerInvariant, ControllerTyped
  <2>2. pose' # None => car' - pose' \in 0..MaxStep
    BY <1>1, <2>1
  <2>3. topic' \in Seq({Message})'
    BY <1>1
  <2>4. age' \in 0..Never
    BY <1>1, Bounds DEF ControllerInvariant, ControllerTyped
  <2> QED
    BY <1>1, <2>1, <2>2, <2>3, <2>4 DEF ControllerInvariant, ControllerTyped
<1>4. AgeIsSilence'
  BY <1>1 DEF ControllerInvariant, AgeIsSilence
<1>5. YoungIsTracked'
  BY <1>1, Bounds DEF ControllerInvariant, ControllerTyped, YoungIsTracked
<1>6. SilentCarStops'
  BY <1>1 DEF SilentCarStops
<1> QED
  BY <1>3, <1>4, <1>5, <1>6 DEF ControllerInvariant

LEMMA OdometryKeepsController ==
  ASSUME ControllerInvariant, OdometryCb(car), Controller
  PROVE  ControllerInvariant'
<1>1. /\ pose' = car /\ UNCHANGED <<topic, track, age, command, due, car>>
      /\ silence' = IF pose = None /\ pose' # None /\ topic # <<>> THEN 0 ELSE silence
  BY DEF OdometryCb, Controller
<1>2. car \in Nat /\ car # None /\ car - car \in 0..MaxStep
  BY Bounds DEF ControllerInvariant, ControllerTyped
<1>3. ControllerTyped'
  BY <1>1, <1>2 DEF ControllerInvariant, ControllerTyped, Stamps, Message
<1>4. AgeIsSilence'
  BY <1>1, <1>2 DEF ControllerInvariant, AgeIsSilence
<1>5. YoungIsTracked'
  BY <1>1, <1>2 DEF ControllerInvariant, YoungIsTracked
<1>6. SilentCarStops'
  BY <1>1, Bounds DEF ControllerInvariant, SilentCarStops
<1> QED
  BY <1>3, <1>4, <1>5, <1>6 DEF ControllerInvariant

LEMMA TrajectoryKeepsController ==
  ASSUME ControllerInvariant, TrajectoryCb, Controller
  PROVE  ControllerInvariant'
<1>1. /\ topic # <<>> /\ topic' = Tail(topic)
      /\ UNCHANGED <<pose, command, due, car, silence>>
      /\ IF pose = None THEN UNCHANGED <<track, age>>
         ELSE track' = On(Head(topic), pose) /\ age' = 0
  BY DEF TrajectoryCb, Controller
<1>2. Head(topic) = Message /\ Tail(topic) \in Seq({Message})
  <2> DEFINE S == {Message}
  <2>1. topic \in Seq(S)
    BY DEF ControllerInvariant, ControllerTyped
  <2>2. Head(topic) \in S /\ Tail(topic) \in Seq(S)
    <3> HIDE DEF S
    <3> QED
      BY <1>1, <2>1, HeadTailProperties
  <2> QED
    BY <2>2
<1>3. CASE pose = None
  <2>1. ControllerTyped'
    BY <1>1, <1>2, <1>3 DEF ControllerInvariant, ControllerTyped, Message
  <2>2. AgeIsSilence' /\ YoungIsTracked' /\ SilentCarStops'
    BY <1>1, <1>3 DEF ControllerInvariant, AgeIsSilence, YoungIsTracked, SilentCarStops
  <2> QED
    BY <2>1, <2>2 DEF ControllerInvariant
<1>4. CASE pose # None
  <2>1. /\ track' = [anchor |-> pose, msg |-> [at |-> car]] /\ age' = 0
        /\ pose \in Nat /\ car \in Nat /\ car - pose \in 0..MaxStep
    BY <1>1, <1>2, <1>4 DEF ControllerInvariant, ControllerTyped, On, Message, Stamps
  <2>2. track' \in TracksAt(0..MaxStep)
    BY <2>1 DEF TracksAt
  <2>3. ControllerTyped'
    BY <1>1, <1>2, <2>1, <2>2, Bounds DEF ControllerInvariant, ControllerTyped, Message
  <2>4. silence' = 0
    BY <1>1, <1>4 DEF ControllerInvariant, AgeIsSilence
  <2>5. track' # NoTrack
    BY <1>4, <2>1 DEF NoTrack
  <2>6. AgeIsSilence' /\ YoungIsTracked'
    BY <1>1, <1>4, <2>1, <2>4, <2>5 DEF AgeIsSilence, YoungIsTracked
  <2>7. SilentCarStops'
    BY <2>4, Bounds DEF SilentCarStops
  <2> QED
    BY <2>3, <2>6, <2>7 DEF ControllerInvariant
<1> QED
  BY <1>3, <1>4

LEMMA ControlKeepsController ==
  ASSUME ControllerInvariant, ControlCb, Controller
  PROVE  ControllerInvariant'
<1>1. /\ due' = FALSE /\ UNCHANGED <<topic, pose, track, age, car, silence>>
      /\ command' = IF age > Timeout THEN "stop"
                    ELSE IF pose = None \/ track = NoTrack THEN command ELSE "go"
  BY DEF ControlCb, Controller
<1>2. ControllerTyped'
  BY <1>1 DEF ControllerInvariant, ControllerTyped, Message
<1>3. AgeIsSilence' /\ YoungIsTracked'
  BY <1>1 DEF ControllerInvariant, AgeIsSilence, YoungIsTracked
<1>4. SilentCarStops'
  <2>1. age \in Int /\ (silence = age \/ silence = 0)
    BY Bounds DEF ControllerInvariant, ControllerTyped, AgeIsSilence
  <2> QED
    BY <1>1, <2>1, Bounds DEF ControllerInvariant, YoungIsTracked, SilentCarStops
<1> QED
  BY <1>2, <1>3, <1>4 DEF ControllerInvariant

LEMMA PublishKeepsController ==
  ASSUME ControllerInvariant, Publish
  PROVE  ControllerInvariant'
<1>1. /\ topic' = Queued(topic, Message)
      /\ silence' = IF pose # None THEN 0 ELSE silence
      /\ UNCHANGED <<pose, track, age, command, due, car>>
  BY DEF Publish, Message
<1>2. topic' \in Seq({Message}) /\ topic' # <<>>
  <2> DEFINE S == {Message}
  <2>1. topic \in Seq(S) /\ Message \in S
    BY DEF ControllerInvariant, ControllerTyped
  <2>2. Queued(topic, Message) \in Seq(S) /\ Queued(topic, Message) # <<>>
    <3> HIDE DEF S
    <3> QED
      BY <2>1, QueuedProperties
  <2> QED
    BY <1>1, <2>2
<1>3. ControllerTyped'
  BY <1>1, <1>2 DEF ControllerInvariant, ControllerTyped, Message
<1>4. AgeIsSilence' /\ YoungIsTracked'
  BY <1>1, <1>2 DEF ControllerInvariant, AgeIsSilence, YoungIsTracked
<1>5. SilentCarStops'
  BY <1>1, Bounds DEF ControllerInvariant, SilentCarStops
<1> QED
  BY <1>3, <1>4, <1>5 DEF ControllerInvariant

LEMMA ControllerStep ==
  ASSUME ControllerInvariant, TrajectoryNext \/ UNCHANGED vars
  PROVE  ControllerInvariant'
<1>1. CASE Clock
  BY <1>1, ClockKeepsController
<1>2. CASE Controller
  BY <1>2, OdometryKeepsController, TrajectoryKeepsController, ControlKeepsController
     DEF Controller
<1>3. CASE Publish
  BY <1>3, PublishKeepsController
<1>4. ASSUME UNCHANGED <<stanleyVars, car, silence>>
      PROVE  ControllerInvariant'
  BY <1>4 DEF stanleyVars, ControllerInvariant, ControllerTyped, AgeIsSilence, YoungIsTracked,
              SilentCarStops, Message
<1>5. CASE CameraCallback \/ OdometryCallback \/ RouteCallback \/ TimerCallback \/ UNCHANGED vars
  BY <1>4, <1>5 DEF CameraCallback, OdometryCallback, RouteCallback, TimerCallback, vars, history
<1>6. CASE CheckReset \/ ResetForNewRoute \/ ResetDone \/ BuildBatch \/ Forward \/ Raise
  BY <1>4, <1>6 DEF CheckReset, ResetForNewRoute, ResetDone, BuildBatch, Forward, Raise, history
<1> QED
  BY <1>1, <1>2, <1>3, <1>5, <1>6 DEF TrajectoryNext, Worker

-----------------------------------------------------------------------------
(* third part                                                              *)

Stages == {"idle", "try", "solve", "lon", "flag"}
Solved == [gnss : Nat, odom : Nat]
Works  == [at : Stages, pair : Solved \cup {NoPair}]

LiteTyped ==
  /\ solver \in [Workers -> Works]
  /\ latestGnss \in Nat /\ latestOdom \in Nat
  /\ initialized \in BOOLEAN

\* What a thread is about to store is a pair of messages.
Solves(w) == solver[w].at \in {"solve", "lon", "flag"} => solver[w].pair # NoPair

\* The numbers are there for good before the flag is, and the flag before a frame.
MapFirst ==
  /\ \A w \in Workers : /\ solver[w].at \in {"lon", "flag"} => latRef # NoPair
                        /\ solver[w].at = "flag" => lonRef # NoPair
  /\ initialized => latRef # NoPair /\ lonRef # NoPair
  /\ run.stage \in {"locate", "located"} => initialized
  /\ run.stage = "located" => run.lat # NoPair

LiteInvariant ==
  LiteTyped /\ (\A w \in Workers : Solves(w)) /\ MapFirst /\ LocatedOnAMap

LEMMA LiteStarts ==
  ASSUME LiteInit
  PROVE  LiteInvariant
<1>1. NoWork \in Works /\ NoWork.at = "idle"
  BY DEF NoWork, Works, Stages
<1>2. LiteTyped
  BY <1>1 DEF LiteInit, LiteTyped
<1>3. ASSUME NEW w \in Workers
      PROVE  solver[w].at = "idle"
  BY <1>1 DEF LiteInit
<1>4. \A w \in Workers : Solves(w)
  BY <1>3 DEF Solves
<1>5. run.stage = "idle" /\ initialized = FALSE /\ maps = {}
  BY DEF LiteInit, NoRun
<1> QED
  BY <1>2, <1>3, <1>4, <1>5 DEF LiteInvariant, MapFirst, LocatedOnAMap

\* A step of a thread leaves what the others do alone.
LEMMA OthersKept ==
  ASSUME LiteInvariant, NEW w \in Workers, NEW work \in Works,
         solver' = [solver EXCEPT ![w] = work],
         latestGnss' \in Nat, latestOdom' \in Nat,
         initialized' \in BOOLEAN, initialized => initialized'
  PROVE  /\ LiteTyped'
         /\ solver'[w] = work
         /\ \A v \in Workers \ {w} : /\ Solves(v)'
                                     /\ solver'[v] = solver[v]
<1>1. LiteTyped' /\ solver'[w] = work
  BY DEF LiteInvariant, LiteTyped
<1>2. ASSUME NEW v \in Workers \ {w}
      PROVE  Solves(v)' /\ solver'[v] = solver[v]
  <2>1. solver'[v] = solver[v]
    BY DEF LiteInvariant, LiteTyped
  <2>2. Solves(v)
    BY DEF LiteInvariant
  <2> QED
    BY <2>1, <2>2 DEF Solves
<1> QED
  BY <1>1, <1>2

\* The numbers stay there when they are stored again.
LEMMA MapKept ==
  ASSUME LiteInvariant, NEW w \in Workers,
         \A v \in Workers \ {w} : solver'[v] = solver[v],
         solver'[w].at \in {"lon", "flag"} => latRef' # NoPair,
         solver'[w].at = "flag" => lonRef' # NoPair,
         latRef # NoPair => latRef' # NoPair, lonRef # NoPair => lonRef' # NoPair,
         initialized => initialized',
         initialized' /\ ~initialized => solver[w].at = "flag",
         UNCHANGED <<run, maps>>
  PROVE  MapFirst' /\ LocatedOnAMap'
<1>1. /\ \A v \in Workers : /\ solver[v].at \in {"lon", "flag"} => latRef # NoPair
                            /\ solver[v].at = "flag" => lonRef # NoPair
      /\ initialized => latRef # NoPair /\ lonRef # NoPair
  BY DEF LiteInvariant, MapFirst
<1>2. \A v \in Workers : /\ solver'[v].at \in {"lon", "flag"} => latRef' # NoPair
                         /\ solver'[v].at = "flag" => lonRef' # NoPair
  BY <1>1
<1>3. initialized' => latRef' # NoPair /\ lonRef' # NoPair
  BY <1>1
<1> QED
  BY <1>2, <1>3 DEF LiteInvariant, MapFirst, LocatedOnAMap

LEMMA SolverKeepsLite ==
  ASSUME LiteInvariant, NEW w \in Workers, SolverAction(w)
  PROVE  LiteInvariant'
<1>0. /\ solver[w] \in Works /\ Solves(w)
      /\ latestGnss \in Nat /\ latestOdom \in Nat /\ initialized \in BOOLEAN
      /\ solver \in [Workers -> Works]
      /\ solver[w].at \in Stages /\ solver[w].pair \in Solved \cup {NoPair}
  BY DEF LiteInvariant, LiteTyped, Works
<1>w. NoWork \in Works /\ NoWork.at = "idle" /\ Default \in Solved /\ NoPair \notin Solved
  BY DEF NoWork, NoPair, Default, Works, Stages, Solved
<1>1. CASE GnssCb(w) \/ OdomCb(w)
  <2> DEFINE work == [at |-> "try", pair |-> NoPair]
  <2>1. solver[w] = NoWork /\ solver' = [solver EXCEPT ![w].at = "try"]
    BY <1>1 DEF GnssCb, OdomCb, Try
  <2>2. /\ latestGnss' \in Nat /\ latestOdom' \in Nat
        /\ UNCHANGED <<latRef, lonRef, initialized, run, maps>>
    BY <1>0, <1>1 DEF GnssCb, OdomCb, runVars
  <2>3. solver' = [solver EXCEPT ![w] = work] /\ work \in Works
    <3>1. work \in Works
      BY DEF Works, Stages
    <3>2. [solver[w] EXCEPT !.at = "try"] = work
      BY <2>1 DEF NoWork
    <3>3. solver' = [solver EXCEPT ![w] = [solver[w] EXCEPT !.at = "try"]]
      BY <2>1
    <3> QED
      BY <3>1, <3>2, <3>3
  <2>4. solver[w].at = "idle" /\ work.at = "try"
    BY <1>w, <2>1
  <2> HIDE DEF work
  <2>5. /\ LiteTyped' /\ solver'[w] = work
        /\ \A v \in Workers \ {w} : Solves(v)' /\ solver'[v] = solver[v]
    BY <1>0, <2>2, <2>3, OthersKept
  <2>6. Solves(w)'
    BY <1>0, <2>2, <2>4, <2>5 DEF Solves
  <2>7. MapFirst' /\ LocatedOnAMap'
    BY <2>2, <2>4, <2>5, MapKept
  <2> QED
    BY <2>5, <2>6, <2>7 DEF LiteInvariant
<1>2. CASE TryInit(w)
  <2> DEFINE work == IF initialized \/ latestGnss = 0 \/ latestOdom = 0 THEN NoWork
                     ELSE [at |-> "solve", pair |-> NewestPair]
  <2>1. /\ solver' = [solver EXCEPT ![w] = work] /\ solver[w].at = "try"
        /\ UNCHANGED <<latestGnss, latestOdom, latRef, lonRef, initialized, run, maps>>
    BY <1>2 DEF TryInit, stateVars, runVars
  <2>2. NewestPair \in Solved /\ NewestPair # NoPair
    BY <1>0, <1>w DEF NewestPair, Solved
  <2>3. work \in Works
    BY <1>w, <2>2 DEF Works, Stages
  <2>4. work.at = "idle" \/ (work.at = "solve" /\ ~initialized /\ work.pair # NoPair)
    BY <1>w, <2>2
  <2> HIDE DEF work
  <2>5. /\ LiteTyped' /\ solver'[w] = work
        /\ \A v \in Workers \ {w} : Solves(v)' /\ solver'[v] = solver[v]
    BY <1>0, <2>1, <2>3, OthersKept
  <2>6. Solves(w)'
    BY <1>0, <2>1, <2>4, <2>5 DEF Solves
  <2>7. MapFirst' /\ LocatedOnAMap'
    BY <2>1, <2>4, <2>5, MapKept
  <2> QED
    BY <2>5, <2>6, <2>7 DEF LiteInvariant
<1>3. CASE StoreLat(w)
  <2>1. PICK pair \in {solver[w].pair, Default} :
          latRef' = pair /\ solver' = [solver EXCEPT ![w] = [at |-> "lon", pair |-> pair]]
    BY <1>3 DEF StoreLat
  <2> DEFINE work == [at |-> "lon", pair |-> pair]
  <2>2. /\ solver[w].at = "solve"
        /\ UNCHANGED <<latestGnss, latestOdom, lonRef, initialized, run, maps>>
    BY <1>3 DEF StoreLat, stateVars, runVars
  <2>3. pair \in Solved /\ pair # NoPair
    BY <1>0, <1>w, <2>2 DEF Solves
  <2>4. work \in Works /\ work.at = "lon" /\ work.pair = pair
    BY <2>3 DEF Works, Stages
  <2>5. solver' = [solver EXCEPT ![w] = work]
    BY <2>1
  <2> HIDE DEF work
  <2>6. /\ LiteTyped' /\ solver'[w] = work
        /\ \A v \in Workers \ {w} : Solves(v)' /\ solver'[v] = solver[v]
    BY <1>0, <2>2, <2>4, <2>5, OthersKept
  <2>7. Solves(w)'
    BY <2>3, <2>4, <2>6 DEF Solves
  <2>8. MapFirst' /\ LocatedOnAMap'
    BY <2>1, <2>2, <2>3, <2>4, <2>6, MapKept
  <2> QED
    BY <2>6, <2>7, <2>8 DEF LiteInvariant
<1>4. CASE StoreLon(w)
  <2> DEFINE work == [at |-> "flag", pair |-> solver[w].pair]
  <2>1. /\ solver' = [solver EXCEPT ![w].at = "flag"] /\ solver[w].at = "lon"
        /\ lonRef' = solver[w].pair
        /\ UNCHANGED <<latestGnss, latestOdom, latRef, initialized, run, maps>>
    BY <1>4 DEF StoreLon, stateVars, runVars
  <2>2. solver[w] = [at |-> solver[w].at, pair |-> solver[w].pair]
    BY <1>0 DEF Works
  <2>3. solver' = [solver EXCEPT ![w] = work] /\ work \in Works
    <3>1. work \in Works
      BY <1>0 DEF Works, Stages
    <3>2. [solver[w] EXCEPT !.at = "flag"] = work
      BY <2>2
    <3>3. solver' = [solver EXCEPT ![w] = [solver[w] EXCEPT !.at = "flag"]]
      BY <2>1
    <3> QED
      BY <3>1, <3>2, <3>3
  <2>4. work.at = "flag" /\ work.pair # NoPair /\ lonRef' # NoPair /\ latRef # NoPair
    BY <1>0, <2>1 DEF Solves, LiteInvariant, MapFirst
  <2> HIDE DEF work
  <2>5. /\ LiteTyped' /\ solver'[w] = work
        /\ \A v \in Workers \ {w} : Solves(v)' /\ solver'[v] = solver[v]
    BY <1>0, <2>1, <2>3, OthersKept
  <2>6. Solves(w)'
    BY <1>0, <2>1, <2>4, <2>5 DEF Solves
  <2>7. MapFirst' /\ LocatedOnAMap'
    BY <2>1, <2>4, <2>5, MapKept
  <2> QED
    BY <2>5, <2>6, <2>7 DEF LiteInvariant
<1>5. CASE StoreFlag(w)
  <2>1. /\ solver' = [solver EXCEPT ![w] = NoWork] /\ solver[w].at = "flag" /\ initialized'
        /\ initialized' \in BOOLEAN
        /\ UNCHANGED <<latestGnss, latestOdom, latRef, lonRef, run, maps>>
    BY <1>5 DEF StoreFlag, stateVars, runVars
  <2>2. latRef # NoPair /\ lonRef # NoPair
    BY <2>1 DEF LiteInvariant, MapFirst
  <2>3. /\ LiteTyped' /\ solver'[w] = NoWork
        /\ \A v \in Workers \ {w} : Solves(v)' /\ solver'[v] = solver[v]
    BY <1>0, <1>w, <2>1, OthersKept
  <2>4. Solves(w)'
    BY <1>0, <1>w, <2>1, <2>3 DEF Solves
  <2>5. MapFirst' /\ LocatedOnAMap'
    BY <1>w, <2>1, <2>2, <2>3, MapKept
  <2> QED
    BY <2>3, <2>4, <2>5 DEF LiteInvariant
<1> QED
  BY <1>1, <1>2, <1>3, <1>4, <1>5 DEF SolverAction

\* A frame begins when the flag is set, and reads what is there for good.
LEMMA FrameKeepsLite ==
  ASSUME LiteInvariant, Frames
  PROVE  LiteInvariant'
<1>1. /\ UNCHANGED <<latestGnss, latestOdom, latRef, lonRef, initialized, solver>>
  BY DEF Frames, CameraWaits, CameraCb, LocateLat, LocateLon, Infer, refVars, stateVars
<1>2. LiteTyped' /\ \A w \in Workers : Solves(w)'
  BY <1>1 DEF LiteInvariant, LiteTyped, Solves
<1>3. CASE CameraWaits
  BY <1>1, <1>2, <1>3 DEF CameraWaits, runVars, LiteInvariant, MapFirst, LocatedOnAMap
<1>4. CASE CameraCb
  <2>1. run' = [stage |-> "locate", lat |-> NoPair] /\ initialized /\ maps' = maps
    BY <1>4 DEF CameraCb, NoRun, Ready
  <2> QED
    BY <1>1, <1>2, <2>1 DEF LiteInvariant, MapFirst, LocatedOnAMap
<1>5. CASE LocateLat
  <2>1. run' = [stage |-> "located", lat |-> latRef] /\ run.stage = "locate" /\ maps' = maps
    BY <1>5 DEF LocateLat
  <2> QED
    BY <1>1, <1>2, <2>1 DEF LiteInvariant, MapFirst, LocatedOnAMap
<1>6. CASE LocateLon
  <2>1. /\ run.stage = "located"
        /\ run' = [run EXCEPT !.stage = "model"]
        /\ maps' = maps \cup {[lat |-> run.lat, lon |-> lonRef]}
    BY <1>6 DEF LocateLon
  <2>2. run.lat # NoPair /\ lonRef # NoPair
    BY <2>1 DEF LiteInvariant, MapFirst
  <2>3. LocatedOnAMap'
    BY <2>1, <2>2 DEF LiteInvariant, LocatedOnAMap
  <2>4. run'.stage \notin {"locate", "located"}
    BY <2>1
  <2> QED
    BY <1>1, <1>2, <2>3, <2>4 DEF LiteInvariant, MapFirst
<1>7. CASE Infer
  <2>1. run'.stage = "idle" /\ maps' = maps
    BY <1>7 DEF Infer, NoRun
  <2> QED
    BY <1>1, <1>2, <2>1 DEF LiteInvariant, MapFirst, LocatedOnAMap
<1> QED
  BY <1>3, <1>4, <1>5, <1>6, <1>7 DEF Frames

LEMMA LiteStep ==
  ASSUME LiteInvariant, LiteNext \/ UNCHANGED liteVars
  PROVE  LiteInvariant'
<1>1. CASE Camera \/ ImuCb \/ RouteCb \/ UNCHANGED liteVars
  <2>1. UNCHANGED <<latestGnss, latestOdom, latRef, lonRef, initialized, solver, run, maps>>
    BY <1>1 DEF Camera, ImuCb, RouteCb, liteVars, stateVars, refVars, runVars
  <2> QED
    BY <2>1 DEF LiteInvariant, LiteTyped, Solves, MapFirst, LocatedOnAMap
<1> QED
  BY <1>1, SolverKeepsLite, FrameKeepsLite DEF LiteNext, Sensors

-----------------------------------------------------------------------------
Invariant == WorkerInvariant /\ ControllerInvariant /\ LiteInvariant

LEMMA Inductive == Spec => []Invariant
<1>1. Init => Invariant
  BY WorkerStarts, ControllerStarts, LiteStarts DEF Init, Invariant
<1>2. Invariant /\ [Next]_<<launch, vars, liteVars>> => Invariant'
  <2> SUFFICES ASSUME Invariant, [Next]_<<launch, vars, liteVars>>
               PROVE  Invariant'
    OBVIOUS
  <2>1. TrajectoryNext \/ UNCHANGED vars
    BY DEF Next
  <2>2. LiteNext \/ UNCHANGED liteVars
    BY DEF Next
  <2> QED
    BY <2>1, <2>2, WorkerStep, ControllerStep, LiteStep DEF Invariant
<1> QED
  BY <1>1, <1>2, PTL DEF Spec

\* No frame is given to the model more often than once and once more for each
\* reset that ran with it in the worker's hands (orion_node.py, _timer_callback
\* and _reset_for_new_route), for any number of frames and routes.
THEOREM EachFrameOnce == Spec => []FrameOnce
<1>1. Invariant => FrameOnce
  BY DEF Invariant, WorkerInvariant, FramesCounted, FrameOnce
<1> QED
  BY <1>1, Inductive, PTL

\* Whenever the heads keep their memory, the frame that enters them is later than
\* the one they remember (_build_batch, _reset_for_new_route): the memory never
\* runs backwards, wherever a route arrives.
THEOREM MemoryRunsForward == Spec => []MemoryMovesOn
<1>1. Invariant => MemoryMovesOn
  BY DEF Invariant, WorkerInvariant, MemoryBehind, MemoryMovesOn, Kept
<1> QED
  BY <1>1, Inductive, PTL

\* A tracked trajectory starts within one tick's way of the place it was put at
\* (stanley_controller_node.py, _trajectory_cb), for any depth of the topic.
THEOREM TrajectoryIsAnchored == Spec => []Anchored
<1>1. Invariant => Anchored
  BY DEF Invariant, ControllerInvariant, ControllerTyped, TracksAt, Anchored
<1> QED
  BY <1>1, Inductive, PTL

\* The controller stops the car exactly if nothing it could place was published
\* for the timeout (_control_cb), for any timeout.
THEOREM SilenceStopsCar == Spec => []SilentCarStops
<1>1. Invariant => SilentCarStops
  BY DEF Invariant, ControllerInvariant
<1> QED
  BY <1>1, Inductive, PTL

\* No frame is located with a number the threads have not yet stored (_camera_cb,
\* gps_to_location).
THEOREM FramesAreLocated == Spec => []LocatedOnAMap
<1>1. Invariant => LocatedOnAMap
  BY DEF Invariant, LiteInvariant
<1> QED
  BY <1>1, Inductive, PTL
=============================================================================
