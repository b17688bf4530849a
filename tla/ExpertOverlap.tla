---------------------------- MODULE ExpertOverlap ----------------------------
(***************************************************************************)
(* overlap_experts of minddrive_speedups.py: the decision expert's prefill *)
(* on a CUDA stream of its own, beside the action expert's.  The host only *)
(* queues work; a stream does its work in order, the streams wait for one  *)
(* another by events, and a tensor is there when its work is done.         *)
(*                                                                         *)
(* A piece of work is <<what, frame>>: "inputs" is what both prefills      *)
(* share, "action" and "decision" are the prefills, "use" is the reading   *)
(* of the decision's logits; "record" and "wait" go with an event, which   *)
(* is the name of the stream it is recorded on, and the frame.             *)
(***************************************************************************)
EXTENDS Integers, Sequences

CONSTANT MaxFrames \* bound: frames given to the model

ASSUME OverlapAssumption == MaxFrames \in Nat

VARIABLES
  host,   \* the round the host is at; 0 between frames
  frame,  \* the frame it is at
  rounds, \* the rounds of its batch
  ready,  \* state["inputs_ready"]: an event, or NoEvent
  cur,    \* the work queued on the current stream
  side,   \* the work queued on the side stream
  done    \* the work that is done, and the events that have happened

overlapVars == <<host, frame, rounds, ready, cur, side, done>>

NoEvent   == <<>>
Upstream  == <<"decision", "action">>

OverlapInit ==
  /\ host = 0 /\ frame = 0 /\ rounds = Upstream
  /\ ready = NoEvent
  /\ cur = <<>> /\ side = <<>> /\ done = {}

-----------------------------------------------------------------------------
(* the host                                                                *)

\* Mutant: the batch goes to the model with the rounds as they were.
KeepRounds(batch) == batch

\* reorder_rounds_for_overlap: the waypoint round before the meta-action round.
Reorder(batch) == IF batch[1] = "decision" THEN <<batch[2], batch[1]>> ELSE batch

Begin ==
  /\ host = 0 /\ frame < MaxFrames
  /\ host' = 1 /\ frame' = frame + 1
  /\ rounds' = Reorder(Upstream)
  /\ cur' = Append(cur, <<"inputs", frame'>>)
  /\ UNCHANGED <<ready, side, done>>

\* A round; one that follows the decision has waited for its argmax.
Round(expert) ==
  /\ host \in 1..2 /\ rounds[host] = expert
  /\ host = 2 /\ rounds[1] = "decision" => cur = <<>>

\* inference_waypoints: the event stands for all that is queued before it.
Action ==
  /\ Round("action")
  /\ ready' = <<"cur", frame>>
  /\ cur' = cur \o << <<"record", ready'>>, <<"action", frame>> >>
  /\ host' = host + 1
  /\ UNCHANGED <<frame, rounds, side, done>>

\* What the side stream waits for: that event or, if there is none, the current
\* stream as it is now.
Awaited     == IF ready # NoEvent THEN ready ELSE <<"cur", frame>>
WithAwaited == IF ready # NoEvent THEN cur ELSE Append(cur, <<"record", <<"cur", frame>>>>)

\* inference_action_distribution: the prefill on the side stream, for which the
\* current one waits before the logits are read.
Decision ==
  /\ Round("decision")
  /\ side' = side \o << <<"wait", Awaited>>, <<"decision", frame>>, <<"record", <<"side", frame>>>> >>
  /\ cur' = WithAwaited \o << <<"wait", <<"side", frame>>>>, <<"use", frame>> >>
  /\ ready' = NoEvent
  /\ host' = host + 1
  /\ UNCHANGED <<frame, rounds, done>>

\* The forward raises: before a round, or in the decision's, whose prefill may
\* then be queued and nothing waits for it.
Raises ==
  /\ host \in 1..2
  /\ host' = 0
  /\ UNCHANGED <<frame, rounds, done>>
  /\ \/ UNCHANGED <<ready, cur, side>>
     \/ /\ Round("decision")
        /\ side' = side \o << <<"wait", Awaited>>, <<"decision", frame>> >>
        /\ cur' = WithAwaited /\ ready' = NoEvent

\* torch.cuda.synchronize at the end of a forward.
Finish ==
  /\ host = 3 /\ cur = <<>> /\ side = <<>>
  /\ host' = 0
  /\ UNCHANGED <<frame, rounds, ready, cur, side, done>>

-----------------------------------------------------------------------------
(* the device                                                              *)

\* The first piece of work of a stream: recording an event makes it happen,
\* waiting for it takes until then.
Work(stream) ==
  /\ stream # <<>>
  /\ Head(stream)[1] = "wait" => Head(stream)[2] \in done
  /\ done' = CASE Head(stream)[1] = "wait"   -> done
               [] Head(stream)[1] = "record" -> done \cup {Head(stream)[2]}
               [] OTHER                      -> done \cup {Head(stream)}

CurWorks  == Work(cur)  /\ cur' = Tail(cur)   /\ UNCHANGED <<host, frame, rounds, ready, side>>
SideWorks == Work(side) /\ side' = Tail(side) /\ UNCHANGED <<host, frame, rounds, ready, cur>>

OverlapNext == Begin \/ Action \/ Decision \/ Raises \/ Finish \/ CurWorks \/ SideWorks
=============================================================================
