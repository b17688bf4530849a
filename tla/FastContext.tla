----------------------------- MODULE FastContext -----------------------------
(***************************************************************************)
(* recogdrive_speedups.py as recogdrive_node.py uses it: plans from static *)
(* tensors that CUDA graphs read, of which a frame rewrites only what it   *)
(* has to.  The reference lays out, for each frame anew, a context of at   *)
(* least Source rows: padding, the prefix of the prompt, then the image    *)
(* and the rest of the prompt (the tail).                                  *)
(*                                                                         *)
(* A row is a pair: a frame and the number of the row in its window; or 0  *)
(* and the number of the row in the prefix, where <<0, 0>> is a padding    *)
(* row.  A write to a tensor is taken to succeed as a whole: what raises   *)
(* is a stage, or the agent.                                               *)
(***************************************************************************)
EXTENDS Integers, Sequences

CONSTANTS
  Source,       \* SOURCE_MAX_LENGTH
  NPrefix,      \* _n_prefix
  NImg,         \* _n_img
  TailCapacity, \* TAIL_CAPACITY
  Tails,        \* the lengths of tails that occur
  MaxFrames     \* bound: frames of the road

ASSUME ContextAssumption ==
  /\ {Source, TailCapacity, MaxFrames} \subseteq Nat
  /\ {NPrefix, NImg} \subseteq Nat \ {0} /\ Tails \subseteq Nat \ {0}

VARIABLES
  fast,    \* _fast: "none", "on" or "dropped"
  pc,      \* where the worker is
  frame,   \* the frame it plans for; 0 is the black one of verify
  tail,    \* the length of its tail
  tiles,   \* whether the image is cut into n_tiles
  pixels,  \* _pixels, by frame
  win,     \* _win
  hidden,  \* what the llm stage returned
  ctx,     \* _ctx
  open,    \* the rows that _ctx_bias and _ctx_maskf leave, and _ctx_inv_len counts
  layout,  \* _ctx_layout
  status,  \* _his and _status, by frame
  rng,     \* the generator: "own" or "seeded" by verify
  planned  \* what the last plan was computed from

window      == <<pixels, win, hidden>>
context     == <<ctx, open, layout, status>>
input       == <<frame, tail, tiles>>
contextVars == <<fast, pc, input, window, context, rng, planned>>

WinSize == NImg + TailCapacity
CtxSize == IF NPrefix + WinSize > Source THEN NPrefix + WinSize ELSE Source
Zero    == <<-1, 0>>
Pad     == <<0, 0>>
Garbled == <<-2, 0>>
NotYet  == -1

NothingPlanned == [by |-> "none", frame |-> NotYet, tail |-> 0, rows |-> <<>>, status |-> NotYet,
                   noise |-> "own"]

ContextInit ==
  /\ fast = "none" /\ pc = "build"
  /\ frame = 0 /\ tail \in Tails /\ tiles \in BOOLEAN
  /\ pixels = NotYet /\ win = [i \in 1..WinSize |-> Zero] /\ hidden = win
  /\ ctx = [i \in 1..CtxSize |-> Zero] /\ open = 0 /\ layout = <<-1, -1>> /\ status = NotYet
  /\ rng = "own" /\ planned = NothingPlanned

-----------------------------------------------------------------------------
(* the layout                                                              *)

PadsFor(real) == IF Source > real THEN Source - real ELSE 0

\* The reference's context for a frame with a tail of this length.
Reference(f, length) ==
  LET real == NPrefix + NImg + length
      pads == PadsFor(real)
  IN  [i \in 1..pads + real |->
         IF i <= pads THEN Pad
         ELSE IF i <= pads + NPrefix THEN <<0, i - pads>>
         ELSE <<f, i - pads - NPrefix>>]

\* _set_context_layout: padding and prefix are written if they have moved, the
\* masks if the length has changed.
SetContextLayout(real, rows, layoutNow) ==
  LET pads == PadsFor(real) IN
  IF layoutNow = <<pads, real>> THEN [rows |-> rows, open |-> open, layout |-> layoutNow]
  ELSE [rows |-> IF pads = layoutNow[1] THEN rows
                 ELSE [i \in 1..CtxSize |->
                         IF i <= pads THEN Pad
                         ELSE IF i <= pads + NPrefix THEN <<0, i - pads>> ELSE rows[i]],
        open |-> pads + real, layout |-> <<pads, real>>]

-----------------------------------------------------------------------------
(* the setup, on the worker too                                            *)

\* FastReCogDrive around the agent; a constructor that raises leaves it out.
Build ==
  /\ pc = "build"
  /\ LET laid == SetContextLayout(Source - 1, ctx, layout) IN
       \/ /\ fast' = "on" /\ pc' = "seed"
          /\ ctx' = laid.rows /\ open' = laid.open /\ layout' = laid.layout
       \/ /\ fast' = "none" /\ pc' = "idle"
          /\ UNCHANGED <<ctx, open, layout>>
  /\ UNCHANGED <<input, window, status, rng, planned>>

\* verify on the black frame: the agent first, with a seed ...
VerifyReference ==
  /\ pc = "seed" /\ pc' = "tail"
  /\ rng' = "seeded"
  /\ UNCHANGED <<fast, input, window, context, planned>>

\* Mutant: the generators are put back only if all went well.
VerifyRaisesSeeded ==
  /\ pc \in {"seed", "tail", "vit", "llm", "planner"} /\ frame = 0
  /\ pc' = "idle"
  /\ rng' \in IF pc = "seed" THEN {"own", "seeded"} ELSE {"seeded"}
  /\ UNCHANGED <<fast, input, window, context, planned>>

\* ... if verify raises, the generators are put back and the warm-up is over.
\* The fast path stays.
VerifyRaises ==
  /\ pc \in {"seed", "tail", "vit", "llm", "planner"} /\ frame = 0
  /\ pc' = "idle"
  /\ rng' = "own"
  /\ UNCHANGED <<fast, input, window, context, planned>>

\* ... and then the fast path: dropped if they disagree, kept if they agree or
\* if it did not cover the frame.
Verified ==
  /\ pc = "compare" /\ pc' = "idle"
  /\ rng' = "own"
  /\ fast' \in IF planned.by = "fast" THEN {"on", "dropped"} ELSE {"on"}
  /\ UNCHANGED <<input, window, context, planned>>

-----------------------------------------------------------------------------
(* plan                                                                    *)

\* The next frame; the first is that of the warm-up, the black one again.
NewFrame ==
  /\ pc = "idle" /\ frame < MaxFrames
  /\ frame' = frame + 1
  /\ tail' \in Tails /\ tiles' \in BOOLEAN
  /\ pc' = IF fast = "on" THEN "tail" ELSE "agent"
  /\ UNCHANGED <<fast, window, context, rng, planned>>

Done == IF frame = 0 THEN "compare" ELSE "idle"

\* A prompt that is too long or tiles of another number: the agent has to plan.
Uncovered ==
  /\ pc = "tail" /\ (tail > TailCapacity \/ ~tiles)
  /\ pc' = IF frame = 0 THEN "compare" ELSE "agent"
  /\ UNCHANGED <<fast, input, window, context, rng, planned>>

SetPixels ==
  /\ pc = "tail" /\ tail <= TailCapacity /\ tiles
  /\ pc' = "vit"
  /\ pixels' = frame
  /\ UNCHANGED <<fast, input, win, hidden, context, rng, planned>>

\* The vision stage, and the window: image, tail, and slots that are not used.
FillWindow ==
  /\ pc = "vit" /\ pc' = "llm"
  /\ win' = [i \in 1..WinSize |->
               IF i <= NImg THEN <<pixels, i>> ELSE IF i <= NImg + tail THEN <<frame, i>> ELSE win[i]]
  /\ UNCHANGED <<fast, input, pixels, hidden, context, rng, planned>>

\* The llm stage: causal, over the prefix and the window.
HiddenRow(i) == IF \A j \in 1..i : win[j] = <<frame, j>> THEN <<frame, i>> ELSE Garbled

\* Mutant: rows are copied to where they were for the frame before.
FillContextFirst ==
  /\ pc = "llm" /\ pc' = "planner"
  /\ hidden' = [i \in 1..WinSize |-> HiddenRow(i)]
  /\ LET real == NPrefix + NImg + tail
         first == layout[1] + NPrefix
         moved == [i \in 1..CtxSize |->
                     IF i \in first + 1..first + NImg + tail THEN hidden'[i - first] ELSE ctx[i]]
         laid == SetContextLayout(real, moved, layout) IN
       /\ ctx' = laid.rows /\ open' = laid.open /\ layout' = laid.layout
  /\ status' = frame
  /\ UNCHANGED <<fast, input, pixels, win, rng, planned>>

\* Then the context is laid out, and the window's rows are copied into it.
FillContext ==
  /\ pc = "llm" /\ pc' = "planner"
  /\ hidden' = [i \in 1..WinSize |-> HiddenRow(i)]
  /\ LET real == NPrefix + NImg + tail
         laid == SetContextLayout(real, ctx, layout)
         first == laid.layout[1] + NPrefix IN
       /\ ctx' = [i \in 1..CtxSize |->
                    IF i \in first + 1..first + NImg + tail THEN hidden'[i - first] ELSE laid.rows[i]]
       /\ open' = laid.open /\ layout' = laid.layout
  /\ status' = frame
  /\ UNCHANGED <<fast, input, pixels, win, rng, planned>>

\* The noise is drawn, and the planner stage attends to what the bias leaves.
Planner ==
  /\ pc = "planner" /\ pc' = Done
  /\ planned' = [by |-> "fast", frame |-> frame, tail |-> tail,
                 rows |-> SubSeq(ctx, 1, open), status |-> status, noise |-> rng]
  /\ UNCHANGED <<fast, input, window, context, rng>>

\* The agent, where the fast path is not there or does not cover the frame.
AgentPlans ==
  /\ pc = "agent" /\ pc' = "idle"
  /\ planned' = [by |-> "agent", frame |-> frame, tail |-> tail,
                 rows |-> Reference(frame, tail), status |-> frame, noise |-> rng]
  /\ UNCHANGED <<fast, input, window, context, rng>>

\* A frame that raises is given up; the next one finds the tensors as they are.
FrameRaises ==
  /\ pc \in {"tail", "vit", "llm", "planner", "agent"} /\ frame > 0
  /\ pc' = "idle"
  /\ UNCHANGED <<fast, input, window, context, rng, planned>>

Setup == Build \/ VerifyReference \/ VerifyRaises \/ Verified
PlanFrame == NewFrame \/ Uncovered \/ SetPixels \/ FillWindow \/ FillContext
             \/ Planner \/ AgentPlans \/ FrameRaises
ContextNext == Setup \/ PlanFrame

ContextSpec == ContextInit /\ [][ContextNext]_contextVars
=============================================================================
