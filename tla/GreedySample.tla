---------------------------- MODULE GreedySample -----------------------------
(***************************************************************************)
(* What DrivingModel.forward promises for a frame: "every generated token  *)
(* re-runs a full forward over the whole prompt", and so does the driving  *)
(* head.  A token therefore follows from the prompt and the tokens before  *)
(* it, the plan from the prompt, all the tokens and the head's queries,    *)
(* and neither from another frame.                                         *)
(***************************************************************************)
EXTENDS Integers, Sequences

CONSTANTS
  Prompts,      \* the prompts of the frames, sequences of embeddings
  Tokens, EOS,  \* what the model may say, and what it ends with
  Queries,      \* the query tokens of the driving head
  MaxNewTokens  \* how much it may say

VARIABLES
  phase,   \* "idle", "sample" or "head"
  prompt,  \* the prompt of the frame
  tokens,  \* what has been said to it
  seen,    \* what the last token was sampled from
  plan     \* what the last plan was computed from

gvars == <<phase, prompt, tokens, seen, plan>>

Init ==
  /\ phase = "idle"
  /\ prompt = <<>> /\ tokens = <<>> /\ seen = <<>> /\ plan = <<>>

Ask ==
  /\ phase = "idle" /\ phase' = "sample"
  /\ prompt' \in Prompts /\ tokens' = <<>> /\ seen' = <<>>
  /\ UNCHANGED plan

\* The answer ends with EOS, or when it is long enough.
Said(answer) == Len(answer) = MaxNewTokens \/ \E i \in 1..Len(answer) : answer[i] = EOS

Sample ==
  /\ phase = "sample"
  /\ \E t \in Tokens : tokens' = Append(tokens, t)
  /\ phase' = IF Said(tokens') THEN "head" ELSE "sample"
  /\ seen' = prompt \o tokens
  /\ UNCHANGED <<prompt, plan>>

DrivingHead ==
  /\ phase = "head" /\ phase' = "idle"
  /\ plan' = prompt \o tokens \o Queries
  /\ UNCHANGED <<prompt, tokens, seen>>

\* A forward may raise; the next frame is none the worse for it.
Raise ==
  /\ phase # "idle" /\ phase' = "idle"
  /\ UNCHANGED <<prompt, tokens, seen, plan>>

Next == Ask \/ Sample \/ DrivingHead \/ Raise

Spec == Init /\ [][Next]_gvars
=============================================================================
