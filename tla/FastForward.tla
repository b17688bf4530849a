----------------------------- MODULE FastForward -----------------------------
(***************************************************************************)
(* The fast path of SimLingo: fast_inference.py, which the node patches    *)
(* its model with, and simlingo_accel.py, the same forward with compiled   *)
(* parts, which the benches use.  One StaticCache, one mask and one        *)
(* captured graph serve every frame; what is in them is left from before.  *)
(*                                                                         *)
(* A row of the cache is written with what the token in it has seen: the   *)
(* text up to and including the token, or <<>> if a row it attended to was *)
(* not of that text.  Positions count from 1.                              *)
(***************************************************************************)
EXTENDS Integers, Sequences

CONSTANTS
  Prompts, Tokens, EOS, Queries, MaxNewTokens,
  MaxCacheLen,  \* max_cache_len
  Margin        \* what the check of the prompt's length leaves for the queries

ASSUME FastAssumption ==
  /\ \A p \in Prompts : p \in Seq(STRING) /\ p # <<>>
  /\ Tokens \subseteq STRING /\ EOS \in Tokens
  /\ Queries \in Seq(STRING) /\ Queries # <<>>
  /\ MaxNewTokens \in Nat \ {0} /\ MaxCacheLen \in Nat
  /\ Margin \in Nat /\ Len(Queries) <= Margin

VARIABLES
  forward,   \* model.forward: "slow" or "fast"
  useGraph,  \* use_cuda_graph, after SDPA was or was not available
  warm,      \* how many calls with the warm-up example are to be answered
  cache,     \* the rows of the StaticCache
  mask,      \* s_mask: the positions that are True
  sPos,      \* s_pos
  sEmb,      \* s_emb
  graph,     \* _graph and _graph_failed: "none", "captured" or "failed"
  pc,        \* where the setup or the call is
  prompt,    \* the prompt of this call
  tokens,    \* the locals of __call__ ...
  pos,
  hidden,    \* ... where hidden is what the last row has seen
  seen,      \* history: what the last token was sampled from
  plan       \* history: what the last plan was computed from

setup   == <<forward, useGraph, warm>>
tensors == <<cache, mask, sPos, sEmb>>
locals  == <<prompt, tokens, pos, hidden>>
vars    == <<setup, tensors, graph, pc, locals, seen, plan>>

Said(answer) == Len(answer) = MaxNewTokens \/ \E i \in 1..Len(answer) : answer[i] = EOS

Slots == 1..MaxCacheLen

\* The node optimises or does not; a bench accelerates.
Init ==
  /\ forward = "slow" /\ useGraph = TRUE /\ warm = 0
  /\ cache = [p \in Slots |-> <<>>] /\ mask = {} /\ sPos = 1 /\ sEmb = EOS
  /\ graph = "none"
  /\ pc \in {"optimize", "accelerate", "idle"}
  /\ prompt = <<>> /\ tokens = <<>> /\ pos = 1 /\ hidden = <<>>
  /\ seen = <<>> /\ plan = <<>>

-----------------------------------------------------------------------------
(* patching the model                                                      *)

\* optimize_for_inference, or accelerate, merges LoRA and tries SDPA, without
\* which there is no graph.
ForceSdpa ==
  /\ pc \in {"optimize", "accelerate"}
  /\ useGraph' \in BOOLEAN
  /\ pc' = IF pc = "optimize" THEN "install" ELSE "compile"
  /\ UNCHANGED <<forward, warm, tensors, graph, locals, seen, plan>>

\* The node goes on with the model as it is by then.
OptimizeRaises ==
  /\ pc \in {"optimize", "install"} /\ pc' = "idle"
  /\ UNCHANGED <<setup, tensors, graph, locals, seen, plan>>

Install ==
  /\ pc = "install" /\ pc' = "idle"
  /\ forward' = "fast"
  /\ UNCHANGED <<useGraph, warm, tensors, graph, locals, seen, plan>>

\* accelerate compiles what can be compiled, and runs the warm-up example twice
\* if it was given one.
Accelerate ==
  /\ pc = "compile" /\ pc' = "idle"
  /\ forward' = "fast" /\ warm' \in {0, 2}
  /\ UNCHANGED <<useGraph, tensors, graph, locals, seen, plan>>

-----------------------------------------------------------------------------
(* one call                                                                *)

\* lm(items) with the cache, from position at: every row attends to the rows up
\* to its own for which the mask is True.
Before(rows, at) == IF at = 1 THEN <<>> ELSE rows[at - 1]
TextUpTo(rows, at) ==
  Len(Before(rows, at)) = at - 1 /\ \A j \in 1..at - 1 : rows[j] = SubSeq(Before(rows, at), 1, j)
Row(rows, seeing, at, items, p) ==
  IF 1..p \subseteq seeing /\ TextUpTo(rows, at)
  THEN Before(rows, at) \o SubSeq(items, 1, p - at + 1) ELSE <<>>
Written(rows, seeing, at, items) ==
  [p \in Slots |-> IF p \in at..at + Len(items) - 1 THEN Row(rows, seeing, at, items, p)
                   ELSE rows[p]]

\* Mutant: the check forgets the tokens to come.
PromptFits(p) == Len(p) + Margin <= MaxCacheLen

Fit(p) == Len(p) + MaxNewTokens + Margin <= MaxCacheLen

Called(p) ==
  /\ prompt' = p /\ tokens' = <<>>
  /\ hidden' = <<>> /\ seen' = <<>>
  /\ UNCHANGED <<setup, tensors, graph, plan>>

\* A prompt that may not fit is refused before anything is touched.
Call ==
  /\ pc = "idle" /\ forward = "fast" /\ pc' = "prefill"
  /\ \E p \in Prompts : Fit(p) /\ Called(p) /\ pos' = Len(p) + 1

SlowCall ==
  /\ pc = "idle" /\ forward = "slow" /\ pc' = "slow"
  /\ \E p \in Prompts : Called(p)
  /\ UNCHANGED pos

\* cache.reset() and the prefill, up to its last row.
Prefill ==
  /\ pc = "prefill" /\ pc' = "sample"
  /\ mask' = 1..Len(prompt)
  /\ cache' = Written([p \in Slots |-> <<>>], mask', 1, prompt)
  /\ hidden' = cache'[Len(prompt)]
  /\ UNCHANGED <<setup, sPos, sEmb, graph, prompt, tokens, pos, seen, plan>>

Sample ==
  /\ pc = "sample"
  /\ \E t \in Tokens : tokens' = Append(tokens, t) /\ sEmb' = t
  /\ sPos' = pos /\ mask' = mask \cup {pos}
  /\ pc' = IF useGraph /\ graph = "none" THEN "capture" ELSE "decode"
  /\ seen' = hidden
  /\ UNCHANGED <<setup, cache, graph, prompt, pos, hidden, plan>>

Stepped == Written(cache, mask, sPos, <<sEmb>>)

\* The first step is captured after it was run three times; that may fail at any
\* point, for good.
Capture ==
  /\ pc = "capture" /\ pc' = "decode"
  /\ \/ graph' = "captured" /\ cache' = Stepped
     \/ graph' = "failed" /\ cache' \in {cache, Stepped}
  /\ UNCHANGED <<setup, mask, sPos, sEmb, locals, seen, plan>>

\* Mutant: the token that ends the answer is left out of the cache.
DecodeUnlessEOS ==
  /\ pc = "decode"
  /\ IF sEmb = EOS THEN UNCHANGED <<cache, hidden, pos>>
     ELSE cache' = Stepped /\ hidden' = cache'[sPos] /\ pos' = pos + 1
  /\ pc' = IF Said(tokens) THEN "head" ELSE "sample"
  /\ UNCHANGED <<setup, mask, sPos, sEmb, graph, prompt, tokens, seen, plan>>

\* A replay or an eager step: both read the static tensors.
Decode ==
  /\ pc = "decode"
  /\ cache' = Stepped
  /\ hidden' = cache'[sPos]
  /\ pos' = pos + 1
  /\ pc' = IF Said(tokens) THEN "head" ELSE "sample"
  /\ UNCHANGED <<setup, mask, sPos, sEmb, graph, prompt, tokens, seen, plan>>

LastQuery == pos + Len(Queries) - 1

\* The driving head continues the cache.
DrivingHead ==
  /\ pc = "head" /\ pc' = "idle"
  /\ mask' = mask \cup pos..LastQuery
  /\ cache' = Written(cache, mask', pos, Queries)
  /\ plan' = cache'[LastQuery]
  /\ warm' = IF warm > 0 THEN warm - 1 ELSE 0
  /\ UNCHANGED <<forward, useGraph, sPos, sEmb, graph, locals, seen>>

Calling == pc \in {"prefill", "sample", "capture", "decode", "head"}

\* A forward that raises may have spoilt the rows it was to write.  A bench ends
\* with its warm-up.
Raise ==
  /\ Calling \/ pc \in {"slow", "slowHead"}
  /\ pc' = IF warm > 0 THEN "ended" ELSE "idle"
  /\ cache' \in {cache, [p \in Slots |-> IF p >= pos THEN <<>> ELSE cache[p]]}
  /\ UNCHANGED <<setup, mask, sPos, sEmb, graph, locals, seen, plan>>

\* _slow_forward: no cache.
SlowSample ==
  /\ pc = "slow"
  /\ \E t \in Tokens : tokens' = Append(tokens, t)
  /\ seen' = prompt \o tokens
  /\ pc' = IF Said(tokens') THEN "slowHead" ELSE "slow"
  /\ UNCHANGED <<setup, tensors, graph, prompt, pos, hidden, plan>>

SlowHead ==
  /\ pc = "slowHead" /\ pc' = "idle"
  /\ plan' = prompt \o tokens \o Queries
  /\ UNCHANGED <<setup, tensors, graph, locals, seen>>

Patching == ForceSdpa \/ OptimizeRaises \/ Install \/ Accelerate
Fast     == Call \/ Prefill \/ Sample \/ Capture \/ Decode \/ DrivingHead
Slow     == SlowCall \/ SlowSample \/ SlowHead
Next     == Patching \/ Fast \/ Slow \/ Raise

Spec == Init /\ [][Next]_vars
=============================================================================
