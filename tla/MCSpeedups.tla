----------------------------- MODULE MCSpeedups ------------------------------
(***************************************************************************)
(* What stands between a node and its model: MindDrive's forwards when the *)
(* speedups have been applied, and what its two streams read then; and     *)
(* SimLingo's cached decode.                                               *)
(***************************************************************************)
EXTENDS Speedups, ExpertOverlap, MCFastForward

VARIABLE part \* the one that is looked at: "model", "streams" or "decode"

allParts == <<part, speedupsVars, overlapVars, vars>>

PartInit ==
  /\ part \in {"model", "streams", "decode"}
  /\ SpeedupsInit /\ OverlapInit /\ Init
  /\ part # "model" => user = "node"
  /\ part # "decode" => pc = "idle"

PartNext ==
  /\ UNCHANGED part
  /\ \/ part = "model" /\ SpeedupsNext /\ UNCHANGED <<overlapVars, vars>>
     \/ part = "streams" /\ OverlapNext /\ UNCHANGED <<speedupsVars, vars>>
     \/ part = "decode" /\ Next /\ UNCHANGED <<speedupsVars, overlapVars>>

PartSpec == PartInit /\ [][PartNext]_allParts

-----------------------------------------------------------------------------
(* the lists of the bench                                                  *)

KnownVariants == {BenchOrder[i] : i \in DOMAIN BenchOrder}

ReplacesExperts == {"compile:llm", "logits_slice", "overlap_experts"}
ChangesBackbone ==
  {"vit_glue", "vit_weight_t", "vit_window_nopad", "vit_input_size", "int8:vit", "compile:vit",
   "cuda_graph_vit"}

\* Merged once and before the forwards and methods of the experts are replaced,
\* and the ViT captured after everything that changes it, and before it is
\* staggered.
WellOrdered(list) ==
  /\ list \in Seq(KnownVariants)
  /\ \A i, j \in DOMAIN list : i < j =>
       /\ list[j] = "merge_lora" => list[i] \notin ReplacesExperts \cup {"merge_lora"}
       /\ list[i] = "cuda_graph_vit" => list[j] \notin ChangesBackbone
       /\ list[i] = "rear_view_refresh" => list[j] # "cuda_graph_vit"

\* The default, and one that captures first what it can.
ListsInOrder ==
  {BenchOrder,
   <<"vit_glue", "compile:vit", "cuda_graph_vit", "rear_view_refresh", "int8:llm", "merge_lora",
     "logits_slice", "overlap_experts", "compile:llm", "cuda_graph_heads">>}

\* What the bench takes just as well.
CapturedTooEarly == {<<"cuda_graph_vit", "vit_weight_t">>}

-----------------------------------------------------------------------------
IsApplied(v) == \E i \in DOMAIN applied : applied[i] = v

\* The wrapper that a speedup puts on, if it was applied.
By(v, wrapper) == IF IsApplied(v) THEN <<wrapper>> ELSE <<>>
VitWraps   == By("compile:vit", "compile") \o By("cuda_graph_vit", "graph")
                \o By("rear_view_refresh", "stagger")
HeadsWraps == By("compile:heads", "compile") \o By("cuda_graph_heads", "graphs")
CallWraps(c) ==
  IF c = "inference_waypoints" THEN By("overlap_experts", "overlap")
  ELSE By("logits_slice", "slice") \o By("overlap_experts", "overlap")

\* "speedups applied: [...]": a forward of the node goes through what is logged,
\* each once and in the order it must have: the graph replays the compiled
\* kernels, and only what is called with all views is staggered.  The timer, if
\* the stages are profiled, is around all of it.
AppliedInEffect ==
  user = "node" /\ stage # "failed" =>
    /\ model.vit.fwd.wraps = VitWraps
    /\ model.heads.fwd.wraps = HeadsWraps
    /\ \A e \in Experts : model.llm[e].fwd.wraps = By("compile:llm", "compile")
    /\ \A c \in Calls : Path(model, c).wraps \in {CallWraps(c), Append(CallWraps(c), "timer")}

Owner == [c \in Calls |-> IF c = "inference_waypoints" THEN "action_expert" ELSE "decision_expert"]

\* "either exact (same math, fewer launches) or a precision change": whatever is
\* applied, tried, or taken back, by the node or by a bench whose list is in
\* order, each expert answers with its own weights, and a graph replays the
\* backbone as it is now.
SameModel ==
  /\ model.merged /\ ~model.broken =>
       /\ \A e \in Experts : model.llm[e].fwd.on = e
       /\ \A c \in Calls : model.method[c].on = Owner[c]
  /\ Has(model.vit.fwd, "graph") => \A g \in model.captured : g[2] = Present(model)

-----------------------------------------------------------------------------
\* "waiting only for the inputs both prefills share": no prefill is done before
\* the inputs of its frame are there, and no logits are read before theirs are.
ReadWhenThere ==
  [][\A f \in 1..MaxFrames :
       /\ \A prefill \in {"action", "decision"} :
            <<prefill, f>> \in done' \ done => <<"inputs", f>> \in done
       /\ <<"use", f>> \in done' \ done => <<"decision", f>> \in done]_overlapVars
=============================================================================
