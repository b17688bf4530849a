------------------------------ MODULE Speedups -------------------------------
(***************************************************************************)
(* minddrive_speedups.py: transforms of the built model, applied one after *)
(* the other by replacing forwards, methods and weights.  The node applies *)
(* those its parameters ask for and runs the model; the bench applies a    *)
(* list of them, runs frames after each, and takes back what it can of a   *)
(* compilation or graph that fails.                                        *)
(*                                                                         *)
(* A forward or method is a closure: the module it is bound to, and the    *)
(* wrappers around that from the inside out.  Before the merge the experts *)
(* are one module with two adapters, the one that is merged in place as    *)
(* the decision expert.                                                    *)
(***************************************************************************)
EXTENDS Integers, Sequences

CONSTANTS
  MaxSpeedups, \* bound: how many of them are applied
  Variants     \* the lists the bench may be given (--variants)

ASSUME SpeedupsAssumption == MaxSpeedups \in Nat

VARIABLES
  user,    \* who applies them: "node" or "bench"
  todo,    \* the speedups that have not come up yet, in their order
  stage,   \* "apply", "run", "ready", or "failed"
  applied, \* done: the speedups that are logged as applied
  model    \* the model object, as far as it is changed

speedupsVars == <<user, todo, stage, applied, model>>

Experts == {"action_expert", "decision_expert"}
Calls   == {"inference_waypoints", "inference_action_distribution"}

Unset         == [on |-> "nothing", wraps |-> <<>>]
Bare(module)  == [on |-> module, wraps |-> <<>>]
Wrap(f, w)    == [f EXCEPT !.wraps = Append(@, w)]
Has(f, w)     == \E i \in DOMAIN f.wraps : f.wraps[i] = w
Topmost(f, w) == f.wraps # <<>> /\ f.wraps[Len(f.wraps)] = w

\* A module: its forward, and what _md_eager_forward keeps of it.
Module(name) == [fwd |-> Bare(name), eager |-> Unset]

Built ==
  [merged   |-> FALSE,
   broken   |-> FALSE,                        \* a merge broke off in place
   attn     |-> "sdpa",
   linear   |-> [qkv |-> "absent", proj |-> "weight", w3 |-> "weight",
                 attention |-> "weight", down |-> "weight"],
   glue     |-> FALSE, nopad |-> FALSE,       \* _md_glue, _md_nopad
   sliced   |-> FALSE,                        \* _md_sliced
   rope     |-> 640, pipeline |-> 640,        \* the sizes of the ViT and of its input
   vit      |-> Module("vit"), pregraph |-> Unset, stagger |-> FALSE,
   captured |-> {},                           \* the graphs of the ViT
   heads    |-> Module("heads"),
   llm      |-> [e \in Experts |-> Module("decision_expert")],
   method   |-> [c \in Calls |-> Bare("decision_expert")],
   outer    |-> [c \in Calls |-> Unset],      \* what a timer has put on the PeftModel
   overlap  |-> FALSE]                        \* _md_overlap

-----------------------------------------------------------------------------
(* the transforms                                                          *)

\* deepcopy binds a method to the copy; a function stays bound to the original.
Copied(f) ==
  IF f = Unset \/ Has(f, "compile") \/ Has(f, "overlap") \/ Has(f, "timer") THEN f
  ELSE [f EXCEPT !.on = "action_expert"]

MergeLora(m) ==
  IF m.merged THEN m
  ELSE [m EXCEPT !.merged = TRUE,
                 !.llm["action_expert"] = [fwd |-> Copied(@.fwd), eager |-> Copied(@.eager)],
                 !.method["inference_waypoints"] = Copied(@),
                 !.outer = [c \in Calls |-> Unset]]

\* The same weights in another class: none of the layers if one of them has other
\* weights, LoRA's or none.
AttentionLoads(m) == m.merged /\ m.linear.attention = "weight"
SetLlmAttention(m) == [m EXCEPT !.attn = "flash_attention_2"]

PatchVitBlocks(m) == IF m.glue THEN m ELSE [m EXCEPT !.glue = TRUE, !.linear.qkv = "weight"]

PatchWindowBlocks(m) == IF m.glue THEN [m EXCEPT !.nopad = TRUE] ELSE m

SliceMapHead(m) == [m EXCEPT !.sliced = TRUE]

TransposeLinear(form) == IF form = "weight" THEN "transposed" ELSE form
QuantizeLinear(form)  == IF form = "absent" THEN form ELSE "int8"

TransposeDownProj(m) == [m EXCEPT !.linear.down = TransposeLinear(@)]

TransposeVitLinears(m) ==
  [m EXCEPT !.linear.qkv = TransposeLinear(@), !.linear.proj = TransposeLinear(@),
            !.linear.w3 = TransposeLinear(@)]

\* The projections of the attention are linears once LoRA's are merged.
QuantizeLlm(m) ==
  [m EXCEPT !.linear.down = QuantizeLinear(@),
            !.linear.attention = IF m.merged THEN QuantizeLinear(@) ELSE @]

QuantizeVit(m) == [m EXCEPT !.linear.qkv = QuantizeLinear(@), !.linear.proj = QuantizeLinear(@)]

\* The node resizes its pipeline later, the bench before.
SetVitInputSize(m) == [m EXCEPT !.rope = 512, !.pipeline = 512]

Saved(x) == [x EXCEPT !.eager = IF @ = Unset THEN x.fwd ELSE @]
CompileForward(x, how) == [Saved(x) EXCEPT !.fwd = Wrap(Saved(x).eager, how)]

CompileVit(m)   == [m EXCEPT !.vit = CompileForward(@, "compile")]
CompileLlm(m)   == [m EXCEPT !.llm = [e \in Experts |-> CompileForward(@[e], "compile")]]
CompileHeads(m) == [m EXCEPT !.heads = CompileForward(@, "compile")]
GraphHeads(m)   == [m EXCEPT !.heads = CompileForward(@, "graphs")]

\* Mutant: the graph is taken of the forward that was saved for the compiler.
GraphVitEager(m) ==
  IF Topmost(m.vit.fwd, "graph") THEN m
  ELSE LET under == Saved(m.vit).eager IN
       [m EXCEPT !.pregraph = under, !.vit.fwd = Wrap(under, "graph"), !.captured = {}]

GraphVit(m) ==
  IF Topmost(m.vit.fwd, "graph") THEN m
  ELSE LET under == IF m.pregraph = Unset THEN m.vit.fwd ELSE m.pregraph IN
       [m EXCEPT !.pregraph = under, !.vit.fwd = Wrap(under, "graph"), !.captured = {}]

SliceDecisionLogits(m) ==
  [m EXCEPT !.method["inference_action_distribution"] = Wrap(Bare("decision_expert"), "slice")]

OverlapExperts(m) ==
  IF m.overlap THEN m
  ELSE [m EXCEPT !.overlap = TRUE, !.method = [c \in Calls |-> Wrap(@[c], "overlap")]]

InstallStaggeredViews(m) ==
  IF m.stagger THEN m ELSE [m EXCEPT !.stagger = TRUE, !.vit.fwd = Wrap(@, "stagger")]

\* StageTimer.wrap_llm: what an entry point is at this moment, with a timer.
Timed(f) == IF Topmost(f, "timer") THEN f ELSE Wrap(f, "timer")
WrapLlm(m) ==
  IF m.merged THEN [m EXCEPT !.method = [c \in Calls |-> Timed(@[c])]]
  ELSE [m EXCEPT !.outer = [c \in Calls |-> Timed(IF @[c] = Unset THEN m.method[c] ELSE @[c])]]

\* What is called: the PeftModel's own attribute hides the method of its base.
Path(m, c) == IF ~m.merged /\ m.outer[c] # Unset THEN m.outer[c] ELSE m.method[c]

Restored(x) == IF x.eager = Unset THEN x ELSE [fwd |-> x.eager, eager |-> Unset]
UncompileSubmodules(m) ==
  [m EXCEPT !.vit = Restored(@), !.heads = Restored(@), !.llm = [e \in Experts |-> Restored(@[e])]]

UngraphVit(m) ==
  IF m.pregraph = Unset THEN m ELSE [m EXCEPT !.vit.fwd = m.pregraph, !.pregraph = Unset]

-----------------------------------------------------------------------------
(* what the speedups are called, and the order they are applied in         *)

Transform(v, m) ==
  CASE v = "merge_lora"       -> MergeLora(m)
    [] v = "llm_attn"         -> SetLlmAttention(m)
    [] v = "vit_glue"         -> PatchVitBlocks(m)
    [] v = "down_proj_t"      -> TransposeDownProj(m)
    [] v = "vit_weight_t"     -> TransposeVitLinears(m)
    [] v = "vit_window_nopad" -> PatchWindowBlocks(m)
    [] v = "vit_input_size"   -> SetVitInputSize(m)
    [] v = "int8:llm"         -> QuantizeLlm(m)
    [] v = "int8:vit"         -> QuantizeVit(m)
    [] v = "map_head_slice"   -> SliceMapHead(m)
    [] v = "compile:heads"    -> CompileHeads(m)
    [] v = "compile:llm"      -> CompileLlm(m)
    [] v = "compile:vit"      -> CompileVit(m)
    [] v = "cuda_graph_heads" -> GraphHeads(m)
    [] v = "cuda_graph_vit"   -> GraphVit(m)
    [] v = "logits_slice"     -> SliceDecisionLogits(m)
    [] v = "overlap_experts"  -> OverlapExperts(m)
    [] v = "rear_view_refresh" -> InstallStaggeredViews(m)

Compilations == {"compile:heads", "compile:llm", "compile:vit"}
Graphs       == {"cuda_graph_heads", "cuda_graph_vit"}

\* The default of --variants.
BenchOrder ==
  <<"merge_lora", "llm_attn", "vit_glue", "map_head_slice", "down_proj_t", "vit_weight_t",
    "vit_window_nopad", "int8:llm", "int8:vit", "vit_input_size", "compile:heads", "compile:llm",
    "compile:vit", "cuda_graph_vit", "cuda_graph_heads", "logits_slice", "overlap_experts",
    "rear_view_refresh">>

\* Mutant: the merge comes when everything else is in place.
NodeOrderMergeLast ==
  <<"llm_attn", "vit_glue", "down_proj_t", "vit_weight_t", "vit_window_nopad", "vit_input_size",
    "int8:llm", "int8:vit", "map_head_slice", "compile:heads", "compile:llm", "compile:vit",
    "cuda_graph_heads", "cuda_graph_vit", "logits_slice", "overlap_experts", "rear_view_refresh",
    "merge_lora">>

\* apply_speedups, "in the order the bench validated them".
NodeOrder ==
  <<"merge_lora", "llm_attn", "vit_glue", "down_proj_t", "vit_weight_t", "vit_window_nopad",
    "vit_input_size", "int8:llm", "int8:vit", "map_head_slice", "compile:heads", "compile:llm",
    "compile:vit", "cuda_graph_heads", "cuda_graph_vit", "logits_slice", "overlap_experts",
    "rear_view_refresh">>

\* The bench goes through its list as it is given, its timer already on the model.
SpeedupsInit ==
  /\ \/ user = "node" /\ todo = NodeOrder /\ model = Built
     \/ user = "bench" /\ todo \in Variants /\ model = WrapLlm(Built)
  /\ stage = "apply" /\ applied = <<>>

-----------------------------------------------------------------------------
(* applying them                                                           *)

Speedup  == Head(todo)
TakeNext == stage = "apply" /\ todo # <<>> /\ todo' = Tail(todo) /\ UNCHANGED user

Skip == TakeNext /\ UNCHANGED <<stage, applied, model>>

\* A speedup that is asked for; with both, the node leaves the heads to the graph.
Asked ==
  /\ TakeNext
  /\ Len(applied) < MaxSpeedups
  /\ user = "node" /\ Speedup = "cuda_graph_heads" =>
       \A i \in DOMAIN applied : applied[i] # "compile:heads"

\* The bench puts its timer on the methods that were replaced, and logs nothing:
\* applied is then what it has gone through.
Apply ==
  /\ Asked
  /\ Speedup = "llm_attn" => AttentionLoads(model)
  /\ LET changed == Transform(Speedup, model) IN
       /\ applied' = IF user = "bench" \/ changed # model THEN Append(applied, Speedup) ELSE applied
       /\ model' = IF user = "bench" THEN WrapLlm(changed) ELSE changed
  /\ stage' = IF user = "bench" THEN "run" ELSE "apply"

OnlySaved(v) ==
  CASE v = "compile:heads" -> [model EXCEPT !.heads = Saved(@)]
    [] v = "compile:llm"   -> [model EXCEPT !.llm["action_expert"] = Saved(@),
                                            !.llm["decision_expert"] = IF model.merged THEN @ ELSE Saved(@)]
    [] v = "compile:vit"   -> [model EXCEPT !.vit = Saved(@)]

\* A compilation that raises (a mode there is not) is left out; the forward of the
\* first module has been saved by then.
CompileRaises ==
  /\ Asked /\ Speedup \in Compilations
  /\ model' = OnlySaved(Speedup)
  /\ UNCHANGED <<stage, applied>>

\* A transform raises before it has changed anything, but that the adapters may
\* be merged in place by half and the pipeline of the bench resized: the node
\* does not come up, the bench goes on with the next.
SpeedupRaises ==
  /\ Asked /\ Speedup \notin Compilations
  /\ model' \in
       {IF Speedup = "vit_input_size" /\ user = "bench" THEN [model EXCEPT !.pipeline = 512] ELSE model}
       \cup (IF Speedup = "merge_lora" THEN {[model EXCEPT !.broken = TRUE]} ELSE {})
  /\ stage' = IF user = "node" THEN "failed" ELSE "apply"
  /\ UNCHANGED applied

-----------------------------------------------------------------------------
(* running it                                                              *)

\* What a graph of the ViT captures.
Present(m) ==
  [blocks |-> <<m.glue, m.nopad, m.rope>>,
   linears |-> <<m.linear.qkv, m.linear.proj, m.linear.w3>>,
   kernels |-> {w \in {"compile"} : Has(m.vit.fwd, w)}]

\* CudaGraphed keeps one graph for each shape it is called with.
Shapes(m) == {<<m.pipeline, n>> : n \in IF m.stagger THEN {"six", "three"} ELSE {"six"}}
Captures(m) ==
  IF ~Has(m.vit.fwd, "graph") THEN m
  ELSE LET new == {s \in Shapes(m) : \A g \in m.captured : g[1] # s} IN
       [m EXCEPT !.captured = @ \cup {<<s, Present(m)>> : s \in new}]

\* The node's setup is over: its timer, if the stages are profiled, and the
\* warm-up, which may raise.
WarmUp ==
  /\ user = "node" /\ stage = "apply" /\ todo = <<>>
  /\ stage' = "ready"
  /\ \E profiled \in BOOLEAN, raises \in BOOLEAN :
       LET timed == IF profiled THEN WrapLlm(model) ELSE model IN
       model' = IF raises THEN timed ELSE Captures(timed)
  /\ UNCHANGED <<user, todo, applied>>

RunFrames ==
  /\ stage = "run" /\ model.pipeline = model.rope
  /\ stage' = "apply"
  /\ model' = Captures(model)
  /\ UNCHANGED <<user, todo, applied>>

\* Frames of the bench that raise: what the variant before was compiled or
\* captured for is taken back, everything that is compiled with it.
RunFails ==
  /\ stage = "run"
  /\ stage' = "apply"
  /\ model' = IF applied # <<>> /\ applied[Len(applied)] \in Compilations \cup Graphs
              THEN UngraphVit(UncompileSubmodules(model)) ELSE model
  /\ UNCHANGED <<user, todo, applied>>

SpeedupsNext == Skip \/ Apply \/ CompileRaises \/ SpeedupRaises \/ WarmUp \/ RunFrames \/ RunFails
=============================================================================
