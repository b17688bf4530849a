---------------------------- MODULE MCFastForward ----------------------------
(***************************************************************************)
(* One cache, one mask and one graph for all frames, against a model that  *)
(* keeps none.                                                             *)
(***************************************************************************)
EXTENDS FastForward

\* Prompts of different lengths, that begin alike or not; one is too long.
SomePrompts ==
  {<<"a">>, <<"a", "b">>, <<"b", "b", "a">>, <<"b", "a", "b">>, <<"a", "b", "a", "b">>}
TwoQueries == <<"q1", "q2">>

\* A token is said when it is sampled; what is computed from it comes after.
Phase ==
  CASE pc \in {"capture", "decode"} -> IF Said(tokens) THEN "head" ELSE "sample"
    [] pc \in {"prefill", "sample", "slow"} -> "sample"
    [] pc \in {"head", "slowHead"} -> "head"
    [] OTHER -> "idle"

\* The fast path, graph or not, after frames that were longer, shorter or broken
\* off, computes every token and every plan from what the uncached model does.
G == INSTANCE GreedySample WITH phase <- Phase
Uncached == G!Spec

\* No row is written past the end of the cache, however long the answer is.
InCache ==
  /\ pc \in {"capture", "decode"} => sPos <= MaxCacheLen
  /\ pc = "head" => LastQuery <= MaxCacheLen
=============================================================================
