---------------------------- MODULE MCOrionRoute -----------------------------
(***************************************************************************)
(* "no state can cross a route boundary": what that asks of the node.      *)
(***************************************************************************)
EXTENDS OrionRoute

InModel == pc["gpu"] = "model"
Batch   == batch[frame["gpu"]]

\* Once the context is reset for a route, no frame that was prepared for an
\* earlier one reaches the model, and with it _traj_state.
NoRouteCrossing == InModel => Batch.token >= resetFor

\* The heads' memory is never one of another route's frames when the model
\* runs, even if a route arrives while the reset of the one before it is under
\* way and its pending flag is lost; nor does the frame counter restart on it.
MemoryOneRoute ==
  InModel /\ testFlag =>
    /\ memory = Batch.token
    /\ modelLog # <<>> /\ batch[modelLog[Len(modelLog)]].idx < Batch.idx

\* A control tick that began before the reset may still feed the new controller
\* the old plan, but no more than one does.
OneStaleTick == staleTicks <= 1

\* "context will be reset before the next inference": a job still queued when
\* the route arrives resets the context before it gets to the model, or raises.
ResetBeforeNext ==
  \A f \in Frames :
    pendingReset /\ gpuJob[f] = "pending" ~> ~pendingReset \/ gpuJob[f] = "failed"
=============================================================================
