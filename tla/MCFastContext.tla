---------------------------- MODULE MCFastContext ----------------------------
(***************************************************************************)
(* What ReCogDrive's planner attends to, frame after frame.                *)
(***************************************************************************)
EXTENDS FastContext

\* The planner gets "the reference's left-padded sequence" of its own frame, row
\* by row and no row more, whatever the lengths of the prompts before were and
\* wherever frames, or the verification, broke off.
ContextOfThisFrame ==
  planned # NothingPlanned =>
    /\ planned.rows = Reference(planned.frame, planned.tail)
    /\ planned.status = planned.frame

\* "An unseeded node stays unseeded": no plan of the road is drawn with the seed
\* of verify, however that ended.
DrawnUnseeded == planned.frame > 0 => planned.noise = "own"
=============================================================================
