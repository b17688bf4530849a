----------------------------- MODULE FrameServer -----------------------------
(***************************************************************************)
(* What a frame dispatcher promises, without threads, queues or locks:     *)
(* a frame is accepted by the GPU at most once, and ends.  An exclusive    *)
(* server takes one frame at a time, each newer than all before it.        *)
(***************************************************************************)
EXTENDS Integers

CONSTANTS Frames, Exclusive

VARIABLES flight, ended

Init == flight = {} /\ ended = {}

Accept(f) ==
  /\ f \notin flight \cup ended
  /\ Exclusive => flight = {} /\ \A g \in ended : g < f
  /\ flight' = flight \cup {f}
  /\ UNCHANGED ended

End(f) ==
  /\ f \in flight
  /\ flight' = flight \ {f}
  /\ ended' = ended \cup {f}

Next == \E f \in Frames : Accept(f) \/ End(f)

Spec == Init /\ [][Next]_<<flight, ended>>
=============================================================================
