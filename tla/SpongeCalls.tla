------------------------------ MODULE SpongeCalls ------------------------------
(***************************************************************************)
(* What a sponge promises: every call of add_field_elements and of         *)
(* get_field_elements takes effect at once and as a whole.                 *)
(***************************************************************************)
EXTENDS DuplexCalls

CONSTANTS
  Messages,  \* what a call may add
  MaxGet     \* bound on the elements a call may squeeze

VARIABLE s

Init == s = NewSponge

Next ==
  \/ \E elements \in Messages : s' = Absorb(s, elements)
  \/ \E n \in 0 .. MaxGet : s' = Squeeze(s, n)

Spec == Init /\ [][Next]_s
=============================================================================
