--------------------------------- MODULE IVC ---------------------------------
(***************************************************************************)
(* What incrementally verifiable computation promises (the IVC trait of    *)
(* crates/ivc/src/lib.rs): the statements for which some proof convinces   *)
(* the verifier grow only by satisfied steps of the step circuit, from the *)
(* initial state or from a statement that is itself proved.                *)
(***************************************************************************)
EXTENDS StepCircuit

VARIABLE attested    \* the statements with an accepted proof, for i > 0

Init == attested = {}

\* prove from the initial state, i = 0
Start ==
  \E k \in Keys, z0 \in Elems, e \in Ext :
    /\ MaxI > 0
    /\ Holds(k, 0, z0, e)
    /\ attested' = attested \cup
         {[key |-> k, i |-> 1, z0 |-> z0, z |-> StepOf(k, 0, z0, e)]}

\* prove from a proved statement
Extend ==
  \E c \in attested, e \in Ext :
    /\ c.i < MaxI
    /\ Holds(c.key, c.i, c.z, e)
    /\ attested' = attested \cup
         {[key |-> c.key, i |-> c.i + 1, z0 |-> c.z0, z |-> StepOf(c.key, c.i, c.z, e)]}

Next == Start \/ Extend

Spec == Init /\ [][Next]_attested

\* Nothing false is ever attested.
OnlyReachable == \A c \in attested : Reachable(c)
=============================================================================
