-------------------------- MODULE MCStatefulProver ---------------------------
(***************************************************************************)
(* StatefulProver with the two counting circuits of MCCycleFoldIVC, and an *)
(* external input "fail" on which they return an error.                    *)
(***************************************************************************)
EXTENDS StatefulProver

CONSTANTS k1, k2

MCStepOf(k, i, z, e) ==
  IF e = "reset" \/ (k = k2 /\ i > 0 /\ z = 1) THEN 0 ELSE 1

MCHolds(k, i, z, e) == e = "count"

MCSecondaryKey(k) == 0
=============================================================================
