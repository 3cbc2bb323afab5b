--------------------------- MODULE MCCycleFoldIVC ----------------------------
(***************************************************************************)
(* CycleFoldIVC with step circuits that count up to 1 and stay there.  On  *)
(* the input "reset" a circuit computes 0, and its constraints reject it:  *)
(* so 0 is reached in no satisfied step.  The circuit of key k2 can also   *)
(* count from 1 back to 0, in every step but the first.                    *)
(***************************************************************************)
EXTENDS CycleFoldIVC

CONSTANTS k1, k2

MCStepOf(k, i, z, e) ==
  IF e = "reset" \/ (k = k2 /\ i > 0 /\ z = 1) THEN 0 ELSE 1

MCHolds(k, i, z, e) == e = "count"

\* Keys generated from the same public parameters have the same secondary key
MCSecondaryKey(k) == 0
=============================================================================
