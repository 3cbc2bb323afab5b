--------------------------- MODULE MCKeyGeneration ---------------------------
(***************************************************************************)
(* KeyGeneration for two circuits of a scheme like Nova, one with more     *)
(* constraints and one with more witnesses, and one of a scheme whose      *)
(* verifier grows with the logarithm of the number of constraints.         *)
(***************************************************************************)
EXTENDS KeyGeneration

Arith(m, n, l) == [m |-> m, n |-> n, l |-> l]

BitLength(size) == Min({b \in 0 .. size : size < 2 ^ b})

MCSynth(c, cfg1, cfg2) ==
  CASE c = "deep" -> Arith(4 + Min({1, cfg1.n_public_inputs}), 4, 1)
    [] c = "wide" -> Arith(2, 7 + Min({1, cfg1.n_public_inputs}), 1)
    [] c = "log"  -> Arith(2 + BitLength(cfg1.n_constraints), 2, 1)

MCCycleFoldR1CS == Arith(3, 7, 2)
=============================================================================
