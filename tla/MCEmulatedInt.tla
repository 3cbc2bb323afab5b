---------------------------- MODULE MCEmulatedInt ----------------------------
(***************************************************************************)
(* EmulatedInt with limbs of two bits and the integers modulo 7, whose     *)
(* elements have a full limb and half of one.                              *)
(***************************************************************************)
EXTENDS EmulatedInt

MCRanges == {[lo |-> -2, hi |-> 1]}

\* The right limbs, and polynomials that vanish at 1, or at 1 and 2, or nowhere
MCTampering ==
  UNION {{[k \in 1 .. n |-> 0], [k \in 1 .. n |-> IF k = 1 THEN 1 ELSE 0],
          [k \in 1 .. n |-> CASE k = 1 -> -1 [] k = 2 -> 1 [] OTHER -> 0],
          [k \in 1 .. n |-> CASE k = 1 -> 2 [] k = 2 -> -3 [] k = 3 -> 1 [] OTHER -> 0]}
         : n \in 0 .. 3}
=============================================================================
