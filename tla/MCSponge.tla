------------------------------- MODULE MCSponge -------------------------------
(***************************************************************************)
(* Sponge with two lanes, bits for field elements and messages of up to    *)
(* two and a half blocks.                                                  *)
(***************************************************************************)
EXTENDS SpongeAtomic

MCPlus(a, b) == (a + b) % 2
MCMessages == UNION {[1 .. n -> Elements] : n \in 0 .. 5}
=============================================================================
