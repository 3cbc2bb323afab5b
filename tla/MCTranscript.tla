----------------------------- MODULE MCTranscript -----------------------------
(***************************************************************************)
(* Transcript over a field of 11 elements with three usable bits, bytes of *)
(* one bit, and a rate of two.                                             *)
(***************************************************************************)
EXTENDS Transcript

MCDomains == {<<1, 1>>, <<0, 1>>, <<0, 0, 1>>}
MCMessages == {<<<<1>>, <<>>>>}
=============================================================================
