--------------------------- MODULE MCNovaCycleFold ---------------------------
(***************************************************************************)
(* NovaCycleFold for the R1CS  w * w = x  and a commitment g v + h r.      *)
(***************************************************************************)
EXTENDS NovaCycleFold

MCA == <<0, 0, 1>>
MCB == <<0, 0, 1>>
MCC == <<0, 1, 0>>
=============================================================================
