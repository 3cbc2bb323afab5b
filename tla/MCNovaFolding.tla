---------------------------- MODULE MCNovaFolding ----------------------------
(***************************************************************************)
(* NovaFolding for the R1CS  w * w = x  and a commitment g v + h r.        *)
(***************************************************************************)
EXTENDS NovaFolding

MCA == <<0, 0, 1>>
MCB == <<0, 0, 1>>
MCC == <<0, 1, 0>>
=============================================================================
