---------------------------- MODULE NovaCycleFold ----------------------------
(***************************************************************************)
(* The CycleFold adapter of Nova, crates/ivc/src/compilers/cyclefold/      *)
(* adapters/nova.rs, on the folds of NovaFolding.                          *)
(*                                                                         *)
(* The augmented circuit does not compute the folded commitments: it takes *)
(* them as hints, and hands over the sums of points they should be to      *)
(* CycleFold circuits.  Natively, a fold is turned into the circuits to    *)
(* prove; in the circuit, into the public inputs that their instances must *)
(* have.  Both take rho from a replay of the fold's transcript.            *)
(***************************************************************************)
EXTENDS NovaFolding

VARIABLES
  pinned,   \* the commitments (cm_e, cm_w) that the last fold's hints could have been
  matched   \* its circuits have the public inputs that the augmented circuit computed

cfVars == <<W, U, honest, views, inSync, folds, pinned, matched>>

Circuit(rho, p0, p1) == [r |-> rho, points |-> <<p0, p1>>]

\* verify_point_rlc: the public inputs of a circuit
Public(c) == <<c.r, c.points[1], c.points[2], (c.points[2] * c.r + c.points[1]) % P>>

\* What the public inputs of a CycleFold instance can be
Provable == {Public(Circuit(rho, p0, p1)) : rho, p0, p1 \in F}

(***************************************************************************)
(* (1,1)                                                                   *)
(***************************************************************************)
Circuits11(uu, u, cm_t, rho) ==
  <<Circuit(rho, uu.cm_e, cm_t), Circuit(rho, uu.cm_w, u.cm_w)>>

\* folded.cm_e and folded.cm_w are hints
Inputs11(uu, u, folded, cm_t, rho) ==
  <<<<rho, uu.cm_e, cm_t, folded.cm_e>>, <<rho, uu.cm_w, u.cm_w, folded.cm_w>>>>

(***************************************************************************)
(* (2,0)                                                                   *)
(***************************************************************************)
\* The point between the first circuit and the second
Between20(u2, cm_t, rho) == (u2.cm_e * rho + cm_t) % P

Circuits20(u1, u2, cm_t, rho) ==
  <<Circuit(rho, cm_t, u2.cm_e),
    Circuit(rho, u1.cm_e, Between20(u2, cm_t, rho)),
    Circuit(rho, u1.cm_w, u2.cm_w)>>

\* Mutant: the hinted point is not tied to the first circuit
MutInputs20(u1, u2, folded, cm_t, cm_tmp, rho) ==
  <<<<rho, cm_t, u2.cm_e, Between20(u2, cm_t, rho)>>,
    <<rho, u1.cm_e, cm_tmp, folded.cm_e>>,
    <<rho, u1.cm_w, u2.cm_w, folded.cm_w>>>>

\* cm_tmp is a hint as well
Inputs20(u1, u2, folded, cm_t, cm_tmp, rho) ==
  <<<<rho, cm_t, u2.cm_e, cm_tmp>>,
    <<rho, u1.cm_e, cm_tmp, folded.cm_e>>,
    <<rho, u1.cm_w, u2.cm_w, folded.cm_w>>>>

-----------------------------------------------------------------------------
AllProvable(inputs) == \A k \in DOMAIN inputs : inputs[k] \in Provable

Hints == [cm_e : F, cm_w : F]

Publics(circuits) == [k \in DOMAIN circuits |-> Public(circuits[k])]

CFInit == Init /\ pinned = {[cm_e |-> U.cm_e, cm_w |-> U.cm_w]} /\ matched = TRUE

CFResample == Resample /\ pinned' = {[cm_e |-> U'.cm_e, cm_w |-> U'.cm_w]} /\ UNCHANGED matched

CFFoldIncoming(x, w, rho, r_w, r_t) ==
  /\ FoldIncoming(x, w, rho, r_w, r_t)
  /\ LET in   == SampleIncoming(x, w, r_w)
         cm_t == Commit(Term11(W, U, in.w, in.u), r_t)
     IN  /\ pinned' = {h \in Hints : AllProvable(Inputs11(U, in.u, h, cm_t, rho))}
         /\ matched' =
              (Publics(Circuits11(U, in.u, cm_t, rho)) = Inputs11(U, in.u, U', cm_t, rho))

CFFoldRunning(new, keptFirst, rho, r_t) ==
  /\ FoldRunning(new, keptFirst, rho, r_t)
  /\ LET p1   == Pairs(new, keptFirst)[1]
         p2   == Pairs(new, keptFirst)[2]
         cm_t == Commit(Term20(p1.W, p1.U, p2.W, p2.U), r_t)
         tmp  == Between20(p2.U, cm_t, rho)
     IN  /\ pinned' = {h \in Hints : \E cm_tmp \in F :
                         AllProvable(Inputs20(p1.U, p2.U, h, cm_t, cm_tmp, rho))}
         /\ matched' =
              (Publics(Circuits20(p1.U, p2.U, cm_t, rho))
                 = Inputs20(p1.U, p2.U, U', cm_t, tmp, rho))

CFNext ==
  \/ CFResample
  \/ \E x, w, rho \in F, r_w, r_t \in Blinds : CFFoldIncoming(x, w, rho, r_w, r_t)
  \/ \E u, x, w, rho \in F, r_w, r_e, r_t \in Blinds, keptFirst \in BOOLEAN :
       CFFoldRunning(SampleRunning(u, x, w, r_w, r_e), keptFirst, rho, r_t)

CFSpec == CFInit /\ [][CFNext]_cfVars

-----------------------------------------------------------------------------
\* The circuits that are proved are the ones the augmented circuit asks for, and no hint
\* other than the commitments the prover folded passes them, be it by a choice of the
\* point that the first two circuits of a (2,0) fold have in common.
DelegationExact == matched /\ pinned = {[cm_e |-> U.cm_e, cm_w |-> U.cm_w]}
=============================================================================
