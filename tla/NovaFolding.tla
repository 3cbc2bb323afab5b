----------------------------- MODULE NovaFolding -----------------------------
(***************************************************************************)
(* The Nova folding scheme of crates/fs/src/nova over a small prime field, *)
(* with the Pedersen commitment of crates/primitives/src/commitments.      *)
(*                                                                         *)
(* The state machine is a user of the scheme who holds a decider key,      *)
(* samples pairs, folds them, (1,1) or (2,0), into the running pair it     *)
(* keeps, and verifies every fold natively and in the circuit.             *)
(*                                                                         *)
(* The R1CS has one constraint, one public input and one witness, so the   *)
(* vectors of the code are numbers here: it folds them coordinate by       *)
(* coordinate with the same formula.  The group is Z_P itself, so that a   *)
(* commitment is a number; it is linear, as in the code, which is all that *)
(* completeness needs.  A challenge is arbitrary, and the same for two     *)
(* transcripts when they absorbed the same elements.  Key lengths and the  *)
(* errors they cause are in module KeyGeneration.                          *)
(***************************************************************************)
EXTENDS Integers, Sequences, FiniteSets

CONSTANTS
  P,           \* the field, Z_P
  A, B, C,     \* the R1CS: the one row of each matrix, over z = (u, x, w)
  G, H,        \* the generators of the commitment key; H = 0 when not hiding
  Blinds,      \* what a fresh commitment randomness may be
  MaxFolds     \* bound on the number of folds of a behaviour

VARIABLES
  W, U,        \* the running pair kept by the user
  honest,      \* history: every assignment folded so far was satisfying
  views,       \* the folded instance, as the two verifiers computed it
  inSync,      \* prover and verifier transcripts absorbed the same so far
  folds        \* number of folds so far

vars == <<W, U, honest, views, inSync, folds>>

F == 0 .. P - 1

ASSUME FieldAssumption == P \in Nat /\ P > 2 /\ \A a, b \in 1 .. P - 1 : (a * b) % P # 0
ASSUME KeyAssumption ==
  /\ A \in F \X F \X F /\ B \in F \X F \X F /\ C \in F \X F \X F
  /\ G \in F /\ H \in F /\ Blinds \subseteq F /\ MaxFolds \in Nat

(***************************************************************************)
(* R1CS: z is (u, x, w), and the relation at z is Az * Bz - u Cz.          *)
(***************************************************************************)
Row(m, u, x, w) == m[1] * u + m[2] * x + m[3] * w

EvalR1CS(u, x, w) ==
  (Row(A, u, x, w) * Row(B, u, x, w) - u * Row(C, u, x, w)) % P

CrossTerm(u1, x1, w1, u2, x2, w2, e) ==
  (EvalR1CS(u1 + u2, x1 + x2, w1 + w2) - e) % P

Commit(v, r) == (G * v + H * r) % P
Opens(v, r, cm) == Commit(v, r) = cm

(***************************************************************************)
(* The relations the decider checks, and the pairs it can sample.          *)
(***************************************************************************)
\* Mutant: cm_w is never opened
MutDecideRunning(ww, uu) ==
  EvalR1CS(uu.u, uu.x, ww.w) = ww.e /\ Opens(ww.e, ww.r_e, uu.cm_e)

DecideRunning(ww, uu) ==
  /\ EvalR1CS(uu.u, uu.x, ww.w) = ww.e
  /\ Opens(ww.w, ww.r_w, uu.cm_w)
  /\ Opens(ww.e, ww.r_e, uu.cm_e)

DecideIncoming(w, u) ==
  /\ EvalR1CS(1, u.x, w.w) = 0
  /\ Opens(w.w, w.r_w, u.cm_w)

DummyW == [e |-> 0, r_e |-> 0, w |-> 0, r_w |-> 0]
DummyU == [cm_e |-> 0, u |-> 0, cm_w |-> 0, x |-> 0]

\* sample(()) of a running pair: u, x and w are random, and e is what they evaluate to
SampleRunning(u, x, w, r_w, r_e) ==
  LET e == EvalR1CS(u, x, w)
  IN  [W |-> [e |-> e, r_e |-> r_e, w |-> w, r_w |-> r_w],
       U |-> [cm_e |-> Commit(e, r_e), u |-> u, cm_w |-> Commit(w, r_w), x |-> x]]

\* sample(assignments) of an incoming pair: nothing checks that they satisfy the R1CS
SampleIncoming(x, w, r_w) ==
  [w |-> [w |-> w, r_w |-> r_w], u |-> [cm_w |-> Commit(w, r_w), x |-> x]]

(***************************************************************************)
(* What the transcript absorbs, natively and in the gadgets.               *)
(***************************************************************************)
AbsorbRunning(uu) == <<uu.u, uu.x, uu.cm_e, uu.cm_w>>
AbsorbIncoming(u) == <<u.x, u.cm_w>>
\* Mutant: in the order of the commitments of RunningInstanceVar
MutAbsorbRunningVar(uu) == <<uu.u, uu.x, uu.cm_w, uu.cm_e>>
AbsorbRunningVar(uu) == <<uu.u, uu.x, uu.cm_e, uu.cm_w>>
AbsorbIncomingVar(u) == <<u.x, u.cm_w>>

(***************************************************************************)
(* (1,1): fold an incoming pair into a running pair.                       *)
(***************************************************************************)
ProverLog11(uu, u, cm_t) == AbsorbRunning(uu) \o AbsorbIncoming(u) \o <<cm_t>>
VerifierLog11(uu, u, cm_t) == AbsorbRunning(uu) \o AbsorbIncoming(u) \o <<cm_t>>
GadgetLog11(uu, u, cm_t) == AbsorbRunningVar(uu) \o AbsorbIncomingVar(u) \o <<cm_t>>

Term11(ww, uu, w, u) == CrossTerm(uu.u, uu.x, ww.w, 1, u.x, w.w, ww.e)

ProveW11(ww, w, t, r_t, rho) ==
  [e |-> (rho * t + ww.e) % P,     r_e |-> (ww.r_e + r_t * rho) % P,
   w |-> (rho * w.w + ww.w) % P,   r_w |-> (ww.r_w + w.r_w * rho) % P]

ProveU11(uu, u, cm_t, rho) ==
  [cm_e |-> (uu.cm_e + cm_t * rho) % P,     u |-> (uu.u + rho) % P,
   cm_w |-> (uu.cm_w + u.cm_w * rho) % P,   x |-> (rho * u.x + uu.x) % P]

VerifyU11(uu, u, cm_t, rho) ==
  [cm_e |-> (uu.cm_e + cm_t * rho) % P,     u |-> (uu.u + rho) % P,
   cm_w |-> (uu.cm_w + u.cm_w * rho) % P,   x |-> (rho * u.x + uu.x) % P]

\* verify_hinted and verify of the gadget: cm_e and cm_w are witnesses with these
\* values, or computed from the challenge's bits
GadgetU11(uu, u, cm_t, rho) ==
  [cm_e |-> (uu.cm_e + cm_t * rho) % P,     u |-> (uu.u + rho) % P,
   cm_w |-> (uu.cm_w + u.cm_w * rho) % P,   x |-> (rho * u.x + uu.x) % P]

(***************************************************************************)
(* (2,0): fold two running pairs.                                          *)
(***************************************************************************)
ProverLog20(u1, u2, cm_t) == AbsorbRunning(u1) \o AbsorbRunning(u2) \o <<cm_t>>
VerifierLog20(u1, u2, cm_t) == AbsorbRunning(u1) \o AbsorbRunning(u2) \o <<cm_t>>
GadgetLog20(u1, u2, cm_t) == AbsorbRunningVar(u1) \o AbsorbRunningVar(u2) \o <<cm_t>>

Term20(w1, u1, w2, u2) ==
  CrossTerm(u1.u, u1.x, w1.w, u2.u, u2.x, w2.w, w1.e + w2.e)

\* Mutant: rho where its square is due, in the error term
MutProveW20(w1, w2, t, r_t, rho) ==
  [e |-> (rho * w2.e + rho * t + w1.e) % P,
   r_e |-> (w1.r_e + r_t * rho + w2.r_e * rho * rho) % P,
   w |-> (rho * w2.w + w1.w) % P,
   r_w |-> (w1.r_w + w2.r_w * rho) % P]

ProveW20(w1, w2, t, r_t, rho) ==
  [e |-> (rho * rho * w2.e + rho * t + w1.e) % P,
   r_e |-> (w1.r_e + r_t * rho + w2.r_e * rho * rho) % P,
   w |-> (rho * w2.w + w1.w) % P,
   r_w |-> (w1.r_w + w2.r_w * rho) % P]

ProveU20(u1, u2, cm_t, rho) ==
  [cm_e |-> (u1.cm_e + cm_t * rho + u2.cm_e * rho * rho) % P,
   u |-> (u1.u + rho * u2.u) % P,
   cm_w |-> (u1.cm_w + u2.cm_w * rho) % P,
   x |-> (rho * u2.x + u1.x) % P]

VerifyU20(u1, u2, cm_t, rho) ==
  [cm_e |-> (u1.cm_e + cm_t * rho + u2.cm_e * rho * rho) % P,
   u |-> (u1.u + rho * u2.u) % P,
   cm_w |-> (u1.cm_w + u2.cm_w * rho) % P,
   x |-> (rho * u2.x + u1.x) % P]

GadgetU20(u1, u2, cm_t, rho) ==
  [cm_e |-> (u1.cm_e + cm_t * rho + u2.cm_e * rho * rho) % P,
   u |-> (u1.u + rho * u2.u) % P,
   cm_w |-> (u1.cm_w + u2.cm_w * rho) % P,
   x |-> (rho * u2.x + u1.x) % P]

(***************************************************************************)
(* The user's calls.                                                       *)
(***************************************************************************)
Init ==
  /\ W = DummyW /\ U = DummyU
  /\ honest = TRUE /\ inSync = TRUE /\ views = {DummyU}
  /\ folds = 0

\* Replace the running pair by a sampled one
Resample ==
  /\ \E u, x, w \in F, r_w, r_e \in Blinds :
       LET s == SampleRunning(u, x, w, r_w, r_e)
       IN  W' = s.W /\ U' = s.U /\ views' = {s.U}
  /\ honest' = TRUE
  /\ UNCHANGED <<inSync, folds>>

\* The challenges a verifier derives, given the prover's: the same one when their
\* transcripts absorbed the same, and any other otherwise
Derived(rho, same) == IF same THEN {rho} ELSE F

\* Sample an incoming pair from any assignments, and fold it
FoldIncoming(x, w, rho, r_w, r_t) ==
  /\ folds < MaxFolds
  /\ LET in   == SampleIncoming(x, w, r_w)
         t    == Term11(W, U, in.w, in.u)
         cm_t == Commit(t, r_t)
         log  == ProverLog11(U, in.u, cm_t)
         vok  == inSync /\ VerifierLog11(U, in.u, cm_t) = log
         gok  == inSync /\ GadgetLog11(U, in.u, cm_t) = log
     IN  \E rhoV \in Derived(rho, vok), rhoG \in Derived(rho, gok) :
           /\ W' = ProveW11(W, in.w, t, r_t, rho)
           /\ U' = ProveU11(U, in.u, cm_t, rho)
           /\ views' = {VerifyU11(U, in.u, cm_t, rhoV), GadgetU11(U, in.u, cm_t, rhoG)}
           /\ honest' = (honest /\ DecideIncoming(in.w, in.u))
           /\ inSync' = (vok /\ gok)
  /\ folds' = folds + 1

\* Fold the kept pair and a freshly sampled one, in either order
Kept == [W |-> W, U |-> U]
Pairs(new, keptFirst) == IF keptFirst THEN <<Kept, new>> ELSE <<new, Kept>>

FoldRunning(new, keptFirst, rho, r_t) ==
  /\ folds < MaxFolds
  /\ LET p1   == Pairs(new, keptFirst)[1]
         p2   == Pairs(new, keptFirst)[2]
         t    == Term20(p1.W, p1.U, p2.W, p2.U)
         cm_t == Commit(t, r_t)
         log  == ProverLog20(p1.U, p2.U, cm_t)
         vok  == inSync /\ VerifierLog20(p1.U, p2.U, cm_t) = log
         gok  == inSync /\ GadgetLog20(p1.U, p2.U, cm_t) = log
     IN  \E rhoV \in Derived(rho, vok), rhoG \in Derived(rho, gok) :
           /\ W' = ProveW20(p1.W, p2.W, t, r_t, rho)
           /\ U' = ProveU20(p1.U, p2.U, cm_t, rho)
           /\ views' = {VerifyU20(p1.U, p2.U, cm_t, rhoV), GadgetU20(p1.U, p2.U, cm_t, rhoG)}
           /\ inSync' = (vok /\ gok)
  /\ folds' = folds + 1
  /\ UNCHANGED honest

Next ==
  \/ Resample
  \/ \E x, w, rho \in F, r_w, r_t \in Blinds : FoldIncoming(x, w, rho, r_w, r_t)
  \/ \E u, x, w, rho \in F, r_w, r_e, r_t \in Blinds, keptFirst \in BOOLEAN :
       FoldRunning(SampleRunning(u, x, w, r_w, r_e), keptFirst, rho, r_t)

Spec == Init /\ [][Next]_vars

-----------------------------------------------------------------------------
\* Completeness, over any mix and order of (1,1) and (2,0) folds: as long as the
\* assignments folded satisfy the R1CS, the running pair satisfies the relaxed
\* relation and opens its commitments (decide_running after every prove).
HonestFoldsHold == honest => DecideRunning(W, U)

\* The native verifier and the in-circuit verifier arrive at the very instance the
\* prover returned, round after round on the same transcripts.
VerifiersAgree == views = {U}

\* The soundness error the code quotes for Nova (nova/mod.rs:32, at most 2/|S|):
\* folding when either side is wrong - a bad running pair, an unsatisfying
\* assignment, a witness that does not open the incoming commitment - passes
\* decide_running for at most two challenges.
FoldSoundness ==
  \A x, w1, w2 \in F :
    LET w    == SampleIncoming(x, w1, 0).w
        u    == SampleIncoming(x, w2, 0).u
        t    == Term11(W, U, w, u)
        cm_t == Commit(t, 0)
    IN  ~(DecideRunning(W, U) /\ DecideIncoming(w, u)) =>
          Cardinality({rho \in F :
            DecideRunning(ProveW11(W, w, t, 0, rho), ProveU11(U, u, cm_t, rho))}) <= 2
=============================================================================
