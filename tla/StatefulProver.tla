---------------------------- MODULE StatefulProver ---------------------------
(***************************************************************************)
(* IVCStatefulProver of crates/ivc/src/lib.rs over the CycleFold-based     *)
(* IVC: it keeps the counter, the states and the proof from one step to    *)
(* the next, so that prove is only ever called with its own last results.  *)
(* An application drops a prover and starts another as it likes.           *)
(***************************************************************************)
EXTENDS CycleFoldIVC

VARIABLES
  prover,    \* the fields of the IVCStatefulProver in use
  honest     \* history: its initial state has the shape the key was generated
             \* for, and the states and inputs of every step kept to the key's constraints

proverVars == <<calls, prover, honest>>

\* IVCStatefulProver::new(pk, step_circuit, initial_state)
NewProver(k, c, z0) ==
  [key |-> k, c |-> c, i |-> 0, z0 |-> z0, z |-> z0, proof |-> DummyProof]

Fresh == {NewProver(k, c, z0) : k \in Keys, c \in Keys, z0 \in States}

InitProver ==
  /\ Init
  /\ prover \in Fresh
  /\ honest = (prover.z0.shape = RefShape)

\* The application starts over
New ==
  /\ prover' \in Fresh
  /\ honest' = (prover'.z0.shape = RefShape)
  /\ UNCHANGED calls

\* Mutant: the new proof is not kept
MutProveStep(e) ==
  /\ Len(calls) < MaxCalls /\ prover.i < MaxI
  /\ Prove(prover.key, prover.c, prover.i, prover.z0, prover.z, e, prover.proof)
  /\ prover' = [prover EXCEPT !.i = @ + 1,
                             !.z = NextState(prover.c, prover.i, prover.z, e)]
  /\ honest' = (honest /\ Constraints(prover.key, prover.c, prover.i, prover.z0, prover.z, e))

\* prove_step when prove returns Ok
ProveStep(e) ==
  LET n == Len(calls) + 1
      s == prover
  IN  /\ n <= MaxCalls /\ s.i < MaxI
      /\ Prove(s.key, s.c, s.i, s.z0, s.z, e, s.proof)
      /\ prover' = [s EXCEPT !.i = @ + 1,
                             !.z = NextState(s.c, s.i, s.z, e),
                             !.proof = ProofOf(calls', n)]
      /\ honest' = (honest /\ Constraints(s.key, s.c, s.i, s.z0, s.z, e))

\* The step circuit refuses, or the witnesses of another circuit than the key's are too many
\* to commit to
MayFail(e) == e \in Refused \/ ~LaidOut(prover.key, prover.c, prover.z0, prover.z)

\* prove_step when prove returns an error: the ? comes before any assignment
ProveStepFails(e) ==
  /\ MayFail(e)
  /\ UNCHANGED proverVars

NextProver ==
  \/ New
  \/ \E e \in Ext : ProveStep(e) \/ ProveStepFails(e)

ProverSpec == InitProver /\ [][NextProver]_proverVars

-----------------------------------------------------------------------------
CurrentProofVerifies ==
  Verify(calls, prover.key, prover.i, prover.z0, prover.z, prover.proof)

\* The prover's proof verifies only as long as every step it took keeps to the constraints
\* of its key, whatever circuit it runs, and with the key's own circuit it does then verify
\* (IVCStatefulProver::prove_step): an honest run is never refused, whatever it failed and
\* retried, and nothing mends a run that went wrong.  Of another circuit that happens to
\* keep to the constraints only the first is so: its witnesses need not fit the key.
ProofVerifiesIffHonest ==
  /\ CurrentProofVerifies => honest
  /\ honest /\ prover.c = prover.key => CurrentProofVerifies

\* lib.rs:158: current_proof attests that current_state is derived from
\* initial_state in i steps of the step circuit - here whenever the prover uses the
\* circuit its key was generated for, and an initial state of that circuit's shape.
CurrentProofAttests ==
  prover.c = prover.key /\ prover.z0.shape = RefShape => CurrentProofVerifies
=============================================================================
