---------------------------- MODULE CycleFoldIVC -----------------------------
(***************************************************************************)
(* The CycleFold-based IVC of crates/ivc/src/compilers/cyclefold: prove    *)
(* and verify, with the augmented circuit prove runs.                      *)
(*                                                                         *)
(* A user calls prove with any arguments: any key, step circuit, counter   *)
(* and states, and a proof assembled from the running, incoming and        *)
(* CycleFold pairs of any earlier proofs.  The calls that return Ok are    *)
(* recorded in "calls", and call n is also the name of what it creates:    *)
(* the incoming pair (w, u) it samples, the running pair (W, U) it folds   *)
(* and the running CycleFold pair.  Name 0 is the dummy pair.              *)
(*                                                                         *)
(* Hashes are symbolic and injective.  Folding is summarised by what       *)
(* module NovaFolding shows of it: a folded pair satisfies its relation    *)
(* when both of its inputs do, and otherwise only for a negligible share   *)
(* of the challenges, which is left out here.                              *)
(***************************************************************************)
EXTENDS StepCircuit, Sequences

CONSTANTS
  Shapes, RefShape,  \* the shapes of a state, and that of dummy_state()
  SecondaryKey(_),   \* the secondary decider key dk2 of a key
  Refused,           \* external inputs on which the step circuit returns an error
  MaxCalls           \* bound on the number of prove calls that return Ok

VARIABLE calls
vars == <<calls>>

ASSUME ShapeAssumption == RefShape \in Shapes
ASSUME BoundAssumption == MaxCalls \in Nat

States == [elems : Elems, shape : Shapes]

(***************************************************************************)
(* Names.  Diverged is an instance the augmented circuit computes that is  *)
(* not the one the prover computed.                                        *)
(***************************************************************************)
Dummy == 0
Diverged == -1

\* Mutant: the initial state left out
MutHashInitial(k, i, z0, z, run, cf) ==
  [pp |-> k, i |-> i, z0 |-> 0, z |-> z.elems, run |-> run, cf |-> cf]

\* H(pp_hash, i, z_0, z_i, U, cf_U): a state is absorbed as its elements
Hash(k, i, z0, z, run, cf) ==
  [pp |-> k, i |-> i, z0 |-> z0.elems, z |-> z.elems, run |-> run, cf |-> cf]

\* The public input of an incoming instance; that of the dummy is zero, no hash
DummyX(k) == [pp |-> k, i |-> -1, z0 |-> 0, z |-> 0, run |-> Dummy, cf |-> Dummy]
PublicInput(cs, k, inc) == IF inc = Dummy THEN DummyX(k) ELSE cs[inc].x

(***************************************************************************)
(* The relations the keys decide.  calls[n] has the key of call n, whether *)
(* the assignments it sampled satisfy that key's augmented circuit, and    *)
(* whether the pairs it folded satisfy their relations.                    *)
(***************************************************************************)
\* Mutant: the relation is not checked
MutDecideRunning(cs, k, run) == run = Dummy \/ (run \in DOMAIN cs /\ cs[run].key = k)

DecideRunning(cs, k, run) ==
  run = Dummy \/ (run \in DOMAIN cs /\ cs[run].key = k /\ cs[run].runOk)

DecideIncoming(cs, k, inc) ==
  inc \in DOMAIN cs /\ cs[inc].key = k /\ cs[inc].sat

DecideCycleFold(cs, k, cf) ==
  cf = Dummy \/
    (cf \in DOMAIN cs /\ SecondaryKey(cs[cf].key) = SecondaryKey(k) /\ cs[cf].cfOk)

(***************************************************************************)
(* verify                                                                  *)
(***************************************************************************)
\* Mutant: any grouping of the elements will do
MutSameShape(a, b) == TRUE
SameShape(a, b) == a.shape = b.shape

HashMatches(cs, k, i, z0, z, p) ==
  PublicInput(cs, k, p.inc) = Hash(k, i, z0, z, p.run, p.cf)

Verify(cs, k, i, z0, z, p) ==
  LET reference == [elems |-> z.elems, shape |-> RefShape]
  IN  /\ SameShape(reference, z0) /\ SameShape(reference, z)
      /\ \/ i = 0 /\ z0 = z
         \/ /\ i # 0
            /\ HashMatches(cs, k, i, z0, z, p)
            /\ DecideRunning(cs, k, p.run)
            /\ DecideIncoming(cs, k, p.inc)
            /\ DecideCycleFold(cs, k, p.cf)

(***************************************************************************)
(* prove(k, c, i, z0, z, e, p): the prover folds what p holds, as it is.   *)
(* The circuit folds an incoming instance that has the public input it     *)
(* derives itself, so the two instances differ unless p.inc has that input.*)
(***************************************************************************)
IsBaseCase(i) == i = 0

NativeFold(i, n) == IF IsBaseCase(i) THEN Dummy ELSE n

\* Mutants: no selection of the dummy; the prover's instance taken as it is
MutCircuitFoldBase(cs, k, i, z0, z, p, n) ==
  IF HashMatches(cs, k, i, z0, z, p) THEN n ELSE Diverged
MutCircuitFoldTrust(cs, k, i, z0, z, p, n) == IF IsBaseCase(i) THEN Dummy ELSE n

CircuitFold(cs, k, i, z0, z, p, n) ==
  IF IsBaseCase(i) THEN Dummy
  ELSE IF HashMatches(cs, k, i, z0, z, p) THEN n ELSE Diverged

FoldHolds(cs, k, i, p) ==
  IsBaseCase(i) \/ (DecideRunning(cs, k, p.run) /\ DecideIncoming(cs, k, p.inc))

CycleFoldHolds(cs, k, i, p) == IsBaseCase(i) \/ DecideCycleFold(cs, k, p.cf)

\* The state in the shape that the step circuit c returns
NextState(c, i, z, e) == [elems |-> StepOf(c, i, z.elems, e), shape |-> RefShape]

\* prove synthesizes the circuit whose structure is in k.  Another step circuit, or states of
\* another shape, lay out another circuit, with witnesses of its own.
LaidOut(k, c, z0, z) == c = k /\ {z0.shape, z.shape} = {RefShape}

\* The external inputs that the constraints of k may find among the witnesses
InputsRead(k, c, z0, z, e) == IF LaidOut(k, c, z0, z) THEN {e} ELSE Ext

\* The constraints of key k's augmented circuit, on the values prove assigns: the
\* initial state in the base case, and a step of k's own circuit to the next state
Constraints(k, c, i, z0, z, e) ==
  /\ IsBaseCase(i) => z0.elems = z.elems
  /\ \E f \in InputsRead(k, c, z0, z, e) :
       Holds(k, i, z.elems, f) /\ StepOf(c, i, z.elems, e) = StepOf(k, i, z.elems, f)

\* The assignments of another circuit may or may not fit that of k, but they satisfy it
\* only if the constraints hold
Satisfied(k, c, i, z0, z, e) ==
  IF ~Constraints(k, c, i, z0, z, e) THEN {FALSE}
  ELSE IF LaidOut(k, c, z0, z) THEN {TRUE} ELSE BOOLEAN

\* Nothing in prove looks at whether the assignments satisfy the constraints
Prove(k, c, i, z0, z, e, p) ==
  LET n == Len(calls) + 1
      next == NextState(c, i, z, e)
      run == CircuitFold(calls, k, i, z0, z, p, n)
      cf == CircuitFold(calls, k, i, z0, z, p, n)
  IN  /\ e \notin Refused
      /\ \E sat \in Satisfied(k, c, i, z0, z, e) :
           calls' = Append(calls,
             [key   |-> k,
              sat   |-> sat,
              x     |-> Hash(k, i + 1, z0, next, run, cf),
              runOk |-> FoldHolds(calls, k, i, p),
              cfOk  |-> CycleFoldHolds(calls, k, i, p),
              from  |-> [c |-> c, i |-> i, z0 |-> z0, z |-> z, e |-> e, p |-> p]])

\* The proof call n returned
ProofOf(cs, n) ==
  LET pair == NativeFold(cs[n].from.i, n)
  IN  [run |-> pair, inc |-> n, cf |-> pair]

\* The proof every IVC starts from, and all that can be assembled from those returned
DummyProof == [run |-> Dummy, inc |-> Dummy, cf |-> Dummy]
Proofs(cs) ==
  LET returned == {ProofOf(cs, n) : n \in DOMAIN cs} \cup {DummyProof}
  IN  [run : {p.run : p \in returned}, inc : {p.inc : p \in returned},
       cf : {p.cf : p \in returned}]

Init == calls = <<>>

\* The base case ignores the current proof, so one stands for all of them there
ProofArguments(i) == IF IsBaseCase(i) THEN {DummyProof} ELSE Proofs(calls)

Next ==
  /\ Len(calls) < MaxCalls
  /\ \E k \in Keys, c \in Keys, i \in 0 .. MaxI - 1, z0 \in States, z \in States, e \in Ext :
       \E p \in ProofArguments(i) : Prove(k, c, i, z0, z, e, p)

Spec == Init /\ [][Next]_vars

-----------------------------------------------------------------------------
Hashes ==
  [pp : Keys, i : 1 .. MaxI, z0 : Elems, z : Elems,
   run : Diverged .. MaxCalls, cf : Diverged .. MaxCalls]

ProofNames == [run : 0 .. MaxCalls, inc : 0 .. MaxCalls, cf : 0 .. MaxCalls]

Arguments ==
  [c : Keys, i : 0 .. MaxI - 1, z0 : States, z : States, e : Ext, p : ProofNames]

Call ==
  [key : Keys, sat : BOOLEAN, x : Hashes, runOk : BOOLEAN, cfOk : BOOLEAN, from : Arguments]

\* What a call hashes and was given names only pairs that exist by then.
NamesExist ==
  \A n \in DOMAIN calls :
    /\ calls[n].x.pp = calls[n].key
    /\ calls[n].x.run \in {Diverged, Dummy, n} /\ calls[n].x.cf \in {Diverged, Dummy, n}
    /\ \A m \in {calls[n].from.p.run, calls[n].from.p.inc, calls[n].from.p.cf} : m < n

TypeOK ==
  /\ calls \in Seq(Call) /\ Len(calls) <= MaxCalls
  /\ NamesExist

\* The statement that the public input of call n hashes, and whether some proof
\* with the incoming pair of call n convinces the verifier of it
ClaimOf(n) ==
  LET x == calls[n].x IN [key |-> x.pp, i |-> x.i, z0 |-> x.z0, z |-> x.z]

Accepted(n) ==
  /\ DecideRunning(calls, calls[n].key, calls[n].x.run)
  /\ DecideIncoming(calls, calls[n].key, n)
  /\ DecideCycleFold(calls, calls[n].key, calls[n].x.cf)

Attested == {ClaimOf(n) : n \in {m \in DOMAIN calls : Accepted(m)}}

\* Refinement: the statements the verifier can be convinced of grow as module IVC
\* promises, whatever arguments and mixtures of proofs prove was called with.
Promise == INSTANCE IVC WITH attested <- Attested
PromiseKept == Promise!Spec

\* Soundness of verify: an accepted statement is true of the step circuit of the
\* verifier's own key, for states of the shape that key was generated for.
Soundness ==
  \A k \in Keys, i \in 0 .. MaxI, z0 \in States, z \in States, p \in Proofs(calls) :
    Verify(calls, k, i, z0, z, p) =>
      /\ z0.shape = RefShape /\ z.shape = RefShape
      /\ IF i = 0 THEN z = z0
         ELSE Reachable([key |-> k, i |-> i, z0 |-> z0.elems, z |-> z.elems])

\* A proof of at least one step is accepted for one key, counter and pair of states
\* at most.
ProofBindsStatement ==
  \A p \in Proofs(calls) :
    LET accepted == {s \in Keys \X (1 .. MaxI) \X States \X States :
                       Verify(calls, s[1], s[2], s[3], s[4], p)}
    IN  \A s, t \in accepted : s = t

\* Completeness: a proof that verifies, extended by a satisfied step of the key's own
\* circuit, gives a proof that verifies; at i = 0 that holds of whatever proof.
Completeness ==
  \A n \in DOMAIN calls :
    LET k == calls[n].key
        a == calls[n].from
    IN  /\ Verify(calls, k, a.i, a.z0, a.z, a.p)
        /\ a.c = k /\ Holds(k, a.i, a.z.elems, a.e)
        => Verify(calls, k, a.i + 1, a.z0, NextState(k, a.i, a.z, a.e), ProofOf(calls, n))
=============================================================================
