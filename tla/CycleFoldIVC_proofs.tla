------------------------- MODULE CycleFoldIVC_proofs -------------------------
(***************************************************************************)
(* For any keys, circuits, shapes and sequences of prove calls: the names  *)
(* in the calls are well-typed, the CycleFold-based IVC keeps the promise  *)
(* of module IVC, verify accepts only true statements, and prove keeps     *)
(* what it is given valid.                                                 *)
(*                                                                         *)
(* Then of the prover on top of it: IVCStatefulProver only makes calls of  *)
(* prove that module CycleFoldIVC allows, and the proof it keeps verifies  *)
(* exactly as long as every step satisfied the key's constraints.          *)
(***************************************************************************)
EXTENDS StatefulProver, TLAPS

(***************************************************************************)
(* Types                                                                   *)
(***************************************************************************)

\* The names that can be assembled into a proof are those of earlier calls.
LEMMA ProofsAreNames ==
  ASSUME TypeOK, NEW p \in Proofs(calls)
  PROVE  /\ p \in [run : 0 .. Len(calls), inc : 0 .. Len(calls), cf : 0 .. Len(calls)]
         /\ p \in ProofNames
<1> DEFINE names == 0 .. Len(calls)
           returned == {ProofOf(calls, n) : n \in DOMAIN calls} \cup {DummyProof}
<1>1. Len(calls) \in Nat /\ Len(calls) <= MaxCalls /\ DOMAIN calls = 1 .. Len(calls)
  BY DEF TypeOK
<1>2. ASSUME NEW q \in returned PROVE q.run \in names /\ q.inc \in names /\ q.cf \in names
  <2>1. CASE q = DummyProof
    BY <2>1, <1>1 DEF DummyProof, Dummy
  <2>2. CASE \E n \in DOMAIN calls : q = ProofOf(calls, n)
    BY <2>2, <1>1 DEF ProofOf, NativeFold, Dummy
  <2> QED BY <2>1, <2>2, <1>2
<1>3. p \in [run : {q.run : q \in returned}, inc : {q.inc : q \in returned},
             cf : {q.cf : q \in returned}]
  BY DEF Proofs
<1> HIDE DEF returned
<1>4. p \in [run : names, inc : names, cf : names]
  BY <1>2, <1>3
<1>5. names \subseteq 0 .. MaxCalls
  BY <1>1, BoundAssumption
<1> QED BY <1>4, <1>5 DEF ProofNames

\* What Next supplies to prove
Supplied(k, c, i, z0, z, e, p) ==
  /\ k \in Keys /\ c \in Keys /\ i \in 0 .. MaxI - 1
  /\ z0 \in States /\ z \in States /\ e \in Ext
  /\ p \in ProofArguments(i)

\* The call that prove records, for a sampled pair that satisfies the circuit or not
NewCall(k, c, i, z0, z, e, p, sat) ==
  LET n == Len(calls) + 1
  IN  [key   |-> k,
       sat   |-> sat,
       x     |-> Hash(k, i + 1, z0, NextState(c, i, z, e),
                      CircuitFold(calls, k, i, z0, z, p, n),
                      CircuitFold(calls, k, i, z0, z, p, n)),
       runOk |-> FoldHolds(calls, k, i, p),
       cfOk  |-> CycleFoldHolds(calls, k, i, p),
       from  |-> [c |-> c, i |-> i, z0 |-> z0, z |-> z, e |-> e, p |-> p]]

\* Every step appends one such call.
LEMMA NextAppends ==
  ASSUME Next
  PROVE  \E k, c, i, z0, z, e, p, sat :
           /\ Supplied(k, c, i, z0, z, e, p)
           /\ Len(calls) < MaxCalls
           /\ sat \in Satisfied(k, c, i, z0, z, e)
           /\ calls' = Append(calls, NewCall(k, c, i, z0, z, e, p, sat))
<1>1. PICK k \in Keys, c \in Keys, i \in 0 .. MaxI - 1, z0 \in States, z \in States, e \in Ext :
        \E p \in ProofArguments(i) : Prove(k, c, i, z0, z, e, p)
  BY DEF Next
<1>2. PICK p \in ProofArguments(i) : Prove(k, c, i, z0, z, e, p)
  BY <1>1
<1>3. PICK sat \in Satisfied(k, c, i, z0, z, e) :
        calls' = Append(calls, NewCall(k, c, i, z0, z, e, p, sat))
  BY <1>2 DEF Prove, NewCall
<1> QED BY <1>1, <1>2, <1>3 DEF Supplied, Next

\* The proof handed to prove names pairs that exist.
LEMMA SuppliedProof ==
  ASSUME TypeOK, NEW i \in 0 .. MaxI - 1, NEW p \in ProofArguments(i)
  PROVE  /\ p \in [run : 0 .. Len(calls), inc : 0 .. Len(calls), cf : 0 .. Len(calls)]
         /\ p \in ProofNames
<1>1. CASE i = 0
  BY <1>1, BoundAssumption DEF ProofArguments, IsBaseCase, DummyProof, Dummy, ProofNames, TypeOK
<1>2. CASE i # 0
  BY <1>2, ProofsAreNames DEF ProofArguments, IsBaseCase
<1> QED BY <1>1, <1>2

\* Whatever prove is called with, the call it records is of the type of the others.
LEMMA NewCallType ==
  ASSUME TypeOK, Len(calls) < MaxCalls,
         NEW k, NEW c, NEW i, NEW z0, NEW z, NEW e, NEW p, NEW sat,
         Supplied(k, c, i, z0, z, e, p), sat \in Satisfied(k, c, i, z0, z, e)
  PROVE  NewCall(k, c, i, z0, z, e, p, sat) \in Call
<1> DEFINE n == Len(calls) + 1
           fold == CircuitFold(calls, k, i, z0, z, p, n)
<1>1. /\ k \in Keys /\ c \in Keys /\ i \in 0 .. MaxI /\ i + 1 \in 1 .. MaxI
      /\ i \in 0 .. MaxI - 1 /\ z0 \in States /\ z \in States /\ e \in Ext
      /\ p \in ProofNames
  BY SuppliedProof, CounterAssumption DEF Supplied
<1>2. z0.elems \in Elems /\ z.elems \in Elems
  BY <1>1 DEF States
<1>3. StepOf(c, i, z.elems, e) \in Elems
  BY <1>1, <1>2, StepAssumption
<1>4. fold \in Diverged .. MaxCalls
  BY BoundAssumption DEF CircuitFold, Diverged, Dummy, TypeOK
<1>5. Hash(k, i + 1, z0, NextState(c, i, z, e), fold, fold) \in Hashes
  BY <1>1, <1>2, <1>3, <1>4 DEF Hash, Hashes, NextState
<1>6. sat \in BOOLEAN
  BY DEF Satisfied
<1>7. FoldHolds(calls, k, i, p) \in BOOLEAN /\ CycleFoldHolds(calls, k, i, p) \in BOOLEAN
  BY DEF FoldHolds, CycleFoldHolds, IsBaseCase
<1>8. [c |-> c, i |-> i, z0 |-> z0, z |-> z, e |-> e, p |-> p] \in Arguments
  BY <1>1 DEF Arguments
<1> HIDE DEF fold, n
<1> QED BY <1>1, <1>5, <1>6, <1>7, <1>8 DEF NewCall, Call, fold, n

\* What a step leaves of the calls, and what it adds.
LEMMA Appended ==
  ASSUME TypeOK, NEW r, calls' = Append(calls, r)
  PROVE  /\ Len(calls') = Len(calls) + 1
         /\ DOMAIN calls = 1 .. Len(calls) /\ DOMAIN calls' = 1 .. Len(calls) + 1
         /\ calls'[Len(calls) + 1] = r
         /\ \A n \in DOMAIN calls : calls'[n] = calls[n]
  BY DEF TypeOK

LEMMA TypeStep == ASSUME TypeOK, [Next]_vars PROVE TypeOK'
<1>1. CASE Next
  <2>1. PICK k, c, i, z0, z, e, p, sat :
          /\ Supplied(k, c, i, z0, z, e, p)
          /\ Len(calls) < MaxCalls
          /\ sat \in Satisfied(k, c, i, z0, z, e)
          /\ calls' = Append(calls, NewCall(k, c, i, z0, z, e, p, sat))
    BY <1>1, NextAppends
  <2> DEFINE r == NewCall(k, c, i, z0, z, e, p, sat)
             n == Len(calls) + 1
  <2>2. r \in Call
    BY <2>1, NewCallType
  <2>3. calls' \in Seq(Call) /\ Len(calls') <= MaxCalls
    BY <2>1, <2>2, BoundAssumption DEF TypeOK
  <2>4. \A m \in DOMAIN calls : calls'[m] = calls[m]
    BY <2>1, Appended
  <2>5. calls'[n] = r /\ DOMAIN calls' = DOMAIN calls \cup {n}
    BY <2>1, Appended DEF TypeOK
  <2>6. r.x.pp = r.key /\ r.x.run \in {Diverged, Dummy, n} /\ r.x.cf \in {Diverged, Dummy, n}
    BY DEF NewCall, Hash, CircuitFold
  <2>7. \A m \in {r.from.p.run, r.from.p.inc, r.from.p.cf} : m < n
    <3>1. p \in [run : 0 .. Len(calls), inc : 0 .. Len(calls), cf : 0 .. Len(calls)]
      BY <2>1, SuppliedProof DEF Supplied
    <3>2. r.from.p = p
      BY DEF NewCall
    <3> HIDE DEF r
    <3> QED BY <3>1, <3>2 DEF TypeOK
  <2> HIDE DEF r, n
  <2>8. NamesExist'
    BY <2>4, <2>5, <2>6, <2>7 DEF NamesExist, TypeOK
  <2> QED BY <2>3, <2>8 DEF TypeOK
<1>2. CASE UNCHANGED vars
  BY <1>2 DEF TypeOK, NamesExist, vars
<1> QED BY <1>1, <1>2

\* The calls and the names in them are well-typed, in every state.
THEOREM TypeCorrect == Spec => []TypeOK
<1>1. Init => TypeOK
  BY BoundAssumption DEF Init, TypeOK, NamesExist
<1> QED BY <1>1, TypeStep, PTL DEF Spec

(***************************************************************************)
(* Refinement                                                              *)
(***************************************************************************)

\* Calls are only ever added, and name older pairs or their own, so that what was
\* accepted stays accepted and what was not is not.
LEMMA OldCallsKept ==
  ASSUME TypeOK, NEW r, calls' = Append(calls, r), NEW n \in DOMAIN calls
  PROVE  (Accepted(n)' <=> Accepted(n)) /\ ClaimOf(n)' = ClaimOf(n)
<1>1. \A m : m \in DOMAIN calls => calls'[m] = calls[m]
  BY Appended
<1>2. n \in DOMAIN calls' /\ calls'[n] = calls[n]
  BY Appended
<1>3. calls[n].x.run \in {Diverged, Dummy, n} /\ calls[n].x.cf \in {Diverged, Dummy, n}
  BY DEF TypeOK, NamesExist
<1>4. Diverged \notin DOMAIN calls' /\ Diverged \notin DOMAIN calls
  BY Appended DEF Diverged, TypeOK
<1>5. ClaimOf(n)' = ClaimOf(n)
  BY <1>2 DEF ClaimOf
<1>6. Accepted(n)' <=> Accepted(n)
  BY <1>2, <1>3, <1>4 DEF Accepted, DecideRunning, DecideIncoming, DecideCycleFold
<1> QED BY <1>5, <1>6

\* A call attests nothing, or what Start or Extend of the promise adds: its circuit
\* has checked that the incoming instance it folds hashes the state it steps from,
\* and folding has carried over that this instance was satisfied.
LEMMA NewClaim ==
  ASSUME TypeOK, NEW k, NEW c, NEW i, NEW z0, NEW z, NEW e, NEW p, NEW sat, NEW n,
         n = Len(calls) + 1,
         Supplied(k, c, i, z0, z, e, p), sat \in Satisfied(k, c, i, z0, z, e),
         calls' = Append(calls, NewCall(k, c, i, z0, z, e, p, sat)),
         Accepted(n)'
  PROVE  \E f \in Ext :
           \/ /\ i = 0 /\ Holds(k, 0, z0.elems, f)
              /\ ClaimOf(n)' =
                   [key |-> k, i |-> 1, z0 |-> z0.elems, z |-> StepOf(k, 0, z0.elems, f)]
           \/ \E d \in Attested :
                /\ d.key = k /\ d.i = i /\ i < MaxI
                /\ Holds(d.key, d.i, d.z, f)
                /\ ClaimOf(n)' =
                     [key |-> d.key, i |-> d.i + 1, z0 |-> d.z0,
                      z |-> StepOf(d.key, d.i, d.z, f)]
<1> DEFINE r == NewCall(k, c, i, z0, z, e, p, sat)
           fold == CircuitFold(calls, k, i, z0, z, p, n)
<1>1. calls'[n] = r /\ n \in DOMAIN calls' /\ n \notin DOMAIN calls
  BY Appended DEF TypeOK
<1>2. /\ r.key = k /\ r.sat = sat /\ r.x.run = fold /\ r.x.cf = fold
      /\ r.runOk = FoldHolds(calls, k, i, p) /\ r.cfOk = CycleFoldHolds(calls, k, i, p)
  BY DEF NewCall, Hash
<1>3. ClaimOf(n)' = [key |-> k, i |-> i + 1, z0 |-> z0.elems, z |-> StepOf(c, i, z.elems, e)]
  BY <1>1 DEF ClaimOf, NewCall, Hash, NextState
<1>4. r.sat
  BY <1>1 DEF Accepted, DecideIncoming
<1>5. Constraints(k, c, i, z0, z, e)
  BY <1>2, <1>4 DEF Satisfied
<1>f. PICK f \in Ext : Holds(k, i, z.elems, f) /\ StepOf(c, i, z.elems, e) = StepOf(k, i, z.elems, f)
  <2>1. e \in Ext
    BY DEF Supplied
  <2> QED BY <1>5, <2>1 DEF Constraints, InputsRead
<1>6. CASE i = 0
  <2>1. z0.elems = z.elems
    BY <1>5, <1>6 DEF Constraints, IsBaseCase
  <2> QED BY <1>3, <1>f, <1>6, <2>1
<1>7. CASE i # 0
  <2>1. fold # Dummy /\ (fold = Diverged \/ fold = n)
    BY <1>7 DEF CircuitFold, IsBaseCase, Diverged, Dummy, TypeOK
  <2>2. Diverged \notin DOMAIN calls'
    BY Appended DEF Diverged, TypeOK
  <2>3. DecideRunning(calls', k, fold) /\ DecideCycleFold(calls', k, fold)
    BY <1>1, <1>2 DEF Accepted
  <2>4. fold = n
    BY <2>1, <2>2, <2>3 DEF DecideRunning
  <2>5. HashMatches(calls, k, i, z0, z, p)
    BY <2>4, <2>1, <1>7 DEF CircuitFold, IsBaseCase, Diverged, TypeOK
  <2>6. r.runOk /\ r.cfOk
    BY <2>1, <2>3, <2>4, <1>1 DEF DecideRunning, DecideCycleFold
  <2>7. /\ DecideRunning(calls, k, p.run) /\ DecideIncoming(calls, k, p.inc)
        /\ DecideCycleFold(calls, k, p.cf)
    BY <2>6, <1>2, <1>7 DEF FoldHolds, CycleFoldHolds, IsBaseCase
  <2>8. p.inc \in DOMAIN calls /\ calls[p.inc].key = k /\ p.inc # Dummy
    BY <2>7 DEF DecideIncoming, Dummy, TypeOK
  <2>9. calls[p.inc].x = Hash(k, i, z0, z, p.run, p.cf)
    BY <2>5, <2>8 DEF HashMatches, PublicInput
  <2>10. Accepted(p.inc)
    BY <2>7, <2>8, <2>9 DEF Accepted, Hash
  <2> DEFINE d == ClaimOf(p.inc)
  <2>11. d \in Attested
    BY <2>8, <2>10 DEF Attested
  <2>12. d = [key |-> k, i |-> i, z0 |-> z0.elems, z |-> z.elems]
    BY <2>9 DEF ClaimOf, Hash
  <2>14. i < MaxI
    BY CounterAssumption DEF Supplied
  <2> HIDE DEF d
  <2> QED BY <1>3, <1>f, <2>11, <2>12, <2>14
<1> QED BY <1>6, <1>7

\* One call extends the attested statements as the promise does, or not at all.
LEMMA PromiseStep == ASSUME TypeOK, [Next]_vars PROVE [Promise!Next]_Attested
<1>1. CASE Next
  <2>1. PICK k, c, i, z0, z, e, p, sat :
          /\ Supplied(k, c, i, z0, z, e, p)
          /\ Len(calls) < MaxCalls
          /\ sat \in Satisfied(k, c, i, z0, z, e)
          /\ calls' = Append(calls, NewCall(k, c, i, z0, z, e, p, sat))
    BY <1>1, NextAppends
  <2>n. PICK n : n = Len(calls) + 1
    OBVIOUS
  <2>2. DOMAIN calls' = DOMAIN calls \cup {n}
    BY <2>1, <2>n, Appended DEF TypeOK
  <2>3. \A m \in DOMAIN calls : (Accepted(m)' <=> Accepted(m)) /\ ClaimOf(m)' = ClaimOf(m)
    BY <2>1, OldCallsKept
  <2>4. CASE ~Accepted(n)'
    <3>1. Attested' = Attested
      BY <2>2, <2>3, <2>4 DEF Attested
    <3> QED BY <3>1
  <2>5. CASE Accepted(n)'
    <3>1. Attested' = Attested \cup {ClaimOf(n)'}
      BY <2>2, <2>3, <2>5 DEF Attested
    <3>2. /\ k \in Keys /\ z0.elems \in Elems /\ e \in Ext /\ i \in 0 .. MaxI - 1
      BY <2>1 DEF Supplied, States
    <3>3. PICK f \in Ext :
            \/ /\ i = 0 /\ Holds(k, 0, z0.elems, f)
               /\ ClaimOf(n)' =
                    [key |-> k, i |-> 1, z0 |-> z0.elems, z |-> StepOf(k, 0, z0.elems, f)]
            \/ \E d \in Attested :
                 /\ d.key = k /\ d.i = i /\ i < MaxI
                 /\ Holds(d.key, d.i, d.z, f)
                 /\ ClaimOf(n)' =
                      [key |-> d.key, i |-> d.i + 1, z0 |-> d.z0,
                       z |-> StepOf(d.key, d.i, d.z, f)]
      BY <2>1, <2>n, <2>5, NewClaim, SMTT(120)
    <3>4. MaxI > 0
      BY <3>2, CounterAssumption
    <3>5. Promise!Start \/ Promise!Extend
      BY <3>1, <3>2, <3>3, <3>4 DEF Promise!Start, Promise!Extend
    <3> QED BY <3>5 DEF Promise!Next
  <2> QED BY <2>4, <2>5
<1>2. CASE UNCHANGED vars
  BY <1>2 DEF vars, Attested, Accepted, ClaimOf, DecideRunning, DecideIncoming, DecideCycleFold
<1> QED BY <1>1, <1>2

\* The CycleFold-based IVC implements the promise of module IVC: however prove is
\* called, a statement becomes provable only by a satisfied step of the key's own
\* circuit, from the initial state or from a statement that was provable already.
THEOREM KeepsPromise == Spec => PromiseKept
<1>1. Init => Promise!Init
  BY DEF Init, Promise!Init, Attested
<1>2. Spec => []TypeOK
  BY TypeCorrect
<1> QED BY <1>1, <1>2, PromiseStep, PTL DEF Spec, PromiseKept, Promise!Spec

(***************************************************************************)
(* Soundness                                                               *)
(***************************************************************************)

\* What is proved of the promise, of the statements attested here
Attesting == INSTANCE IVC_proofs WITH attested <- Attested

\* Every statement that can be proved is well-formed and true.
AttestedTrue == Attested \subseteq Claim /\ \A c \in Attested : Reachable(c)

\* A step of the promise attests only what is true.
LEMMA AttestedTrueStep ==
  ASSUME AttestedTrue, [Promise!Next]_Attested PROVE AttestedTrue'
<1>1. ASSUME NEW c PROVE Attesting!Reachable(c) <=> Reachable(c)
  BY DEF Attesting!Reachable, Attesting!IsRun, Attesting!Leads, Reachable, IsRun, Leads
<1>2. Attesting!Claim = Claim
  BY DEF Attesting!Claim, Claim
<1>3. Attesting!Sound <=> AttestedTrue
  BY <1>1, <1>2 DEF Attesting!Sound, Attesting!OnlyReachable, AttestedTrue
<1>4. Attesting!Sound' <=> AttestedTrue'
  BY <1>1, <1>2 DEF Attesting!Sound, Attesting!OnlyReachable, AttestedTrue
<1>5. [Attesting!Next]_Attested
  BY DEF Promise!Next, Promise!Start, Promise!Extend,
         Attesting!Next, Attesting!Start, Attesting!Extend
<1> QED BY <1>3, <1>4, <1>5, Attesting!SoundStep, CounterAssumption, StepAssumption

\* verify recomputes the hash of the statement, so a proof it accepts beyond the
\* initial state has an incoming pair that attests the very statement.
LEMMA VerifiedIsAttested ==
  ASSUME TypeOK, NEW k \in Keys, NEW i \in 0 .. MaxI, i # 0, NEW z0, NEW z, NEW p,
         Verify(calls, k, i, z0, z, p)
  PROVE  /\ p.inc \in DOMAIN calls
         /\ ClaimOf(p.inc) = [key |-> k, i |-> i, z0 |-> z0.elems, z |-> z.elems]
         /\ ClaimOf(p.inc) \in Attested
<1>1. /\ HashMatches(calls, k, i, z0, z, p)
      /\ DecideRunning(calls, k, p.run) /\ DecideIncoming(calls, k, p.inc)
      /\ DecideCycleFold(calls, k, p.cf)
  BY DEF Verify
<1>2. p.inc \in DOMAIN calls /\ calls[p.inc].key = k /\ p.inc # Dummy
  BY <1>1 DEF DecideIncoming, Dummy, TypeOK
<1>3. calls[p.inc].x = Hash(k, i, z0, z, p.run, p.cf)
  BY <1>1, <1>2 DEF HashMatches, PublicInput
<1>4. Accepted(p.inc)
  BY <1>1, <1>2, <1>3 DEF Accepted, Hash
<1>5. ClaimOf(p.inc) = [key |-> k, i |-> i, z0 |-> z0.elems, z |-> z.elems]
  BY <1>3 DEF ClaimOf, Hash
<1> QED BY <1>2, <1>3, <1>4, <1>5 DEF Attested

\* verify accepts only states of the shape its key was generated for.
LEMMA VerifiedShapes ==
  ASSUME NEW k, NEW i, NEW z0, NEW z, NEW p, Verify(calls, k, i, z0, z, p)
  PROVE  z0.shape = RefShape /\ z.shape = RefShape
  BY DEF Verify, SameShape

\* verify of the CycleFold-based IVC is sound: what it accepts is computed by the
\* step circuit of its key, in that many satisfied steps, on states of its shape.
THEOREM VerifyIsSound == Spec => []Soundness
<1>1. Init => AttestedTrue
  BY DEF Init, AttestedTrue, Attested
<1>2. TypeOK /\ AttestedTrue /\ [Next]_vars => AttestedTrue'
  BY PromiseStep, AttestedTrueStep
<1>3. TypeOK /\ AttestedTrue => Soundness
  <2> SUFFICES ASSUME TypeOK, AttestedTrue,
                      NEW k \in Keys, NEW i \in 0 .. MaxI, NEW z0 \in States,
                      NEW z \in States, NEW p \in Proofs(calls),
                      Verify(calls, k, i, z0, z, p)
               PROVE  /\ z0.shape = RefShape /\ z.shape = RefShape
                      /\ IF i = 0 THEN z = z0
                         ELSE Reachable([key |-> k, i |-> i, z0 |-> z0.elems,
                                         z |-> z.elems])
    BY DEF Soundness
  <2>1. z0.shape = RefShape /\ z.shape = RefShape
    BY VerifiedShapes
  <2>2. i = 0 => z = z0
    BY DEF Verify
  <2>3. i # 0 => Reachable([key |-> k, i |-> i, z0 |-> z0.elems, z |-> z.elems])
    BY VerifiedIsAttested DEF AttestedTrue
  <2> QED BY <2>1, <2>2, <2>3
<1>4. Spec => []TypeOK
  BY TypeCorrect
<1> QED BY <1>1, <1>2, <1>3, <1>4, PTL DEF Spec

\* A proof of at least one step is accepted for one statement at most: the hash binds
\* the key, the counter and the elements, the reference state binds the shape.
THEOREM StatementIsBound == Spec => []ProofBindsStatement
<1>1. ASSUME TypeOK, NEW p,
             NEW k \in Keys, NEW i \in 1 .. MaxI, NEW z0 \in States, NEW z \in States,
             NEW l \in Keys, NEW j \in 1 .. MaxI, NEW y0 \in States, NEW y \in States,
             Verify(calls, k, i, z0, z, p), Verify(calls, l, j, y0, y, p)
      PROVE  k = l /\ i = j /\ z0 = y0 /\ z = y
  <2>1. /\ i \in 0 .. MaxI /\ i # 0 /\ j \in 0 .. MaxI /\ j # 0
    BY CounterAssumption
  <2>2. ClaimOf(p.inc) = [key |-> k, i |-> i, z0 |-> z0.elems, z |-> z.elems]
    BY <1>1, <2>1, VerifiedIsAttested
  <2>3. ClaimOf(p.inc) = [key |-> l, i |-> j, z0 |-> y0.elems, z |-> y.elems]
    BY <1>1, <2>1, VerifiedIsAttested
  <2>4. k = l /\ i = j /\ z0.elems = y0.elems /\ z.elems = y.elems
    BY <2>2, <2>3
  <2>5. z0.shape = y0.shape /\ z.shape = y.shape
    BY <1>1, VerifiedShapes
  <2> QED BY <2>4, <2>5 DEF States
<1>2. TypeOK => ProofBindsStatement
  BY <1>1 DEF ProofBindsStatement
<1>3. Spec => []TypeOK
  BY TypeCorrect
<1> QED BY <1>2, <1>3, PTL

(***************************************************************************)
(* Completeness.  Every call stays what prove recorded: what it was        *)
(* computed from are older pairs, which later calls leave alone.           *)
(***************************************************************************)
Recorded(n) ==
  LET k    == calls[n].key
      a    == calls[n].from
      fold == CircuitFold(calls, k, a.i, a.z0, a.z, a.p, n)
  IN  /\ calls[n].sat \in Satisfied(k, a.c, a.i, a.z0, a.z, a.e)
      /\ calls[n].x = Hash(k, a.i + 1, a.z0, NextState(a.c, a.i, a.z, a.e), fold, fold)
      /\ calls[n].runOk <=> FoldHolds(calls, k, a.i, a.p)
      /\ calls[n].cfOk <=> CycleFoldHolds(calls, k, a.i, a.p)

\* What is decided of pairs that exist already does not change with a call.
LEMMA OldPairsKept ==
  ASSUME TypeOK, NEW r, calls' = Append(calls, r), NEW k, NEW i, NEW z0, NEW z, NEW n, NEW p,
         p.run \in 0 .. Len(calls), p.inc \in 0 .. Len(calls), p.cf \in 0 .. Len(calls)
  PROVE  /\ CircuitFold(calls', k, i, z0, z, p, n) = CircuitFold(calls, k, i, z0, z, p, n)
         /\ FoldHolds(calls', k, i, p) <=> FoldHolds(calls, k, i, p)
         /\ CycleFoldHolds(calls', k, i, p) <=> CycleFoldHolds(calls, k, i, p)
<1>1. ASSUME NEW m \in 0 .. Len(calls), m # Dummy
      PROVE  m \in DOMAIN calls /\ m \in DOMAIN calls' /\ calls'[m] = calls[m]
  BY <1>1, Appended DEF Dummy, TypeOK
<1>2. Dummy \notin DOMAIN calls /\ Dummy \notin DOMAIN calls'
  BY Appended DEF Dummy, TypeOK
<1>3. HashMatches(calls', k, i, z0, z, p) <=> HashMatches(calls, k, i, z0, z, p)
  BY <1>1 DEF HashMatches, PublicInput
<1>4. DecideRunning(calls', k, p.run) <=> DecideRunning(calls, k, p.run)
  BY <1>1 DEF DecideRunning
<1>5. DecideIncoming(calls', k, p.inc) <=> DecideIncoming(calls, k, p.inc)
  BY <1>1, <1>2 DEF DecideIncoming
<1>6. DecideCycleFold(calls', k, p.cf) <=> DecideCycleFold(calls, k, p.cf)
  BY <1>1 DEF DecideCycleFold
<1> QED BY <1>3, <1>4, <1>5, <1>6 DEF CircuitFold, FoldHolds, CycleFoldHolds

AllRecorded == \A n \in DOMAIN calls : Recorded(n)

LEMMA RecordedStep == ASSUME TypeOK, AllRecorded, [Next]_vars PROVE AllRecorded'
<1>1. CASE Next
  <2>1. PICK k, c, i, z0, z, e, p, sat :
          /\ Supplied(k, c, i, z0, z, e, p)
          /\ Len(calls) < MaxCalls
          /\ sat \in Satisfied(k, c, i, z0, z, e)
          /\ calls' = Append(calls, NewCall(k, c, i, z0, z, e, p, sat))
    BY <1>1, NextAppends
  <2>n. PICK n : n = Len(calls) + 1
    OBVIOUS
  <2> DEFINE r == NewCall(k, c, i, z0, z, e, p, sat)
  <2>2. calls'[n] = r /\ DOMAIN calls' = DOMAIN calls \cup {n} /\ DOMAIN calls = 1 .. Len(calls)
    BY <2>1, <2>n, Appended DEF TypeOK
  <2>3. \A m \in DOMAIN calls : calls'[m] = calls[m]
    BY <2>1, Appended
  <2>4. ASSUME NEW m \in DOMAIN calls PROVE Recorded(m)'
    <3> DEFINE a == calls[m].from
               l == calls[m].key
    <3>1. calls[m] \in Call
      BY DEF TypeOK
    <3>2. a.p \in ProofNames
      BY <3>1 DEF Call, Arguments
    <3>3. /\ a.p.run \in 0 .. Len(calls) /\ a.p.inc \in 0 .. Len(calls)
          /\ a.p.cf \in 0 .. Len(calls)
      <4>1. a.p.run < m /\ a.p.inc < m /\ a.p.cf < m /\ m \in 1 .. Len(calls)
        BY <2>2 DEF TypeOK, NamesExist
      <4>2. a.p.run \in Nat /\ a.p.inc \in Nat /\ a.p.cf \in Nat
        BY <3>2 DEF ProofNames
      <4> HIDE DEF a
      <4> QED BY <4>1, <4>2 DEF TypeOK
    <3>4. calls'[m] = calls[m]
      BY <2>3
    <3>5. Recorded(m)
      BY DEF AllRecorded
    <3> HIDE DEF r, a, l
    <3>6. /\ CircuitFold(calls', l, a.i, a.z0, a.z, a.p, m) = CircuitFold(calls, l, a.i, a.z0, a.z, a.p, m)
          /\ FoldHolds(calls', l, a.i, a.p) <=> FoldHolds(calls, l, a.i, a.p)
          /\ CycleFoldHolds(calls', l, a.i, a.p) <=> CycleFoldHolds(calls, l, a.i, a.p)
      BY <2>1, <3>3, OldPairsKept
    <3> QED BY <3>4, <3>5, <3>6 DEF Recorded, a, l
  <2>5. Recorded(n)'
    <3>1. p.run \in 0 .. Len(calls) /\ p.inc \in 0 .. Len(calls) /\ p.cf \in 0 .. Len(calls)
      BY <2>1, SuppliedProof DEF Supplied
    <3> DEFINE fold == CircuitFold(calls, k, i, z0, z, p, n)
    <3>2. /\ r.key = k /\ r.sat = sat /\ r.from = [c |-> c, i |-> i, z0 |-> z0, z |-> z, e |-> e, p |-> p]
          /\ r.x = Hash(k, i + 1, z0, NextState(c, i, z, e), fold, fold)
          /\ r.runOk = FoldHolds(calls, k, i, p) /\ r.cfOk = CycleFoldHolds(calls, k, i, p)
      BY <2>n DEF NewCall
    <3>3. /\ CircuitFold(calls', k, i, z0, z, p, n) = fold
          /\ FoldHolds(calls', k, i, p) <=> FoldHolds(calls, k, i, p)
          /\ CycleFoldHolds(calls', k, i, p) <=> CycleFoldHolds(calls, k, i, p)
      BY <2>1, <3>1, OldPairsKept
    <3> HIDE DEF r, fold
    <3> QED BY <2>1, <2>2, <3>2, <3>3 DEF Recorded
  <2> HIDE DEF r
  <2> QED BY <2>2, <2>4, <2>5 DEF AllRecorded
<1>2. CASE UNCHANGED vars
  BY <1>2 DEF vars, AllRecorded, Recorded
<1> QED BY <1>1, <1>2

\* The proof a recorded call returned verifies if the one it was given did, and it made a
\* satisfied step of the key's own circuit.
LEMMA RecordedVerifies ==
  ASSUME TypeOK, NEW n \in DOMAIN calls, Recorded(n),
         LET k == calls[n].key
             a == calls[n].from
         IN  /\ Verify(calls, k, a.i, a.z0, a.z, a.p)
             /\ a.c = k /\ Holds(k, a.i, a.z.elems, a.e)
  PROVE  LET k == calls[n].key
             a == calls[n].from
         IN  Verify(calls, k, a.i + 1, a.z0, NextState(k, a.i, a.z, a.e), ProofOf(calls, n))
<1> DEFINE k    == calls[n].key
           a    == calls[n].from
           fold == CircuitFold(calls, k, a.i, a.z0, a.z, a.p, n)
           next == NextState(k, a.i, a.z, a.e)
           q    == ProofOf(calls, n)
<1>1. a.i \in Nat /\ n # Dummy /\ a.i + 1 # 0
  <2>1. calls[n] \in Call /\ n # Dummy
    BY DEF TypeOK, Dummy
  <2>2. a.i \in 0 .. MaxI - 1
    BY <2>1 DEF Call, Arguments
  <2> QED BY <2>1, <2>2, CounterAssumption
<1>2. /\ calls[n].sat \in Satisfied(k, k, a.i, a.z0, a.z, a.e)
      /\ calls[n].x = Hash(k, a.i + 1, a.z0, next, fold, fold)
      /\ calls[n].runOk <=> FoldHolds(calls, k, a.i, a.p)
      /\ calls[n].cfOk <=> CycleFoldHolds(calls, k, a.i, a.p)
  BY DEF Recorded
<1>3. a.z0.shape = RefShape /\ a.z.shape = RefShape /\ next.shape = RefShape
  BY DEF Verify, SameShape, NextState
<1>4. fold = NativeFold(a.i, n) /\ q = [run |-> fold, inc |-> n, cf |-> fold]
  <2>1. IsBaseCase(a.i) \/ HashMatches(calls, k, a.i, a.z0, a.z, a.p)
    BY DEF Verify, IsBaseCase
  <2>2. fold = NativeFold(a.i, n)
    BY <2>1 DEF CircuitFold, NativeFold
  <2> QED BY <2>2 DEF ProofOf
<1>5. HashMatches(calls, k, a.i + 1, a.z0, next, q)
  BY <1>1, <1>2, <1>4 DEF HashMatches, PublicInput
<1>6. calls[n].sat
  <2>1. LaidOut(k, k, a.z0, a.z)
    BY <1>3 DEF LaidOut
  <2>2. Constraints(k, k, a.i, a.z0, a.z, a.e)
    BY <1>1, <2>1 DEF Verify, Constraints, InputsRead, IsBaseCase
  <2> QED BY <1>2, <2>1, <2>2 DEF Satisfied
<1>7. DecideIncoming(calls, k, q.inc)
  BY <1>4, <1>6 DEF DecideIncoming
<1>8. DecideRunning(calls, k, q.run) /\ DecideCycleFold(calls, k, q.cf)
  <2>1. CASE IsBaseCase(a.i)
    <3>1. q.run = Dummy /\ q.cf = Dummy
      BY <1>4, <2>1 DEF NativeFold
    <3> QED BY <3>1 DEF DecideRunning, DecideCycleFold
  <2>2. CASE ~IsBaseCase(a.i)
    <3>1. q.run = n /\ q.cf = n
      BY <1>4, <2>2 DEF NativeFold
    <3>2. FoldHolds(calls, k, a.i, a.p) /\ CycleFoldHolds(calls, k, a.i, a.p)
      BY <2>2 DEF Verify, FoldHolds, CycleFoldHolds, IsBaseCase
    <3> QED BY <1>2, <3>1, <3>2 DEF DecideRunning, DecideCycleFold
  <2> QED BY <2>1, <2>2
<1> HIDE DEF next, q
<1>9. Verify(calls, k, a.i + 1, a.z0, next, q)
  BY <1>1, <1>3, <1>5, <1>7, <1>8 DEF Verify, SameShape
<1> QED BY <1>9 DEF next, q

\* prove and verify are complete: from a proof that verifies, a satisfied step of the key's
\* own circuit gives a proof that verifies, whatever other calls are made before and after.
THEOREM ProveIsComplete == Spec => []Completeness
<1>1. Init => AllRecorded
  BY DEF Init, AllRecorded
<1>2. TypeOK /\ AllRecorded /\ [Next]_vars => AllRecorded'
  BY RecordedStep
<1>3. TypeOK /\ AllRecorded => Completeness
  BY RecordedVerifies DEF AllRecorded, Completeness
<1>4. Spec => []TypeOK
  BY TypeCorrect
<1> QED BY <1>1, <1>2, <1>3, <1>4, PTL DEF Spec

-----------------------------------------------------------------------------
(***************************************************************************)
(* The stateful prover                                                     *)
(***************************************************************************)
ProverType ==
  /\ prover \in [key : Keys, c : Keys, i : 0 .. MaxI, z0 : States, z : States,
                 proof : ProofNames]
  /\ honest \in BOOLEAN

\* What the prover keeps before its first step
AtStart == prover.z = prover.z0 /\ prover.proof = DummyProof

\* What it keeps after one: the proof of its last call, which hashed what it keeps
AfterStep ==
  LET n == prover.proof.inc
  IN  /\ n \in DOMAIN calls
      /\ calls[n].key = prover.key /\ calls[n].from.i = prover.i - 1
      /\ calls[n].x = Hash(prover.key, prover.i, prover.z0, prover.z,
                           prover.proof.run, prover.proof.cf)
      /\ prover.proof = ProofOf(calls, n)
      /\ prover.z.shape = RefShape

Decided ==
  /\ DecideRunning(calls, prover.key, prover.proof.run)
  /\ DecideIncoming(calls, prover.key, prover.proof.inc)
  /\ DecideCycleFold(calls, prover.key, prover.proof.cf)

\* The pairs of the kept proof are satisfied only if the run was honest, and with the key's
\* own circuit they are then.
DecidedIfHonest ==
  /\ Decided => honest
  /\ honest /\ prover.c = prover.key => Decided

\* The inductive invariant
Kept ==
  /\ TypeOK
  /\ ProverType
  /\ honest => prover.z0.shape = RefShape
  /\ prover.i = 0 => AtStart /\ (prover.z0.shape = RefShape => honest)
  /\ prover.i # 0 => AfterStep /\ (prover.z0.shape = RefShape => DecidedIfHonest)

\* It is what verify looks at.
LEMMA KeptDecidesVerify == ASSUME Kept PROVE ProofVerifiesIffHonest
<1>1. CASE prover.i = 0
  BY <1>1 DEF Kept, AtStart, ProofVerifiesIffHonest, CurrentProofVerifies, Verify, SameShape
<1>2. CASE prover.i # 0
  <2> DEFINE p == prover.proof
  <2>1. AfterStep /\ prover.z.shape = RefShape
    BY <1>2 DEF Kept, AfterStep
  <2>2. p.inc # Dummy
    BY <2>1 DEF AfterStep, Kept, TypeOK, Dummy
  <2>3. HashMatches(calls, prover.key, prover.i, prover.z0, prover.z, p)
    BY <2>1, <2>2 DEF AfterStep, HashMatches, PublicInput
  <2>4. CurrentProofVerifies <=> (prover.z0.shape = RefShape /\ Decided)
    BY <1>2, <2>1, <2>3 DEF CurrentProofVerifies, Verify, SameShape, Decided
  <2> QED BY <1>2, <2>4 DEF Kept, DecidedIfHonest, ProofVerifiesIffHonest
<1> QED BY <1>1, <1>2

\* A step of the stateful prover is a call of prove that Next allows.
LEMMA StepIsCall ==
  ASSUME Kept, NEW e \in Ext, ProveStep(e)
  PROVE  /\ Next
         /\ Supplied(prover.key, prover.c, prover.i, prover.z0, prover.z, e, prover.proof)
<1>1. prover.i \in 0 .. MaxI - 1 /\ Len(calls) < MaxCalls
  BY CounterAssumption, BoundAssumption DEF ProveStep, Kept, ProverType, TypeOK
<1>2. prover.proof \in ProofArguments(prover.i)
  <2>1. CASE prover.i = 0
    BY <2>1 DEF Kept, AtStart, ProofArguments, IsBaseCase
  <2>2. CASE prover.i # 0
    <3>1. PICK n \in DOMAIN calls : prover.proof = ProofOf(calls, n)
      BY <2>2 DEF Kept, AfterStep
    <3>2. prover.proof \in Proofs(calls)
      BY <3>1 DEF Proofs, ProofOf
    <3> QED BY <2>2, <3>2 DEF ProofArguments, IsBaseCase
  <2> QED BY <2>1, <2>2
<1>3. Supplied(prover.key, prover.c, prover.i, prover.z0, prover.z, e, prover.proof)
  BY <1>1, <1>2 DEF Supplied, Kept, ProverType
<1>4. Prove(prover.key, prover.c, prover.i, prover.z0, prover.z, e, prover.proof)
  BY DEF ProveStep
<1> QED BY <1>1, <1>3, <1>4 DEF Next, Supplied

\* The incoming pair of the kept proof has the public input the circuit derives, so
\* what the circuit folds is what the prover folded.
LEMMA FoldsAgree ==
  ASSUME Kept, NEW n
  PROVE  CircuitFold(calls, prover.key, prover.i, prover.z0, prover.z, prover.proof, n)
           = NativeFold(prover.i, n)
<1>1. CASE prover.i = 0
  BY <1>1 DEF CircuitFold, NativeFold, IsBaseCase
<1>2. CASE prover.i # 0
  <2>1. AfterStep /\ prover.proof.inc # Dummy
    BY <1>2 DEF Kept, AfterStep, TypeOK, Dummy
  <2>2. HashMatches(calls, prover.key, prover.i, prover.z0, prover.z, prover.proof)
    BY <2>1 DEF AfterStep, HashMatches, PublicInput
  <2> QED BY <1>2, <2>2 DEF CircuitFold, NativeFold, IsBaseCase
<1> QED BY <1>1, <1>2

\* What the call of a step records.
LEMMA StepRecords ==
  ASSUME Kept, NEW e \in Ext, ProveStep(e), NEW n, n = Len(calls) + 1
  PROVE  LET r == calls'[n]
             s == prover
         IN  /\ \E sat \in Satisfied(s.key, s.c, s.i, s.z0, s.z, e) :
                  calls' = Append(calls, NewCall(s.key, s.c, s.i, s.z0, s.z, e, s.proof, sat))
             /\ r.key = s.key /\ r.from.i = s.i
             /\ r.sat \in Satisfied(s.key, s.c, s.i, s.z0, s.z, e)
             /\ r.x = Hash(s.key, s.i + 1, s.z0, NextState(s.c, s.i, s.z, e),
                           NativeFold(s.i, n), NativeFold(s.i, n))
             /\ r.runOk = FoldHolds(calls, s.key, s.i, s.proof)
             /\ r.cfOk = CycleFoldHolds(calls, s.key, s.i, s.proof)
<1> DEFINE s == prover
           r(sat) == NewCall(s.key, s.c, s.i, s.z0, s.z, e, s.proof, sat)
<1>1. PICK sat \in Satisfied(s.key, s.c, s.i, s.z0, s.z, e) : calls' = Append(calls, r(sat))
  BY DEF ProveStep, Prove, NewCall
<1>2. calls'[n] = r(sat)
  BY <1>1, Appended DEF Kept
<1>3. CircuitFold(calls, s.key, s.i, s.z0, s.z, s.proof, n) = NativeFold(s.i, n)
  BY FoldsAgree
<1> QED BY <1>1, <1>2, <1>3 DEF NewCall

\* A satisfied step from a proof that is decided gives one that is, and only that does; with
\* the key's own circuit a step is satisfied if it keeps to the constraints.
LEMMA DecidedStep ==
  ASSUME Kept, NEW e \in Ext, ProveStep(e), prover.z0.shape = RefShape
  PROVE  DecidedIfHonest'
<1> DEFINE s == prover
<1>n. PICK n : n = Len(calls) + 1
  OBVIOUS
<1>1. /\ DOMAIN calls' = 1 .. Len(calls) + 1 /\ Len(calls) \in Nat
      /\ n \in DOMAIN calls' /\ n # Dummy
  BY <1>n, StepRecords, Appended DEF Kept, TypeOK, Dummy
<1>2. /\ prover'.key = s.key /\ prover'.c = s.c /\ prover'.proof = ProofOf(calls', n)
      /\ honest' = (honest /\ Constraints(s.key, s.c, s.i, s.z0, s.z, e))
  BY <1>n DEF ProveStep, Kept, ProverType
<1>3. /\ calls'[n].key = s.key /\ calls'[n].from.i = s.i
      /\ calls'[n].sat \in Satisfied(s.key, s.c, s.i, s.z0, s.z, e)
      /\ calls'[n].runOk = FoldHolds(calls, s.key, s.i, s.proof)
      /\ calls'[n].cfOk = CycleFoldHolds(calls, s.key, s.i, s.proof)
  BY <1>n, StepRecords
<1>4. prover'.proof = [run |-> NativeFold(s.i, n), inc |-> n, cf |-> NativeFold(s.i, n)]
  BY <1>2, <1>3 DEF ProofOf
<1>5. s.z.shape = RefShape
  BY DEF Kept, AtStart, AfterStep
<1>6. /\ calls'[n].sat => Constraints(s.key, s.c, s.i, s.z0, s.z, e)
      /\ Constraints(s.key, s.c, s.i, s.z0, s.z, e) /\ s.c = s.key => calls'[n].sat
  BY <1>3, <1>5 DEF Satisfied, LaidOut
<1>7. DecideIncoming(calls', s.key, n) <=> calls'[n].sat
  BY <1>1, <1>3 DEF DecideIncoming
<1>8. CASE s.i = 0
  <2>1. NativeFold(s.i, n) = Dummy
    BY <1>8 DEF NativeFold, IsBaseCase
  <2>2. honest
    BY <1>8 DEF Kept
  <2>3. DecideRunning(calls', s.key, Dummy) /\ DecideCycleFold(calls', s.key, Dummy)
    BY DEF DecideRunning, DecideCycleFold
  <2>4. Decided' <=> /\ DecideRunning(calls', s.key, Dummy)
                     /\ DecideIncoming(calls', s.key, n)
                     /\ DecideCycleFold(calls', s.key, Dummy)
    BY <1>2, <1>4, <2>1 DEF Decided
  <2> QED BY <1>2, <1>6, <1>7, <2>2, <2>3, <2>4 DEF DecidedIfHonest
<1>9. CASE s.i # 0
  <2>1. NativeFold(s.i, n) = n
    BY <1>9 DEF NativeFold, IsBaseCase
  <2>2. /\ DecideRunning(calls', s.key, n) <=> FoldHolds(calls, s.key, s.i, s.proof)
        /\ DecideCycleFold(calls', s.key, n) <=> CycleFoldHolds(calls, s.key, s.i, s.proof)
    BY <1>1, <1>3 DEF DecideRunning, DecideCycleFold
  <2>3. FoldHolds(calls, s.key, s.i, s.proof) /\ CycleFoldHolds(calls, s.key, s.i, s.proof)
          <=> Decided
    BY <1>9 DEF FoldHolds, CycleFoldHolds, IsBaseCase, Decided
  <2>4. (Decided => honest) /\ (honest /\ s.c = s.key => Decided)
    BY <1>9 DEF Kept, DecidedIfHonest
  <2>5. Decided' <=> /\ DecideRunning(calls', s.key, n)
                     /\ DecideIncoming(calls', s.key, n)
                     /\ DecideCycleFold(calls', s.key, n)
    BY <1>2, <1>4, <2>1 DEF Decided
  <2> QED BY <1>2, <1>6, <1>7, <2>2, <2>3, <2>4, <2>5 DEF DecidedIfHonest
<1> QED BY <1>8, <1>9

LEMMA KeptStep == ASSUME Kept, [NextProver]_proverVars PROVE Kept'
<1>1. ASSUME NEW e \in Ext, ProveStep(e) PROVE Kept'
  <2> DEFINE s == prover
  <2>n. PICK n : n = Len(calls) + 1
    OBVIOUS
  <2>1. TypeOK'
    BY <1>1, StepIsCall, TypeStep DEF Kept
  <2>2. prover' = [s EXCEPT !.i = @ + 1, !.z = NextState(s.c, s.i, s.z, e),
                            !.proof = ProofOf(calls', n)]
    BY <1>1, <2>n DEF ProveStep
  <2>3. /\ s.key \in Keys /\ s.c \in Keys /\ s.i \in 0 .. MaxI - 1 /\ s.z0 \in States
        /\ s.z \in States /\ s.i + 1 \in 0 .. MaxI /\ s.i + 1 # 0
    BY <1>1, StepIsCall, CounterAssumption DEF Supplied
  <2>4. NextState(s.c, s.i, s.z, e) \in States
    <3>1. s.z.elems \in Elems
      BY <2>3 DEF States
    <3>2. StepOf(s.c, s.i, s.z.elems, e) \in Elems
      BY <2>3, <3>1, StepAssumption, CounterAssumption
    <3> QED BY <3>2, ShapeAssumption DEF NextState, States
  <2>5. n \in DOMAIN calls' /\ n \in 0 .. MaxCalls
    <3>1. PICK r : calls' = Append(calls, r)
      BY <1>1, <2>n, StepRecords
    <3>2. Len(calls) \in Nat /\ n <= MaxCalls
      BY <1>1, <2>n DEF Kept, TypeOK, ProveStep
    <3> QED BY <2>n, <3>1, <3>2, Appended, BoundAssumption DEF Kept
  <2>6. calls'[n].from.i = s.i /\ calls'[n].key = s.key
    BY <1>1, <2>n, StepRecords
  <2>7. ProofOf(calls', n) = [run |-> NativeFold(s.i, n), inc |-> n, cf |-> NativeFold(s.i, n)]
    BY <2>6 DEF ProofOf
  <2>8. ProofOf(calls', n) \in ProofNames
    BY <2>5, <2>7, BoundAssumption DEF ProofNames, NativeFold, Dummy
  <2>9. /\ prover'.key = s.key /\ prover'.c = s.c /\ prover'.i = s.i + 1
        /\ prover'.z0 = s.z0 /\ prover'.z = NextState(s.c, s.i, s.z, e)
        /\ prover'.proof = ProofOf(calls', n)
    BY <2>2 DEF Kept, ProverType
  <2>10. honest' \in BOOLEAN
    BY <1>1 DEF ProveStep
  <2>11. ProverType'
    BY <2>2, <2>3, <2>4, <2>8, <2>10 DEF Kept, ProverType
  <2>12. honest' => prover'.z0.shape = RefShape
    BY <1>1, <2>9 DEF ProveStep, Kept
  <2>13. calls'[n].x = Hash(s.key, s.i + 1, s.z0, NextState(s.c, s.i, s.z, e),
                            NativeFold(s.i, n), NativeFold(s.i, n))
    BY <1>1, <2>n, StepRecords
  <2>14. AfterStep'
    BY <2>3, <2>5, <2>6, <2>7, <2>9, <2>13 DEF AfterStep, NextState
  <2>15. prover'.z0.shape = RefShape => DecidedIfHonest'
    BY <1>1, <2>9, DecidedStep
  <2> QED BY <2>1, <2>3, <2>9, <2>11, <2>12, <2>14, <2>15 DEF Kept
<1>2. CASE New
  <2>1. PICK k \in Keys, c \in Keys, z0 \in States : prover' = NewProver(k, c, z0)
    BY <1>2 DEF New, Fresh
  <2>2. TypeOK'
    BY <1>2 DEF New, Kept, TypeOK, NamesExist
  <2>3. DummyProof \in ProofNames
    BY BoundAssumption DEF DummyProof, ProofNames, Dummy
  <2>4. ProverType'
    BY <1>2, <2>1, <2>3, CounterAssumption DEF New, NewProver, ProverType
  <2>5. prover'.i = 0 /\ prover'.z = prover'.z0 /\ prover'.proof = DummyProof
    BY <2>1 DEF NewProver
  <2>6. honest' = (prover'.z0.shape = RefShape)
    BY <1>2 DEF New
  <2> QED BY <2>2, <2>4, <2>5, <2>6 DEF Kept, AtStart
<1>3. CASE UNCHANGED proverVars
  <2>1. TypeOK'
    BY <1>3 DEF proverVars, Kept, TypeOK, NamesExist
  <2>2. AfterStep' <=> AfterStep
    BY <1>3 DEF proverVars, AfterStep, ProofOf
  <2>3. Decided' <=> Decided
    BY <1>3 DEF proverVars, Decided, DecideRunning, DecideIncoming, DecideCycleFold
  <2> QED BY <1>3, <2>1, <2>2, <2>3 DEF proverVars, Kept, DecidedIfHonest, ProverType, AtStart
<1> QED BY <1>1, <1>2, <1>3 DEF NextProver, ProveStepFails

LEMMA KeptInitially == ASSUME InitProver PROVE Kept
<1>1. PICK k \in Keys, c \in Keys, z0 \in States : prover = NewProver(k, c, z0)
  BY DEF InitProver, Fresh
<1>2. TypeOK
  BY BoundAssumption DEF InitProver, Init, TypeOK, NamesExist
<1>3. DummyProof \in ProofNames
  BY BoundAssumption DEF DummyProof, ProofNames, Dummy
<1>4. ProverType
  BY <1>1, <1>3, CounterAssumption DEF InitProver, NewProver, ProverType
<1>5. prover.i = 0 /\ prover.z = prover.z0 /\ prover.proof = DummyProof
  BY <1>1 DEF NewProver
<1> QED BY <1>2, <1>4, <1>5 DEF InitProver, Kept, AtStart

\* The proof that IVCStatefulProver keeps verifies only if the initial state has the key's
\* shape and every step so far kept to the key's constraints; with the key's own circuit, if
\* and only if.
THEOREM HonestyIsWhatVerifies == ProverSpec => []ProofVerifiesIffHonest
<1> QED BY KeptInitially, KeptStep, KeptDecidesVerify, PTL DEF ProverSpec

\* The stateful prover is a well-behaved user of prove: its behaviours are behaviours
\* of CycleFoldIVC, so that everything shown of those holds of it.
THEOREM ProverIsUser == ProverSpec => Spec
<1>1. InitProver => Init
  BY DEF InitProver
<1>2. Kept /\ [NextProver]_proverVars => [Next]_vars
  <2> SUFFICES ASSUME Kept, [NextProver]_proverVars PROVE [Next]_vars
    OBVIOUS
  <2>1. ASSUME NEW e \in Ext, ProveStep(e) PROVE Next
    BY <2>1, StepIsCall
  <2>2. CASE New
    BY <2>2 DEF New, vars
  <2>3. CASE UNCHANGED proverVars
    BY <2>3 DEF proverVars, vars
  <2> QED BY <2>1, <2>2, <2>3 DEF NextProver, ProveStepFails
<1> QED BY <1>1, <1>2, KeptInitially, KeptStep, PTL DEF ProverSpec, Spec
=============================================================================
