----------------------------- MODULE IVC_proofs ------------------------------
(***************************************************************************)
(* The promise of incrementally verifiable computation is worth having: it *)
(* implies that nothing false is ever attested.                            *)
(***************************************************************************)
EXTENDS IVC, TLAPS

\* A first satisfied step from z0 makes the statement about one step true
\* (FCircuit::generate_step_constraints at i = 0).
LEMMA ReachableStart ==
  ASSUME NEW k \in Keys, NEW z0 \in Elems, NEW e \in Ext, MaxI > 0, Holds(k, 0, z0, e)
  PROVE  LET c == [key |-> k, i |-> 1, z0 |-> z0, z |-> StepOf(k, 0, z0, e)]
         IN  c \in Claim /\ Reachable(c)
<1> DEFINE y == StepOf(k, 0, z0, e)
           c == [key |-> k, i |-> 1, z0 |-> z0, z |-> y]
           path == [j \in 0 .. 1 |-> IF j = 0 THEN z0 ELSE y]
<1>1. y \in Elems
  BY CounterAssumption, StepAssumption
<1>2. c \in Claim
  BY <1>1, CounterAssumption DEF Claim
<1>3. path \in [0 .. c.i -> Elems]
  BY <1>1
<1>4. path[0] = c.z0 /\ path[c.i] = c.z
  OBVIOUS
<1>5. IsRun(c.key, c.i, path)
  <2> SUFFICES ASSUME NEW j \in 0 .. 0 PROVE Leads(k, j, path[j], path[j + 1])
    BY DEF IsRun
  <2>1. j = 0 /\ path[j] = z0 /\ path[j + 1] = y
    OBVIOUS
  <2> QED BY <2>1 DEF Leads
<1> HIDE DEF path
<1> QED BY <1>2, <1>3, <1>4, <1>5 DEF Reachable

\* A satisfied step from a state that i steps reach makes the statement about i + 1
\* steps true.
LEMMA ReachableExtend ==
  ASSUME NEW c \in Claim, NEW e \in Ext, c.i < MaxI, Reachable(c),
         Holds(c.key, c.i, c.z, e)
  PROVE  LET d == [key |-> c.key, i |-> c.i + 1, z0 |-> c.z0,
                   z |-> StepOf(c.key, c.i, c.z, e)]
         IN  d \in Claim /\ Reachable(d)
<1> DEFINE y == StepOf(c.key, c.i, c.z, e)
           d == [key |-> c.key, i |-> c.i + 1, z0 |-> c.z0, z |-> y]
<1>1. c.key \in Keys /\ c.i \in 1 .. MaxI /\ c.z0 \in Elems /\ c.z \in Elems /\ MaxI \in Nat
  BY CounterAssumption DEF Claim
<1>2. y \in Elems
  BY <1>1, StepAssumption
<1>3. d \in Claim
  BY <1>1, <1>2 DEF Claim
<1>4. PICK path \in [0 .. c.i -> Elems] :
        /\ path[0] = c.z0 /\ path[c.i] = c.z
        /\ IsRun(c.key, c.i, path)
  BY DEF Reachable
<1> DEFINE longer == [j \in 0 .. c.i + 1 |-> IF j <= c.i THEN path[j] ELSE y]
<1>5. longer \in [0 .. d.i -> Elems]
  BY <1>1, <1>2
<1>6. longer[0] = d.z0 /\ longer[d.i] = d.z
  BY <1>1, <1>4
<1>7. IsRun(d.key, d.i, longer)
  <2>0. d.key = c.key /\ 0 .. d.i - 1 = 0 .. c.i
    BY <1>1
  <2> SUFFICES ASSUME NEW j \in 0 .. c.i PROVE Leads(c.key, j, longer[j], longer[j + 1])
    BY <2>0 DEF IsRun
  <2>1. CASE j < c.i
    <3>1. longer[j] = path[j] /\ longer[j + 1] = path[j + 1]
      BY <2>1, <1>1
    <3>2. j \in 0 .. c.i - 1
      BY <2>1, <1>1
    <3> QED BY <3>1, <3>2, <1>4 DEF IsRun
  <2>2. CASE j = c.i
    <3>1. longer[j] = c.z /\ longer[j + 1] = y
      BY <2>2, <1>1, <1>4
    <3> QED BY <3>1, <2>2 DEF Leads
  <2> QED BY <2>1, <2>2, <1>1
<1> HIDE DEF longer
<1> QED BY <1>3, <1>5, <1>6, <1>7 DEF Reachable

\* Every attested statement is well-formed and true.
Sound == attested \subseteq Claim /\ OnlyReachable

\* One step of the promise, from the initial state or from an attested statement,
\* attests only what is true (the induction behind IVC::prove).
LEMMA SoundStep == ASSUME Sound, [Next]_attested PROVE Sound'
<1>1. CASE Start
  <2>1. PICK k \in Keys, z0 \in Elems, e \in Ext :
          /\ Holds(k, 0, z0, e)
          /\ attested' = attested \cup
               {[key |-> k, i |-> 1, z0 |-> z0, z |-> StepOf(k, 0, z0, e)]}
    BY <1>1 DEF Start
  <2>2. MaxI > 0
    BY <1>1 DEF Start
  <2> QED BY <2>1, <2>2, ReachableStart DEF Sound, OnlyReachable
<1>2. CASE Extend
  <2>1. PICK c \in attested, e \in Ext :
          /\ c.i < MaxI
          /\ Holds(c.key, c.i, c.z, e)
          /\ attested' = attested \cup
               {[key |-> c.key, i |-> c.i + 1, z0 |-> c.z0,
                 z |-> StepOf(c.key, c.i, c.z, e)]}
    BY <1>2 DEF Extend
  <2>2. c \in Claim /\ Reachable(c)
    BY <2>1 DEF Sound, OnlyReachable
  <2> QED BY <2>1, <2>2, ReachableExtend DEF Sound, OnlyReachable
<1>3. CASE attested' = attested
  BY <1>3 DEF Sound, OnlyReachable
<1> QED BY <1>1, <1>2, <1>3 DEF Next

\* An implementation of the promise attests only states that the step circuit reaches
\* in the claimed number of satisfied steps (the IVC trait, lib.rs:111-114).
THEOREM PromiseIsSound == Spec => []OnlyReachable
<1>1. Init => Sound
  BY DEF Init, Sound, OnlyReachable
<1>2. Sound /\ [Next]_attested => Sound'
  BY SoundStep
<1>3. Sound => OnlyReachable
  BY DEF Sound
<1> QED BY <1>1, <1>2, <1>3, PTL DEF Spec
=============================================================================
