----------------------------- MODULE StepCircuit -----------------------------
(***************************************************************************)
(* The user's step circuits (FCircuit, crates/primitives/src/circuits).    *)
(*                                                                         *)
(* A key is generated for one step circuit, so a key also names its        *)
(* circuit.  StepOf(k, i, z, e) is the state that the circuit of k computes*)
(* in step i from the state z and the external inputs e, and Holds says    *)
(* whether the constraints it generates are satisfied there: a circuit may *)
(* compute a next state from inputs that its constraints reject.           *)
(***************************************************************************)
EXTENDS Integers

CONSTANTS
  Keys,              \* the keys, each standing for its step circuit as well
  Elems,             \* the field elements a state flattens to
  Ext,               \* the external inputs of a step
  StepOf(_, _, _, _),
  Holds(_, _, _, _),
  MaxI               \* the largest step counter

ASSUME CounterAssumption == MaxI \in Nat
ASSUME StepAssumption ==
  \A k \in Keys, i \in 0 .. MaxI, z \in Elems, e \in Ext :
    /\ StepOf(k, i, z, e) \in Elems
    /\ Holds(k, i, z, e) \in BOOLEAN

\* The statement of a proof: z is what the circuit of key computes from z0 in i steps
Claim == [key : Keys, i : 1 .. MaxI, z0 : Elems, z : Elems]

\* One satisfied step of circuit k leads from z to y in step i
Leads(k, i, z, y) == \E e \in Ext : Holds(k, i, z, e) /\ y = StepOf(k, i, z, e)

\* path is a run of i satisfied steps of circuit k
IsRun(k, i, path) == \A j \in 0 .. i - 1 : Leads(k, j, path[j], path[j + 1])

\* The statement is true
Reachable(c) ==
  \E path \in [0 .. c.i -> Elems] :
    /\ path[0] = c.z0 /\ path[c.i] = c.z
    /\ IsRun(c.key, c.i, path)
=============================================================================
