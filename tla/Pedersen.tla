-------------------------------- MODULE Pedersen --------------------------------
(***************************************************************************)
(* Pedersen commitments (crates/primitives/src/commitments/pedersen.rs):   *)
(* key generation, commitment, and opening in code and in a circuit.       *)
(*                                                                         *)
(* Nobody knows a relation between the points of a key.  A point is the    *)
(* function of its coefficients over them, index 0 standing for h; the     *)
(* scalars are the field of the curve's order.                             *)
(***************************************************************************)
EXTENDS Integers, Sequences

CONSTANTS
  Order,        \* of the curve
  ScalarBits,   \* bits of an emulated scalar in a circuit
  Lengths,      \* arguments of generate_key
  MaxMessage    \* bound on the length of a message

ASSUME OrderAssumption == Order \in Nat \ {0, 1} /\ ScalarBits \in Nat
ASSUME LengthsAssumption == Lengths \subseteq Nat /\ MaxMessage \in Nat

VARIABLES
  key,          \* PedersenKey: how many generators, and whether it is hiding
  message,      \* what was committed to last
  randomness,   \* of that commitment
  commitment    \* the commitment

pvars == <<key, message, randomness, commitment>>

Scalars == 0 .. Order - 1
Wires == 0 .. 2 ^ ScalarBits - 1      \* what the bits of an emulated scalar may say
Vectors(S) == UNION {[1 .. k -> S] : k \in 0 .. MaxMessage}

\* next_power_of_two
NextPowerOfTwo(n) ==
  IF n = 0 THEN 1 ELSE CHOOSE p \in {2 ^ k : k \in 0 .. n} : n <= p /\ p < 2 * n

\* msm_unchecked, for code, and msm, for the circuit: both stop at the shorter argument.
Msm(k, v) == [i \in 1 .. k.g |-> IF i <= Len(v) THEN v[i] ELSE 0]

\* A point with r times h
Blinded(k, point, r) ==
  [i \in 0 .. k.g |-> IF i = 0 THEN (IF k.hiding THEN r ELSE 0) ELSE point[i]]

TooLong(k, v) == k.g < Len(v)

\* commit of the key
CommitWith(k, v, r) == Blinded(k, Msm(k, v), r)

\* open: a message that is too long is an error.
Opens(k, v, r, cm) == ~TooLong(k, v) /\ CommitWith(k, v, r) = cm

\* Mutant: the loop over the bits ends before the last
MutTimes(w) ==
  LET upTo[j \in 0 .. ScalarBits] ==
        IF j = 0 THEN 0 ELSE (upTo[j - 1] + (IF j < ScalarBits THEN (w \div 2 ^ (j - 1)) % 2 ELSE 0) * 2 ^ (j - 1)) % Order
  IN  upTo[ScalarBits]

\* scalar_mul_le: the coefficient of a point that is multiplied by bits
Times(w) ==
  LET upTo[j \in 0 .. ScalarBits] ==
        IF j = 0 THEN 0 ELSE (upTo[j - 1] + ((w \div 2 ^ (j - 1)) % 2) * 2 ^ (j - 1)) % Order
  IN  upTo[ScalarBits]

\* open of PedersenGadget, which has no length to compare
OpensInCircuit(k, v, r, cm) ==
  Blinded(k, Msm(k, [i \in DOMAIN v |-> Times(v[i])]), Times(r)) = cm

-----------------------------------------------------------------------------
NoKey == [g |-> 0, hiding |-> FALSE]

PedersenInit ==
  /\ key = NoKey
  /\ message = <<>>
  /\ randomness = 0
  /\ commitment = <<>>

GenerateKey ==
  /\ key = NoKey
  /\ \E len \in Lengths, hiding \in BOOLEAN : key' = [g |-> NextPowerOfTwo(len), hiding |-> hiding]
  /\ UNCHANGED <<message, randomness, commitment>>

\* commit; the randomness of a key that is not hiding is Null.
Commit ==
  /\ key # NoKey
  /\ commitment = <<>>
  /\ \E v \in Vectors(Scalars), r \in IF key.hiding THEN Scalars ELSE {0} :
       /\ ~TooLong(key, v)
       /\ message' = v
       /\ randomness' = r
       /\ commitment' = CommitWith(key, v, r)
  /\ UNCHANGED key

PedersenNext == GenerateKey \/ Commit

PedersenSpec == PedersenInit /\ [][PedersenNext]_pvars

-----------------------------------------------------------------------------
Padded(v) == [i \in 1 .. MaxMessage |-> IF i <= Len(v) THEN v[i] ELSE 0]

Reduced(v) == [i \in DOMAIN v |-> v[i] % Order]

\* As much of a message as the key has generators for
Fitting(k, v) == IF TooLong(k, v) THEN [i \in 1 .. k.g |-> v[i]] ELSE v

\* OpeningsExact: whatever bits a prover gives for scalars, the circuit opens a commitment
\* exactly when the scalars they stand for are the message committed to, up to zeros at its
\* end, and its randomness; and open of the code does then, unless the message is too long.
\* Of a message that is too long the circuit sees only what the key has generators for: what
\* is beyond goes unconstrained, and nothing within.
OpeningsExact ==
  commitment # <<>> =>
    \A v \in Vectors(Wires), r \in IF key.hiding THEN Wires ELSE {0} :
      LET committed == /\ Padded(Reduced(Fitting(key, v))) = Padded(message)
                       /\ r % Order = randomness
      IN  /\ OpensInCircuit(key, v, r, commitment) <=> committed
          /\ Opens(key, Reduced(v), r % Order, commitment) <=> ~TooLong(key, v) /\ committed
=============================================================================
