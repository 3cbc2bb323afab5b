-------------------------------- MODULE Points --------------------------------
(***************************************************************************)
(* The three forms of a curve point (crates/primitives/src/algebra/group): *)
(* a value, a variable over its own base field, and an emulated variable   *)
(* of two coordinates over another field.  Each is absorbed and made       *)
(* public by code of its own.                                              *)
(*                                                                         *)
(* A value is Jacobian, <<X, Y, Z>> for (X / Z^2, Y / Z^3), and a variable *)
(* is homogeneous, for (X / Z, Y / Z); a sum may be any triple that stands *)
(* for it.  An emulated coordinate is a number: its limbs are in module    *)
(* EmulatedInt.                                                            *)
(***************************************************************************)
EXTENDS Integers, Sequences

CONSTANTS
  Base,             \* the base field, a prime
  CurveA, CurveB    \* y^2 = x^3 + CurveA x + CurveB

VARIABLES
  value,     \* the point out of the circuit
  variable,  \* the point in the circuit of its base field
  emulated,  \* the coordinates that the prover gives for it in another circuit
  fresh      \* variable was allocated, not computed

ptvars == <<value, variable, emulated, fresh>>

BaseField == 0 .. Base - 1
Units == 1 .. Base - 1
Inverted == [z \in Units |-> CHOOSE w \in Units : (z * w) % Base = 1]
Over(x, z) == (x * Inverted[z]) % Base

Infinity == <<>>
Finite == {p \in BaseField \X BaseField :
             (p[2] * p[2] - p[1] * p[1] * p[1] - CurveA * p[1] - CurveB) % Base = 0}
CurvePoints == Finite \cup {Infinity}

\* Base is a prime beyond 2: whatever is not zero has an inverse.
ASSUME BaseAssumption ==
  /\ Base \in Nat /\ Base > 2 /\ CurveA \in Int /\ CurveB \in Int
  /\ \A z \in Units : \E w \in Units : (z * w) % Base = 1

\* The order is odd, so that no y is zero, and b is not zero.
ASSUME CurveAssumption == CurveB % Base # 0 /\ \A p \in Finite : p[2] # 0

Chord(p, q) ==
  LET slope == IF p = q
               THEN Over(3 * p[1] * p[1] + CurveA, (2 * p[2]) % Base)
               ELSE Over(q[2] - p[2], (q[1] - p[1]) % Base)
      x == (slope * slope - p[1] - q[1]) % Base
  IN  <<x, (slope * (p[1] - x) - p[2]) % Base>>

PointSum(p, q) ==
  IF p = Infinity THEN q
  ELSE IF q = Infinity THEN p
  ELSE IF p[1] = q[1] /\ p # q THEN Infinity
  ELSE Chord(p, q)

Jacobian(p) ==
  IF p = Infinity
  THEN {<<(z * z) % Base, (z * z * z) % Base, 0>> : z \in Units}
  ELSE {<<(p[1] * z * z) % Base, (p[2] * z * z * z) % Base, z>> : z \in Units}

Homogeneous(p) ==
  IF p = Infinity
  THEN {<<0, z, 0>> : z \in Units}
  ELSE {<<(p[1] * z) % Base, (p[2] * z) % Base, z>> : z \in Units}

-----------------------------------------------------------------------------
(***************************************************************************)
(* Values                                                                  *)
(***************************************************************************)
\* into_affine
IntoAffine(v) ==
  IF v[3] = 0
  THEN Infinity
  ELSE <<Over(v[1], (v[3] * v[3]) % Base), Over(v[2], (v[3] * v[3] * v[3]) % Base)>>

\* xy().unwrap_or_default()
XY(v) == IF IntoAffine(v) = Infinity THEN <<0, 0>> ELSE IntoAffine(v)

AbsorbPoint(v) == XY(v)

\* inputize
Inputize(v) == IF IntoAffine(v) = Infinity THEN <<0, 1, 0>> ELSE IntoAffine(v) \o <<1>>

\* inputize_emulated
InputizeEmulated(v) == XY(v)

-----------------------------------------------------------------------------
(***************************************************************************)
(* Variables                                                               *)
(***************************************************************************)
\* to_constraint_field: affine coordinates, and whether they are those of infinity
ToConstraintField(w) ==
  IF w[3] = 0 THEN <<0, 0, 1>> ELSE <<Over(w[1], w[3]), Over(w[2], w[3]), 0>>

\* Mutant: the coordinates the variable has
MutAbsorbPointVar(w) == <<w[1], w[2]>>

\* The flag is popped.
AbsorbPointVar(w) == SubSeq(ToConstraintField(w), 1, 2)

\* mark_as_public
PublicPoint(w) == SubSeq(ToConstraintField(w), 1, 2)

\* value of an emulated point: any two coordinates are taken for a point.
ValueOfEmulated(e) == IF e = <<0, 0>> THEN Infinity ELSE e

-----------------------------------------------------------------------------
PointsInit == value = <<>> /\ variable = <<>> /\ emulated = <<>> /\ fresh = FALSE

Allocated == value # <<>>

\* new_variable, for the variable and the emulated one
AllocatePoint ==
  /\ ~Allocated
  /\ \E p \in CurvePoints : \E v \in Jacobian(p) :
       value' = v /\ variable' = Inputize(v) /\ emulated' = XY(v)
  /\ fresh' = TRUE

\* A point is added, in and out of the circuit; the emulated sum is a hint.
AddPoint ==
  /\ Allocated
  /\ \E q \in CurvePoints :
       LET sum == PointSum(IntoAffine(value), q)
       IN  \E v \in Jacobian(sum), w \in Homogeneous(sum) :
             value' = v /\ variable' = w /\ emulated' = XY(v)
  /\ fresh' = FALSE

\* A prover gives other coordinates; nothing checks that they are on the curve.
HintPoint ==
  /\ Allocated
  /\ \E e \in BaseField \X BaseField : emulated' = e
  /\ UNCHANGED <<value, variable, fresh>>

\* conditionally_select between the point and infinity, as for the dummy instance
SelectEmulated ==
  /\ Allocated
  /\ \E cond \in BOOLEAN : emulated' = IF cond THEN <<0, 0>> ELSE emulated
  /\ UNCHANGED <<value, variable, fresh>>

PointsNext == AllocatePoint \/ AddPoint \/ HintPoint \/ SelectEmulated

PointsSpec == PointsInit /\ [][PointsNext]_ptvars

-----------------------------------------------------------------------------
\* PointsAgree: however a point was computed, its value and its variable are absorbed and made
\* public as the same two elements, which no other point has, infinity included, though the
\* flag is left out; the coordinates a prover gives in another circuit are absorbed as the
\* point exactly if they are read back as the point.
PointsAgree ==
  Allocated =>
    /\ AbsorbPointVar(variable) = AbsorbPoint(value)
    /\ PublicPoint(variable) = InputizeEmulated(value)
    /\ fresh => variable = Inputize(value)
    /\ \A p \in CurvePoints : \A v \in Jacobian(p) :
         AbsorbPoint(v) = AbsorbPoint(value) => p = IntoAffine(value)
    /\ emulated = AbsorbPoint(value) <=> ValueOfEmulated(emulated) = IntoAffine(value)
=============================================================================
