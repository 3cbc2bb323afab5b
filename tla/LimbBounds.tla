------------------------------ MODULE LimbBounds ------------------------------
(***************************************************************************)
(* The bounds that emulated integers keep of each of their limbs: struct   *)
(* Bounds of crates/primitives/src/algebra/field/emulated.rs, and the step *)
(* of the loop of enforce_equal_unaligned that groups limbs by their       *)
(* bounds.  A shift by s bits is given by its factor 2^s.                  *)
(***************************************************************************)
EXTENDS Integers, FiniteSetsExt

CONSTANTS
  P,   \* the modulus of the constraint field
  B    \* 2^BITS_PER_LIMB

ASSUME FieldAssumption == P \in Nat /\ P > 2
ASSUME BaseAssumption == B \in Nat /\ B > 1

Bounds == [lo : Int, hi : Int]
Between(x, b) == b.lo <= x /\ x <= b.hi

Exactly(x) == [lo |-> x, hi |-> x]
ZeroBounds == Exactly(0)

CeilDiv(x, d) == -((-x) \div d)

PlusBounds(a, b) == [lo |-> a.lo + b.lo, hi |-> a.hi + b.hi]
MinusBounds(a, b) == [lo |-> a.lo - b.hi, hi |-> a.hi - b.lo]

\* Mutant: as if both factors were non-negative
MutTimesBounds(a, b) == [lo |-> a.lo * b.lo, hi |-> a.hi * b.hi]

TimesBounds(a, b) ==
  LET corners == {a.lo * b.lo, a.lo * b.hi, a.hi * b.lo, a.hi * b.hi}
  IN  [lo |-> Min(corners), hi |-> Max(corners)]

ShiftLeft(b, unit) == [lo |-> b.lo * unit, hi |-> b.hi * unit]

\* Mutant: shr_wider
MutShiftRight(b, unit) == [lo |-> b.lo \div unit, hi |-> CeilDiv(b.hi, unit)]

\* Rounds the lower bound up and the upper one down: only multiples of unit are shifted
ShiftRightNarrower(b, unit) == [lo |-> CeilDiv(b.lo, unit), hi |-> b.hi \div unit]

(***************************************************************************)
(* filter_safe: a window of (P + 1) / 2 integers around zero, so that an   *)
(* integer within its bounds is known by its residue                       *)
(***************************************************************************)
Limit == (P - 1) \div 2
Safe == {b \in [lo : -Limit .. Limit, hi : -Limit .. Limit] : b.hi - b.lo <= Limit}

Field(x) == x % P

\* The integer that a residue stands for
Signed(v) == IF v > Limit THEN v - P ELSE v

\* 1 / B, as 2^W is invertible
InverseOfB == CHOOSE v \in 0 .. P - 1 : Field(v * B) = 1

(***************************************************************************)
(* What enforce_equal_unaligned keeps of the limbs it has seen: their      *)
(* carry, and the bounds of the carry and of the group it belongs to.      *)
(* unit is 2^offset.                                                       *)
(***************************************************************************)
NoGroup == [carry |-> 0, carry_bounds |-> ZeroBounds, group_bounds |-> ZeroBounds, unit |-> 1]

\* The group with the next limb in it
Extended(g, b) == PlusBounds(g.group_bounds, ShiftLeft(b, g.unit))

NextCarryBounds(g, b) == ShiftRightNarrower(PlusBounds(g.carry_bounds, b), B)

\* The limb extends the group, or, if that could overflow, starts the next one
GroupLimb(g, limb, b) ==
  [carry |-> Field((g.carry + limb) * InverseOfB),
   carry_bounds |-> NextCarryBounds(g, b),
   group_bounds |-> IF Extended(g, b) \in Safe
                    THEN Extended(g, b)
                    ELSE ShiftLeft(NextCarryBounds(g, b), B),
   unit |-> IF Extended(g, b) \in Safe THEN g.unit * B ELSE B]

=============================================================================
