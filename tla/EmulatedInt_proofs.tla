-------------------------- MODULE EmulatedInt_proofs --------------------------
(***************************************************************************)
(* For every field, limb width and limb: the arithmetic of bounds and      *)
(* residues that EmulatedInt rests on; the debug assertions of the         *)
(* grouping loop; and that variables are the integers they are meant to    *)
(* be, that products are forced, that comparisons are right, and that      *)
(* equality, congruence and reduction are forced wherever the range checks *)
(* of carries tell carries apart.                                          *)
(***************************************************************************)
EXTENDS EmulatedInt, TLAPS, FiniteSetTheorems, WellFoundedInduction

(***************************************************************************)
(* Arithmetic                                                              *)
(***************************************************************************)
\* Division of bounds: div_floor and div_ceil, multiplied back
LEMMA Division ==
  ASSUME NEW x \in Int, NEW d \in Nat, d > 0
  PROVE  /\ x \div d \in Int /\ (x \div d) * d <= x
         /\ CeilDiv(x, d) \in Int /\ CeilDiv(x, d) * d >= x
<1>1. x \div d \in Int /\ (x \div d) * d <= x
  BY SMT
<1>2. (-x) \div d \in Int /\ ((-x) \div d) * d <= -x
  BY SMT
<1>3. ASSUME NEW q \in Int, q * d <= -x
      PROVE  (-q) * d >= x
  <2>1. (-q) * d = -(q * d)
    BY SMT
  <2> QED
    BY <1>3, <2>1, SMT
<1> QED
  BY <1>1, <1>2, <1>3 DEF CeilDiv

\* Scaling keeps an order
LEMMA Scaling ==
  ASSUME NEW x \in Int, NEW y \in Int, NEW u \in Nat, x <= y
  PROVE  x * u <= y * u
BY SMT

\* Two multiples of P that differ by less than P are equal
LEMMA NoMultipleBetween ==
  ASSUME NEW k \in Int, NEW d \in Int, d = P * k, -P < d, d < P
  PROVE  d = 0
<1>1. P \in Nat /\ P > 2
  BY FieldAssumption
<1>2. CASE k = 0
  BY <1>1, <1>2, SMT
<1>3. CASE k >= 1
  <2>1. P * k >= P
    BY <1>1, <1>3, SMT
  <2> QED
    BY <2>1, <1>1, SMT
<1>4. CASE k <= -1
  <2>1. P * k <= -P
    BY <1>1, <1>4, SMT
  <2> QED
    BY <2>1, <1>1, SMT
<1> QED
  BY <1>2, <1>3, <1>4, SMT

(***************************************************************************)
(* Bounds                                                                  *)
(***************************************************************************)
LEMMA LimitRange == Limit \in Nat /\ 2 * Limit < P
BY FieldAssumption, SMT DEF Limit

LEMMA SafeBounds ==
  ASSUME NEW b \in Safe
  PROVE  /\ b \in Bounds /\ b.lo \in Int /\ b.hi \in Int
         /\ -Limit <= b.lo /\ b.hi <= Limit /\ b.hi - b.lo <= Limit
BY LimitRange DEF Safe, Bounds

\* Two integers less than P apart that are the same element of the field are the same.
LEMMA KnownByResidue ==
  ASSUME NEW x \in Int, NEW y \in Int, x - y < P, y - x < P, Field(x) = Field(y)
  PROVE  x = y
<1>1. P \in Nat /\ P > 2
  BY FieldAssumption
<1>2. x = P * (x \div P) + (x % P) /\ y = P * (y \div P) + (y % P)
  BY <1>1, SMT
<1>3. x \div P \in Int /\ y \div P \in Int
  BY <1>1, SMT
<1>4. x - y = P * (x \div P - y \div P)
  BY <1>1, <1>2, <1>3, SMT DEF Field
<1>5. x - y = 0
  <2> DEFINE k == x \div P - y \div P
             d == x - y
  <2>1. k \in Int /\ d \in Int /\ d = P * k /\ -P < d /\ d < P
    BY <1>1, <1>3, <1>4, SMT
  <2> HIDE DEF k, d
  <2>2. d = 0
    BY <2>1, NoMultipleBetween
  <2> QED
    BY <2>2 DEF d
<1> QED
  BY <1>5, SMT

\* What filter_safe is for: two integers within safe bounds that are one and the same
\* element of the constraint field are the same integer.
THEOREM SafeIsFaithful ==
  ASSUME NEW b \in Safe, NEW x \in Int, NEW y \in Int,
         Between(x, b), Between(y, b), Field(x) = Field(y)
  PROVE  x = y
<1>1. b.lo \in Int /\ b.hi \in Int /\ b.hi - b.lo <= Limit
  BY SafeBounds
<1>2. x - y <= b.hi - b.lo /\ y - x <= b.hi - b.lo
  BY <1>1, SMT DEF Between
<1>3. x - y < P /\ y - x < P
  BY <1>1, <1>2, LimitRange, FieldAssumption, SMT
<1> QED
  BY <1>3, KnownByResidue

\* compose reads back every limb that never left its safe bounds.
THEOREM SignedOfField ==
  ASSUME NEW b \in Safe, NEW x \in Int, Between(x, b)
  PROVE  Signed(Field(x)) = x
<1>1. P \in Nat /\ P > 2
  BY FieldAssumption
<1>2. -Limit <= x /\ x <= Limit
  BY SafeBounds, LimitRange, SMT DEF Between, Bounds
<1>3. CASE x >= 0
  <2>1. x % P = x
    BY <1>1, <1>2, <1>3, LimitRange, SMT
  <2> QED
    BY <2>1, <1>2, LimitRange, SMT DEF Signed, Field
<1>4. CASE x < 0
  <2>1. x % P = x + P
    BY <1>1, <1>2, <1>4, LimitRange, SMT
  <2>2. x + P > Limit
    BY <1>2, LimitRange, <1>1, SMT
  <2> QED
    BY <2>1, <2>2, <1>1, SMT DEF Signed, Field
<1> QED
  BY <1>3, <1>4, SMT

\* Sums and differences of integers within bounds lie within the bounds computed for them.
THEOREM SumWithinBounds ==
  ASSUME NEW a \in Bounds, NEW b \in Bounds, NEW x \in Int, NEW y \in Int,
         Between(x, a), Between(y, b)
  PROVE  Between(x + y, PlusBounds(a, b)) /\ Between(x - y, MinusBounds(a, b))
BY SMT DEF Bounds, Between, PlusBounds, MinusBounds

\* A product with one fixed factor is largest and least at an end of the other's range.
LEMMA ProductAtEnds ==
  ASSUME NEW x \in Int, NEW l \in Int, NEW h \in Int, NEW y \in Int, l <= y, y <= h
  PROVE  /\ x * l <= x * y \/ x * h <= x * y
         /\ x * y <= x * l \/ x * y <= x * h
<1>1. CASE x >= 0
  BY <1>1, SMT
<1>2. CASE x < 0
  BY <1>2, SMT
<1> QED
  BY <1>1, <1>2, SMT

LEMMA Extremes ==
  ASSUME NEW S, NEW a \in Int, NEW b \in Int, NEW c \in Int, NEW d \in Int,
         S = {a, b, c, d}
  PROVE  /\ Max(S) \in Int /\ \A s \in S : s <= Max(S)
         /\ Min(S) \in Int /\ \A s \in S : Min(S) <= s
<1>1. \E m \in S : \A s \in S : m >= s
  BY SMT
<1>2. \E m \in S : \A s \in S : m <= s
  BY SMT
<1>3. Max(S) \in S /\ \A s \in S : Max(S) >= s
  BY <1>1 DEF Max
<1>4. Min(S) \in S /\ \A s \in S : Min(S) <= s
  BY <1>2 DEF Min
<1> QED
  BY <1>3, <1>4, SMT

\* A product of integers within bounds, of either sign, lies within the bounds computed for it.
THEOREM ProductWithinBounds ==
  ASSUME NEW a \in Bounds, NEW b \in Bounds, NEW x \in Int, NEW y \in Int,
         Between(x, a), Between(y, b)
  PROVE  Between(x * y, TimesBounds(a, b))
<1> DEFINE ll == a.lo * b.lo
           lh == a.lo * b.hi
           hl == a.hi * b.lo
           hh == a.hi * b.hi
           corners == {ll, lh, hl, hh}
<1>1. /\ a.lo \in Int /\ a.hi \in Int /\ b.lo \in Int /\ b.hi \in Int
      /\ a.lo <= x /\ x <= a.hi /\ b.lo <= y /\ y <= b.hi
  BY DEF Bounds, Between
<1>2. ll \in Int /\ lh \in Int /\ hl \in Int /\ hh \in Int
  BY <1>1, SMT
<1>3. /\ x * b.lo <= x * y \/ x * b.hi <= x * y
      /\ x * y <= x * b.lo \/ x * y <= x * b.hi
  BY <1>1, ProductAtEnds
<1>4. ASSUME NEW e \in Int
      PROVE  /\ a.lo * e <= x * e \/ a.hi * e <= x * e
             /\ x * e <= a.lo * e \/ x * e <= a.hi * e
  <2>1. /\ e * a.lo <= e * x \/ e * a.hi <= e * x
        /\ e * x <= e * a.lo \/ e * x <= e * a.hi
    BY <1>1, ProductAtEnds
  <2>2. e * a.lo = a.lo * e /\ e * a.hi = a.hi * e /\ e * x = x * e
    BY <1>1, SMT
  <2> QED
    BY <2>1, <2>2
<1>5. /\ Max(corners) \in Int /\ \A s \in corners : s <= Max(corners)
      /\ Min(corners) \in Int /\ \A s \in corners : Min(corners) <= s
  <2> HIDE DEF ll, lh, hl, hh
  <2> QED
    BY <1>2, Extremes
<1>6. Min(corners) <= x * y /\ x * y <= Max(corners)
  <2>1. /\ ll <= x * b.lo \/ hl <= x * b.lo
        /\ x * b.lo <= ll \/ x * b.lo <= hl
    BY <1>1, <1>4
  <2>2. /\ lh <= x * b.hi \/ hh <= x * b.hi
        /\ x * b.hi <= lh \/ x * b.hi <= hh
    BY <1>1, <1>4
  <2>3. x * y \in Int /\ x * b.lo \in Int /\ x * b.hi \in Int
    BY <1>1, SMT
  <2>4. /\ ll <= Max(corners) /\ lh <= Max(corners) /\ hl <= Max(corners) /\ hh <= Max(corners)
        /\ Min(corners) <= ll /\ Min(corners) <= lh /\ Min(corners) <= hl /\ Min(corners) <= hh
    BY <1>5
  <2>5. Max(corners) \in Int /\ Min(corners) \in Int
    BY <1>5
  <2> DEFINE most == Max(corners)
             least == Min(corners)
             at_lo == x * b.lo
             at_hi == x * b.hi
             xy == x * y
  <2>6. least <= xy /\ xy <= most
    <3>1. at_lo <= xy \/ at_hi <= xy
      BY <1>3
    <3>2. xy <= at_lo \/ xy <= at_hi
      BY <1>3
    <3> HIDE DEF most, least, at_lo, at_hi, xy, ll, lh, hl, hh, corners
    <3>3. at_lo \in Int /\ at_hi \in Int /\ xy \in Int /\ most \in Int /\ least \in Int
      BY <2>3, <2>5 DEF at_lo, at_hi, xy, most, least
    <3>4. least <= at_lo /\ least <= at_hi
      BY <2>1, <2>2, <2>4, <1>2, <3>3, SMT DEF at_lo, at_hi, most, least
    <3>5. at_lo <= most /\ at_hi <= most
      BY <2>1, <2>2, <2>4, <1>2, <3>3, SMT DEF at_lo, at_hi, most, least
    <3> QED
      BY <3>1, <3>2, <3>3, <3>4, <3>5, SMT
  <2> QED
    BY <2>6
<1> QED
  BY <1>6 DEF Between, TimesBounds

\* shr_narrower loses no multiple of the unit it divides by.
THEOREM QuotientWithinBounds ==
  ASSUME NEW b \in Bounds, NEW u \in Nat, u > 0, NEW q \in Int, Between(q * u, b)
  PROVE  Between(q, ShiftRightNarrower(b, u))
<1>1. b.lo \in Int /\ b.hi \in Int /\ b.lo <= q * u /\ q * u <= b.hi
  BY DEF Bounds, Between
<1>2. ASSUME NEW z \in Int, q * u <= z
      PROVE  q <= z \div u
  <2>1. z \div u \in Int /\ z < (z \div u) * u + u
    BY SMT
  <2>2. CASE z \div u <= q - 1
    <3>1. (z \div u) * u <= (q - 1) * u
      BY <2>1, <2>2, Scaling
    <3>2. (q - 1) * u = q * u - u
      BY SMT
    <3> QED
      BY <1>2, <2>1, <3>1, <3>2, SMT
  <2> QED
    BY <2>1, <2>2, SMT
<1>3. ASSUME NEW z \in Int, z <= q * u
      PROVE  CeilDiv(z, u) <= q
  <2>1. (-q) * u = -(q * u)
    BY SMT
  <2>2. (-z) \div u \in Int /\ -z < ((-z) \div u) * u + u
    BY SMT
  <2>3. CASE (-z) \div u <= -q - 1
    <3>1. ((-z) \div u) * u <= (-q - 1) * u
      BY <2>2, <2>3, Scaling
    <3>2. (-q - 1) * u = -(q * u) - u
      BY SMT
    <3> QED
      BY <1>3, <2>2, <3>1, <3>2, SMT
  <2> QED
    BY <2>2, <2>3, SMT DEF CeilDiv
<1> QED
  BY <1>1, <1>2, <1>3 DEF Between, ShiftRightNarrower

(***************************************************************************)
(* The groups of enforce_equal_unaligned                                   *)
(***************************************************************************)
Within(b, c) == c.lo <= b.lo /\ b.hi <= c.hi
Width(b) == b.hi - b.lo

GroupType(g) ==
  /\ g.unit \in Nat /\ g.unit > 0
  /\ g.carry_bounds.lo \in Int /\ g.carry_bounds.hi \in Int
  /\ g.group_bounds.lo \in Int /\ g.group_bounds.hi \in Int

\* Until a limb is in a group, its bounds are zero
Fresh(g) == g.unit = 1 => g.carry_bounds = ZeroBounds /\ g.group_bounds = ZeroBounds

Sound(g) ==
  Within(ShiftLeft(g.carry_bounds, g.unit), g.group_bounds) /\ Width(g.group_bounds) < P

DiffSafe == \A k \in DOMAIN loop.diff.limbs : loop.diff.bounds[k] \in Safe

LoopRecord ==
  loop = [at |-> loop.at, diff |-> loop.diff, group |-> loop.group, fits |-> loop.fits]

\* The inductive invariant
Grouping ==
  LoopRecord /\ GroupType(loop.group) /\ Fresh(loop.group) /\ Sound(loop.group) /\ DiffSafe

LEMMA EmptyGroup == GroupType(NoGroup) /\ Fresh(NoGroup) /\ Sound(NoGroup)
BY FieldAssumption, SMT
   DEF GroupType, Fresh, Sound, Within, Width, NoGroup, ZeroBounds, Exactly, ShiftLeft

\* The carry that goes on, times B, stays within the carry and the limb it came from.
LEMMA CarryShifted ==
  ASSUME NEW g, GroupType(g), NEW b \in Safe
  PROVE  LET c == NextCarryBounds(g, b)
         IN  /\ c.lo \in Int /\ c.hi \in Int
             /\ c.lo * B >= g.carry_bounds.lo + b.lo
             /\ c.hi * B <= g.carry_bounds.hi + b.hi
<1> DEFINE lo == g.carry_bounds.lo + b.lo
           hi == g.carry_bounds.hi + b.hi
<1>1. lo \in Int /\ hi \in Int
  BY SafeBounds DEF GroupType
<1>2. B \in Nat /\ B > 0
  BY BaseAssumption
<1>3. NextCarryBounds(g, b) = [lo |-> CeilDiv(lo, B), hi |-> hi \div B]
  BY DEF NextCarryBounds, ShiftRightNarrower, PlusBounds
<1> HIDE DEF lo, hi
<1>4. CeilDiv(lo, B) \in Int /\ CeilDiv(lo, B) * B >= lo
  BY <1>1, <1>2, Division
<1>5. hi \div B \in Int /\ (hi \div B) * B <= hi
  BY <1>1, <1>2, Division
<1> QED
  BY <1>3, <1>4, <1>5 DEF lo, hi

\* A limb that fits extends the group.
LEMMA ExtendGroup ==
  ASSUME NEW g, GroupType(g), Fresh(g), Sound(g), NEW limb, NEW b \in Safe,
         Extended(g, b) \in Safe
  PROVE  LET n == GroupLimb(g, limb, b) IN GroupType(n) /\ Fresh(n) /\ Sound(n)
<1> DEFINE c == NextCarryBounds(g, b)
           u == g.unit
           n == GroupLimb(g, limb, b)
<1>1. n.carry_bounds = c /\ n.group_bounds = Extended(g, b) /\ n.unit = u * B
  BY DEF GroupLimb
<1>2. /\ u \in Nat /\ u > 0 /\ B \in Nat /\ B > 1
      /\ g.carry_bounds.lo \in Int /\ g.carry_bounds.hi \in Int
      /\ g.group_bounds.lo \in Int /\ g.group_bounds.hi \in Int
      /\ b.lo \in Int /\ b.hi \in Int
  BY BaseAssumption, SafeBounds DEF GroupType
<1>3. /\ c.lo \in Int /\ c.hi \in Int
      /\ c.lo * B >= g.carry_bounds.lo + b.lo
      /\ c.hi * B <= g.carry_bounds.hi + b.hi
  BY CarryShifted
<1>4. u * B \in Nat /\ u * B > 1
  BY <1>2, SMT
<1>5. /\ Extended(g, b).lo = g.group_bounds.lo + b.lo * u
      /\ Extended(g, b).hi = g.group_bounds.hi + b.hi * u
  BY DEF Extended, PlusBounds, ShiftLeft
<1>6. g.carry_bounds.lo * u >= g.group_bounds.lo /\ g.carry_bounds.hi * u <= g.group_bounds.hi
  BY DEF Sound, Within, ShiftLeft
<1>7. c.lo * (u * B) >= Extended(g, b).lo
  <2>1. c.lo * (u * B) = (c.lo * B) * u
    BY <1>2, <1>3, SMT
  <2>2. (c.lo * B) * u >= (g.carry_bounds.lo + b.lo) * u
    BY <1>2, <1>3, Scaling
  <2>3. (g.carry_bounds.lo + b.lo) * u = g.carry_bounds.lo * u + b.lo * u
    BY <1>2, SMT
  <2>4. /\ c.lo * (u * B) \in Int /\ (c.lo * B) * u \in Int
        /\ g.carry_bounds.lo * u \in Int /\ b.lo * u \in Int
    BY <1>2, <1>3, SMT
  <2> DEFINE shifted == c.lo * (u * B)
             before == g.carry_bounds.lo * u
             added == b.lo * u
  <2>5. shifted >= before + added
    BY <2>1, <2>2, <2>3
  <2>6. before >= g.group_bounds.lo /\ g.group_bounds.lo \in Int
    BY <1>2, <1>6
  <2>7. shifted \in Int /\ before \in Int /\ added \in Int
    BY <2>4
  <2> HIDE DEF shifted, before, added
  <2>8. shifted >= g.group_bounds.lo + added
    BY <2>5, <2>6, <2>7, SMT
  <2> QED
    BY <1>5, <2>8 DEF shifted, added
<1>8. c.hi * (u * B) <= Extended(g, b).hi
  <2>1. c.hi * (u * B) = (c.hi * B) * u
    BY <1>2, <1>3, SMT
  <2>2. (c.hi * B) * u <= (g.carry_bounds.hi + b.hi) * u
    BY <1>2, <1>3, Scaling
  <2>3. (g.carry_bounds.hi + b.hi) * u = g.carry_bounds.hi * u + b.hi * u
    BY <1>2, SMT
  <2>4. /\ c.hi * (u * B) \in Int /\ (c.hi * B) * u \in Int
        /\ g.carry_bounds.hi * u \in Int /\ b.hi * u \in Int
    BY <1>2, <1>3, SMT
  <2> DEFINE shifted == c.hi * (u * B)
             before == g.carry_bounds.hi * u
             added == b.hi * u
  <2>5. shifted <= before + added
    BY <2>1, <2>2, <2>3
  <2>6. before <= g.group_bounds.hi /\ g.group_bounds.hi \in Int
    BY <1>2, <1>6
  <2>7. shifted \in Int /\ before \in Int /\ added \in Int
    BY <2>4
  <2> HIDE DEF shifted, before, added
  <2>8. shifted <= g.group_bounds.hi + added
    BY <2>5, <2>6, <2>7, SMT
  <2> QED
    BY <1>5, <2>8 DEF shifted, added
<1>9. Width(Extended(g, b)) < P
  BY SafeBounds, LimitRange, FieldAssumption, SMT DEF Width
<1>10. Sound(n)
  BY <1>1, <1>7, <1>8, <1>9 DEF Sound, Within, ShiftLeft
<1>11. GroupType(n)
  BY <1>1, <1>3, <1>4, SafeBounds DEF GroupType
<1>12. Fresh(n)
  BY <1>1, <1>4, SMT DEF Fresh
<1> QED
  BY <1>10, <1>11, <1>12

\* A limb that does not fit starts the next group: since the carry of the last one was at
\* least halved, carry and limb together are still narrower than the field.
LEMMA StartGroup ==
  ASSUME NEW g, GroupType(g), Fresh(g), Sound(g), NEW limb, NEW b \in Safe,
         Extended(g, b) \notin Safe
  PROVE  LET n == GroupLimb(g, limb, b) IN GroupType(n) /\ Fresh(n) /\ Sound(n)
<1> DEFINE c == NextCarryBounds(g, b)
           u == g.unit
           n == GroupLimb(g, limb, b)
           cb == g.carry_bounds
           gb == g.group_bounds
<1>1. n.carry_bounds = c /\ n.group_bounds = ShiftLeft(c, B) /\ n.unit = B
  BY DEF GroupLimb
<1>2. /\ u \in Nat /\ u > 0 /\ B \in Nat /\ B > 1 /\ P \in Nat /\ P > 2
      /\ cb.lo \in Int /\ cb.hi \in Int /\ gb.lo \in Int /\ gb.hi \in Int
      /\ b.lo \in Int /\ b.hi \in Int /\ b.hi - b.lo <= Limit
  BY BaseAssumption, FieldAssumption, SafeBounds DEF GroupType
<1>3. /\ c.lo \in Int /\ c.hi \in Int
      /\ c.lo * B >= cb.lo + b.lo
      /\ c.hi * B <= cb.hi + b.hi
  BY CarryShifted
<1>4. u # 1
  <2>1. SUFFICES ASSUME u = 1 PROVE FALSE
    OBVIOUS
  <2>2. g.group_bounds = [lo |-> 0, hi |-> 0]
    BY <2>1 DEF Fresh, ZeroBounds, Exactly
  <2>3. Extended(g, b) = [lo |-> 0 + b.lo * 1, hi |-> 0 + b.hi * 1]
    BY <2>1, <2>2 DEF Extended, PlusBounds, ShiftLeft
  <2>4. Extended(g, b) = [lo |-> b.lo, hi |-> b.hi]
    BY <1>2, <2>3, SMT
  <2>5. b = [lo |-> b.lo, hi |-> b.hi]
    BY DEF Safe
  <2> QED
    BY <2>4, <2>5
<1>5. cb.lo * u >= gb.lo /\ cb.hi * u <= gb.hi /\ gb.hi - gb.lo < P
  BY DEF Sound, Within, ShiftLeft, Width
<1>6. (cb.hi - cb.lo) * 2 < P
  <2> DEFINE w == cb.hi - cb.lo
  <2>1. w \in Int /\ w * u = cb.hi * u - cb.lo * u
    BY <1>2, SMT
  <2>2. w * u < P
    BY <1>2, <1>5, <2>1, SMT
  <2>3. CASE w < 0
    BY <1>2, <2>1, <2>3, SMT
  <2>4. CASE w >= 0
    <3>1. 2 * w <= u * w
      BY <1>2, <1>4, <2>1, <2>4, Scaling, SMT
    <3> QED
      BY <1>2, <2>1, <2>2, <3>1, SMT
  <2> QED
    BY <2>1, <2>3, <2>4, SMT
<1>7. c.hi * B - c.lo * B < P
  <2>1. c.hi * B \in Int /\ c.lo * B \in Int
    BY <1>2, <1>3, SMT
  <2> DEFINE top == c.hi * B
             bot == c.lo * B
  <2>2. /\ top \in Int /\ bot \in Int
        /\ bot >= cb.lo + b.lo /\ top <= cb.hi + b.hi
    BY <2>1, <1>3
  <2> HIDE DEF top, bot
  <2>3. top - bot < P
    BY <1>2, <1>6, <2>2, LimitRange, SMT
  <2> QED
    BY <2>3 DEF top, bot
<1>8. Sound(n)
  BY <1>1, <1>2, <1>3, <1>7, SMT DEF Sound, Within, Width, ShiftLeft
<1>9. GroupType(n)
  BY <1>1, <1>2, <1>3, SMT DEF GroupType, ShiftLeft
<1>10. Fresh(n)
  BY <1>1, <1>2, SMT DEF Fresh
<1> QED
  BY <1>8, <1>9, <1>10

\* Calls other than those of the loop leave it alone.
LEMMA OthersKeepLoop ==
  ASSUME Next
  PROVE  \/ UNCHANGED loop
         \/ \E x, y \in store : BeginEqual(x, y)
         \/ GroupNextLimb
         \/ EndEqual
<1>1. ASSUME NEW b, NEW h, Allocate(b, h) PROVE UNCHANGED loop
  BY <1>1 DEF Allocate, Create
<1>2. ASSUME NEW x, AllocateConstant(x) PROVE UNCHANGED loop
  BY <1>2 DEF AllocateConstant, Create
<1>3. ASSUME NEW n, NEW x, AllocateBits(n, x) PROVE UNCHANGED loop
  BY <1>3 DEF AllocateBits, Create
<1>4. ASSUME NEW x, NEW y, Add(x, y) \/ Subtract(x, y) \/ MultiplyConstant(x, y)
      PROVE  UNCHANGED loop
  BY <1>4 DEF Add, Subtract, MultiplyConstant, Create
<1>5. ASSUME NEW x, NEW y, Multiply(x, y) PROVE UNCHANGED loop
  BY <1>5 DEF Multiply, Create
<1>6. ASSUME NEW xs, NEW ys, MultiplyRow(xs, ys) PROVE UNCHANGED loop
  BY <1>6 DEF MultiplyRow, Create
<1>7. ASSUME NEW v, Reduce(v) PROVE UNCHANGED loop
  BY <1>7 DEF Reduce, Create
<1>8. ASSUME NEW cond, NEW x, NEW y, Select(cond, x, y) PROVE UNCHANGED loop
  BY <1>8 DEF Select, Create
<1>9. ASSUME NEW x, NEW y, EnforceLt(x, y) PROVE UNCHANGED loop
  BY <1>9 DEF EnforceLt, Enforce
<1>10. ASSUME NEW x, NEW y, EnforceCongruent(x, y) PROVE UNCHANGED loop
  BY <1>10 DEF EnforceCongruent, Enforce
<1>11. ASSUME NEW x, NEW y, EnforceSame(x, y) PROVE UNCHANGED loop
  BY <1>11 DEF EnforceSame, Enforce
<1>12. ASSUME Return PROVE UNCHANGED loop
  BY <1>12 DEF Return
<1> QED
  BY <1>1, <1>2, <1>3, <1>4, <1>5, <1>6, <1>7, <1>8, <1>9, <1>10, <1>11, <1>12 DEF Next

LEMMA GroupingStarts == ASSUME Init PROVE Grouping
<1>1. loop = [at |-> 0, diff |-> Variable(<<>>, <<>>, 0, TRUE), group |-> NoGroup,
              fits |-> TRUE]
  BY DEF Init, Idle
<1>2. DiffSafe
  BY <1>1, SMT DEF DiffSafe, Variable
<1>3. loop.group = NoGroup /\ LoopRecord
  BY <1>1 DEF LoopRecord
<1> QED
  BY <1>2, <1>3, EmptyGroup DEF Grouping

LEMMA GroupingKept == ASSUME Grouping, [Next]_vars PROVE Grouping'
<1>1. CASE UNCHANGED loop
  BY <1>1 DEF Grouping, LoopRecord, DiffSafe
<1>2. ASSUME NEW x \in store, NEW y \in store, BeginEqual(x, y)
      PROVE  Grouping'
  <2> DEFINE d == Difference(x, y)
  <2>1. loop' = [at |-> 1, diff |-> d, group |-> NoGroup, fits |-> TRUE]
    BY <1>2 DEF BeginEqual, Idle
  <2>2. DOMAIN d.limbs = DOMAIN d.bounds
    BY DEF Difference, Variable
  <2>3. \A k \in DOMAIN d.limbs : d.bounds[k] \in Safe
    BY <1>2, <2>2 DEF BeginEqual, IsSafe
  <2> HIDE DEF d
  <2>4. DiffSafe' /\ LoopRecord' /\ loop'.group = NoGroup
    BY <2>1, <2>3 DEF DiffSafe, LoopRecord
  <2> QED
    BY <2>4, EmptyGroup DEF Grouping
<1>3. CASE GroupNextLimb
  <2> DEFINE limb == loop.diff.limbs[loop.at]
             b == loop.diff.bounds[loop.at]
             n == GroupLimb(loop.group, limb, b)
  <2>1. b \in Safe
    BY <1>3 DEF GroupNextLimb, Grouping, DiffSafe
  <2>2. LoopRecord
    BY DEF Grouping
  <2>3. /\ loop'.diff = loop.diff /\ loop'.group = n
        /\ LoopRecord'
    BY <1>3, <2>2 DEF GroupNextLimb, LoopRecord
  <2>4. GroupType(n) /\ Fresh(n) /\ Sound(n)
    BY <2>1, ExtendGroup, StartGroup DEF Grouping
  <2>5. DiffSafe'
    BY <2>3 DEF Grouping, DiffSafe
  <2> QED
    BY <2>3, <2>4, <2>5 DEF Grouping
<1>4. CASE EndEqual
  <2>1. loop' = [at |-> 0, diff |-> Variable(<<>>, <<>>, 0, TRUE), group |-> NoGroup,
                 fits |-> TRUE]
    BY <1>4 DEF EndEqual, Idle
  <2>2. DiffSafe'
    BY <2>1, SMT DEF DiffSafe, Variable
  <2>3. loop'.group = NoGroup /\ LoopRecord'
    BY <2>1 DEF LoopRecord
  <2> QED
    BY <2>2, <2>3, EmptyGroup DEF Grouping
<1>5. CASE UNCHANGED vars
  BY <1>1, <1>5 DEF vars
<1> QED
  BY <1>1, <1>2, <1>3, <1>4, <1>5, OthersKeepLoop

LEMMA GroupingWithin == ASSUME Grouping PROVE CarryWithinGroup
BY SMT DEF Grouping, GroupType, Sound, Within, Width, CarryWithinGroup, ShiftLeft

\* The debug assertions of enforce_equal_unaligned hold, and every group is determined by
\* its residue, for variables of any number of limbs.
THEOREM GroupsNeverOverflow == Spec => []CarryWithinGroup
<1>1. Init => Grouping
  BY GroupingStarts
<1>2. Grouping /\ [Next]_vars => Grouping'
  BY GroupingKept
<1>3. Grouping => CarryWithinGroup
  BY GroupingWithin
<1> QED
  BY <1>1, <1>2, <1>3, PTL DEF Spec

\* Why the loop needs no more than its range checks: a carry within its bounds whose
\* product with the unit is congruent to the group is the group's quotient.
THEOREM CarryIsQuotient ==
  ASSUME NEW g, GroupType(g), Sound(g),
         NEW group \in Int, Between(group, g.group_bounds),
         NEW c \in Int, Between(c, g.carry_bounds),
         Field(c * g.unit) = Field(group)
  PROVE  c * g.unit = group
<1>1. /\ g.unit \in Nat /\ P \in Nat
      /\ g.carry_bounds.lo \in Int /\ g.carry_bounds.hi \in Int
      /\ g.group_bounds.lo \in Int /\ g.group_bounds.hi \in Int
  BY FieldAssumption DEF GroupType
<1>2. g.carry_bounds.lo * g.unit <= c * g.unit /\ c * g.unit <= g.carry_bounds.hi * g.unit
  BY <1>1, Scaling DEF Between
<1>3. /\ g.group_bounds.lo <= g.carry_bounds.lo * g.unit
      /\ g.carry_bounds.hi * g.unit <= g.group_bounds.hi
  BY DEF Sound, Within, ShiftLeft
<1> DEFINE q == c * g.unit
           most == g.carry_bounds.hi * g.unit
           least == g.carry_bounds.lo * g.unit
<1>4. q \in Int /\ most \in Int /\ least \in Int
  BY <1>1, SMT
<1>5. /\ least <= q /\ q <= most
      /\ g.group_bounds.lo <= least /\ most <= g.group_bounds.hi
      /\ Field(q) = Field(group)
  BY <1>2, <1>3
<1> HIDE DEF q, most, least
<1>6. q - group < P /\ group - q < P
  BY <1>1, <1>4, <1>5, SMT DEF Between, Sound, Width
<1>7. q = group
  BY <1>4, <1>5, <1>6, KnownByResidue
<1> QED
  BY <1>7 DEF q

\* Every nonempty set of numbers has a least one.
LEMMA Least ==
  ASSUME NEW T \in SUBSET Nat, NEW t \in T
  PROVE  \E n \in T : \A m \in T : n <= m
<1> DEFINE R == OpToRel(<, Nat)
<1>1. IsWellFoundedOn(R, Nat)
  BY NatLessThanWellFounded
<1>2. \A x, y \in Nat : x < y => <<x, y>> \in R
  BY DEF OpToRel
<1> HIDE DEF R
<1>3. PICK x \in T : \A y \in T : ~(<<y, x>> \in R)
  BY <1>1, WFMin
<1>4. \A y \in T : ~(y < x)
  BY <1>2, <1>3, Zenon
<1>5. \A y \in T : x <= y
  BY <1>4, SMT
<1> QED BY <1>5

\* A set of numbers that holds 0 and, with a number, the next one up to n, holds those up to n.
LEMMA UpTo ==
  ASSUME NEW n \in Nat, NEW T, 0 \in T, \A k \in 1 .. n : k - 1 \in T => k \in T
  PROVE  0 .. n \subseteq T
<1> SUFFICES ASSUME NEW t \in 0 .. n, t \notin T PROVE FALSE
  OBVIOUS
<1> DEFINE U == (0 .. n) \ T
<1>1. U \in SUBSET Nat /\ t \in U
  OBVIOUS
<1>2. PICK k \in U : \A m \in U : k <= m
  BY <1>1, Least
<1>3. k \in 1 .. n /\ k - 1 \in 0 .. n /\ ~(k <= k - 1)
  BY <1>2
<1>4. k - 1 \in T
  BY <1>2, <1>3
<1> QED BY <1>2, <1>3, <1>4

\* A function with values in V is defined by recursion over an interval.
Recursive(n, V, step, a) ==
  \E f \in [0 .. n -> V] : f[0] = a /\ \A k \in 1 .. n : f[k] = step[k][f[k - 1]]

\* Functions from a value to the next, one for each number
StepFunctions(n, V) == [1 .. n -> [V -> V]]

\* It exists.
LEMMA RecursionIn ==
  ASSUME NEW n \in Nat, NEW V, NEW step \in StepFunctions(n, V), NEW a \in V
  PROVE  Recursive(n, V, step, a)
<1> USE DEF StepFunctions
<1> DEFINE Good(m, f) == f[0] = a /\ \A k \in 1 .. m : f[k] = step[k][f[k - 1]]
           T == {m \in 0 .. n : \E f \in [0 .. m -> V] : Good(m, f)}
<1>1. 0 \in T
  <2> DEFINE f == [k \in 0 .. 0 |-> a]
  <2>1. f \in [0 .. 0 -> V] /\ f[0] = a
    OBVIOUS
  <2>2. 1 .. 0 = {} /\ 0 \in 0 .. n
    OBVIOUS
  <2> QED BY <2>1, <2>2
<1>2. ASSUME NEW m \in 1 .. n, m - 1 \in T PROVE m \in T
  <2>1. PICK f \in [0 .. m - 1 -> V] : Good(m - 1, f)
    BY <1>2
  <2> DEFINE g == [k \in 0 .. m |-> IF k = m THEN step[m][f[m - 1]] ELSE f[k]]
  <2>2. step[m][f[m - 1]] \in V
    <3>1. f[m - 1] \in V /\ step[m] \in [V -> V]
      OBVIOUS
    <3> QED BY <3>1
  <2>3. g \in [0 .. m -> V]
    <3>1. ASSUME NEW k \in 0 .. m
          PROVE  (IF k = m THEN step[m][f[m - 1]] ELSE f[k]) \in V
      <4>1. k # m => k \in 0 .. m - 1
        OBVIOUS
      <4> QED BY <2>2, <4>1
    <3> QED BY <3>1
  <2>4. g[0] = a
    BY <2>1
  <2>5. ASSUME NEW k \in 1 .. m PROVE g[k] = step[k][g[k - 1]]
    <3>1. g[k - 1] = f[k - 1]
      OBVIOUS
    <3>2. CASE k = m
      <4>1. g[m] = step[m][f[m - 1]]
        OBVIOUS
      <4> QED BY <3>1, <3>2, <4>1
    <3>3. CASE k # m
      <4>1. k \in 1 .. m - 1 /\ g[k] = f[k]
        BY <3>3
      <4> QED BY <2>1, <3>1, <4>1
    <3> QED BY <3>2, <3>3
  <2> HIDE DEF g
  <2>6. Good(m, g)
    BY <2>4, <2>5
  <2> HIDE DEF Good
  <2>7. m \in 0 .. n
    OBVIOUS
  <2> QED BY <2>3, <2>6, <2>7, Zenon
<1> HIDE DEF T
<1>3. 0 .. n \subseteq T
  BY <1>1, <1>2, UpTo, Zenon
<1>4. n \in T
  BY <1>3
<1> QED BY <1>4 DEF T, Recursive

\* Division with a remainder
LEMMA Remainder ==
  ASSUME NEW m \in Nat, m > 0, NEW a \in Int
  PROVE  /\ a % m \in 0 .. m - 1 /\ a % m \in Int /\ a \div m \in Int
         /\ a = m * (a \div m) + (a % m)
  BY SMT

\* A number below the modulus is its own residue.
LEMMA SmallResidue == ASSUME NEW m \in Nat, m > 0, NEW a \in 0 .. m - 1 PROVE a % m = a
  BY SMT

\* Two multiples of m less than m apart are the same.
LEMMA NoMultipleWithin ==
  ASSUME NEW m \in Nat, m > 0, NEW k \in Int, -m < m * k, m * k < m
  PROVE  k = 0
<1>1. CASE k >= 1
  <2>1. m * k >= m
    BY <1>1, SMT
  <2> QED BY <2>1, SMT
<1>2. CASE k <= -1
  <2>1. m * k <= -m
    BY <1>2, SMT
  <2> QED BY <2>1, SMT
<1> QED BY <1>1, <1>2, SMT

\* Multiples of the modulus do not change a residue.
LEMMA Shift ==
  ASSUME NEW m \in Nat, m > 0, NEW a \in Int, NEW k \in Int
  PROVE  (a + m * k) % m = a % m
<1> DEFINE b == a + m * k
<1>1. b \in Int /\ b = a + m * k
  BY SMT
<1> HIDE DEF b
<1>2. PICK x \in 0 .. m - 1, p \in Int : a % m = x /\ a = m * p + x
  BY Remainder
<1>3. PICK y \in 0 .. m - 1, q \in Int : b % m = y /\ b = m * q + y
  BY <1>1, Remainder
<1> DEFINE d == (q - p) - k
<1>4. d \in Int /\ m * d = x - y
  <2>1. m * q + y = (m * p + x) + m * k
    BY <1>1, <1>2, <1>3
  <2>2. m * d = (m * q - m * p) - m * k
    BY SMT
  <2>3. m * p \in Int /\ m * q \in Int /\ m * k \in Int /\ x \in Int /\ y \in Int
    BY SMT
  <2> QED BY <2>1, <2>2, <2>3, SMT
<1> HIDE DEF d
<1>5. -m < x - y /\ x - y < m
  BY SMT
<1>6. d = 0
  BY <1>4, <1>5, NoMultipleWithin
<1>7. x - y = 0
  BY <1>4, <1>6, SMT
<1>8. x = y
  BY <1>7, SMT
<1> QED BY <1>1, <1>2, <1>3, <1>8

\* A residue stands for its number in sums and products.
LEMMA Residue ==
  ASSUME NEW m \in Nat, m > 0, NEW a \in Int, NEW b \in Int
  PROVE  /\ ((a % m) + b) % m = (a + b) % m
         /\ ((a % m) * b) % m = (a * b) % m
<1>1. PICK x \in 0 .. m - 1, p \in Int : a % m = x /\ a = m * p + x
  BY Remainder
<1>2. x + b = (a + b) + m * (-p) /\ -p \in Int /\ a + b \in Int
  BY <1>1, SMT
<1>3. x * b = (a * b) + m * (-(p * b)) /\ -(p * b) \in Int /\ a * b \in Int
  BY <1>1, SMT
<1>4. (x + b) % m = (a + b) % m
  BY <1>2, Shift, ZenonT(30)
<1>5. (x * b) % m = (a * b) % m
  BY <1>3, Shift
<1> QED BY <1>1, <1>4, <1>5

\* The powers of two, by the number of subsets of a set of one more element
LEMMA PowerDoubles ==
  ASSUME NEW k \in Nat
  PROVE  2 ^ k \in Nat /\ 2 ^ (k + 1) = 2 * 2 ^ k
<1> DEFINE A == 1 .. k
           C == 1 .. k + 1
           old == SUBSET A
           new == {X \cup {k + 1} : X \in old}
<1>1. IsFiniteSet(A) /\ Cardinality(A) = k /\ IsFiniteSet(C) /\ Cardinality(C) = k + 1
  <2>1. 1 \in Int /\ k \in Int /\ k + 1 \in Int /\ ~(1 > k + 1) /\ (1 > k => k = 0)
        /\ (k - 1) + 1 = k /\ (k + 1 - 1) + 1 = k + 1
    OBVIOUS
  <2> QED BY <2>1, FS_Interval
<1> HIDE DEF A, C
<1>2. /\ IsFiniteSet(SUBSET A) /\ Cardinality(SUBSET A) = 2 ^ k
      /\ IsFiniteSet(SUBSET C) /\ Cardinality(SUBSET C) = 2 ^ (k + 1)
  BY <1>1, FS_SUBSET, Zenon
<1>3. Cardinality(SUBSET A) \in Nat
  BY <1>2, FS_CardinalityType, Zenon
<1>4. SUBSET C = old \cup new
  <2>1. ASSUME NEW X \in SUBSET C, X \notin old PROVE X \in new
    <3>1. k + 1 \in X
      BY <2>1 DEF A, C
    <3>2. X \ {k + 1} \in old
      BY <2>1 DEF A, C
    <3>3. X = (X \ {k + 1}) \cup {k + 1}
      BY <3>1
    <3> QED BY <3>2, <3>3
  <2>2. ASSUME NEW X \in old PROVE X \in SUBSET C /\ X \cup {k + 1} \in SUBSET C
    BY DEF A, C
  <2> QED BY <2>1, <2>2
<1>5. old \cap new = {}
  BY DEF A
<1>6. ExistsBijection(old, new)
  <2>1. PICK f : f = [X \in old |-> X \cup {k + 1}]
    OBVIOUS
  <2>2. f \in [old -> new]
    BY <2>1
  <2>3. \A X, Y \in old : f[X] = f[Y] => X = Y
    <3> SUFFICES ASSUME NEW X \in old, NEW Y \in old, X \cup {k + 1} = Y \cup {k + 1} PROVE X = Y
      BY <2>1
    <3>1. k + 1 \notin X /\ k + 1 \notin Y
      BY DEF A
    <3> QED BY <3>1
  <2>4. \A Z \in new : \E X \in old : f[X] = Z
    BY <2>1
  <2> HIDE DEF old, new
  <2> QED BY <2>2, <2>3, <2>4 DEF ExistsBijection, Bijection, Injection, Surjection, IsInjective
<1> HIDE DEF old, new
<1>7. IsFiniteSet(old) /\ Cardinality(old) = 2 ^ k
  BY <1>2 DEF old
<1>8. IsFiniteSet(new) /\ Cardinality(new) = 2 ^ k
  BY <1>6, <1>7, FS_Bijection, Zenon
<1>9. Cardinality(old \cup new) = Cardinality(old) + Cardinality(new) - Cardinality(old \cap new)
  BY <1>7, <1>8, FS_Union, Zenon
<1>10. Cardinality(old \cap new) = 0
  BY <1>5, FS_EmptySet
<1>11. 2 ^ k \in Nat
  BY <1>2, <1>3
<1>12. PICK p \in Nat : p = 2 ^ k
  BY <1>11
<1>13. 2 ^ (k + 1) = p + p - 0
  BY <1>2, <1>4, <1>7, <1>8, <1>9, <1>10, <1>12
<1>14. p + p - 0 = 2 * p
  BY SMT
<1> QED BY <1>12, <1>13, <1>14

LEMMA PowerPositive == ASSUME NEW k \in Nat PROVE 2 ^ k \in Nat /\ k < 2 ^ k
<1> DEFINE T == {j \in 0 .. k : j < 2 ^ j}
<1>1. 0 \in T
  <2>1. 2 ^ 0 = 1
    OBVIOUS
  <2>2. 0 \in 0 .. k /\ 0 < 1
    OBVIOUS
  <2> QED BY <2>1, <2>2, Zenon
<1>2. ASSUME NEW j \in 1 .. k, j - 1 \in T PROVE j \in T
  <2>1. j - 1 \in Nat /\ j = (j - 1) + 1 /\ j \in 0 .. k
    OBVIOUS
  <2>2. PICK p \in Nat : p = 2 ^ (j - 1) /\ 2 ^ j = 2 * p
    BY <2>1, PowerDoubles
  <2>3. j - 1 < p
    BY <1>2, <2>2
  <2>4. j < 2 * p
    BY <2>3
  <2> QED BY <2>1, <2>2, <2>4
<1> HIDE DEF T
<1>3. 0 .. k \subseteq T
  BY <1>1, <1>2, UpTo, Zenon
<1>4. k \in 0 .. k
  OBVIOUS
<1>5. k < 2 ^ k
  BY <1>3, <1>4 DEF T
<1> QED BY <1>5, PowerDoubles

\* Residues of sums, differences and products
LEMMA FieldSum ==
  ASSUME NEW a \in Int, NEW b \in Int, NEW c \in Int, NEW d \in Int,
         Field(a) = Field(c), Field(b) = Field(d)
  PROVE  Field(a + b) = Field(c + d) /\ Field(a * b) = Field(c * d)
<1>1. P \in Nat /\ P > 0
  BY FieldAssumption
<1>2. PICK p \in Int, q \in Int : a = c + P * p /\ b = d + P * q
  <2>1. a = P * (a \div P) + (a % P) /\ c = P * (c \div P) + (c % P) /\ a \div P \in Int /\ c \div P \in Int
    BY <1>1, Remainder
  <2>2. b = P * (b \div P) + (b % P) /\ d = P * (d \div P) + (d % P) /\ b \div P \in Int /\ d \div P \in Int
    BY <1>1, Remainder
  <2>3. a = c + P * (a \div P - c \div P)
    BY <1>1, <2>1, SMT DEF Field
  <2>4. b = d + P * (b \div P - d \div P)
    BY <1>1, <2>2, SMT DEF Field
  <2>5. a \div P - c \div P \in Int /\ b \div P - d \div P \in Int
    BY <2>1, <2>2
  <2> QED BY <2>3, <2>4, <2>5
<1>3. a + b = (c + d) + P * (p + q) /\ c + d \in Int /\ p + q \in Int
  BY <1>1, <1>2, SMT
<1>4. a * b = (c * d) + P * (c * q + p * d + P * (p * q))
  <2>1. (c + P * p) * (d + P * q) = c * d + P * (c * q + p * d + P * (p * q))
    BY <1>1, SMT
  <2> QED BY <1>2, <2>1
<1>5. c * d \in Int /\ c * q + p * d + P * (p * q) \in Int
  BY <1>1, SMT
<1>6. (a + b) % P = (c + d) % P
  <2>1. ((c + d) + P * (p + q)) % P = (c + d) % P
    BY <1>1, <1>3, Shift, Zenon
  <2> QED BY <1>3, <2>1, Zenon
<1>7. (a * b) % P = (c * d) % P
  <2>1. (c * d + P * (c * q + p * d + P * (p * q))) % P = (c * d) % P
    BY <1>1, <1>5, Shift, Zenon
  <2> QED BY <1>4, <2>1, Zenon
<1> QED BY <1>6, <1>7 DEF Field

(***************************************************************************)
(* Sums                                                                    *)
(***************************************************************************)
\* The first n terms are integers.
Terms(n, f) == \A k \in 1 .. n : f[k] \in Int

SumsTo(g, n, f) == g \in [0 .. n -> Int] /\ g[0] = 0 /\ \A k \in 1 .. n : g[k] = g[k - 1] + f[k]

LEMMA SumsExist ==
  ASSUME NEW n \in Nat, NEW f, Terms(n, f)
  PROVE  \E g : SumsTo(g, n, f)
<1> DEFINE step == [k \in 1 .. n |-> [x \in Int |-> x + f[k]]]
<1>1. step \in StepFunctions(n, Int)
  <2>1. ASSUME NEW k \in 1 .. n PROVE [x \in Int |-> x + f[k]] \in [Int -> Int]
    <3>1. f[k] \in Int
      BY DEF Terms
    <3> QED BY <3>1
  <2> QED BY <2>1 DEF StepFunctions
<1>2. \A k \in 1 .. n, x \in Int : step[k][x] = x + f[k]
  OBVIOUS
<1> HIDE DEF step
<1>3. Recursive(n, Int, step, 0)
  <2>1. 0 \in Int
    OBVIOUS
  <2> QED BY <1>1, <2>1, RecursionIn, Zenon
<1>4. PICK g \in [0 .. n -> Int] : g[0] = 0 /\ \A k \in 1 .. n : g[k] = step[k][g[k - 1]]
  BY <1>3 DEF Recursive
<1>5. ASSUME NEW k \in 1 .. n PROVE g[k] = g[k - 1] + f[k]
  <2>1. g[k - 1] \in Int
    OBVIOUS
  <2> QED BY <1>2, <1>4, <2>1
<1> QED BY <1>4, <1>5 DEF SumsTo

LEMMA TotalIs ==
  ASSUME NEW n \in Nat, NEW f, NEW g, SumsTo(g, n, f)
  PROVE  Total(n, f) = g[n]
<1> DEFINE Good(h) == h = [k \in 0 .. n |-> IF k = 0 THEN 0 ELSE h[k - 1] + f[k]]
<1>1. Good(g)
  <2>1. ASSUME NEW k \in 0 .. n PROVE g[k] = IF k = 0 THEN 0 ELSE g[k - 1] + f[k]
    BY DEF SumsTo
  <2>2. g = [k \in 0 .. n |-> g[k]]
    BY DEF SumsTo
  <2> QED BY <2>1, <2>2
<1> DEFINE h == CHOOSE h : Good(h)
<1>2. Good(h)
  BY <1>1, Zenon
<1>3. Total(n, f) = h[n]
  BY DEF Total
<1>4. h[0] = 0 /\ \A k \in 1 .. n : h[k] = h[k - 1] + f[k]
  <2>1. \A k \in 0 .. n : h[k] = IF k = 0 THEN 0 ELSE h[k - 1] + f[k]
    BY <1>2, Zenon
  <2>2. 0 \in 0 .. n /\ \A k \in 1 .. n : k \in 0 .. n /\ k # 0
    OBVIOUS
  <2> QED BY <2>1, <2>2, Zenon
<1> HIDE DEF h, Good
<1> DEFINE T == {k \in 0 .. n : h[k] = g[k]}
<1>5. 0 \in T
  BY <1>4 DEF SumsTo
<1>6. ASSUME NEW k \in 1 .. n, k - 1 \in T PROVE k \in T
  BY <1>4, <1>6 DEF SumsTo
<1> HIDE DEF T
<1>7. 0 .. n \subseteq T
  BY <1>5, <1>6, UpTo, Zenon
<1>8. n \in T
  BY <1>7
<1> QED BY <1>3, <1>8 DEF T

\* Sums, term by term
LEMMA TotalSteps ==
  ASSUME NEW n \in Nat, NEW f, Terms(n, f)
  PROVE  /\ Total(0, f) = 0
         /\ \A k \in 0 .. n : Total(k, f) \in Int
         /\ \A k \in 1 .. n : f[k] \in Int /\ Total(k, f) = Total(k - 1, f) + f[k]
<1>1. PICK g : SumsTo(g, n, f)
  BY SumsExist
<1>2. ASSUME NEW k \in 0 .. n PROVE Total(k, f) = g[k]
  <2> DEFINE h == [i \in 0 .. k |-> g[i]]
  <2>1. SumsTo(h, k, f)
    <3>1. ASSUME NEW i \in 0 .. k PROVE g[i] \in Int
      BY <1>1 DEF SumsTo
    <3>2. ASSUME NEW i \in 1 .. k PROVE h[i] = h[i - 1] + f[i]
      BY <1>1 DEF SumsTo
    <3>3. h[0] = 0
      BY <1>1 DEF SumsTo
    <3> QED BY <3>1, <3>2, <3>3 DEF SumsTo
  <2>2. h[k] = g[k] /\ k \in Nat
    OBVIOUS
  <2> HIDE DEF h
  <2> QED BY <2>1, <2>2, TotalIs
<1>3. ASSUME NEW k \in 1 .. n PROVE f[k] \in Int /\ Total(k, f) = Total(k - 1, f) + f[k]
  <2>1. k \in 0 .. n /\ k - 1 \in 0 .. n
    OBVIOUS
  <2>2. g[k] = g[k - 1] + f[k]
    BY <1>1 DEF SumsTo
  <2> QED BY <1>2, <2>1, <2>2 DEF Terms
<1>4. 0 \in 0 .. n
  OBVIOUS
<1> QED BY <1>1, <1>2, <1>3, <1>4 DEF SumsTo

LEMMA TotalInt ==
  ASSUME NEW n \in Nat, NEW f, Terms(n, f)
  PROVE  Total(n, f) \in Int
<1>1. n \in 0 .. n
  OBVIOUS
<1> QED BY <1>1, TotalSteps

\* Equal terms have equal sums.
LEMMA TotalSame ==
  ASSUME NEW n \in Nat, NEW f, NEW g, Terms(n, f), \A k \in 1 .. n : g[k] = f[k]
  PROVE  Total(n, g) = Total(n, f)
<1>1. Terms(n, g)
  BY DEF Terms
<1> DEFINE T == {k \in 0 .. n : Total(k, g) = Total(k, f)}
<1>2. 0 \in T
  BY <1>1, TotalSteps
<1>3. ASSUME NEW k \in 1 .. n, k - 1 \in T PROVE k \in T
  <2>1. /\ Total(k, f) = Total(k - 1, f) + f[k] /\ Total(k, g) = Total(k - 1, g) + g[k]
    BY <1>1, TotalSteps
  <2> QED BY <1>3, <2>1
<1> HIDE DEF T
<1>4. 0 .. n \subseteq T
  BY <1>2, <1>3, UpTo, Zenon
<1>5. n \in T
  BY <1>4
<1> QED BY <1>5 DEF T

\* A sum of multiples of sums of terms
LEMMA TotalLinear ==
  ASSUME NEW n \in Nat, NEW f, NEW g, NEW h, NEW a \in Int, NEW b \in Int,
         Terms(n, f), Terms(n, g), \A k \in 1 .. n : h[k] = a * f[k] + b * g[k]
  PROVE  Terms(n, h) /\ Total(n, h) = a * Total(n, f) + b * Total(n, g)
<1>1. Terms(n, h)
  <2>1. ASSUME NEW k \in 1 .. n PROVE h[k] \in Int
    <3>1. f[k] \in Int /\ g[k] \in Int
      BY DEF Terms
    <3>2. a * f[k] + b * g[k] \in Int
      BY <3>1, SMT
    <3> QED BY <3>2
  <2> QED BY <2>1 DEF Terms
<1> DEFINE T == {k \in 0 .. n : Total(k, h) = a * Total(k, f) + b * Total(k, g)}
<1>2. 0 \in T
  <2>1. Total(0, h) = 0 /\ Total(0, f) = 0 /\ Total(0, g) = 0
    BY <1>1, TotalSteps
  <2>2. a * 0 + b * 0 = 0
    BY SMT
  <2> QED BY <2>1, <2>2
<1>3. ASSUME NEW k \in 1 .. n, k - 1 \in T PROVE k \in T
  <2>1. PICK s \in Int, u \in Int, x \in Int, y \in Int :
          s = Total(k - 1, f) /\ u = Total(k - 1, g) /\ x = f[k] /\ y = g[k]
    <3>1. k - 1 \in 0 .. n
      OBVIOUS
    <3>2. Total(k - 1, f) \in Int /\ Total(k - 1, g) \in Int /\ f[k] \in Int /\ g[k] \in Int
      BY <3>1, TotalSteps
    <3> QED BY <3>2
  <2>2. Total(k, f) = s + x /\ Total(k, g) = u + y
    BY <2>1, TotalSteps
  <2>3. Total(k, h) = Total(k - 1, h) + h[k]
    BY <1>1, TotalSteps
  <2>4. Total(k, h) = (a * s + b * u) + (a * x + b * y)
    BY <1>3, <2>1, <2>3
  <2>5. (a * s + b * u) + (a * x + b * y) = a * (s + x) + b * (u + y)
    BY SMT
  <2> QED BY <2>2, <2>4, <2>5
<1> HIDE DEF T
<1>4. 0 .. n \subseteq T
  BY <1>2, <1>3, UpTo, Zenon
<1>5. n \in T
  BY <1>4
<1> QED BY <1>1, <1>5 DEF T

\* A constant factor
LEMMA TotalTimes ==
  ASSUME NEW n \in Nat, NEW f, NEW h, NEW a \in Int,
         Terms(n, f), \A k \in 1 .. n : h[k] = a * f[k]
  PROVE  Terms(n, h) /\ Total(n, h) = a * Total(n, f)
<1>1. ASSUME NEW k \in 1 .. n PROVE h[k] = a * f[k] + 0 * f[k]
  <2>1. f[k] \in Int
    BY DEF Terms
  <2> QED BY <2>1, SMT
<1>2. Terms(n, h) /\ Total(n, h) = a * Total(n, f) + 0 * Total(n, f)
  BY <1>1, TotalLinear
<1>3. Total(n, f) \in Int
  BY TotalInt
<1> QED BY <1>2, <1>3, SMT

\* A sum of terms
LEMMA TotalPlus ==
  ASSUME NEW n \in Nat, NEW f, NEW g, NEW h,
         Terms(n, f), Terms(n, g), \A k \in 1 .. n : h[k] = f[k] + g[k]
  PROVE  Terms(n, h) /\ Total(n, h) = Total(n, f) + Total(n, g)
<1>1. ASSUME NEW k \in 1 .. n PROVE h[k] = 1 * f[k] + 1 * g[k]
  <2>1. f[k] \in Int /\ g[k] \in Int
    BY DEF Terms
  <2> QED BY <2>1, SMT
<1>2. Terms(n, h) /\ Total(n, h) = 1 * Total(n, f) + 1 * Total(n, g)
  BY <1>1, TotalLinear
<1>3. Total(n, f) \in Int /\ Total(n, g) \in Int
  BY TotalInt
<1> QED BY <1>2, <1>3, SMT

\* A difference of terms
LEMMA TotalMinus ==
  ASSUME NEW n \in Nat, NEW f, NEW g, NEW h,
         Terms(n, f), Terms(n, g), \A k \in 1 .. n : h[k] = f[k] - g[k]
  PROVE  Terms(n, h) /\ Total(n, h) = Total(n, f) - Total(n, g)
<1>1. PICK m \in Int : m = -1
  OBVIOUS
<1>2. ASSUME NEW k \in 1 .. n PROVE h[k] = 1 * f[k] + m * g[k]
  <2>1. f[k] \in Int /\ g[k] \in Int
    BY DEF Terms
  <2> QED BY <1>1, <2>1, SMT
<1>3. Terms(n, h) /\ Total(n, h) = 1 * Total(n, f) + m * Total(n, g)
  BY <1>2, TotalLinear
<1>4. Total(n, f) \in Int /\ Total(n, g) \in Int
  BY TotalInt
<1> QED BY <1>1, <1>3, <1>4, SMT

\* Terms that are zero do not count.
LEMMA TotalTail ==
  ASSUME NEW n \in Nat, NEW l \in 0 .. n, NEW f, Terms(n, f), \A k \in l + 1 .. n : f[k] = 0
  PROVE  Total(n, f) = Total(l, f)
<1> DEFINE T == {k \in 0 .. n : k >= l => Total(k, f) = Total(l, f)}
<1>1. 0 \in T
  OBVIOUS
<1>2. ASSUME NEW k \in 1 .. n, k - 1 \in T PROVE k \in T
  <2>1. CASE k > l
    <3>1. k \in l + 1 .. n /\ k - 1 >= l /\ k - 1 \in 0 .. n
      BY <2>1
    <3>2. Total(k, f) = Total(k - 1, f) + f[k] /\ Total(k - 1, f) \in Int
      BY <3>1, TotalSteps
    <3> QED BY <1>2, <3>1, <3>2
  <2>2. CASE k <= l
    BY <2>2
  <2> QED BY <2>1, <2>2
<1> HIDE DEF T
<1>3. 0 .. n \subseteq T
  BY <1>1, <1>2, UpTo, Zenon
<1>4. n \in T
  BY <1>3
<1> QED BY <1>4 DEF T

\* Sums keep the order of terms.
LEMMA TotalOrder ==
  ASSUME NEW n \in Nat, NEW f, NEW g, Terms(n, f), Terms(n, g), \A k \in 1 .. n : f[k] <= g[k]
  PROVE  Total(n, f) <= Total(n, g)
<1> DEFINE T == {k \in 0 .. n : Total(k, f) <= Total(k, g)}
<1>1. 0 \in T
  BY TotalSteps
<1>2. ASSUME NEW k \in 1 .. n, k - 1 \in T PROVE k \in T
  <2>1. k - 1 \in 0 .. n
    OBVIOUS
  <2>2. /\ Total(k, f) = Total(k - 1, f) + f[k] /\ Total(k, g) = Total(k - 1, g) + g[k]
        /\ f[k] \in Int /\ g[k] \in Int
    BY TotalSteps
  <2>3. Total(k - 1, f) \in Int /\ Total(k - 1, g) \in Int
    BY <2>1, TotalSteps
  <2> QED BY <1>2, <2>2, <2>3
<1> HIDE DEF T
<1>3. 0 .. n \subseteq T
  BY <1>1, <1>2, UpTo, Zenon
<1>4. n \in T
  BY <1>3
<1> QED BY <1>4 DEF T

\* Equal residues have sums of one residue.
LEMMA TotalResidue ==
  ASSUME NEW n \in Nat, NEW f, NEW g, Terms(n, f), Terms(n, g),
         \A k \in 1 .. n : Field(f[k]) = Field(g[k])
  PROVE  Field(Total(n, f)) = Field(Total(n, g))
<1> DEFINE T == {k \in 0 .. n : Field(Total(k, f)) = Field(Total(k, g))}
<1>1. 0 \in T
  BY TotalSteps
<1>2. ASSUME NEW k \in 1 .. n, k - 1 \in T PROVE k \in T
  <2>1. k - 1 \in 0 .. n
    OBVIOUS
  <2>2. PICK s \in Int, u \in Int, x \in Int, y \in Int :
          s = Total(k - 1, f) /\ u = Total(k - 1, g) /\ x = f[k] /\ y = g[k]
    <3>1. Total(k - 1, f) \in Int /\ Total(k - 1, g) \in Int /\ f[k] \in Int /\ g[k] \in Int
      BY <2>1, TotalSteps
    <3> QED BY <3>1
  <2>3. Total(k, f) = s + x /\ Total(k, g) = u + y
    BY <2>2, TotalSteps
  <2>4. Field(s) = Field(u) /\ Field(x) = Field(y)
    BY <1>2, <2>2
  <2>5. Field(s + x) = Field(u + y)
    BY <2>4, FieldSum
  <2> QED BY <2>3, <2>5
<1> HIDE DEF T
<1>3. 0 .. n \subseteq T
  BY <1>1, <1>2, UpTo, Zenon
<1>4. n \in T
  BY <1>3
<1> QED BY <1>4 DEF T

(***************************************************************************)
(* Powers of two, bits and digits                                          *)
(***************************************************************************)
LEMMA BaseType ==
  /\ P \in Nat /\ P > 0 /\ P > 2 /\ W \in Nat /\ W > 0 /\ B \in Nat /\ B > 1 /\ B = 2 ^ W /\ 4 * B <= P
BY FieldAssumption, BaseAssumption, WidthAssumption, CapacityAssumption

LEMMA PowerAdds ==
  ASSUME NEW a \in Nat, NEW b \in Nat
  PROVE  2 ^ (a + b) = (2 ^ a) * (2 ^ b)
<1> DEFINE T == {k \in 0 .. b : 2 ^ (a + k) = (2 ^ a) * (2 ^ k)}
<1>1. 0 \in T
  <2>1. 2 ^ 0 = 1 /\ a + 0 = a /\ 2 ^ a \in Nat
    BY PowerDoubles
  <2>2. (2 ^ a) * 1 = 2 ^ a
    <3>1. PICK p \in Nat : p = 2 ^ a
      BY <2>1
    <3>2. p * 1 = p
      OBVIOUS
    <3> QED BY <3>1, <3>2
  <2>3. 0 \in 0 .. b
    OBVIOUS
  <2> QED BY <2>1, <2>2, <2>3, Zenon
<1>2. ASSUME NEW k \in 1 .. b, k - 1 \in T PROVE k \in T
  <2>1. k - 1 \in Nat /\ a + (k - 1) \in Nat /\ k = (k - 1) + 1 /\ a + k = (a + (k - 1)) + 1 /\ k \in 0 .. b
    OBVIOUS
  <2>2. 2 ^ k = 2 * 2 ^ (k - 1) /\ 2 ^ (k - 1) \in Nat
    BY <2>1, PowerDoubles
  <2>3. 2 ^ (a + k) = 2 * 2 ^ (a + (k - 1)) /\ 2 ^ a \in Nat
    BY <2>1, PowerDoubles
  <2>4. 2 ^ (a + (k - 1)) = (2 ^ a) * (2 ^ (k - 1))
    BY <1>2
  <2>5. PICK p \in Nat, q \in Nat : p = 2 ^ a /\ q = 2 ^ (k - 1)
    BY <2>2, <2>3
  <2>6. 2 ^ (a + k) = 2 * (p * q) /\ 2 ^ k = 2 * q
    BY <2>2, <2>3, <2>4, <2>5
  <2>7. 2 * (p * q) = p * (2 * q)
    BY SMT
  <2> QED BY <2>1, <2>5, <2>6, <2>7
<1> HIDE DEF T
<1>3. 0 .. b \subseteq T
  BY <1>1, <1>2, UpTo, Zenon
<1>4. b \in T
  BY <1>3
<1> QED BY <1>4 DEF T

LEMMA PowerOrder ==
  ASSUME NEW a \in Nat, NEW b \in Nat, a <= b
  PROVE  2 ^ a <= 2 ^ b /\ 2 ^ a \in Nat /\ 2 ^ b \in Nat /\ 2 ^ a >= 1
<1>1. b - a \in Nat /\ b = a + (b - a)
  OBVIOUS
<1>2. PICK p \in Nat, q \in Nat : p = 2 ^ a /\ q = 2 ^ (b - a) /\ q >= 1 /\ p >= 1
  <2>1. 2 ^ a \in Nat /\ 2 ^ a > a /\ 2 ^ (b - a) \in Nat /\ 2 ^ (b - a) > b - a
    BY <1>1, PowerPositive
  <2> QED BY <1>1, <2>1
<1>3. 2 ^ b = p * q
  BY <1>1, <1>2, PowerAdds
<1>4. p * q >= p /\ p * q \in Nat
  BY <1>2, SMT
<1> QED BY <1>2, <1>3, <1>4

\* Weights are the powers of the base.
LEMMA Weights ==
  ASSUME NEW k \in Nat, k >= 1
  PROVE  /\ Weight(k) \in Nat /\ Weight(k) >= 1 /\ Weight(1) = 1
         /\ Weight(k + 1) = Weight(k) * B
<1>1. W \in Nat /\ k - 1 \in Nat
  BY BaseType
<1>2. W * (k - 1) \in Nat /\ W * (k + 1 - 1) = W * (k - 1) + W /\ W * (1 - 1) = 0
  BY <1>1, SMT
<1>3. 2 ^ (W * (k - 1)) \in Nat /\ 2 ^ (W * (k - 1)) >= 1
  <2>1. 2 ^ (W * (k - 1)) \in Nat /\ 2 ^ (W * (k - 1)) > W * (k - 1)
    BY <1>2, PowerPositive
  <2> QED BY <1>2, <2>1
<1>4. 2 ^ (W * (k - 1) + W) = 2 ^ (W * (k - 1)) * 2 ^ W
  BY <1>1, <1>2, PowerAdds, Zenon
<1>5. 2 ^ 0 = 1
  OBVIOUS
<1>6. Weight(k) = 2 ^ (W * (k - 1)) /\ Weight(k + 1) = 2 ^ (W * (k - 1) + W) /\ Weight(1) = 2 ^ 0
  <2>1. Weight(k + 1) = 2 ^ (W * (k + 1 - 1)) /\ Weight(1) = 2 ^ (W * (1 - 1))
    BY DEF Weight
  <2>2. Weight(k) = 2 ^ (W * (k - 1))
    BY DEF Weight
  <2> QED BY <1>2, <2>1, <2>2, Zenon
<1>7. B = 2 ^ W
  BY BaseType
<1> QED BY <1>3, <1>4, <1>5, <1>6, <1>7

\* The weights of limbs i and j give that of limb i + j - 1, where they meet.
LEMMA WeightsMeet ==
  ASSUME NEW i \in Nat, i >= 1, NEW j \in Nat, j >= 1
  PROVE  Weight(i + j - 1) = Weight(i) * Weight(j)
<1>1. W \in Nat /\ i - 1 \in Nat /\ j - 1 \in Nat
  BY BaseType
<1>2. /\ W * (i - 1) \in Nat /\ W * (j - 1) \in Nat
      /\ W * ((i + j - 1) - 1) = W * (i - 1) + W * (j - 1)
  <2>1. W * (i - 1) \in Nat /\ W * (j - 1) \in Nat
    BY <1>1, SMT
  <2>2. (i + j - 1) - 1 = (i - 1) + (j - 1)
    OBVIOUS
  <2>3. W * ((i - 1) + (j - 1)) = W * (i - 1) + W * (j - 1)
    BY <1>1, SMT
  <2> QED BY <2>1, <2>2, <2>3
<1>3. 2 ^ (W * (i - 1) + W * (j - 1)) = 2 ^ (W * (i - 1)) * 2 ^ (W * (j - 1))
  BY <1>2, PowerAdds, Zenon
<1> QED BY <1>2, <1>3 DEF Weight

\* The next digit of a number
LEMMA NextDigit ==
  ASSUME NEW w \in Nat, NEW b \in Nat, b > 0
  PROVE  w % (b * B) = (w % b) + ((w \div b) % B) * b
<1>0. B \in Nat /\ B > 1 /\ B > 0
  BY BaseType
<1>1. PICK q \in Int, r \in 0 .. b - 1 : w \div b = q /\ w % b = r /\ w = b * q + r
  BY Remainder
<1>2. PICK h \in Int, c \in 0 .. B - 1 : q % B = c /\ q = B * h + c
  BY <1>0, Remainder
<1>3. w = (r + c * b) + (b * B) * h
  <2>1. b * q = (b * B) * h + c * b
    <3>1. b * (B * h + c) = (b * B) * h + c * b
      BY <1>0, SMT
    <3> QED BY <1>2, <3>1
  <2>2. (b * B) * h \in Int /\ c * b \in Int
    BY <1>0, SMT
  <2> QED BY <1>1, <2>1, <2>2
<1>4. r + c * b \in 0 .. b * B - 1 /\ b * B \in Nat /\ b * B > 0 /\ r + c * b \in Int
  <2>1. c * b <= (B - 1) * b /\ (B - 1) * b = b * B - b /\ c * b >= 0
    <3>1. B - 1 - c \in Nat
      BY <1>0
    <3>2. (B - 1 - c) * b >= 0 /\ (B - 1 - c) * b = (B - 1) * b - c * b /\ c * b >= 0
      BY <1>0, <3>1, SMT
    <3>3. (B - 1) * b = b * B - b
      BY <1>0, SMT
    <3>4. (B - 1) * b \in Int /\ c * b \in Int
      BY <1>0, SMT
    <3> QED BY <3>2, <3>3, <3>4
  <2>2. PICK x \in Int, y \in Int : x = c * b /\ y = b * B
    BY <1>0, SMT
  <2>3. x <= y - b /\ x >= 0
    BY <2>1, <2>2
  <2> QED BY <2>2, <2>3
<1>5. PICK m \in Nat, x \in Int : m = b * B /\ x = r + c * b
  BY <1>4
<1>6. m > 0 /\ x \in 0 .. m - 1 /\ w = x + m * h
  BY <1>3, <1>4, <1>5
<1>7. w % m = x % m
  BY <1>5, <1>6, Shift
<1>8. x % m = x
  BY <1>6, SmallResidue
<1> QED BY <1>1, <1>2, <1>5, <1>7, <1>8

\* Division, known by its quotient and remainder
LEMMA DivisionIs ==
  ASSUME NEW m \in Nat, m > 0, NEW a \in Int, NEW q \in Int, NEW r \in 0 .. m - 1, a = m * q + r
  PROVE  a \div m = q /\ a % m = r
<1>1. PICK h \in Int, c \in 0 .. m - 1 : a \div m = h /\ a % m = c /\ a = m * h + c
  BY Remainder
<1>2. m * (h - q) = r - c
  <2>1. m * (h - q) = m * h - m * q /\ m * h \in Int /\ m * q \in Int
    BY SMT
  <2> QED BY <1>1, <2>1
<1>3. -m < r - c /\ r - c < m
  OBVIOUS
<1>4. h - q = 0
  <2>1. h - q \in Int
    OBVIOUS
  <2> QED BY <1>2, <1>3, <2>1, NoMultipleWithin
<1>5. h = q
  BY <1>4
<1>6. r = c
  BY <1>1, <1>5, <1>2, SMT
<1> QED BY <1>1, <1>5, <1>6

\* Limb k of a number
Digit(x, k) == (x \div Weight(k)) % B

LEMMA DigitType ==
  ASSUME NEW x \in Nat, NEW k \in Nat, k >= 1
  PROVE  Digit(x, k) \in 0 .. B - 1 /\ x \div Weight(k) \in Nat
<1>1. PICK b \in Nat : b = Weight(k) /\ b >= 1
  BY Weights
<1>2. x \div b \in Nat
  BY <1>1, SMT
<1>3. (x \div b) % B \in 0 .. B - 1
  BY <1>2, BaseType, Remainder
<1> QED BY <1>1, <1>2, <1>3 DEF Digit

\* The digits of a number make it up.
LEMMA DigitsMakeUp ==
  ASSUME NEW x \in Nat, NEW n \in Nat, NEW f, \A k \in 1 .. n : f[k] = Digit(x, k) * Weight(k)
  PROVE  Terms(n, f) /\ Total(n, f) = x % Weight(n + 1)
<1>1. Terms(n, f)
  <2>1. ASSUME NEW k \in 1 .. n PROVE f[k] \in Int
    <3>1. Digit(x, k) \in Int /\ Weight(k) \in Int
      BY DigitType, Weights, BaseType
    <3>2. Digit(x, k) * Weight(k) \in Int
      BY <3>1
    <3> QED BY <3>2
  <2> QED BY <2>1 DEF Terms
<1> DEFINE T == {k \in 0 .. n : Total(k, f) = x % Weight(k + 1)}
<1>2. 0 \in T
  <2>1. Total(0, f) = 0
    BY <1>1, TotalSteps
  <2>2. Weight(1) = 1 /\ 0 + 1 = 1
    BY Weights
  <2>3. x % 1 = 0
    BY SMT
  <2>4. 0 \in 0 .. n
    OBVIOUS
  <2> QED BY <2>1, <2>2, <2>3, <2>4
<1>3. ASSUME NEW k \in 1 .. n, k - 1 \in T PROVE k \in T
  <2>1. k \in Nat /\ k >= 1 /\ (k - 1) + 1 = k /\ k \in 0 .. n
    OBVIOUS
  <2>2. PICK b \in Nat : b = Weight(k) /\ b > 0 /\ Weight(k + 1) = b * B
    BY <2>1, Weights
  <2>3. Total(k, f) = Total(k - 1, f) + f[k]
    BY <1>1, TotalSteps
  <2>4. Total(k - 1, f) = x % b
    BY <1>3, <2>1, <2>2
  <2>5. f[k] = ((x \div b) % B) * b
    BY <2>2 DEF Digit
  <2>6. x % (b * B) = (x % b) + ((x \div b) % B) * b
    BY <2>2, NextDigit
  <2>7. Total(k, f) = x % Weight(k + 1)
    BY <2>2, <2>3, <2>4, <2>5, <2>6
  <2> QED BY <2>1, <2>7
<1> HIDE DEF T
<1>4. 0 .. n \subseteq T
  BY <1>2, <1>3, UpTo, Zenon
<1>5. n \in T
  BY <1>4
<1> QED BY <1>1, <1>5 DEF T

LEMMA AbsType == ASSUME NEW x \in Int PROVE Abs(x) \in Nat /\ (Abs(x) = 0 <=> x = 0)
BY DEF Abs

\* The bits of a number
LEMMA BitsAre ==
  ASSUME NEW x \in Int
  PROVE  /\ Bits(x) \in Nat /\ Abs(x) < 2 ^ Bits(x)
         /\ x # 0 => Bits(x) >= 1 /\ 2 ^ (Bits(x) - 1) <= Abs(x)
<1>1. CASE x = 0
  <2>1. Bits(x) = 0 /\ Abs(x) = 0
    BY <1>1 DEF Bits, Abs
  <2>2. 2 ^ 0 = 1
    OBVIOUS
  <2>3. 0 \in Nat /\ 0 < 1
    OBVIOUS
  <2>4. Abs(x) < 2 ^ Bits(x)
    BY <2>1, <2>2, <2>3, Zenon
  <2> QED BY <1>1, <2>1, <2>3, <2>4, Zenon
<1>2. CASE x # 0
  <2> DEFINE a == Abs(x)
             Is(n) == 2 ^ (n - 1) <= a /\ a < 2 ^ n
             T == {n \in Nat : a < 2 ^ n}
  <2>1. a \in Nat /\ a >= 1
    BY <1>2, AbsType
  <2> HIDE DEF a
  <2>2. a \in T
    BY <2>1, PowerPositive
  <2>3. PICK n \in T : \A i \in T : n <= i
    <3>1. T \in SUBSET Nat
      OBVIOUS
    <3> HIDE DEF T
    <3> QED BY <2>2, <3>1, Least, Zenon
  <2>4. n # 0
    <3>1. 2 ^ 0 = 1 /\ ~(a < 1)
      BY <2>1
    <3> QED BY <2>3, <3>1
  <2>5. n - 1 \in Nat /\ ~(n <= n - 1) /\ n \in 1 .. a
    BY <2>2, <2>3, <2>4
  <2>6. n - 1 \notin T
    BY <2>3, <2>5
  <2>7. 2 ^ (n - 1) \in Nat
    BY <2>5, PowerDoubles
  <2>8. Is(n)
    BY <2>1, <2>3, <2>5, <2>6, <2>7
  <2>9. Bits(x) = CHOOSE i \in 1 .. a : Is(i)
    BY <1>2 DEF Bits, a
  <2> HIDE DEF Is
  <2>10. Bits(x) \in 1 .. a /\ Is(Bits(x))
    BY <2>5, <2>8, <2>9, Zenon
  <2> QED BY <2>1, <2>10 DEF Is, a
<1> QED BY <1>1, <1>2

\* There is one number of bits.
LEMMA BitsExact ==
  ASSUME NEW x \in Int, NEW n \in Nat, n >= 1, 2 ^ (n - 1) <= Abs(x), Abs(x) < 2 ^ n
  PROVE  Bits(x) = n
<1>1. PICK b \in Nat, a \in Nat : b = Bits(x) /\ a = Abs(x)
  BY BitsAre, AbsType
<1>2. n - 1 \in Nat /\ 2 ^ (n - 1) >= 1 /\ 2 ^ (n - 1) \in Nat /\ 2 ^ n \in Nat /\ 2 ^ b \in Nat
  BY PowerOrder
<1>3. a >= 1 /\ x # 0
  BY <1>1, <1>2, AbsType
<1>4. b >= 1 /\ 2 ^ (b - 1) <= a /\ a < 2 ^ b /\ b - 1 \in Nat /\ 2 ^ (b - 1) \in Nat
  BY <1>1, <1>3, BitsAre, PowerDoubles
<1>5. ~(b <= n - 1)
  <2>1. ASSUME b <= n - 1 PROVE 2 ^ b <= 2 ^ (n - 1)
    BY <1>2, <2>1, PowerOrder
  <2>2. 2 ^ (n - 1) <= a
    BY <1>1
  <2> QED BY <2>1, <2>2, <1>2, <1>4
<1>6. ~(n <= b - 1)
  <2>1. ASSUME n <= b - 1 PROVE 2 ^ n <= 2 ^ (b - 1)
    BY <1>4, <2>1, PowerOrder
  <2>2. a < 2 ^ n
    BY <1>1
  <2> QED BY <2>1, <2>2, <1>2, <1>4
<1> QED BY <1>1, <1>5, <1>6

\* The limbs that hold n bits
LEMMA LimbsFor ==
  ASSUME NEW n \in Nat
  PROVE  /\ CeilDiv(n, W) \in Nat
         /\ n \div W \in Nat /\ n % W \in 0 .. W - 1 /\ n = W * (n \div W) + (n % W)
         /\ CeilDiv(n, W) = (IF n % W = 0 THEN n \div W ELSE n \div W + 1)
         /\ n >= 1 => CeilDiv(n, W) >= 1
<1>1. W \in Nat /\ W > 0
  BY BaseType
<1>2. PICK q \in Nat, r \in 0 .. W - 1 : n \div W = q /\ n % W = r /\ n = W * q + r
  <2>1. n \div W \in Nat
    BY <1>1, SMT
  <2>2. n % W \in 0 .. W - 1 /\ n = W * (n \div W) + (n % W)
    BY <1>1, Remainder
  <2> QED BY <2>1, <2>2
<1>3. CASE r = 0
  <2>1. -n = W * (-q) + 0
    BY <1>1, <1>2, <1>3, SMT
  <2>2. (-n) \div W = -q
    BY <1>1, <2>1, DivisionIs, SMT
  <2>3. CeilDiv(n, W) = q
    BY <2>2 DEF CeilDiv
  <2>4. q = 0 => n = 0
    BY <1>1, <1>2, <1>3, SMT
  <2> QED BY <1>2, <1>3, <2>3, <2>4
<1>4. CASE r # 0
  <2>1. -n = W * (-q - 1) + (W - r) /\ W - r \in 0 .. W - 1
    BY <1>1, <1>2, <1>4, SMT
  <2>2. (-n) \div W = -q - 1
    <3>1. -q - 1 \in Int /\ -n \in Int
      OBVIOUS
    <3> QED BY <1>1, <2>1, <3>1, DivisionIs
  <2>3. CeilDiv(n, W) = q + 1
    BY <2>2 DEF CeilDiv
  <2> QED BY <1>2, <1>4, <2>3
<1> QED BY <1>3, <1>4

(***************************************************************************)
(* Variables                                                               *)
(***************************************************************************)
Residues == 0 .. P - 1

VariableSet ==
  [limbs : Seq(Residues), bounds : Seq(Safe), int : Int, aligned : BOOLEAN, const : BOOLEAN]

\* The limbs keep to their bounds, and make up the integer that is meant.
Exact(v) ==
  /\ v \in VariableSet /\ Len(v.bounds) = Len(v.limbs)
  /\ \A k \in 1 .. Len(v.limbs) : Between(Signed(v.limbs[k]), v.bounds[k])
  /\ Compose(v.limbs) = v.int

\* The integer that limb k of v stands for
Value(v, k) == Signed(LimbAt(v, k))

LEMMA VectorIs ==
  ASSUME NEW n \in Nat, NEW S, NEW f \in [1 .. n -> S]
  PROVE  f \in Seq(S) /\ Len(f) = n /\ DOMAIN f = 1 .. n
OBVIOUS

LEMMA VariableType ==
  ASSUME NEW v \in VariableSet
  PROVE  /\ Len(v.limbs) \in Nat /\ DOMAIN v.limbs = 1 .. Len(v.limbs)
         /\ Len(v.bounds) \in Nat /\ DOMAIN v.bounds = 1 .. Len(v.bounds)
         /\ \A k \in 1 .. Len(v.limbs) : v.limbs[k] \in Residues
         /\ \A k \in 1 .. Len(v.bounds) : v.bounds[k] \in Safe
         /\ v.int \in Int /\ v.aligned \in BOOLEAN /\ v.const \in BOOLEAN
         /\ IsConstant(v) \in BOOLEAN
BY DEF VariableSet, IsConstant

LEMMA MaxOfTwo ==
  ASSUME NEW a \in Int, NEW b \in Int
  PROVE  Max({a, b}) \in {a, b} /\ Max({a, b}) >= a /\ Max({a, b}) >= b
<1>1. \E m \in {a, b} : \A s \in {a, b} : m >= s
  <2>1. a >= b \/ b >= a
    OBVIOUS
  <2> QED BY <2>1
<1>2. Max({a, b}) \in {a, b} /\ \A s \in {a, b} : Max({a, b}) >= s
  BY <1>1 DEF Max
<1> QED BY <1>2

\* A residue stands for its integer.
LEMMA SignedType ==
  ASSUME NEW x \in Residues
  PROVE  Signed(x) \in Int /\ Field(Signed(x)) = x /\ Field(x) = x
<1>1. P \in Nat /\ P > 0 /\ Limit \in Nat
  BY BaseType, LimitRange
<1>2. x \in 0 .. P - 1 /\ x \in Int
  BY <1>1 DEF Residues
<1>3. x % P = x
  BY <1>1, <1>2, SmallResidue
<1>4. (x - P) % P = x
  <2>1. x - P = x + P * (-1)
    BY <1>1, <1>2
  <2>2. (x + P * (-1)) % P = x % P
    BY <1>1, <1>2, Shift
  <2> QED BY <1>3, <2>1, <2>2
<1>5. x - P \in Int
  BY <1>1, <1>2
<1> QED BY <1>2, <1>3, <1>4, <1>5 DEF Signed, Field

LEMMA ZeroSigned == 0 \in Residues /\ Signed(0) = 0
BY BaseType, LimitRange DEF Residues, Signed

LEMMA FieldType == ASSUME NEW x \in Int PROVE Field(x) \in Residues
BY BaseType, Remainder DEF Field, Residues

LEMMA SafeFacts ==
  ASSUME NEW b \in Safe
  PROVE  b \in Bounds /\ b.lo \in Int /\ b.hi \in Int /\ b = [lo |-> b.lo, hi |-> b.hi]
<1>1. b \in [lo : -Limit .. Limit, hi : -Limit .. Limit]
  BY DEF Safe
<1> QED BY <1>1, SafeBounds

LEMMA ZeroIsBounds == ZeroBounds \in Bounds /\ Between(0, ZeroBounds)
BY DEF ZeroBounds, Exactly, Bounds, Between

\* What limb k of a variable is, beyond its last one too
LEMMA LimbIs ==
  ASSUME NEW v, Exact(v), NEW k \in Int
  PROVE  /\ LimbAt(v, k) \in Residues /\ Value(v, k) \in Int /\ Field(Value(v, k)) = LimbAt(v, k)
         /\ BoundAt(v, k) \in Bounds /\ Between(Value(v, k), BoundAt(v, k))
         /\ k \in 1 .. Len(v.limbs) =>
              LimbAt(v, k) = v.limbs[k] /\ BoundAt(v, k) = v.bounds[k] /\ BoundAt(v, k) \in Safe
         /\ k \notin 1 .. Len(v.limbs) =>
              Value(v, k) = 0 /\ LimbAt(v, k) = 0 /\ BoundAt(v, k) = ZeroBounds
<1>1. v \in VariableSet /\ Len(v.bounds) = Len(v.limbs)
  BY DEF Exact
<1>2. DOMAIN v.limbs = 1 .. Len(v.limbs) /\ DOMAIN v.bounds = 1 .. Len(v.limbs)
  BY <1>1, VariableType
<1>3. CASE k \in 1 .. Len(v.limbs)
  <2>1. LimbAt(v, k) = v.limbs[k] /\ BoundAt(v, k) = v.bounds[k]
    BY <1>2, <1>3 DEF LimbAt, BoundAt
  <2>2. v.limbs[k] \in Residues /\ v.bounds[k] \in Safe
    BY <1>1, <1>3, VariableType
  <2>3. Between(Signed(v.limbs[k]), v.bounds[k])
    BY <1>3 DEF Exact
  <2> QED BY <1>3, <2>1, <2>2, <2>3, SignedType, SafeFacts DEF Value
<1>4. CASE k \notin 1 .. Len(v.limbs)
  <2>1. LimbAt(v, k) = 0 /\ BoundAt(v, k) = ZeroBounds
    BY <1>2, <1>4 DEF LimbAt, BoundAt
  <2> QED BY <1>4, <2>1, ZeroSigned, ZeroIsBounds, SignedType DEF Value
<1> QED BY <1>3, <1>4

\* The sum that compose computes
LEMMA ComposeIs ==
  ASSUME NEW n \in Nat, NEW limbs \in [1 .. n -> Residues], NEW f,
         \A k \in 1 .. n : f[k] = Signed(limbs[k]) * Weight(k)
  PROVE  Terms(n, f) /\ Compose(limbs) = Total(n, f)
<1> DEFINE s == [k \in DOMAIN limbs |-> Signed(limbs[k])]
           g == [k \in DOMAIN s |-> s[k] * Weight(k)]
<1>1. DOMAIN limbs = 1 .. n
  OBVIOUS
<1>2. s \in [1 .. n -> Int]
  <2>1. ASSUME NEW k \in 1 .. n PROVE Signed(limbs[k]) \in Int
    <3>1. limbs[k] \in Residues
      OBVIOUS
    <3> QED BY <3>1, SignedType
  <2> QED BY <1>1, <2>1
<1>3. Len(s) = n /\ DOMAIN s = 1 .. n
  <2> HIDE DEF s
  <2> QED BY <1>2, VectorIs
<1>4. Compose(limbs) = Total(n, g)
  BY <1>3 DEF Compose, Weighted
<1>5. ASSUME NEW k \in 1 .. n PROVE f[k] \in Int /\ g[k] = f[k]
  <2>1. s[k] = Signed(limbs[k]) /\ s[k] \in Int
    BY <1>1, <1>2
  <2>2. Weight(k) \in Int
    BY Weights
  <2>3. g[k] = s[k] * Weight(k)
    BY <1>3
  <2> HIDE DEF s, g
  <2> QED BY <2>1, <2>2, <2>3
<1>6. Terms(n, f)
  BY <1>5 DEF Terms
<1> HIDE DEF g, s
<1>7. Total(n, g) = Total(n, f)
  BY <1>5, <1>6, TotalSame
<1> QED BY <1>4, <1>6, <1>7

\* The limbs of a variable make up its integer, counted beyond the last one too.
LEMMA ValuesMakeUp ==
  ASSUME NEW v, Exact(v), NEW n \in Nat, n >= Len(v.limbs),
         NEW f, \A k \in 1 .. n : f[k] = Value(v, k) * Weight(k)
  PROVE  Terms(n, f) /\ Total(n, f) = v.int
<1>1. v \in VariableSet /\ Compose(v.limbs) = v.int
  BY DEF Exact
<1>2. PICK l \in Nat : l = Len(v.limbs) /\ l \in 0 .. n
  BY <1>1, VariableType
<1>3. v.limbs \in [1 .. l -> Residues]
  BY <1>1, <1>2 DEF VariableSet
<1>4. ASSUME NEW k \in 1 .. n
      PROVE  /\ f[k] \in Int
             /\ k \in 1 .. l => f[k] = Signed(v.limbs[k]) * Weight(k)
             /\ k \in l + 1 .. n => f[k] = 0
  <2>0. k \in Int /\ k \in Nat /\ k >= 1
    OBVIOUS
  <2>1. Value(v, k) \in Int /\ Weight(k) \in Int
    <3>1. Value(v, k) \in Int
      BY <2>0, LimbIs
    <3>2. Weight(k) \in Nat
      BY <2>0, Weights
    <3> QED BY <3>1, <3>2
  <2>2. f[k] = Value(v, k) * Weight(k)
    OBVIOUS
  <2>3. k \in 1 .. l => Value(v, k) = Signed(v.limbs[k])
    BY <1>2, LimbIs, SMTT(30) DEF Value
  <2>4. k \in l + 1 .. n => Value(v, k) = 0
    <3>1. k \in l + 1 .. n => k \notin 1 .. l
      OBVIOUS
    <3> QED BY <1>2, <3>1, LimbIs
  <2> QED BY <2>1, <2>2, <2>3, <2>4
<1>5. Terms(n, f)
  BY <1>4 DEF Terms
<1>6. \A k \in 1 .. l : f[k] = Signed(v.limbs[k]) * Weight(k)
  BY <1>2, <1>4
<1>7. Compose(v.limbs) = Total(l, f)
  BY <1>3, <1>6, ComposeIs
<1>8. Total(n, f) = Total(l, f)
  BY <1>2, <1>4, <1>5, TotalTail
<1> QED BY <1>1, <1>5, <1>7, <1>8

\* Limbs that are residues of integers within safe bounds are exact.
LEMMA Builds ==
  ASSUME NEW n \in Nat, NEW limbs \in [1 .. n -> Residues], NEW b \in [1 .. n -> Safe],
         NEW val, \A k \in 1 .. n : val[k] \in Int /\ Between(val[k], b[k]) /\ limbs[k] = Field(val[k]),
         NEW int \in Int, NEW f, \A k \in 1 .. n : f[k] = val[k] * Weight(k), Total(n, f) = int,
         NEW const \in BOOLEAN
  PROVE  Exact(Variable(limbs, b, int, const))
<1> DEFINE v == Variable(limbs, b, int, const)
<1>1. limbs \in Seq(Residues) /\ b \in Seq(Safe) /\ Len(limbs) = n /\ Len(b) = n
  BY VectorIs
<1>2. v.limbs = limbs /\ v.bounds = b /\ v.int = int /\ v \in VariableSet
  BY <1>1 DEF Variable, VariableSet
<1>3. ASSUME NEW k \in 1 .. n PROVE Signed(limbs[k]) = val[k]
  <2>1. b[k] \in Safe /\ val[k] \in Int /\ Between(val[k], b[k]) /\ limbs[k] = Field(val[k])
    OBVIOUS
  <2> QED BY <2>1, SignedOfField
<1>4. \A k \in 1 .. n : f[k] = Signed(limbs[k]) * Weight(k)
  BY <1>3
<1>5. Compose(limbs) = Total(n, f)
  BY <1>4, ComposeIs
<1> HIDE DEF v
<1>6. \A k \in 1 .. Len(v.limbs) : Between(Signed(v.limbs[k]), v.bounds[k])
  BY <1>1, <1>2, <1>3
<1>7. Exact(v)
  BY <1>1, <1>2, <1>5, <1>6 DEF Exact
<1> QED BY <1>7 DEF v

LEMMA LongerIs ==
  ASSUME NEW x, Exact(x), NEW y, Exact(y)
  PROVE  /\ Len(x.limbs) \in Nat /\ Len(y.limbs) \in Nat /\ Longer(x, y) \in Nat
         /\ Longer(x, y) >= Len(x.limbs) /\ Longer(x, y) >= Len(y.limbs)
         /\ Longer(x, y) \in {Len(x.limbs), Len(y.limbs)}
<1>1. Len(x.limbs) \in Nat /\ Len(y.limbs) \in Nat
  BY VariableType DEF Exact
<1>2. PICK a \in Nat, b \in Nat : a = Len(x.limbs) /\ b = Len(y.limbs)
  BY <1>1
<1>3. Longer(x, y) = Max({a, b})
  BY <1>2 DEF Longer
<1>4. Max({a, b}) \in {a, b} /\ Max({a, b}) >= a /\ Max({a, b}) >= b
  BY MaxOfTwo
<1> QED BY <1>2, <1>3, <1>4

\* Bounds of sums and differences are bounds.
LEMMA SumBoundsType ==
  ASSUME NEW a \in Bounds, NEW b \in Bounds
  PROVE  PlusBounds(a, b) \in Bounds /\ MinusBounds(a, b) \in Bounds /\ TimesBounds(a, b) \in Bounds
<1>1. PlusBounds(a, b) \in Bounds /\ MinusBounds(a, b) \in Bounds
  BY DEF Bounds, PlusBounds, MinusBounds
<1>2. PICK p \in Int, q \in Int, r \in Int, s \in Int :
        p = a.lo * b.lo /\ q = a.lo * b.hi /\ r = a.hi * b.lo /\ s = a.hi * b.hi
  <2>1. a.lo \in Int /\ a.hi \in Int /\ b.lo \in Int /\ b.hi \in Int
    BY DEF Bounds
  <2>2. a.lo * b.lo \in Int /\ a.lo * b.hi \in Int /\ a.hi * b.lo \in Int /\ a.hi * b.hi \in Int
    BY <2>1, SMT
  <2> QED BY <2>2
<1>3. Max({p, q, r, s}) \in Int /\ Min({p, q, r, s}) \in Int
  BY Extremes
<1>4. TimesBounds(a, b) = [lo |-> Min({p, q, r, s}), hi |-> Max({p, q, r, s})]
  BY <1>2 DEF TimesBounds
<1> QED BY <1>1, <1>3, <1>4 DEF Bounds

LEMMA FieldMinus ==
  ASSUME NEW a \in Int, NEW b \in Int, NEW c \in Int, NEW d \in Int,
         Field(a) = Field(c), Field(b) = Field(d)
  PROVE  Field(a - b) = Field(c - d)
<1>1. Field(b * (-1)) = Field(d * (-1))
  <2>1. PICK m \in Int : m = -1
    OBVIOUS
  <2>2. Field(b * m) = Field(d * m)
    <3>1. P \in Nat /\ P > 0
      BY BaseType
    <3>2. ((b % P) * m) % P = (b * m) % P /\ ((d % P) * m) % P = (d * m) % P
      BY <3>1, Residue
    <3>3. b % P = d % P
      BY DEF Field
    <3> QED BY <3>2, <3>3 DEF Field
  <2> QED BY <2>1, <2>2
<1>2. Field(a + b * (-1)) = Field(c + d * (-1))
  <2>1. b * (-1) \in Int /\ d * (-1) \in Int
    OBVIOUS
  <2> QED BY <1>1, <2>1, FieldSum
<1>3. a + b * (-1) = a - b /\ c + d * (-1) = c - d
  OBVIOUS
<1> QED BY <1>2, <1>3

\* Sums and differences within safe bounds are exact.
LEMMA SumExact ==
  ASSUME NEW x, Exact(x), NEW y, Exact(y)
  PROVE  /\ IsSafe(Sum(x, y)) => Exact(Sum(x, y))
         /\ IsSafe(Difference(x, y)) => Exact(Difference(x, y))
<1> DEFINE n == Longer(x, y)
<1>1. n \in Nat /\ n >= Len(x.limbs) /\ n >= Len(y.limbs)
  BY LongerIs
<1>2. x \in VariableSet /\ y \in VariableSet
  BY DEF Exact
<1>3. /\ x.int \in Int /\ y.int \in Int /\ IsConstant(x) \in BOOLEAN /\ IsConstant(y) \in BOOLEAN
  BY <1>2, VariableType
<1> HIDE DEF n
<1> DEFINE fx == [k \in 1 .. n |-> Value(x, k) * Weight(k)]
           fy == [k \in 1 .. n |-> Value(y, k) * Weight(k)]
           const == IsConstant(x) /\ IsConstant(y)
<1>4. Terms(n, fx) /\ Total(n, fx) = x.int
  <2>1. \A k \in 1 .. n : fx[k] = Value(x, k) * Weight(k)
    OBVIOUS
  <2> HIDE DEF fx
  <2> QED BY <1>1, <2>1, ValuesMakeUp
<1>5. Terms(n, fy) /\ Total(n, fy) = y.int
  <2>1. \A k \in 1 .. n : fy[k] = Value(y, k) * Weight(k)
    OBVIOUS
  <2> HIDE DEF fy
  <2> QED BY <1>1, <2>1, ValuesMakeUp
<1>6. const \in BOOLEAN
  BY <1>3
<1>7. ASSUME NEW k \in 1 .. n
      PROVE  /\ Value(x, k) \in Int /\ Value(y, k) \in Int /\ Weight(k) \in Int
             /\ Field(Value(x, k)) = LimbAt(x, k) /\ Field(Value(y, k)) = LimbAt(y, k)
             /\ LimbAt(x, k) \in Residues /\ LimbAt(y, k) \in Residues
             /\ BoundAt(x, k) \in Bounds /\ BoundAt(y, k) \in Bounds
             /\ Between(Value(x, k), BoundAt(x, k)) /\ Between(Value(y, k), BoundAt(y, k))
  <2>1. k \in Int /\ k \in Nat /\ k >= 1
    OBVIOUS
  <2>2. Weight(k) \in Nat
    BY <2>1, Weights
  <2> QED BY <2>1, <2>2, LimbIs
<1>8. Residues \subseteq Int
  BY DEF Residues
<1>9. ASSUME IsSafe(Sum(x, y)) PROVE Exact(Sum(x, y))
  <2> DEFINE limbs == [k \in 1 .. n |-> Field(LimbAt(x, k) + LimbAt(y, k))]
             b == [k \in 1 .. n |-> PlusBounds(BoundAt(x, k), BoundAt(y, k))]
             val == [k \in 1 .. n |-> Value(x, k) + Value(y, k)]
             f == [k \in 1 .. n |-> val[k] * Weight(k)]
  <2>1. Sum(x, y) = Variable(limbs, b, x.int + y.int, const)
    BY DEF Sum, n
  <2>2. ASSUME NEW k \in 1 .. n
        PROVE  /\ limbs[k] \in Residues /\ b[k] \in Safe /\ val[k] \in Int
               /\ Between(val[k], b[k]) /\ limbs[k] = Field(val[k])
               /\ f[k] = val[k] * Weight(k) /\ f[k] = fx[k] + fy[k]
    <3>0. LimbAt(x, k) \in Int /\ LimbAt(y, k) \in Int
      BY <1>7, <1>8
    <3>1. LimbAt(x, k) + LimbAt(y, k) \in Int
      BY <3>0
    <3>2. b[k] \in Safe
      <4>1. Sum(x, y).bounds = b
        BY <2>1 DEF Variable
      <4> QED BY <1>9, <4>1 DEF IsSafe
    <3>3. Between(val[k], b[k])
      BY <1>7, SumWithinBounds
    <3>4. Field(LimbAt(x, k)) = LimbAt(x, k) /\ Field(LimbAt(y, k)) = LimbAt(y, k)
      BY <1>7, SignedType
    <3>5. Field(LimbAt(x, k) + LimbAt(y, k)) = Field(Value(x, k) + Value(y, k))
      <4>1. Field(LimbAt(x, k)) = Field(Value(x, k)) /\ Field(LimbAt(y, k)) = Field(Value(y, k))
        BY <1>7, <3>4
      <4>2. Value(x, k) \in Int /\ Value(y, k) \in Int
        BY <1>7
      <4> QED BY <3>0, <4>1, <4>2, FieldSum
    <3>6. (Value(x, k) + Value(y, k)) * Weight(k) = Value(x, k) * Weight(k) + Value(y, k) * Weight(k)
      BY <1>7, SMT
    <3>7. limbs[k] \in Residues
      BY <3>1, FieldType
    <3> QED BY <1>7, <3>2, <3>3, <3>5, <3>6, <3>7
  <2>3. limbs \in [1 .. n -> Residues] /\ b \in [1 .. n -> Safe]
    <3>1. \A k \in 1 .. n : limbs[k] \in Residues /\ b[k] \in Safe
      BY <2>2
    <3> QED BY <3>1
  <2>4. Terms(n, f) /\ Total(n, f) = Total(n, fx) + Total(n, fy)
    <3>1. \A k \in 1 .. n : f[k] = fx[k] + fy[k]
      BY <2>2
    <3> HIDE DEF f, fx, fy
    <3> QED BY <1>1, <1>4, <1>5, <3>1, TotalPlus, SMTT(30)
  <2>5. Total(n, f) = x.int + y.int /\ x.int + y.int \in Int
    BY <1>3, <1>4, <1>5, <2>4
  <2> HIDE DEF limbs, b, val, f, const
  <2>6. Exact(Variable(limbs, b, x.int + y.int, const))
    BY <1>1, <1>6, <2>2, <2>3, <2>5, Builds, SMTT(60)
  <2> QED BY <2>1, <2>6
<1>10. ASSUME IsSafe(Difference(x, y)) PROVE Exact(Difference(x, y))
  <2> DEFINE limbs == [k \in 1 .. n |-> Field(LimbAt(x, k) - LimbAt(y, k))]
             b == [k \in 1 .. n |-> MinusBounds(BoundAt(x, k), BoundAt(y, k))]
             val == [k \in 1 .. n |-> Value(x, k) - Value(y, k)]
             f == [k \in 1 .. n |-> val[k] * Weight(k)]
  <2>1. Difference(x, y) = Variable(limbs, b, x.int - y.int, const)
    BY DEF Difference, n
  <2>2. ASSUME NEW k \in 1 .. n
        PROVE  /\ limbs[k] \in Residues /\ b[k] \in Safe /\ val[k] \in Int
               /\ Between(val[k], b[k]) /\ limbs[k] = Field(val[k])
               /\ f[k] = val[k] * Weight(k) /\ f[k] = fx[k] - fy[k]
    <3>0. LimbAt(x, k) \in Int /\ LimbAt(y, k) \in Int
      BY <1>7, <1>8
    <3>1. LimbAt(x, k) - LimbAt(y, k) \in Int
      BY <3>0
    <3>2. b[k] \in Safe
      <4>1. Difference(x, y).bounds = b
        BY <2>1 DEF Variable
      <4> QED BY <1>10, <4>1 DEF IsSafe
    <3>3. Between(val[k], b[k])
      BY <1>7, SumWithinBounds
    <3>4. Field(LimbAt(x, k)) = LimbAt(x, k) /\ Field(LimbAt(y, k)) = LimbAt(y, k)
      BY <1>7, SignedType
    <3>5. Field(LimbAt(x, k) - LimbAt(y, k)) = Field(Value(x, k) - Value(y, k))
      <4>1. Field(LimbAt(x, k)) = Field(Value(x, k)) /\ Field(LimbAt(y, k)) = Field(Value(y, k))
        BY <1>7, <3>4
      <4>2. Value(x, k) \in Int /\ Value(y, k) \in Int
        BY <1>7
      <4> QED BY <3>0, <4>1, <4>2, FieldMinus
    <3>6. (Value(x, k) - Value(y, k)) * Weight(k)
            = Value(x, k) * Weight(k) - Value(y, k) * Weight(k)
      BY <1>7, SMT
    <3>7. limbs[k] \in Residues
      BY <3>1, FieldType
    <3> QED BY <1>7, <3>2, <3>3, <3>5, <3>6, <3>7
  <2>3. limbs \in [1 .. n -> Residues] /\ b \in [1 .. n -> Safe]
    <3>1. \A k \in 1 .. n : limbs[k] \in Residues /\ b[k] \in Safe
      BY <2>2
    <3> QED BY <3>1
  <2>4. Terms(n, f) /\ Total(n, f) = Total(n, fx) - Total(n, fy)
    <3>1. \A k \in 1 .. n : f[k] = fx[k] - fy[k]
      BY <2>2
    <3> HIDE DEF f, fx, fy
    <3> QED BY <1>1, <1>4, <1>5, <3>1, TotalMinus
  <2>5. Total(n, f) = x.int - y.int /\ x.int - y.int \in Int
    BY <1>3, <1>4, <1>5, <2>4
  <2> HIDE DEF limbs, b, val, f, const
  <2>6. Exact(Variable(limbs, b, x.int - y.int, const))
    BY <1>1, <1>6, <2>2, <2>3, <2>5, Builds, SMTT(60)
  <2> QED BY <2>1, <2>6
<1> QED BY <1>9, <1>10

(***************************************************************************)
(* Products                                                                *)
(***************************************************************************)
\* Limbs i and j meet in limb i + j - 1: what weighs limbs goes by powers.
ByPowers(p, l) ==
  p \in [1 .. l -> Int] /\ \A i, j \in 1 .. l : i + j - 1 <= l => p[i + j - 1] = p[i] * p[j]

LEMMA Multiplied == ASSUME NEW a \in Int, NEW b \in Int PROVE a * b \in Int
BY SMT

\* The terms of f are those of x, weighed; the rows of d are the products that meet; y ends.
Weighed(f, n, x, p) == \A k \in 1 .. n : f[k] = x[k] * p[k]
Meetings(d, n, u, x, y) == \A k \in 1 .. n, i \in 1 .. u : d[k][i] = x[i] * y[k + 1 - i]
SumsOfRows(h, n, u, d, p) == \A k \in 1 .. n : h[k] = Total(u, d[k]) * p[k]
EndsAt(y, m) == \A j \in Int : j \notin 1 .. m => y[j] = 0
RowOf(f, n, y, r, p) == \A k \in 1 .. n : f[k] = y[k + 1 - r] * p[k]
MakesProduct(n, h, u, f, m, g) == Total(n, h) = Total(u, f) * Total(m, g)
RowCounted(new, n, old, a, r, p, m, g) == Total(n, new) = Total(n, old) + a * (p[r] * Total(m, g))
RowAdded(new, n, old, a, y, r, p) ==
  \A k \in 1 .. n : new[k] = old[k] + a * (y[k + 1 - r] * p[k])

\* A row of products with limb r of the other factor
LEMMA ShiftedRow ==
  ASSUME NEW l \in Nat, NEW p, ByPowers(p, l), NEW r \in 1 .. l, NEW m \in 0 .. l,
         NEW n \in 0 .. l, n >= r + m - 1,
         NEW Y \in [Int -> Int], EndsAt(Y, m),
         NEW f, RowOf(f, n, Y, r, p), NEW g, Weighed(g, m, Y, p)
  PROVE  Terms(n, f) /\ Terms(m, g) /\ Total(n, f) = p[r] * Total(m, g)
<1>0. /\ \A j \in Int : j \notin 1 .. m => Y[j] = 0
      /\ \A k \in 1 .. n : f[k] = Y[k + 1 - r] * p[k]
      /\ \A j \in 1 .. m : g[j] = Y[j] * p[j]
  BY DEF EndsAt, RowOf, Weighed
<1>1. p \in [1 .. l -> Int]
  BY DEF ByPowers
<1>2. Terms(n, f)
  <2>1. ASSUME NEW k \in 1 .. n PROVE f[k] \in Int
    <3>1. k + 1 - r \in Int /\ k \in 1 .. l
      OBVIOUS
    <3>2. Y[k + 1 - r] \in Int /\ p[k] \in Int
      BY <1>1, <3>1
    <3>3. Y[k + 1 - r] * p[k] \in Int
      BY <3>2, SMT
    <3> QED BY <1>0, <3>3
  <2> QED BY <2>1 DEF Terms
<1>3. Terms(m, g)
  <2>1. ASSUME NEW j \in 1 .. m PROVE g[j] \in Int
    <3>1. j \in Int /\ j \in 1 .. l
      OBVIOUS
    <3>2. Y[j] \in Int /\ p[j] \in Int
      BY <1>1, <3>1
    <3>3. Y[j] * p[j] \in Int
      BY <3>2, SMT
    <3> QED BY <1>0, <3>3
  <2> QED BY <2>1 DEF Terms
<1>4. p[r] \in Int
  BY <1>1
<1>5. r - 1 \in Nat /\ m \in Nat /\ n \in Nat
  OBVIOUS
<1> DEFINE T == {t \in 0 .. m : Total(r - 1 + t, f) = p[r] * Total(t, g)}
<1>6. 0 \in T
  <2>1. CASE r - 1 <= n
    <3>1. Terms(r - 1, f)
      BY <1>2, <2>1 DEF Terms
    <3>2. \A k \in 0 + 1 .. r - 1 : f[k] = 0
      <4> TAKE k \in 0 + 1 .. r - 1
      <4>1. k \in 1 .. n /\ k + 1 - r \in Int /\ k + 1 - r \notin 1 .. m /\ k \in 1 .. l
        BY <2>1
      <4>2. f[k] = 0 * p[k] /\ p[k] \in Int
        BY <1>0, <1>1, <4>1
      <4> QED BY <4>2
    <3>3. Total(r - 1, f) = Total(0, f)
      <4>1. 0 \in 0 .. r - 1
        OBVIOUS
      <4> QED BY <1>5, <3>1, <3>2, <4>1, TotalTail
    <3>4. Total(0, f) = 0 /\ Total(0, g) = 0
      BY <1>2, <1>3, <1>5, TotalSteps
    <3>5. p[r] * 0 = 0 /\ r - 1 + 0 = r - 1 /\ 0 \in 0 .. m
      BY <1>4
    <3> QED BY <3>3, <3>4, <3>5
  <2>2. CASE ~(r - 1 <= n)
    BY <2>2
  <2> QED BY <2>1, <2>2
<1>7. ASSUME NEW t \in 1 .. m, t - 1 \in T PROVE t \in T
  <2>1. /\ r - 1 + t \in 1 .. n /\ (r - 1 + t) - 1 = r - 1 + (t - 1) /\ (r - 1 + t) + 1 - r = t
        /\ t \in Int /\ r + t - 1 = r - 1 + t /\ r + t - 1 <= l /\ t \in 1 .. l /\ t \in 0 .. m
        /\ t - 1 \in 0 .. m
    OBVIOUS
  <2>2. Total(r - 1 + t, f) = Total(r - 1 + (t - 1), f) + f[r - 1 + t]
    BY <1>2, <1>5, <2>1, TotalSteps
  <2>3. Total(t, g) = Total(t - 1, g) + g[t] /\ Total(t - 1, g) \in Int
    BY <1>3, <1>5, <2>1, TotalSteps
  <2>4. f[r - 1 + t] = Y[t] * p[r - 1 + t]
    BY <1>0, <2>1
  <2>5. p[r - 1 + t] = p[r] * p[t]
    BY <2>1 DEF ByPowers
  <2>6. PICK a \in Int, b \in Int, y \in Int, s \in Int : a = p[r] /\ b = p[t] /\ y = Y[t] /\ s = Total(t - 1, g)
    <3>1. p[t] \in Int /\ Y[t] \in Int
      BY <1>1, <2>1
    <3> QED BY <1>4, <2>3, <3>1
  <2>7. Total(r - 1 + t, f) = a * s + y * (a * b)
    BY <1>7, <2>2, <2>4, <2>5, <2>6
  <2>8. Total(t, g) = s + y * b
    BY <1>0, <2>1, <2>3, <2>6
  <2>9. a * s + y * (a * b) = a * (s + y * b)
    BY SMT
  <2> QED BY <2>1, <2>6, <2>7, <2>8, <2>9
<1> HIDE DEF T
<1>8. 0 .. m \subseteq T
  BY <1>5, <1>6, <1>7, UpTo, Zenon
<1>9. Total(r - 1 + m, f) = p[r] * Total(m, g)
  <2>1. m \in 0 .. m
    OBVIOUS
  <2> QED BY <1>8, <2>1 DEF T
<1>10. Total(n, f) = Total(r - 1 + m, f)
  <2>1. r - 1 + m \in 0 .. n
    OBVIOUS
  <2>2. \A k \in (r - 1 + m) + 1 .. n : f[k] = 0
    <3> TAKE k \in (r - 1 + m) + 1 .. n
    <3>1. k \in 1 .. n /\ k + 1 - r \in Int /\ k + 1 - r \notin 1 .. m /\ k \in 1 .. l
      OBVIOUS
    <3>2. f[k] = 0 * p[k] /\ p[k] \in Int
      BY <1>0, <1>1, <3>1
    <3> QED BY <3>2
  <2> QED BY <1>2, <1>5, <2>1, <2>2, TotalTail
<1> QED BY <1>2, <1>3, <1>9, <1>10

\* One more limb of the first factor
LEMMA OneMoreRow ==
  ASSUME NEW l \in Nat, NEW p, ByPowers(p, l), NEW r \in 1 .. l, NEW m \in 0 .. l,
         NEW n \in 0 .. l, n >= r + m - 1, NEW y \in [Int -> Int], EndsAt(y, m),
         NEW g, Weighed(g, m, y, p), NEW a \in Int, NEW old, Terms(n, old),
         NEW new, RowAdded(new, n, old, a, y, r, p)
  PROVE  RowCounted(new, n, old, a, r, p, m, g)
<1> DEFINE row == [k \in 1 .. n |-> y[k + 1 - r] * p[k]]
           more == [k \in 1 .. n |-> a * row[k]]
<1>1. RowOf(row, n, y, r, p) /\ \A k \in 1 .. n : more[k] = a * row[k]
  BY DEF RowOf
<1>2. \A k \in 1 .. n : new[k] = old[k] + more[k]
  BY DEF RowAdded
<1> HIDE DEF row, more
<1>3. n \in Nat
  OBVIOUS
<1>4. Terms(n, row) /\ Total(n, row) = p[r] * Total(m, g)
  BY <1>1, ShiftedRow
<1>5. Terms(n, more) /\ Total(n, more) = a * Total(n, row)
  BY <1>1, <1>3, <1>4, TotalTimes
<1>6. Total(n, new) = Total(n, old) + Total(n, more)
  BY <1>2, <1>3, <1>5, TotalPlus
<1> QED BY <1>4, <1>5, <1>6 DEF RowCounted

\* The sums of products that meet make up the product of the sums.
LEMMA Convolution ==
  ASSUME NEW l \in Nat, NEW p, ByPowers(p, l), NEW u \in 0 .. l, NEW m \in 0 .. l,
         NEW n \in 0 .. l, n >= u + m - 1,
         NEW x \in [1 .. u -> Int], NEW y \in [Int -> Int], EndsAt(y, m),
         NEW d, Meetings(d, n, u, x, y), NEW h, SumsOfRows(h, n, u, d, p),
         NEW f, Weighed(f, u, x, p), NEW g, Weighed(g, m, y, p)
  PROVE  /\ Terms(n, h) /\ Terms(u, f) /\ Terms(m, g)
         /\ MakesProduct(n, h, u, f, m, g)
<1>1. p \in [1 .. l -> Int] /\ u \in Nat /\ m \in Nat /\ n \in Nat
  BY DEF ByPowers
<1>0. /\ 1 .. u \subseteq 1 .. l /\ 1 .. m \subseteq 1 .. l /\ 1 .. n \subseteq 1 .. l
  <2>1. 1 .. u \subseteq 1 .. l
    OBVIOUS
  <2>2. 1 .. m \subseteq 1 .. l
    OBVIOUS
  <2>3. 1 .. n \subseteq 1 .. l
    OBVIOUS
  <2> QED BY <2>1, <2>2, <2>3
<1>2. ASSUME NEW k \in 1 .. n PROVE Terms(u, d[k])
  <2>1. ASSUME NEW i \in 1 .. u PROVE d[k][i] \in Int
    <3>1. k + 1 - i \in Int
      OBVIOUS
    <3>2. x[i] \in Int /\ y[k + 1 - i] \in Int
      BY <3>1
    <3>3. x[i] * y[k + 1 - i] \in Int
      BY <3>2, Multiplied
    <3> QED BY <3>3 DEF Meetings
  <2> QED BY <2>1 DEF Terms
<1>3. Terms(u, f)
  <2>1. ASSUME NEW i \in 1 .. u PROVE f[i] \in Int
    <3>1. x[i] \in Int /\ p[i] \in Int
      BY <1>1, <1>0
    <3>2. x[i] * p[i] \in Int
      BY <3>1, Multiplied
    <3> QED BY <3>2 DEF Weighed
  <2> QED BY <2>1 DEF Terms
<1>4. Terms(m, g)
  <2>1. ASSUME NEW j \in 1 .. m PROVE g[j] \in Int
    <3>0. j \in Int /\ j \in 1 .. l
      BY <1>0
    <3>1. y[j] \in Int /\ p[j] \in Int
      BY <1>1, <3>0
    <3>2. y[j] * p[j] \in Int
      BY <3>1, Multiplied
    <3> QED BY <3>2 DEF Weighed
  <2> QED BY <2>1 DEF Terms
<1>5. Total(m, g) \in Int
  BY <1>1, <1>4, TotalInt
<1> DEFINE C == [r \in 0 .. u |-> [k \in 1 .. n |-> Total(r, d[k]) * p[k]]]
<1>6. ASSUME NEW r \in 0 .. u, NEW k \in 1 .. n
      PROVE  C[r][k] = Total(r, d[k]) * p[k] /\ C[r][k] \in Int
  <2>1. Total(r, d[k]) \in Int
    BY <1>1, <1>2, TotalSteps
  <2>2. p[k] \in Int
    BY <1>0, <1>1
  <2>3. Total(r, d[k]) * p[k] \in Int
    BY <2>1, <2>2, Multiplied
  <2> QED BY <2>3
<1> HIDE DEF C
<1>7. \A r \in 0 .. u : Terms(n, C[r])
  BY <1>6 DEF Terms
<1>8. \A k \in 1 .. n : C[0][k] = 0
  <2> TAKE k \in 1 .. n
  <2>1. 0 \in 0 .. u
    BY <1>1
  <2>2. Total(0, d[k]) = 0
    BY <1>1, <1>2, TotalSteps
  <2>3. PICK w \in Int : w = p[k]
    BY <1>0, <1>1
  <2>4. C[0][k] = 0 * w
    BY <1>6, <2>1, <2>2, <2>3
  <2> QED BY <2>4
<1>9. ASSUME NEW r \in 1 .. u, NEW k \in 1 .. n
      PROVE  C[r][k] = C[r - 1][k] + x[r] * (y[k + 1 - r] * p[k])
  <2>1. r \in 0 .. u /\ r - 1 \in 0 .. u /\ k + 1 - r \in Int
    OBVIOUS
  <2>2. PICK s \in Int, a \in Int, b \in Int, w \in Int :
          s = Total(r - 1, d[k]) /\ a = x[r] /\ b = y[k + 1 - r] /\ w = p[k]
    <3>1. Total(r - 1, d[k]) \in Int
      BY <1>1, <1>2, <2>1, TotalSteps
    <3>2. x[r] \in Int /\ y[k + 1 - r] \in Int
      BY <2>1
    <3>3. p[k] \in Int
      BY <1>0, <1>1
    <3> QED BY <3>1, <3>2, <3>3
  <2>3. Total(r, d[k]) = s + a * b
    <3>1. Terms(u, d[k])
      BY <1>2
    <3>2. Total(r, d[k]) = Total(r - 1, d[k]) + d[k][r]
      BY <1>1, <3>1, TotalSteps
    <3>3. d[k][r] = x[r] * y[k + 1 - r]
      BY DEF Meetings
    <3> QED BY <2>2, <3>2, <3>3
  <2>4. C[r][k] = (s + a * b) * w /\ C[r - 1][k] = s * w
    BY <1>6, <2>1, <2>2, <2>3
  <2>5. (s + a * b) * w = s * w + a * (b * w)
    BY SMT
  <2> QED BY <2>2, <2>4, <2>5
<1> DEFINE T == {r \in 0 .. u : Total(n, C[r]) = Total(r, f) * Total(m, g)}
<1>10. 0 \in T
  <2>1. 0 \in 0 .. u /\ 0 \in 0 .. n
    BY <1>1
  <2>2. Total(n, C[0]) = Total(0, C[0])
    <3>1. \A k \in 0 + 1 .. n : C[0][k] = 0
      <4> TAKE k \in 0 + 1 .. n
      <4>1. k \in 1 .. n
        OBVIOUS
      <4> QED BY <1>8, <4>1
    <3>2. Terms(n, C[0])
      BY <1>7, <2>1
    <3> QED BY <1>1, <2>1, <3>1, <3>2, TotalTail
  <2>3. Total(0, C[0]) = 0
    BY <1>1, <1>7, <2>1, TotalSteps
  <2>4. Total(0, f) = 0
    BY <1>1, <1>3, TotalSteps
  <2>5. PICK a \in Int : a = Total(m, g)
    BY <1>5
  <2>6. Total(n, C[0]) = 0 * a
    BY <2>2, <2>3
  <2> QED BY <2>1, <2>4, <2>5, <2>6
<1> HIDE DEF T
<1>11. ASSUME NEW r \in 1 .. u, r - 1 \in T PROVE r \in T
  <2>1. r \in 0 .. u /\ r - 1 \in 0 .. u /\ r \in 1 .. l /\ n >= r + m - 1
    OBVIOUS
  <2>4. x[r] \in Int /\ p[r] \in Int
    BY <1>1, <2>1
  <2>6. RowAdded(C[r], n, C[r - 1], x[r], y, r, p)
    BY <1>9 DEF RowAdded
  <2>7. Total(n, C[r]) = Total(n, C[r - 1]) + x[r] * (p[r] * Total(m, g))
    <3>1. Terms(n, C[r - 1])
      BY <1>7, <2>1
    <3>2. r \in 1 .. l /\ n >= r + m - 1
      BY <2>1
    <3>3. RowCounted(C[r], n, C[r - 1], x[r], r, p, m, g)
      BY <2>4, <2>6, <3>1, <3>2, OneMoreRow
    <3> QED BY <3>3 DEF RowCounted
  <2>8. Total(r, f) = Total(r - 1, f) + f[r] /\ Total(r - 1, f) \in Int
    BY <1>1, <1>3, <2>1, TotalSteps
  <2>9. PICK s \in Int, a \in Int, w \in Int, b \in Int :
          s = Total(r - 1, f) /\ a = x[r] /\ w = p[r] /\ b = Total(m, g)
    BY <1>5, <2>4, <2>8
  <2>10. Total(n, C[r]) = s * b + a * (w * b)
    BY <1>11, <2>7, <2>9 DEF T
  <2>11. Total(r, f) = s + a * w
    BY <2>8, <2>9 DEF Weighed
  <2>12. s * b + a * (w * b) = (s + a * w) * b
    BY SMT
  <2> QED BY <2>1, <2>9, <2>10, <2>11, <2>12 DEF T
<1>12. 0 .. u \subseteq T
  BY <1>1, <1>10, <1>11, UpTo, Zenon
<1>13. Total(n, C[u]) = Total(u, f) * Total(m, g)
  <2>1. u \in 0 .. u
    OBVIOUS
  <2> QED BY <1>12, <2>1 DEF T
<1>14. \A k \in 1 .. n : h[k] = C[u][k]
  <2>1. u \in 0 .. u
    OBVIOUS
  <2> QED BY <1>6, <2>1 DEF SumsOfRows
<1>15. Terms(n, h) /\ Total(n, h) = Total(n, C[u])
  <2>1. u \in 0 .. u
    OBVIOUS
  <2>2. Terms(n, C[u])
    BY <1>7, <2>1
  <2>3. Terms(n, h)
    BY <1>14, <2>2 DEF Terms
  <2> QED BY <1>1, <1>14, <2>2, <2>3, TotalSame
<1> QED BY <1>3, <1>4, <1>13, <1>15 DEF MakesProduct

\* The products of limbs that meet in limb k
Met(x, y, k) == [i \in 1 .. Len(x.limbs) |-> Value(x, i) * Value(y, k + 1 - i)]
MetTotal(x, y, k) == Total(Len(x.limbs), Met(x, y, k))

\* A limb of a product is the residue of what meets there, which keeps to the bounds.
LEMMA ProductLimbIs ==
  ASSUME NEW x, Exact(x), NEW y, Exact(y), NEW k \in Int
  PROVE  /\ Terms(Len(x.limbs), Met(x, y, k)) /\ MetTotal(x, y, k) \in Int
         /\ ProductLimb(x, y, k) \in Int
         /\ Field(ProductLimb(x, y, k)) = Field(MetTotal(x, y, k))
         /\ ProductBounds(x, y, k) \in Bounds
         /\ Between(MetTotal(x, y, k), ProductBounds(x, y, k))
<1>1. x \in VariableSet /\ Len(x.bounds) = Len(x.limbs)
  BY DEF Exact
<1>2. PICK u \in Nat : u = Len(x.limbs) /\ DOMAIN x.limbs = 1 .. u /\ DOMAIN x.bounds = 1 .. u
  BY <1>1, VariableType
<1> DEFINE limb == [i \in 1 .. u |-> x.limbs[i] * LimbAt(y, k + 1 - i)]
           met == [i \in 1 .. u |-> TimesBounds(x.bounds[i], BoundAt(y, k + 1 - i))]
           lows == [i \in 1 .. u |-> met[i].lo]
           highs == [i \in 1 .. u |-> met[i].hi]
           val == Met(x, y, k)
<1>3. ASSUME NEW i \in 1 .. u
      PROVE  /\ val[i] \in Int /\ limb[i] \in Int /\ Field(limb[i]) = Field(val[i])
             /\ lows[i] \in Int /\ highs[i] \in Int /\ lows[i] <= val[i] /\ val[i] <= highs[i]
  <2>1. i \in Int /\ k + 1 - i \in Int
    OBVIOUS
  <2>2. PICK j \in Int : j = k + 1 - i
    BY <2>1
  <2>3. /\ LimbAt(x, i) \in Residues /\ Value(x, i) \in Int /\ Field(Value(x, i)) = LimbAt(x, i)
        /\ BoundAt(x, i) \in Bounds /\ Between(Value(x, i), BoundAt(x, i))
        /\ LimbAt(x, i) = x.limbs[i] /\ BoundAt(x, i) = x.bounds[i]
    BY <1>2, <2>1, LimbIs
  <2>4. /\ LimbAt(y, j) \in Residues /\ Value(y, j) \in Int /\ Field(Value(y, j)) = LimbAt(y, j)
        /\ BoundAt(y, j) \in Bounds /\ Between(Value(y, j), BoundAt(y, j))
    BY LimbIs
  <2>5. PICK a \in Int, b \in Int, c \in Int, d \in Int :
          a = x.limbs[i] /\ b = LimbAt(y, j) /\ c = Value(x, i) /\ d = Value(y, j)
    BY <2>3, <2>4 DEF Residues
  <2>6. Field(a) = Field(c) /\ Field(b) = Field(d)
    BY <2>3, <2>4, <2>5, SignedType
  <2>7. Field(a * b) = Field(c * d)
    BY <2>6, FieldSum
  <2>8. a * b \in Int /\ c * d \in Int
    BY Multiplied
  <2>9. val[i] = c * d /\ limb[i] = a * b
    BY <1>2, <2>2, <2>5 DEF Met
  <2>10. PICK bx \in Bounds, by \in Bounds : bx = BoundAt(x, i) /\ by = BoundAt(y, j)
    BY <2>3, <2>4
  <2>11. Between(c * d, TimesBounds(bx, by)) /\ TimesBounds(bx, by) \in Bounds
    BY <2>3, <2>4, <2>5, <2>10, ProductWithinBounds, SumBoundsType
  <2>12. lows[i] = TimesBounds(bx, by).lo /\ highs[i] = TimesBounds(bx, by).hi
    BY <2>2, <2>3, <2>10
  <2> QED BY <2>7, <2>8, <2>9, <2>11, <2>12 DEF Between, Bounds
<1>4. Terms(u, val) /\ Terms(u, limb) /\ Terms(u, lows) /\ Terms(u, highs)
  BY <1>3 DEF Terms
<1>5. ProductLimb(x, y, k) = Total(u, limb)
  BY <1>2 DEF ProductLimb
<1>6. ProductBounds(x, y, k) = [lo |-> Total(u, lows), hi |-> Total(u, highs)]
  <2>1. DOMAIN met = 1 .. u /\ Len(met) = u
    BY VectorIs
  <2>2. met = [i \in DOMAIN x.bounds |-> TimesBounds(x.bounds[i], BoundAt(y, k + 1 - i))]
    BY <1>2
  <2> HIDE DEF met
  <2> QED BY <2>1, <2>2 DEF ProductBounds
<1> HIDE DEF limb, lows, highs, val
<1>7. Total(u, val) \in Int /\ Total(u, limb) \in Int /\ Total(u, lows) \in Int /\ Total(u, highs) \in Int
  BY <1>4, TotalInt
<1>8. Field(Total(u, limb)) = Field(Total(u, val))
  BY <1>3, <1>4, TotalResidue
<1>9. Total(u, lows) <= Total(u, val) /\ Total(u, val) <= Total(u, highs)
  BY <1>3, <1>4, TotalOrder
<1>10. MetTotal(x, y, k) = Total(u, val)
  BY <1>2 DEF MetTotal, val
<1> QED BY <1>2, <1>4, <1>5, <1>6, <1>7, <1>8, <1>9, <1>10 DEF Between, Bounds, val

LEMMA WeightPowers ==
  ASSUME NEW l \in Nat
  PROVE  ByPowers([k \in 1 .. l |-> Weight(k)], l)
<1> DEFINE p == [k \in 1 .. l |-> Weight(k)]
<1>1. p \in [1 .. l -> Int]
  <2>1. ASSUME NEW k \in 1 .. l PROVE Weight(k) \in Int
    <3>1. Weight(k) \in Nat
      BY Weights
    <3> QED BY <3>1
  <2> QED BY <2>1
<1>2. ASSUME NEW i \in 1 .. l, NEW j \in 1 .. l, i + j - 1 <= l
      PROVE  p[i + j - 1] = p[i] * p[j]
  <2>1. i + j - 1 \in 1 .. l
    BY <1>2
  <2>2. Weight(i + j - 1) = Weight(i) * Weight(j)
    BY WeightsMeet
  <2> QED BY <2>1, <2>2
<1> QED BY <1>1, <1>2 DEF ByPowers

\* What meets makes up the product of the integers.
LEMMA ProductMakesUp ==
  ASSUME NEW x, Exact(x), NEW y, Exact(y), NEW n \in Nat, n >= ProductLength(x, y),
         NEW h, \A k \in 1 .. n : h[k] = MetTotal(x, y, k) * Weight(k)
  PROVE  Terms(n, h) /\ Total(n, h) = x.int * y.int
<1>1. PICK u \in Nat, m \in Nat : u = Len(x.limbs) /\ m = Len(y.limbs)
  BY VariableType DEF Exact
<1>2. PICK l \in Nat : l = u + m + n
  OBVIOUS
<1>3. u \in 0 .. l /\ m \in 0 .. l /\ n \in 0 .. l /\ n >= u + m - 1
  <2>1. u \in 0 .. l /\ m \in 0 .. l /\ n \in 0 .. l
    BY <1>2
  <2>2. ProductLength(x, y) = u + m - 1
    BY <1>1 DEF ProductLength
  <2> QED BY <2>1, <2>2
<1> DEFINE p == [k \in 1 .. l |-> Weight(k)]
           X == [i \in 1 .. u |-> Value(x, i)]
           Y == [j \in Int |-> Value(y, j)]
           d == [k \in 1 .. n |-> Met(x, y, k)]
           f == [i \in 1 .. u |-> Value(x, i) * Weight(i)]
           g == [j \in 1 .. m |-> Value(y, j) * Weight(j)]
<1>4. ByPowers(p, l)
  BY WeightPowers
<1>5. X \in [1 .. u -> Int] /\ Y \in [Int -> Int]
  <2>1. \A i \in Int : Value(x, i) \in Int /\ Value(y, i) \in Int
    BY LimbIs
  <2>2. \A i \in 1 .. u : Value(x, i) \in Int
    BY <2>1
  <2> QED BY <2>1, <2>2
<1>6. EndsAt(Y, m)
  <2>1. \A j \in Int : j \notin 1 .. m => Value(y, j) = 0
    BY <1>1, LimbIs
  <2> QED BY <2>1 DEF EndsAt
<1>7. Meetings(d, n, u, X, Y)
  <2>1. ASSUME NEW k \in 1 .. n, NEW i \in 1 .. u PROVE d[k][i] = X[i] * Y[k + 1 - i]
    <3>1. k + 1 - i \in Int
      OBVIOUS
    <3> QED BY <1>1, <3>1 DEF Met
  <2> QED BY <2>1 DEF Meetings
<1>8. SumsOfRows(h, n, u, d, p)
  <2>1. ASSUME NEW k \in 1 .. n PROVE h[k] = Total(u, d[k]) * p[k]
    <3>1. k \in 1 .. l
      BY <1>2
    <3> QED BY <1>1, <3>1 DEF MetTotal
  <2> QED BY <2>1 DEF SumsOfRows
<1>9. Weighed(f, u, X, p) /\ Weighed(g, m, Y, p)
  <2>1. ASSUME NEW i \in 1 .. u PROVE f[i] = X[i] * p[i]
    <3>1. i \in 1 .. l
      BY <1>2
    <3> QED BY <3>1
  <2>2. ASSUME NEW j \in 1 .. m PROVE g[j] = Y[j] * p[j]
    <3>1. j \in 1 .. l /\ j \in Int
      BY <1>2
    <3> QED BY <3>1
  <2> QED BY <2>1, <2>2 DEF Weighed
<1>10. (\A k \in 1 .. u : f[k] = Value(x, k) * Weight(k)) /\ \A k \in 1 .. m : g[k] = Value(y, k) * Weight(k)
  OBVIOUS
<1> HIDE DEF p, X, Y, d, f, g
<1>11. Terms(n, h) /\ MakesProduct(n, h, u, f, m, g)
  BY <1>3, <1>4, <1>5, <1>6, <1>7, <1>8, <1>9, Convolution
<1>12. Total(u, f) = x.int /\ Total(m, g) = y.int
  BY <1>1, <1>10, ValuesMakeUp
<1> QED BY <1>11, <1>12 DEF MakesProduct

\* Products within safe bounds are exact.
LEMMA ProductExact ==
  ASSUME NEW x, Exact(x), NEW y, Exact(y), ProductLength(x, y) >= 0, IsSafe(Product(x, y))
  PROVE  /\ Exact(Product(x, y))
         /\ Product(x, y).limbs \in [1 .. ProductLength(x, y) -> Residues]
<1>1. PICK n \in Nat : n = ProductLength(x, y)
  <2>1. Len(x.limbs) \in Nat /\ Len(y.limbs) \in Nat
    BY VariableType DEF Exact
  <2>2. PICK a \in Nat, c \in Nat : a = Len(x.limbs) /\ c = Len(y.limbs)
    BY <2>1
  <2>3. ProductLength(x, y) = a + c - 1
    BY <2>2 DEF ProductLength
  <2>4. ProductLength(x, y) \in Nat
    BY <2>3
  <2> QED BY <2>4
<1>2. /\ x.int \in Int /\ y.int \in Int /\ IsConstant(x) \in BOOLEAN /\ IsConstant(y) \in BOOLEAN
  BY VariableType DEF Exact
<1>3. PICK const \in BOOLEAN : const = (IsConstant(x) /\ IsConstant(y))
  BY <1>2
<1>4. x.int * y.int \in Int
  BY <1>2, Multiplied
<1> DEFINE limbs == [k \in 1 .. n |-> Field(ProductLimb(x, y, k))]
           b == [k \in 1 .. n |-> ProductBounds(x, y, k)]
           val == [k \in 1 .. n |-> MetTotal(x, y, k)]
           f == [k \in 1 .. n |-> val[k] * Weight(k)]
<1>5. Product(x, y) = Variable(limbs, b, x.int * y.int, const)
  BY <1>1, <1>3 DEF Product
<1>6. Product(x, y).bounds = b /\ Product(x, y).limbs = limbs
  BY <1>5 DEF Variable
<1>7. ASSUME NEW k \in 1 .. n
      PROVE  /\ limbs[k] \in Residues /\ b[k] \in Safe /\ val[k] \in Int
             /\ Between(val[k], b[k]) /\ limbs[k] = Field(val[k])
             /\ f[k] = val[k] * Weight(k) /\ f[k] = MetTotal(x, y, k) * Weight(k)
  <2>1. k \in Int
    OBVIOUS
  <2>2. b[k] \in Safe
    BY <1>6 DEF IsSafe
  <2>3. /\ MetTotal(x, y, k) \in Int /\ ProductLimb(x, y, k) \in Int
        /\ Field(ProductLimb(x, y, k)) = Field(MetTotal(x, y, k))
        /\ Between(MetTotal(x, y, k), ProductBounds(x, y, k))
    BY <2>1, ProductLimbIs
  <2>4. limbs[k] \in Residues
    BY <2>3, FieldType
  <2> QED BY <2>2, <2>3, <2>4
<1>8. limbs \in [1 .. n -> Residues] /\ b \in [1 .. n -> Safe]
  <2>1. \A k \in 1 .. n : limbs[k] \in Residues /\ b[k] \in Safe
    BY <1>7
  <2> QED BY <2>1
<1> HIDE DEF limbs, b, val, f
<1>9. Total(n, f) = x.int * y.int
  BY <1>1, <1>7, ProductMakesUp
<1>10. Exact(Variable(limbs, b, x.int * y.int, const))
  BY <1>4, <1>7, <1>8, <1>9, Builds
<1> QED BY <1>1, <1>5, <1>6, <1>8, <1>10

LEMMA TotalTwo ==
  ASSUME NEW f, f[1] \in Int, f[2] \in Int
  PROVE  Total(2, f) = f[1] + f[2]
<1>1. Terms(2, f)
  <2>1. \A k \in 1 .. 2 : k = 1 \/ k = 2
    OBVIOUS
  <2> QED BY <2>1 DEF Terms
<1>2. Total(0, f) = 0 /\ Total(1, f) = Total(0, f) + f[1] /\ Total(2, f) = Total(1, f) + f[2]
  <2>1. 2 \in Nat /\ 1 \in 1 .. 2 /\ 2 \in 1 .. 2 /\ 1 - 1 = 0 /\ 2 - 1 = 1
    OBVIOUS
  <2>2. Total(0, f) = 0 /\ \A k \in 1 .. 2 : Total(k, f) = Total(k - 1, f) + f[k]
    BY <1>1, <2>1, TotalSteps
  <2> QED BY <2>1, <2>2
<1> QED BY <1>2

LEMMA Pair ==
  ASSUME NEW a, NEW b
  PROVE  Len(<<a, b>>) = 2 /\ DOMAIN <<a, b>> = 1 .. 2 /\ <<a, b>>[1] = a /\ <<a, b>>[2] = b
OBVIOUS

RowLimbs(x, y, u, v, n) == [k \in 1 .. n |-> Field(ProductLimb(x, u, k) + ProductLimb(y, v, k))]
RowBounds(x, y, u, v, n) ==
  [k \in 1 .. n |-> PlusBounds(ProductBounds(x, u, k), ProductBounds(y, v, k))]
RowInt(x, y, u, v) == x.int * u.int + y.int * v.int

\* A row of two products is the sum of two products.
LEMMA RowIs ==
  ASSUME NEW x, Exact(x), NEW y, Exact(y), NEW u, Exact(u), NEW v, Exact(v),
         ProductLength(x, u) >= 0, ProductLength(y, v) >= 0
  PROVE  \E n \in Nat, const \in BOOLEAN :
           /\ n >= ProductLength(x, u) /\ n >= ProductLength(y, v)
           /\ RowProduct(<<x, y>>, <<u, v>>) =
                Variable(RowLimbs(x, y, u, v, n), RowBounds(x, y, u, v, n), RowInt(x, y, u, v), const)
<1> DEFINE xs == <<x, y>>
           ys == <<u, v>>
           S == {0} \cup {ProductLength(xs[j], ys[j]) : j \in DOMAIN xs}
           n == Max(S)
           const == \A j \in DOMAIN xs : IsConstant(xs[j]) /\ IsConstant(ys[j])
<1>1. /\ Len(xs) = 2 /\ DOMAIN xs = 1 .. 2 /\ xs[1] = x /\ xs[2] = y /\ ys[1] = u /\ ys[2] = v
  BY Pair
<1>2. PICK s \in Int, t \in Int : s = ProductLength(x, u) /\ t = ProductLength(y, v)
  <2>1. /\ Len(x.limbs) \in Nat /\ Len(y.limbs) \in Nat /\ Len(u.limbs) \in Nat /\ Len(v.limbs) \in Nat
    BY VariableType DEF Exact
  <2>2. ProductLength(x, u) \in Int /\ ProductLength(y, v) \in Int
    BY <2>1 DEF ProductLength
  <2> QED BY <2>2
<1>3. S = {0, s, t}
  <2>1. DOMAIN xs = {1, 2}
    BY <1>1
  <2> HIDE DEF xs, ys
  <2>2. S = {0} \cup {ProductLength(xs[1], ys[1]), ProductLength(xs[2], ys[2])}
    BY <2>1
  <2> QED BY <1>1, <1>2, <2>2
<1> HIDE DEF xs, ys
<1>4. n \in Nat /\ n >= s /\ n >= t
  <2>1. s \in Nat /\ t \in Nat
    BY <1>2
  <2>2. \E r \in S : \A z \in S : r >= z
    BY <1>3, <2>1
  <2>3. n \in S /\ \A z \in S : n >= z
    BY <2>2 DEF Max
  <2> QED BY <1>3, <2>1, <2>3
<1>5. const \in BOOLEAN
  OBVIOUS
<1>6. ASSUME NEW k \in 1 .. n
      PROVE  /\ Total(Len(xs), [j \in DOMAIN xs |-> ProductLimb(xs[j], ys[j], k)])
                  = ProductLimb(x, u, k) + ProductLimb(y, v, k)
             /\ [lo |-> Total(Len(xs), [j \in DOMAIN xs |-> ProductBounds(xs[j], ys[j], k).lo]),
                 hi |-> Total(Len(xs), [j \in DOMAIN xs |-> ProductBounds(xs[j], ys[j], k).hi])]
                  = PlusBounds(ProductBounds(x, u, k), ProductBounds(y, v, k))
  <2> DEFINE limb == [j \in 1 .. 2 |-> ProductLimb(xs[j], ys[j], k)]
             low == [j \in 1 .. 2 |-> ProductBounds(xs[j], ys[j], k).lo]
             high == [j \in 1 .. 2 |-> ProductBounds(xs[j], ys[j], k).hi]
  <2>1. k \in Int
    BY <1>4
  <2>2. /\ ProductLimb(x, u, k) \in Int /\ ProductLimb(y, v, k) \in Int
        /\ ProductBounds(x, u, k) \in Bounds /\ ProductBounds(y, v, k) \in Bounds
    BY <2>1, ProductLimbIs
  <2>3. /\ limb[1] = ProductLimb(x, u, k) /\ limb[2] = ProductLimb(y, v, k)
        /\ low[1] = ProductBounds(x, u, k).lo /\ low[2] = ProductBounds(y, v, k).lo
        /\ high[1] = ProductBounds(x, u, k).hi /\ high[2] = ProductBounds(y, v, k).hi
    BY <1>1
  <2>4. /\ limb[1] \in Int /\ limb[2] \in Int /\ low[1] \in Int /\ low[2] \in Int
        /\ high[1] \in Int /\ high[2] \in Int
    BY <2>2, <2>3 DEF Bounds
  <2> HIDE DEF limb, low, high
  <2>5. /\ Total(2, limb) = limb[1] + limb[2]
        /\ Total(2, low) = low[1] + low[2] /\ Total(2, high) = high[1] + high[2]
    BY <2>4, TotalTwo
  <2> QED BY <1>1, <2>3, <2>5 DEF limb, low, high, PlusBounds
<1>7. Total(Len(xs), [j \in DOMAIN xs |-> xs[j].int * ys[j].int]) = x.int * u.int + y.int * v.int
  <2> DEFINE term == [j \in 1 .. 2 |-> xs[j].int * ys[j].int]
  <2>1. x.int \in Int /\ y.int \in Int /\ u.int \in Int /\ v.int \in Int
    BY VariableType DEF Exact
  <2>2. PICK a \in Int, b \in Int : a = x.int * u.int /\ b = y.int * v.int
    <3>1. x.int * u.int \in Int /\ y.int * v.int \in Int
      BY <2>1, Multiplied
    <3> QED BY <3>1
  <2>3. term[1] = a /\ term[2] = b
    BY <1>1, <2>2
  <2> HIDE DEF term
  <2>4. Total(2, term) = term[1] + term[2]
    BY <2>3, TotalTwo
  <2> QED BY <1>1, <2>2, <2>3, <2>4 DEF term
<1> HIDE DEF S, const
<1>8. RowProduct(xs, ys) =
        Variable([k \in 1 .. n |-> Field(ProductLimb(x, u, k) + ProductLimb(y, v, k))],
                 [k \in 1 .. n |-> PlusBounds(ProductBounds(x, u, k), ProductBounds(y, v, k))],
                 x.int * u.int + y.int * v.int, const)
  <2>1. RowProduct(xs, ys) =
          Variable([k \in 1 .. n |->
                      Field(Total(Len(xs), [j \in DOMAIN xs |-> ProductLimb(xs[j], ys[j], k)]))],
                   [k \in 1 .. n |->
                      [lo |-> Total(Len(xs), [j \in DOMAIN xs |-> ProductBounds(xs[j], ys[j], k).lo]),
                       hi |-> Total(Len(xs), [j \in DOMAIN xs |-> ProductBounds(xs[j], ys[j], k).hi])]],
                   Total(Len(xs), [j \in DOMAIN xs |-> xs[j].int * ys[j].int]), const)
    BY DEF RowProduct, S, const
  <2>2. [k \in 1 .. n |-> Field(Total(Len(xs), [j \in DOMAIN xs |-> ProductLimb(xs[j], ys[j], k)]))]
          = [k \in 1 .. n |-> Field(ProductLimb(x, u, k) + ProductLimb(y, v, k))]
    BY <1>6
  <2>3. [k \in 1 .. n |->
           [lo |-> Total(Len(xs), [j \in DOMAIN xs |-> ProductBounds(xs[j], ys[j], k).lo]),
            hi |-> Total(Len(xs), [j \in DOMAIN xs |-> ProductBounds(xs[j], ys[j], k).hi])]]
          = [k \in 1 .. n |-> PlusBounds(ProductBounds(x, u, k), ProductBounds(y, v, k))]
    BY <1>6
  <2> QED BY <1>7, <2>1, <2>2, <2>3
<1> HIDE DEF n
<1>9. n >= ProductLength(x, u) /\ n >= ProductLength(y, v)
  BY <1>2, <1>4
<1> QED BY <1>4, <1>5, <1>8, <1>9 DEF xs, ys, RowLimbs, RowBounds, RowInt

\* Rows of products within safe bounds are exact.
LEMMA RowProductExact ==
  ASSUME NEW x, Exact(x), NEW y, Exact(y), NEW u, Exact(u), NEW v, Exact(v),
         ProductLength(x, u) >= 0, ProductLength(y, v) >= 0,
         IsSafe(RowProduct(<<x, y>>, <<u, v>>))
  PROVE  Exact(RowProduct(<<x, y>>, <<u, v>>))
<1> DEFINE row == RowProduct(<<x, y>>, <<u, v>>)
<1>1. PICK n \in Nat, const \in BOOLEAN :
        /\ n >= ProductLength(x, u) /\ n >= ProductLength(y, v)
        /\ row = Variable(RowLimbs(x, y, u, v, n), RowBounds(x, y, u, v, n), RowInt(x, y, u, v), const)
  BY RowIs
<1> HIDE DEF row
<1> DEFINE lim == RowLimbs(x, y, u, v, n)
           bnd == RowBounds(x, y, u, v, n)
           int == RowInt(x, y, u, v)
           val == [k \in 1 .. n |-> MetTotal(x, u, k) + MetTotal(y, v, k)]
           f == [k \in 1 .. n |-> val[k] * Weight(k)]
           g == [k \in 1 .. n |-> MetTotal(x, u, k) * Weight(k)]
           h == [k \in 1 .. n |-> MetTotal(y, v, k) * Weight(k)]
<1>2. ASSUME NEW k \in 1 .. n
      PROVE  /\ lim[k] \in Residues /\ bnd[k] \in Safe /\ val[k] \in Int
             /\ Between(val[k], bnd[k]) /\ lim[k] = Field(val[k])
             /\ f[k] = val[k] * Weight(k) /\ f[k] = g[k] + h[k]
  <2>1. k \in Int /\ k \in Nat /\ k >= 1
    OBVIOUS
  <2>2. bnd[k] \in Safe
    <3>1. row.bounds = bnd
      BY <1>1 DEF Variable
    <3>2. k \in DOMAIN row.bounds
      BY <3>1 DEF RowBounds
    <3>3. row.bounds[k] \in Safe
      BY <3>2 DEF IsSafe, row
    <3> QED BY <3>1, <3>3
  <2>3. /\ MetTotal(x, u, k) \in Int /\ ProductLimb(x, u, k) \in Int
        /\ Field(ProductLimb(x, u, k)) = Field(MetTotal(x, u, k))
        /\ ProductBounds(x, u, k) \in Bounds
        /\ Between(MetTotal(x, u, k), ProductBounds(x, u, k))
    BY <2>1, ProductLimbIs
  <2>4. /\ MetTotal(y, v, k) \in Int /\ ProductLimb(y, v, k) \in Int
        /\ Field(ProductLimb(y, v, k)) = Field(MetTotal(y, v, k))
        /\ ProductBounds(y, v, k) \in Bounds
        /\ Between(MetTotal(y, v, k), ProductBounds(y, v, k))
    BY <2>1, ProductLimbIs
  <2>5. Between(MetTotal(x, u, k) + MetTotal(y, v, k),
                PlusBounds(ProductBounds(x, u, k), ProductBounds(y, v, k)))
    BY <2>3, <2>4, SumWithinBounds
  <2>6. Field(ProductLimb(x, u, k) + ProductLimb(y, v, k))
          = Field(MetTotal(x, u, k) + MetTotal(y, v, k))
    BY <2>3, <2>4, FieldSum
  <2>7. Field(ProductLimb(x, u, k) + ProductLimb(y, v, k)) \in Residues
    <3>1. ProductLimb(x, u, k) + ProductLimb(y, v, k) \in Int
      BY <2>3, <2>4
    <3> QED BY <3>1, FieldType
  <2>8. (MetTotal(x, u, k) + MetTotal(y, v, k)) * Weight(k)
          = MetTotal(x, u, k) * Weight(k) + MetTotal(y, v, k) * Weight(k)
    <3>1. PICK a \in Int, b \in Int, w \in Int :
            a = MetTotal(x, u, k) /\ b = MetTotal(y, v, k) /\ w = Weight(k)
      <4>1. Weight(k) \in Int
        <5>1. Weight(k) \in Nat
          BY <2>1, Weights
        <5> QED BY <5>1
      <4> QED BY <2>3, <2>4, <4>1
    <3>2. (a + b) * w = a * w + b * w
      BY SMT
    <3> QED BY <3>1, <3>2
  <2> QED BY <2>2, <2>3, <2>4, <2>5, <2>6, <2>7, <2>8 DEF RowLimbs, RowBounds
<1>3. lim \in [1 .. n -> Residues] /\ bnd \in [1 .. n -> Safe]
  <2>1. \A k \in 1 .. n : lim[k] \in Residues /\ bnd[k] \in Safe
    BY <1>2
  <2> QED BY <2>1 DEF RowLimbs, RowBounds
<1>4. (\A k \in 1 .. n : g[k] = MetTotal(x, u, k) * Weight(k))
      /\ \A k \in 1 .. n : h[k] = MetTotal(y, v, k) * Weight(k)
  OBVIOUS
<1> HIDE DEF lim, bnd, val, f, g, h
<1>5. Terms(n, g) /\ Total(n, g) = x.int * u.int
  BY <1>1, <1>4, ProductMakesUp
<1>6. Terms(n, h) /\ Total(n, h) = y.int * v.int
  BY <1>1, <1>4, ProductMakesUp
<1>7. Total(n, f) = Total(n, g) + Total(n, h)
  BY <1>2, <1>5, <1>6, TotalPlus
<1>8. int \in Int /\ Total(n, f) = int
  <2>1. Total(n, g) \in Int /\ Total(n, h) \in Int
    BY <1>5, <1>6, TotalInt
  <2> QED BY <1>5, <1>6, <1>7, <2>1 DEF RowInt
<1> HIDE DEF int
<1>9. Exact(Variable(lim, bnd, int, const))
  BY <1>2, <1>3, <1>8, Builds
<1> QED BY <1>1, <1>9 DEF lim, bnd, int, row

(***************************************************************************)
(* Products whose limbs are hints                                          *)
(***************************************************************************)
Horner(f, n, a, c, e) ==
  f \in [0 .. n -> Int] /\ f[0] = a /\ \A k \in 1 .. n : f[k] = f[k - 1] * c + e[k]

LEMMA HornerExists ==
  ASSUME NEW n \in Nat, NEW a \in Int, NEW c \in Int, NEW e, Terms(n, e)
  PROVE  \E f : Horner(f, n, a, c, e)
<1> DEFINE step == [k \in 1 .. n |-> [v \in Int |-> v * c + e[k]]]
<1>1. step \in StepFunctions(n, Int)
  <2>1. ASSUME NEW k \in 1 .. n PROVE step[k] \in [Int -> Int]
    <3>1. e[k] \in Int
      BY DEF Terms
    <3>2. ASSUME NEW v \in Int PROVE v * c + e[k] \in Int
      <4>1. v * c \in Int
        BY Multiplied
      <4> QED BY <3>1, <4>1
    <3> QED BY <3>2
  <2> QED BY <2>1 DEF StepFunctions
<1>2. \A k \in 1 .. n, v \in Int : step[k][v] = v * c + e[k]
  OBVIOUS
<1> HIDE DEF step
<1>3. Recursive(n, Int, step, a)
  BY <1>1, RecursionIn, Zenon
<1>4. PICK f \in [0 .. n -> Int] : f[0] = a /\ \A k \in 1 .. n : f[k] = step[k][f[k - 1]]
  BY <1>3 DEF Recursive
<1>5. ASSUME NEW k \in 1 .. n PROVE f[k] = f[k - 1] * c + e[k]
  <2>1. f[k - 1] \in Int
    OBVIOUS
  <2> QED BY <1>2, <1>4, <2>1
<1> QED BY <1>4, <1>5 DEF Horner

LEMMA FieldTimes ==
  ASSUME NEW a \in Int, NEW b \in Int, NEW z \in Int, Field(a) = Field(b)
  PROVE  Field(a * z) = Field(b * z) /\ Field(z * a) = Field(z * b)
<1>1. ((a % P) * z) % P = (a * z) % P /\ ((b % P) * z) % P = (b * z) % P
  <2>1. P \in Nat /\ P > 0
    BY BaseType
  <2> QED BY <2>1, Residue
<1>2. a % P = b % P
  BY DEF Field
<1>3. z * a = a * z /\ z * b = b * z
  BY SMT
<1> QED BY <1>1, <1>2, <1>3 DEF Field

\* p[k] is the power of c with exponent k - 1
Powers(p, l, c) ==
  /\ p \in [1 .. l -> Int]
  /\ 1 \in 1 .. l => p[1] = 1
  /\ \A k \in 2 .. l : p[k] = p[k - 1] * c

LEMMA PowersExist ==
  ASSUME NEW l \in Nat, NEW c \in Int
  PROVE  \E p : Powers(p, l, c)
<1> DEFINE e == [k \in 1 .. l |-> 0]
<1>1. Terms(l, e)
  BY DEF Terms
<1>2. \A k \in 1 .. l : e[k] = 0
  OBVIOUS
<1> HIDE DEF e
<1>3. PICK f : Horner(f, l, 1, c, e)
  BY <1>1, HornerExists
<1> DEFINE p == [k \in 1 .. l |-> f[k - 1]]
<1>4. p \in [1 .. l -> Int]
  <2>1. ASSUME NEW k \in 1 .. l PROVE f[k - 1] \in Int
    BY <1>3 DEF Horner
  <2> QED BY <2>1
<1>5. 1 \in 1 .. l => p[1] = 1
  BY <1>3 DEF Horner
<1>6. ASSUME NEW k \in 2 .. l PROVE p[k] = p[k - 1] * c
  <2>1. k - 1 \in 1 .. l /\ k \in 1 .. l
    OBVIOUS
  <2>2. f[k - 1] = f[(k - 1) - 1] * c + e[k - 1]
    BY <1>3, <2>1 DEF Horner
  <2>3. PICK a \in Int, b \in Int : a = f[k - 1] /\ b = f[(k - 1) - 1]
    <3>1. k - 1 \in 0 .. l /\ (k - 1) - 1 \in 0 .. l
      OBVIOUS
    <3>2. f[k - 1] \in Int /\ f[(k - 1) - 1] \in Int
      BY <1>3, <3>1 DEF Horner
    <3> QED BY <3>2
  <2>4. b * c \in Int
    BY Multiplied
  <2>5. a = b * c
    BY <1>2, <2>1, <2>2, <2>3, <2>4
  <2> QED BY <2>1, <2>3, <2>5
<1> HIDE DEF p
<1> QED BY <1>4, <1>5, <1>6 DEF Powers

LEMMA PowersMeet ==
  ASSUME NEW l \in Nat, NEW c \in Int, NEW p, Powers(p, l, c)
  PROVE  ByPowers(p, l)
<1>1. /\ p \in [1 .. l -> Int] /\ (1 \in 1 .. l => p[1] = 1)
      /\ \A k \in 2 .. l : p[k] = p[k - 1] * c
  BY DEF Powers
<1>2. ASSUME NEW i \in 1 .. l PROVE \A j \in 1 .. l : i + j - 1 <= l => p[i + j - 1] = p[i] * p[j]
  <2> DEFINE T == {t \in 0 .. l : t >= 1 /\ i + t - 1 <= l => p[i + t - 1] = p[i] * p[t]}
  <2>1. 0 \in T
    OBVIOUS
  <2>2. ASSUME NEW t \in 1 .. l, t - 1 \in T PROVE t \in T
    <3>1. CASE t = 1
      <4>1. p[i] \in Int /\ p[1] = 1
        BY <1>1
      <4> QED BY <3>1, <4>1
    <3>2. CASE t > 1 /\ i + t - 1 <= l
      <4>1. /\ t \in 2 .. l /\ i + t - 1 \in 2 .. l /\ (i + t - 1) - 1 = i + (t - 1) - 1
            /\ t - 1 \in 1 .. l /\ i + (t - 1) - 1 \in 1 .. l /\ t - 1 >= 1 /\ i + (t - 1) - 1 <= l
        BY <3>2
      <4>2. PICK a \in Int, b \in Int : a = p[i] /\ b = p[t - 1]
        BY <1>1, <4>1
      <4>3. p[i + t - 1] = p[(i + t - 1) - 1] * c /\ p[t] = p[t - 1] * c
        BY <1>1, <4>1
      <4>4. p[i + (t - 1) - 1] = a * b
        BY <2>2, <4>1, <4>2
      <4>5. p[i + t - 1] = (a * b) * c /\ p[t] = b * c
        BY <4>1, <4>2, <4>3, <4>4
      <4>6. (a * b) * c = a * (b * c)
        BY SMT
      <4> QED BY <4>2, <4>5, <4>6
    <3>3. CASE t > 1 /\ ~(i + t - 1 <= l)
      BY <3>3
    <3> QED BY <3>1, <3>2, <3>3
  <2> HIDE DEF T
  <2>3. 0 .. l \subseteq T
    BY <2>1, <2>2, UpTo, Zenon
  <2>4. \A j \in 1 .. l : j \in 0 .. l /\ j >= 1
    OBVIOUS
  <2> QED BY <2>3, <2>4 DEF T
<1> QED BY <1>1, <1>2 DEF ByPowers

\* At evaluates the polynomial, in the field.
LEMMA AtIs ==
  ASSUME NEW n \in Nat, NEW limbs \in [1 .. n -> Residues], NEW c \in Int,
         NEW l \in Nat, n <= l, NEW p, Powers(p, l, c), NEW f, Weighed(f, n, limbs, p)
  PROVE  Terms(n, f) /\ At(limbs, c) = Field(Total(n, f))
<1> DEFINE Good(h) == h = [k \in 0 .. n |-> IF k = 0 THEN 1 ELSE Field(h[k - 1] * c)]
           h == CHOOSE h : Good(h)
<1>1. Len(limbs) = n /\ DOMAIN limbs = 1 .. n
  BY VectorIs
<1>2. \E g : Good(g)
  <2>1. PICK q : Powers(q, n + 1, c)
    <3>1. n + 1 \in Nat
      OBVIOUS
    <3> QED BY <3>1, PowersExist
  <2> DEFINE g == [k \in 0 .. n |-> Field(q[k + 1])]
  <2>2. ASSUME NEW k \in 0 .. n PROVE g[k] = IF k = 0 THEN 1 ELSE Field(g[k - 1] * c)
    <3>1. k + 1 \in 1 .. n + 1 /\ 1 \in 1 .. n + 1
      OBVIOUS
    <3>2. CASE k = 0
      <4>1. q[1] = 1
        BY <2>1, <3>1 DEF Powers
      <4>2. Field(1) = 1
        <5>1. 1 \in Residues
          BY BaseType DEF Residues
        <5> QED BY <5>1, SignedType
      <4> QED BY <3>2, <4>1, <4>2
    <3>3. CASE k # 0
      <4>1. k + 1 \in 2 .. n + 1 /\ (k + 1) - 1 = k /\ k - 1 \in 0 .. n /\ (k - 1) + 1 = k /\ k \in 1 .. n + 1
        BY <3>3
      <4>2. q[k + 1] = q[k] * c
        BY <2>1, <4>1 DEF Powers
      <4>3. q[k] \in Int
        BY <2>1, <4>1 DEF Powers
      <4>4. g[k - 1] = Field(q[k])
        BY <4>1
      <4>5. Field(Field(q[k]) * c) = Field(q[k] * c)
        <5>1. P \in Nat /\ P > 0
          BY BaseType
        <5> QED BY <4>3, <5>1, Residue DEF Field
      <4> QED BY <3>3, <4>2, <4>4, <4>5
    <3> QED BY <3>2, <3>3
  <2>3. g = [k \in 0 .. n |-> IF k = 0 THEN 1 ELSE Field(g[k - 1] * c)]
    <3>1. g = [k \in 0 .. n |-> g[k]]
      OBVIOUS
    <3> HIDE DEF g
    <3> QED BY <2>2, <3>1
  <2> HIDE DEF g
  <2> QED BY <2>3
<1>3. Good(h)
  BY <1>2, Zenon
<1>4. At(limbs, c) = Field(Total(n, [k \in 1 .. n |-> limbs[k] * h[k - 1]]))
  BY <1>1 DEF At
<1>5. h[0] = 1 /\ \A k \in 1 .. n : h[k] = Field(h[k - 1] * c)
  <2>1. \A k \in 0 .. n : h[k] = IF k = 0 THEN 1 ELSE Field(h[k - 1] * c)
    BY <1>3, Zenon
  <2>2. 0 \in 0 .. n /\ \A k \in 1 .. n : k \in 0 .. n /\ k # 0
    OBVIOUS
  <2> QED BY <2>1, <2>2, Zenon
<1> HIDE DEF h, Good
<1>6. /\ p \in [1 .. l -> Int] /\ (1 \in 1 .. l => p[1] = 1)
      /\ \A k \in 2 .. l : p[k] = p[k - 1] * c
  BY DEF Powers
<1> DEFINE T == {k \in 0 .. n : k >= 1 => h[k - 1] \in Int /\ Field(h[k - 1]) = Field(p[k])}
<1>7. 0 \in T
  OBVIOUS
<1>8. ASSUME NEW k \in 1 .. n, k - 1 \in T PROVE k \in T
  <2>1. CASE k = 1
    <3>1. p[1] = 1
      BY <1>6
    <3> QED BY <1>5, <2>1, <3>1
  <2>2. CASE k # 1
    <3>1. k - 1 \in 1 .. n /\ k \in 2 .. l /\ k - 1 \in 1 .. l /\ k - 1 >= 1
      BY <2>2
    <3>2. h[(k - 1) - 1] \in Int /\ Field(h[(k - 1) - 1]) = Field(p[k - 1])
      BY <1>8, <3>1
    <3>3. PICK a \in Int, b \in Int : a = h[(k - 1) - 1] /\ b = p[k - 1]
      BY <1>6, <3>1, <3>2
    <3>4. h[k - 1] = Field(a * c) /\ p[k] = b * c
      BY <1>5, <1>6, <3>1, <3>3
    <3>5. Field(a * c) = Field(b * c)
      BY <3>2, <3>3, FieldTimes
    <3>6. Field(a * c) \in Residues
      BY Multiplied, FieldType
    <3>7. Field(Field(a * c)) = Field(a * c) /\ Field(a * c) \in Int
      BY <3>6, SignedType DEF Residues
    <3> QED BY <3>4, <3>5, <3>7
  <2> QED BY <2>1, <2>2
<1> HIDE DEF T
<1>9. 0 .. n \subseteq T
  BY <1>7, <1>8, UpTo, Zenon
<1> DEFINE e == [k \in 1 .. n |-> limbs[k] * h[k - 1]]
<1>10. ASSUME NEW k \in 1 .. n
       PROVE  e[k] \in Int /\ f[k] \in Int /\ Field(e[k]) = Field(f[k])
  <2>1. k \in 0 .. n /\ k >= 1 /\ k \in 1 .. l
    OBVIOUS
  <2>2. h[k - 1] \in Int /\ Field(h[k - 1]) = Field(p[k])
    BY <1>9, <2>1 DEF T
  <2>3. limbs[k] \in Int
    BY DEF Residues
  <2>4. PICK a \in Int, b \in Int, w \in Int : a = h[k - 1] /\ b = p[k] /\ w = limbs[k]
    BY <1>6, <2>1, <2>2, <2>3
  <2>5. Field(w * a) = Field(w * b)
    BY <2>2, <2>4, FieldTimes
  <2>6. w * a \in Int /\ w * b \in Int
    BY Multiplied
  <2>7. f[k] = w * b /\ e[k] = w * a
    BY <2>4 DEF Weighed
  <2> QED BY <2>5, <2>6, <2>7
<1> HIDE DEF e
<1>11. Terms(n, e) /\ Terms(n, f)
  BY <1>10 DEF Terms
<1>12. Field(Total(n, e)) = Field(Total(n, f))
  BY <1>10, <1>11, TotalResidue
<1> QED BY <1>4, <1>11, <1>12 DEF e

LEMMA FieldOfZero == Field(0) = 0
BY ZeroSigned, SignedType

\* The field has no divisors of zero.
LEMMA ZeroFactor ==
  ASSUME NEW a \in Int, NEW b \in Int, Field(a) # 0, Field(a * b) = 0
  PROVE  Field(b) = 0
<1>1. SUFFICES ASSUME Field(b) # 0 PROVE FALSE
  OBVIOUS
<1>2. PICK x \in Int, y \in Int : x = Field(a) /\ y = Field(b) /\ x \in 1 .. P - 1 /\ y \in 1 .. P - 1
  <2>1. Field(a) \in Residues /\ Field(b) \in Residues
    BY FieldType
  <2>2. Field(a) \in 1 .. P - 1 /\ Field(b) \in 1 .. P - 1
    BY <1>1, <2>1, BaseType DEF Residues
  <2> QED BY <2>2
<1>3. (x * y) % P # 0
  BY <1>2, PrimeAssumption
<1>4. Field(x) = Field(a) /\ Field(y) = Field(b)
  <2>1. Field(a) \in Residues /\ Field(b) \in Residues
    BY FieldType
  <2> QED BY <1>2, <2>1, SignedType
<1>5. Field(x * y) = Field(a * b)
  BY <1>4, FieldSum
<1> QED BY <1>3, <1>5 DEF Field

\* q is d without its root m, and q[0] what remains.
Divided(q, d, n, m) ==
  q \in [0 .. n -> Int] /\ q[n] = 0 /\ \A k \in 1 .. n : q[k - 1] = d[k] + m * q[k]

LEMMA Divides ==
  ASSUME NEW n \in Nat, NEW d \in [1 .. n -> Int], NEW m \in Int
  PROVE  \E q : Divided(q, d, n, m)
<1> DEFINE e == [j \in 1 .. n |-> d[n - j + 1]]
<1>1. ASSUME NEW j \in 1 .. n PROVE e[j] = d[n - j + 1] /\ e[j] \in Int
  <2>1. n - j + 1 \in 1 .. n
    OBVIOUS
  <2> QED BY <2>1
<1> HIDE DEF e
<1>2. Terms(n, e)
  BY <1>1 DEF Terms
<1>3. PICK f : Horner(f, n, 0, m, e)
  <2>1. 0 \in Int
    OBVIOUS
  <2> QED BY <1>2, <2>1, HornerExists
<1> DEFINE q == [k \in 0 .. n |-> f[n - k]]
<1>4. q \in [0 .. n -> Int]
  <2>1. ASSUME NEW k \in 0 .. n PROVE f[n - k] \in Int
    <3>1. n - k \in 0 .. n
      OBVIOUS
    <3> QED BY <1>3, <3>1 DEF Horner
  <2> QED BY <2>1
<1>5. q[n] = 0
  <2>1. n \in 0 .. n /\ n - n = 0
    OBVIOUS
  <2> QED BY <1>3, <2>1 DEF Horner
<1>6. ASSUME NEW k \in 1 .. n PROVE q[k - 1] = d[k] + m * q[k]
  <2>1. /\ k - 1 \in 0 .. n /\ k \in 0 .. n /\ n - (k - 1) \in 1 .. n
        /\ (n - (k - 1)) - 1 = n - k /\ n - (n - (k - 1)) + 1 = k
    OBVIOUS
  <2>2. f[n - (k - 1)] = f[n - k] * m + e[n - (k - 1)]
    <3>1. f[n - (k - 1)] = f[(n - (k - 1)) - 1] * m + e[n - (k - 1)]
      BY <1>3, <2>1 DEF Horner
    <3> QED BY <2>1, <3>1
  <2>3. e[n - (k - 1)] = d[k]
    <3>1. e[n - (k - 1)] = d[n - (n - (k - 1)) + 1]
      BY <1>1, <2>1
    <3> QED BY <2>1, <3>1
  <2>4. q[k - 1] = f[n - (k - 1)] /\ q[k] = f[n - k]
    BY <2>1
  <2>5. PICK a \in Int, b \in Int : a = f[n - k] /\ b = d[k]
    <3>1. n - k \in 0 .. n
      OBVIOUS
    <3> QED BY <1>3, <3>1 DEF Horner
  <2>6. a * m + b = b + m * a
    BY SMT
  <2> QED BY <2>2, <2>3, <2>4, <2>5, <2>6
<1> HIDE DEF q
<1> QED BY <1>4, <1>5, <1>6 DEF Divided

\* d at c is q[0], and c - m times q at c.
Factored(n, f, q, c, m, g) == Total(n, f) = q[0] + (c - m) * Total(n, g)

LEMMA Factors ==
  ASSUME NEW n \in Nat, NEW d \in [1 .. n -> Int], NEW m \in Int, NEW q, Divided(q, d, n, m),
         NEW l \in Nat, n + 1 <= l, NEW c \in Int, NEW p, Powers(p, l, c),
         NEW f, Weighed(f, n, d, p), NEW g, Weighed(g, n, q, p)
  PROVE  Terms(n, f) /\ Terms(n, g) /\ Factored(n, f, q, c, m, g)
<1>1. /\ q \in [0 .. n -> Int] /\ q[n] = 0 /\ \A k \in 1 .. n : q[k - 1] = d[k] + m * q[k]
  BY DEF Divided
<1>2. /\ p \in [1 .. l -> Int] /\ p[1] = 1 /\ \A k \in 2 .. l : p[k] = p[k - 1] * c
  <2>1. 1 \in 1 .. l
    OBVIOUS
  <2> QED BY <2>1 DEF Powers
<1>3. ASSUME NEW k \in 1 .. n
      PROVE  /\ f[k] = d[k] * p[k] /\ g[k] = q[k] * p[k] /\ d[k] \in Int /\ q[k] \in Int /\ p[k] \in Int
             /\ f[k] \in Int /\ g[k] \in Int
  <2>1. k \in 0 .. n /\ k \in 1 .. l
    OBVIOUS
  <2>2. d[k] \in Int /\ q[k] \in Int /\ p[k] \in Int
    BY <1>1, <1>2, <2>1
  <2>3. d[k] * p[k] \in Int /\ q[k] * p[k] \in Int
    BY <2>2, Multiplied
  <2> QED BY <2>2, <2>3 DEF Weighed
<1>4. Terms(n, f) /\ Terms(n, g)
  BY <1>3 DEF Terms
<1> DEFINE T == {j \in 0 .. n : Total(j, f) = q[0] - q[j] * p[j + 1] + (c - m) * Total(j, g)}
<1>5. 0 \in T
  <2>1. Total(0, f) = 0 /\ Total(0, g) = 0
    BY <1>4, TotalSteps
  <2>2. q[0] \in Int /\ 0 \in 0 .. n /\ 0 + 1 = 1
    <3>1. 0 \in 0 .. n
      OBVIOUS
    <3> QED BY <1>1, <3>1
  <2>3. PICK a \in Int, b \in Int : a = q[0] /\ b = c - m
    BY <2>2
  <2>4. 0 = a - a * 1 + b * 0
    BY SMT
  <2> QED BY <1>2, <2>1, <2>2, <2>3, <2>4
<1>6. ASSUME NEW j \in 1 .. n, j - 1 \in T PROVE j \in T
  <2>1. /\ j \in 0 .. n /\ j - 1 \in 0 .. n /\ (j - 1) + 1 = j /\ j + 1 \in 2 .. l /\ (j + 1) - 1 = j
        /\ 0 \in 0 .. n
    OBVIOUS
  <2>2. /\ Total(j, f) = Total(j - 1, f) + f[j] /\ Total(j - 1, f) \in Int
        /\ Total(j, g) = Total(j - 1, g) + g[j] /\ Total(j - 1, g) \in Int
    BY <1>4, <2>1, TotalSteps
  <2>3. PICK a \in Int, dj \in Int, qj \in Int, ql \in Int, w \in Int, G \in Int :
          /\ a = q[0] /\ dj = d[j] /\ qj = q[j] /\ ql = q[j - 1] /\ w = p[j] /\ G = Total(j - 1, g)
    <3>1. q[0] \in Int /\ q[j] \in Int /\ q[j - 1] \in Int
      BY <1>1, <2>1
    <3> QED BY <1>3, <2>2, <3>1
  <2>4. ql = dj + m * qj
    BY <1>1, <2>3
  <2>5. p[j + 1] = w * c
    BY <1>2, <2>1, <2>3
  <2>6. f[j] = dj * w /\ g[j] = qj * w
    BY <1>3, <2>3
  <2>7. Total(j - 1, f) = a - ql * w + (c - m) * G
    BY <1>6, <2>1, <2>3
  <2>8. a - ql * w + (c - m) * G + dj * w = a - qj * (w * c) + (c - m) * (G + qj * w)
    <3>1. (dj + m * qj) * w = dj * w + m * (qj * w)
      BY SMT
    <3>2. qj * (w * c) = c * (qj * w) /\ (c - m) * (G + qj * w) = (c - m) * G + (c - m) * (qj * w)
      BY SMT
    <3>3. PICK t \in Int : t = qj * w
      <4>1. qj * w \in Int
        BY Multiplied
      <4> QED BY <4>1
    <3>4. (c - m) * t = c * t - m * t
      BY SMT
    <3> QED BY <2>4, <3>1, <3>2, <3>3, <3>4
  <2>9. Total(j, f) = a - qj * (w * c) + (c - m) * (G + qj * w)
    BY <2>2, <2>6, <2>7, <2>8
  <2>10. Total(j, g) = G + qj * w
    BY <2>2, <2>3, <2>6
  <2> QED BY <2>1, <2>3, <2>5, <2>9, <2>10
<1> HIDE DEF T
<1>7. 0 .. n \subseteq T
  BY <1>5, <1>6, UpTo, Zenon
<1>8. n \in T
  <2>1. n \in 0 .. n
    OBVIOUS
  <2> QED BY <1>7, <2>1
<1>9. Factored(n, f, q, c, m, g)
  <2>1. Total(n, f) = q[0] - q[n] * p[n + 1] + (c - m) * Total(n, g)
    BY <1>8 DEF T
  <2>2. PICK a \in Int, w \in Int, x \in Int : a = q[0] /\ w = p[n + 1] /\ x = (c - m) * Total(n, g)
    <3>1. Total(n, g) \in Int
      BY <1>4, TotalInt
    <3>2. (c - m) * Total(n, g) \in Int
      BY <3>1, Multiplied
    <3>3. 0 \in 0 .. n /\ n + 1 \in 1 .. l
      OBVIOUS
    <3> QED BY <1>1, <1>2, <3>2, <3>3
  <2>3. Total(n, f) = a - 0 * w + x
    BY <1>1, <2>1, <2>2
  <2> QED BY <2>2, <2>3 DEF Factored
<1> QED BY <1>4, <1>9

Vanishes(d, n, c, l) ==
  \A p, f : Powers(p, l, c) /\ Weighed(f, n, d, p) => Field(Total(n, f)) = 0

VanishesUpTo(d, n, l) == \A c \in 1 .. n : Vanishes(d, n, c, l)
ZeroModulo(d, n) == \A k \in 1 .. n : Field(d[k]) = 0

\* One root less: what is left vanishes at the others.
LEMMA RootLess ==
  ASSUME NEW l \in Nat, NEW n \in Nat, n >= 1, n < P, n + 1 <= l,
         NEW d \in [1 .. n -> Int], VanishesUpTo(d, n, l), NEW q, Divided(q, d, n, n)
  PROVE  Field(q[0]) = 0 /\ VanishesUpTo([k \in 1 .. n - 1 |-> q[k]], n - 1, l)
<1>1. /\ q \in [0 .. n -> Int] /\ q[n] = 0 /\ \A k \in 1 .. n : q[k - 1] = d[k] + n * q[k]
  BY DEF Divided
<1>2. q[0] \in Int
  <2>1. 0 \in 0 .. n
    OBVIOUS
  <2> QED BY <1>1, <2>1
<1> DEFINE r == [k \in 1 .. n - 1 |-> q[k]]
<1>3. ASSUME NEW c \in Int, NEW p, Powers(p, l, c), NEW g, Weighed(g, n - 1, r, p)
      PROVE  \E f : /\ Weighed(f, n, d, p) /\ Total(n - 1, g) \in Int
                    /\ Total(n, f) = q[0] + (c - n) * Total(n - 1, g)
  <2> DEFINE f == [k \in 1 .. n |-> d[k] * p[k]]
             h == [k \in 1 .. n |-> q[k] * p[k]]
  <2>1. Weighed(f, n, d, p) /\ Weighed(h, n, q, p)
    BY DEF Weighed
  <2>2. h[n] = 0
    <3>1. n \in 1 .. n /\ n \in 1 .. l
      OBVIOUS
    <3>2. p[n] \in Int
      BY <1>3, <3>1 DEF Powers
    <3>3. h[n] = 0 * p[n]
      BY <1>1, <3>1
    <3> QED BY <3>2, <3>3
  <2>3. \A k \in 1 .. n - 1 : g[k] = h[k]
    <3> TAKE k \in 1 .. n - 1
    <3>1. g[k] = r[k] * p[k]
      BY <1>3 DEF Weighed
    <3>2. k \in 1 .. n
      OBVIOUS
    <3> QED BY <3>1, <3>2
  <2> HIDE DEF f, h, r
  <2>4. Terms(n, h) /\ Factored(n, f, q, c, n, h)
    <3>1. n \in Int
      OBVIOUS
    <3> QED BY <1>3, <2>1, <3>1, Factors
  <2>5. n - 1 \in Nat /\ n \in 1 .. n /\ n - 1 \in 0 .. n /\ \A k \in 1 .. n - 1 : k \in 1 .. n
    OBVIOUS
  <2>6. Terms(n - 1, h)
    BY <2>4, <2>5 DEF Terms
  <2>7. Total(n - 1, g) = Total(n - 1, h)
    BY <2>3, <2>5, <2>6, TotalSame
  <2>8. Total(n, h) = Total(n - 1, h) + h[n] /\ Total(n - 1, h) \in Int
    BY <2>4, <2>5, TotalSteps
  <2>9. Total(n, h) = Total(n - 1, g) /\ Total(n - 1, g) \in Int
    BY <2>2, <2>7, <2>8
  <2> QED BY <2>1, <2>4, <2>9 DEF Factored
<1>4. Field(q[0]) = 0
  <2>1. PICK p : Powers(p, l, n)
    <3>1. n \in Int
      OBVIOUS
    <3> QED BY <3>1, PowersExist
  <2> DEFINE g == [k \in 1 .. n - 1 |-> r[k] * p[k]]
  <2>2. Weighed(g, n - 1, r, p)
    BY DEF Weighed
  <2> HIDE DEF g, r
  <2>3. PICK f : /\ Weighed(f, n, d, p) /\ Total(n - 1, g) \in Int
                 /\ Total(n, f) = q[0] + (n - n) * Total(n - 1, g)
    <3>1. n \in Int
      OBVIOUS
    <3> QED BY <1>3, <2>1, <2>2, <3>1
  <2>4. Total(n, f) = q[0]
    <3>1. PICK t \in Int : t = Total(n - 1, g)
      BY <2>3
    <3>2. n - n = 0 /\ 0 * t = 0
      OBVIOUS
    <3> QED BY <1>2, <2>3, <3>1, <3>2
  <2>5. Field(Total(n, f)) = 0
    <3>1. n \in 1 .. n
      OBVIOUS
    <3>2. Vanishes(d, n, n, l)
      BY <3>1 DEF VanishesUpTo
    <3> QED BY <2>1, <2>3, <3>2 DEF Vanishes
  <2> QED BY <2>4, <2>5
<1>5. ASSUME NEW c \in 1 .. n - 1, NEW p, Powers(p, l, c), NEW g, Weighed(g, n - 1, r, p)
      PROVE  Field(Total(n - 1, g)) = 0
  <2>1. c \in Int /\ c \in 1 .. n
    OBVIOUS
  <2> HIDE DEF r
  <2>2. PICK f : /\ Weighed(f, n, d, p) /\ Total(n - 1, g) \in Int
                 /\ Total(n, f) = q[0] + (c - n) * Total(n - 1, g)
    BY <1>3, <1>5, <2>1
  <2>3. Field(Total(n, f)) = 0
    <3>1. Vanishes(d, n, c, l)
      BY <2>1 DEF VanishesUpTo
    <3> QED BY <1>5, <2>2, <3>1 DEF Vanishes
  <2>4. PICK t \in Int, a \in Int, x \in Int, e \in Int :
          t = Total(n - 1, g) /\ a = q[0] /\ x = (c - n) * t /\ e = c - n
    <3>1. PICK t \in Int : t = Total(n - 1, g)
      BY <2>2
    <3>2. (c - n) * t \in Int /\ c - n \in Int
      BY <2>1, <3>1, Multiplied
    <3> QED BY <1>2, <3>1, <3>2
  <2>5. Field(x) = 0
    <3>1. Field(a + x) = 0
      BY <2>2, <2>3, <2>4
    <3>2. Field(a + x) = Field(0 + x)
      <4>1. Field(a) = Field(0)
        BY <1>4, <2>4, FieldOfZero
      <4>2. 0 \in Int
        OBVIOUS
      <4>3. Field(x) = Field(x)
        OBVIOUS
      <4> QED BY <4>1, <4>2, <4>3, FieldSum
    <3>3. 0 + x = x
      OBVIOUS
    <3> QED BY <3>1, <3>2, <3>3
  <2>6. Field(e) # 0
    <3>1. SUFFICES ASSUME Field(e) = 0 PROVE FALSE
      OBVIOUS
    <3>2. e < 0 /\ 0 - e < P /\ e - 0 < P
      BY <2>1, <2>4, BaseType
    <3>3. Field(e) = Field(0) /\ 0 \in Int
      BY <3>1, FieldOfZero
    <3>4. e = 0
      BY <3>2, <3>3, KnownByResidue
    <3> QED BY <3>2, <3>4
  <2>7. Field(e * t) = 0
    BY <2>4, <2>5
  <2> QED BY <2>4, <2>6, <2>7, ZeroFactor
<1>6. VanishesUpTo(r, n - 1, l)
  BY <1>5 DEF VanishesUpTo, Vanishes
<1> QED BY <1>4, <1>6

\* A polynomial with as many roots as coefficients is zero.
LEMMA NoMoreRoots ==
  ASSUME NEW l \in Nat, NEW n \in Nat, n < P, n + 1 <= l,
         NEW d \in [1 .. n -> Int], VanishesUpTo(d, n, l)
  PROVE  ZeroModulo(d, n)
<1> DEFINE Zero(t) == \A e \in [1 .. t -> Int] : VanishesUpTo(e, t, l) => ZeroModulo(e, t)
           T == {t \in 0 .. n : Zero(t)}
<1>1. 0 \in T
  BY DEF ZeroModulo
<1>2. ASSUME NEW t \in 1 .. n, t - 1 \in T PROVE t \in T
  <2>1. ASSUME NEW e \in [1 .. t -> Int], VanishesUpTo(e, t, l) PROVE ZeroModulo(e, t)
    <3>1. t \in Nat /\ t \in Int /\ t >= 1 /\ t < P /\ t + 1 <= l
      BY BaseType
    <3>2. PICK q : Divided(q, e, t, t)
      BY <3>1, Divides
    <3> DEFINE r == [k \in 1 .. t - 1 |-> q[k]]
    <3>3. q \in [0 .. t -> Int] /\ q[t] = 0 /\ \A k \in 1 .. t : q[k - 1] = e[k] + t * q[k]
      BY <3>2 DEF Divided
    <3>4. Field(q[0]) = 0 /\ VanishesUpTo(r, t - 1, l)
      BY <2>1, <3>1, <3>2, RootLess
    <3>5. r \in [1 .. t - 1 -> Int]
      <4>1. ASSUME NEW k \in 1 .. t - 1 PROVE q[k] \in Int
        <5>1. k \in 0 .. t
          OBVIOUS
        <5> QED BY <3>3, <5>1
      <4> QED BY <4>1
    <3>6. ZeroModulo(r, t - 1)
      <4>1. Zero(t - 1)
        BY <1>2
      <4> HIDE DEF r
      <4> QED BY <3>4, <3>5, <4>1
    <3>7. ASSUME NEW k \in 0 .. t PROVE Field(q[k]) = 0
      <4>1. CASE k = 0
        BY <3>4, <4>1
      <4>2. CASE k = t
        BY <3>3, <4>2, FieldOfZero
      <4>3. CASE k # 0 /\ k # t
        <5>1. k \in 1 .. t - 1
          BY <4>3
        <5>2. Field(r[k]) = 0
          BY <3>6, <5>1 DEF ZeroModulo
        <5> QED BY <5>1, <5>2
      <4> QED BY <4>1, <4>2, <4>3
    <3>8. ASSUME NEW k \in 1 .. t PROVE Field(e[k]) = 0
      <4>1. k \in 0 .. t /\ k - 1 \in 0 .. t
        OBVIOUS
      <4>2. PICK a \in Int, b \in Int, x \in Int : a = q[k - 1] /\ b = q[k] /\ x = e[k]
        BY <3>3, <4>1
      <4>3. a = x + t * b
        BY <3>3, <4>2
      <4>4. PICK y \in Int : y = b * t
        <5>1. b * t \in Int
          BY <3>1, Multiplied
        <5> QED BY <5>1
      <4>5. x = a - y
        BY <4>3, <4>4, SMT
      <4>6. Field(y) = Field(0 * t)
        <5>1. Field(b) = Field(0) /\ 0 \in Int
          BY <3>7, <4>1, <4>2, FieldOfZero
        <5> QED BY <3>1, <4>4, <5>1, FieldTimes, ZenonT(30)
      <4>7. Field(y) = Field(0)
        <5>1. 0 * t = 0
          BY <3>1
        <5> QED BY <4>6, <5>1
      <4>8. Field(a) = Field(0)
        BY <3>7, <4>1, <4>2, FieldOfZero
      <4>9. Field(a - y) = Field(0 - 0)
        <5>1. 0 \in Int
          OBVIOUS
        <5> QED BY <4>7, <4>8, <5>1, FieldMinus
      <4> QED BY <4>2, <4>5, <4>9, FieldOfZero
    <3> QED BY <3>8 DEF ZeroModulo
  <2> QED BY <2>1
<1> HIDE DEF T
<1>3. 0 .. n \subseteq T
  BY <1>1, <1>2, UpTo, Zenon
<1>4. n \in T
  BY <1>3
<1>5. Zero(n)
  BY <1>4 DEF T
<1> QED BY <1>5

LEMMA ExactLimbs ==
  ASSUME NEW x, Exact(x)
  PROVE  /\ Len(x.limbs) \in Nat /\ x.limbs \in [1 .. Len(x.limbs) -> Residues]
         /\ DOMAIN x.limbs = 1 .. Len(x.limbs) /\ Len(x.bounds) = Len(x.limbs)
         /\ x.bounds \in [1 .. Len(x.limbs) -> Safe]
  BY DEF Exact, VariableSet

ProductRow(x, y, k) == [i \in 1 .. Len(x.limbs) |-> x.limbs[i] * LimbAt(y, k + 1 - i)]

LEMMA ProductLimbSum ==
  ASSUME NEW x, Exact(x), NEW y, NEW k
  PROVE  ProductLimb(x, y, k) = Total(Len(x.limbs), ProductRow(x, y, k))
BY ExactLimbs DEF ProductLimb, ProductRow

WeighedProduct(h, n, x, y, p) == \A k \in 1 .. n : h[k] = ProductLimb(x, y, k) * p[k]

ValuesMultiply(x, y, c, n, h) == Field(At(x.limbs, c) * At(y.limbs, c)) = Field(Total(n, h))

\* The values of the factors at c have the value of the product there as product.
LEMMA ProductAt ==
  ASSUME NEW x, Exact(x), NEW y, Exact(y), NEW u \in Nat, u = Len(x.limbs),
         NEW m \in Nat, m = Len(y.limbs), NEW n \in Nat, n >= u + m - 1,
         NEW c \in Int, NEW l \in Nat, u <= l, m <= l, n <= l,
         NEW p, Powers(p, l, c), NEW h, WeighedProduct(h, n, x, y, p)
  PROVE  Terms(n, h) /\ ValuesMultiply(x, y, c, n, h)
<1>1. u = Len(x.limbs) /\ m = Len(y.limbs)
  OBVIOUS
<1>2. u \in 0 .. l /\ m \in 0 .. l /\ n \in 0 .. l
  <2>1. \A a, b \in Nat : a <= b => a \in 0 .. b
    OBVIOUS
  <2> QED BY <2>1
<1> DEFINE Y == [j \in Int |-> LimbAt(y, j)]
           d == [k \in 1 .. n |-> ProductRow(x, y, k)]
           f == [i \in 1 .. u |-> x.limbs[i] * p[i]]
           g == [j \in 1 .. m |-> Y[j] * p[j]]
<1>3. ByPowers(p, l)
  BY PowersMeet
<1>4. x.limbs \in [1 .. u -> Residues] /\ y.limbs \in [1 .. m -> Residues] /\ DOMAIN y.limbs = 1 .. m
  BY <1>1, ExactLimbs
<1>5. x.limbs \in [1 .. u -> Int] /\ Y \in [Int -> Int]
  <2>1. Residues \subseteq Int
    BY DEF Residues
  <2>2. \A j \in Int : LimbAt(y, j) \in Int
    BY <2>1, LimbIs
  <2>3. \A i \in 1 .. u : x.limbs[i] \in Int
    BY <1>4, <2>1
  <2> QED BY <1>4, <2>2, <2>3
<1>6. EndsAt(Y, m)
  <2>1. \A j \in Int : j \notin 1 .. m => LimbAt(y, j) = 0
    BY <1>1, LimbIs
  <2> QED BY <2>1 DEF EndsAt
<1>7. Meetings(d, n, u, x.limbs, Y)
  <2>1. ASSUME NEW k \in 1 .. n, NEW i \in 1 .. u PROVE d[k][i] = x.limbs[i] * Y[k + 1 - i]
    <3>1. k + 1 - i \in Int
      OBVIOUS
    <3> QED BY <1>1, <3>1 DEF ProductRow
  <2> QED BY <2>1 DEF Meetings
<1>8. SumsOfRows(h, n, u, d, p)
  <2>1. ASSUME NEW k \in 1 .. n PROVE h[k] = Total(u, d[k]) * p[k]
    <3>1. h[k] = ProductLimb(x, y, k) * p[k]
      BY DEF WeighedProduct
    <3>2. ProductLimb(x, y, k) = Total(Len(x.limbs), ProductRow(x, y, k))
      BY ProductLimbSum
    <3> QED BY <1>1, <3>1, <3>2
  <2> QED BY <2>1 DEF SumsOfRows
<1>9. Weighed(f, u, x.limbs, p) /\ Weighed(g, m, Y, p) /\ Weighed(g, m, y.limbs, p)
  <2>1. \A j \in 1 .. m : Y[j] = y.limbs[j]
    <3> TAKE j \in 1 .. m
    <3>1. j \in Int
      OBVIOUS
    <3> QED BY <1>4, <3>1 DEF LimbAt
  <2>2. \A j \in 1 .. m : g[j] = y.limbs[j] * p[j]
    BY <2>1
  <2> QED BY <2>2 DEF Weighed
<1> HIDE DEF Y, d, f, g
<1>10. Terms(n, h) /\ MakesProduct(n, h, u, f, m, g)
  <2>1. PICK X \in [1 .. u -> Int] : X = x.limbs
    BY <1>5
  <2>2. Meetings(d, n, u, X, Y) /\ Weighed(f, u, X, p)
    BY <1>7, <1>9, <2>1
  <2> QED BY <1>2, <1>3, <1>5, <1>6, <1>8, <1>9, <2>2, Convolution
<1>11. Terms(u, f) /\ At(x.limbs, c) = Field(Total(u, f))
  <2>1. PICK X \in [1 .. u -> Residues] : X = x.limbs
    BY <1>4
  <2>2. Weighed(f, u, X, p)
    BY <1>9, <2>1
  <2> QED BY <2>1, <2>2, AtIs
<1>12. Terms(m, g) /\ At(y.limbs, c) = Field(Total(m, g))
  <2>1. PICK X \in [1 .. m -> Residues] : X = y.limbs
    BY <1>4
  <2>2. Weighed(g, m, X, p)
    BY <1>9, <2>1
  <2> QED BY <2>1, <2>2, AtIs
<1>13. PICK a \in Int, b \in Int : a = Total(u, f) /\ b = Total(m, g)
  <2>1. Total(u, f) \in Int /\ Total(m, g) \in Int
    BY <1>11, <1>12, TotalInt
  <2> QED BY <2>1
<1>14. Field(Field(a) * Field(b)) = Field(a * b)
  <2>1. Field(a) \in Residues /\ Field(b) \in Residues
    BY FieldType
  <2>2. Field(Field(a)) = Field(a) /\ Field(Field(b)) = Field(b)
    BY <2>1, SignedType
  <2>3. Field(a) \in Int /\ Field(b) \in Int
    BY <2>1 DEF Residues
  <2> QED BY <2>2, <2>3, FieldSum
<1> QED BY <1>10, <1>11, <1>12, <1>13, <1>14 DEF MakesProduct, ValuesMultiply

LEMMA SameResidue ==
  ASSUME NEW a \in Int, NEW b \in Int
  PROVE  Field(a - b) = 0 <=> Field(a) = Field(b)
<1>1. ASSUME Field(a) = Field(b) PROVE Field(a - b) = 0
  <2>1. Field(a - b) = Field(b - b)
    BY <1>1, FieldMinus
  <2>2. b - b = 0
    OBVIOUS
  <2> QED BY <2>1, <2>2, FieldOfZero
<1>2. ASSUME Field(a - b) = 0 PROVE Field(a) = Field(b)
  <2>1. PICK e \in Int : e = a - b /\ a = e + b
    <3>1. a - b \in Int /\ a = (a - b) + b
      OBVIOUS
    <3> QED BY <3>1
  <2>2. Field(e + b) = Field(0 + b)
    <3>1. Field(e) = Field(0) /\ Field(b) = Field(b) /\ 0 \in Int
      BY <1>2, <2>1, FieldOfZero
    <3> QED BY <3>1, FieldSum
  <2>3. 0 + b = b
    OBVIOUS
  <2> QED BY <2>1, <2>2, <2>3
<1> QED BY <1>1, <1>2

\* Hints for a product agree with the factors everywhere only if they are its limbs.
LEMMA EvaluationsForce ==
  ASSUME NEW x, Exact(x), NEW y, Exact(y), NEW n \in Nat, n = ProductLength(x, y), n < P,
         NEW limbs \in [1 .. n -> Residues]
  PROVE  EvaluationsAgree(x, y, limbs) <=> limbs = Product(x, y).limbs
<1>0. PICK u \in Nat, m \in Nat : u = Len(x.limbs) /\ m = Len(y.limbs)
  BY ExactLimbs
<1>1. PICK l \in Nat : n + 1 <= l /\ n <= l /\ u <= l /\ m <= l /\ n >= u + m - 1
  <2>1. n = u + m - 1
    BY <1>0 DEF ProductLength
  <2>2. PICK l \in Nat : l = u + m + n + 1
    OBVIOUS
  <2>3. n + 1 <= l /\ n <= l /\ u <= l /\ m <= l /\ n >= u + m - 1
    BY <2>1, <2>2
  <2> QED BY <2>3
<1>2. Len(limbs) = n
  BY VectorIs
<1>3. Product(x, y).limbs = [k \in 1 .. n |-> Field(ProductLimb(x, y, k))]
  BY DEF Product, Variable
<1>4. ASSUME NEW k \in 1 .. n
      PROVE  /\ ProductLimb(x, y, k) \in Int /\ limbs[k] \in Int /\ limbs[k] \in Residues
             /\ Field(limbs[k]) = limbs[k]
  <2>1. k \in Int
    OBVIOUS
  <2>2. ProductLimb(x, y, k) \in Int
    BY <2>1, ProductLimbIs
  <2>3. limbs[k] \in Residues
    OBVIOUS
  <2> QED BY <2>2, <2>3, SignedType DEF Residues
<1> DEFINE d == [k \in 1 .. n |-> limbs[k] - ProductLimb(x, y, k)]
<1>5. d \in [1 .. n -> Int]
  <2>1. \A k \in 1 .. n : limbs[k] - ProductLimb(x, y, k) \in Int
    BY <1>4
  <2> QED BY <2>1
<1>6. \A k \in 1 .. n : d[k] = limbs[k] - ProductLimb(x, y, k)
  OBVIOUS
<1> HIDE DEF d
<1>7. ASSUME NEW c \in Int, NEW p, Powers(p, l, c), NEW e, Weighed(e, n, d, p)
      PROVE  Field(At(x.limbs, c) * At(y.limbs, c)) = At(limbs, c) <=> Field(Total(n, e)) = 0
  <2> DEFINE f == [k \in 1 .. n |-> limbs[k] * p[k]]
             h == [k \in 1 .. n |-> ProductLimb(x, y, k) * p[k]]
  <2>1. Weighed(f, n, limbs, p) /\ WeighedProduct(h, n, x, y, p)
    BY DEF Weighed, WeighedProduct
  <2>2. \A k \in 1 .. n : e[k] = f[k] - h[k]
    <3> TAKE k \in 1 .. n
    <3>1. k \in 1 .. l
      BY <1>1
    <3>2. p[k] \in Int
      BY <1>7, <3>1 DEF Powers
    <3>3. PICK a \in Int, b \in Int, w \in Int : a = limbs[k] /\ b = ProductLimb(x, y, k) /\ w = p[k]
      BY <1>4, <3>2
    <3>4. e[k] = (a - b) * w
      BY <1>6, <1>7, <3>3 DEF Weighed
    <3>5. (a - b) * w = a * w - b * w
      BY SMT
    <3> QED BY <3>3, <3>4, <3>5
  <2> HIDE DEF f, h
  <2>3. Terms(n, h) /\ ValuesMultiply(x, y, c, n, h)
    BY <1>0, <1>1, <1>7, <2>1, ProductAt
  <2>4. Terms(n, f) /\ At(limbs, c) = Field(Total(n, f))
    <3>1. n <= l
      BY <1>1
    <3> QED BY <1>7, <2>1, <3>1, AtIs
  <2>5. Total(n, e) = Total(n, f) - Total(n, h)
    BY <2>2, <2>3, <2>4, TotalMinus
  <2>6. Total(n, f) \in Int /\ Total(n, h) \in Int
    BY <2>3, <2>4, TotalInt
  <2>7. Field(Total(n, f) - Total(n, h)) = 0 <=> Field(Total(n, f)) = Field(Total(n, h))
    BY <2>6, SameResidue
  <2> QED BY <2>3, <2>4, <2>5, <2>7 DEF ValuesMultiply
<1>8. ASSUME EvaluationsAgree(x, y, limbs) PROVE limbs = Product(x, y).limbs
  <2>1. ASSUME NEW c \in 1 .. n, NEW p, NEW e, Powers(p, l, c), Weighed(e, n, d, p)
        PROVE  Field(Total(n, e)) = 0
    <3>1. c \in Int
      OBVIOUS
    <3>2. Field(At(x.limbs, c) * At(y.limbs, c)) = At(limbs, c)
      BY <1>2, <1>8 DEF EvaluationsAgree
    <3> QED BY <1>7, <2>1, <3>1, <3>2
  <2>2. VanishesUpTo(d, n, l)
    BY <2>1 DEF VanishesUpTo, Vanishes
  <2>3. ZeroModulo(d, n)
    BY <1>1, <1>5, <2>2, NoMoreRoots
  <2>4. \A k \in 1 .. n : limbs[k] = Field(ProductLimb(x, y, k))
    <3> TAKE k \in 1 .. n
    <3>1. Field(limbs[k] - ProductLimb(x, y, k)) = 0
      BY <1>6, <2>3 DEF ZeroModulo
    <3>2. Field(limbs[k]) = Field(ProductLimb(x, y, k))
      BY <1>4, <3>1, SameResidue
    <3> QED BY <1>4, <3>2
  <2> QED BY <1>3, <2>4
<1>9. ASSUME limbs = Product(x, y).limbs PROVE EvaluationsAgree(x, y, limbs)
  <2>1. ASSUME NEW c \in 1 .. n PROVE Field(At(x.limbs, c) * At(y.limbs, c)) = At(limbs, c)
    <3>1. c \in Int
      OBVIOUS
    <3>2. PICK p : Powers(p, l, c)
      BY <3>1, PowersExist
    <3> DEFINE e == [k \in 1 .. n |-> d[k] * p[k]]
               z == [k \in 1 .. n |-> 0]
    <3>3. Weighed(e, n, d, p)
      BY DEF Weighed
    <3>4. \A k \in 1 .. n : e[k] \in Int /\ z[k] = 0 /\ Field(e[k]) = Field(z[k])
      <4> TAKE k \in 1 .. n
      <4>1. k \in 1 .. l
        BY <1>1
      <4>2. PICK a \in Int, w \in Int : a = d[k] /\ w = p[k]
        BY <1>5, <3>2, <4>1 DEF Powers
      <4>3. Field(a) = Field(0)
        <5>1. limbs[k] = Field(ProductLimb(x, y, k))
          BY <1>3, <1>9
        <5>2. Field(limbs[k]) = Field(ProductLimb(x, y, k))
          BY <1>4, <5>1
        <5>3. Field(limbs[k] - ProductLimb(x, y, k)) = 0
          BY <1>4, <5>2, SameResidue
        <5> QED BY <1>6, <4>2, <5>3, FieldOfZero
      <4>4. Field(a * w) = Field(0 * w)
        <5>1. 0 \in Int
          OBVIOUS
        <5> QED BY <4>3, <5>1, FieldTimes
      <4>5. 0 * w = 0 /\ a * w \in Int
        BY Multiplied
      <4>6. e[k] = a * w /\ z[k] = 0
        BY <4>2
      <4> QED BY <4>4, <4>5, <4>6
    <3> HIDE DEF e, z
    <3>5. Terms(n, e) /\ Terms(n, z)
      BY <3>4 DEF Terms
    <3>6. Field(Total(n, e)) = Field(Total(n, z))
      BY <3>4, <3>5, TotalResidue
    <3>7. Total(n, z) = 0
      <4>1. 0 \in 0 .. n /\ \A k \in 0 + 1 .. n : k \in 1 .. n
        OBVIOUS
      <4>2. \A k \in 0 + 1 .. n : z[k] = 0
        BY <3>4, <4>1
      <4>3. Total(n, z) = Total(0, z)
        BY <3>5, <4>1, <4>2, TotalTail
      <4> QED BY <3>5, <4>3, TotalSteps
    <3>8. Field(Total(n, e)) = 0
      BY <3>6, <3>7, FieldOfZero
    <3> QED BY <1>7, <3>1, <3>2, <3>3, <3>8
  <2> QED BY <1>2, <2>1 DEF EvaluationsAgree
<1> QED BY <1>8, <1>9

(***************************************************************************)
(* Aligned variables                                                       *)
(***************************************************************************)
SignedDigit(x, k) == IF x < 0 THEN -Digit(Abs(x), k) ELSE Digit(Abs(x), k)

\* The limbs are the digits of the integer, each with its sign, and they are all of them.
Cut(v) ==
  /\ Abs(v.int) < Weight(Len(v.limbs) + 1)
  /\ \A k \in 1 .. Len(v.limbs) : Signed(v.limbs[k]) = SignedDigit(v.int, k)

LEMMA LimitIs == Limit \in Nat /\ 2 * B - 1 <= Limit /\ B - 1 \in Nat /\ B \in Nat
<1>1. P \in Int /\ B \in Nat /\ B > 1 /\ 4 * B <= P
  BY BaseType
<1>2. PICK q \in Int, r \in 0 .. 1 : q = Limit /\ P - 1 = 2 * q + r
  <2>1. /\ (P - 1) % 2 \in 0 .. 2 - 1 /\ (P - 1) \div 2 \in Int
        /\ P - 1 = 2 * ((P - 1) \div 2) + ((P - 1) % 2)
    <3>1. 2 \in Nat /\ 2 > 0 /\ P - 1 \in Int
      BY <1>1
    <3> QED BY <3>1, Remainder
  <2>2. PICK q \in Int, r \in 0 .. 1 : q = (P - 1) \div 2 /\ r = (P - 1) % 2
    BY <2>1
  <2> QED BY <2>1, <2>2 DEF Limit
<1>3. 2 * q + 2 > 4 * B - 1
  BY <1>1, <1>2
<1> QED BY <1>1, <1>2, <1>3, LimitRange

LEMMA SignedDigitType ==
  ASSUME NEW x \in Int, NEW k \in Nat, k >= 1
  PROVE  /\ SignedDigit(x, k) \in Int /\ Digit(Abs(x), k) \in 0 .. B - 1
         /\ 1 - B <= SignedDigit(x, k) /\ SignedDigit(x, k) <= B - 1
         /\ x >= 0 => SignedDigit(x, k) >= 0
         /\ x <= 0 => SignedDigit(x, k) <= 0
<1>1. Abs(x) \in Nat
  BY AbsType
<1>2. Digit(Abs(x), k) \in 0 .. B - 1 /\ B \in Nat
  BY <1>1, DigitType, LimitIs
<1>3. x = 0 => Digit(Abs(x), k) = 0
  <2>1. ASSUME x = 0 PROVE Digit(0, k) = 0
    <3>1. Weight(k) \in Nat /\ Weight(k) >= 1 /\ B > 0
      BY Weights, BaseType
    <3>2. 0 \div Weight(k) = 0 /\ 0 % B = 0
      <4>1. PICK w \in Nat : w = Weight(k) /\ w > 0
        BY <3>1
      <4>2. 0 = w * 0 + 0 /\ 0 \in 0 .. w - 1 /\ 0 \in Int
        BY <4>1
      <4>3. 0 \div w = 0
        BY <4>1, <4>2, DivisionIs
      <4>4. 0 = B * 0 + 0 /\ 0 \in 0 .. B - 1
        BY <1>2, <3>1
      <4>5. 0 % B = 0
        BY <1>2, <3>1, <4>4, DivisionIs
      <4> QED BY <4>1, <4>3, <4>5
    <3> QED BY <3>2 DEF Digit
  <2> QED BY <2>1 DEF Abs
<1>4. PICK d \in 0 .. B - 1 : d = Digit(Abs(x), k)
  BY <1>2
<1>5. SignedDigit(x, k) = IF x < 0 THEN -d ELSE d
  BY <1>4 DEF SignedDigit
<1> QED BY <1>2, <1>3, <1>4, <1>5

\* A small integer is known by its residue.
LEMMA SignedSmall ==
  ASSUME NEW x \in Int, -Limit <= x, x <= Limit
  PROVE  Field(x) \in Residues /\ Signed(Field(x)) = x
<1> DEFINE b == [lo |-> x, hi |-> x]
<1>1. b \in Safe /\ Between(x, b)
  <2>1. Limit \in Nat
    BY LimitIs
  <2>2. b \in [lo : -Limit .. Limit, hi : -Limit .. Limit] /\ b.hi - b.lo <= Limit
    BY <2>1
  <2> QED BY <2>2 DEF Safe, Between
<1> HIDE DEF b
<1>2. Signed(Field(x)) = x
  BY <1>1, SignedOfField
<1> QED BY <1>2, FieldType

LEMMA SmallBounds ==
  ASSUME NEW l \in Int, NEW h \in Int, 1 - B <= l, l <= B - 1, 1 - B <= h, h <= B - 1
  PROVE  [lo |-> l, hi |-> h] \in Safe
<1>1. Limit \in Nat /\ 2 * B - 1 <= Limit /\ B \in Nat
  BY LimitIs
<1>2. l \in -Limit .. Limit /\ h \in -Limit .. Limit /\ h - l <= Limit
  BY <1>1
<1> QED BY <1>2 DEF Safe

LEMMA TotalSigned ==
  ASSUME NEW n \in Nat, NEW f, NEW h, NEW s \in {1, -1},
         Terms(n, f), \A k \in 1 .. n : h[k] = s * f[k]
  PROVE  \E t \in Int : t = Total(n, f) /\ Total(n, h) = s * t
<1>1. PICK t \in Int : t = Total(n, f)
  BY TotalInt
<1>2. s \in Int
  OBVIOUS
<1>3. Total(n, h) = s * Total(n, f)
  BY <1>2, TotalTimes
<1> QED BY <1>1, <1>3

\* The digits, with a sign, of a number of n bits
LEMMA SignedDigits ==
  ASSUME NEW n \in Nat, NEW mag \in Nat, mag < 2 ^ n, NEW neg \in BOOLEAN,
         NEW x, x = IF neg THEN -mag ELSE mag, NEW l, l = CeilDiv(n, W),
         NEW limbs, limbs = WithSign(neg, Digits(mag, n))
  PROVE  /\ l \in Nat /\ limbs \in [1 .. l -> Residues] /\ x \in Int /\ Abs(x) = mag
         /\ mag < Weight(l + 1)
         /\ \A k \in 1 .. l : Signed(limbs[k]) = SignedDigit(x, k)
         /\ Compose(limbs) = x
<1>0. x + mag = 0 \/ x = mag
  OBVIOUS
<1>1. l \in Nat /\ x \in Int
  BY LimbsFor
<1>2. Abs(x) = mag
  BY DEF Abs
<1>3. mag < Weight(l + 1)
  <2>1. n <= W * l
    <3>1. /\ n \div W \in Nat /\ n % W \in 0 .. W - 1 /\ n = W * (n \div W) + (n % W)
          /\ l = (IF n % W = 0 THEN n \div W ELSE n \div W + 1)
      BY LimbsFor
    <3>2. PICK q \in Nat, r \in 0 .. W - 1 : q = n \div W /\ r = n % W
      BY <3>1
    <3>3. W \in Nat /\ n = W * q + r /\ l = (IF r = 0 THEN q ELSE q + 1)
      BY <3>1, <3>2, BaseType
    <3>4. W * (q + 1) = W * q + W
      BY <3>3, SMT
    <3> QED BY <3>2, <3>3, <3>4
  <2>2. W * l \in Nat
    <3>1. W \in Nat
      BY BaseType
    <3> QED BY <1>1, <3>1, SMT
  <2>3. 2 ^ n <= 2 ^ (W * l) /\ 2 ^ n \in Nat /\ 2 ^ (W * l) \in Nat
    BY <2>1, <2>2, PowerOrder
  <2>4. Weight(l + 1) = 2 ^ (W * l)
    <3>1. (l + 1) - 1 = l
      BY <1>1
    <3> QED BY <3>1 DEF Weight
  <2> QED BY <2>3, <2>4
<1>4. limbs = [k \in 1 .. l |-> Field(IF neg THEN -Digit(mag, k) ELSE Digit(mag, k))]
  <2>1. Digits(mag, n) = [k \in 1 .. l |-> Digit(mag, k)]
    BY DEF Digits, Digit
  <2> QED BY <2>1 DEF WithSign
<1>5. ASSUME NEW k \in 1 .. l
      PROVE  limbs[k] \in Residues /\ Signed(limbs[k]) = SignedDigit(x, k)
  <2>1. k \in Nat /\ k >= 1
    OBVIOUS
  <2>2. /\ SignedDigit(x, k) \in Int /\ Digit(mag, k) \in 0 .. B - 1
        /\ 1 - B <= SignedDigit(x, k) /\ SignedDigit(x, k) <= B - 1
        /\ x >= 0 => SignedDigit(x, k) >= 0
        /\ x <= 0 => SignedDigit(x, k) <= 0
    BY <1>1, <1>2, <2>1, SignedDigitType
  <2>3. PICK d \in 0 .. B - 1, s \in Int : d = Digit(mag, k) /\ s = SignedDigit(x, k)
    BY <2>2
  <2>4. s = (IF neg THEN -d ELSE d)
    <3>1. s = IF x < 0 THEN -d ELSE d
      BY <1>2, <2>3 DEF SignedDigit
    <3>2. CASE mag = 0
      <4>1. x = 0
        BY <1>0, <1>1, <3>2
      <4>2. s >= 0 /\ s <= 0
        BY <2>2, <2>3, <4>1
      <4> QED BY <3>1, <4>1, <4>2
    <3>3. CASE mag # 0
      <4>1. x < 0 <=> neg
        BY <3>3
      <4> QED BY <3>1, <4>1
    <3> QED BY <3>2, <3>3
  <2>5. -Limit <= s /\ s <= Limit
    BY <2>2, <2>3, LimitIs
  <2>6. limbs[k] = Field(s)
    BY <1>4, <2>3, <2>4
  <2> QED BY <2>3, <2>5, <2>6, SignedSmall
<1>6. limbs \in [1 .. l -> Residues]
  <2>1. DOMAIN limbs = 1 .. l /\ limbs = [k \in 1 .. l |-> limbs[k]]
    BY <1>4
  <2> QED BY <1>5, <2>1
<1> DEFINE f == [k \in 1 .. l |-> SignedDigit(x, k) * Weight(k)]
           g == [k \in 1 .. l |-> Digit(mag, k) * Weight(k)]
<1>7. (\A k \in 1 .. l : f[k] = SignedDigit(x, k) * Weight(k)) /\ \A k \in 1 .. l : g[k] = Digit(mag, k) * Weight(k)
  OBVIOUS
<1> HIDE DEF f, g
<1>8. Terms(l, g) /\ Total(l, g) = mag
  <2>1. Terms(l, g) /\ Total(l, g) = mag % Weight(l + 1)
    BY <1>1, <1>7, DigitsMakeUp
  <2>2. PICK w \in Nat : w = Weight(l + 1) /\ w > 0
    <3>1. l + 1 \in Nat /\ l + 1 >= 1
      BY <1>1
    <3>2. Weight(l + 1) \in Nat /\ Weight(l + 1) >= 1
      BY <3>1, Weights
    <3> QED BY <3>2
  <2>3. mag \in 0 .. w - 1
    BY <1>3, <2>2
  <2> QED BY <2>1, <2>2, <2>3, SmallResidue
<1>9. Total(l, f) = x
  <2>1. PICK s \in {1, -1} : x = s * mag /\ \A k \in 1 .. l : SignedDigit(x, k) = s * Digit(mag, k)
    <3>1. \A k \in 1 .. l : Digit(mag, k) \in Int
      <4> TAKE k \in 1 .. l
      <4>1. k \in Nat /\ k >= 1
        OBVIOUS
      <4>2. Digit(mag, k) \in 0 .. B - 1 /\ B \in Nat
        BY <4>1, DigitType, LimitIs
      <4> QED BY <4>2
    <3>2. CASE x < 0
      <4>1. x = (-1) * mag
        BY <1>1, <3>2
      <4>2. \A k \in 1 .. l : SignedDigit(x, k) = (-1) * Digit(mag, k)
        BY <1>2, <3>1, <3>2 DEF SignedDigit
      <4> QED BY <4>1, <4>2
    <3>3. CASE ~(x < 0)
      <4>1. x = 1 * mag
        BY <1>1, <3>3
      <4>2. \A k \in 1 .. l : SignedDigit(x, k) = 1 * Digit(mag, k)
        BY <1>2, <3>1, <3>3 DEF SignedDigit
      <4> QED BY <4>1, <4>2
    <3> QED BY <3>2, <3>3
  <2>2. \A k \in 1 .. l : f[k] = s * g[k]
    <3> TAKE k \in 1 .. l
    <3>1. k \in Nat /\ k >= 1
      OBVIOUS
    <3>2. PICK a \in Int, w \in Int : a = Digit(mag, k) /\ w = Weight(k)
      <4>1. Digit(mag, k) \in 0 .. B - 1 /\ B \in Nat /\ Weight(k) \in Nat
        BY <3>1, DigitType, LimitIs, Weights
      <4>2. Digit(mag, k) \in Int /\ Weight(k) \in Int
        BY <4>1
      <4> QED BY <4>2
    <3>3. (s * a) * w = s * (a * w)
      BY SMT
    <3> QED BY <1>7, <2>1, <3>2, <3>3
  <2>3. PICK t \in Int : t = Total(l, g) /\ Total(l, f) = s * t
    BY <1>1, <1>8, <2>2, TotalSigned
  <2> QED BY <1>8, <2>1, <2>3
<1>10. Compose(limbs) = Total(l, f)
  <2>1. \A k \in 1 .. l : f[k] = Signed(limbs[k]) * Weight(k)
    BY <1>5, <1>7
  <2> QED BY <1>1, <1>6, <2>1, ComposeIs
<1> QED BY <1>1, <1>2, <1>3, <1>5, <1>6, <1>9, <1>10

SameUpTo(t, s, n) == \A k \in 1 .. n : t[k] = s[k]

LEMMA AppendedIs ==
  ASSUME NEW q \in Nat, NEW S, NEW s \in [1 .. q -> S], NEW e \in S,
         NEW t, t = s \o <<e>>
  PROVE  t \in [1 .. q + 1 -> S] /\ t[q + 1] = e /\ SameUpTo(t, s, q)
<1>1. s \in Seq(S) /\ Len(s) = q /\ <<e>> \in Seq(S) /\ Len(<<e>>) = 1 /\ <<e>>[1] = e
  BY VectorIs
<1>2. t \in Seq(S) /\ Len(t) = q + 1
  BY <1>1
<1>3. t[q + 1] = e /\ \A k \in 1 .. q : t[k] = s[k]
  BY <1>1
<1>4. t \in [1 .. Len(t) -> S]
  BY ONLY <1>2
<1> QED BY <1>2, <1>3, <1>4 DEF SameUpTo

LEMMA NothingAppended ==
  ASSUME NEW q \in Nat, NEW S, NEW s \in [1 .. q -> S]
  PROVE  s \o <<>> = s
<1>1. s \in Seq(S) /\ Len(s) = q
  BY VectorIs
<1> QED BY <1>1

LEMMA Cancel ==
  ASSUME NEW d \in Nat, d > 0, NEW a \in Int, NEW b \in Int
  PROVE  /\ a * d <= b * d => a <= b
         /\ a * d < b * d => a < b
<1>1. a > b => a * d > b * d
  <2>1. ASSUME a > b PROVE a * d > b * d
    <3>1. PICK e \in Nat : a = b + e /\ e >= 1
      <4>1. a - b \in Nat /\ a = b + (a - b) /\ a - b >= 1
        BY <2>1
      <4> QED BY <4>1
    <3>2. e * d >= d
      BY <3>1, SMT
    <3>3. (b + e) * d = b * d + e * d
      BY SMT
    <3>4. PICK x \in Int, y \in Int : x = b * d /\ y = e * d
      <4>1. b * d \in Int /\ e * d \in Int
        BY Multiplied
      <4> QED BY <4>1
    <3> QED BY <3>1, <3>2, <3>3, <3>4
  <2> QED BY <2>1
<1>2. PICK x \in Int, y \in Int : x = a * d /\ y = b * d
  <2>1. a * d \in Int /\ b * d \in Int
    BY Multiplied
  <2> QED BY <2>1
<1>3. a = b => x = y
  BY <1>2
<1> QED BY <1>1, <1>2, <1>3

\* Rounding down
LEMMA Floor ==
  ASSUME NEW d \in Nat, d > 0, NEW x \in Int
  PROVE  /\ x \div d \in Int
         /\ \A k \in Int : k * d <= x <=> k <= x \div d
<1>1. x % d \in 0 .. d - 1 /\ x \div d \in Int /\ x = d * (x \div d) + (x % d)
  BY Remainder
<1>2. PICK q \in Int, r \in 0 .. d - 1 : q = x \div d /\ x = d * q + r
  BY <1>1
<1>3. ASSUME NEW k \in Int PROVE k * d <= x <=> k <= q
  <2>0. PICK u \in Int, v \in Int : u = k * d /\ v = d * q /\ v = q * d
    <3>1. k * d \in Int /\ d * q \in Int
      BY Multiplied
    <3>2. d * q = q * d
      BY SMT
    <3> QED BY <3>1, <3>2
  <2>1. ASSUME k <= q PROVE u <= v
    <3>1. k * d <= q * d
      BY <2>1, Scaling
    <3> QED BY <2>0, <3>1
  <2>2. ASSUME k > q PROVE u >= v + d
    <3>1. q + 1 <= k /\ q + 1 \in Int
      BY <2>2
    <3>2. (q + 1) * d <= k * d
      BY <3>1, Scaling
    <3>3. (q + 1) * d = q * d + d
      BY SMT
    <3> QED BY <2>0, <3>2, <3>3
  <2> QED BY <1>2, <2>0, <2>1, <2>2
<1> QED BY <1>2, <1>3

LEMMA FloorOrder ==
  ASSUME NEW d \in Nat, d > 0, NEW x \in Int, NEW y \in Int, x <= y
  PROVE  x \div d <= y \div d
<1>1. PICK q \in Int : q = x \div d /\ q * d <= x
  <2>1. x \div d \in Int
    BY Floor
  <2>2. (x \div d) * d <= x
    <3>1. x \div d <= x \div d
      BY <2>1
    <3> QED BY <2>1, <3>1, Floor
  <2> QED BY <2>1, <2>2
<1>2. q * d \in Int
  BY Multiplied
<1>3. q * d <= y
  BY <1>1, <1>2
<1> QED BY <1>1, <1>3, Floor

\* The bits of bounds
BitsOf(lb, ub) == Max({Bits(lb), Bits(ub)})

LEMMA BitsOfAre ==
  ASSUME NEW lb \in Int, NEW ub \in Int
  PROVE  /\ BitsOf(lb, ub) \in Nat /\ Abs(lb) < 2 ^ BitsOf(lb, ub) /\ Abs(ub) < 2 ^ BitsOf(lb, ub)
         /\ 2 ^ BitsOf(lb, ub) \in Nat
<1>1. PICK a \in Nat, b \in Nat : a = Bits(lb) /\ b = Bits(ub)
  BY BitsAre
<1>2. PICK n \in Nat : n = BitsOf(lb, ub) /\ a <= n /\ b <= n
  <2>1. Max({a, b}) \in {a, b} /\ Max({a, b}) >= a /\ Max({a, b}) >= b
    BY MaxOfTwo
  <2>2. Max({a, b}) \in Nat
    BY <2>1
  <2> QED BY <1>1, <2>1, <2>2 DEF BitsOf
<1>3. 2 ^ a <= 2 ^ n /\ 2 ^ b <= 2 ^ n /\ 2 ^ a \in Nat /\ 2 ^ b \in Nat /\ 2 ^ n \in Nat
  BY <1>2, PowerOrder
<1>4. Abs(lb) < 2 ^ a /\ Abs(ub) < 2 ^ b /\ Abs(lb) \in Nat /\ Abs(ub) \in Nat
  BY <1>1, BitsAre, AbsType
<1>5. PICK p \in Nat, q \in Nat, r \in Nat : p = 2 ^ a /\ q = 2 ^ b /\ r = 2 ^ n
  BY <1>3
<1>6. Abs(lb) < r /\ Abs(ub) < r
  BY <1>3, <1>4, <1>5
<1> QED BY <1>2, <1>3, <1>5, <1>6

\* A part of a limb: n bits, of which r are in the last limb, that counts d
LEMMA LastLimb ==
  ASSUME NEW n \in Nat, n % W # 0, NEW d, d = Weight(n \div W + 1)
  PROVE  \E e \in Nat : d \in Nat /\ d > 0 /\ 2 ^ n = e * d /\ e <= B - 1
<1>1. PICK q \in Nat, r \in 0 .. W - 1 :
        q = n \div W /\ r = n % W /\ n = W * q + r /\ r # 0 /\ W \in Nat /\ W > 0
  BY LimbsFor, BaseType
<1>2. PICK s \in Nat : s = W * q
  <2>1. W * q \in Nat
    BY <1>1, SMT
  <2> QED BY <2>1
<1>3. d = 2 ^ s
  <2>1. (q + 1) - 1 = q
    OBVIOUS
  <2> QED BY <1>1, <1>2, <2>1 DEF Weight
<1>4. r \in Nat /\ 2 ^ (s + r) = (2 ^ s) * (2 ^ r)
  BY <1>1, PowerAdds
<1>5. 2 ^ s \in Nat /\ 2 ^ s >= 1 /\ 2 ^ r \in Nat
  <2>1. s <= s /\ r <= r
    BY <1>4
  <2> QED BY <1>4, <2>1, PowerOrder
<1>6. 2 ^ r <= B - 1
  <2>1. W - 1 \in Nat /\ r <= W - 1 /\ (W - 1) + 1 = W
    BY <1>1
  <2>2. 2 ^ r <= 2 ^ (W - 1) /\ 2 ^ (W - 1) \in Nat /\ 2 ^ (W - 1) >= 1
    <3>1. r \in Nat
      BY <1>4
    <3> QED BY <2>1, <3>1, PowerOrder
  <2>3. 2 ^ W = 2 * 2 ^ (W - 1)
    <3>1. 2 ^ ((W - 1) + 1) = 2 * 2 ^ (W - 1)
      BY <2>1, PowerDoubles
    <3> QED BY <2>1, <3>1
  <2>4. PICK x \in Nat, y \in Nat : x = 2 ^ r /\ y = 2 ^ (W - 1) /\ B = 2 * y
    BY <1>5, <2>2, <2>3, BaseType
  <2> QED BY <2>2, <2>4
<1>7. PICK x \in Nat, y \in Nat : x = 2 ^ s /\ y = 2 ^ r
  BY <1>5
<1>8. 2 ^ n = y * x
  <2>1. n = s + r
    BY <1>1, <1>2
  <2>2. x * y = y * x
    BY SMT
  <2> QED BY <1>4, <1>7, <2>1, <2>2
<1>9. y \in Nat /\ d \in Nat /\ d > 0 /\ 2 ^ n = y * d /\ y <= B - 1
  BY <1>3, <1>5, <1>6, <1>7, <1>8
<1> QED BY <1>9

\* Bounds that a limb of W bits, with a sign, does not exceed
Small(b) == 1 - B <= b.lo /\ b.lo <= B - 1 /\ 1 - B <= b.hi /\ b.hi <= B - 1

FullLimb(lb, ub) ==
  [lo |-> IF lb < 0 THEN 1 - B ELSE 0, hi |-> IF ub > 0 THEN B - 1 ELSE 0]
PartLimb(lb, ub, d) == [lo |-> lb \div d, hi |-> CeilDiv(ub, d)]

\* Within the last limb, an integer is divided by what the limb counts.
LEMMA PartLimbIs ==
  ASSUME NEW lb \in Int, NEW ub \in Int, NEW d \in Nat, d > 0, NEW e \in Nat, e <= B - 1,
         NEW u \in Nat, u = e * d, Abs(lb) < u, Abs(ub) < u
  PROVE  /\ PartLimb(lb, ub, d) \in Safe
         /\ Small(PartLimb(lb, ub, d))
         /\ \A x \in Int : lb <= x /\ x <= ub =>
              /\ Abs(x) \div d < B /\ Abs(x) \div d \in Nat
              /\ Between(IF x < 0 THEN -(Abs(x) \div d) ELSE Abs(x) \div d, PartLimb(lb, ub, d))
<1>1. /\ -u < lb /\ lb < u /\ -u < ub /\ ub < u
  BY DEF Abs
<1>2. B \in Nat /\ e \in Int /\ u \in Int /\ d \in Nat
  BY LimitIs
<1>3. ASSUME NEW x \in Int, -u < x, x < u PROVE x \div d \in Int /\ -e <= x \div d /\ x \div d < e
  <2>1. x \div d \in Int /\ \A k \in Int : k * d <= x <=> k <= x \div d
    BY Floor
  <2>2. (-e) * d <= x
    <3>1. (-e) * d = -(e * d)
      BY SMT
    <3> QED BY <1>3, <3>1
  <2>3. ~(e * d <= x)
    BY <1>3
  <2>4. -e \in Int
    BY <1>2
  <2>5. -e <= x \div d
    BY <2>1, <2>2, <2>4
  <2>6. ~(e <= x \div d)
    BY <1>2, <2>1, <2>3
  <2> QED BY <1>2, <2>1, <2>5, <2>6
<1>4. PICK l \in Int, h \in Int : l = lb \div d /\ h = (-ub) \div d /\ -e <= l /\ l < e /\ -e <= h /\ h < e
  <2>1. -ub \in Int /\ -u < -ub /\ -ub < u
    BY <1>1
  <2> QED BY <1>1, <1>3, <2>1
<1>5. PartLimb(lb, ub, d) = [lo |-> l, hi |-> -h]
  BY <1>4 DEF PartLimb, CeilDiv
<1>6. PartLimb(lb, ub, d) \in Safe /\ Small(PartLimb(lb, ub, d))
  <2>1. 1 - B <= l /\ l <= B - 1 /\ 1 - B <= -h /\ -h <= B - 1 /\ -h \in Int
    BY <1>2, <1>4
  <2> QED BY <1>5, <2>1, SmallBounds DEF Small
<1>7. ASSUME NEW x \in Int, lb <= x, x <= ub
      PROVE  /\ Abs(x) \div d < B /\ Abs(x) \div d \in Nat
             /\ Between(IF x < 0 THEN -(Abs(x) \div d) ELSE Abs(x) \div d, [lo |-> l, hi |-> -h])
  <2>1. -u < x /\ x < u /\ -u < -x /\ -x < u /\ -x \in Int /\ -ub <= -x
    BY <1>1, <1>7
  <2>2. PICK q \in Int, p \in Int : q = x \div d /\ p = (-x) \div d /\ l <= q /\ h <= p /\ q < e /\ p < e
    <3>1. x \div d \in Int /\ (-x) \div d \in Int /\ x \div d < e /\ (-x) \div d < e
      BY <1>3, <2>1
    <3>2. lb \div d <= x \div d
      BY <1>7, FloorOrder
    <3>3. (-ub) \div d <= (-x) \div d
      <4>1. -ub \in Int
        OBVIOUS
      <4> QED BY <2>1, <4>1, FloorOrder
    <3> QED BY <1>4, <3>1, <3>2, <3>3
  <2>3. q + p <= 0
    <3>1. q * d <= x
      <4>1. q <= x \div d
        BY <2>2
      <4> QED BY <4>1, Floor
    <3>2. p * d <= -x
      <4>1. p <= (-x) \div d
        BY <2>2
      <4> QED BY <2>1, <4>1, Floor
    <3>3. (q + p) * d <= 0 * d
      <4>1. (q + p) * d = q * d + p * d /\ 0 * d = 0
        BY SMT
      <4>2. PICK y \in Int, z \in Int : y = q * d /\ z = p * d
        <5>1. q * d \in Int /\ p * d \in Int
          BY Multiplied
        <5> QED BY <5>1
      <4>3. y + z <= 0
        BY <3>1, <3>2, <4>2
      <4> QED BY <4>1, <4>2, <4>3
    <3>4. q + p \in Int /\ 0 \in Int
      OBVIOUS
    <3> QED BY <3>3, <3>4, Cancel
  <2>4. CASE x < 0
    <3>1. Abs(x) = -x
      BY <2>4 DEF Abs
    <3>2. 0 <= p
      <4>1. 0 * d <= -x
        BY <2>4
      <4>2. 0 \in Int
        OBVIOUS
      <4> QED BY <2>1, <2>2, <4>1, <4>2, Floor
    <3>3. p < B /\ p \in Nat /\ l <= -p /\ -p <= -h
      BY <1>2, <2>2, <2>3, <3>2
    <3> QED BY <2>2, <2>4, <3>1, <3>3 DEF Between
  <2>5. CASE ~(x < 0)
    <3>1. Abs(x) = x
      BY <2>5 DEF Abs
    <3>2. 0 <= q
      <4>1. 0 * d <= x
        BY <2>5
      <4>2. 0 \in Int
        OBVIOUS
      <4> QED BY <2>2, <4>1, <4>2, Floor
    <3>3. q < B /\ q \in Nat /\ l <= q /\ q <= -h
      BY <1>2, <2>2, <2>3, <3>2
    <3> QED BY <2>2, <2>5, <3>1, <3>3 DEF Between
  <2> QED BY <2>4, <2>5
<1> QED BY <1>5, <1>6, <1>7

SmallLimbs(b, l) == \A k \in 1 .. l : Small(b[k])
DigitsWithin(x, b, l) == \A k \in 1 .. l : Between(SignedDigit(x, k), b[k])

\* The bounds of the limbs of an integer that is allocated within bounds
LEMMA ComputedBounds ==
  ASSUME NEW lb \in Int, NEW ub \in Int, NEW n, n = BitsOf(lb, ub), NEW l, l = CeilDiv(n, W),
         NEW b, b = ComputeBounds(lb, ub)
  PROVE  /\ n \in Nat /\ l \in Nat /\ b \in [1 .. l -> Safe]
         /\ SmallLimbs(b, l)
         /\ \A x \in Int : lb <= x /\ x <= ub => DigitsWithin(x, b, l)
<1>1. /\ n \in Nat /\ Abs(lb) < 2 ^ n /\ Abs(ub) < 2 ^ n /\ 2 ^ n \in Nat
  BY BitsOfAre
<1>2. PICK q \in Nat : q = n \div W /\ l \in Nat /\ l = (IF n % W = 0 THEN q ELSE q + 1)
  BY <1>1, LimbsFor
<1> DEFINE d == Weight(q + 1)
           full == FullLimb(lb, ub)
           part == PartLimb(lb, ub, d)
           front == [k \in 1 .. q |-> full]
<1>3. b = front \o (IF n % W = 0 THEN <<>> ELSE <<part>>)
  BY <1>2 DEF ComputeBounds, BitsOf, FullLimb, PartLimb
<1>4. full \in Safe /\ Small(full)
  <2>1. B \in Nat /\ B > 1
    BY BaseType
  <2>2. PICK x \in Int, y \in Int : /\ full = [lo |-> x, hi |-> y]
                                   /\ 1 - B <= x /\ x <= B - 1 /\ 1 - B <= y /\ y <= B - 1
    BY <2>1 DEF FullLimb
  <2> QED BY <2>2, SmallBounds DEF Small
<1>5. ASSUME NEW x \in Int, lb <= x, x <= ub, NEW k \in Nat, k >= 1
      PROVE  Between(SignedDigit(x, k), full)
  <2>1. /\ SignedDigit(x, k) \in Int
        /\ 1 - B <= SignedDigit(x, k) /\ SignedDigit(x, k) <= B - 1
        /\ x >= 0 => SignedDigit(x, k) >= 0
        /\ x <= 0 => SignedDigit(x, k) <= 0
    BY <1>5, SignedDigitType
  <2>2. full.lo = (IF lb < 0 THEN 1 - B ELSE 0) /\ full.hi = (IF ub > 0 THEN B - 1 ELSE 0)
    BY DEF FullLimb
  <2> QED BY <1>5, <2>1, <2>2 DEF Between
<1>6. front \in [1 .. q -> Safe] /\ \A k \in 1 .. q : front[k] = full
  BY <1>4
<1>7. CASE n % W = 0
  <2>1. b = front /\ l = q
    <3>1. front \o <<>> = front
      <4> HIDE DEF front
      <4> QED BY <1>6, NothingAppended
    <3> QED BY <1>2, <1>3, <1>7, <3>1
  <2>2. \A k \in 1 .. l : b[k] = full /\ k \in Nat /\ k >= 1
    BY <1>6, <2>1
  <2> HIDE DEF full, front
  <2>3. b \in [1 .. l -> Safe]
    BY <1>6, <2>1
  <2> QED BY <1>1, <1>2, <1>4, <1>5, <2>2, <2>3 DEF SmallLimbs, DigitsWithin
<1>8. CASE n % W # 0
  <2>1. PICK e \in Nat : d \in Nat /\ d > 0 /\ 2 ^ n = e * d /\ e <= B - 1
    BY <1>1, <1>2, <1>8, LastLimb
  <2>2. PICK u \in Nat : u = 2 ^ n
    BY <1>1
  <2>3. /\ part \in Safe /\ Small(part)
        /\ \A x \in Int : lb <= x /\ x <= ub =>
             /\ Abs(x) \div d < B /\ Abs(x) \div d \in Nat
             /\ Between(IF x < 0 THEN -(Abs(x) \div d) ELSE Abs(x) \div d, part)
    <3>1. u = e * d /\ Abs(lb) < u /\ Abs(ub) < u
      BY <1>1, <2>1, <2>2
    <3> HIDE DEF d
    <3> QED BY <2>1, <3>1, PartLimbIs
  <2>4. /\ l = q + 1 /\ b \in [1 .. l -> Safe] /\ b[l] = part
        /\ \A k \in 1 .. q : b[k] = full
    <3>1. l = q + 1 /\ b = front \o <<part>>
      BY <1>2, <1>3, <1>8
    <3> HIDE DEF front, part, full
    <3>2. PICK s \in [1 .. q -> Safe], e1 \in Safe : s = front /\ e1 = part
      BY <1>6, <2>3
    <3>3. b = s \o <<e1>>
      BY <3>1, <3>2
    <3>4. b \in [1 .. q + 1 -> Safe] /\ b[q + 1] = e1 /\ SameUpTo(b, s, q)
      BY <3>3, AppendedIs
    <3> QED BY <1>6, <3>1, <3>2, <3>4 DEF SameUpTo
  <2>6. ASSUME NEW x \in Int, lb <= x, x <= ub PROVE Between(SignedDigit(x, l), part)
    <3>1. PICK c \in Nat : c = Abs(x) \div d /\ c < B
      BY <2>3, <2>6
    <3>2. c % B = c
      <4>1. c \in 0 .. B - 1 /\ B \in Nat /\ B > 0
        BY <3>1, BaseType
      <4> QED BY <4>1, SmallResidue
    <3>3. Digit(Abs(x), l) = c
      BY <2>4, <3>1, <3>2 DEF Digit
    <3>4. SignedDigit(x, l) = IF x < 0 THEN -(Abs(x) \div d) ELSE Abs(x) \div d
      BY <3>1, <3>3 DEF SignedDigit
    <3> QED BY <2>3, <2>6, <3>4
  <2> HIDE DEF part, full, front, d
  <2>7. \A k \in 1 .. l : (k = l /\ b[k] = part) \/ (k \in Nat /\ k >= 1 /\ b[k] = full)
    BY <2>4
  <2> QED BY <1>1, <1>2, <1>4, <1>5, <2>3, <2>4, <2>6, <2>7 DEF SmallLimbs, DigitsWithin
<1> QED BY <1>7, <1>8

\* A variable that is aligned, whether or not its limbs keep to their bounds
Regular(v) ==
  /\ v \in VariableSet /\ Len(v.bounds) = Len(v.limbs)
  /\ Compose(v.limbs) = v.int /\ Cut(v)
  /\ SmallLimbs(v.bounds, Len(v.limbs))

AlignedRecord(v, limbs, b, x, const) ==
  v = [limbs |-> limbs, bounds |-> b, int |-> x, aligned |-> TRUE, const |-> const]

\* Regular variables of digits
LEMMA RegularDigits ==
  ASSUME NEW n \in Nat, NEW mag \in Nat, mag < 2 ^ n, NEW neg \in BOOLEAN,
         NEW x, x = IF neg THEN -mag ELSE mag, NEW l, l = CeilDiv(n, W),
         NEW limbs, limbs = WithSign(neg, Digits(mag, n)),
         NEW b \in [1 .. l -> Safe], SmallLimbs(b, l),
         NEW const \in BOOLEAN, NEW v, AlignedRecord(v, limbs, b, x, const)
  PROVE  /\ Regular(v) /\ Len(v.limbs) = l
         /\ DigitsWithin(x, b, l) => Exact(v)
<1>0. v.limbs = limbs /\ v.bounds = b /\ v.int = x
  BY DEF AlignedRecord
<1>1. /\ l \in Nat /\ limbs \in [1 .. l -> Residues] /\ x \in Int /\ Abs(x) = mag
      /\ mag < Weight(l + 1)
      /\ \A k \in 1 .. l : Signed(limbs[k]) = SignedDigit(x, k)
      /\ Compose(limbs) = x
  BY SignedDigits
<1>2. limbs \in Seq(Residues) /\ Len(limbs) = l /\ b \in Seq(Safe) /\ Len(b) = l
  BY <1>1, VectorIs
<1>3. v \in VariableSet
  BY <1>0, <1>1, <1>2 DEF VariableSet, AlignedRecord
<1>4. Cut(v)
  BY <1>0, <1>1, <1>2 DEF Cut
<1>5. Regular(v) /\ Len(v.limbs) = l
  BY <1>0, <1>1, <1>2, <1>3, <1>4 DEF Regular
<1>6. ASSUME DigitsWithin(x, b, l) PROVE Exact(v)
  <2>1. \A k \in 1 .. l : Between(Signed(v.limbs[k]), v.bounds[k])
    BY <1>0, <1>1, <1>6 DEF DigitsWithin
  <2> QED BY <1>0, <1>1, <1>2, <1>3, <2>1 DEF Exact
<1> QED BY <1>5, <1>6

LEMMA HintFacts ==
  ASSUME NEW b \in Bounds, NEW h \in Hints(b)
  PROVE  /\ h.neg \in BOOLEAN /\ h.magnitude \in Nat /\ h.magnitude < 2 ^ BitsOf(b.lo, b.hi)
         /\ HintInt(h) \in Int /\ b.lo \in Int /\ b.hi \in Int
<1>1. b.lo \in Int /\ b.hi \in Int
  BY DEF Bounds
<1>2. BitsOf(b.lo, b.hi) \in Nat /\ 2 ^ BitsOf(b.lo, b.hi) \in Nat
  BY <1>1, BitsOfAre
<1>3. /\ h.neg \in IF b.lo >= 0 THEN {FALSE} ELSE IF b.hi <= 0 THEN {TRUE} ELSE BOOLEAN
      /\ h.magnitude \in 0 .. 2 ^ BitsOf(b.lo, b.hi) - 1
  BY DEF Hints, BitsOf
<1>4. PICK u \in Nat : u = 2 ^ BitsOf(b.lo, b.hi)
  BY <1>2
<1>5. h.magnitude \in Nat /\ h.magnitude < u
  BY <1>3, <1>4
<1>6. h.neg \in BOOLEAN
  BY <1>3
<1>7. -h.magnitude \in Int /\ h.magnitude \in Int
  BY <1>5
<1>8. HintInt(h) \in Int
  BY <1>7 DEF HintInt
<1> QED BY <1>1, <1>4, <1>5, <1>6, <1>8

\* Variables that are allocated are regular, and exact if they are in range.
LEMMA AllocatedIs ==
  ASSUME NEW b \in Bounds, NEW h, h.neg \in BOOLEAN, h.magnitude \in Nat,
         h.magnitude < 2 ^ BitsOf(b.lo, b.hi)
  PROVE  /\ Regular(Allocated(b, h)) /\ Allocated(b, h).int = HintInt(h)
         /\ ~Allocated(b, h).const /\ Allocated(b, h).aligned
         /\ Between(HintInt(h), b) => Exact(Allocated(b, h))
<1> DEFINE n == BitsOf(b.lo, b.hi)
           limbs == WithSign(h.neg, Digits(h.magnitude, n))
           c == ComputeBounds(b.lo, b.hi)
           l == CeilDiv(n, W)
           x == HintInt(h)
           v == Allocated(b, h)
<1>1. b.lo \in Int /\ b.hi \in Int
  BY DEF Bounds
<1>2. v = [limbs |-> limbs, bounds |-> c, int |-> x, aligned |-> TRUE, const |-> FALSE]
  <2>1. v = Aligned(Variable(limbs, c, x, FALSE))
    BY DEF Allocated, BitsOf
  <2> HIDE DEF v, limbs, c, x
  <2> QED BY <2>1 DEF Aligned, Variable
<1>3. x = (IF h.neg THEN -h.magnitude ELSE h.magnitude) /\ x \in Int
  <2>1. -h.magnitude \in Int /\ h.magnitude \in Int
    OBVIOUS
  <2> QED BY <2>1 DEF HintInt
<1>4. /\ n \in Nat /\ l \in Nat /\ c \in [1 .. l -> Safe]
      /\ SmallLimbs(c, l)
      /\ b.lo <= x /\ x <= b.hi => DigitsWithin(x, c, l)
  BY <1>1, <1>3, ComputedBounds
<1>5. /\ v.limbs = limbs /\ v.bounds = c /\ v.int = x /\ ~v.const /\ v.aligned
  BY <1>2
<1> HIDE DEF n, limbs, c, l, x, v
<1>6. PICK neg \in BOOLEAN, mag \in Nat : neg = h.neg /\ mag = h.magnitude
  OBVIOUS
<1>7. mag < 2 ^ n /\ limbs = WithSign(neg, Digits(mag, n)) /\ x = (IF neg THEN -mag ELSE mag)
  BY <1>3, <1>6 DEF n, limbs
<1>8. l = CeilDiv(n, W)
  BY DEF l
<1>9. Regular(v) /\ (DigitsWithin(x, c, l) => Exact(v))
  <2>1. PICK const \in BOOLEAN : AlignedRecord(v, limbs, c, x, const)
    <3>1. AlignedRecord(v, limbs, c, x, FALSE) /\ FALSE \in BOOLEAN
      BY <1>2 DEF AlignedRecord
    <3> QED BY <3>1, Zenon
  <2> QED BY <1>4, <1>7, <1>8, <2>1, RegularDigits
<1> QED BY <1>4, <1>5, <1>9 DEF Between, x, v

LEMMA ConstantIs ==
  ASSUME NEW x \in Int
  PROVE  /\ Regular(Constant(x)) /\ Exact(Constant(x)) /\ Constant(x).int = x
         /\ Constant(x).const /\ Constant(x).aligned /\ Len(Constant(x).limbs) >= 1
<1> DEFINE n == Max({1, Bits(x)})
           limbs == WithSign(x < 0, Digits(Abs(x), n))
           c == [k \in DOMAIN limbs |-> Exactly(Signed(limbs[k]))]
           l == CeilDiv(n, W)
           v == Constant(x)
<1>1. v = [limbs |-> limbs, bounds |-> c, int |-> x, aligned |-> TRUE, const |-> TRUE]
  BY DEF Constant
<1>2. Bits(x) \in Nat /\ Abs(x) < 2 ^ Bits(x) /\ Abs(x) \in Nat
  BY BitsAre, AbsType
<1>3. n \in Nat /\ n >= 1 /\ Abs(x) < 2 ^ n
  <2>1. PICK a \in Nat : a = Bits(x)
    BY <1>2
  <2>2. Max({1, a}) \in {1, a} /\ Max({1, a}) >= 1 /\ Max({1, a}) >= a
    BY MaxOfTwo
  <2>3. n \in Nat /\ n >= 1 /\ a <= n
    BY <2>1, <2>2
  <2> HIDE DEF n
  <2>4. 2 ^ a <= 2 ^ n /\ 2 ^ a \in Nat /\ 2 ^ n \in Nat
    BY <2>3, PowerOrder
  <2>5. PICK p \in Nat, q \in Nat : p = 2 ^ a /\ q = 2 ^ n
    BY <2>4
  <2>6. Abs(x) < p /\ p <= q
    BY <1>2, <2>1, <2>4, <2>5
  <2>7. Abs(x) < q
    BY <1>2, <2>6
  <2> QED BY <2>3, <2>5, <2>7
<1>4. v.limbs = limbs /\ v.bounds = c /\ v.int = x /\ v.const /\ v.aligned
  BY <1>1
<1> HIDE DEF n, v
<1>5. PICK neg \in BOOLEAN, mag \in Nat : neg = (x < 0) /\ mag = Abs(x)
  <2>1. (x < 0) \in BOOLEAN
    OBVIOUS
  <2> QED BY <1>2, <2>1
<1>6. x = IF neg THEN -mag ELSE mag
  <2>1. x = IF x < 0 THEN -Abs(x) ELSE Abs(x)
    BY DEF Abs
  <2> QED BY <1>5, <2>1, Zenon
<1>7. limbs = WithSign(neg, Digits(mag, n)) /\ l = CeilDiv(n, W) /\ mag < 2 ^ n
  BY <1>3, <1>5
<1> HIDE DEF limbs, l
<1>8. /\ l \in Nat /\ limbs \in [1 .. l -> Residues]
      /\ \A k \in 1 .. l : Signed(limbs[k]) = SignedDigit(x, k)
  BY <1>3, <1>6, <1>7, SignedDigits
<1>9. ASSUME NEW k \in 1 .. l
      PROVE  /\ c[k] \in Safe /\ Small(c[k]) /\ Between(SignedDigit(x, k), c[k])
  <2>1. PICK s \in Int : s = SignedDigit(x, k) /\ 1 - B <= s /\ s <= B - 1
    <3>1. k \in Nat /\ k >= 1
      OBVIOUS
    <3> QED BY <3>1, SignedDigitType
  <2>2. c[k] = [lo |-> s, hi |-> s]
    <3>1. DOMAIN limbs = 1 .. l
      BY <1>8
    <3> QED BY <1>8, <2>1, <3>1 DEF Exactly
  <2> QED BY <2>1, <2>2, SmallBounds DEF Between, Small
<1>10. c \in [1 .. l -> Safe]
  <2>1. DOMAIN limbs = 1 .. l
    BY <1>8
  <2>2. DOMAIN c = 1 .. l /\ c = [k \in 1 .. l |-> c[k]]
    BY <2>1
  <2> HIDE DEF c
  <2> QED BY <1>9, <2>2
<1>11. Regular(v) /\ Exact(v) /\ Len(v.limbs) = l
  <2> HIDE DEF c
  <2>1. /\ Regular(v) /\ Len(v.limbs) = l
        /\ DigitsWithin(x, c, l) => Exact(v)
    <3>1. PICK const \in BOOLEAN : AlignedRecord(v, limbs, c, x, const)
      <4>1. AlignedRecord(v, limbs, c, x, TRUE) /\ TRUE \in BOOLEAN
        BY <1>1 DEF AlignedRecord
      <4> QED BY <4>1, Zenon
    <3>2. SmallLimbs(c, l)
      BY <1>9 DEF SmallLimbs
    <3> QED BY <1>3, <1>6, <1>7, <1>10, <3>1, <3>2, RegularDigits
  <2> QED BY <1>9, <2>1 DEF DigitsWithin
<1>12. l >= 1
  BY <1>3, LimbsFor DEF l
<1> QED BY <1>4, <1>11, <1>12 DEF v

(***************************************************************************)
(* Comparisons                                                             *)
(***************************************************************************)
LEMMA WeightOrder ==
  ASSUME NEW i \in Nat, i >= 1, NEW k \in Nat, i <= k
  PROVE  Weight(i) <= Weight(k) /\ Weight(i) \in Nat /\ Weight(k) \in Nat /\ Weight(i) >= 1
<1>1. PICK a \in Nat, c \in Nat : a = W * (i - 1) /\ c = W * (k - 1) /\ a <= c
  <2>1. W \in Nat /\ i - 1 \in Nat /\ k - 1 \in Nat
    BY BaseType
  <2>2. PICK e \in Nat, z \in Nat : z = i - 1 /\ k - 1 = z + e
    <3>1. k - i \in Nat /\ k - 1 = (i - 1) + (k - i)
      OBVIOUS
    <3> QED BY <2>1, <3>1
  <2>3. W * z \in Nat /\ W * e \in Nat /\ W * (z + e) = W * z + W * e
    BY <2>1, SMT
  <2>4. PICK p \in Nat, q \in Nat : p = W * z /\ q = W * e /\ W * (z + e) = p + q
    BY <2>3
  <2>5. p \in Nat /\ p + q \in Nat /\ p <= p + q
    OBVIOUS
  <2> QED BY <2>2, <2>4, <2>5
<1>2. 2 ^ a <= 2 ^ c /\ 2 ^ a \in Nat /\ 2 ^ c \in Nat /\ 2 ^ a >= 1
  BY <1>1, PowerOrder
<1> QED BY <1>1, <1>2 DEF Weight

\* The digits of an integer make it up, with its sign.
LEMMA SignedDigitsMakeUp ==
  ASSUME NEW x \in Int, NEW n \in Nat, Abs(x) < Weight(n + 1),
         NEW f, \A k \in 1 .. n : f[k] = SignedDigit(x, k) * Weight(k)
  PROVE  Terms(n, f) /\ Total(n, f) = x
<1>1. PICK mag \in Nat : mag = Abs(x)
  BY AbsType
<1> DEFINE g == [k \in 1 .. n |-> Digit(mag, k) * Weight(k)]
<1>2. \A k \in 1 .. n : g[k] = Digit(mag, k) * Weight(k)
  OBVIOUS
<1> HIDE DEF g
<1>3. Terms(n, g) /\ Total(n, g) = mag
  <2>1. Terms(n, g) /\ Total(n, g) = mag % Weight(n + 1)
    BY <1>2, DigitsMakeUp
  <2>2. PICK w \in Nat : w = Weight(n + 1) /\ w > 0
    <3>1. n + 1 \in Nat /\ n + 1 >= 1
      OBVIOUS
    <3>2. Weight(n + 1) \in Nat /\ Weight(n + 1) >= 1
      BY <3>1, Weights
    <3> QED BY <3>2
  <2>3. mag \in 0 .. w - 1
    BY <1>1, <2>2
  <2> QED BY <2>1, <2>2, <2>3, SmallResidue
<1>4. PICK s \in {1, -1} : x = s * mag /\ \A k \in 1 .. n : SignedDigit(x, k) = s * Digit(mag, k)
  <2>1. \A k \in 1 .. n : Digit(mag, k) \in Int
    <3> TAKE k \in 1 .. n
    <3>1. k \in Nat /\ k >= 1
      OBVIOUS
    <3>2. Digit(mag, k) \in 0 .. B - 1 /\ B \in Nat
      BY <3>1, DigitType, LimitIs
    <3> QED BY <3>2
  <2>2. CASE x < 0
    <3>1. x = (-1) * mag
      BY <1>1, <2>2 DEF Abs
    <3>2. \A k \in 1 .. n : SignedDigit(x, k) = (-1) * Digit(mag, k)
      BY <1>1, <2>1, <2>2 DEF SignedDigit
    <3> QED BY <3>1, <3>2
  <2>3. CASE ~(x < 0)
    <3>1. x = 1 * mag
      BY <1>1, <2>3 DEF Abs
    <3>2. \A k \in 1 .. n : SignedDigit(x, k) = 1 * Digit(mag, k)
      BY <1>1, <2>1, <2>3 DEF SignedDigit
    <3> QED BY <3>1, <3>2
  <2> QED BY <2>2, <2>3
<1>5. \A k \in 1 .. n : f[k] = s * g[k] /\ f[k] \in Int
  <2> TAKE k \in 1 .. n
  <2>1. k \in Nat /\ k >= 1
    OBVIOUS
  <2>2. PICK a \in Int, w \in Int : a = Digit(mag, k) /\ w = Weight(k)
    <3>1. Digit(mag, k) \in 0 .. B - 1 /\ B \in Nat /\ Weight(k) \in Nat
      BY <2>1, DigitType, LimitIs, Weights
    <3>2. Digit(mag, k) \in Int /\ Weight(k) \in Int
      BY <3>1
    <3> QED BY <3>2
  <2>3. (s * a) * w = s * (a * w) /\ s * (a * w) \in Int
    BY SMT
  <2>4. f[k] = (s * a) * w /\ g[k] = a * w
    BY <1>2, <1>4, <2>2
  <2> QED BY <2>3, <2>4
<1>6. Terms(n, f)
  BY <1>5 DEF Terms
<1>7. PICK t \in Int : t = Total(n, g) /\ Total(n, f) = s * t
  <2>1. Terms(n, g)
    BY <1>3
  <2>2. \A k \in 1 .. n : f[k] = s * g[k]
    BY <1>5
  <2> QED BY <2>1, <2>2, TotalSigned
<1> QED BY <1>3, <1>4, <1>6, <1>7

\* Any digit beyond the last one is zero.
LEMMA NoDigit ==
  ASSUME NEW x \in Int, NEW k \in Nat, k >= 1, Abs(x) < Weight(k)
  PROVE  SignedDigit(x, k) = 0
<1>1. PICK m \in Nat, w \in Nat : m = Abs(x) /\ w = Weight(k) /\ w > 0 /\ m < w
  <2>1. Abs(x) \in Nat /\ Weight(k) \in Nat /\ Weight(k) >= 1
    BY AbsType, Weights
  <2> QED BY <2>1
<1>2. m \div w = 0
  <2>1. m = w * 0 + m /\ m \in 0 .. w - 1 /\ 0 \in Int
    BY <1>1
  <2> QED BY <1>1, <2>1, DivisionIs
<1>3. 0 % B = 0
  <2>1. B \in Nat /\ B > 0 /\ 0 \in 0 .. B - 1
    BY BaseType
  <2> QED BY <2>1, SmallResidue
<1>4. Digit(m, k) = 0
  BY <1>1, <1>2, <1>3 DEF Digit
<1>5. x + 0 = x /\ 0 - 0 = 0
  OBVIOUS
<1>6. \A z \in Int : z + z = 0 => z = 0
  OBVIOUS
<1>7. SignedDigit(x, k) \in Int /\ (x >= 0 => SignedDigit(x, k) >= 0) /\ (x <= 0 => SignedDigit(x, k) <= 0)
  BY SignedDigitType
<1>8. x < 0 => SignedDigit(x, k) + Digit(m, k) = 0
  <2>1. Digit(m, k) \in Int
    BY <1>4
  <2>2. ASSUME x < 0 PROVE SignedDigit(x, k) = -Digit(m, k)
    BY <1>1, <2>2 DEF SignedDigit
  <2> QED BY <2>1, <2>2
<1>9. ~(x < 0) => SignedDigit(x, k) = Digit(m, k)
  BY <1>1 DEF SignedDigit
<1> QED BY <1>4, <1>7, <1>8, <1>9

\* The limbs of a regular variable are the digits of its integer, the missing ones included.
LEMMA RegularLimb ==
  ASSUME NEW v, Regular(v), NEW k \in Nat, k >= 1
  PROVE  /\ v.int \in Int /\ SignedDigit(v.int, k) \in Int
         /\ LimbAt(v, k) = Field(SignedDigit(v.int, k)) /\ LimbAt(v, k) \in Residues
         /\ BoundAt(v, k) \in Bounds /\ Small(BoundAt(v, k))
<1>1. v \in VariableSet /\ Len(v.bounds) = Len(v.limbs) /\ Cut(v) /\ SmallLimbs(v.bounds, Len(v.limbs))
  BY DEF Regular
<1>2. PICK l \in Nat : l = Len(v.limbs) /\ DOMAIN v.limbs = 1 .. l /\ DOMAIN v.bounds = 1 .. l
  BY <1>1, VariableType
<1>3. v.int \in Int /\ SignedDigit(v.int, k) \in Int
  <2>1. v.int \in Int
    BY <1>1, VariableType
  <2> QED BY <2>1, SignedDigitType
<1>4. CASE k \in 1 .. l
  <2>1. v.limbs[k] \in Residues /\ v.bounds[k] \in Safe
    BY <1>1, <1>2, <1>4, VariableType
  <2>2. Signed(v.limbs[k]) = SignedDigit(v.int, k) /\ Small(v.bounds[k])
    BY <1>1, <1>2, <1>4 DEF Cut, SmallLimbs
  <2>3. LimbAt(v, k) = v.limbs[k] /\ BoundAt(v, k) = v.bounds[k]
    BY <1>2, <1>4 DEF LimbAt, BoundAt
  <2> QED BY <1>3, <2>1, <2>2, <2>3, SignedType, SafeFacts
<1>5. CASE k \notin 1 .. l
  <2>1. LimbAt(v, k) = 0 /\ BoundAt(v, k) = ZeroBounds
    BY <1>2, <1>5 DEF LimbAt, BoundAt
  <2>2. l + 1 <= k /\ l + 1 \in Nat /\ l + 1 >= 1
    BY <1>5
  <2>3. PICK a \in Nat, w \in Nat, u \in Nat :
          a = Abs(v.int) /\ w = Weight(l + 1) /\ u = Weight(k) /\ a < w /\ w <= u
    <3>1. Abs(v.int) < Weight(l + 1)
      BY <1>1, <1>2 DEF Cut
    <3>2. Abs(v.int) \in Nat
      BY <1>3, AbsType
    <3>3. Weight(l + 1) <= Weight(k) /\ Weight(l + 1) \in Nat /\ Weight(k) \in Nat
      BY <2>2, WeightOrder
    <3> QED BY <3>1, <3>2, <3>3
  <2>4. SignedDigit(v.int, k) = 0
    <3>1. Abs(v.int) < Weight(k)
      BY <2>3
    <3> QED BY <1>3, <3>1, NoDigit
  <2>5. ZeroBounds \in Bounds /\ Small(ZeroBounds)
    <3>1. B \in Nat /\ B > 1
      BY BaseType
    <3>2. ZeroBounds = [lo |-> 0, hi |-> 0]
      BY DEF ZeroBounds, Exactly
    <3> QED BY <3>1, <3>2, ZeroIsBounds DEF Small
  <2> QED BY <1>3, <2>1, <2>4, <2>5, FieldOfZero, ZeroSigned
<1> QED BY <1>4, <1>5

\* Of finitely many integers one is the greatest.
LEMMA Highest ==
  ASSUME NEW n \in Nat, n >= 1, NEW f, Terms(n, f)
  PROVE  \E j \in 1 .. n : \A k \in 1 .. n : f[k] <= f[j]
<1> DEFINE T == {m \in 0 .. n : m = 0 \/ \E j \in 1 .. m : \A k \in 1 .. m : f[k] <= f[j]}
<1>1. \A k \in 1 .. n : f[k] \in Int
  BY DEF Terms
<1>2. 0 \in T
  OBVIOUS
<1>3. ASSUME NEW m \in 1 .. n, m - 1 \in T
      PROVE  m \in T
  <2>1. CASE m = 1
    <3>1. 1 \in 1 .. m /\ f[1] \in Int /\ \A k \in 1 .. m : k = 1
      BY <1>1, <2>1
    <3>2. \A k \in 1 .. m : f[k] <= f[1]
      BY <3>1
    <3> QED BY <3>1, <3>2
  <2>2. CASE m # 1
    <3>1. PICK j \in 1 .. m - 1 : \A k \in 1 .. m - 1 : f[k] <= f[j]
      BY <1>3, <2>2
    <3>2. f[j] \in Int /\ f[m] \in Int /\ j \in 1 .. m /\ m \in 1 .. m
      BY <1>1
    <3>3. \A k \in 1 .. m : k = m \/ k \in 1 .. m - 1
      OBVIOUS
    <3>4. CASE f[m] <= f[j]
      <4>1. \A k \in 1 .. m : f[k] <= f[j]
        BY <3>1, <3>3, <3>4
      <4> QED BY <3>2, <4>1
    <3>5. CASE ~(f[m] <= f[j])
      <4>1. \A k \in 1 .. m : f[k] <= f[m]
        <5> TAKE k \in 1 .. m
        <5>1. f[k] \in Int
          BY <1>1
        <5>2. CASE k = m
          BY <3>2, <5>2
        <5>3. CASE k \in 1 .. m - 1
          <6>1. f[k] <= f[j]
            BY <3>1, <5>3
          <6> QED BY <3>2, <3>5, <5>1, <6>1
        <5> QED BY <3>3, <5>2, <5>3
      <4> QED BY <3>2, <4>1
    <3> QED BY <3>4, <3>5
  <2> QED BY <2>1, <2>2
<1>4. n \in 0 .. n /\ 0 .. n \subseteq T
  <2> HIDE DEF T
  <2> QED BY <1>2, <1>3, UpTo
<1>5. n \in T
  <2> HIDE DEF T
  <2> QED BY <1>4
<1> QED BY <1>5

\* The most that limbs below the next one can make up
LEMMA MostBelow ==
  ASSUME NEW n \in Nat, NEW f, \A k \in 1 .. n : f[k] = (1 - B) * Weight(k)
  PROVE  Terms(n, f) /\ Total(n, f) + Weight(n + 1) = 1
<1> DEFINE g == [k \in 0 .. n |-> 1 - Weight(k + 1)]
<1>1. \A k \in 0 .. n : Weight(k + 1) \in Nat
  <2> TAKE k \in 0 .. n
  <2>1. k + 1 \in Nat /\ k + 1 >= 1
    OBVIOUS
  <2> QED BY <2>1, Weights
<1>2. g \in [0 .. n -> Int] /\ g[0] = 0
  <2>1. Weight(0 + 1) = 1
    <3>1. 1 \in Nat /\ 1 >= 1 /\ 0 + 1 = 1
      OBVIOUS
    <3>2. Weight(1) = 1
      BY <3>1, Weights
    <3> QED BY <3>1, <3>2
  <2> QED BY <1>1, <2>1
<1>3. \A k \in 1 .. n : g[k] = g[k - 1] + f[k] /\ f[k] \in Int
  <2> TAKE k \in 1 .. n
  <2>1. k \in Nat /\ k >= 1 /\ k - 1 \in 0 .. n /\ k \in 0 .. n /\ (k - 1) + 1 = k
    OBVIOUS
  <2>2. PICK w \in Nat, b \in Nat : w = Weight(k) /\ b = B /\ Weight(k + 1) = w * b
    <3>1. Weight(k) \in Nat /\ Weight(k + 1) = Weight(k) * B /\ B \in Nat
      BY <2>1, Weights, BaseType
    <3> QED BY <3>1
  <2>3. g[k] = 1 - w * b /\ g[k - 1] = 1 - w
    BY <2>1, <2>2
  <2>4. f[k] = (1 - b) * w
    BY <2>2
  <2>5. (1 - b) * w = w - w * b /\ w * b \in Nat
    BY SMT
  <2>6. PICK q \in Nat : q = w * b
    BY <2>5
  <2> QED BY <2>3, <2>4, <2>5, <2>6
<1>4. SumsTo(g, n, f) /\ Terms(n, f)
  BY <1>2, <1>3 DEF SumsTo, Terms
<1>5. Total(n, f) = g[n]
  BY <1>4, TotalIs
<1>6. g[n] = 1 - Weight(n + 1) /\ Weight(n + 1) \in Nat
  BY <1>1
<1> QED BY <1>4, <1>5, <1>6

\* The digit of the difference, limb by limb
Apart(x, y, k) == SignedDigit(y, k) - SignedDigit(x, k)
SameAbove(x, y, j, n) == \A k \in j + 1 .. n : Apart(x, y, k) = 0

LEMMA ApartType ==
  ASSUME NEW x \in Int, NEW y \in Int, NEW k \in Nat, k >= 1
  PROVE  /\ Apart(x, y, k) \in Int /\ 2 - 2 * B <= Apart(x, y, k) /\ Apart(x, y, k) <= 2 * B - 2
         /\ Apart(y, x, k) + Apart(x, y, k) = 0 /\ B \in Nat
         /\ (x <= 0 /\ y <= 0) \/ (x >= 0 /\ y >= 0) => 1 - B <= Apart(x, y, k)
         /\ x >= 0 /\ y <= 0 => Apart(x, y, k) <= 0
<1>1. /\ SignedDigit(x, k) \in Int /\ 1 - B <= SignedDigit(x, k) /\ SignedDigit(x, k) <= B - 1
      /\ x >= 0 => SignedDigit(x, k) >= 0
      /\ x <= 0 => SignedDigit(x, k) <= 0
  BY SignedDigitType
<1>2. /\ SignedDigit(y, k) \in Int /\ 1 - B <= SignedDigit(y, k) /\ SignedDigit(y, k) <= B - 1
      /\ y >= 0 => SignedDigit(y, k) >= 0
      /\ y <= 0 => SignedDigit(y, k) <= 0
  BY SignedDigitType
<1>3. B \in Nat
  BY LimitIs
<1> QED BY <1>1, <1>2, <1>3 DEF Apart

\* The difference of two integers is made up of the differences of their digits.
LEMMA ApartMakesUp ==
  ASSUME NEW x \in Int, NEW y \in Int, NEW n \in Nat,
         Abs(x) < Weight(n + 1), Abs(y) < Weight(n + 1),
         NEW f, \A k \in 1 .. n : f[k] = Apart(x, y, k) * Weight(k)
  PROVE  Terms(n, f) /\ Total(n, f) = y - x
<1> DEFINE u == [k \in 1 .. n |-> SignedDigit(x, k) * Weight(k)]
           v == [k \in 1 .. n |-> SignedDigit(y, k) * Weight(k)]
<1>1. /\ \A k \in 1 .. n : u[k] = SignedDigit(x, k) * Weight(k)
      /\ \A k \in 1 .. n : v[k] = SignedDigit(y, k) * Weight(k)
  OBVIOUS
<1> HIDE DEF u, v
<1>2. Terms(n, u) /\ Total(n, u) = x
  BY <1>1, SignedDigitsMakeUp
<1>3. Terms(n, v) /\ Total(n, v) = y
  BY <1>1, SignedDigitsMakeUp
<1>4. \A k \in 1 .. n : f[k] = v[k] - u[k]
  <2> TAKE k \in 1 .. n
  <2>1. k \in Nat /\ k >= 1
    OBVIOUS
  <2>2. PICK a \in Int, b \in Int, w \in Int :
          a = SignedDigit(y, k) /\ b = SignedDigit(x, k) /\ w = Weight(k)
    <3>1. SignedDigit(y, k) \in Int /\ SignedDigit(x, k) \in Int
      BY <2>1, SignedDigitType
    <3>2. Weight(k) \in Nat
      BY <2>1, Weights
    <3> QED BY <3>1, <3>2
  <2>3. (a - b) * w = a * w - b * w
    BY SMT
  <2>4. f[k] = (a - b) * w
    BY <2>2 DEF Apart
  <2> QED BY <1>1, <2>2, <2>3, <2>4
<1>5. Terms(n, u) /\ Terms(n, v)
  BY <1>2, <1>3
<1>6. Terms(n, f) /\ Total(n, f) = Total(n, v) - Total(n, u)
  BY <1>4, <1>5, TotalMinus
<1> QED BY <1>2, <1>3, <1>6

\* The highest digit that differs tells which integer is greater.
LEMMA Lexicographic ==
  ASSUME NEW x \in Int, NEW y \in Int, NEW n \in Nat,
         Abs(x) < Weight(n + 1), Abs(y) < Weight(n + 1),
         NEW j \in 1 .. n, Apart(x, y, j) >= 1, SameAbove(x, y, j, n)
  PROVE  x < y
<1>0. j \in Nat /\ j >= 1 /\ j - 1 \in Nat /\ (j - 1) + 1 = j /\ j \in 0 .. n
  OBVIOUS
<1>1. CASE x >= 0 /\ y <= 0
  <2>1. Apart(x, y, j) \in Int /\ Apart(x, y, j) <= 0
    BY <1>0, <1>1, ApartType
  <2> QED BY <2>1
<1>2. CASE x < 0 /\ y > 0
  BY <1>2
<1>3. CASE (x <= 0 /\ y <= 0) \/ (x >= 0 /\ y >= 0)
  <2> DEFINE f == [k \in 1 .. n |-> Apart(x, y, k) * Weight(k)]
             g == [k \in 1 .. j - 1 |-> (1 - B) * Weight(k)]
  <2>1. /\ \A k \in 1 .. n : f[k] = Apart(x, y, k) * Weight(k)
        /\ \A k \in 1 .. j - 1 : g[k] = (1 - B) * Weight(k)
    OBVIOUS
  <2> HIDE DEF f, g
  <2>2. Terms(n, f) /\ Total(n, f) = y - x
    BY <2>1, ApartMakesUp
  <2>3. Terms(j - 1, g) /\ Total(j - 1, g) + Weight(j) = 1
    <3>1. Terms(j - 1, g) /\ Total(j - 1, g) + Weight((j - 1) + 1) = 1
      BY <1>0, <2>1, MostBelow
    <3> QED BY <1>0, <3>1
  <2>4. Total(n, f) = Total(j, f)
    <3>1. \A k \in j + 1 .. n : f[k] = 0
      <4> TAKE k \in j + 1 .. n
      <4>1. k \in 1 .. n /\ k \in Nat /\ k >= 1
        BY <1>0
      <4>2. Weight(k) \in Nat
        BY <4>1, Weights
      <4>3. Apart(x, y, k) = 0
        BY DEF SameAbove
      <4>4. 0 * Weight(k) = 0
        BY <4>2
      <4> QED BY <2>1, <4>1, <4>3, <4>4
    <3> QED BY <1>0, <2>2, <3>1, TotalTail
  <2>5. /\ Total(j, f) = Total(j - 1, f) + f[j]
        /\ Total(j, f) \in Int /\ Total(j - 1, f) \in Int /\ f[j] \in Int
    BY <1>0, <2>2, TotalSteps
  <2>6. Total(j - 1, g) <= Total(j - 1, f) /\ Total(j - 1, g) \in Int
    <3>1. Terms(j - 1, f)
      BY <1>0, <2>2 DEF Terms
    <3>2. \A k \in 1 .. j - 1 : g[k] <= f[k]
      <4> TAKE k \in 1 .. j - 1
      <4>1. k \in 1 .. n /\ k \in Nat /\ k >= 1
        BY <1>0
      <4>2. PICK w \in Nat, d \in Int : w = Weight(k) /\ d = Apart(x, y, k) /\ 1 - B <= d
        <5>1. Weight(k) \in Nat
          BY <4>1, Weights
        <5>2. Apart(x, y, k) \in Int /\ 1 - B <= Apart(x, y, k)
          BY <1>3, <4>1, ApartType
        <5> QED BY <5>1, <5>2
      <4>3. (1 - B) * w <= d * w
        <5>1. 1 - B \in Int
          BY LimitIs
        <5> QED BY <4>2, <5>1, Scaling
      <4> QED BY <2>1, <4>1, <4>2, <4>3
    <3>3. Terms(j - 1, g)
      BY <2>3
    <3> QED BY <1>0, <3>1, <3>2, <3>3, TotalOrder, TotalInt
  <2>7. PICK w \in Nat, d \in Int : w = Weight(j) /\ d = Apart(x, y, j) /\ d >= 1 /\ f[j] = d * w
    <3>1. Weight(j) \in Nat
      BY <1>0, Weights
    <3>2. Apart(x, y, j) \in Int
      BY <1>0, ApartType
    <3> QED BY <2>1, <3>1, <3>2
  <2>8. 1 * w <= d * w
    BY <2>7, Scaling
  <2>9. PICK e \in Int, t \in Int, s \in Int : e = f[j] /\ t = Total(j - 1, g) /\ s = Total(j - 1, f)
    BY <2>5, <2>6
  <2>10. w <= e /\ t + w = 1 /\ t <= s /\ y - x = s + e
    BY <2>2, <2>3, <2>4, <2>5, <2>6, <2>7, <2>8, <2>9
  <2> QED BY <2>10
<1>4. (x >= 0 /\ y <= 0) \/ (x < 0 /\ y > 0) \/ (x <= 0 /\ y <= 0) \/ (x >= 0 /\ y >= 0)
  OBVIOUS
<1> QED BY <1>1, <1>2, <1>3, <1>4

\* A lesser integer is so by the highest digit that differs.
LEMMA TopDigit ==
  ASSUME NEW x \in Int, NEW y \in Int, NEW n \in Nat,
         Abs(x) < Weight(n + 1), Abs(y) < Weight(n + 1), x < y
  PROVE  \E j \in 1 .. n : Apart(x, y, j) >= 1 /\ SameAbove(x, y, j, n)
<1> DEFINE T == {k \in 1 .. n : Apart(x, y, k) # 0}
           h == [k \in 1 .. n |-> IF Apart(x, y, k) # 0 THEN k ELSE 0]
<1>1. T # {}
  <2> SUFFICES ASSUME T = {} PROVE FALSE
    OBVIOUS
  <2> DEFINE f == [k \in 1 .. n |-> Apart(x, y, k) * Weight(k)]
  <2>1. \A k \in 1 .. n : f[k] = Apart(x, y, k) * Weight(k)
    OBVIOUS
  <2>2. \A k \in 0 + 1 .. n : f[k] = 0
    <3> TAKE k \in 0 + 1 .. n
    <3>1. k \in 1 .. n /\ k \in Nat /\ k >= 1
      OBVIOUS
    <3>2. Apart(x, y, k) = 0 /\ Weight(k) \in Nat
      BY <3>1, Weights
    <3>3. 0 * Weight(k) = 0
      BY <3>2
    <3> QED BY <2>1, <3>1, <3>2, <3>3
  <2> HIDE DEF f
  <2>3. Terms(n, f) /\ Total(n, f) = y - x
    BY <2>1, ApartMakesUp
  <2>4. Total(n, f) = Total(0, f)
    <3>1. 0 \in 0 .. n
      OBVIOUS
    <3> QED BY <2>2, <2>3, <3>1, TotalTail
  <2>5. Total(0, f) = 0
    BY <2>3, TotalSteps
  <2> QED BY <2>3, <2>4, <2>5
<1>2. n >= 1 /\ Terms(n, h)
  BY <1>1 DEF Terms
<1>3. PICK j \in 1 .. n : \A k \in 1 .. n : h[k] <= h[j]
  <2> HIDE DEF h
  <2> QED BY <1>2, Highest
<1>4. Apart(x, y, j) # 0
  <2>1. PICK i \in 1 .. n : Apart(x, y, i) # 0
    BY <1>1
  <2>2. h[i] = i /\ h[i] <= h[j]
    BY <1>3, <2>1
  <2> QED BY <2>2
<1>5. \A k \in j + 1 .. n : Apart(x, y, k) = 0
  <2> TAKE k \in j + 1 .. n
  <2>1. k \in 1 .. n /\ k > j
    OBVIOUS
  <2>2. h[j] = j /\ h[k] <= h[j]
    BY <1>3, <1>4, <2>1
  <2> QED BY <2>1, <2>2
<1>6. j \in Nat /\ j >= 1
  OBVIOUS
<1>7. Apart(x, y, j) \in Int /\ Apart(y, x, j) + Apart(x, y, j) = 0 /\ Apart(y, x, j) \in Int
  BY <1>6, ApartType
<1>8. CASE Apart(x, y, j) <= -1
  <2>1. Apart(y, x, j) >= 1
    BY <1>7, <1>8
  <2>2. SameAbove(y, x, j, n)
    <3> SUFFICES ASSUME NEW k \in j + 1 .. n PROVE Apart(y, x, k) = 0
      BY DEF SameAbove
    <3>1. k \in Nat /\ k >= 1
      BY <1>6
    <3>2. Apart(x, y, k) \in Int /\ Apart(y, x, k) + Apart(x, y, k) = 0 /\ Apart(y, x, k) \in Int
      BY <3>1, ApartType
    <3>3. Apart(x, y, k) = 0
      BY <1>5
    <3> QED BY <3>2, <3>3
  <2>3. y < x
    BY <2>1, <2>2, Lexicographic
  <2> QED BY <2>3
<1> QED BY <1>4, <1>5, <1>7, <1>8 DEF SameAbove

\* The difference that enforce_lt looks at: its length, and each of its limbs.
LEMMA DifferenceIs ==
  ASSUME NEW x, Regular(x), NEW y, Regular(y), NEW n, n = Longer(y, x), NEW d, d = Difference(y, x)
  PROVE  /\ n \in Nat /\ x.int \in Int /\ y.int \in Int
         /\ Abs(x.int) < Weight(n + 1) /\ Abs(y.int) < Weight(n + 1)
         /\ DOMAIN d.limbs = 1 .. n /\ DOMAIN d.bounds = 1 .. n /\ Len(d.limbs) = n
<1>1. x \in VariableSet /\ y \in VariableSet /\ Cut(x) /\ Cut(y)
  BY DEF Regular
<1>2. Len(x.limbs) \in Nat /\ Len(y.limbs) \in Nat /\ x.int \in Int /\ y.int \in Int
  BY <1>1, VariableType
<1>3. n \in Nat /\ Len(x.limbs) <= n /\ Len(y.limbs) <= n
  <2>1. PICK a \in Nat, c \in Nat : a = Len(y.limbs) /\ c = Len(x.limbs)
    BY <1>2
  <2>2. Max({a, c}) \in {a, c} /\ Max({a, c}) >= a /\ Max({a, c}) >= c
    BY MaxOfTwo
  <2>3. n = Max({a, c})
    BY <2>1 DEF Longer
  <2> QED BY <2>1, <2>2, <2>3
<1>4. Abs(x.int) < Weight(n + 1) /\ Abs(x.int) \in Nat
  <2>1. PICK l \in Nat : l = Len(x.limbs) /\ l <= n
    BY <1>2, <1>3
  <2>2. Abs(x.int) < Weight(l + 1) /\ Abs(x.int) \in Nat
    BY <1>1, <1>2, <2>1, AbsType DEF Cut
  <2>3. l + 1 \in Nat /\ l + 1 >= 1 /\ n + 1 \in Nat /\ l + 1 <= n + 1
    BY <1>3, <2>1
  <2>4. Weight(l + 1) <= Weight(n + 1) /\ Weight(l + 1) \in Nat /\ Weight(n + 1) \in Nat
    BY <2>3, WeightOrder
  <2> QED BY <2>2, <2>4
<1>5. Abs(y.int) < Weight(n + 1) /\ Abs(y.int) \in Nat
  <2>1. PICK l \in Nat : l = Len(y.limbs) /\ l <= n
    BY <1>2, <1>3
  <2>2. Abs(y.int) < Weight(l + 1) /\ Abs(y.int) \in Nat
    BY <1>1, <1>2, <2>1, AbsType DEF Cut
  <2>3. l + 1 \in Nat /\ l + 1 >= 1 /\ n + 1 \in Nat /\ l + 1 <= n + 1
    BY <1>3, <2>1
  <2>4. Weight(l + 1) <= Weight(n + 1) /\ Weight(l + 1) \in Nat /\ Weight(n + 1) \in Nat
    BY <2>3, WeightOrder
  <2> QED BY <2>2, <2>4
<1>6. DOMAIN d.limbs = 1 .. n /\ DOMAIN d.bounds = 1 .. n
  BY DEF Difference, Variable
<1>7. Len(d.limbs) = n
  BY <1>3, <1>6
<1> QED BY <1>2, <1>3, <1>4, <1>5, <1>6, <1>7

LEMMA DifferenceLimb ==
  ASSUME NEW x, Regular(x), NEW y, Regular(y), NEW k \in 1 .. Longer(y, x),
         NEW d, d = Difference(y, x), NEW a, a = Apart(x.int, y.int, k)
  PROVE  /\ a \in Int /\ 2 - 2 * B <= a /\ a <= 2 * B - 2
         /\ d.limbs[k] = Field(a) /\ d.limbs[k] \in Residues /\ Signed(d.limbs[k]) = a
         /\ d.bounds[k] = MinusBounds(BoundAt(y, k), BoundAt(x, k))
         /\ d.bounds[k].lo \in Int /\ d.bounds[k].hi \in Int
         /\ 2 - 2 * B <= d.bounds[k].lo /\ d.bounds[k].hi <= 2 * B - 2
<1>0. k \in Nat /\ k >= 1
  <2>1. Longer(y, x) \in Nat
    BY DifferenceIs
  <2> QED BY <2>1
<1>1. /\ x.int \in Int /\ SignedDigit(x.int, k) \in Int
      /\ LimbAt(x, k) = Field(SignedDigit(x.int, k)) /\ LimbAt(x, k) \in Residues
      /\ BoundAt(x, k) \in Bounds /\ Small(BoundAt(x, k))
  BY <1>0, RegularLimb
<1>2. /\ y.int \in Int /\ SignedDigit(y.int, k) \in Int
      /\ LimbAt(y, k) = Field(SignedDigit(y.int, k)) /\ LimbAt(y, k) \in Residues
      /\ BoundAt(y, k) \in Bounds /\ Small(BoundAt(y, k))
  BY <1>0, RegularLimb
<1>3. a \in Int /\ 2 - 2 * B <= a /\ a <= 2 * B - 2
  BY <1>0, <1>1, <1>2, ApartType
<1>4. d.limbs[k] = Field(a)
  <2>1. d.limbs[k] = Field(LimbAt(y, k) - LimbAt(x, k))
    BY DEF Difference, Variable
  <2>2. /\ Field(LimbAt(x, k)) = Field(SignedDigit(x.int, k)) /\ LimbAt(x, k) \in Int
        /\ Field(LimbAt(y, k)) = Field(SignedDigit(y.int, k)) /\ LimbAt(y, k) \in Int
    <3>1. Field(LimbAt(x, k)) = LimbAt(x, k) /\ Field(LimbAt(y, k)) = LimbAt(y, k)
      BY <1>1, <1>2, SignedType
    <3>2. P \in Nat
      BY BaseType
    <3> QED BY <1>1, <1>2, <3>1, <3>2 DEF Residues
  <2>3. Field(LimbAt(y, k) - LimbAt(x, k)) = Field(SignedDigit(y.int, k) - SignedDigit(x.int, k))
    BY <1>1, <1>2, <2>2, FieldMinus
  <2> QED BY <2>1, <2>3 DEF Apart
<1>5. Field(a) \in Residues /\ Signed(Field(a)) = a
  <2>1. -Limit <= a /\ a <= Limit
    BY <1>3, LimitIs
  <2> QED BY <1>3, <2>1, SignedSmall
<1>6. d.bounds[k] = MinusBounds(BoundAt(y, k), BoundAt(x, k))
  BY DEF Difference, Variable
<1>7. /\ d.bounds[k].lo \in Int /\ d.bounds[k].hi \in Int
      /\ 2 - 2 * B <= d.bounds[k].lo /\ d.bounds[k].hi <= 2 * B - 2
  <2>1. B \in Nat
    BY BaseType
  <2>2. /\ d.bounds[k].lo = BoundAt(y, k).lo - BoundAt(x, k).hi
        /\ d.bounds[k].hi = BoundAt(y, k).hi - BoundAt(x, k).lo
    BY <1>6 DEF MinusBounds
  <2>3. /\ BoundAt(x, k).lo \in Int /\ BoundAt(x, k).hi \in Int
        /\ BoundAt(y, k).lo \in Int /\ BoundAt(y, k).hi \in Int
    BY <1>1, <1>2 DEF Bounds
  <2> QED BY <1>1, <1>2, <2>1, <2>2, <2>3 DEF Small
<1> QED BY <1>3, <1>4, <1>5, <1>6, <1>7

\* The greatest upper bound is one of them.
IsTop(top, b) == top = Max({b[k].hi : k \in DOMAIN b})
BoundsTo(b, n) == DOMAIN b = 1 .. n /\ \A k \in 1 .. n : b[k].hi \in Int

LEMMA HighestBound ==
  ASSUME NEW n \in Nat, n >= 1, NEW b, BoundsTo(b, n), NEW top, IsTop(top, b)
  PROVE  /\ top \in Int /\ \E j \in 1 .. n : top = b[j].hi
         /\ \A k \in 1 .. n : b[k].hi <= top
<1> DEFINE f == [k \in 1 .. n |-> b[k].hi]
           S == {b[k].hi : k \in DOMAIN b}
<1>0. DOMAIN b = 1 .. n /\ \A k \in 1 .. n : b[k].hi \in Int
  BY DEF BoundsTo
<1>1. Terms(n, f)
  BY <1>0 DEF Terms
<1>2. PICK j \in 1 .. n : \A k \in 1 .. n : f[k] <= f[j]
  <2> HIDE DEF f
  <2> QED BY <1>1, Highest
<1>3. b[j].hi \in S /\ \A s \in S : b[j].hi >= s
  <2>1. \A k \in 1 .. n : b[k].hi <= b[j].hi
    BY <1>2
  <2> QED BY <1>0, <2>1
<1>4. top \in S /\ \A s \in S : top >= s
  <2>1. top = CHOOSE s \in S : \A r \in S : s >= r
    BY DEF Max, IsTop
  <2> HIDE DEF S
  <2> QED BY <1>3, <2>1
<1> QED BY <1>0, <1>4

\* A sum of one term
LEMMA TotalOne ==
  ASSUME NEW n \in Nat, NEW j \in 1 .. n, NEW f, f[j] \in Int, \A k \in 1 .. n : k # j => f[k] = 0
  PROVE  Total(n, f) = f[j]
<1>1. Terms(n, f)
  <2> SUFFICES ASSUME NEW k \in 1 .. n PROVE f[k] \in Int
    BY DEF Terms
  <2> QED BY DEF Terms
<1>2. j - 1 \in Nat /\ j \in 0 .. n /\ j - 1 \in 0 .. n
  OBVIOUS
<1>3. Total(n, f) = Total(j, f)
  <2>1. \A k \in j + 1 .. n : f[k] = 0
    BY <1>2
  <2> QED BY <1>1, <1>2, <2>1, TotalTail
<1>4. Total(j, f) = Total(j - 1, f) + f[j]
  BY <1>1, TotalSteps
<1>5. Total(j - 1, f) = 0
  <2>1. Terms(j - 1, f)
    BY <1>1, <1>2 DEF Terms
  <2>2. \A k \in 0 + 1 .. j - 1 : f[k] = 0
    <3> TAKE k \in 0 + 1 .. j - 1
    <3>1. k \in 1 .. n /\ k # j
      BY <1>2
    <3> QED BY <3>1
  <2>3. 0 \in 0 .. j - 1
    BY <1>2
  <2>4. Total(j - 1, f) = Total(0, f)
    BY <1>2, <2>1, <2>2, <2>3, TotalTail
  <2>5. Total(0, f) = 0
    BY <1>1, TotalSteps
  <2> QED BY <2>4, <2>5
<1> QED BY <1>3, <1>4, <1>5

\* The helper chooses limb j and no other.
OnlyAt(helper, j, n) == \A k \in 1 .. n : helper[k] <=> k = j

LEMMA ChosenIs ==
  ASSUME NEW n \in Nat, NEW j \in 1 .. n, NEW helper, OnlyAt(helper, j, n), NEW k \in 0 .. n
  PROVE  Chosen(helper, k) = IF k < j THEN 0 ELSE 1
<1> DEFINE S == {i \in 1 .. k : helper[i]}
<1>1. \A i \in 1 .. k : i \in 1 .. n
  OBVIOUS
<1>2. \A i \in 1 .. n : helper[i] <=> i = j
  BY DEF OnlyAt
<1>3. CASE k < j
  <2>1. S = {}
    BY <1>1, <1>2, <1>3
  <2> HIDE DEF S
  <2>2. Cardinality(S) = 0
    BY <2>1, FS_EmptySet
  <2> QED BY <1>3, <2>2 DEF Chosen, S
<1>4. CASE ~(k < j)
  <2>1. S = {j}
    BY <1>1, <1>2, <1>4
  <2> HIDE DEF S
  <2>2. Cardinality(S) = 1
    BY <2>1, FS_Singleton
  <2> QED BY <1>4, <2>2 DEF Chosen, S
<1> QED BY <1>3, <1>4

LEMMA ChosenOne ==
  ASSUME NEW n \in Nat, NEW helper, Chosen(helper, n) = 1
  PROVE  n >= 1 /\ \E j \in 1 .. n : OnlyAt(helper, j, n)
<1> DEFINE S == {i \in 1 .. n : helper[i]}
<1>1. IsFiniteSet(S)
  <2>1. IsFiniteSet(1 .. n)
    BY FS_Interval
  <2>2. S \subseteq 1 .. n
    OBVIOUS
  <2> QED BY <2>1, <2>2, FS_Subset
<1>2. Cardinality(S) = 1
  BY DEF Chosen
<1>3. PICK j : S = {j}
  <2> HIDE DEF S
  <2> QED BY <1>1, <1>2, FS_Singleton
<1>4. j \in 1 .. n
  BY <1>3
<1>5. \A k \in 1 .. n : helper[k] <=> k = j
  BY <1>3
<1> QED BY <1>4, <1>5 DEF OnlyAt

\* A bound on the digits of a difference takes at most a bit more than a limb.
LEMMA BitsOfBound ==
  ASSUME NEW m \in Int, m >= 1, m <= 2 * B - 2
  PROVE  Bits(m) \in Nat /\ 2 ^ Bits(m) \in Nat /\ m < 2 ^ Bits(m) /\ 2 ^ Bits(m) <= 2 * B
<1>1. Abs(m) = m
  BY DEF Abs
<1>2. /\ Bits(m) \in Nat /\ m < 2 ^ Bits(m)
      /\ Bits(m) >= 1 /\ 2 ^ (Bits(m) - 1) <= m
  BY <1>1, BitsAre
<1>3. PICK n \in Nat : n = Bits(m) /\ n >= 1 /\ m < 2 ^ n /\ 2 ^ (n - 1) <= m
  BY <1>2
<1>4. W \in Nat /\ W + 1 \in Nat /\ 2 ^ (W + 1) = 2 * B /\ B \in Nat
  <2>1. W \in Nat /\ B \in Nat /\ B = 2 ^ W
    BY BaseType
  <2>2. 2 ^ (W + 1) = 2 * 2 ^ W
    BY <2>1, PowerDoubles
  <2> QED BY <2>1, <2>2
<1>5. n <= W + 1
  <2> SUFFICES ASSUME ~(n <= W + 1) PROVE FALSE
    OBVIOUS
  <2>1. n - 1 \in Nat /\ W + 1 <= n - 1
    BY <1>4
  <2>2. 2 ^ (W + 1) <= 2 ^ (n - 1) /\ 2 ^ (n - 1) \in Nat
    BY <1>4, <2>1, PowerOrder
  <2> QED BY <1>3, <1>4, <2>2
<1>6. 2 ^ n <= 2 ^ (W + 1) /\ 2 ^ n \in Nat
  BY <1>4, <1>5, PowerOrder
<1> QED BY <1>3, <1>4, <1>6

LEMMA FieldNear ==
  ASSUME NEW a \in Int, -P <= a, a < P
  PROVE  Field(a) = IF a < 0 THEN a + P ELSE a
<1>0. P \in Nat /\ P > 0
  BY BaseType
<1>1. CASE a < 0
  <2>1. a = P * (-1) + (a + P) /\ a + P \in 0 .. P - 1 /\ -1 \in Int
    BY <1>0, <1>1
  <2>2. a % P = a + P
    BY <1>0, <2>1, DivisionIs
  <2> QED BY <1>1, <2>2 DEF Field
<1>2. CASE ~(a < 0)
  <2>1. a \in 0 .. P - 1
    BY <1>0, <1>2
  <2>2. a % P = a
    BY <1>0, <2>1, SmallResidue
  <2> QED BY <1>2, <2>2 DEF Field
<1> QED BY <1>1, <1>2

\* enforce_lt, whatever helper bits: they hold only of a lesser integer.
LEMMA LtSound ==
  ASSUME NEW x, Regular(x), NEW y, Regular(y), NEW d, d = Difference(y, x),
         NEW helper, LtHolds(d, helper)
  PROVE  x.int < y.int
<1>1. PICK n \in Nat :
        /\ n = Longer(y, x) /\ x.int \in Int /\ y.int \in Int
        /\ Abs(x.int) < Weight(n + 1) /\ Abs(y.int) < Weight(n + 1)
        /\ DOMAIN d.limbs = 1 .. n /\ DOMAIN d.bounds = 1 .. n /\ Len(d.limbs) = n
  <2>1. PICK n : n = Longer(y, x)
    OBVIOUS
  <2> QED BY <2>1, DifferenceIs
<1>2. PICK top : top = Max({d.bounds[k].hi : k \in DOMAIN d.bounds})
  OBVIOUS
<1>3. PICK p : p = Total(Len(d.limbs), [k \in DOMAIN d.limbs |-> IF helper[k] THEN d.limbs[k] ELSE 0])
  OBVIOUS
<1>4. /\ top > 0 /\ Chosen(helper, n) = 1
      /\ \A k \in 1 .. n : Field(Chosen(helper, k - 1) * d.limbs[k]) = 0
      /\ Field(p - 1) < 2 ^ Bits(top)
  BY <1>1, <1>2, <1>3 DEF LtHolds, FitsBits
<1>5. n >= 1 /\ \E j \in 1 .. n : OnlyAt(helper, j, n)
  BY <1>4, ChosenOne
<1>6. PICK j \in 1 .. n : OnlyAt(helper, j, n)
  BY <1>5
<1>7. ASSUME NEW k \in 1 .. n
      PROVE  /\ Apart(x.int, y.int, k) \in Int
             /\ 2 - 2 * B <= Apart(x.int, y.int, k) /\ Apart(x.int, y.int, k) <= 2 * B - 2
             /\ d.limbs[k] = Field(Apart(x.int, y.int, k)) /\ d.limbs[k] \in Residues
             /\ Signed(d.limbs[k]) = Apart(x.int, y.int, k)
             /\ d.bounds[k].hi \in Int /\ d.bounds[k].hi <= 2 * B - 2
  <2>1. k \in 1 .. Longer(y, x)
    BY <1>1
  <2> QED BY <2>1, DifferenceLimb
<1>8. SameAbove(x.int, y.int, j, n)
  <2> SUFFICES ASSUME NEW k \in j + 1 .. n PROVE Apart(x.int, y.int, k) = 0
    BY DEF SameAbove
  <2>1. k \in 1 .. n /\ k - 1 \in 0 .. n /\ ~(k - 1 < j)
    OBVIOUS
  <2>2. Chosen(helper, k - 1) = 1
    BY <1>6, <2>1, ChosenIs
  <2>3. PICK r \in Residues : r = d.limbs[k] /\ Signed(r) = Apart(x.int, y.int, k)
    BY <1>7, <2>1
  <2>4. Field(1 * r) = 0
    BY <1>4, <2>1, <2>2, <2>3
  <2>5. 1 * r = r
    BY BaseType, <2>3 DEF Residues
  <2>6. r = 0
    BY <2>4, <2>5, SignedType
  <2> QED BY <2>3, <2>6, ZeroSigned
<1>9. p = d.limbs[j]
  <2> DEFINE f == [k \in DOMAIN d.limbs |-> IF helper[k] THEN d.limbs[k] ELSE 0]
  <2>1. f[j] = d.limbs[j] /\ \A k \in 1 .. n : k # j => f[k] = 0
    BY <1>1, <1>6 DEF OnlyAt
  <2>2. p = Total(n, f)
    BY <1>1, <1>3
  <2>3. d.limbs[j] \in Int
    BY <1>7, BaseType DEF Residues
  <2> HIDE DEF f
  <2>4. Total(n, f) = f[j]
    <3>1. f[j] \in Int /\ \A k \in 1 .. n : k # j => f[k] = 0
      BY <2>1, <2>3
    <3> QED BY <3>1, TotalOne
  <2> QED BY <2>1, <2>2, <2>4
<1>10. 2 ^ Bits(top) <= 2 * B /\ 2 ^ Bits(top) \in Nat
  <2>1. \A k \in 1 .. n : d.bounds[k].hi \in Int
    BY <1>7
  <2>2. top \in Int /\ \E i \in 1 .. n : top = d.bounds[i].hi
    <3>1. PICK b : b = d.bounds
      OBVIOUS
    <3>2. IsTop(top, b)
      BY <1>1, <1>2, <3>1 DEF IsTop
    <3>3. BoundsTo(b, n)
      BY <1>1, <2>1, <3>1 DEF BoundsTo
    <3>4. n \in Nat /\ n >= 1
      BY <1>5
    <3>5. top \in Int /\ \E i \in 1 .. n : top = b[i].hi
      BY <3>2, <3>3, <3>4, HighestBound
    <3> QED BY <3>1, <3>5
  <2>3. top <= 2 * B - 2
    BY <1>7, <2>2
  <2> QED BY <1>4, <2>2, <2>3, BitsOfBound
<1>11. PICK a \in Int, b \in Nat, q \in Nat :
         /\ a = Apart(x.int, y.int, j) /\ 2 - 2 * b <= a /\ a <= 2 * b - 2
         /\ b = B /\ q = P /\ 4 * b <= q /\ p = Field(a) /\ Signed(p) = a /\ p \in Residues /\ b > 1
  BY <1>7, <1>9, BaseType
<1>12. a >= 1
  <2> SUFFICES ASSUME a <= 0 PROVE FALSE
    BY <1>11
  <2>1. Field(p - 1) = Field(a - 1)
    <3>1. p \in Int
      BY <1>11, BaseType DEF Residues
    <3>2. Field(p) = Field(a)
      BY <1>11, SignedType
    <3>3. 1 \in Int
      OBVIOUS
    <3> QED BY <1>11, <3>1, <3>2, <3>3, FieldMinus
  <2>2. a - 1 \in Int /\ -P <= a - 1 /\ a - 1 < P /\ a - 1 < 0
    BY <1>11
  <2>3. Field(a - 1) = (a - 1) + P
    BY <2>2, FieldNear
  <2>4. (a - 1) + P >= 2 * B
    BY <1>11
  <2>5. PICK z \in Nat : z = 2 ^ Bits(top) /\ z <= 2 * B
    BY <1>10
  <2>6. (a - 1) + P < z
    BY <1>4, <2>1, <2>3, <2>5
  <2> QED BY <1>11, <2>4, <2>5, <2>6
<1>13. x.int \in Int /\ y.int \in Int /\ Abs(x.int) < Weight(n + 1) /\ Abs(y.int) < Weight(n + 1)
  BY <1>1
<1> QED BY <1>8, <1>11, <1>12, <1>13, Lexicographic

\* The digits of a variable whose limbs are within their bounds, and so those of a difference
LEMMA DifferenceWithin ==
  ASSUME NEW x, Regular(x), Exact(x), NEW y, Regular(y), Exact(y), NEW k \in 1 .. Longer(y, x),
         NEW d, d = Difference(y, x)
  PROVE  Between(Apart(x.int, y.int, k), d.bounds[k])
<1>0. k \in Nat /\ k >= 1 /\ k \in Int
  <2>1. Longer(y, x) \in Nat
    BY DifferenceIs
  <2> QED BY <2>1
<1>1. /\ x.int \in Int /\ SignedDigit(x.int, k) \in Int
      /\ LimbAt(x, k) = Field(SignedDigit(x.int, k)) /\ BoundAt(x, k) \in Bounds
  BY <1>0, RegularLimb
<1>2. /\ y.int \in Int /\ SignedDigit(y.int, k) \in Int
      /\ LimbAt(y, k) = Field(SignedDigit(y.int, k)) /\ BoundAt(y, k) \in Bounds
  BY <1>0, RegularLimb
<1>3. Between(SignedDigit(x.int, k), BoundAt(x, k))
  <2>1. Between(Value(x, k), BoundAt(x, k))
    BY <1>0, LimbIs
  <2>2. -Limit <= SignedDigit(x.int, k) /\ SignedDigit(x.int, k) <= Limit
    <3>1. 1 - B <= SignedDigit(x.int, k) /\ SignedDigit(x.int, k) <= B - 1
      BY <1>0, <1>1, SignedDigitType
    <3> QED BY <1>1, <3>1, LimitIs
  <2>3. Signed(Field(SignedDigit(x.int, k))) = SignedDigit(x.int, k)
    BY <1>1, <2>2, SignedSmall
  <2> QED BY <1>1, <2>1, <2>3 DEF Value
<1>4. Between(SignedDigit(y.int, k), BoundAt(y, k))
  <2>1. Between(Value(y, k), BoundAt(y, k))
    BY <1>0, LimbIs
  <2>2. -Limit <= SignedDigit(y.int, k) /\ SignedDigit(y.int, k) <= Limit
    <3>1. 1 - B <= SignedDigit(y.int, k) /\ SignedDigit(y.int, k) <= B - 1
      BY <1>0, <1>2, SignedDigitType
    <3> QED BY <1>2, <3>1, LimitIs
  <2>3. Signed(Field(SignedDigit(y.int, k))) = SignedDigit(y.int, k)
    BY <1>2, <2>2, SignedSmall
  <2> QED BY <1>2, <2>1, <2>3 DEF Value
<1>5. d.bounds[k] = MinusBounds(BoundAt(y, k), BoundAt(x, k))
  BY DifferenceLimb
<1>6. Between(SignedDigit(y.int, k) - SignedDigit(x.int, k), MinusBounds(BoundAt(y, k), BoundAt(x, k)))
  BY <1>1, <1>2, <1>3, <1>4, SumWithinBounds
<1> QED BY <1>5, <1>6 DEF Apart

\* enforce_lt holds of a lesser integer, with the helper bits the code computes.
LEMMA LtComplete ==
  ASSUME NEW x, Regular(x), Exact(x), NEW y, Regular(y), Exact(y), NEW d, d = Difference(y, x),
         x.int < y.int
  PROVE  LtHolds(d, HighestPositive(d))
<1>1. PICK n \in Nat :
        /\ n = Longer(y, x) /\ x.int \in Int /\ y.int \in Int
        /\ Abs(x.int) < Weight(n + 1) /\ Abs(y.int) < Weight(n + 1)
        /\ DOMAIN d.limbs = 1 .. n /\ DOMAIN d.bounds = 1 .. n /\ Len(d.limbs) = n
  <2>1. PICK n : n = Longer(y, x)
    OBVIOUS
  <2> QED BY <2>1, DifferenceIs
<1>2. PICK j \in 1 .. n : Apart(x.int, y.int, j) >= 1 /\ SameAbove(x.int, y.int, j, n)
  <2>1. x.int \in Int /\ y.int \in Int /\ Abs(x.int) < Weight(n + 1) /\ Abs(y.int) < Weight(n + 1)
    BY <1>1
  <2> QED BY <2>1, TopDigit
<1>3. ASSUME NEW k \in 1 .. n
      PROVE  /\ Apart(x.int, y.int, k) \in Int
             /\ 2 - 2 * B <= Apart(x.int, y.int, k) /\ Apart(x.int, y.int, k) <= 2 * B - 2
             /\ d.limbs[k] = Field(Apart(x.int, y.int, k)) /\ d.limbs[k] \in Residues
             /\ Signed(d.limbs[k]) = Apart(x.int, y.int, k)
             /\ d.bounds[k].hi \in Int /\ d.bounds[k].hi <= 2 * B - 2
  <2>1. k \in 1 .. Longer(y, x)
    BY <1>1
  <2> QED BY <2>1, DifferenceLimb
<1>4. PICK helper : helper = HighestPositive(d)
  OBVIOUS
<1>5. OnlyAt(helper, j, n)
  <2> DEFINE S == {k \in DOMAIN d.limbs : Signed(d.limbs[k]) > 0}
  <2>1. j \in S /\ \A k \in S : j >= k
    <3>1. j \in S
      BY <1>1, <1>2, <1>3
    <3>2. \A k \in S : j >= k
      <4> SUFFICES ASSUME NEW k \in S, ~(j >= k) PROVE FALSE
        OBVIOUS
      <4>1. k \in 1 .. n /\ k \in j + 1 .. n
        BY <1>1
      <4>2. Apart(x.int, y.int, k) = 0
        BY <1>2, <4>1 DEF SameAbove
      <4>3. Signed(d.limbs[k]) = 0
        BY <1>3, <4>1, <4>2
      <4> QED BY <4>3
    <3> QED BY <3>1, <3>2
  <2>2. S \subseteq Int
    BY <1>1
  <2>3. helper = [k \in DOMAIN d.limbs |-> S # {} /\ k = Max(S)]
    BY <1>4 DEF HighestPositive
  <2> HIDE DEF S
  <2>4. Max(S) = j
    <3>1. Max(S) \in S /\ \A k \in S : Max(S) >= k
      BY <2>1 DEF Max
    <3>2. Max(S) >= j /\ j >= Max(S) /\ Max(S) \in Int
      BY <2>1, <2>2, <3>1
    <3> QED BY <3>2
  <2>5. \A k \in 1 .. n : helper[k] = (S # {} /\ k = Max(S))
    BY <1>1, <2>3
  <2> QED BY <2>1, <2>4, <2>5 DEF OnlyAt
<1>6. n \in 0 .. n /\ ~(n < j)
  OBVIOUS
<1>7. Chosen(helper, n) = 1
  BY <1>5, <1>6, ChosenIs
<1>8. \A k \in 1 .. n : Field(Chosen(helper, k - 1) * d.limbs[k]) = 0
  <2> TAKE k \in 1 .. n
  <2>1. k - 1 \in 0 .. n
    OBVIOUS
  <2>2. Chosen(helper, k - 1) = IF k - 1 < j THEN 0 ELSE 1
    BY <1>5, <2>1, ChosenIs
  <2>3. d.limbs[k] \in Residues /\ d.limbs[k] \in Int
    BY <1>3, BaseType DEF Residues
  <2>4. Field(0) = 0
    BY ZeroSigned, SignedType
  <2>5. CASE k - 1 < j
    <3>1. 0 * d.limbs[k] = 0
      BY <2>3
    <3> QED BY <2>2, <2>4, <2>5, <3>1
  <2>6. CASE ~(k - 1 < j)
    <3>1. k \in j + 1 .. n
      BY <2>6
    <3>2. Apart(x.int, y.int, k) = 0
      BY <1>2, <3>1 DEF SameAbove
    <3>3. d.limbs[k] = 0
      BY <1>3, <2>4, <3>2
    <3>4. 1 * 0 = 0
      OBVIOUS
    <3> QED BY <2>2, <2>4, <2>6, <3>3, <3>4
  <2> QED BY <2>5, <2>6
<1>9. PICK p : p = Total(Len(d.limbs), [k \in DOMAIN d.limbs |-> IF helper[k] THEN d.limbs[k] ELSE 0])
  OBVIOUS
<1>10. p = d.limbs[j]
  <2> DEFINE f == [k \in DOMAIN d.limbs |-> IF helper[k] THEN d.limbs[k] ELSE 0]
  <2>1. f[j] = d.limbs[j] /\ \A k \in 1 .. n : k # j => f[k] = 0
    BY <1>1, <1>5 DEF OnlyAt
  <2>2. p = Total(n, f)
    BY <1>1, <1>9
  <2>3. d.limbs[j] \in Int
    BY <1>3, BaseType DEF Residues
  <2> HIDE DEF f
  <2>4. Total(n, f) = f[j]
    <3>1. f[j] \in Int /\ \A k \in 1 .. n : k # j => f[k] = 0
      BY <2>1, <2>3
    <3> QED BY <3>1, TotalOne
  <2> QED BY <2>1, <2>2, <2>4
<1>11. PICK top : IsTop(top, d.bounds)
  BY DEF IsTop
<1>12. top \in Int /\ top <= 2 * B - 2 /\ \A k \in 1 .. n : d.bounds[k].hi <= top
  <2>1. PICK b : b = d.bounds
    OBVIOUS
  <2>2. BoundsTo(b, n)
    BY <1>1, <1>3, <2>1 DEF BoundsTo
  <2>3. n >= 1 /\ IsTop(top, b)
    BY <1>11, <2>1
  <2>4. /\ top \in Int /\ \E i \in 1 .. n : top = b[i].hi
        /\ \A k \in 1 .. n : b[k].hi <= top
    BY <2>2, <2>3, HighestBound
  <2> QED BY <1>3, <2>1, <2>4
<1>13. PICK a \in Int : /\ a = Apart(x.int, y.int, j) /\ a >= 1 /\ a <= 2 * B - 2
                        /\ p = Field(a) /\ a <= top
  <2>1. j \in 1 .. Longer(y, x)
    BY <1>1
  <2>2. Between(Apart(x.int, y.int, j), d.bounds[j])
    BY <2>1, DifferenceWithin
  <2>3. Apart(x.int, y.int, j) <= d.bounds[j].hi /\ d.bounds[j].hi <= top /\ d.bounds[j].hi \in Int
    BY <1>3, <1>12, <2>2 DEF Between
  <2>4. Apart(x.int, y.int, j) <= top
    BY <1>3, <1>12, <2>3
  <2> QED BY <1>2, <1>3, <1>10, <2>4
<1>14. top >= 1
  BY <1>12, <1>13
<1>15. Bits(top) \in Nat /\ 2 ^ Bits(top) \in Nat /\ top < 2 ^ Bits(top)
  BY <1>12, <1>14, BitsOfBound
<1>16. Field(p - 1) < 2 ^ Bits(top)
  <2>1. -P <= a /\ a < P /\ ~(a < 0) /\ -P <= a - 1 /\ a - 1 < P /\ ~(a - 1 < 0) /\ a - 1 \in Int
    BY <1>13, BaseType
  <2>2. p = a
    BY <1>13, <2>1, FieldNear
  <2>3. Field(a - 1) = a - 1
    BY <2>1, FieldNear
  <2> QED BY <1>12, <1>13, <1>15, <2>2, <2>3
<1>17. top > 0
  BY <1>12, <1>14
<1> QED BY <1>1, <1>4, <1>7, <1>8, <1>9, <1>11, <1>16, <1>17 DEF LtHolds, FitsBits, IsTop

\* A constant is bounded by itself, limb by limb.
LEMMA ConstantBound ==
  ASSUME NEW c \in Int, NEW k \in Nat, k >= 1, NEW b, b = BoundAt(Constant(c), k)
  PROVE  b \in Bounds /\ b.lo = b.hi /\ b.lo \in Int /\ Small(b)
<1>1. PICK v : v = Constant(c) /\ Regular(v)
  BY ConstantIs
<1>2. b \in Bounds /\ Small(b)
  BY <1>1, RegularLimb
<1>3. b.lo = b.hi
  <2>1. CASE k \in DOMAIN v.bounds
    <3>1. b = v.bounds[k]
      BY <1>1, <2>1 DEF BoundAt
    <3>2. PICK limbs : v.bounds = [i \in DOMAIN limbs |-> Exactly(Signed(limbs[i]))]
      BY <1>1 DEF Constant
    <3>3. b = Exactly(Signed(limbs[k]))
      BY <2>1, <3>1, <3>2
    <3> QED BY <3>3 DEF Exactly
  <2>2. CASE k \notin DOMAIN v.bounds
    BY <1>1, <2>2 DEF BoundAt, ZeroBounds, Exactly
  <2> QED BY <2>1, <2>2
<1> QED BY <1>2, <1>3 DEF Bounds

\* Whatever is regular can be compared with a constant.
LEMMA ComparableWithConstant ==
  ASSUME NEW v, Regular(v), NEW x \in Int, NEW c, c = Constant(x)
  PROVE  Comparable(v, c) /\ Comparable(c, v)
<1>1. Regular(c) /\ Len(c.limbs) >= 1 /\ Regular(Constant(x))
  BY ConstantIs
<1>2. PICK l \in Nat, m \in Nat : l = Len(c.limbs) /\ m = Len(v.limbs) /\ l >= 1
  BY <1>1, VariableType DEF Regular
<1>3. Longer(v, c) > 0 /\ Longer(c, v) > 0
  <2>1. Max({m, l}) \in {m, l} /\ Max({m, l}) >= l /\ Max({l, m}) \in {l, m} /\ Max({l, m}) >= l
    BY MaxOfTwo
  <2> QED BY <1>2, <2>1 DEF Longer
<1>4. B \in Nat /\ Limit \in Nat /\ 2 * B - 1 <= Limit
  BY LimitIs
<1>5. ASSUME NEW k \in Nat, k >= 1
      PROVE  /\ MinusBounds(BoundAt(c, k), BoundAt(v, k)) \in Safe
             /\ MinusBounds(BoundAt(v, k), BoundAt(c, k)) \in Safe
  <2>1. PICK b : b = BoundAt(c, k) /\ b \in Bounds /\ b.lo = b.hi /\ b.lo \in Int /\ Small(b)
    BY <1>5, ConstantBound
  <2>2. PICK e : e = BoundAt(v, k) /\ e \in Bounds /\ Small(e)
    BY <1>5, RegularLimb
  <2>3. e.lo \in Int /\ e.hi \in Int /\ b.lo \in Int /\ b.hi \in Int
    BY <2>1, <2>2 DEF Bounds
  <2>4. ASSUME NEW p \in Int, NEW q \in Int, 2 - 2 * B <= p, p <= 2 * B - 2,
               2 - 2 * B <= q, q <= 2 * B - 2, q - p <= 2 * B - 2
        PROVE  [lo |-> p, hi |-> q] \in Safe
    <3>1. p \in -Limit .. Limit /\ q \in -Limit .. Limit /\ q - p <= Limit
      BY <1>4, <2>4
    <3> QED BY <3>1 DEF Safe
  <2>5. PICK u \in Int, h \in Int, z \in Int :
          /\ e.lo = u /\ e.hi = h /\ b.lo = z /\ b.hi = z
          /\ 1 - B <= u /\ u <= B - 1 /\ 1 - B <= h /\ h <= B - 1 /\ 1 - B <= z /\ z <= B - 1
    BY <2>1, <2>2, <2>3 DEF Small
  <2>6. MinusBounds(b, e) = [lo |-> z - h, hi |-> z - u] /\ MinusBounds(e, b) = [lo |-> u - z, hi |-> h - z]
    BY <2>5 DEF MinusBounds
  <2>7. [lo |-> z - h, hi |-> z - u] \in Safe
    <3>1. PICK p \in Int, q \in Int : p = z - h /\ q = z - u
      OBVIOUS
    <3>2. 2 - 2 * B <= p /\ p <= 2 * B - 2 /\ 2 - 2 * B <= q /\ q <= 2 * B - 2 /\ q - p <= 2 * B - 2
      BY <1>4, <2>5, <3>1
    <3>3. [lo |-> p, hi |-> q] \in Safe
      BY <2>4, <3>2
    <3> QED BY <3>1, <3>3
  <2>8. [lo |-> u - z, hi |-> h - z] \in Safe
    <3>1. PICK p \in Int, q \in Int : p = u - z /\ q = h - z
      OBVIOUS
    <3>2. 2 - 2 * B <= p /\ p <= 2 * B - 2 /\ 2 - 2 * B <= q /\ q <= 2 * B - 2 /\ q - p <= 2 * B - 2
      BY <1>4, <2>5, <3>1
    <3>3. [lo |-> p, hi |-> q] \in Safe
      BY <2>4, <3>2
    <3> QED BY <3>1, <3>3
  <2> QED BY <2>1, <2>2, <2>6, <2>7, <2>8
<1>6. IsSafe(Difference(c, v)) /\ IsSafe(Difference(v, c))
  <2>1. Longer(v, c) \in Nat /\ Longer(c, v) \in Nat
    BY <1>1, DifferenceIs
  <2>2. ASSUME NEW k \in DOMAIN Difference(c, v).bounds PROVE Difference(c, v).bounds[k] \in Safe
    <3>1. k \in 1 .. Longer(c, v)
      BY DEF Difference, Variable
    <3>2. k \in Nat /\ k >= 1
      BY <2>1, <3>1
    <3>3. Difference(c, v).bounds[k] = MinusBounds(BoundAt(c, k), BoundAt(v, k))
      BY <1>1, <3>1, DifferenceLimb
    <3> QED BY <1>5, <3>2, <3>3
  <2>3. ASSUME NEW k \in DOMAIN Difference(v, c).bounds PROVE Difference(v, c).bounds[k] \in Safe
    <3>1. k \in 1 .. Longer(v, c)
      BY DEF Difference, Variable
    <3>2. k \in Nat /\ k >= 1
      BY <2>1, <3>1
    <3>3. Difference(v, c).bounds[k] = MinusBounds(BoundAt(v, k), BoundAt(c, k))
      BY <1>1, <3>1, DifferenceLimb
    <3> QED BY <1>5, <3>2, <3>3
  <2> QED BY <2>2, <2>3 DEF IsSafe
<1> QED BY <1>3, <1>6 DEF Comparable

\* What is full is just what the bits of the hint can express.
LEMMA FullIsWithin ==
  ASSUME NEW b \in Bounds, NEW h \in Hints(b), IsFull(b)
  PROVE  Between(HintInt(h), b)
<1>1. b.lo \in Int /\ b.hi \in Int
  BY DEF Bounds
<1>2. PICK u \in Nat : u = 2 ^ BitsOf(b.lo, b.hi)
  BY <1>1, BitsOfAre
<1>3. /\ h.neg \in (IF b.lo >= 0 THEN {FALSE} ELSE IF b.hi <= 0 THEN {TRUE} ELSE BOOLEAN)
      /\ h.magnitude \in 0 .. u - 1
  BY <1>2 DEF Hints, BitsOf
<1>4. \/ b.lo = 0 /\ b.hi + 1 = u
      \/ 1 - b.lo = u /\ b.hi = 0
      \/ 1 - b.lo = u /\ b.hi + 1 = u
  BY <1>2 DEF IsFull, BitsOf
<1>5. PICK m \in Nat : m = h.magnitude /\ m <= u - 1
  BY <1>3
<1>6. CASE h.neg
  <2>1. ~(b.lo >= 0)
    BY <1>3, <1>6
  <2>2. HintInt(h) = -m
    BY <1>5, <1>6 DEF HintInt
  <2> QED BY <1>1, <1>4, <1>5, <2>1, <2>2 DEF Between
<1>7. CASE ~h.neg
  <2>1. b.lo >= 0 \/ ~(b.hi <= 0)
    BY <1>1, <1>3, <1>7
  <2>2. HintInt(h) = m
    BY <1>5, <1>7 DEF HintInt
  <2> QED BY <1>1, <1>4, <1>5, <2>1, <2>2 DEF Between
<1> QED BY <1>6, <1>7

\* Some witness satisfies enforce_lt exactly if the integer is less.
LEMMA LtSoundly ==
  ASSUME NEW x, Regular(x), NEW y, Regular(y), Lt(x, y)
  PROVE  x.int < y.int
<1>1. PICK d : d = Difference(y, x)
  OBVIOUS
<1>2. PICK helper : LtHolds(d, helper)
  BY <1>1 DEF Lt
<1> QED BY <1>1, <1>2, LtSound

LEMMA LtCompletely ==
  ASSUME NEW x, Regular(x), Exact(x), NEW y, Regular(y), Exact(y), Comparable(x, y), x.int < y.int
  PROVE  Lt(x, y)
<1>1. PICK d : d = Difference(y, x)
  OBVIOUS
<1>2. LtHolds(d, HighestPositive(d))
  BY <1>1, LtComplete
<1>3. HighestPositive(d) \in Helpers(d)
  <2>1. PICK S : HighestPositive(d) = [k \in DOMAIN d.limbs |-> S # {} /\ k = Max(S)]
    BY DEF HighestPositive
  <2>2. \A k \in DOMAIN d.limbs : (S # {} /\ k = Max(S)) \in BOOLEAN
    OBVIOUS
  <2> QED BY <2>1, <2>2 DEF Helpers
<1> QED BY <1>1, <1>2, <1>3 DEF Lt

\* new_variable accepts the hints of an integer exactly if it lies within the bounds.
LEMMA RangeChecked ==
  ASSUME NEW b \in Bounds, NEW h \in Hints(b), NEW v, v = Allocated(b, h)
  PROVE  InRange(b, v) <=> Between(v.int, b)
<1>1. /\ h.neg \in BOOLEAN /\ h.magnitude \in Nat /\ h.magnitude < 2 ^ BitsOf(b.lo, b.hi)
      /\ HintInt(h) \in Int /\ b.lo \in Int /\ b.hi \in Int
  BY HintFacts
<1>2. /\ Regular(v) /\ v.int = HintInt(h) /\ ~v.const
      /\ Between(HintInt(h), b) => Exact(v)
  BY <1>1, AllocatedIs
<1>3. PICK hi \in Int, lo \in Int : hi = b.hi + 1 /\ lo = b.lo - 1
  BY <1>1
<1>4. PICK top : top = Constant(hi) /\ Regular(top) /\ Exact(top) /\ top.int = hi
  BY ConstantIs
<1>5. PICK low : low = Constant(lo) /\ Regular(low) /\ Exact(low) /\ low.int = lo
  BY ConstantIs
<1>6. InRange(b, v) <=> (IsFull(b) \/ (Lt(v, top) /\ Lt(low, v)))
  BY <1>2, <1>3, <1>4, <1>5 DEF InRange
<1>7. ASSUME IsFull(b) PROVE Between(v.int, b)
  BY <1>2, <1>7, FullIsWithin
<1>8. ASSUME Lt(v, top), Lt(low, v) PROVE Between(v.int, b)
  <2>1. v.int < hi
    BY <1>2, <1>4, <1>8, LtSoundly
  <2>2. lo < v.int
    BY <1>2, <1>5, <1>8, LtSoundly
  <2>3. v.int \in Int
    BY <1>1, <1>2
  <2> QED BY <1>1, <1>3, <2>1, <2>2, <2>3 DEF Between
<1>9. ASSUME Between(v.int, b) PROVE Lt(v, top) /\ Lt(low, v)
  <2>1. Exact(v)
    BY <1>2, <1>9
  <2>2. Comparable(v, top) /\ Comparable(low, v)
    BY <1>2, <1>4, <1>5, ComparableWithConstant
  <2>3. lo < v.int /\ v.int < hi
    BY <1>1, <1>2, <1>3, <1>9 DEF Between
  <2>4. Lt(v, top)
    BY <1>2, <1>4, <2>1, <2>2, <2>3, LtCompletely
  <2>5. Lt(low, v)
    BY <1>2, <1>5, <2>1, <2>2, <2>3, LtCompletely
  <2> QED BY <2>4, <2>5
<1> QED BY <1>6, <1>7, <1>8, <1>9

\* What new_variable leaves is sound: its limbs are digits, and within their bounds.
Kept(v) == Exact(v) /\ (v.aligned => Regular(v))

LEMMA AllocatedKept ==
  ASSUME NEW b \in Bounds, NEW h \in Hints(b), InRange(b, Allocated(b, h))
  PROVE  Kept(Allocated(b, h))
<1>1. PICK v : v = Allocated(b, h)
  OBVIOUS
<1>2. /\ h.neg \in BOOLEAN /\ h.magnitude \in Nat /\ h.magnitude < 2 ^ BitsOf(b.lo, b.hi)
  BY HintFacts
<1>3. /\ Regular(v) /\ v.int = HintInt(h)
      /\ Between(HintInt(h), b) => Exact(v)
  BY <1>1, <1>2, AllocatedIs
<1>4. Between(v.int, b)
  BY <1>1, RangeChecked
<1> QED BY <1>1, <1>3, <1>4 DEF Kept

LEMMA InferredKept ==
  ASSUME NEW u, NEW b \in Bounds, NEW h \in Hints(b), NEW v, v = Inferred(u, b, h), InRange(b, v)
  PROVE  Kept(v)
<1>1. CASE IsConstant(u)
  <2>1. HintInt(h) \in Int
    BY HintFacts
  <2>2. v = Constant(HintInt(h))
    BY <1>1 DEF Inferred
  <2> QED BY <2>1, <2>2, ConstantIs DEF Kept
<1>2. CASE ~IsConstant(u)
  <2>1. v = Allocated(b, h)
    BY <1>2 DEF Inferred
  <2> QED BY <2>1, AllocatedKept
<1> QED BY <1>1, <1>2

\* from_bits_le
LEMMA FromBitsKept ==
  ASSUME NEW n \in Nat, n >= 1, NEW x \in Nat, x < 2 ^ n
  PROVE  Kept(FromBits(x, n))
<1>1. PICK u \in Nat : u = 2 ^ n /\ u >= 2
  <2>1. n - 1 \in Nat /\ (n - 1) + 1 = n
    OBVIOUS
  <2>2. 2 ^ (n - 1) \in Nat /\ 2 ^ ((n - 1) + 1) = 2 * 2 ^ (n - 1) /\ n - 1 < 2 ^ (n - 1)
    BY <2>1, PowerDoubles, PowerPositive
  <2>3. PICK p \in Nat : p = 2 ^ (n - 1) /\ 2 ^ n = 2 * p /\ p > 0
    BY <2>1, <2>2
  <2> QED BY <2>3
<1> DEFINE b == [lo |-> 0, hi |-> u - 1]
           h == [neg |-> FALSE, magnitude |-> x]
<1>2. b \in Bounds /\ b.lo = 0 /\ b.hi = u - 1 /\ b.lo \in Int /\ b.hi \in Int
  BY DEF Bounds
<1>3. Bits(u - 1) = n
  <2>1. u - 1 \in Int /\ Abs(u - 1) = u - 1
    BY <1>1 DEF Abs
  <2>2. n - 1 \in Nat /\ (n - 1) + 1 = n
    OBVIOUS
  <2>3. 2 ^ (n - 1) \in Nat /\ 2 ^ ((n - 1) + 1) = 2 * 2 ^ (n - 1)
    BY <2>2, PowerDoubles
  <2>4. PICK p \in Nat : p = 2 ^ (n - 1) /\ u = 2 * p
    BY <1>1, <2>2, <2>3
  <2>5. 2 ^ (n - 1) <= Abs(u - 1) /\ Abs(u - 1) < 2 ^ n
    BY <1>1, <2>1, <2>4
  <2> QED BY <2>1, <2>5, BitsExact
<1>4. BitsOf(0, u - 1) = n
  <2>1. Bits(0) = 0
    BY DEF Bits
  <2>2. PICK z \in Int, c \in Int : z = 0 /\ c = n
    OBVIOUS
  <2>4. Max({z, c}) \in {z, c} /\ Max({z, c}) >= z /\ Max({z, c}) >= c
    BY MaxOfTwo
  <2>3. Max({0, n}) = n
    BY <2>2, <2>4
  <2> QED BY <1>3, <2>1, <2>3 DEF BitsOf
<1>5. FromBits(x, n) = Allocated(b, h)
  <2>1. HintInt(h) = x
    BY DEF HintInt
  <2>2. Max({Bits(b.lo), Bits(b.hi)}) = n
    BY <1>2, <1>4 DEF BitsOf
  <2>3. h.neg = FALSE /\ h.magnitude = x
    OBVIOUS
  <2> HIDE DEF b, h
  <2>4. Allocated(b, h) = Aligned(Variable(WithSign(FALSE, Digits(x, n)), ComputeBounds(0, u - 1), x, FALSE))
    BY <1>2, <2>1, <2>2, <2>3 DEF Allocated
  <2> QED BY <1>1, <2>4 DEF FromBits
<1>6. h.neg \in BOOLEAN /\ h.magnitude \in Nat /\ h.magnitude < 2 ^ BitsOf(b.lo, b.hi)
  BY <1>1, <1>2, <1>4
<1>7. Between(HintInt(h), b)
  BY <1>1 DEF HintInt, Between
<1> HIDE DEF b, h
<1>8. /\ Regular(Allocated(b, h))
      /\ Between(HintInt(h), b) => Exact(Allocated(b, h))
  BY <1>2, <1>6, AllocatedIs
<1> QED BY <1>5, <1>7, <1>8 DEF Kept

(***************************************************************************)
(* The inductive invariant                                                 *)
(***************************************************************************)
StoreKept == \A v \in store : Kept(v)

\* The calls whose hints, helpers or limbs the constraints force
Settled == {"allocate", "lt", "multiply", "same"}
Fits(judgement) ==
  judgement.call \in Settled =>
    /\ judgement.accepted => judgement.meant
    /\ judgement.honest /\ judgement.meant => judgement.accepted

LEMMA JudgedIs ==
  ASSUME NEW call, NEW honest, NEW accepted, NEW meant, NEW j, j = Judged(call, honest, accepted, meant)
  PROVE  j.call = call /\ j.honest = honest /\ j.accepted = accepted /\ j.meant = meant
  BY DEF Judged

LEMMA NoVerdictFits == Fits(NoVerdict)
  BY DEF Fits, NoVerdict, Judged, Settled

LEMMA CreateKeeps ==
  ASSUME StoreKept, NEW v, NEW j, Create(v, j), j.accepted => Kept(v)
  PROVE  StoreKept' /\ verdict' = j
<1>1. store' \subseteq store \cup {v} /\ (~j.accepted => store' = store) /\ verdict' = j
  BY DEF Create
<1>2. ASSUME NEW u \in store' PROVE Kept(u)
  BY <1>1, <1>2 DEF StoreKept
<1> QED BY <1>1, <1>2 DEF StoreKept

LEMMA CreateUnjudged ==
  ASSUME StoreKept, NEW v, Create(v, NoVerdict), Kept(v)
  PROVE  StoreKept' /\ Fits(verdict')
<1>1. StoreKept' /\ verdict' = NoVerdict
  BY CreateKeeps
<1> QED BY <1>1, NoVerdictFits

LEMMA EnforceKeeps ==
  ASSUME StoreKept, NEW j, Enforce(j)
  PROVE  StoreKept' /\ verdict' = j
  BY DEF StoreKept, Enforce

\* What is not aligned is kept if it is exact.
LEMMA UnalignedKept ==
  ASSUME NEW limbs, NEW b, NEW int, NEW const, NEW v, v = Variable(limbs, b, int, const), Exact(v)
  PROVE  Kept(v)
  BY DEF Kept, Variable

(***************************************************************************)
(* Operations                                                              *)
(***************************************************************************)
LEMMA AllocateRight ==
  ASSUME StoreKept, NEW b \in Bounds, NEW h \in Hints(b), Allocate(b, h)
  PROVE  StoreKept' /\ Fits(verdict')
<1>1. PICK v : v = Allocated(b, h)
  OBVIOUS
<1>2. PICK j, right : /\ j = Judged("allocate", right, InRange(b, v), Between(v.int, b))
                      /\ Create(v, j)
  BY <1>1 DEF Allocate
<1>3. /\ j.call = "allocate" /\ j.honest = right
      /\ j.accepted = InRange(b, v) /\ j.meant = Between(v.int, b)
  BY <1>2, JudgedIs
<1>4. InRange(b, v) <=> Between(v.int, b)
  BY <1>1, RangeChecked
<1>5. j.accepted => Kept(v)
  BY <1>1, <1>3, AllocatedKept
<1>6. StoreKept' /\ verdict' = j
  BY <1>2, <1>5, CreateKeeps
<1>7. Fits(j)
  BY <1>3, <1>4 DEF Fits
<1> QED BY <1>6, <1>7

LEMMA AllocateConstantKeeps ==
  ASSUME StoreKept, NEW x \in Int, AllocateConstant(x)
  PROVE  StoreKept' /\ Fits(verdict')
<1>1. Kept(Constant(x))
  BY ConstantIs DEF Kept
<1>2. Create(Constant(x), NoVerdict)
  BY DEF AllocateConstant
<1> QED BY <1>1, <1>2, CreateUnjudged

LEMMA AllocateBitsKeeps ==
  ASSUME StoreKept, NEW x \in 0 .. 2 ^ Bits(M) - 1, AllocateBits(Bits(M), x)
  PROVE  StoreKept' /\ Fits(verdict')
<1>1. M \in Int /\ M # 0
  BY ModulusAssumption
<1>2. Bits(M) \in Nat /\ Bits(M) >= 1 /\ 2 ^ Bits(M) \in Nat
  BY <1>1, BitsAre, PowerPositive
<1>3. PICK n \in Nat : n = Bits(M) /\ n >= 1 /\ 2 ^ n \in Nat
  BY <1>2
<1>4. x \in Nat /\ x < 2 ^ n
  BY <1>3
<1>5. Kept(FromBits(x, n))
  BY <1>3, <1>4, FromBitsKept
<1>6. Create(FromBits(x, n), NoVerdict)
  BY <1>3 DEF AllocateBits
<1> QED BY <1>5, <1>6, CreateUnjudged

LEMMA AddKeeps ==
  ASSUME StoreKept, NEW x \in store, NEW y \in store, Add(x, y) \/ Subtract(x, y)
  PROVE  StoreKept' /\ Fits(verdict')
<1>1. Exact(x) /\ Exact(y)
  BY DEF StoreKept, Kept
<1>2. CASE Add(x, y)
  <2>1. PICK v : v = Sum(x, y) /\ IsSafe(v) /\ Create(v, NoVerdict)
    BY <1>2 DEF Add
  <2>2. Exact(v)
    BY <1>1, <2>1, SumExact
  <2>3. ~v.aligned
    BY <2>1 DEF Sum, Variable
  <2>4. Kept(v)
    BY <2>2, <2>3 DEF Kept
  <2> QED BY <2>1, <2>4, CreateUnjudged
<1>3. CASE Subtract(x, y)
  <2>1. PICK v : v = Difference(x, y) /\ IsSafe(v) /\ Create(v, NoVerdict)
    BY <1>3 DEF Subtract
  <2>2. Exact(v)
    BY <1>1, <2>1, SumExact
  <2>3. ~v.aligned
    BY <2>1 DEF Difference, Variable
  <2>4. Kept(v)
    BY <2>2, <2>3 DEF Kept
  <2> QED BY <2>1, <2>4, CreateUnjudged
<1> QED BY <1>2, <1>3

LEMMA MultiplyConstantKeeps ==
  ASSUME StoreKept, NEW x \in store, NEW y \in store, MultiplyConstant(x, y)
  PROVE  StoreKept' /\ Fits(verdict')
<1>1. Exact(x) /\ Exact(y)
  BY DEF StoreKept, Kept
<1>2. ProductLength(x, y) >= 0 /\ IsSafe(Product(x, y)) /\ Create(Product(x, y), NoVerdict)
  BY DEF MultiplyConstant, Multiplicable
<1>3. Exact(Product(x, y))
  BY <1>1, <1>2, ProductExact
<1>4. ~Product(x, y).aligned
  BY DEF Product, Variable
<1>5. Kept(Product(x, y))
  BY <1>3, <1>4 DEF Kept
<1> QED BY <1>2, <1>5, CreateUnjudged

LEMMA MultiplyRowKeeps ==
  ASSUME StoreKept, NEW x \in store, NEW y \in store, MultiplyRow(<<x, y>>, <<y, y>>)
  PROVE  StoreKept' /\ Fits(verdict')
<1>1. Exact(x) /\ Exact(y)
  BY DEF StoreKept, Kept
<1>2. ProductLength(x, y) >= 0 /\ ProductLength(y, y) >= 0
  <2>1. \A j \in DOMAIN <<x, y>> : ProductLength(<<x, y>>[j], <<y, y>>[j]) >= 0
    BY DEF MultiplyRow
  <2>2. 1 \in DOMAIN <<x, y>> /\ 2 \in DOMAIN <<x, y>>
    BY Pair
  <2>3. ProductLength(<<x, y>>[1], <<y, y>>[1]) >= 0 /\ ProductLength(<<x, y>>[2], <<y, y>>[2]) >= 0
    BY <2>1, <2>2
  <2> QED BY <2>3, Pair
<1>3. PICK v : v = RowProduct(<<x, y>>, <<y, y>>) /\ IsSafe(v) /\ Create(v, NoVerdict)
  BY DEF MultiplyRow
<1>4. Exact(v)
  BY <1>1, <1>2, <1>3, RowProductExact
<1>5. ~v.aligned
  BY <1>3 DEF RowProduct, Variable
<1>6. Kept(v)
  BY <1>4, <1>5 DEF Kept
<1> QED BY <1>3, <1>6, CreateUnjudged

LEMMA SelectKeeps ==
  ASSUME StoreKept, NEW x \in store, NEW y \in store, NEW cond, Select(cond, x, y)
  PROVE  StoreKept' /\ Fits(verdict')
<1>1. PICK u \in store : u = IF cond THEN x ELSE y
  OBVIOUS
<1>2. Kept(u)
  BY DEF StoreKept
<1>3. PICK v : v = [u EXCEPT !.const = FALSE] /\ Create(v, NoVerdict)
  BY <1>1 DEF Select
<1>4. u \in VariableSet
  BY <1>2 DEF Kept, Exact
<1>5. /\ v \in VariableSet /\ v.limbs = u.limbs /\ v.bounds = u.bounds
      /\ v.int = u.int /\ v.aligned = u.aligned
  BY <1>3, <1>4 DEF VariableSet
<1>6. Exact(u) => Exact(v)
  BY <1>5 DEF Exact
<1>7. Regular(u) => Regular(v)
  BY <1>5 DEF Regular, Cut
<1>8. Kept(v)
  BY <1>2, <1>5, <1>6, <1>7 DEF Kept
<1> QED BY <1>3, <1>8, CreateUnjudged

\* Limbs that differ from a product's are told from it, as their residues are.
LEMMA TamperedLimb ==
  ASSUME NEW r \in Residues, NEW w \in -Limit .. Limit, Field(r + w) = r
  PROVE  w = 0
<1>1. Limit \in Nat /\ 2 * Limit < P
  BY LimitRange
<1>2. r \in Int /\ r + w \in Int /\ Field(r) = r /\ P \in Nat
  BY <1>1, SignedType, BaseType DEF Residues
<1>3. (r + w) - r < P /\ r - (r + w) < P
  BY <1>1, <1>2
<1>4. r + w = r
  BY <1>2, <1>3, KnownByResidue
<1> QED BY <1>1, <1>2, <1>4

LEMMA MultiplyRight ==
  ASSUME StoreKept, NEW x \in store, NEW y \in store, Multiply(x, y)
  PROVE  StoreKept' /\ Fits(verdict')
<1>1. Exact(x) /\ Exact(y)
  BY DEF StoreKept, Kept
<1>2. PICK p : p = Product(x, y)
  OBVIOUS
<1>3. PICK wrong, limbs, given, j :
        /\ wrong \in Tampering
        /\ DOMAIN wrong = 1 .. ProductLength(x, y)
        /\ limbs = [k \in DOMAIN wrong |-> Field(p.limbs[k] + wrong[k])]
        /\ given = (\A k \in DOMAIN wrong : wrong[k] = 0)
        /\ j = Judged("multiply", given, EvaluationsAgree(x, y, limbs), given)
        /\ Create([p EXCEPT !.limbs = limbs], j)
  BY <1>2 DEF Multiply
<1>4. ProductLength(x, y) >= 0 /\ IsSafe(p)
  BY <1>2 DEF Multiply, Multiplicable
<1>5. Exact(p) /\ p.limbs \in [1 .. ProductLength(x, y) -> Residues]
  BY <1>1, <1>2, <1>4, ProductExact
<1>6. PICK n \in Nat : n = ProductLength(x, y)
  <2>1. PICK l \in Nat, m \in Nat : l = Len(x.limbs) /\ m = Len(y.limbs)
    BY <1>1, ExactLimbs
  <2>2. ProductLength(x, y) = l + m - 1
    BY <2>1 DEF ProductLength
  <2>3. l + m - 1 >= 0
    BY <1>4, <2>2
  <2>4. l + m - 1 \in Nat
    BY <2>3
  <2> QED BY <2>2, <2>4
<1>7. n < P /\ wrong \in [1 .. n -> -Limit .. Limit]
  <2>1. PICK m \in 0 .. P - 1 : wrong \in [1 .. m -> -Limit .. Limit]
    BY <1>3, TamperingAssumption
  <2>2. P \in Nat /\ m \in Nat
    BY BaseType
  <2>3. 1 .. m = 1 .. n
    BY <1>3, <1>6, <2>1
  <2>4. m = n
    BY <2>2, <2>3
  <2> QED BY <2>1, <2>2, <2>4
<1>8. PICK l \in [1 .. n -> Residues] : l = p.limbs
  BY <1>5, <1>6
<1>9. limbs = [k \in 1 .. n |-> Field(l[k] + wrong[k])]
  BY <1>3, <1>7, <1>8
<1>10. limbs \in [1 .. n -> Residues]
  <2>1. ASSUME NEW k \in 1 .. n PROVE Field(l[k] + wrong[k]) \in Residues
    <3>1. l[k] \in Int /\ wrong[k] \in Int
      BY <1>7, <1>8, LimitRange, BaseType DEF Residues
    <3>2. l[k] + wrong[k] \in Int
      BY <3>1
    <3> QED BY <3>2, FieldType
  <2> QED BY <1>9, <2>1
<1>11. EvaluationsAgree(x, y, limbs) <=> limbs = l
  BY <1>1, <1>2, <1>6, <1>7, <1>8, <1>10, EvaluationsForce
<1>12. given <=> limbs = l
  <2>1. ASSUME given PROVE limbs = l
    <3>1. ASSUME NEW k \in 1 .. n PROVE limbs[k] = l[k]
      <4>1. wrong[k] = 0
        BY <1>3, <1>7, <2>1
      <4>2. l[k] \in Residues /\ l[k] + 0 = l[k]
        BY <1>8, BaseType DEF Residues
      <4>3. Field(l[k]) = l[k]
        BY <4>2, SignedType
      <4> QED BY <1>9, <4>1, <4>2, <4>3
    <3> QED BY <1>8, <1>10, <3>1
  <2>2. ASSUME limbs = l PROVE given
    <3>1. ASSUME NEW k \in 1 .. n PROVE wrong[k] = 0
      <4>1. PICK r \in Residues, w \in -Limit .. Limit : r = l[k] /\ w = wrong[k]
        BY <1>7, <1>8
      <4>2. Field(r + w) = r
        BY <1>9, <2>2, <4>1
      <4> QED BY <4>1, <4>2, TamperedLimb
    <3>2. DOMAIN wrong = 1 .. n
      BY <1>7
    <3> QED BY <1>3, <3>1, <3>2
  <2> QED BY <2>1, <2>2
<1>13. j.call = "multiply" /\ j.honest = given /\ j.accepted = EvaluationsAgree(x, y, limbs) /\ j.meant = given
  <2>1. PICK accepted : accepted = EvaluationsAgree(x, y, limbs)
    OBVIOUS
  <2>2. j = Judged("multiply", given, accepted, given)
    BY <1>3, <2>1
  <2> QED BY <2>1, <2>2, JudgedIs
<1>14. PICK v : v = [p EXCEPT !.limbs = limbs] /\ Create(v, j)
  BY <1>3
<1>15. j.accepted => Kept(v)
  <2> SUFFICES ASSUME j.accepted PROVE Kept(v)
    OBVIOUS
  <2>1. limbs = p.limbs
    BY <1>8, <1>11, <1>13
  <2>2. p \in VariableSet
    BY <1>5 DEF Exact
  <2>3. v = p
    BY <1>14, <2>1, <2>2 DEF VariableSet
  <2>4. ~p.aligned
    BY <1>2 DEF Product, Variable
  <2> QED BY <1>5, <2>3, <2>4 DEF Kept
<1>16. StoreKept' /\ verdict' = j
  BY <1>14, <1>15, CreateKeeps
<1>17. Fits(j)
  BY <1>11, <1>12, <1>13 DEF Fits
<1> QED BY <1>16, <1>17

LEMMA ReduceKeeps ==
  ASSUME StoreKept, NEW v \in store, Reduce(v)
  PROVE  StoreKept' /\ Fits(verdict')
<1>1. PICK hr, r, j, honest, accepted, meant :
        /\ hr \in Hints(ReducedBounds)
        /\ r = Inferred(v, ReducedBounds, hr)
        /\ j = Judged("reduce", honest, accepted /\ InRange(ReducedBounds, r), meant)
        /\ Create(r, j)
  <2>1. PICK hq \in Hints(QuotientBounds(v)), hr \in Hints(ReducedBounds) :
          LET q == Inferred(v, QuotientBounds(v), hq)
              r == Inferred(v, ReducedBounds, hr)
              right == hq = HintFor(v.int \div M) /\ hr = HintFor(v.int % M)
          IN  /\ IsConstant(v) => right
              /\ Create(r, Judged("reduce", right,
                               /\ Reduces(v, q, r)
                               /\ InRange(QuotientBounds(v), q) /\ InRange(ReducedBounds, r),
                               r.int = v.int % M))
    BY DEF Reduce
  <2>2. PICK q, r : q = Inferred(v, QuotientBounds(v), hq) /\ r = Inferred(v, ReducedBounds, hr)
    OBVIOUS
  <2>3. PICK honest, accepted, meant :
          /\ honest = (hq = HintFor(v.int \div M) /\ hr = HintFor(v.int % M))
          /\ accepted = (Reduces(v, q, r) /\ InRange(QuotientBounds(v), q))
          /\ meant = (r.int = v.int % M)
    OBVIOUS
  <2>4. (Reduces(v, q, r) /\ InRange(QuotientBounds(v), q) /\ InRange(ReducedBounds, r))
          = (accepted /\ InRange(ReducedBounds, r))
    BY <2>3
  <2>5. Create(r, Judged("reduce", honest, accepted /\ InRange(ReducedBounds, r), meant))
    BY <2>1, <2>2, <2>3, <2>4
  <2> QED BY <2>2, <2>5
<1>2. j.call = "reduce" /\ (j.accepted => InRange(ReducedBounds, r))
  BY <1>1 DEF Judged
<1>3. ReducedBounds \in Bounds
  BY ModulusAssumption DEF ReducedBounds, Bounds
<1>4. j.accepted => Kept(r)
  BY <1>1, <1>2, <1>3, InferredKept
<1>5. StoreKept' /\ verdict' = j
  BY <1>1, <1>4, CreateKeeps
<1>6. Fits(j)
  BY <1>2 DEF Fits, Settled
<1> QED BY <1>5, <1>6

LEMMA EnforceLtRight ==
  ASSUME StoreKept, NEW x \in store, NEW y \in store, EnforceLt(x, y)
  PROVE  StoreKept' /\ Fits(verdict')
<1>1. Exact(x) /\ Exact(y) /\ Regular(x) /\ Regular(y)
  BY DEF StoreKept, Kept, EnforceLt
<1>2. PICK d : d = Difference(y, x)
  OBVIOUS
<1>3. PICK helper, j : /\ j = Judged("lt", helper = HighestPositive(d), LtHolds(d, helper), x.int < y.int)
                       /\ Enforce(j)
  BY <1>2 DEF EnforceLt
<1>4. /\ j.call = "lt" /\ j.honest = (helper = HighestPositive(d))
      /\ j.accepted = LtHolds(d, helper) /\ j.meant = (x.int < y.int)
  BY <1>3 DEF Judged
<1>5. LtHolds(d, helper) => x.int < y.int
  BY <1>1, <1>2, LtSound
<1>6. x.int < y.int => LtHolds(d, HighestPositive(d))
  BY <1>1, <1>2, LtComplete
<1>7. Fits(j)
  BY <1>4, <1>5, <1>6 DEF Fits
<1> QED BY <1>3, <1>7, EnforceKeeps

LEMMA EnforceCongruentKeeps ==
  ASSUME StoreKept, NEW x \in store, NEW y \in store, EnforceCongruent(x, y)
  PROVE  StoreKept' /\ Fits(verdict')
<1>1. PICK honest, accepted, meant, j : j = Judged("congruent", honest, accepted, meant) /\ Enforce(j)
  BY DEF EnforceCongruent
<1>2. j.call = "congruent"
  BY <1>1, JudgedIs
<1>3. Fits(j)
  BY <1>2 DEF Fits, Settled
<1> QED BY <1>1, <1>3, EnforceKeeps

\* Variables of the same bounds have the same limbs exactly if they are the same integer.
LEMMA SameLimbs ==
  ASSUME NEW x, Regular(x), NEW y, Regular(y), x.bounds = y.bounds
  PROVE  x.limbs = y.limbs <=> x.int = y.int
<1>1. /\ x \in VariableSet /\ y \in VariableSet
      /\ Len(x.bounds) = Len(x.limbs) /\ Len(y.bounds) = Len(y.limbs)
      /\ Compose(x.limbs) = x.int /\ Compose(y.limbs) = y.int
  BY DEF Regular
<1>2. PICK n \in Nat : /\ n = Len(x.limbs) /\ n = Len(y.limbs)
                       /\ DOMAIN x.limbs = 1 .. n /\ DOMAIN y.limbs = 1 .. n
  BY <1>1, VariableType
<1>3. ASSUME x.int = y.int PROVE x.limbs = y.limbs
  <2>1. ASSUME NEW k \in 1 .. n PROVE x.limbs[k] = y.limbs[k]
    <3>1. k \in Nat /\ k >= 1
      OBVIOUS
    <3>2. LimbAt(x, k) = Field(SignedDigit(x.int, k))
      BY <3>1, RegularLimb
    <3>3. LimbAt(y, k) = Field(SignedDigit(y.int, k))
      BY <3>1, RegularLimb
    <3>4. LimbAt(x, k) = x.limbs[k] /\ LimbAt(y, k) = y.limbs[k]
      BY <1>2 DEF LimbAt
    <3> QED BY <1>3, <3>2, <3>3, <3>4
  <2>2. x.limbs \in Seq(Residues) /\ y.limbs \in Seq(Residues)
    BY <1>1 DEF VariableSet
  <2>3. x.limbs = [k \in 1 .. n |-> x.limbs[k]] /\ y.limbs = [k \in 1 .. n |-> y.limbs[k]]
    BY <1>2, <2>2
  <2>4. [k \in 1 .. n |-> x.limbs[k]] = [k \in 1 .. n |-> y.limbs[k]]
    BY <2>1
  <2> QED BY <2>3, <2>4
<1> QED BY <1>1, <1>3

LEMMA EnforceSameRight ==
  ASSUME StoreKept, NEW x \in store, NEW y \in store, EnforceSame(x, y)
  PROVE  StoreKept' /\ Fits(verdict')
<1>1. Regular(x) /\ Regular(y) /\ x.bounds = y.bounds
  BY DEF StoreKept, Kept, EnforceSame, SameBounds
<1>2. PICK j : j = Judged("same", TRUE, x.limbs = y.limbs, x.int = y.int) /\ Enforce(j)
  BY DEF EnforceSame
<1>3. /\ j.call = "same"
      /\ j.accepted = (x.limbs = y.limbs) /\ j.meant = (x.int = y.int)
  BY <1>2 DEF Judged
<1>4. x.limbs = y.limbs <=> x.int = y.int
  BY <1>1, SameLimbs
<1>5. Fits(j)
  BY <1>3, <1>4 DEF Fits
<1>6. Enforce(j)
  BY <1>2
<1>7. StoreKept' /\ verdict' = j
  BY <1>6, EnforceKeeps
<1> QED BY <1>5, <1>7

LEMMA LoopKeeps ==
  ASSUME StoreKept, Fits(verdict),
         (\E x, y \in store : BeginEqual(x, y)) \/ GroupNextLimb \/ EndEqual \/ Return
  PROVE  StoreKept' /\ Fits(verdict')
<1>1. store' = store
  BY DEF BeginEqual, GroupNextLimb, EndEqual, Return
<1>2. StoreKept'
  BY <1>1 DEF StoreKept
<1>3. CASE (\E x, y \in store : BeginEqual(x, y)) \/ GroupNextLimb
  <2>1. verdict' = verdict
    BY <1>3 DEF BeginEqual, GroupNextLimb
  <2> QED BY <1>2, <2>1
<1>4. CASE EndEqual
  <2>1. PICK j, accepted, meant : j = Judged("equal", TRUE, accepted, meant) /\ verdict' = j
    BY <1>4 DEF EndEqual
  <2>2. j.call = "equal"
    BY <2>1 DEF Judged
  <2>3. Fits(j)
    BY <2>2 DEF Fits, Settled
  <2> QED BY <1>2, <2>1, <2>3
<1>5. CASE Return
  BY <1>2, <1>5, NoVerdictFits DEF Return
<1> QED BY <1>3, <1>4, <1>5

LEMMA InvariantStarts == ASSUME Init PROVE StoreKept /\ Fits(verdict)
  BY NoVerdictFits DEF Init, StoreKept

LEMMA InvariantKept ==
  ASSUME StoreKept, Fits(verdict), [Next]_vars
  PROVE  StoreKept' /\ Fits(verdict')
<1>1. CASE UNCHANGED vars
  BY <1>1 DEF vars, StoreKept
<1>2. CASE Next
  <2>1. ASSUME NEW b \in Ranges \cup {FieldBounds}, NEW h \in Hints(b), Allocate(b, h)
        PROVE  StoreKept' /\ Fits(verdict')
    <3>1. FieldBounds \in Bounds
      BY ModulusAssumption DEF FieldBounds, Bounds
    <3>2. b \in Bounds
      BY <3>1, CallsAssumption
    <3> QED BY <2>1, <3>2, AllocateRight
  <2>2. ASSUME NEW x \in Constants, AllocateConstant(x) PROVE StoreKept' /\ Fits(verdict')
    <3>1. x \in Int
      BY CallsAssumption
    <3> QED BY <2>2, <3>1, AllocateConstantKeeps
  <2>3. ASSUME NEW x \in 0 .. 2 ^ Bits(M) - 1, AllocateBits(Bits(M), x)
        PROVE  StoreKept' /\ Fits(verdict')
    BY <2>3, AllocateBitsKeeps
  <2>4. ASSUME NEW x \in store, NEW y \in store, Add(x, y) \/ Subtract(x, y)
        PROVE  StoreKept' /\ Fits(verdict')
    BY <2>4, AddKeeps
  <2>5. ASSUME NEW x \in store, NEW y \in store, MultiplyConstant(x, y)
        PROVE  StoreKept' /\ Fits(verdict')
    BY <2>5, MultiplyConstantKeeps
  <2>6. ASSUME NEW x \in store, NEW y \in store, Multiply(x, y)
        PROVE  StoreKept' /\ Fits(verdict')
    BY <2>6, MultiplyRight
  <2>7. ASSUME NEW x \in store, NEW y \in store, MultiplyRow(<<x, y>>, <<y, y>>)
        PROVE  StoreKept' /\ Fits(verdict')
    BY <2>7, MultiplyRowKeeps
  <2>8. ASSUME NEW x \in store, NEW y \in store, NEW cond \in BOOLEAN, Select(cond, x, y)
        PROVE  StoreKept' /\ Fits(verdict')
    BY <2>8, SelectKeeps
  <2>9. ASSUME NEW x \in store, NEW y \in store, EnforceLt(x, y)
        PROVE  StoreKept' /\ Fits(verdict')
    BY <2>9, EnforceLtRight
  <2>10. ASSUME NEW x \in store, NEW y \in store, EnforceCongruent(x, y)
         PROVE  StoreKept' /\ Fits(verdict')
    BY <2>10, EnforceCongruentKeeps
  <2>11. ASSUME NEW x \in store, NEW y \in store, EnforceSame(x, y)
         PROVE  StoreKept' /\ Fits(verdict')
    BY <2>11, EnforceSameRight
  <2>12. ASSUME NEW v \in store, Reduce(v) PROVE StoreKept' /\ Fits(verdict')
    BY <2>12, ReduceKeeps
  <2>13. ASSUME (\E x, y \in store : BeginEqual(x, y)) \/ GroupNextLimb \/ EndEqual \/ Return
         PROVE  StoreKept' /\ Fits(verdict')
    BY <2>13, LoopKeeps
  <2> QED BY <1>2, <2>1, <2>2, <2>3, <2>4, <2>5, <2>6, <2>7, <2>8, <2>9, <2>10, <2>11, <2>12, <2>13 DEF Next
<1> QED BY <1>1, <1>2

LEMMA InvariantSays ==
  ASSUME StoreKept, Fits(verdict)
  PROVE  ValuesExact /\ ComparisonsForced /\ Forced({"multiply", "same"})
<1>1. ASSUME NEW v \in store
      PROVE  (\A k \in DOMAIN v.limbs : Between(Signed(v.limbs[k]), v.bounds[k])) /\ Compose(v.limbs) = v.int
  <2>1. Exact(v)
    BY DEF StoreKept, Kept
  <2>2. DOMAIN v.limbs = 1 .. Len(v.limbs)
    BY <2>1, ExactLimbs
  <2> QED BY <2>1, <2>2 DEF Exact
<1>2. ValuesExact
  BY <1>1 DEF ValuesExact
<1>3. ComparisonsForced
  BY DEF ComparisonsForced, Forced, Fits, Settled
<1>4. Forced({"multiply", "same"})
  BY DEF Forced, Fits, Settled
<1> QED BY <1>2, <1>3, <1>4

\* The limbs of every variable compose to the integer the operations would have given,
\* whatever the prover gave as hints: no limb wraps around in the constraint field.
THEOREM ValuesStayExact == Spec => []ValuesExact
<1>1. Init => StoreKept /\ Fits(verdict)
  BY InvariantStarts
<1>2. (StoreKept /\ Fits(verdict)) /\ [Next]_vars => (StoreKept /\ Fits(verdict))'
  BY InvariantKept
<1>3. StoreKept /\ Fits(verdict) => ValuesExact
  BY InvariantSays
<1> QED BY <1>1, <1>2, <1>3, PTL DEF Spec

\* Range checks of hints and enforce_lt accept nothing but what is within range, and less.
THEOREM ComparisonsAreForced == Spec => []ComparisonsForced
<1>1. Init => StoreKept /\ Fits(verdict)
  BY InvariantStarts
<1>2. (StoreKept /\ Fits(verdict)) /\ [Next]_vars => (StoreKept /\ Fits(verdict))'
  BY InvariantKept
<1>3. StoreKept /\ Fits(verdict) => ComparisonsForced
  BY InvariantSays
<1> QED BY <1>1, <1>2, <1>3, PTL DEF Spec

\* Of the hints for the limbs of a product, the evaluations accept the right ones and no
\* others; and aligned variables of the same bounds with the same limbs are one integer.
THEOREM ProductsForced == Spec => []Forced({"multiply", "same"})
<1>1. Init => StoreKept /\ Fits(verdict)
  BY InvariantStarts
<1>2. (StoreKept /\ Fits(verdict)) /\ [Next]_vars => (StoreKept /\ Fits(verdict))'
  BY InvariantKept
<1>3. StoreKept /\ Fits(verdict) => Forced({"multiply", "same"})
  BY InvariantSays
<1> QED BY <1>1, <1>2, <1>3, PTL DEF Spec

(***************************************************************************)
(* Equality of unaligned variables                                         *)
(***************************************************************************)
\* The field is prime, and not that of two elements: 2 has an inverse, and so have its powers.
LEMMA HalfExists == \E h \in Nat : Field(2 * h) = 1
<1>1. P \in Nat /\ P > 2
  BY BaseType
<1>2. PICK m \in Int, r \in 0 .. 1 : P = 2 * m + r
  <2>1. 2 \in Nat /\ 2 > 0 /\ P \in Int
    BY <1>1
  <2>2. P % 2 \in 0 .. 2 - 1 /\ P \div 2 \in Int /\ P = 2 * (P \div 2) + (P % 2)
    BY <2>1, Remainder
  <2> QED BY <2>2
<1>3. CASE r = 0
  <2>1. 2 \in 1 .. P - 1 /\ m \in 1 .. P - 1
    BY <1>1, <1>2, <1>3
  <2>2. (2 * m) % P # 0
    BY <2>1, PrimeAssumption
  <2>3. Field(P) = 0
    <3>1. P = P * 1 + 0 /\ 0 \in 0 .. P - 1 /\ P > 0
      BY <1>1
    <3> QED BY <1>1, <3>1, DivisionIs DEF Field
  <2> QED BY <1>2, <1>3, <2>2, <2>3 DEF Field
<1>4. CASE r = 1
  <2>1. 2 * (m + 1) = P * 1 + 1 /\ 1 \in 0 .. P - 1 /\ P > 0 /\ m + 1 \in Nat
    BY <1>1, <1>2, <1>4
  <2>2. PICK h \in Nat : h = m + 1
    BY <2>1
  <2>3. 2 * h \in Int /\ 1 \in Int /\ 2 * h = P * 1 + 1
    BY <2>1, <2>2
  <2>4. (2 * h) % P = 1
    BY <1>1, <2>1, <2>3, DivisionIs
  <2> QED BY <2>4 DEF Field
<1> QED BY <1>2, <1>3, <1>4

LEMMA InverseOfBase == InverseOfB \in Residues /\ Field(InverseOfB * B) = 1
<1>1. PICK h \in Nat : Field(2 * h) = 1
  BY HalfExists
<1>2. W \in Nat /\ P \in Nat /\ P > 2 /\ B = 2 ^ W
  BY BaseType
<1> DEFINE T == {k \in 0 .. W : \E v \in Residues : Field(v * 2 ^ k) = 1}
<1>3. 0 \in T
  <2>1. 2 ^ 0 = 1
    OBVIOUS
  <2>2. 1 \in Residues /\ 1 * 1 = 1
    BY <1>2 DEF Residues
  <2>3. Field(1) = 1
    BY <2>2, SignedType
  <2> QED BY <1>2, <2>1, <2>2, <2>3
<1>4. ASSUME NEW k \in 1 .. W, k - 1 \in T PROVE k \in T
  <2>1. PICK v \in Residues : Field(v * 2 ^ (k - 1)) = 1
    BY <1>4
  <2>2. k - 1 \in Nat /\ (k - 1) + 1 = k
    OBVIOUS
  <2>3. PICK p \in Nat : p = 2 ^ (k - 1) /\ 2 ^ k = 2 * p
    BY <2>2, PowerDoubles
  <2>4. v \in Int /\ v * h \in Int /\ v * p \in Int /\ 2 * h \in Int /\ 2 * p \in Int
    BY <1>2, SMT DEF Residues
  <2>5. PICK u \in Residues : u = Field(v * h)
    BY <2>4, FieldType
  <2>6. Field(u) = Field(v * h) /\ u \in Int
    BY <1>2, <2>5, SignedType DEF Residues
  <2>7. Field(u * (2 * p)) = Field((v * h) * (2 * p))
    <3>1. PICK a \in Int, b \in Int : a = v * h /\ b = 2 * p
      BY <2>4
    <3>2. Field(u) = Field(a)
      BY <2>6, <3>1
    <3>3. Field(u * b) = Field(a * b)
      BY <2>6, <3>2, FieldTimes
    <3> QED BY <3>1, <3>3
  <2>8. (v * h) * (2 * p) = (v * p) * (2 * h)
    BY <2>4, SMT
  <2>9. Field((v * p) * (2 * h)) = Field(1 * 1)
    <3>1. PICK a \in Int, b \in Int : a = v * p /\ b = 2 * h
      BY <2>4
    <3>2. Field(a) = 1 /\ Field(b) = 1
      BY <1>1, <2>1, <2>3, <3>1
    <3>3. 1 \in Residues /\ 1 \in Int
      BY <1>2 DEF Residues
    <3>4. Field(1) = 1
      BY <3>3, SignedType
    <3>5. Field(a) = Field(1) /\ Field(b) = Field(1)
      BY <3>2, <3>4
    <3>6. Field(a * b) = Field(1 * 1)
      BY <3>3, <3>5, FieldSum
    <3> QED BY <3>1, <3>6
  <2>10. Field(1 * 1) = 1
    <3>1. 1 * 1 = 1 /\ 1 \in Residues
      BY <1>2 DEF Residues
    <3> QED BY <3>1, SignedType
  <2>11. Field(u * 2 ^ k) = 1
    BY <2>3, <2>7, <2>8, <2>9, <2>10
  <2> QED BY <2>5, <2>11
<1>5. 0 .. W \subseteq T
  <2> HIDE DEF T
  <2> QED BY <1>2, <1>3, <1>4, UpTo
<1>6. \E v \in Residues : Field(v * B) = 1
  BY <1>2, <1>5
<1> QED BY <1>6 DEF InverseOfB, Residues

\* What the loop keeps of the limbs it has seen: a carry t, told by its residue
GroupSet == [carry : Residues, carry_bounds : Bounds, group_bounds : Bounds, unit : Nat]
Carries(g, t) == g \in GroupSet /\ g.carry = Field(t) /\ Between(t, g.carry_bounds)

LEMMA NothingCarried == Carries(NoGroup, 0)
<1>1. ZeroBounds \in Bounds /\ Between(0, ZeroBounds)
  BY ZeroIsBounds
<1>2. 0 \in Residues /\ Field(0) = 0
  BY ZeroSigned, FieldOfZero
<1> QED BY <1>1, <1>2 DEF Carries, GroupSet, NoGroup

LEMMA GroupLimbType ==
  ASSUME NEW g \in GroupSet, NEW limb \in Residues, NEW b \in Safe
  PROVE  /\ GroupLimb(g, limb, b) \in GroupSet
         /\ GroupLimb(g, limb, b).carry = Field((g.carry + limb) * InverseOfB)
         /\ GroupLimb(g, limb, b).carry_bounds = NextCarryBounds(g, b)
<1>1. /\ g.carry \in Residues /\ g.carry_bounds \in Bounds /\ g.group_bounds \in Bounds /\ g.unit \in Nat
  BY DEF GroupSet
<1>2. B \in Nat /\ B > 0 /\ P \in Nat
  BY BaseType
<1>3. b \in Bounds
  BY SafeFacts
<1>4. ASSUME NEW a \in Bounds, NEW u \in Nat PROVE ShiftLeft(a, u) \in Bounds
  <2>1. a.lo \in Int /\ a.hi \in Int
    BY DEF Bounds
  <2>2. a.lo * u \in Int /\ a.hi * u \in Int
    BY <2>1, Multiplied
  <2> QED BY <2>2 DEF ShiftLeft, Bounds
<1>5. NextCarryBounds(g, b) \in Bounds
  <2>1. PICK a \in Bounds : a = PlusBounds(g.carry_bounds, b)
    BY <1>1, <1>3, SumBoundsType
  <2>2. a.lo \in Int /\ a.hi \in Int
    BY DEF Bounds
  <2>3. CeilDiv(a.lo, B) \in Int /\ a.hi \div B \in Int
    BY <1>2, <2>2, Division
  <2> QED BY <2>1, <2>3 DEF NextCarryBounds, ShiftRightNarrower, Bounds
<1>6. Extended(g, b) \in Bounds
  <2>1. ShiftLeft(b, g.unit) \in Bounds
    BY <1>1, <1>3, <1>4
  <2> QED BY <1>1, <2>1, SumBoundsType DEF Extended
<1>7. ShiftLeft(NextCarryBounds(g, b), B) \in Bounds
  BY <1>2, <1>4, <1>5
<1>8. Field((g.carry + limb) * InverseOfB) \in Residues
  <2>1. g.carry \in Int /\ limb \in Int /\ InverseOfB \in Int
    BY <1>1, <1>2, InverseOfBase DEF Residues
  <2>2. PICK s \in Int, i \in Int : s = g.carry + limb /\ i = InverseOfB
    BY <2>1
  <2>3. s * i \in Int
    BY Multiplied
  <2> QED BY <2>2, <2>3, FieldType
<1>9. g.unit * B \in Nat
  BY <1>1, <1>2, SMT
<1> QED BY <1>2, <1>5, <1>6, <1>7, <1>8, <1>9 DEF GroupLimb, GroupSet

\* With the next limb, a carry that B divides is the quotient.
LEMMA NextCarry ==
  ASSUME NEW g, NEW t \in Int, Carries(g, t), NEW limb \in Residues, NEW b \in Safe,
         Between(Signed(limb), b), NEW s \in Int, t + Signed(limb) = s * B
  PROVE  Carries(GroupLimb(g, limb, b), s)
<1>1. g \in GroupSet /\ g.carry = Field(t) /\ Between(t, g.carry_bounds)
  BY DEF Carries
<1>2. g.carry \in Residues /\ g.carry_bounds \in Bounds
  BY <1>1 DEF GroupSet
<1>3. PICK n : /\ n = GroupLimb(g, limb, b) /\ n \in GroupSet
               /\ n.carry = Field((g.carry + limb) * InverseOfB)
               /\ n.carry_bounds = NextCarryBounds(g, b)
  BY <1>1, GroupLimbType
<1>4. PICK val \in Int : val = Signed(limb) /\ Field(val) = limb
  BY SignedType
<1>5. P \in Nat /\ B \in Nat /\ B > 0
  BY BaseType
<1>6. n.carry = Field(s)
  <2>1. PICK i \in Int : i = InverseOfB /\ Field(i * B) = 1
    BY <1>5, InverseOfBase DEF Residues
  <2>2. PICK a \in Int, l \in Int : a = g.carry /\ l = limb
    BY <1>2, <1>5 DEF Residues
  <2>3. Field(a) = Field(t) /\ Field(l) = Field(val)
    <3>1. Field(g.carry) = g.carry /\ Field(limb) = limb
      BY <1>2, SignedType
    <3> QED BY <1>1, <1>4, <2>2, <3>1
  <2>4. Field(a + l) = Field(t + val)
    BY <2>3, FieldSum
  <2>5. t + val = s * B
    BY <1>4
  <2>6. PICK e \in Int, z \in Int : e = a + l /\ z = s * B /\ Field(e) = Field(z)
    <3>1. s * B \in Int /\ a + l \in Int
      BY <1>5, Multiplied
    <3> QED BY <2>4, <2>5, <3>1
  <2>7. Field(e * i) = Field(z * i)
    BY <2>6, FieldTimes
  <2>8. (s * B) * i = s * (i * B)
    BY <1>5, SMT
  <2>9. Field(s * (i * B)) = Field(s)
    <3>1. PICK u \in Int : u = i * B
      BY <1>5, Multiplied
    <3>2. Field(u) = Field(1)
      <4>1. 1 \in Residues
        BY BaseType DEF Residues
      <4>2. Field(1) = 1
        BY <4>1, SignedType
      <4> QED BY <2>1, <3>1, <4>2
    <3>3. Field(s * u) = Field(s * 1)
      BY <3>2, FieldTimes
    <3>4. s * 1 = s
      OBVIOUS
    <3> QED BY <3>1, <3>3, <3>4
  <2> QED BY <1>3, <2>1, <2>2, <2>6, <2>7, <2>8, <2>9
<1>7. Between(s, n.carry_bounds)
  <2>1. b \in Bounds
    BY SafeFacts
  <2>2. PICK c : c = PlusBounds(g.carry_bounds, b) /\ c \in Bounds
    BY <1>2, <2>1, SumBoundsType
  <2>3. Between(t + val, c)
    BY <1>1, <1>2, <1>4, <2>1, <2>2, SumWithinBounds
  <2>4. Between(s * B, c)
    BY <1>4, <2>3
  <2>5. Between(s, ShiftRightNarrower(c, B))
    BY <1>5, <2>2, <2>4, QuotientWithinBounds
  <2> QED BY <1>3, <2>2, <2>5 DEF NextCarryBounds
<1> QED BY <1>3, <1>6, <1>7 DEF Carries

\* The range check of a carry within its bounds
LEMMA CarryWithinFits == ASSUME NEW g, NEW t \in Int, Carries(g, t) PROVE CarryFits(g)
<1>1. /\ g.carry \in Residues /\ g.carry_bounds.lo \in Int /\ g.carry_bounds.hi \in Int
      /\ g.carry = Field(t) /\ g.carry_bounds.lo <= t /\ t <= g.carry_bounds.hi
  BY DEF Carries, GroupSet, Bounds, Between
<1>2. PICK lo \in Int, hi \in Int, r \in Int :
        lo = g.carry_bounds.lo /\ hi = g.carry_bounds.hi /\ r = g.carry
  BY <1>1, BaseType DEF Residues
<1>3. P \in Nat /\ P > 0
  BY BaseType
<1>4. Field(r - lo) = Field(t - lo)
  <2>1. Field(r) = Field(t) /\ Field(lo) = Field(lo)
    BY <1>1, <1>2, SignedType
  <2> QED BY <2>1, FieldMinus
<1>5. PICK z \in Nat : z = t - lo /\ z <= hi - lo
  <2>1. lo <= t /\ t <= hi
    BY <1>1, <1>2
  <2>2. t - lo \in Nat /\ t - lo <= hi - lo
    BY <2>1
  <2> QED BY <2>2
<1>6. Field(z) <= z /\ Field(z) \in Int
  <2>1. z \in Int
    OBVIOUS
  <2>2. z % P \in 0 .. P - 1 /\ z \div P \in Int /\ z = P * (z \div P) + (z % P)
    BY <1>3, <2>1, Remainder
  <2>3. z \div P \in Nat
    BY <1>3, SMT
  <2>4. PICK q \in Nat, m \in Nat, e \in Int : q = z \div P /\ m = P * q /\ e = z % P
    <3>1. PICK q \in Nat : q = z \div P
      BY <2>3
    <3>2. P * q \in Nat
      BY <1>3, SMT
    <3>3. z % P \in Int
      BY <1>3, <2>2
    <3> QED BY <3>1, <3>2, <3>3
  <2>5. z = m + e
    BY <2>2, <2>4
  <2> QED BY <2>4, <2>5 DEF Field
<1>7. PICK w \in Nat : w = (hi - lo) + 1 /\ z < w
  BY <1>5
<1>8. w < 2 ^ Bits(w) /\ 2 ^ Bits(w) \in Nat
  <2>1. Abs(w) = w /\ w \in Int
    BY DEF Abs
  <2>2. Bits(w) \in Nat /\ Abs(w) < 2 ^ Bits(w)
    BY <2>1, BitsAre
  <2>3. 2 ^ Bits(w) \in Nat
    BY <2>2, PowerPositive
  <2> QED BY <2>1, <2>2, <2>3
<1>9. Field(r - lo) < 2 ^ Bits(w)
  BY <1>4, <1>5, <1>6, <1>7, <1>8
<1>10. CarryFits(g) <=> Field(r - lo) < 2 ^ Bits(hi - lo + 1)
  BY <1>2 DEF CarryFits, FitsBits
<1>11. hi - lo + 1 = w
  BY <1>7
<1> QED BY <1>9, <1>10, <1>11

\* If the integer of a variable is zero, its limbs leave a carry each, and none at the end.
Quotients(c, d, n) ==
  /\ c \in [0 .. n -> Int] /\ c[0] = 0 /\ c[n] = 0
  /\ \A k \in 1 .. n : c[k - 1] + Value(d, k) = c[k] * B

LEMMA ZeroTimes ==
  ASSUME NEW w \in Nat, w >= 1, NEW t \in Int, t * w = 0
  PROVE  t = 0
<1>1. 0 * w = 0 /\ 0 \in Int /\ w > 0
  OBVIOUS
<1>2. t <= 0
  BY <1>1, Cancel
<1>3. 0 <= t
  BY <1>1, Cancel
<1> QED BY <1>2, <1>3

LEMMA QuotientsExist ==
  ASSUME NEW d, Exact(d), d.int = 0, NEW n, n = Len(d.limbs)
  PROVE  \E c : Quotients(c, d, n)
<1>1. n \in Nat
  BY ExactLimbs
<1> DEFINE f == [k \in 1 .. n |-> Value(d, k) * Weight(k)]
<1>2. \A k \in 1 .. n : f[k] = Value(d, k) * Weight(k)
  OBVIOUS
<1> HIDE DEF f
<1>3. Terms(n, f) /\ Total(n, f) = 0
  <2>1. n >= Len(d.limbs)
    BY <1>1
  <2> QED BY <1>1, <1>2, <2>1, ValuesMakeUp
<1>4. ASSUME NEW k \in 1 .. n
      PROVE  /\ Value(d, k) \in Int /\ Weight(k) \in Nat /\ Weight(k) >= 1
             /\ Weight(k + 1) = Weight(k) * B /\ Weight(k + 1) \in Nat /\ Weight(k + 1) >= 1
             /\ Total(k, f) \in Int /\ Total(k - 1, f) \in Int
             /\ Total(k, f) = Total(k - 1, f) + Value(d, k) * Weight(k)
  <2>1. k \in Nat /\ k >= 1 /\ k + 1 \in Nat /\ k + 1 >= 1 /\ k \in 0 .. n /\ k - 1 \in 0 .. n /\ k \in Int
    BY <1>1
  <2>2. Value(d, k) \in Int
    BY <2>1, LimbIs
  <2>3. Weight(k) \in Nat /\ Weight(k) >= 1 /\ Weight(k + 1) = Weight(k) * B
    BY <2>1, Weights
  <2>4. Weight(k + 1) \in Nat /\ Weight(k + 1) >= 1
    BY <2>1, Weights
  <2>5. Total(k, f) \in Int /\ Total(k - 1, f) \in Int /\ Total(k, f) = Total(k - 1, f) + f[k]
    BY <1>1, <1>3, <2>1, TotalSteps
  <2> QED BY <1>2, <2>2, <2>3, <2>4, <2>5
<1> DEFINE Divisible(k) == \E t \in Int : Total(k, f) = t * Weight(k + 1)
           T == {i \in 0 .. n : Divisible(n - i)}
<1>5. 0 \in T
  <2>1. n - 0 = n /\ n + 1 \in Nat /\ n + 1 >= 1
    BY <1>1
  <2>2. Weight(n + 1) \in Nat
    BY <2>1, Weights
  <2>3. 0 * Weight(n + 1) = 0 /\ 0 \in Int
    BY <2>2
  <2>4. Total(n, f) = 0 * Weight(n + 1)
    BY <1>3, <2>3
  <2>5. Divisible(n)
    BY <2>3, <2>4
  <2> QED BY <1>1, <2>1, <2>5
<1>6. ASSUME NEW i \in 1 .. n, i - 1 \in T PROVE i \in T
  <2>1. PICK k \in 1 .. n : k = n - (i - 1) /\ k - 1 = n - i
    <3>1. n - (i - 1) \in 1 .. n /\ (n - (i - 1)) - 1 = n - i
      BY <1>1
    <3> QED BY <3>1
  <2>2. PICK t \in Int : Total(k, f) = t * Weight(k + 1)
    BY <1>6, <2>1
  <2>3. PICK v \in Int, w \in Nat, b \in Nat, s \in Int :
          /\ v = Value(d, k) /\ w = Weight(k) /\ b = B /\ s = Total(k - 1, f)
          /\ Weight(k + 1) = w * b /\ Total(k, f) = s + v * w
    <3>1. B \in Nat
      BY BaseType
    <3>2. k \in 1 .. n
      OBVIOUS
    <3>3. Value(d, k) \in Int /\ Weight(k) \in Nat /\ Total(k - 1, f) \in Int
      BY <1>4, <3>2
    <3>4. Weight(k + 1) = Weight(k) * B /\ Total(k, f) = Total(k - 1, f) + Value(d, k) * Weight(k)
      BY <1>4, <3>2
    <3>5. PICK v \in Int : v = Value(d, k)
      BY <3>3
    <3>6. PICK w \in Nat : w = Weight(k)
      BY <3>3
    <3>7. PICK b \in Nat : b = B
      BY <3>1
    <3>8. PICK s \in Int : s = Total(k - 1, f)
      BY <3>3
    <3>9. Weight(k + 1) = w * b /\ Total(k, f) = s + v * w
      BY <3>4, <3>5, <3>6, <3>7, <3>8
    <3> HIDE DEF Divisible, T
    <3> QED BY <3>5, <3>6, <3>7, <3>8, <3>9
  <2>4. s + v * w = t * (w * b)
    BY <2>2, <2>3
  <2>5. PICK x \in Int, y \in Int : x = v * w /\ y = t * (w * b) /\ (t * b - v) * w = y - x
    <3>1. v * w \in Int /\ t * (w * b) \in Int /\ (t * b - v) * w = t * (w * b) - v * w
      BY SMT
    <3> QED BY <3>1
  <2>6. s = y - x
    BY <2>4, <2>5
  <2>7. PICK e \in Int : e = t * b - v
    <3>1. t * b \in Int
      BY Multiplied
    <3>2. PICK z \in Int : z = t * b
      BY <3>1
    <3>3. z - v \in Int
      OBVIOUS
    <3> QED BY <3>2, <3>3
  <2>8. s = e * w
    BY <2>5, <2>6, <2>7
  <2>9. (k - 1) + 1 = k
    OBVIOUS
  <2>10. Total(k - 1, f) = e * Weight((k - 1) + 1)
    BY <2>3, <2>8, <2>9
  <2>11. Divisible(k - 1)
    BY <2>10
  <2> QED BY <2>1, <2>11
<1>7. 0 .. n \subseteq T
  <2> HIDE DEF T
  <2> QED BY <1>1, <1>5, <1>6, UpTo
<1>8. ASSUME NEW k \in 0 .. n PROVE Divisible(k)
  <2>1. n - k \in 0 .. n /\ n - (n - k) = k
    BY <1>1
  <2>2. n - k \in T
    BY <1>7, <2>1
  <2> QED BY <2>1, <2>2
<1> DEFINE c == [k \in 0 .. n |-> CHOOSE t \in Int : Total(k, f) = t * Weight(k + 1)]
<1>9. ASSUME NEW k \in 0 .. n PROVE c[k] \in Int /\ Total(k, f) = c[k] * Weight(k + 1)
  <2>1. \E t \in Int : Total(k, f) = t * Weight(k + 1)
    BY <1>8
  <2> QED BY <2>1
<1>10. c \in [0 .. n -> Int]
  BY <1>9
<1> HIDE DEF c, T, Divisible
<1>11. c[0] = 0
  <2>1. 0 \in 0 .. n /\ 0 + 1 = 1 /\ 1 \in Nat /\ 1 >= 1
    BY <1>1
  <2>2. Total(0, f) = 0
    BY <1>1, <1>3, TotalSteps
  <2>3. Weight(1) \in Nat /\ Weight(1) >= 1
    BY <2>1, Weights
  <2>4. c[0] \in Int /\ c[0] * Weight(1) = 0
    BY <1>9, <2>1, <2>2
  <2> QED BY <2>3, <2>4, ZeroTimes
<1>12. c[n] = 0
  <2>1. n \in 0 .. n /\ n + 1 \in Nat /\ n + 1 >= 1
    BY <1>1
  <2>2. Weight(n + 1) \in Nat /\ Weight(n + 1) >= 1
    BY <2>1, Weights
  <2>3. c[n] \in Int /\ c[n] * Weight(n + 1) = 0
    BY <1>3, <1>9, <2>1
  <2> QED BY <2>2, <2>3, ZeroTimes
<1>13. ASSUME NEW k \in 1 .. n PROVE c[k - 1] + Value(d, k) = c[k] * B
  <2>1. k \in 0 .. n /\ k - 1 \in 0 .. n /\ (k - 1) + 1 = k
    BY <1>1
  <2>2. PICK v \in Int, w \in Nat, b \in Nat, s \in Int, p \in Int, q \in Int :
          /\ v = Value(d, k) /\ w = Weight(k) /\ w >= 1 /\ b = B /\ s = Total(k - 1, f)
          /\ Weight(k + 1) = w * b /\ Total(k, f) = s + v * w /\ p = c[k - 1] /\ q = c[k]
    <3>1. B \in Nat
      BY BaseType
    <3>2. c[k - 1] \in Int /\ c[k] \in Int
      BY <1>9, <2>1
    <3> QED BY <1>4, <3>1, <3>2, SMTT(60)
  <2>3. s = p * w
    <3>1. Total(k - 1, f) = c[k - 1] * Weight((k - 1) + 1)
      BY <1>9, <2>1
    <3> QED BY <2>1, <2>2, <3>1
  <2>4. s + v * w = q * (w * b)
    BY <1>9, <2>1, <2>2
  <2>5. p * w + v * w = (p + v) * w /\ q * (w * b) = (q * b) * w /\ q * b \in Int /\ p + v \in Int
    BY SMT
  <2>6. PICK x \in Int, y \in Int : x = p + v /\ y = q * b
    BY <2>5
  <2>7. x * w = y * w
    BY <2>3, <2>4, <2>5, <2>6
  <2>8. x * w <= y * w /\ y * w <= x * w
    <3>1. x * w \in Int
      BY Multiplied
    <3> QED BY <2>7, <3>1
  <2>9. w > 0
    BY <2>2
  <2>10. x <= y /\ y <= x
    BY <2>8, <2>9, Cancel
  <2>11. x = y
    BY <2>10
  <2> QED BY <2>2, <2>6, <2>11
<1> QED BY <1>10, <1>11, <1>12, <1>13 DEF Quotients

\* The groups of a difference, limb by limb
GroupsOf(g, d, n) ==
  /\ g[0] = NoGroup
  /\ \A k \in 1 .. n : g[k] = GroupLimb(g[k - 1], d.limbs[k], d.bounds[k])

LEMMA GroupsExist ==
  ASSUME NEW d, Exact(d), NEW n, n = Len(d.limbs)
  PROVE  \E g \in [0 .. n -> GroupSet] : GroupsOf(g, d, n)
<1>1. n \in Nat /\ d.limbs \in [1 .. n -> Residues] /\ d.bounds \in [1 .. n -> Safe]
  BY ExactLimbs
<1> DEFINE step == [k \in 1 .. n |-> [g \in GroupSet |-> GroupLimb(g, d.limbs[k], d.bounds[k])]]
<1>2. step \in StepFunctions(n, GroupSet)
  <2>1. ASSUME NEW k \in 1 .. n, NEW g \in GroupSet
        PROVE  GroupLimb(g, d.limbs[k], d.bounds[k]) \in GroupSet
    <3>1. PICK limb \in Residues, b \in Safe : limb = d.limbs[k] /\ b = d.bounds[k]
      BY <1>1
    <3> QED BY <3>1, GroupLimbType
  <2> QED BY <2>1, Zenon DEF StepFunctions
<1>3. NoGroup \in GroupSet
  BY NothingCarried DEF Carries
<1>4. \A k \in 1 .. n : \A g \in GroupSet : step[k][g] = GroupLimb(g, d.limbs[k], d.bounds[k])
  OBVIOUS
<1> HIDE DEF step
<1>5. Recursive(n, GroupSet, step, NoGroup)
  BY <1>1, <1>2, <1>3, RecursionIn
<1>6. PICK f \in [0 .. n -> GroupSet] :
        f[0] = NoGroup /\ \A k \in 1 .. n : f[k] = step[k][f[k - 1]]
  BY <1>5 DEF Recursive
<1>7. ASSUME NEW k \in 1 .. n PROVE f[k] = GroupLimb(f[k - 1], d.limbs[k], d.bounds[k])
  <2>1. k - 1 \in 0 .. n
    BY <1>1
  <2>2. f[k - 1] \in GroupSet
    BY <1>6, <2>1
  <2> QED BY <1>4, <1>6, <2>2
<1> QED BY <1>6, <1>7, Zenon DEF GroupsOf

\* What the loop enforces of them
AllChecked(g, d, n) ==
  g[n].carry = 0 /\ \A k \in 1 .. n : CheckedWith(g[k - 1], d.bounds[k])

LEMMA EqualIs ==
  ASSUME NEW d, NEW n \in Nat, n = Len(d.limbs), DOMAIN d.limbs = 1 .. n,
         NEW g, GroupsOf(g, d, n), DOMAIN g = 0 .. n, g = [k \in 0 .. n |-> g[k]]
  PROVE  EqualHolds(d) <=> AllChecked(g, d, n)
<1> DEFINE Good(h) ==
      h = [k \in 0 .. Len(d.limbs) |->
             IF k = 0 THEN NoGroup ELSE GroupLimb(h[k - 1], d.limbs[k], d.bounds[k])]
<1>1. Good(g)
  <2>1. ASSUME NEW k \in 0 .. n
        PROVE  g[k] = IF k = 0 THEN NoGroup ELSE GroupLimb(g[k - 1], d.limbs[k], d.bounds[k])
    <3>1. k = 0 \/ k \in 1 .. n
      OBVIOUS
    <3>2. k \in 1 .. n => k # 0
      OBVIOUS
    <3> QED BY <3>1, <3>2, Zenon DEF GroupsOf
  <2> QED BY <2>1, Zenon
<1> DEFINE h == CHOOSE h : Good(h)
<1>2. Good(h)
  BY <1>1, Zenon
<1>3. EqualHolds(d) <=> (h[Len(d.limbs)].carry = 0
                         /\ \A k \in DOMAIN d.limbs : CheckedWith(h[k - 1], d.bounds[k]))
  BY Zenon DEF EqualHolds
<1>4. h[0] = NoGroup /\ \A k \in 1 .. n : h[k] = GroupLimb(h[k - 1], d.limbs[k], d.bounds[k])
  <2>1. \A k \in 0 .. n : h[k] = IF k = 0 THEN NoGroup ELSE GroupLimb(h[k - 1], d.limbs[k], d.bounds[k])
    BY <1>2, Zenon
  <2>2. 0 \in 0 .. n /\ \A k \in 1 .. n : k \in 0 .. n /\ k # 0
    OBVIOUS
  <2> QED BY <2>1, <2>2, Zenon
<1> HIDE DEF h, Good
<1> DEFINE T == {k \in 0 .. n : h[k] = g[k]}
<1>5. 0 \in T
  <2>1. 0 \in 0 .. n
    OBVIOUS
  <2> QED BY <1>4, <2>1 DEF GroupsOf
<1>6. ASSUME NEW k \in 1 .. n, k - 1 \in T PROVE k \in T
  <2>1. k \in 0 .. n
    OBVIOUS
  <2>2. h[k - 1] = g[k - 1]
    BY <1>6
  <2>3. h[k] = g[k]
    BY <1>4, <2>2 DEF GroupsOf
  <2> QED BY <2>1, <2>3
<1>7. \A k \in 0 .. n : h[k] = g[k]
  <2>1. 0 .. n \subseteq T
    <3> HIDE DEF T
    <3> QED BY <1>5, <1>6, UpTo, Zenon
  <2> QED BY <2>1
<1>8. h[n].carry = g[n].carry
  <2>1. n \in 0 .. n
    OBVIOUS
  <2>2. h[n] = g[n]
    BY <1>7, <2>1
  <2> QED BY <2>2
<1>9. ASSUME NEW k \in 1 .. n
      PROVE  CheckedWith(h[k - 1], d.bounds[k]) <=> CheckedWith(g[k - 1], d.bounds[k])
  <2>1. k - 1 \in 0 .. n
    OBVIOUS
  <2>2. h[k - 1] = g[k - 1]
    BY <1>7, <2>1
  <2> QED BY <2>2
<1> QED BY <1>3, <1>8, <1>9, Zenon DEF AllChecked

\* One limb after the other of a difference that is zero
LEMMA NextQuotient ==
  ASSUME NEW d, Exact(d), NEW n, n = Len(d.limbs), NEW c, Quotients(c, d, n),
         NEW k \in 1 .. n, NEW g, Carries(g, c[k - 1])
  PROVE  /\ Carries(GroupLimb(g, d.limbs[k], d.bounds[k]), c[k])
         /\ CheckedWith(g, d.bounds[k])
<1>1. n \in Nat /\ d.limbs \in [1 .. n -> Residues] /\ d.bounds \in [1 .. n -> Safe]
  BY ExactLimbs
<1>2. k - 1 \in 0 .. n /\ k \in 0 .. n /\ k \in Int
  BY <1>1
<1>3. PICK t \in Int, s \in Int : t = c[k - 1] /\ s = c[k]
  BY <1>2 DEF Quotients
<1>4. LimbAt(d, k) = d.limbs[k] /\ BoundAt(d, k) = d.bounds[k] /\ Between(Value(d, k), BoundAt(d, k))
  BY <1>2, LimbIs
<1>5. PICK limb \in Residues, b \in Safe : limb = d.limbs[k] /\ b = d.bounds[k]
  BY <1>1
<1>6. Between(Signed(limb), b) /\ Value(d, k) = Signed(limb)
  BY <1>4, <1>5 DEF Value
<1>7. t + Signed(limb) = s * B
  BY <1>3, <1>6 DEF Quotients
<1>8. Carries(g, t)
  BY <1>3
<1>9. Carries(GroupLimb(g, limb, b), s)
  BY <1>6, <1>7, <1>8, NextCarry
<1>10. CarryFits(g)
  BY <1>8, CarryWithinFits
<1> QED BY <1>3, <1>5, <1>9, <1>10 DEF CheckedWith

\* enforce_equal_unaligned never refuses equal integers.
LEMMA ZeroIsEqual ==
  ASSUME NEW d, Exact(d), d.int = 0
  PROVE  EqualHolds(d)
<1>1. PICK n \in Nat : n = Len(d.limbs) /\ DOMAIN d.limbs = 1 .. n
  BY ExactLimbs
<1>2. PICK g \in [0 .. n -> GroupSet] : GroupsOf(g, d, n)
  BY <1>1, GroupsExist
<1>3. PICK c : Quotients(c, d, n)
  BY <1>1, QuotientsExist
<1> DEFINE T == {k \in 0 .. n : Carries(g[k], c[k])}
<1>4. 0 \in T
  <2>1. g[0] = NoGroup /\ c[0] = 0 /\ 0 \in 0 .. n
    BY <1>2, <1>3 DEF GroupsOf, Quotients
  <2> QED BY <2>1, NothingCarried
<1>5. ASSUME NEW k \in 1 .. n, k - 1 \in T PROVE k \in T
  <2>1. Carries(g[k - 1], c[k - 1])
    BY <1>5
  <2>2. Carries(GroupLimb(g[k - 1], d.limbs[k], d.bounds[k]), c[k])
    BY <1>1, <1>3, <2>1, NextQuotient
  <2>3. g[k] = GroupLimb(g[k - 1], d.limbs[k], d.bounds[k])
    BY <1>2 DEF GroupsOf
  <2>4. k \in 0 .. n
    OBVIOUS
  <2> QED BY <2>2, <2>3, <2>4
<1>6. \A k \in 0 .. n : Carries(g[k], c[k])
  <2>1. 0 .. n \subseteq T
    <3> HIDE DEF T
    <3> QED BY <1>4, <1>5, UpTo, Zenon
  <2> QED BY <2>1
<1>7. g[n].carry = 0
  <2>1. c[n] = 0
    BY <1>3 DEF Quotients
  <2>2. Carries(g[n], 0)
    <3>1. n \in 0 .. n
      OBVIOUS
    <3> QED BY <1>6, <2>1, <3>1
  <2> QED BY <2>2, FieldOfZero DEF Carries
<1>8. ASSUME NEW k \in 1 .. n PROVE CheckedWith(g[k - 1], d.bounds[k])
  <2>1. k - 1 \in 0 .. n
    OBVIOUS
  <2>2. Carries(g[k - 1], c[k - 1])
    BY <1>6, <2>1
  <2> QED BY <1>1, <1>3, <2>2, NextQuotient
<1>9. DOMAIN g = 0 .. n /\ g = [k \in 0 .. n |-> g[k]]
  OBVIOUS
<1>10. AllChecked(g, d, n)
  BY <1>7, <1>8 DEF AllChecked
<1> QED BY <1>1, <1>2, <1>9, <1>10, EqualIs

\* The bounds of an integer, from those of its limbs
LEMMA IntWithin ==
  ASSUME NEW v, Exact(v)
  PROVE  /\ LBound(v) \in Int /\ UBound(v) \in Int /\ v.int \in Int
         /\ LBound(v) <= v.int /\ v.int <= UBound(v)
<1>1. PICK n \in Nat : n = Len(v.limbs)
  BY ExactLimbs
<1>2. v.bounds \in [1 .. n -> Safe] /\ DOMAIN v.bounds = 1 .. n
  BY <1>1, ExactLimbs
<1>3. v.int \in Int
  BY VariableType DEF Exact
<1> DEFINE f == [k \in 1 .. n |-> Value(v, k) * Weight(k)]
<1>4. Terms(n, f) /\ Total(n, f) = v.int
  <2>1. \A k \in 1 .. n : f[k] = Value(v, k) * Weight(k)
    OBVIOUS
  <2>2. n >= Len(v.limbs)
    BY <1>1
  <2> HIDE DEF f
  <2> QED BY <2>1, <2>2, ValuesMakeUp
<1> DEFINE lows == [k \in DOMAIN v.bounds |-> v.bounds[k].lo]
           highs == [k \in DOMAIN v.bounds |-> v.bounds[k].hi]
           low == [k \in DOMAIN lows |-> lows[k] * Weight(k)]
           high == [k \in DOMAIN highs |-> highs[k] * Weight(k)]
<1>5. \A k \in 1 .. n : v.bounds[k].lo \in Int /\ v.bounds[k].hi \in Int
  <2>1. \A k \in 1 .. n : v.bounds[k] \in Safe
    BY <1>2
  <2> QED BY <2>1, SafeFacts
<1>6. lows \in [1 .. n -> Int] /\ highs \in [1 .. n -> Int]
  BY <1>2, <1>5
<1>7. /\ Len(lows) = n /\ DOMAIN lows = 1 .. n
      /\ Len(highs) = n /\ DOMAIN highs = 1 .. n
  <2> HIDE DEF lows, highs
  <2> QED BY <1>6, VectorIs
<1>8. LBound(v) = Total(n, low) /\ UBound(v) = Total(n, high)
  BY <1>7 DEF LBound, UBound, Weighted
<1>9. ASSUME NEW k \in 1 .. n
      PROVE  low[k] \in Int /\ high[k] \in Int /\ low[k] <= f[k] /\ f[k] <= high[k]
  <2>1. k \in Int /\ k \in Nat /\ k >= 1
    OBVIOUS
  <2>2. PICK w \in Nat : w = Weight(k)
    BY <2>1, Weights
  <2>3. PICK lo \in Int, hi \in Int : lo = v.bounds[k].lo /\ hi = v.bounds[k].hi
    BY <1>5
  <2>4. low[k] = lo * w /\ high[k] = hi * w
    BY <1>2, <2>2, <2>3
  <2>5. PICK x \in Int : x = Value(v, k) /\ lo <= x /\ x <= hi
    <3>1. Value(v, k) \in Int /\ Between(Value(v, k), BoundAt(v, k)) /\ BoundAt(v, k) = v.bounds[k]
      BY <1>1, <2>1, LimbIs
    <3> QED BY <2>3, <3>1 DEF Between
  <2>6. f[k] = x * w
    BY <2>2, <2>5
  <2>7. lo * w <= x * w /\ x * w <= hi * w /\ lo * w \in Int /\ hi * w \in Int
    BY <2>5, Scaling, Multiplied
  <2> QED BY <2>4, <2>6, <2>7
<1> HIDE DEF f, low, high, lows, highs
<1>10. Terms(n, low) /\ Terms(n, high)
  BY <1>9 DEF Terms
<1>11. Total(n, low) <= Total(n, f) /\ Total(n, f) <= Total(n, high)
  BY <1>4, <1>9, <1>10, TotalOrder
<1>12. Total(n, low) \in Int /\ Total(n, high) \in Int
  BY <1>10, TotalInt
<1> QED BY <1>3, <1>4, <1>8, <1>11, <1>12

\* An honest hint is the integer.
LEMMA HintMeans ==
  ASSUME NEW x \in Int
  PROVE  HintInt(HintFor(x)) = x
<1>1. HintFor(x).neg = (x < 0) /\ HintFor(x).magnitude = Abs(x)
  BY DEF HintFor
<1>2. CASE x < 0
  <2>1. HintFor(x).neg /\ HintFor(x).magnitude = -x
    BY <1>1, <1>2 DEF Abs
  <2>2. HintInt(HintFor(x)) = -(-x)
    BY <2>1 DEF HintInt
  <2> QED BY <2>2
<1>3. CASE ~(x < 0)
  BY <1>1, <1>3 DEF HintInt, Abs
<1> QED BY <1>2, <1>3

\* An honest hint that lies within the bounds asked for is accepted, and exact.
LEMMA InferredHonestly ==
  ASSUME NEW u, NEW b \in Bounds, NEW x \in Int, Between(x, b), HintFor(x) \in Hints(b),
         NEW v, v = Inferred(u, b, HintFor(x))
  PROVE  InRange(b, v) /\ Exact(v) /\ v.int = x /\ Regular(v)
<1>1. PICK h \in Hints(b) : h = HintFor(x)
  OBVIOUS
<1>2. HintInt(h) = x
  BY <1>1, HintMeans
<1>3. CASE IsConstant(u)
  <2>1. v = Constant(x)
    BY <1>1, <1>2, <1>3 DEF Inferred
  <2>2. v.const /\ v.int = x /\ Exact(v) /\ Regular(v)
    BY <2>1, ConstantIs
  <2> QED BY <2>2 DEF InRange
<1>4. CASE ~IsConstant(u)
  <2>1. v = Allocated(b, h)
    BY <1>1, <1>4 DEF Inferred
  <2>2. h.neg \in BOOLEAN /\ h.magnitude \in Nat /\ h.magnitude < 2 ^ BitsOf(b.lo, b.hi)
    BY HintFacts
  <2>3. v.int = x /\ Regular(v) /\ Exact(v)
    BY <1>2, <2>1, <2>2, AllocatedIs
  <2>4. InRange(b, v)
    BY <2>1, <2>3, RangeChecked
  <2> QED BY <2>3, <2>4
<1> QED BY <1>3, <1>4

\* The product of a quotient with the modulus
LEMMA TimesModulus ==
  ASSUME NEW q, Exact(q), IsSafe(Product(q, Constant(M)))
  PROVE  Exact(Product(q, Constant(M))) /\ Product(q, Constant(M)).int = q.int * M
<1>1. PICK c : c = Constant(M) /\ Exact(c) /\ c.int = M /\ Len(c.limbs) >= 1
  BY ModulusAssumption, ConstantIs
<1>2. ProductLength(q, c) >= 0
  <2>1. Len(q.limbs) \in Nat /\ Len(c.limbs) \in Nat
    BY <1>1, ExactLimbs
  <2>2. PICK n \in Nat, m \in Nat : n = Len(q.limbs) /\ m = Len(c.limbs) /\ m >= 1
    BY <1>1, <2>1
  <2>3. ProductLength(q, c) = n + m - 1
    BY <2>2 DEF ProductLength
  <2>4. m >= 1
    BY <2>2
  <2>5. n + m - 1 >= 0
    BY <2>4
  <2> QED BY <2>3, <2>5
<1>3. Exact(Product(q, c))
  BY <1>1, <1>2, ProductExact
<1>4. Product(q, c).int = q.int * M
  BY <1>1 DEF Product, Variable
<1> QED BY <1>1, <1>3, <1>4

\* The quotient of an integer within bounds
LEMMA QuotientBetween ==
  ASSUME NEW lo \in Int, NEW hi \in Int, NEW x \in Int, lo <= x, x <= hi,
         NEW b, b = [lo |-> lo \div M, hi |-> hi \div M]
  PROVE  b \in Bounds /\ x \div M \in Int /\ Between(x \div M, b)
<1>1. M \in Nat /\ M > 0
  BY ModulusAssumption
<1>2. lo \div M \in Int /\ hi \div M \in Int /\ x \div M \in Int
  BY <1>1, Floor
<1>3. lo \div M <= x \div M /\ x \div M <= hi \div M
  BY <1>1, FloorOrder
<1> QED BY <1>2, <1>3 DEF Bounds, Between

\* modulo: what the constraints ask of honest hints
LEMMA ReducesHonestly ==
  ASSUME NEW v, Exact(v), Reducible(v),
         NEW hq \in Hints(QuotientBounds(v)), hq = HintFor(v.int \div M),
         NEW hr \in Hints(ReducedBounds), hr = HintFor(v.int % M),
         NEW q, q = Inferred(v, QuotientBounds(v), hq),
         NEW r, r = Inferred(v, ReducedBounds, hr)
  PROVE  Reduces(v, q, r) /\ InRange(QuotientBounds(v), q) /\ InRange(ReducedBounds, r)
<1>1. M \in Nat /\ M > 0
  BY ModulusAssumption
<1>2. /\ LBound(v) \in Int /\ UBound(v) \in Int /\ v.int \in Int
      /\ LBound(v) <= v.int /\ v.int <= UBound(v)
  BY IntWithin
<1>3. PICK x \in Int, y \in Int : /\ x = v.int \div M /\ y = v.int % M
                                  /\ v.int = M * x + y /\ 0 <= y /\ y < M
  <2>1. v.int % M \in 0 .. M - 1 /\ v.int \div M \in Int /\ v.int = M * (v.int \div M) + (v.int % M)
    BY <1>1, <1>2, Remainder
  <2>2. v.int % M \in Int
    BY <1>1, <2>1
  <2> QED BY <1>1, <2>1, <2>2
<1>4. QuotientBounds(v) \in Bounds /\ Between(x, QuotientBounds(v))
  <2>1. QuotientBounds(v) = [lo |-> LBound(v) \div M, hi |-> UBound(v) \div M]
    BY DEF QuotientBounds
  <2> QED BY <1>2, <1>3, <2>1, QuotientBetween
<1>5. ReducedBounds \in Bounds /\ Between(y, ReducedBounds)
  BY <1>1, <1>3 DEF ReducedBounds, Bounds, Between
<1>6. InRange(QuotientBounds(v), q) /\ Exact(q) /\ q.int = x
  BY <1>3, <1>4, InferredHonestly
<1>7. InRange(ReducedBounds, r) /\ Exact(r) /\ r.int = y /\ Regular(r)
  BY <1>3, <1>5, InferredHonestly
<1>8. PICK qm, s, d : qm = Product(q, Constant(M)) /\ s = Sum(qm, r) /\ d = Difference(s, v)
  OBVIOUS
<1>9. IsSafe(qm) /\ IsSafe(s) /\ IsSafe(d)
  BY <1>8 DEF Reducible
<1>10. Exact(qm) /\ qm.int = x * M
  BY <1>6, <1>8, <1>9, TimesModulus
<1>11. Exact(s) /\ s.int = qm.int + r.int
  <2>1. Exact(s)
    BY <1>7, <1>8, <1>9, <1>10, SumExact
  <2>2. s.int = qm.int + r.int
    BY <1>8 DEF Sum, Variable
  <2> QED BY <2>1, <2>2
<1>12. Exact(d) /\ d.int = s.int - v.int
  <2>1. Exact(d)
    BY <1>8, <1>9, <1>11, SumExact
  <2>2. d.int = s.int - v.int
    BY <1>8 DEF Difference, Variable
  <2> QED BY <2>1, <2>2
<1>13. d.int = 0
  <2>1. PICK m \in Int : m = x * M /\ m = M * x
    <3>1. x * M \in Int /\ x * M = M * x
      BY <1>1
    <3> QED BY <3>1
  <2>2. v.int = m + y /\ s.int = m + y
    BY <1>3, <1>7, <1>10, <1>11, <2>1
  <2> QED BY <1>12, <2>2
<1>14. EqualHolds(d)
  BY <1>12, <1>13, ZeroIsEqual
<1>15. Lt(r, Constant(M))
  <2>1. M \in Int
    BY <1>1
  <2>2. PICK c : c = Constant(M) /\ Regular(c) /\ Exact(c) /\ c.int = M
    BY <2>1, ConstantIs
  <2>3. Comparable(r, c)
    BY <1>7, <2>1, <2>2, ComparableWithConstant
  <2>4. r.int < c.int
    BY <1>3, <1>7, <2>2
  <2>5. Lt(r, c)
    BY <1>7, <2>2, <2>3, <2>4, LtCompletely
  <2> QED BY <2>2, <2>5
<1>16. Reduces(v, q, r) <=> (IsSafe(d) /\ EqualHolds(d) /\ Lt(r, Constant(M)))
  BY <1>8 DEF Reduces
<1> QED BY <1>6, <1>7, <1>9, <1>14, <1>15, <1>16

\* enforce_congruent: what the constraints ask of an honest quotient
LEMMA CongruentHonestly ==
  ASSUME NEW x, Exact(x), NEW y, Exact(y), CongruenceFits(x, y), (x.int - y.int) % M = 0,
         NEW hq \in Hints(CongruenceBounds(x, y)), hq = HintFor((x.int - y.int) \div M),
         NEW q, q = Inferred(x, CongruenceBounds(x, y), hq)
  PROVE  EqualHolds(MultipleOfM(x, y, q)) /\ InRange(CongruenceBounds(x, y), q)
<1>1. M \in Nat /\ M > 0
  BY ModulusAssumption
<1>2. /\ LBound(x) \in Int /\ UBound(x) \in Int /\ x.int \in Int
      /\ LBound(x) <= x.int /\ x.int <= UBound(x)
  BY IntWithin
<1>3. /\ LBound(y) \in Int /\ UBound(y) \in Int /\ y.int \in Int
      /\ LBound(y) <= y.int /\ y.int <= UBound(y)
  BY IntWithin
<1>4. PICK a \in Int : a = x.int - y.int
  BY <1>2, <1>3
<1>5. PICK z \in Int : z = a \div M /\ a = M * z
  <2>1. a % M = 0
    BY <1>4
  <2>2. a \div M \in Int /\ a = M * (a \div M) + (a % M)
    BY <1>1, Remainder
  <2>3. PICK z \in Int : z = a \div M
    BY <2>2
  <2>4. M * z \in Int
    BY <1>1, Multiplied
  <2>5. a = M * z + 0
    BY <2>1, <2>2, <2>3
  <2> QED BY <2>3, <2>4, <2>5
<1>6. CongruenceBounds(x, y) \in Bounds /\ Between(z, CongruenceBounds(x, y))
  <2>1. PICK lo \in Int, hi \in Int : lo = LBound(x) - UBound(y) /\ hi = UBound(x) - LBound(y)
    BY <1>2, <1>3
  <2>2. lo <= a /\ a <= hi
    BY <1>2, <1>3, <1>4, <2>1
  <2>3. CongruenceBounds(x, y) = [lo |-> lo \div M, hi |-> hi \div M]
    BY <2>1 DEF CongruenceBounds
  <2> QED BY <1>5, <2>2, <2>3, QuotientBetween
<1>7. InRange(CongruenceBounds(x, y), q) /\ Exact(q) /\ q.int = z
  BY <1>4, <1>5, <1>6, InferredHonestly
<1>8. PICK e, qm, d : e = Difference(x, y) /\ qm = Product(q, Constant(M)) /\ d = Difference(e, qm)
  OBVIOUS
<1>9. IsSafe(e) /\ IsSafe(qm) /\ IsSafe(d)
  BY <1>8 DEF CongruenceFits, MultipleOfM
<1>10. Exact(qm) /\ qm.int = z * M
  BY <1>7, <1>8, <1>9, TimesModulus
<1>11. Exact(e) /\ e.int = a
  <2>1. Exact(e)
    BY <1>8, <1>9, SumExact
  <2>2. e.int = x.int - y.int
    BY <1>8 DEF Difference, Variable
  <2> QED BY <1>4, <2>1, <2>2
<1>12. Exact(d) /\ d.int = e.int - qm.int
  <2>1. Exact(d)
    BY <1>8, <1>9, <1>10, <1>11, SumExact
  <2>2. d.int = e.int - qm.int
    BY <1>8 DEF Difference, Variable
  <2> QED BY <2>1, <2>2
<1>13. d.int = 0
  <2>1. z * M = M * z /\ z * M \in Int
    BY <1>1
  <2>2. e.int = a /\ qm.int = a
    BY <1>5, <1>10, <1>11, <2>1
  <2> QED BY <1>12, <2>2
<1>14. EqualHolds(d)
  BY <1>12, <1>13, ZeroIsEqual
<1> QED BY <1>7, <1>8, <1>14 DEF MultipleOfM

(***************************************************************************)
(* No call that is meant to hold is refused                                *)
(***************************************************************************)
Granted(judgement) == judgement.honest /\ judgement.meant => judgement.accepted

\* The loop of enforce_equal_unaligned, on a difference that is zero: every carry was a
\* quotient, and fitted its range check.
Underway ==
  /\ LoopRecord /\ Exact(loop.diff) /\ loop.at \in 1 .. Len(loop.diff.limbs) + 1
  /\ loop.diff.int = 0 =>
       /\ loop.fits
       /\ \E c : Quotients(c, loop.diff, Len(loop.diff.limbs)) /\ Carries(loop.group, c[loop.at - 1])

LoopKept == loop = Idle \/ Underway

LEMMA IdleLoop == loop = Idle => loop.at = 0 /\ loop.diff.limbs = <<>>
BY DEF Idle, Variable

LEMMA ReduceGranted ==
  ASSUME StoreKept, NEW v \in store, Reduce(v)
  PROVE  Granted(verdict')
<1>1. Exact(v) /\ Reducible(v)
  BY DEF StoreKept, Kept, Reduce
<1>2. PICK hq \in Hints(QuotientBounds(v)), hr \in Hints(ReducedBounds) :
        LET q == Inferred(v, QuotientBounds(v), hq)
            r == Inferred(v, ReducedBounds, hr)
            right == hq = HintFor(v.int \div M) /\ hr = HintFor(v.int % M)
        IN  /\ IsConstant(v) => right
            /\ Create(r, Judged("reduce", right,
                             /\ Reduces(v, q, r)
                             /\ InRange(QuotientBounds(v), q) /\ InRange(ReducedBounds, r),
                             r.int = v.int % M))
  BY DEF Reduce
<1>3. PICK q, r : q = Inferred(v, QuotientBounds(v), hq) /\ r = Inferred(v, ReducedBounds, hr)
  OBVIOUS
<1>4. PICK honest, accepted, meant :
        /\ honest = (hq = HintFor(v.int \div M) /\ hr = HintFor(v.int % M))
        /\ accepted = (Reduces(v, q, r) /\ InRange(QuotientBounds(v), q) /\ InRange(ReducedBounds, r))
        /\ meant = (r.int = v.int % M)
  OBVIOUS
<1>5. Create(r, Judged("reduce", honest, accepted, meant))
  BY <1>2, <1>3, <1>4
<1>6. PICK j : j = Judged("reduce", honest, accepted, meant) /\ verdict' = j
  BY <1>5 DEF Create
<1>7. j.honest = honest /\ j.accepted = accepted
  BY <1>6, JudgedIs
<1>8. ASSUME hq = HintFor(v.int \div M) /\ hr = HintFor(v.int % M)
      PROVE  Reduces(v, q, r) /\ InRange(QuotientBounds(v), q) /\ InRange(ReducedBounds, r)
  BY <1>1, <1>3, <1>8, ReducesHonestly
<1>9. honest => accepted
  BY <1>4, <1>8
<1> QED BY <1>6, <1>7, <1>9 DEF Granted

LEMMA CongruentGranted ==
  ASSUME StoreKept, NEW x \in store, NEW y \in store, EnforceCongruent(x, y)
  PROVE  Granted(verdict')
<1>1. Exact(x) /\ Exact(y) /\ CongruenceFits(x, y)
  BY DEF StoreKept, Kept, EnforceCongruent
<1>2. PICK hq \in Hints(CongruenceBounds(x, y)) :
        LET q == Inferred(x, CongruenceBounds(x, y), hq)
            right == hq = HintFor((x.int - y.int) \div M)
        IN  /\ IsConstant(x) => right
            /\ Enforce(Judged("congruent", right,
                              /\ EqualHolds(MultipleOfM(x, y, q))
                              /\ InRange(CongruenceBounds(x, y), q),
                              (x.int - y.int) % M = 0))
  BY DEF EnforceCongruent
<1>3. PICK q : q = Inferred(x, CongruenceBounds(x, y), hq)
  OBVIOUS
<1>4. PICK honest, accepted, meant :
        /\ honest = (hq = HintFor((x.int - y.int) \div M))
        /\ accepted = (EqualHolds(MultipleOfM(x, y, q)) /\ InRange(CongruenceBounds(x, y), q))
        /\ meant = ((x.int - y.int) % M = 0)
  OBVIOUS
<1>5. Enforce(Judged("congruent", honest, accepted, meant))
  BY <1>2, <1>3, <1>4
<1>6. PICK j : j = Judged("congruent", honest, accepted, meant) /\ verdict' = j
  BY <1>5 DEF Enforce
<1>7. j.honest = honest /\ j.accepted = accepted /\ j.meant = meant
  BY <1>6, JudgedIs
<1>8. ASSUME hq = HintFor((x.int - y.int) \div M), (x.int - y.int) % M = 0
      PROVE  EqualHolds(MultipleOfM(x, y, q)) /\ InRange(CongruenceBounds(x, y), q)
  BY <1>1, <1>3, <1>8, CongruentHonestly
<1>9. honest /\ meant => accepted
  BY <1>4, <1>8
<1> QED BY <1>6, <1>7, <1>9 DEF Granted

\* All limbs are seen: the last carry is zero.
LEMMA EndGranted ==
  ASSUME LoopKept, EndEqual
  PROVE  Granted(verdict') /\ LoopKept'
<1>1. loop.at = Len(loop.diff.limbs) + 1 /\ loop' = Idle
  BY DEF EndEqual
<1>2. LoopKept'
  BY <1>1 DEF LoopKept
<1>3. Underway
  <2>1. loop # Idle
    <3>1. Len(<<>>) = 0
      OBVIOUS
    <3> QED BY <1>1, <3>1, IdleLoop
  <2> QED BY <2>1 DEF LoopKept
<1>4. PICK j, accepted, meant :
        /\ accepted = (loop.fits /\ loop.group.carry = 0) /\ meant = (loop.diff.int = 0)
        /\ j = Judged("equal", TRUE, accepted, meant) /\ verdict' = j
  BY DEF EndEqual
<1>5. j.accepted = accepted /\ j.meant = meant
  BY <1>4 DEF Judged
<1>6. ASSUME loop.diff.int = 0 PROVE loop.fits /\ loop.group.carry = 0
  <2>1. PICK n \in Nat : n = Len(loop.diff.limbs)
    BY <1>3, ExactLimbs DEF Underway
  <2>2. PICK c : Quotients(c, loop.diff, n) /\ Carries(loop.group, c[loop.at - 1])
    BY <1>3, <1>6, <2>1 DEF Underway
  <2>3. loop.at - 1 = n
    BY <1>1, <2>1
  <2>4. c[n] = 0
    BY <2>2 DEF Quotients
  <2>5. Carries(loop.group, 0)
    BY <2>2, <2>3, <2>4
  <2>6. loop.group.carry = 0
    BY <2>5, FieldOfZero DEF Carries
  <2> QED BY <1>3, <1>6, <2>6 DEF Underway
<1>7. meant => accepted
  BY <1>4, <1>6
<1> QED BY <1>2, <1>4, <1>5, <1>7 DEF Granted

LEMMA BeginUnderway ==
  ASSUME StoreKept, NEW x \in store, NEW y \in store, BeginEqual(x, y)
  PROVE  LoopKept'
<1>1. Exact(x) /\ Exact(y)
  BY DEF StoreKept, Kept
<1>2. PICK d : d = Difference(x, y) /\ IsSafe(d) /\ loop' = [Idle EXCEPT !.at = 1, !.diff = d]
  BY DEF BeginEqual
<1>3. Exact(d)
  BY <1>1, <1>2, SumExact
<1>4. PICK n \in Nat : n = Len(d.limbs)
  BY <1>3, ExactLimbs
<1>5. loop' = [at |-> 1, diff |-> d, group |-> NoGroup, fits |-> TRUE]
  BY <1>2 DEF Idle
<1>6. loop'.at = 1 /\ loop'.diff = d /\ loop'.group = NoGroup /\ loop'.fits
  BY <1>5
<1>7. LoopRecord'
  BY <1>5, <1>6 DEF LoopRecord
<1>8. 1 \in 1 .. Len(d.limbs) + 1
  BY <1>4
<1>9. ASSUME d.int = 0
      PROVE  \E c : Quotients(c, d, Len(d.limbs)) /\ Carries(NoGroup, c[1 - 1])
  <2>1. PICK c : Quotients(c, d, n)
    BY <1>3, <1>4, <1>9, QuotientsExist
  <2>2. c[1 - 1] = 0
    <3>1. 1 - 1 = 0
      OBVIOUS
    <3> QED BY <2>1, <3>1 DEF Quotients
  <2>3. Carries(NoGroup, c[1 - 1])
    BY <2>2, NothingCarried
  <2> QED BY <1>4, <2>1, <2>3
<1>10. Underway'
  BY <1>3, <1>6, <1>7, <1>8, <1>9 DEF Underway
<1> QED BY <1>10 DEF LoopKept

LEMMA GroupUnderway ==
  ASSUME LoopKept, GroupNextLimb
  PROVE  LoopKept'
<1>1. loop.at \in DOMAIN loop.diff.limbs
  BY DEF GroupNextLimb
<1>2. Underway
  <2>1. loop # Idle
    <3>1. DOMAIN <<>> = {}
      OBVIOUS
    <3> QED BY <1>1, <3>1, IdleLoop
  <2> QED BY <2>1 DEF LoopKept
<1>3. PICK d, g : d = loop.diff /\ g = loop.group
  OBVIOUS
<1>4. Exact(d)
  BY <1>2, <1>3 DEF Underway
<1>5. PICK n \in Nat : n = Len(d.limbs) /\ DOMAIN d.limbs = 1 .. n
  BY <1>4, ExactLimbs
<1>6. PICK k \in 1 .. n : k = loop.at
  BY <1>1, <1>3, <1>5
<1>7. PICK fits : fits = (loop.fits /\ CheckedWith(g, d.bounds[k]))
  OBVIOUS
<1>8. loop' = [at |-> k + 1, diff |-> d, group |-> GroupLimb(g, d.limbs[k], d.bounds[k]), fits |-> fits]
  <2>1. LoopRecord
    BY <1>2 DEF Underway
  <2>2. loop' = [loop EXCEPT !.at = @ + 1,
                             !.group = GroupLimb(@, d.limbs[k], d.bounds[k]),
                             !.fits = @ /\ CheckedWith(g, d.bounds[k])]
    BY <1>3, <1>6 DEF GroupNextLimb
  <2> QED BY <1>3, <1>6, <1>7, <2>1, <2>2 DEF LoopRecord
<1>9. /\ loop'.at = k + 1 /\ loop'.diff = d /\ loop'.fits = fits
      /\ loop'.group = GroupLimb(g, d.limbs[k], d.bounds[k])
  BY <1>8
<1>10. LoopRecord'
  BY <1>8, <1>9 DEF LoopRecord
<1>11. k + 1 \in 1 .. Len(d.limbs) + 1 /\ (k + 1) - 1 = k
  BY <1>5
<1>12. ASSUME d.int = 0
       PROVE  fits /\ \E c : Quotients(c, d, Len(d.limbs)) /\ Carries(loop'.group, c[(k + 1) - 1])
  <2>1. loop.fits
    BY <1>2, <1>3, <1>12 DEF Underway
  <2>2. PICK c : Quotients(c, d, n) /\ Carries(g, c[k - 1])
    BY <1>2, <1>3, <1>5, <1>6, <1>12 DEF Underway
  <2>3. Carries(GroupLimb(g, d.limbs[k], d.bounds[k]), c[k]) /\ CheckedWith(g, d.bounds[k])
    BY <1>4, <1>5, <2>2, NextQuotient
  <2> QED BY <1>5, <1>7, <1>9, <1>11, <2>1, <2>2, <2>3
<1>13. Underway'
  BY <1>4, <1>9, <1>10, <1>11, <1>12 DEF Underway
<1> QED BY <1>13 DEF LoopKept

LEMMA OthersForced ==
  ASSUME Next
  PROVE  \/ verdict' = verdict \/ verdict' = NoVerdict \/ verdict'.call \in Settled
         \/ EndEqual
         \/ \E v \in store : Reduce(v)
         \/ \E x, y \in store : EnforceCongruent(x, y)
<1> DEFINE Goal == \/ verdict' = verdict \/ verdict' = NoVerdict \/ verdict'.call \in Settled
                   \/ EndEqual
                   \/ \E v \in store : Reduce(v)
                   \/ \E x, y \in store : EnforceCongruent(x, y)
<1>1. ASSUME NEW b, NEW h, Allocate(b, h) PROVE Goal
  <2>1. PICK j, honest, accepted, meant : j = Judged("allocate", honest, accepted, meant) /\ verdict' = j
    BY <1>1 DEF Allocate, Create
  <2> QED BY <2>1, JudgedIs DEF Settled
<1>2. ASSUME NEW x, AllocateConstant(x) PROVE Goal
  BY <1>2 DEF AllocateConstant, Create
<1>3. ASSUME NEW x, AllocateBits(Bits(M), x) PROVE Goal
  BY <1>3 DEF AllocateBits, Create
<1>4. ASSUME NEW x, NEW y, Multiply(x, y) PROVE Goal
  <2>1. PICK j, honest, accepted, meant : j = Judged("multiply", honest, accepted, meant) /\ verdict' = j
    BY <1>4 DEF Multiply, Create
  <2> QED BY <2>1, JudgedIs DEF Settled
<1>5. ASSUME NEW x, NEW y, EnforceLt(x, y) PROVE Goal
  <2>1. PICK j, honest, accepted, meant : j = Judged("lt", honest, accepted, meant) /\ verdict' = j
    BY <1>5 DEF EnforceLt, Enforce
  <2> QED BY <2>1, JudgedIs DEF Settled
<1>6. ASSUME NEW x, NEW y, EnforceSame(x, y) PROVE Goal
  <2>1. PICK j, honest, accepted, meant : j = Judged("same", honest, accepted, meant) /\ verdict' = j
    BY <1>6 DEF EnforceSame, Enforce
  <2> QED BY <2>1, JudgedIs DEF Settled
<1>7. ASSUME NEW x \in store, NEW y \in store,
             \/ Add(x, y) \/ Subtract(x, y) \/ MultiplyConstant(x, y)
             \/ MultiplyRow(<<x, y>>, <<y, y>>) \/ \E cond \in BOOLEAN : Select(cond, x, y)
      PROVE  Goal
  BY <1>7 DEF Add, Subtract, MultiplyConstant, MultiplyRow, Select, Create
<1>8. ASSUME (\E x, y \in store : BeginEqual(x, y)) \/ GroupNextLimb \/ Return PROVE Goal
  BY <1>8 DEF BeginEqual, GroupNextLimb, Return
<1> HIDE DEF Goal
<1>9. ASSUME EndEqual \/ (\E v \in store : Reduce(v)) \/ (\E x, y \in store : EnforceCongruent(x, y))
      PROVE  Goal
  BY <1>9 DEF Goal
<1>10. Goal
  BY <1>1, <1>2, <1>3, <1>4, <1>5, <1>6, <1>7, <1>8, <1>9 DEF Next
<1> QED BY <1>10 DEF Goal

LEMMA GrantedStarts == ASSUME Init PROVE LoopKept /\ Granted(verdict)
BY DEF Init, LoopKept, Granted, NoVerdict, Judged

LEMMA LoopStaysKept ==
  ASSUME StoreKept, LoopKept, [Next]_vars
  PROVE  LoopKept'
<1>1. CASE UNCHANGED loop
  BY <1>1 DEF LoopKept, Underway, LoopRecord
<1>2. CASE UNCHANGED vars
  BY <1>1, <1>2 DEF vars
<1>3. CASE Next
  <2>1. ASSUME NEW x \in store, NEW y \in store, BeginEqual(x, y) PROVE LoopKept'
    BY <2>1, BeginUnderway
  <2> QED BY <1>1, <1>3, <2>1, OthersKeepLoop, GroupUnderway, EndGranted
<1> QED BY <1>2, <1>3

LEMMA StaysGranted ==
  ASSUME StoreKept, LoopKept, Granted(verdict), Fits(verdict'), [Next]_vars
  PROVE  Granted(verdict')
<1>1. CASE verdict' = verdict
  BY <1>1
<1>2. CASE UNCHANGED vars
  BY <1>1, <1>2 DEF vars
<1>3. CASE verdict' = NoVerdict
  BY <1>3 DEF NoVerdict, Judged, Granted
<1>4. CASE verdict'.call \in Settled
  BY <1>4 DEF Fits, Granted
<1>5. CASE EndEqual
  BY <1>5, EndGranted
<1>6. ASSUME NEW v \in store, Reduce(v) PROVE Granted(verdict')
  BY <1>6, ReduceGranted
<1>7. ASSUME NEW x \in store, NEW y \in store, EnforceCongruent(x, y) PROVE Granted(verdict')
  BY <1>7, CongruentGranted
<1> QED BY <1>1, <1>2, <1>3, <1>4, <1>5, <1>6, <1>7, OthersForced

\* A prover who gives the right hints is never refused: a range that holds the integer, an
\* order, an equality of unaligned variables, a congruence, a product or a reduction.
THEOREM HonestNeverRefused == Spec => []NoneRefused
<1> DEFINE Inv == StoreKept /\ Fits(verdict) /\ LoopKept /\ Granted(verdict)
<1>1. Init => Inv
  BY InvariantStarts, GrantedStarts
<1>2. Inv /\ [Next]_vars => Inv'
  <2> SUFFICES ASSUME Inv, [Next]_vars PROVE Inv'
    OBVIOUS
  <2>1. StoreKept' /\ Fits(verdict')
    BY InvariantKept
  <2>2. LoopKept'
    BY LoopStaysKept
  <2>3. Granted(verdict')
    BY <2>1, StaysGranted
  <2>4. Granted(verdict)'
    BY <2>3
  <2>5. Fits(verdict)'
    BY <2>1
  <2> QED BY <2>1, <2>2, <2>4, <2>5
<1>3. Inv => NoneRefused
  BY DEF Granted, NoneRefused
<1> QED BY <1>1, <1>2, <1>3, PTL DEF Spec

(***************************************************************************)
(* What enforce_equal_unaligned accepts                                    *)
(***************************************************************************)
LEMMA CeilBelow ==
  ASSUME NEW x \in Int, NEW d \in Nat, d > 0
  PROVE  CeilDiv(x, d) \in Int /\ CeilDiv(x, d) * d < x + d
<1>1. PICK y \in Int : y = -x
  OBVIOUS
<1>2. y % d \in 0 .. d - 1 /\ y \div d \in Int /\ y = d * (y \div d) + (y % d)
  BY <1>1, Remainder
<1>3. PICK q \in Int, r \in Int : q = y \div d /\ r = y % d /\ r < d
  BY <1>2
<1>4. PICK m \in Int : m = d * q
  BY Multiplied
<1>5. y = m + r
  BY <1>2, <1>3, <1>4
<1>6. (-q) * d = -m
  <2>1. (-q) * d = -(d * q)
    BY SMT
  <2> QED BY <1>4, <2>1
<1>7. CeilDiv(x, d) = -q
  BY <1>1, <1>3 DEF CeilDiv
<1>8. -m < x + d
  BY <1>1, <1>3, <1>5
<1>9. CeilDiv(x, d) * d = -m
  BY <1>6, <1>7
<1> QED BY <1>7, <1>8, <1>9

LEMMA HalfBound ==
  ASSUME NEW x \in Int, NEW m \in Nat
  PROVE  /\ x * B <= 2 * m => x <= m
         /\ -(2 * m) <= x * B => -m <= x
<1>1. PICK b \in Nat : b = B /\ b >= 2
  BY BaseType
<1>2. ASSUME x > m PROVE x * b > 2 * m
  <2>1. x \in Nat
    BY <1>2
  <2>2. 2 * x <= b * x
    BY <1>1, <2>1, Scaling
  <2>3. b * x = x * b /\ b * x \in Int
    BY SMT
  <2> QED BY <1>2, <2>2, <2>3
<1>3. ASSUME x < -m PROVE x * b < -(2 * m)
  <2>1. PICK z \in Nat : z = -x /\ z > m
    BY <1>3
  <2>2. 2 * z <= b * z
    BY <1>1, <2>1, Scaling
  <2>3. PICK e \in Int : e = b * z
    BY Multiplied
  <2>4. x * b = -(b * z)
    <3>1. x = -z
      BY <2>1
    <3>2. (-z) * b = -(b * z)
      BY SMT
    <3> QED BY <3>1, <3>2
  <2>5. x * b = -e
    BY <2>3, <2>4
  <2> QED BY <2>1, <2>2, <2>3, <2>5
<1>4. x * b \in Int
  BY Multiplied
<1> QED BY <1>1, <1>2, <1>3, <1>4

LEMMA FieldPlus ==
  ASSUME NEW a \in Int, NEW b \in Int, NEW z \in Int, Field(a) = Field(b)
  PROVE  Field(z + a) = Field(z + b)
<1>1. PICK y \in Int : y = z /\ Field(z) = Field(y)
  OBVIOUS
<1>2. Field(z + a) = Field(y + b)
  BY <1>1, FieldSum, ZenonT(30)
<1> QED BY <1>1, <1>2

\* The carry of a group, times the base, is what the limb was added to.
LEMMA CarryTimesBase ==
  ASSUME NEW g \in GroupSet, NEW limb \in Residues, NEW b \in Safe,
         NEW n, n = GroupLimb(g, limb, b)
  PROVE  /\ n.carry \in Int /\ g.carry \in Int /\ Signed(limb) \in Int
         /\ Field(n.carry * B) = Field(g.carry + Signed(limb))
<1>1. P \in Nat /\ B \in Nat
  BY BaseType
<1>2. n \in GroupSet /\ n.carry = Field((g.carry + limb) * InverseOfB)
  BY GroupLimbType
<1>3. g.carry \in Residues /\ n.carry \in Residues
  BY <1>2 DEF GroupSet
<1>4. g.carry \in Int /\ n.carry \in Int /\ limb \in Int
  BY <1>1, <1>3 DEF Residues
<1>5. PICK v \in Int : v = Signed(limb) /\ Field(v) = limb
  BY SignedType
<1>6. PICK i \in Int : i = InverseOfB /\ Field(i * B) = 1
  BY <1>1, InverseOfBase DEF Residues
<1>7. PICK c \in Int, l \in Int, e \in Int : c = g.carry /\ l = limb /\ e = c + l
  BY <1>4
<1>8. PICK z \in Int : z = e * i /\ n.carry = Field(z)
  <2>1. e * i \in Int
    BY Multiplied
  <2>2. (g.carry + limb) * InverseOfB = e * i
    BY <1>6, <1>7
  <2> QED BY <1>2, <2>1, <2>2
<1>9. PICK m \in Int : m = n.carry /\ Field(m) = Field(z)
  <2>1. Field(n.carry) = n.carry
    BY <1>3, SignedType
  <2> QED BY <1>4, <1>8, <2>1
<1>10. Field(m * B) = Field(z * B)
  <2>1. B \in Int
    BY <1>1
  <2> QED BY <1>9, <2>1, FieldTimes
<1>11. z * B = e * (i * B)
  <2>1. (e * i) * B = e * (i * B)
    BY <1>1, SMT
  <2> QED BY <1>8, <2>1
<1>12. Field(e * (i * B)) = Field(e)
  <2>1. PICK u \in Int : u = i * B
    BY <1>1, Multiplied
  <2>2. Field(u) = Field(1)
    <3>1. 1 \in Residues
      BY BaseType DEF Residues
    <3>2. Field(1) = 1
      BY <3>1, SignedType
    <3> QED BY <1>6, <2>1, <3>2
  <2>3. PICK o \in Int : o = 1 /\ e * o = e
    OBVIOUS
  <2>4. Field(u) = Field(o)
    BY <2>2, <2>3
  <2>5. Field(e * u) = Field(e * o)
    BY <2>4, FieldTimes
  <2> QED BY <2>1, <2>3, <2>5
<1>13. Field(e) = Field(c + v)
  <2>1. Field(l) = Field(v)
    <3>1. Field(limb) = limb
      BY SignedType
    <3> QED BY <1>5, <1>7, <3>1
  <2>2. Field(c + l) = Field(c + v)
    BY <2>1, FieldPlus
  <2> QED BY <1>7, <2>2
<1> QED BY <1>4, <1>5, <1>7, <1>9, <1>10, <1>11, <1>12, <1>13

\* A group of limbs is told by the integer t that they make with the carry that came in.
\* The bounds of a group are those of multiples of the base: another integer exceeds them
\* by less than the base.
GroupIs(g, t) ==
  /\ g \in GroupSet /\ GroupType(g) /\ Fresh(g) /\ Sound(g)
  /\ t \in Int /\ -P < t /\ t < P /\ Field(g.carry * g.unit) = Field(t)
  /\ g.group_bounds.lo < t + B /\ t < g.group_bounds.hi + B
  /\ t < g.carry_bounds.lo * g.unit + P
  /\ -Limit <= g.carry_bounds.lo /\ g.carry_bounds.hi <= Limit
  /\ \A c \in Int : c * g.unit = t => Between(c, g.carry_bounds)

LEMMA NoGroupIsZero == GroupIs(NoGroup, 0)
<1>1. NoGroup \in GroupSet
  BY NothingCarried DEF Carries
<1>2. GroupType(NoGroup) /\ Fresh(NoGroup) /\ Sound(NoGroup)
  BY EmptyGroup
<1>3. /\ NoGroup.carry = 0 /\ NoGroup.unit = 1
      /\ NoGroup.carry_bounds.lo = 0 /\ NoGroup.carry_bounds.hi = 0
      /\ NoGroup.group_bounds.lo = 0 /\ NoGroup.group_bounds.hi = 0
  BY DEF NoGroup, ZeroBounds, Exactly
<1>4. P \in Nat /\ P > 2 /\ B \in Nat /\ B > 1 /\ Limit \in Nat
  BY BaseType, LimitRange
<1>5. 0 * 1 = 0
  OBVIOUS
<1>6. -P < 0 /\ 0 < P /\ 0 < 0 + B /\ 0 < 0 * 1 + P /\ -Limit <= 0 /\ 0 <= Limit
  BY <1>4
<1>7. ASSUME NEW c \in Int, c * 1 = 0 PROVE 0 <= c /\ c <= 0
  BY <1>7
<1>8. \A c \in Int : c * NoGroup.unit = 0 => Between(c, NoGroup.carry_bounds)
  BY <1>3, <1>7 DEF Between
<1> QED BY <1>1, <1>2, <1>3, <1>5, <1>6, <1>8 DEF GroupIs

LEMMA BaseSmall ==
  /\ P \in Nat /\ P > 2 /\ B \in Nat /\ B > 1 /\ Limit \in Nat /\ 2 * Limit < P /\ Limit + B < P
<1>1. P \in Nat /\ P > 2 /\ B \in Nat /\ B > 1 /\ 4 * B <= P /\ Limit \in Nat /\ 2 * Limit < P
  BY BaseType, LimitRange
<1> QED BY <1>1

\* What the next carry is bounded by, in whichever group
LEMMA NextCarryWithin ==
  ASSUME NEW g, NEW t, GroupIs(g, t), NEW b \in Safe, NEW c, c = NextCarryBounds(g, b)
  PROVE  /\ c.lo \in Int /\ c.hi \in Int
         /\ g.carry_bounds.lo + b.lo <= c.lo * B /\ c.hi * B <= g.carry_bounds.hi + b.hi
         /\ c.lo * B < g.carry_bounds.lo + b.lo + B /\ g.carry_bounds.hi + b.hi < c.hi * B + B
         /\ -Limit <= c.lo /\ c.hi <= Limit
<1>1. GroupType(g) /\ -Limit <= g.carry_bounds.lo /\ g.carry_bounds.hi <= Limit
  BY DEF GroupIs
<1>2. /\ c.lo \in Int /\ c.hi \in Int
      /\ c.lo * B >= g.carry_bounds.lo + b.lo /\ c.hi * B <= g.carry_bounds.hi + b.hi
  BY <1>1, CarryShifted
<1>3. B \in Nat /\ B > 0 /\ Limit \in Nat
  BY BaseSmall
<1>4. PICK lo \in Int, hi \in Int : lo = g.carry_bounds.lo + b.lo /\ hi = g.carry_bounds.hi + b.hi
  <2>1. g.carry_bounds.lo \in Int /\ g.carry_bounds.hi \in Int /\ b.lo \in Int /\ b.hi \in Int
    BY <1>1, SafeFacts DEF GroupType
  <2> QED BY <2>1
<1>5. c.lo = CeilDiv(lo, B) /\ c.hi = hi \div B
  BY <1>4 DEF NextCarryBounds, ShiftRightNarrower, PlusBounds
<1>6. c.lo * B < lo + B
  BY <1>3, <1>5, CeilBelow
<1>7. hi < c.hi * B + B
  <2>1. hi % B \in 0 .. B - 1 /\ hi \div B \in Int /\ hi = B * (hi \div B) + (hi % B)
    BY <1>3, Remainder
  <2>2. PICK q \in Int, r \in Int : q = hi \div B /\ r = hi % B /\ r < B
    BY <1>3, <2>1
  <2>3. PICK m \in Int : m = B * q /\ m = q * B
    <3>1. B * q \in Int /\ B * q = q * B
      BY <1>3, SMT
    <3> QED BY <3>1
  <2>4. hi = m + r
    BY <2>1, <2>2, <2>3
  <2>5. c.hi * B = m
    BY <1>5, <2>2, <2>3
  <2> QED BY <1>3, <2>2, <2>4, <2>5
<1>8. -Limit <= b.lo /\ b.hi <= Limit /\ b.lo \in Int /\ b.hi \in Int
  BY SafeBounds
<1>9. PICK l \in Int, h \in Int : l = c.lo * B /\ h = c.hi * B
  BY <1>2, <1>3, Multiplied
<1>10. -(2 * Limit) <= l /\ h <= 2 * Limit
  <2>1. g.carry_bounds.lo \in Int /\ g.carry_bounds.hi \in Int
    BY <1>1 DEF GroupType
  <2>2. -(2 * Limit) <= lo /\ hi <= 2 * Limit
    BY <1>1, <1>3, <1>4, <1>8, <2>1
  <2> QED BY <1>2, <1>3, <1>4, <1>9, <2>2
<1>11. -Limit <= c.lo /\ c.hi <= Limit
  BY <1>2, <1>3, <1>9, <1>10, HalfBound
<1> QED BY <1>2, <1>4, <1>6, <1>7, <1>11

\* A multiple of the base that a carry within bounds makes with the next limb is a carry
\* within the next bounds.
LEMMA NextWithin ==
  ASSUME NEW g, GroupType(g), NEW b \in Safe, NEW v \in Int, Between(v, b),
         NEW e \in Int, Between(e, g.carry_bounds), NEW c \in Int, c * B = e + v
  PROVE  Between(c, NextCarryBounds(g, b))
<1>1. PICK a : a = [lo |-> g.carry_bounds.lo, hi |-> g.carry_bounds.hi] /\ a \in Bounds
  <2>1. g.carry_bounds.lo \in Int /\ g.carry_bounds.hi \in Int
    BY DEF GroupType
  <2>2. [lo |-> g.carry_bounds.lo, hi |-> g.carry_bounds.hi] \in Bounds
    BY <2>1 DEF Bounds
  <2> QED BY <2>2
<1>2. Between(e, a)
  BY <1>1 DEF Between
<1>3. b \in Bounds
  BY SafeFacts
<1>4. PICK s : s = PlusBounds(a, b) /\ s \in Bounds /\ Between(e + v, s)
  BY <1>1, <1>2, <1>3, SumBoundsType, SumWithinBounds
<1>5. B \in Nat /\ B > 0
  BY BaseSmall
<1>6. Between(c * B, s)
  BY <1>4
<1>7. Between(c, ShiftRightNarrower(s, B))
  BY <1>4, <1>5, <1>6, QuotientWithinBounds
<1>8. s = PlusBounds(g.carry_bounds, b)
  BY <1>1, <1>4 DEF PlusBounds
<1> QED BY <1>7, <1>8 DEF NextCarryBounds

LEMMA GroupExtends ==
  ASSUME NEW g, NEW t, GroupIs(g, t), NEW limb \in Residues, NEW b \in Safe,
         NEW v \in Int, v = Signed(limb), Between(v, b), Extended(g, b) \in Safe,
         NEW n, n = GroupLimb(g, limb, b), NEW s, s = t + v * g.unit
  PROVE  GroupIs(n, s)
<1>1. /\ g \in GroupSet /\ GroupType(g) /\ Fresh(g) /\ Sound(g) /\ t \in Int
      /\ Field(g.carry * g.unit) = Field(t)
      /\ g.group_bounds.lo < t + B /\ t < g.group_bounds.hi + B
      /\ \A c \in Int : c * g.unit = t => Between(c, g.carry_bounds)
  BY DEF GroupIs
<1>2. GroupType(n) /\ Fresh(n) /\ Sound(n)
  BY <1>1, ExtendGroup
<1>3. n \in GroupSet
  BY <1>1, GroupLimbType
<1>4. PICK u \in Nat : u = g.unit /\ u > 0
  BY <1>1 DEF GroupType
<1>5. n.unit = u * B /\ n.group_bounds = Extended(g, b) /\ n.carry_bounds = NextCarryBounds(g, b)
  BY <1>4 DEF GroupLimb
<1>6. P \in Nat /\ P > 2 /\ B \in Nat /\ B > 1 /\ Limit \in Nat /\ 2 * Limit < P /\ Limit + B < P
  BY BaseSmall
<1>7. PICK x \in Int : x = v * u /\ s = t + x
  <2>1. v * u \in Int
    BY Multiplied
  <2> QED BY <1>4, <2>1
<1>8. s \in Int
  BY <1>1, <1>7
<1>9. Field(n.carry * n.unit) = Field(s)
  <2>1. PICK m \in Int, c \in Int : /\ m = n.carry /\ c = g.carry /\ Field(m * B) = Field(c + v)
    BY <1>1, CarryTimesBase
  <2>2. PICK y \in Int, z \in Int : y = m * B /\ z = c + v
    BY <1>6, Multiplied
  <2>3. Field(y * u) = Field(z * u)
    BY <2>1, <2>2, FieldTimes
  <2>4. m * (u * B) = (m * B) * u /\ (c + v) * u = c * u + v * u
    BY <1>6, SMT
  <2>5. PICK w \in Int : w = c * u /\ Field(w) = Field(t)
    <3>1. c * u \in Int
      BY Multiplied
    <3> QED BY <1>1, <1>4, <2>1, <3>1
  <2>6. Field(x + w) = Field(x + t)
    BY <1>1, <2>5, FieldPlus
  <2>7. z * u = x + w
    BY <1>7, <2>2, <2>4, <2>5
  <2>8. x + t = s
    BY <1>1, <1>7
  <2>9. n.carry * n.unit = y * u
    BY <1>5, <2>1, <2>2, <2>4
  <2> QED BY <2>3, <2>6, <2>7, <2>8, <2>9
<1>10. PICK lo \in Int, hi \in Int :
         /\ lo = n.group_bounds.lo /\ hi = n.group_bounds.hi
         /\ -Limit <= lo /\ hi <= Limit /\ hi - lo <= Limit
  BY <1>5, SafeBounds
<1>11. lo < s + B /\ s < hi + B
  <2>1. b.lo \in Int /\ b.hi \in Int /\ b.lo <= v /\ v <= b.hi
    BY SafeBounds DEF Between
  <2>2. b.lo * u <= v * u /\ v * u <= b.hi * u
    BY <2>1, Scaling
  <2>3. PICK l \in Int, h \in Int : l = b.lo * u /\ h = b.hi * u
    BY <2>1, Multiplied
  <2>4. PICK gl \in Int, gh \in Int : gl = g.group_bounds.lo /\ gh = g.group_bounds.hi
    BY <1>1 DEF GroupType
  <2>5. lo = gl + l /\ hi = gh + h
    BY <1>4, <1>5, <1>10, <2>3, <2>4 DEF Extended, PlusBounds, ShiftLeft
  <2>6. l <= x /\ x <= h
    BY <1>7, <2>2, <2>3
  <2>7. gl < t + B /\ t < gh + B
    BY <1>1, <2>4
  <2> QED BY <1>1, <1>6, <1>7, <2>5, <2>6, <2>7
<1>12. -P < s /\ s < P
  BY <1>6, <1>8, <1>10, <1>11
<1>13. s < n.carry_bounds.lo * n.unit + P
  <2>1. PICK e \in Int : e = n.carry_bounds.lo * n.unit
    BY <1>2, Multiplied DEF GroupType
  <2>2. lo <= e
    BY <1>2, <1>10, <2>1 DEF Sound, Within, ShiftLeft
  <2>3. s < lo + P
    BY <1>6, <1>8, <1>10, <1>11
  <2> QED BY <1>6, <1>8, <2>1, <2>2, <2>3
<1>14. -Limit <= n.carry_bounds.lo /\ n.carry_bounds.hi <= Limit
  BY <1>5, NextCarryWithin
<1>15. ASSUME NEW c \in Int, c * n.unit = s PROVE Between(c, n.carry_bounds)
  <2>1. PICK m \in Int : m = c * B
    BY <1>6, Multiplied
  <2>2. PICK e \in Int : e = m - v
    OBVIOUS
  <2>3. e * u = m * u - x
    <3>1. (m - v) * u = m * u - v * u
      BY SMT
    <3> QED BY <1>7, <2>2, <3>1
  <2>4. m * u = s
    <3>1. c * (u * B) = (c * B) * u
      BY <1>6, SMT
    <3> QED BY <1>5, <1>15, <2>1, <3>1
  <2>5. e * u = t
    BY <1>1, <1>7, <2>3, <2>4
  <2>6. Between(e, g.carry_bounds)
    BY <1>1, <1>4, <2>5
  <2>7. c * B = e + v
    BY <2>1, <2>2
  <2>8. Between(c, NextCarryBounds(g, b))
    BY <1>1, <2>6, <2>7, NextWithin
  <2> QED BY <1>5, <2>8
<1>16. n.group_bounds.lo < s + B /\ s < n.group_bounds.hi + B
  BY <1>10, <1>11
<1> QED BY <1>2, <1>3, <1>8, <1>9, <1>12, <1>13, <1>14, <1>15, <1>16 DEF GroupIs

\* The carries that pass the range check of a group are told apart by the group's residue.
\* A group that, with its unit and a limb, is narrower than half of the field leaves room for
\* them (RoomTellsApart).
ToldApart(g) ==
  LET most == g.carry_bounds.lo + 2 ^ Bits(g.carry_bounds.hi - g.carry_bounds.lo + 1) - 1
  IN  most * g.unit - g.group_bounds.lo + B <= P

\* A residue that passes a range check is that of an integer within the range.
LEMMA CheckedNear ==
  ASSUME NEW r \in Residues, NEW lo \in Int, NEW p \in Nat, Field(r - lo) < p
  PROVE  \E c \in Int : Field(c) = r /\ lo <= c /\ c <= lo + p - 1
<1>1. P \in Nat
  BY BaseType
<1>2. PICK e \in Int : e = r /\ Field(e) = e
  BY <1>1, SignedType DEF Residues
<1>3. PICK y \in Int : y = e - lo
  OBVIOUS
<1>4. PICK z \in Int : z = Field(y) /\ z < p /\ 0 <= z /\ Field(z) = Field(y)
  <2>1. Field(y) \in Residues
    BY FieldType
  <2>2. Field(y) < p
    BY <1>2, <1>3
  <2>3. Field(Field(y)) = Field(y)
    BY <2>1, SignedType
  <2> QED BY <1>1, <2>1, <2>2, <2>3 DEF Residues
<1>5. PICK c \in Int : c = lo + z
  OBVIOUS
<1>6. Field(c) = Field(e)
  <2>1. Field(lo + z) = Field(lo + y)
    BY <1>4, FieldPlus
  <2>2. lo + y = e
    BY <1>3
  <2> QED BY <1>5, <2>1, <2>2
<1>8. lo <= c /\ c <= lo + p - 1
  BY <1>4, <1>5
<1> QED BY <1>2, <1>6, <1>8

LEMMA CheckedCarry ==
  ASSUME NEW r \in Residues, NEW lo \in Int, NEW p \in Nat, NEW u \in Nat, Field(r - lo) < p
  PROVE  \E c \in Int : /\ Field(c) = r /\ Field(c * u) = Field(r * u)
                        /\ lo <= c /\ c <= lo + p - 1
<1>1. PICK c \in Int : Field(c) = r /\ lo <= c /\ c <= lo + p - 1
  BY CheckedNear
<1>2. r \in Int /\ Field(r) = r
  BY BaseType, SignedType DEF Residues
<1>3. Field(c * u) = Field(r * u)
  <2>2. u \in Int
    OBVIOUS
  <2>3. Field(c) = Field(r)
    BY <1>1, <1>2
  <2> QED BY <1>2, <2>2, <2>3, FieldTimes, ZenonT(30)
<1> QED BY <1>1, <1>3

\* The range check of a carry makes the group a multiple of its unit.
LEMMA GroupEnds ==
  ASSUME NEW g, NEW t, GroupIs(g, t), CarryFits(g), ToldApart(g)
  PROVE  \E c \in Int : Field(c) = g.carry /\ c * g.unit = t /\ Between(c, g.carry_bounds)
<1>1. /\ g \in GroupSet /\ GroupType(g) /\ t \in Int /\ Field(g.carry * g.unit) = Field(t)
      /\ g.group_bounds.lo < t + B /\ t < g.carry_bounds.lo * g.unit + P
      /\ \A c \in Int : c * g.unit = t => Between(c, g.carry_bounds)
  BY DEF GroupIs
<1>2. P \in Nat /\ P > 2 /\ B \in Nat
  BY BaseSmall
<1>3. PICK lo \in Int, hi \in Int, gl \in Int, u \in Nat :
        lo = g.carry_bounds.lo /\ hi = g.carry_bounds.hi /\ gl = g.group_bounds.lo /\ u = g.unit
  BY <1>1 DEF GroupType
<1>4. PICK r \in Residues : r = g.carry
  BY <1>1 DEF GroupSet
<1>5. PICK w \in Int : w = hi - lo + 1
  OBVIOUS
<1>6. PICK p \in Nat : p = 2 ^ Bits(w)
  <2>1. Bits(w) \in Nat
    BY BitsAre
  <2> QED BY <2>1, PowerPositive
<1>7. Field(r - lo) < p
  BY <1>3, <1>4, <1>5, <1>6 DEF CarryFits, FitsBits
<1>8. PICK c \in Int : /\ Field(c) = r /\ Field(c * u) = Field(r * u)
                      /\ lo <= c /\ c <= lo + p - 1
  BY <1>7, CheckedCarry
<1>9. Field(c) = g.carry
  BY <1>4, <1>8
<1>10. PICK m \in Int : m = c * u /\ Field(m) = Field(t)
  <2>1. c * u \in Int
    BY Multiplied
  <2> QED BY <1>1, <1>3, <1>4, <1>8, <2>1
<1>11. t - m < P
  <2>1. lo * u <= c * u
    BY <1>8, Scaling
  <2>2. PICK e \in Int : e = lo * u
    BY Multiplied
  <2>3. e <= m /\ t < e + P
    BY <1>1, <1>3, <1>10, <2>1, <2>2
  <2> QED BY <1>1, <1>2, <2>3
<1>12. m - t < P
  <2>1. PICK most \in Int : most = lo + p - 1
    OBVIOUS
  <2>2. c <= most
    BY <1>8, <2>1
  <2>3. c * u <= most * u
    BY <2>2, Scaling
  <2>4. PICK e \in Int : e = most * u
    BY Multiplied
  <2>5. e - gl + B <= P
    BY <1>3, <1>5, <1>6, <2>1, <2>4 DEF ToldApart
  <2>6. m <= e /\ gl < t + B
    BY <1>1, <1>3, <1>10, <2>3, <2>4
  <2> QED BY <1>1, <1>2, <2>5, <2>6
<1>13. m = t
  BY <1>1, <1>10, <1>11, <1>12, KnownByResidue
<1>14. c * g.unit = t
  BY <1>3, <1>10, <1>13
<1>15. Between(c, g.carry_bounds)
  BY <1>1, <1>14
<1> QED BY <1>9, <1>14, <1>15

\* Between carries there is less than half of the field.
LEMMA CarryNarrow ==
  ASSUME NEW g, GroupType(g), Fresh(g), Sound(g)
  PROVE  g.carry_bounds.hi - g.carry_bounds.lo <= Limit
<1>1. PICK lo \in Int, hi \in Int, u \in Nat :
        lo = g.carry_bounds.lo /\ hi = g.carry_bounds.hi /\ u = g.unit /\ u >= 1
  BY DEF GroupType
<1>2. P \in Nat /\ P > 2 /\ Limit \in Nat
  BY BaseSmall
<1>3. CASE u = 1
  <2>1. lo = 0 /\ hi = 0
    BY <1>1, <1>3 DEF Fresh, ZeroBounds, Exactly
  <2> QED BY <1>1, <1>2, <2>1
<1>4. CASE hi - lo < 0
  BY <1>1, <1>2, <1>4
<1>5. CASE u >= 2 /\ hi - lo >= 0
  <2>1. PICK w \in Nat : w = hi - lo
    BY <1>5
  <2>2. 2 * w <= u * w
    BY <1>5, Scaling
  <2>3. PICK l \in Int, h \in Int : l = lo * u /\ h = hi * u /\ u * w = h - l
    <3>1. lo * u \in Int /\ hi * u \in Int /\ u * (hi - lo) = hi * u - lo * u
      BY SMT
    <3> QED BY <2>1, <3>1
  <2>4. PICK gl \in Int, gh \in Int : /\ gl = g.group_bounds.lo /\ gh = g.group_bounds.hi
                                      /\ gl <= l /\ h <= gh /\ gh - gl < P
    <3>1. g.group_bounds.lo \in Int /\ g.group_bounds.hi \in Int
      BY DEF GroupType
    <3>2. g.group_bounds.lo <= l /\ h <= g.group_bounds.hi
      BY <1>1, <2>3 DEF Sound, Within, ShiftLeft
    <3>3. g.group_bounds.hi - g.group_bounds.lo < P
      BY DEF Sound, Width
    <3> QED BY <3>1, <3>2, <3>3
  <2>5. 2 * w < P
    BY <1>2, <2>2, <2>3, <2>4
  <2>6. P - 1 = 2 * Limit + ((P - 1) % 2) /\ (P - 1) % 2 \in 0 .. 1
    <3>1. 2 \in Nat /\ 2 > 0 /\ P - 1 \in Int
      BY <1>2
    <3>2. (P - 1) % 2 \in 0 .. 2 - 1 /\ P - 1 = 2 * ((P - 1) \div 2) + ((P - 1) % 2)
      BY <3>1, Remainder
    <3> QED BY <3>2 DEF Limit
  <2>7. w <= Limit
    BY <1>2, <2>5, <2>6
  <2> QED BY <1>1, <2>1, <2>7
<1> QED BY <1>1, <1>3, <1>4, <1>5

LEMMA GroupStarts ==
  ASSUME NEW g, NEW t, GroupIs(g, t), NEW c \in Int, Field(c) = g.carry, Between(c, g.carry_bounds),
         NEW limb \in Residues, NEW b \in Safe, NEW v \in Int, v = Signed(limb), Between(v, b),
         Extended(g, b) \notin Safe, NEW n, n = GroupLimb(g, limb, b), NEW s, s = c + v
  PROVE  GroupIs(n, s)
<1>1. g \in GroupSet /\ GroupType(g) /\ Fresh(g) /\ Sound(g)
  BY DEF GroupIs
<1>2. GroupType(n) /\ Fresh(n) /\ Sound(n)
  BY <1>1, StartGroup
<1>3. n \in GroupSet
  BY <1>1, GroupLimbType
<1>4. P \in Nat /\ P > 2 /\ B \in Nat /\ B > 1 /\ Limit \in Nat /\ 2 * Limit < P
  BY BaseSmall
<1>5. PICK k : k = NextCarryBounds(g, b)
  OBVIOUS
<1>6. n.unit = B /\ n.group_bounds = ShiftLeft(k, B) /\ n.carry_bounds = k
  BY <1>5 DEF GroupLimb
<1>7. PICK lo \in Int, hi \in Int :
        /\ lo = g.carry_bounds.lo /\ hi = g.carry_bounds.hi /\ lo <= c /\ c <= hi
        /\ -Limit <= lo /\ hi <= Limit /\ hi - lo <= Limit
  <2>1. g.carry_bounds.lo \in Int /\ g.carry_bounds.hi \in Int
    BY <1>1 DEF GroupType
  <2>2. g.carry_bounds.lo <= c /\ c <= g.carry_bounds.hi
    BY DEF Between
  <2>3. -Limit <= g.carry_bounds.lo /\ g.carry_bounds.hi <= Limit
    BY DEF GroupIs
  <2>4. g.carry_bounds.hi - g.carry_bounds.lo <= Limit
    BY <1>1, CarryNarrow
  <2> QED BY <2>1, <2>2, <2>3, <2>4
<1>8. PICK bl \in Int, bh \in Int :
        /\ bl = b.lo /\ bh = b.hi /\ bl <= v /\ v <= bh
        /\ -Limit <= bl /\ bh <= Limit /\ bh - bl <= Limit
  BY SafeBounds DEF Between
<1>9. s \in Int /\ lo + bl <= s /\ s <= hi + bh
  BY <1>7, <1>8
<1>10. PICK l \in Int, h \in Int :
         /\ l = k.lo * B /\ h = k.hi * B
         /\ lo + bl <= l /\ l < lo + bl + B /\ hi + bh < h + B
         /\ -Limit <= k.lo /\ k.hi <= Limit
  <2>1. /\ k.lo \in Int /\ k.hi \in Int
        /\ g.carry_bounds.lo + b.lo <= k.lo * B
        /\ k.lo * B < g.carry_bounds.lo + b.lo + B /\ g.carry_bounds.hi + b.hi < k.hi * B + B
        /\ -Limit <= k.lo /\ k.hi <= Limit
    BY <1>5, NextCarryWithin
  <2>2. k.lo * B \in Int /\ k.hi * B \in Int
    BY <1>4, <2>1, Multiplied
  <2> QED BY <1>7, <1>8, <2>1, <2>2
<1>11. n.group_bounds.lo = l /\ n.group_bounds.hi = h /\ n.carry_bounds.lo * n.unit = l
  BY <1>6, <1>10 DEF ShiftLeft
<1>12. -P < s /\ s < P
  BY <1>4, <1>7, <1>8, <1>9
<1>13. l < s + B /\ s < h + B /\ s < l + P
  BY <1>4, <1>7, <1>8, <1>9, <1>10
<1>14. Field(n.carry * n.unit) = Field(s)
  <2>1. PICK r \in Int : r = g.carry /\ Field(n.carry * B) = Field(r + v)
    BY <1>1, CarryTimesBase
  <2>2. Field(r) = Field(c)
    <3>1. g.carry \in Residues
      BY <1>1 DEF GroupSet
    <3> QED BY <2>1, <3>1, SignedType
  <2>3. Field(v + r) = Field(v + c)
    BY <2>2, FieldPlus, ZenonT(30)
  <2>4. v + r = r + v /\ v + c = s
    BY <1>9
  <2> QED BY <1>6, <2>1, <2>3, <2>4
<1>15. ASSUME NEW e \in Int, e * n.unit = s PROVE Between(e, n.carry_bounds)
  <2>1. e * B = c + v
    BY <1>6, <1>15
  <2> QED BY <1>1, <1>5, <1>6, <2>1, NextWithin
<1>16. -Limit <= n.carry_bounds.lo /\ n.carry_bounds.hi <= Limit
  BY <1>6, <1>10
<1>17. n.group_bounds.lo < s + B /\ s < n.group_bounds.hi + B /\ s < n.carry_bounds.lo * n.unit + P
  BY <1>11, <1>13
<1> QED BY <1>2, <1>3, <1>9, <1>12, <1>14, <1>15, <1>16, <1>17 DEF GroupIs

\* The groups up to limb k stand for what the limbs up to limb k add up to.
Reached(g, k, f) ==
  \E t \in Int, w \in Nat :
    GroupIs(g, t) /\ w >= 1 /\ g.unit * w = Weight(k + 1) /\ Total(k, f) = t * w

LEMMA NothingReached ==
  ASSUME NEW f, Total(0, f) = 0
  PROVE  Reached(NoGroup, 0, f)
<1>1. Weight(1) = 1 /\ NoGroup.unit = 1
  BY Weights DEF NoGroup
<1>2. GroupIs(NoGroup, 0)
  BY NoGroupIsZero
<1>3. PICK t \in Int, w \in Nat : t = 0 /\ w = 1
  OBVIOUS
<1>4. t * w = 0 /\ NoGroup.unit * w = 1 /\ w >= 1 /\ 0 + 1 = 1
  BY <1>1, <1>3
<1>5. GroupIs(NoGroup, t)
  BY <1>2, <1>3
<1> QED BY <1>1, <1>4, <1>5 DEF Reached

\* The arithmetic of one more limb, in the same group and in a new one
Makes(u, w, z) == u * w = z
Sums(t, w, v, z, s, x) == t * w + v * z = s * x

LEMMA SameGroupSums ==
  ASSUME NEW t \in Int, NEW v \in Int, NEW u \in Nat, NEW w \in Nat, NEW z \in Nat,
         Makes(u, w, z), NEW s \in Int, s = t + v * u
  PROVE  Sums(t, w, v, z, s, w) /\ Makes(u * B, w, z * B)
<1>1. (t + v * u) * w = t * w + v * (u * w)
  BY SMT
<1>2. B \in Nat
  BY BaseType
<1>3. (u * B) * w = (u * w) * B
  BY <1>2, SMT
<1> QED BY <1>1, <1>3 DEF Makes, Sums

LEMMA NewGroupSums ==
  ASSUME NEW t \in Int, NEW c \in Int, NEW v \in Int, NEW u \in Nat, NEW w \in Nat, NEW z \in Nat,
         Makes(u, w, z), Makes(c, u, t), NEW s \in Int, s = c + v
  PROVE  Sums(t, w, v, z, s, z)
<1>1. (c + v) * z = c * z + v * z
  BY SMT
<1>2. (c * u) * w = c * (u * w)
  BY SMT
<1> QED BY <1>1, <1>2 DEF Makes, Sums

LEMMA LimbReached ==
  ASSUME NEW k \in Nat, k >= 1, NEW f, NEW g, Reached(g, k - 1, f),
         NEW limb \in Residues, NEW b \in Safe, NEW v \in Int, v = Signed(limb), Between(v, b),
         CheckedWith(g, b), Extended(g, b) \in Safe \/ ToldApart(g),
         NEW n, n = GroupLimb(g, limb, b), NEW e, e = v * Weight(k), Total(k, f) = Total(k - 1, f) + e
  PROVE  Reached(n, k, f)
<1>1. PICK t \in Int, w \in Nat :
        GroupIs(g, t) /\ w >= 1 /\ g.unit * w = Weight((k - 1) + 1) /\ Total(k - 1, f) = t * w
  BY DEF Reached
<1>2. PICK z \in Nat : z = Weight(k) /\ z >= 1 /\ Weight(k + 1) = z * B
  BY Weights
<1>3. PICK u \in Nat : u = g.unit /\ u * w = z
  <2>1. (k - 1) + 1 = k
    OBVIOUS
  <2>2. g.unit \in Nat
    BY <1>1 DEF GroupIs, GroupType
  <2> QED BY <1>1, <1>2, <2>1, <2>2
<1>4. Total(k, f) = t * w + v * z
  BY <1>1, <1>2
<1>5. CASE Extended(g, b) \in Safe
  <2>1. PICK s \in Int : s = t + v * u
    <3>1. v * u \in Int
      BY Multiplied
    <3> QED BY <3>1
  <2>2. GroupIs(n, s)
    BY <1>1, <1>3, <1>5, <2>1, GroupExtends
  <2>3. n.unit = u * B
    BY <1>3, <1>5 DEF GroupLimb
  <2>4. t * w + v * z = s * w /\ (u * B) * w = z * B
    <3>1. Makes(u, w, z)
      BY <1>3 DEF Makes
    <3>2. Sums(t, w, v, z, s, w) /\ Makes(u * B, w, z * B)
      BY <2>1, <3>1, SameGroupSums
    <3> QED BY <3>2, Zenon DEF Makes, Sums
  <2>5. Total(k, f) = s * w /\ n.unit * w = Weight(k + 1)
    BY <1>2, <1>4, <2>3, <2>4
  <2>6. w >= 1
    BY <1>1
  <2> QED BY <2>2, <2>5, <2>6 DEF Reached
<1>6. CASE Extended(g, b) \notin Safe
  <2>1. CarryFits(g) /\ ToldApart(g)
    BY <1>6 DEF CheckedWith
  <2>2. PICK c \in Int : Field(c) = g.carry /\ c * u = t /\ Between(c, g.carry_bounds)
    BY <1>1, <1>3, <2>1, GroupEnds
  <2>3. PICK s \in Int : s = c + v
    OBVIOUS
  <2>4. GroupIs(n, s)
    BY <1>1, <1>6, <2>2, <2>3, GroupStarts
  <2>5. n.unit = B
    BY <1>6 DEF GroupLimb
  <2>6. t * w + v * z = s * z
    <3>1. Makes(u, w, z) /\ Makes(c, u, t)
      BY <1>3, <2>2, Zenon DEF Makes
    <3>2. Sums(t, w, v, z, s, z)
      BY <2>3, <3>1, NewGroupSums
    <3> QED BY <3>2, Zenon DEF Sums
  <2>7. n.unit * z = Weight(k + 1)
    <3>1. B * z = z * B
      BY BaseType, SMT
    <3> QED BY <1>2, <2>5, <3>1
  <2>8. Total(k, f) = s * z /\ z >= 1
    BY <1>2, <1>4, <2>6
  <2> QED BY <2>4, <2>7, <2>8 DEF Reached
<1> QED BY <1>5, <1>6

\* A last carry that is zero
LEMMA ReachedZero ==
  ASSUME NEW g, NEW k, NEW f, Reached(g, k, f), g.carry = 0
  PROVE  Total(k, f) = 0
<1>1. PICK t \in Int, w \in Nat : GroupIs(g, t) /\ Total(k, f) = t * w
  BY DEF Reached
<1>2. PICK u \in Nat : u = g.unit
  BY <1>1 DEF GroupIs, GroupType
<1>3. P \in Nat /\ P > 2
  BY BaseSmall
<1>4. -P < t /\ t < P /\ Field(0 * u) = Field(t)
  BY <1>1, <1>2 DEF GroupIs
<1>5. PICK o \in Int : o = 0 /\ Field(o) = Field(t)
  <2>1. 0 * u = 0
    BY SMT
  <2> QED BY <1>4, <2>1
<1>6. o - t < P /\ t - o < P
  BY <1>3, <1>4, <1>5
<1>7. t = 0
  BY <1>5, <1>6, KnownByResidue
<1>8. 0 * w = 0
  BY SMT
<1> QED BY <1>1, <1>7, <1>8

\* Whether the range check of every group that ends tells its carries apart
Clear(d) ==
  \A g \in [0 .. Len(d.limbs) -> GroupSet] :
    GroupsOf(g, d, Len(d.limbs)) =>
      \A k \in 1 .. Len(d.limbs) : Extended(g[k - 1], d.bounds[k]) \in Safe \/ ToldApart(g[k - 1])

\* Groups that were all checked, the last one without a carry: the difference is zero.
LEMMA GroupsForce ==
  ASSUME NEW d, Exact(d), Clear(d), NEW n, n = Len(d.limbs),
         NEW g \in [0 .. n -> GroupSet], GroupsOf(g, d, n), g[n].carry = 0,
         \A k \in 1 .. n : CheckedWith(g[k - 1], d.bounds[k])
  PROVE  d.int = 0
<1>1. n \in Nat /\ d.limbs \in [1 .. n -> Residues] /\ d.bounds \in [1 .. n -> Safe]
  BY ExactLimbs
<1> DEFINE f == [k \in 1 .. n |-> Value(d, k) * Weight(k)]
<1>2. Terms(n, f) /\ Total(n, f) = d.int
  <2>1. \A k \in 1 .. n : f[k] = Value(d, k) * Weight(k)
    OBVIOUS
  <2>2. n >= Len(d.limbs)
    BY <1>1
  <2> HIDE DEF f
  <2> QED BY <1>1, <2>1, <2>2, ValuesMakeUp
<1>3. \A k \in 1 .. n : f[k] = Value(d, k) * Weight(k)
  OBVIOUS
<1> HIDE DEF f
<1>4. /\ Total(0, f) = 0
      /\ \A k \in 1 .. n : f[k] \in Int /\ Total(k, f) = Total(k - 1, f) + f[k]
  BY <1>1, <1>2, TotalSteps
<1> DEFINE T == {k \in 0 .. n : Reached(g[k], k, f)}
<1>5. 0 \in T
  <2>1. g[0] = NoGroup /\ 0 \in 0 .. n
    BY <1>1 DEF GroupsOf
  <2>2. Reached(NoGroup, 0, f)
    BY <1>4, NothingReached
  <2> QED BY <2>1, <2>2
<1>6. ASSUME NEW k \in 1 .. n, k - 1 \in T PROVE k \in T
  <2>1. PICK limb \in Residues, b \in Safe : limb = d.limbs[k] /\ b = d.bounds[k]
    BY <1>1
  <2>2. LimbAt(d, k) = d.limbs[k] /\ BoundAt(d, k) = d.bounds[k] /\ Between(Value(d, k), BoundAt(d, k))
    <3>1. k \in Int /\ k \in 1 .. Len(d.limbs)
      BY <1>1
    <3> QED BY <3>1, LimbIs
  <2>3. PICK v \in Int : v = Signed(limb) /\ v = Value(d, k) /\ Between(v, b)
    <3>1. Signed(limb) \in Int
      BY SignedType
    <3> QED BY <2>1, <2>2, <3>1 DEF Value
  <2>4. k \in Nat /\ k >= 1 /\ k \in 0 .. n
    BY <1>1
  <2>5. PICK e : e = v * Weight(k) /\ e = f[k] /\ Total(k, f) = Total(k - 1, f) + e
    BY <1>3, <1>4, <2>3
  <2>6. PICK h : h = g[k - 1] /\ Reached(h, k - 1, f)
    BY <1>6
  <2>7. g[k] = GroupLimb(h, limb, b)
    BY <2>1, <2>6 DEF GroupsOf
  <2>8. CheckedWith(h, b)
    BY <2>1, <2>6
  <2>9. Extended(h, b) \in Safe \/ ToldApart(h)
    BY <2>1, <2>6 DEF Clear
  <2>10. Reached(g[k], k, f)
    BY <2>3, <2>4, <2>5, <2>6, <2>7, <2>8, <2>9, LimbReached
  <2> QED BY <2>4, <2>10
<1>7. n \in T
  <2>1. 0 .. n \subseteq T
    <3> HIDE DEF T
    <3> QED BY <1>1, <1>5, <1>6, UpTo, Zenon
  <2> QED BY <1>1, <2>1
<1>8. Total(n, f) = 0
  BY <1>7, ReachedZero
<1> QED BY <1>2, <1>8

\* enforce_equal_unaligned accepts only a difference that is zero.
LEMMA EqualIsZero ==
  ASSUME NEW d, Exact(d), EqualHolds(d), Clear(d)
  PROVE  d.int = 0
<1>1. PICK n \in Nat : n = Len(d.limbs) /\ DOMAIN d.limbs = 1 .. n
  BY ExactLimbs
<1>2. PICK g \in [0 .. n -> GroupSet] : GroupsOf(g, d, n)
  BY <1>1, GroupsExist
<1>3. DOMAIN g = 0 .. n /\ g = [k \in 0 .. n |-> g[k]]
  OBVIOUS
<1>4. AllChecked(g, d, n)
  BY <1>1, <1>2, <1>3, EqualIs
<1>5. g[n].carry = 0 /\ \A k \in 1 .. n : CheckedWith(g[k - 1], d.bounds[k])
  BY <1>4 DEF AllChecked
<1> QED BY <1>1, <1>2, <1>5, GroupsForce

\* The loop computes the groups of the difference, and remembers whether they were checked.
ChecksUpTo(g, d, k) == \A i \in 1 .. k : CheckedWith(g[i - 1], d.bounds[i])

Grouped(g) ==
  /\ g \in [0 .. Len(loop.diff.limbs) -> GroupSet]
  /\ GroupsOf(g, loop.diff, Len(loop.diff.limbs))
  /\ loop.group = g[loop.at - 1]
  /\ loop.fits => ChecksUpTo(g, loop.diff, loop.at - 1)

LoopGroups == loop = Idle \/ \E g : Grouped(g)

LEMMA BeginGroups ==
  ASSUME StoreKept, NEW x \in store, NEW y \in store, BeginEqual(x, y)
  PROVE  LoopGroups'
<1>1. Exact(x) /\ Exact(y)
  BY DEF StoreKept, Kept
<1>2. PICK d : d = Difference(x, y) /\ IsSafe(d) /\ loop' = [Idle EXCEPT !.at = 1, !.diff = d]
  BY DEF BeginEqual
<1>3. Exact(d)
  BY <1>1, <1>2, SumExact
<1>4. loop' = [at |-> 1, diff |-> d, group |-> NoGroup, fits |-> TRUE]
  BY <1>2 DEF Idle
<1>5. loop'.at = 1 /\ loop'.diff = d /\ loop'.group = NoGroup
  BY <1>4
<1>6. PICK g \in [0 .. Len(d.limbs) -> GroupSet] : GroupsOf(g, d, Len(d.limbs))
  BY <1>3, GroupsExist
<1>7. g[1 - 1] = NoGroup
  <2>1. 1 - 1 = 0
    OBVIOUS
  <2> QED BY <1>6, <2>1 DEF GroupsOf
<1>8. ChecksUpTo(g, d, 1 - 1)
  <2>1. 1 .. 1 - 1 = {}
    OBVIOUS
  <2> QED BY <2>1 DEF ChecksUpTo
<1>9. Grouped(g)'
  BY <1>5, <1>6, <1>7, <1>8 DEF Grouped
<1> QED BY <1>9 DEF LoopGroups

LEMMA NextGroups ==
  ASSUME LoopKept, LoopGroups, GroupNextLimb
  PROVE  LoopGroups'
<1>1. loop.at \in DOMAIN loop.diff.limbs
  BY DEF GroupNextLimb
<1>2. loop # Idle
  <2>1. DOMAIN <<>> = {}
    OBVIOUS
  <2> QED BY <1>1, <2>1, IdleLoop
<1>3. LoopRecord /\ Exact(loop.diff)
  BY <1>2 DEF LoopKept, Underway
<1>4. PICK g : Grouped(g)
  BY <1>2 DEF LoopGroups
<1>5. PICK d, h : d = loop.diff /\ h = loop.group
  OBVIOUS
<1>6. PICK n \in Nat : n = Len(d.limbs) /\ DOMAIN d.limbs = 1 .. n
  BY <1>3, <1>5, ExactLimbs
<1>7. PICK k \in 1 .. n : k = loop.at
  BY <1>1, <1>5, <1>6
<1>8. PICK fits : fits = (loop.fits /\ CheckedWith(h, d.bounds[k]))
  OBVIOUS
<1>9. loop' = [at |-> k + 1, diff |-> d, group |-> GroupLimb(h, d.limbs[k], d.bounds[k]), fits |-> fits]
  <2>1. loop' = [loop EXCEPT !.at = @ + 1,
                             !.group = GroupLimb(@, d.limbs[k], d.bounds[k]),
                             !.fits = @ /\ CheckedWith(h, d.bounds[k])]
    BY <1>5, <1>7 DEF GroupNextLimb
  <2> QED BY <1>3, <1>5, <1>7, <1>8, <2>1 DEF LoopRecord
<1>10. /\ loop'.at = k + 1 /\ loop'.diff = d /\ loop'.fits = fits
       /\ loop'.group = GroupLimb(h, d.limbs[k], d.bounds[k])
  BY <1>9
<1>11. /\ g \in [0 .. Len(d.limbs) -> GroupSet] /\ GroupsOf(g, d, Len(d.limbs))
       /\ h = g[k - 1] /\ (loop.fits => ChecksUpTo(g, d, k - 1))
  BY <1>4, <1>5, <1>7 DEF Grouped
<1>12. (k + 1) - 1 = k
  OBVIOUS
<1>13. GroupLimb(h, d.limbs[k], d.bounds[k]) = g[(k + 1) - 1]
  BY <1>6, <1>11, <1>12 DEF GroupsOf
<1>14. fits => ChecksUpTo(g, d, (k + 1) - 1)
  <2> SUFFICES ASSUME fits, NEW i \in 1 .. k PROVE CheckedWith(g[i - 1], d.bounds[i])
    BY <1>12 DEF ChecksUpTo
  <2>1. i = k \/ i \in 1 .. k - 1
    OBVIOUS
  <2>2. CASE i = k
    BY <1>8, <1>11, <2>2
  <2>3. CASE i \in 1 .. k - 1
    BY <1>8, <1>11, <2>3 DEF ChecksUpTo
  <2> QED BY <2>1, <2>2, <2>3
<1>15. Grouped(g)'
  BY <1>10, <1>11, <1>13, <1>14 DEF Grouped
<1> QED BY <1>15 DEF LoopGroups

LEMMA LoopStaysGrouped ==
  ASSUME StoreKept, LoopKept, LoopGroups, [Next]_vars
  PROVE  LoopGroups'
<1>1. CASE UNCHANGED loop
  <2>1. ASSUME NEW g, Grouped(g) PROVE Grouped(g)'
    BY <1>1, <2>1 DEF Grouped
  <2> QED BY <1>1, <2>1 DEF LoopGroups
<1>2. CASE UNCHANGED vars
  BY <1>1, <1>2 DEF vars
<1>3. CASE Next
  <2>1. ASSUME NEW x \in store, NEW y \in store, BeginEqual(x, y) PROVE LoopGroups'
    BY <2>1, BeginGroups
  <2>2. CASE EndEqual
    BY <2>2 DEF EndEqual, LoopGroups
  <2> QED BY <1>1, <1>3, <2>1, <2>2, OthersKeepLoop, NextGroups
<1> QED BY <1>2, <1>3

\* The verdict of the loop, when the carries of its groups are told apart
LEMMA EndForced ==
  ASSUME LoopKept, LoopGroups, EndEqual, Clear(loop.diff), verdict'.accepted
  PROVE  verdict'.meant
<1>1. loop.at = Len(loop.diff.limbs) + 1
  BY DEF EndEqual
<1>2. loop # Idle
  <2>1. Len(<<>>) = 0
    OBVIOUS
  <2> QED BY <1>1, <2>1, IdleLoop
<1>3. Exact(loop.diff)
  BY <1>2 DEF LoopKept, Underway
<1>4. PICK g : Grouped(g)
  BY <1>2 DEF LoopGroups
<1>5. PICK d : d = loop.diff
  OBVIOUS
<1>6. PICK n \in Nat : n = Len(d.limbs) /\ n = loop.at - 1
  <2>1. Len(d.limbs) \in Nat
    BY <1>3, <1>5, ExactLimbs
  <2> QED BY <1>1, <1>5, <2>1
<1>7. PICK j, accepted, meant :
        /\ accepted = (loop.fits /\ loop.group.carry = 0) /\ meant = (d.int = 0)
        /\ j = Judged("equal", TRUE, accepted, meant) /\ verdict' = j
  BY <1>5 DEF EndEqual
<1>8. j.accepted = accepted /\ j.meant = meant
  BY <1>7 DEF Judged
<1>9. loop.fits /\ loop.group.carry = 0
  BY <1>7, <1>8
<1>10. /\ g \in [0 .. n -> GroupSet] /\ GroupsOf(g, d, n)
       /\ loop.group = g[n] /\ ChecksUpTo(g, d, n)
  BY <1>4, <1>5, <1>6, <1>9 DEF Grouped
<1>11. Exact(d) /\ Clear(d) /\ g[n].carry = 0 /\ \A k \in 1 .. n : CheckedWith(g[k - 1], d.bounds[k])
  BY <1>3, <1>5, <1>9, <1>10 DEF ChecksUpTo
<1>12. d.int = 0
  BY <1>6, <1>10, <1>11, GroupsForce
<1> QED BY <1>7, <1>8, <1>12

(***************************************************************************)
(* What enforce_congruent and modulo accept                                *)
(***************************************************************************)
\* A prover's hints have the shape of the honest ones.
SameShape(v, w) == Len(v.limbs) = Len(w.limbs) /\ v.bounds = w.bounds

LEMMA DigitsLength ==
  ASSUME NEW n \in Nat, NEW mag, NEW neg
  PROVE  CeilDiv(n, W) \in Nat /\ Len(WithSign(neg, Digits(mag, n))) = CeilDiv(n, W)
<1>1. PICK l \in Nat : l = CeilDiv(n, W)
  <2>1. CeilDiv(n, W) \in Nat
    <3>1. 0 \in Nat /\ 0 < 2 ^ n /\ FALSE \in BOOLEAN
      BY PowerPositive
    <3>2. 0 = IF FALSE THEN -0 ELSE 0
      OBVIOUS
    <3> QED BY <3>1, <3>2, SignedDigits
  <2> QED BY <2>1
<1>2. PICK s : s = WithSign(neg, Digits(mag, n))
  OBVIOUS
<1>3. DOMAIN Digits(mag, n) = 1 .. l
  BY <1>1 DEF Digits
<1>4. \E e : s = [k \in 1 .. l |-> e[k]]
  <2> DEFINE e == [k \in 1 .. l |-> Field(IF neg THEN -Digits(mag, n)[k] ELSE Digits(mag, n)[k])]
  <2>1. s = e
    BY <1>2, <1>3 DEF WithSign
  <2>2. s = [k \in 1 .. l |-> s[k]]
    BY <2>1
  <2> QED BY <2>2
<1>5. PICK e : s = [k \in 1 .. l |-> e[k]]
  BY <1>4
<1>6. s \in [1 .. l -> {e[k] : k \in 1 .. l}]
  BY <1>5
<1>7. Len(s) = l
  BY <1>6, VectorIs
<1> QED BY <1>1, <1>2, <1>7

LEMMA InferredShape ==
  ASSUME NEW u, NEW b \in Bounds, NEW h, NEW i, IsConstant(u) => h = i,
         NEW v, v = Inferred(u, b, h), NEW w, w = Inferred(u, b, i)
  PROVE  SameShape(v, w)
<1>1. CASE IsConstant(u)
  BY <1>1 DEF SameShape
<1>2. CASE ~IsConstant(u)
  <2>1. v = Allocated(b, h) /\ w = Allocated(b, i)
    BY <1>2 DEF Inferred
  <2>2. PICK n \in Nat : n = Max({Bits(b.lo), Bits(b.hi)})
    <3>1. b.lo \in Int /\ b.hi \in Int
      BY DEF Bounds
    <3> QED BY <3>1, BitsOfAre DEF BitsOf
  <2>3. PICK c : c = ComputeBounds(b.lo, b.hi)
    OBVIOUS
  <2>4. v.limbs = WithSign(h.neg, Digits(h.magnitude, n)) /\ v.bounds = c
    BY <2>1, <2>2, <2>3 DEF Allocated, Aligned, Variable
  <2>5. w.limbs = WithSign(i.neg, Digits(i.magnitude, n)) /\ w.bounds = c
    BY <2>1, <2>2, <2>3 DEF Allocated, Aligned, Variable
  <2>6. Len(v.limbs) = CeilDiv(n, W) /\ Len(w.limbs) = CeilDiv(n, W)
    BY <2>4, <2>5, DigitsLength
  <2> QED BY <2>4, <2>5, <2>6 DEF SameShape
<1> QED BY <1>1, <1>2

LEMMA ProductShape ==
  ASSUME NEW v, NEW w, SameShape(v, w), NEW c, ProductLength(v, c) \in Nat
  PROVE  SameShape(Product(v, c), Product(w, c))
<1>1. ProductLength(w, c) = ProductLength(v, c)
  BY DEF SameShape, ProductLength
<1>2. PICK n \in Nat : n = ProductLength(v, c)
  OBVIOUS
<1>3. \A k : ProductBounds(v, c, k) = ProductBounds(w, c, k)
  BY DEF SameShape, ProductBounds
<1>4. Product(v, c).bounds = Product(w, c).bounds
  BY <1>1, <1>2, <1>3 DEF Product, Variable
<1>5. ASSUME NEW e PROVE Len([k \in 1 .. n |-> Field(ProductLimb(e, c, k))]) = n
  <2> DEFINE s == [k \in 1 .. n |-> Field(ProductLimb(e, c, k))]
  <2>1. s \in [1 .. n -> {s[k] : k \in 1 .. n}]
    OBVIOUS
  <2> HIDE DEF s
  <2>2. Len(s) = n
    BY <2>1, VectorIs
  <2> QED BY <2>2 DEF s
<1>6. /\ Product(v, c).limbs = [k \in 1 .. n |-> Field(ProductLimb(v, c, k))]
      /\ Product(w, c).limbs = [k \in 1 .. n |-> Field(ProductLimb(w, c, k))]
  BY <1>1, <1>2 DEF Product, Variable
<1>7. Len(Product(v, c).limbs) = n /\ Len(Product(w, c).limbs) = n
  BY <1>5, <1>6
<1> QED BY <1>4, <1>7 DEF SameShape

LEMMA SafeShape == ASSUME NEW v, NEW w, SameShape(v, w) PROVE IsSafe(v) <=> IsSafe(w)
BY DEF SameShape, IsSafe

LEMMA LengthOf ==
  ASSUME NEW n \in Nat, NEW f, NEW s, s = [k \in 1 .. n |-> f[k]]
  PROVE  Len(s) = n
<1>1. s \in [1 .. n -> {f[k] : k \in 1 .. n}]
  OBVIOUS
<1> QED BY <1>1, VectorIs

LEMMA SumShape ==
  ASSUME NEW v, NEW w, SameShape(v, w), NEW x, NEW y, SameShape(x, y), Longer(v, x) \in Nat
  PROVE  SameShape(Sum(v, x), Sum(w, y)) /\ SameShape(Difference(v, x), Difference(w, y))
<1>1. PICK n \in Nat : n = Longer(v, x) /\ n = Longer(w, y)
  BY DEF SameShape, Longer
<1>2. \A k : BoundAt(v, k) = BoundAt(w, k) /\ BoundAt(x, k) = BoundAt(y, k)
  BY DEF SameShape, BoundAt
<1>3. Sum(v, x).bounds = Sum(w, y).bounds /\ Difference(v, x).bounds = Difference(w, y).bounds
  BY <1>1, <1>2 DEF Sum, Difference, Variable
<1>4. ASSUME NEW a, NEW b
      PROVE  /\ Len([k \in 1 .. n |-> Field(LimbAt(a, k) + LimbAt(b, k))]) = n
             /\ Len([k \in 1 .. n |-> Field(LimbAt(a, k) - LimbAt(b, k))]) = n
  <2> DEFINE s == [k \in 1 .. n |-> Field(LimbAt(a, k) + LimbAt(b, k))]
             d == [k \in 1 .. n |-> Field(LimbAt(a, k) - LimbAt(b, k))]
  <2>1. s = [k \in 1 .. n |-> s[k]] /\ d = [k \in 1 .. n |-> d[k]]
    OBVIOUS
  <2> HIDE DEF s, d
  <2>2. Len(s) = n /\ Len(d) = n
    BY <2>1, LengthOf
  <2> QED BY <2>2 DEF s, d
<1>5. /\ Sum(v, x).limbs = [k \in 1 .. n |-> Field(LimbAt(v, k) + LimbAt(x, k))]
      /\ Sum(w, y).limbs = [k \in 1 .. n |-> Field(LimbAt(w, k) + LimbAt(y, k))]
      /\ Difference(v, x).limbs = [k \in 1 .. n |-> Field(LimbAt(v, k) - LimbAt(x, k))]
      /\ Difference(w, y).limbs = [k \in 1 .. n |-> Field(LimbAt(w, k) - LimbAt(y, k))]
  BY <1>1 DEF Sum, Difference, Variable
<1>6. /\ Len(Sum(v, x).limbs) = n /\ Len(Sum(w, y).limbs) = n
      /\ Len(Difference(v, x).limbs) = n /\ Len(Difference(w, y).limbs) = n
  BY <1>4, <1>5
<1> QED BY <1>3, <1>6 DEF SameShape

LEMMA ItsOwnShape == \A v : SameShape(v, v)
BY DEF SameShape

\* Multiples of the modulus
LEMMA TimesModulusLength ==
  ASSUME NEW q, Exact(q)
  PROVE  ProductLength(q, Constant(M)) \in Nat
<1>1. PICK c : c = Constant(M) /\ Exact(c) /\ Len(c.limbs) >= 1
  BY ModulusAssumption, ConstantIs
<1>2. PICK n \in Nat, m \in Nat : n = Len(q.limbs) /\ m = Len(c.limbs) /\ m >= 1
  <2>1. Len(q.limbs) \in Nat /\ Len(c.limbs) \in Nat
    BY <1>1, ExactLimbs
  <2> QED BY <1>1, <2>1
<1>3. ProductLength(q, c) = n + m - 1
  BY <1>2 DEF ProductLength
<1>4. m >= 1
  BY <1>2
<1>5. n + m - 1 \in Nat
  BY <1>4
<1> QED BY <1>1, <1>3, <1>5

LEMMA ModulusVanishes ==
  ASSUME NEW x \in Int, NEW q \in Int, NEW r \in Int, 0 <= r, r < M, x = q * M + r
  PROVE  x % M = r
<1>1. M \in Nat /\ M > 0
  BY ModulusAssumption
<1>2. r \in 0 .. M - 1
  BY <1>1
<1>3. r % M = r
  BY <1>1, <1>2, SmallResidue
<1>4. (r + M * q) % M = r
  BY <1>1, <1>3, Shift
<1>5. r + M * q = x
  <2>1. M * q = q * M /\ q * M \in Int
    BY <1>1, SMT
  <2> QED BY <2>1
<1> QED BY <1>4, <1>5

\* Whether the constraints of a call check groups whose carries are told apart, whatever hints
Hinted(u, b) == {Inferred(u, b, h) : h \in Hints(b)}

CongruenceClear(x, y) ==
  \A q \in Hinted(x, CongruenceBounds(x, y)) : Clear(MultipleOfM(x, y, q))

ReductionClear(v) ==
  \A q \in Hinted(v, QuotientBounds(v)), r \in Hinted(v, ReducedBounds) :
    Clear(Difference(Sum(Product(q, Constant(M)), r), v))

\* enforce_congruent, with any quotient that is accepted
LEMMA CongruentSoundly ==
  ASSUME NEW x, Exact(x), NEW y, Exact(y), CongruenceFits(x, y), CongruenceClear(x, y),
         NEW hq \in Hints(CongruenceBounds(x, y)),
         IsConstant(x) => hq = HintFor((x.int - y.int) \div M),
         NEW q, q = Inferred(x, CongruenceBounds(x, y), hq),
         EqualHolds(MultipleOfM(x, y, q)), InRange(CongruenceBounds(x, y), q)
  PROVE  (x.int - y.int) % M = 0
<1>1. M \in Nat /\ M > 0
  BY ModulusAssumption
<1>2. /\ LBound(x) \in Int /\ UBound(x) \in Int /\ x.int \in Int
      /\ LBound(y) \in Int /\ UBound(y) \in Int /\ y.int \in Int
  BY IntWithin
<1>3. CongruenceBounds(x, y) \in Bounds
  <2>1. PICK lo \in Int, hi \in Int : lo = LBound(x) - UBound(y) /\ hi = UBound(x) - LBound(y)
    BY <1>2
  <2>2. lo \div M \in Int /\ hi \div M \in Int
    BY <1>1, Floor
  <2>3. CongruenceBounds(x, y) = [lo |-> lo \div M, hi |-> hi \div M]
    BY <2>1 DEF CongruenceBounds
  <2> QED BY <2>2, <2>3 DEF Bounds
<1>4. PICK b \in Bounds : b = CongruenceBounds(x, y)
  BY <1>3
<1>5. Exact(q) /\ q.int \in Int
  <2>1. Kept(q)
    BY <1>4, InferredKept
  <2>2. Exact(q)
    BY <2>1 DEF Kept
  <2> QED BY <2>2, VariableType DEF Exact
<1>6. PICK w : w = Inferred(x, CongruenceBounds(x, y), HintFor((x.int - y.int) \div M))
  OBVIOUS
<1>7. PICK e, qm, d, wm :
        /\ e = Difference(x, y) /\ qm = Product(q, Constant(M)) /\ d = Difference(e, qm)
        /\ wm = Product(w, Constant(M))
  OBVIOUS
<1>8. IsSafe(e) /\ IsSafe(wm) /\ IsSafe(Difference(e, wm))
  BY <1>6, <1>7 DEF CongruenceFits, MultipleOfM
<1>9. Exact(e) /\ e.int = x.int - y.int
  <2>1. Exact(e)
    BY <1>7, <1>8, SumExact
  <2>2. e.int = x.int - y.int
    BY <1>7 DEF Difference, Variable
  <2> QED BY <2>1, <2>2
<1>10. SameShape(qm, wm)
  <2>1. SameShape(q, w)
    BY <1>4, <1>6, InferredShape
  <2>2. ProductLength(q, Constant(M)) \in Nat
    BY <1>5, TimesModulusLength
  <2> QED BY <1>7, <2>1, <2>2, ProductShape
<1>11. Exact(qm) /\ qm.int = q.int * M
  <2>1. IsSafe(qm)
    BY <1>8, <1>10, SafeShape
  <2> QED BY <1>5, <1>7, <2>1, TimesModulus
<1>12. Exact(d) /\ d.int = e.int - qm.int
  <2>1. Longer(e, qm) \in Nat
    BY <1>9, <1>11, LongerIs
  <2>2. SameShape(d, Difference(e, wm))
    BY <1>7, <1>10, <2>1, SumShape, ItsOwnShape
  <2>3. IsSafe(d)
    BY <1>8, <2>2, SafeShape
  <2>4. Exact(d)
    BY <1>7, <1>9, <1>11, <2>3, SumExact
  <2>5. d.int = e.int - qm.int
    BY <1>7 DEF Difference, Variable
  <2> QED BY <2>4, <2>5
<1>13. d = MultipleOfM(x, y, q)
  BY <1>7 DEF MultipleOfM
<1>14. Clear(d)
  <2>1. q \in Hinted(x, CongruenceBounds(x, y))
    BY DEF Hinted
  <2> QED BY <1>13, <2>1 DEF CongruenceClear
<1>15. d.int = 0
  BY <1>12, <1>13, <1>14, EqualIsZero
<1>16. PICK z \in Int : z = q.int
  BY <1>5
<1>17. PICK a \in Int : a = x.int - y.int
  BY <1>2
<1>18. a = z * M + 0
  <2>1. z * M \in Int
    BY <1>1, Multiplied
  <2> QED BY <1>9, <1>11, <1>12, <1>15, <1>16, <1>17, <2>1
<1>19. a % M = 0
  <2>1. PICK r \in Int : r = 0 /\ 0 <= r /\ r < M /\ a = z * M + r
    BY <1>1, <1>18
  <2> QED BY <2>1, ModulusVanishes
<1> QED BY <1>17, <1>19

\* modulo, with any quotient and remainder that are accepted
LEMMA ReducesSoundly ==
  ASSUME NEW v, Exact(v), Reducible(v), ReductionClear(v),
         NEW hq \in Hints(QuotientBounds(v)), NEW hr \in Hints(ReducedBounds),
         IsConstant(v) => hq = HintFor(v.int \div M) /\ hr = HintFor(v.int % M),
         NEW q, q = Inferred(v, QuotientBounds(v), hq),
         NEW r, r = Inferred(v, ReducedBounds, hr),
         Reduces(v, q, r), InRange(QuotientBounds(v), q), InRange(ReducedBounds, r)
  PROVE  r.int = v.int % M
<1>1. M \in Nat /\ M > 0
  BY ModulusAssumption
<1>2. LBound(v) \in Int /\ UBound(v) \in Int /\ v.int \in Int
  BY IntWithin
<1>3. v.int % M \in Int
  BY <1>1, <1>2, Remainder
<1>4. CASE IsConstant(v)
  <2>1. r = Constant(HintInt(hr)) /\ hr = HintFor(v.int % M)
    BY <1>4 DEF Inferred
  <2>2. HintInt(hr) = v.int % M
    BY <1>3, <2>1, HintMeans
  <2>3. r.int = HintInt(hr)
    BY <2>1 DEF Constant
  <2> QED BY <2>2, <2>3
<1>5. CASE ~IsConstant(v)
  <2>1. PICK b \in Bounds : b = QuotientBounds(v)
    <3>1. LBound(v) \div M \in Int /\ UBound(v) \div M \in Int
      BY <1>1, <1>2, Floor
    <3> QED BY <3>1 DEF QuotientBounds, Bounds
  <2>2. PICK c \in Bounds : c = ReducedBounds /\ c.lo = 0
    BY <1>1 DEF ReducedBounds, Bounds
  <2>3. Exact(q) /\ q.int \in Int
    <3>1. Kept(q)
      BY <2>1, InferredKept
    <3>2. Exact(q)
      BY <3>1 DEF Kept
    <3> QED BY <3>2, VariableType DEF Exact
  <2>4. Exact(r) /\ r.int \in Int
    <3>1. Kept(r)
      BY <2>2, InferredKept
    <3>2. Exact(r)
      BY <3>1 DEF Kept
    <3> QED BY <3>2, VariableType DEF Exact
  <2>5. r = Allocated(c, hr)
    BY <1>5, <2>2 DEF Inferred
  <2>6. 0 <= r.int
    <3>1. Between(r.int, c)
      BY <2>2, <2>5, RangeChecked
    <3> QED BY <2>2, <3>1 DEF Between
  <2>7. PICK qm, s, d : qm = Product(q, Constant(M)) /\ s = Sum(qm, r) /\ d = Difference(s, v)
    OBVIOUS
  <2>8. IsSafe(d) /\ EqualHolds(d) /\ Lt(r, Constant(M))
    BY <2>7 DEF Reduces
  <2>9. r.int < M
    <3>1. Regular(r)
      <4>1. hr \in Hints(c)
        BY <2>2
      <4>2. hr.neg \in BOOLEAN /\ hr.magnitude \in Nat /\ hr.magnitude < 2 ^ BitsOf(c.lo, c.hi)
        BY <4>1, HintFacts
      <4> QED BY <2>5, <4>2, AllocatedIs
    <3>2. M \in Int
      BY <1>1
    <3>3. Regular(Constant(M)) /\ Constant(M).int = M
      BY <3>2, ConstantIs
    <3>4. r.int < Constant(M).int
      BY <2>8, <3>1, <3>3, LtSoundly
    <3> QED BY <3>3, <3>4
  <2>10. PICK w, z : /\ w = Inferred(v, QuotientBounds(v), HintFor(v.int \div M))
                     /\ z = Inferred(v, ReducedBounds, HintFor(v.int % M))
    OBVIOUS
  <2>11. PICK wm : wm = Product(w, Constant(M)) /\ IsSafe(wm) /\ IsSafe(Sum(wm, z))
    BY <2>10 DEF Reducible
  <2>12. SameShape(q, w) /\ SameShape(r, z)
    BY <1>5, <2>1, <2>2, <2>10, InferredShape
  <2>13. SameShape(qm, wm)
    <3>1. ProductLength(q, Constant(M)) \in Nat
      BY <2>3, TimesModulusLength
    <3> QED BY <2>7, <2>11, <2>12, <3>1, ProductShape
  <2>14. Exact(qm) /\ qm.int = q.int * M
    <3>1. IsSafe(qm)
      BY <2>11, <2>13, SafeShape
    <3> QED BY <2>3, <2>7, <3>1, TimesModulus
  <2>15. Exact(s) /\ s.int = qm.int + r.int
    <3>1. Longer(qm, r) \in Nat
      BY <2>4, <2>14, LongerIs
    <3>2. SameShape(s, Sum(wm, z))
      BY <2>7, <2>12, <2>13, <3>1, SumShape
    <3>3. IsSafe(s)
      BY <2>11, <3>2, SafeShape
    <3>4. Exact(s)
      BY <2>4, <2>7, <2>14, <3>3, SumExact
    <3>5. s.int = qm.int + r.int
      BY <2>7 DEF Sum, Variable
    <3> QED BY <3>4, <3>5
  <2>16. Exact(d) /\ d.int = s.int - v.int
    <3>1. Exact(d)
      BY <2>7, <2>8, <2>15, SumExact
    <3>2. d.int = s.int - v.int
      BY <2>7 DEF Difference, Variable
    <3> QED BY <3>1, <3>2
  <2>17. Clear(d)
    <3>1. q \in Hinted(v, QuotientBounds(v)) /\ r \in Hinted(v, ReducedBounds)
      BY DEF Hinted
    <3> QED BY <2>7, <3>1 DEF ReductionClear
  <2>18. d.int = 0
    BY <2>8, <2>16, <2>17, EqualIsZero
  <2>19. PICK m \in Int, y \in Int, a \in Int : m = q.int /\ y = r.int /\ a = v.int
    BY <1>2, <2>3, <2>4
  <2>20. a = m * M + y
    <3>1. PICK e \in Int : e = m * M
      BY <1>1, Multiplied
    <3>2. qm.int = e
      BY <2>14, <2>19, <3>1
    <3>3. s.int = e + y
      BY <2>15, <2>19, <3>2
    <3>4. PICK u \in Int : u = e + y /\ u - a = 0
      BY <2>16, <2>18, <2>19, <3>3
    <3>5. a = e + y
      BY <3>4
    <3> QED BY <3>1, <3>5
  <2>21. a % M = y
    BY <2>6, <2>9, <2>19, <2>20, ModulusVanishes
  <2> QED BY <2>19, <2>21
<1> QED BY <1>4, <1>5

LEMMA CongruentForced ==
  ASSUME StoreKept, NEW x \in store, NEW y \in store, EnforceCongruent(x, y),
         CongruenceClear(x, y), verdict'.accepted
  PROVE  verdict'.meant
<1>1. Exact(x) /\ Exact(y) /\ CongruenceFits(x, y)
  BY DEF StoreKept, Kept, EnforceCongruent
<1>2. PICK hq \in Hints(CongruenceBounds(x, y)) :
        LET q == Inferred(x, CongruenceBounds(x, y), hq)
            right == hq = HintFor((x.int - y.int) \div M)
        IN  /\ IsConstant(x) => right
            /\ Enforce(Judged("congruent", right,
                              /\ EqualHolds(MultipleOfM(x, y, q))
                              /\ InRange(CongruenceBounds(x, y), q),
                              (x.int - y.int) % M = 0))
  BY DEF EnforceCongruent
<1>3. PICK q : q = Inferred(x, CongruenceBounds(x, y), hq)
  OBVIOUS
<1>4. PICK honest, accepted, meant :
        /\ honest = (hq = HintFor((x.int - y.int) \div M))
        /\ accepted = (EqualHolds(MultipleOfM(x, y, q)) /\ InRange(CongruenceBounds(x, y), q))
        /\ meant = ((x.int - y.int) % M = 0)
  OBVIOUS
<1>5. (IsConstant(x) => honest) /\ Enforce(Judged("congruent", honest, accepted, meant))
  BY <1>2, <1>3, <1>4
<1>6. PICK j : j = Judged("congruent", honest, accepted, meant) /\ verdict' = j
  BY <1>5 DEF Enforce
<1>7. j.accepted = accepted /\ j.meant = meant
  BY <1>6, JudgedIs
<1>8. EqualHolds(MultipleOfM(x, y, q)) /\ InRange(CongruenceBounds(x, y), q)
  BY <1>4, <1>6, <1>7
<1>9. IsConstant(x) => hq = HintFor((x.int - y.int) \div M)
  BY <1>4, <1>5
<1>10. (x.int - y.int) % M = 0
  BY <1>1, <1>3, <1>8, <1>9, CongruentSoundly
<1> QED BY <1>4, <1>6, <1>7, <1>10

LEMMA ReductionForced ==
  ASSUME StoreKept, NEW v \in store, Reduce(v), ReductionClear(v), verdict'.accepted
  PROVE  verdict'.meant
<1>1. Exact(v) /\ Reducible(v)
  BY DEF StoreKept, Kept, Reduce
<1>2. PICK hq \in Hints(QuotientBounds(v)), hr \in Hints(ReducedBounds) :
        LET q == Inferred(v, QuotientBounds(v), hq)
            r == Inferred(v, ReducedBounds, hr)
            right == hq = HintFor(v.int \div M) /\ hr = HintFor(v.int % M)
        IN  /\ IsConstant(v) => right
            /\ Create(r, Judged("reduce", right,
                             /\ Reduces(v, q, r)
                             /\ InRange(QuotientBounds(v), q) /\ InRange(ReducedBounds, r),
                             r.int = v.int % M))
  BY DEF Reduce
<1>3. PICK q, r : q = Inferred(v, QuotientBounds(v), hq) /\ r = Inferred(v, ReducedBounds, hr)
  OBVIOUS
<1>4. PICK honest, accepted, meant :
        /\ honest = (hq = HintFor(v.int \div M) /\ hr = HintFor(v.int % M))
        /\ accepted = (Reduces(v, q, r) /\ InRange(QuotientBounds(v), q) /\ InRange(ReducedBounds, r))
        /\ meant = (r.int = v.int % M)
  OBVIOUS
<1>5. (IsConstant(v) => honest) /\ Create(r, Judged("reduce", honest, accepted, meant))
  BY <1>2, <1>3, <1>4
<1>6. PICK j : j = Judged("reduce", honest, accepted, meant) /\ verdict' = j
  BY <1>5 DEF Create
<1>7. j.accepted = accepted /\ j.meant = meant
  BY <1>6, JudgedIs
<1>8. Reduces(v, q, r) /\ InRange(QuotientBounds(v), q) /\ InRange(ReducedBounds, r)
  BY <1>4, <1>6, <1>7
<1>9. IsConstant(v) => hq = HintFor(v.int \div M) /\ hr = HintFor(v.int % M)
  BY <1>4, <1>5
<1>10. r.int = v.int % M
  BY <1>1, <1>3, <1>8, <1>9, ReducesSoundly
<1> QED BY <1>4, <1>6, <1>7, <1>10

(***************************************************************************)
(* Calls whose carries are told apart                                      *)
(***************************************************************************)
\* Range checks admit at most twice as many carries as the bounds have.
LEMMA PowerWithin ==
  ASSUME NEW w \in Int, w >= 1
  PROVE  2 ^ Bits(w) \in Nat /\ 2 ^ Bits(w) <= 2 * w
<1>1. Bits(w) \in Nat /\ Bits(w) >= 1 /\ 2 ^ (Bits(w) - 1) <= Abs(w)
  <2>1. w # 0
    OBVIOUS
  <2> QED BY <2>1, BitsAre
<1>2. Abs(w) = w
  BY DEF Abs
<1>3. PICK n \in Nat : n = Bits(w) - 1 /\ n + 1 = Bits(w)
  <2>1. Bits(w) - 1 \in Nat /\ (Bits(w) - 1) + 1 = Bits(w)
    BY <1>1
  <2> QED BY <2>1
<1>4. 2 ^ (n + 1) = 2 * 2 ^ n /\ 2 ^ n \in Nat
  BY <1>3, PowerDoubles
<1>5. PICK p \in Nat : p = 2 ^ n /\ p <= w
  BY <1>1, <1>2, <1>3, <1>4
<1>6. 2 ^ Bits(w) = 2 * p
  BY <1>3, <1>4, <1>5
<1>7. 2 * p \in Nat /\ 2 * p <= 2 * w
  BY <1>5
<1> QED BY <1>6, <1>7

\* Room in the field for twice a group's width, its unit and a limb is enough.
LEMMA RoomTellsApart ==
  ASSUME NEW g, GroupType(g), Sound(g), g.carry_bounds.lo <= g.carry_bounds.hi,
         2 * (g.group_bounds.hi - g.group_bounds.lo) + g.unit + B <= P
  PROVE  ToldApart(g)
<1>1. PICK lo \in Int, hi \in Int, gl \in Int, gh \in Int, u \in Nat :
        /\ lo = g.carry_bounds.lo /\ hi = g.carry_bounds.hi
        /\ gl = g.group_bounds.lo /\ gh = g.group_bounds.hi /\ u = g.unit
  BY DEF GroupType
<1>2. PICK w \in Int : w = hi - lo + 1 /\ w >= 1
  BY <1>1
<1>3. PICK p \in Nat : p = 2 ^ Bits(w) /\ p <= 2 * w
  BY <1>2, PowerWithin
<1>4. PICK most \in Int : most = lo + p - 1
  OBVIOUS
<1>5. PICK z \in Int : z = 2 * hi - lo + 1 /\ most <= z
  <2>1. most <= 2 * hi - lo + 1
    BY <1>2, <1>3, <1>4
  <2> QED BY <2>1
<1>6. PICK l \in Int, h \in Int : l = lo * u /\ h = hi * u /\ gl <= l /\ h <= gh
  <2>1. g.group_bounds.lo <= g.carry_bounds.lo * g.unit /\ g.carry_bounds.hi * g.unit <= g.group_bounds.hi
    BY DEF Sound, Within, ShiftLeft
  <2>2. lo * u \in Int /\ hi * u \in Int
    BY Multiplied
  <2> QED BY <1>1, <2>1, <2>2
<1>7. PICK e \in Int : e = most * u /\ e <= 2 * h - l + u
  <2>1. most * u <= z * u /\ most * u \in Int
    BY <1>5, Scaling, Multiplied
  <2>2. (2 * hi - lo + 1) * u = 2 * (hi * u) - lo * u + u
    BY SMT
  <2>3. z * u = 2 * h - l + u
    BY <1>5, <1>6, <2>2
  <2> QED BY <2>1, <2>3
<1>8. 2 * (gh - gl) + u + B <= P
  BY <1>1
<1>9. e - gl + B <= P
  <2>1. B \in Nat /\ P \in Nat
    BY BaseType
  <2> QED BY <1>6, <1>7, <1>8, <2>1
<1> QED BY <1>1, <1>2, <1>3, <1>4, <1>7, <1>9 DEF ToldApart

\* A call whose range checks tell the carries of every group apart accepts only what is meant.
ForcedWhenClear ==
  /\ EndEqual /\ Clear(loop.diff) => (verdict'.accepted => verdict'.meant)
  /\ \A x, y \in store :
       EnforceCongruent(x, y) /\ CongruenceClear(x, y) => (verdict'.accepted => verdict'.meant)
  /\ \A v \in store :
       Reduce(v) /\ ReductionClear(v) => (verdict'.accepted => verdict'.meant)

LEMMA GroupedStarts == ASSUME Init PROVE LoopGroups
BY DEF Init, LoopGroups

\* Whatever the prover hints: as long as the range checks of a call tell the carries of its
\* groups apart, variables that enforce_equal_unaligned accepts are one integer, those that
\* enforce_congruent accepts are congruent, and what modulo leaves is the remainder.
THEOREM ClearCallsForced == Spec => [][ForcedWhenClear]_vars
<1> DEFINE Inv == StoreKept /\ Fits(verdict) /\ LoopKept /\ LoopGroups
<1>1. Init => Inv
  BY InvariantStarts, GrantedStarts, GroupedStarts
<1>2. Inv /\ [Next]_vars => Inv'
  <2> SUFFICES ASSUME Inv, [Next]_vars PROVE Inv'
    OBVIOUS
  <2>1. StoreKept' /\ Fits(verdict')
    BY InvariantKept
  <2>2. LoopKept'
    BY LoopStaysKept
  <2>3. LoopGroups'
    BY LoopStaysGrouped
  <2>4. Fits(verdict)'
    BY <2>1
  <2> QED BY <2>1, <2>2, <2>3, <2>4
<1>3. Inv /\ [Next]_vars => [ForcedWhenClear]_vars
  BY EndForced, CongruentForced, ReductionForced DEF ForcedWhenClear
<1> QED BY <1>1, <1>2, <1>3, PTL DEF Spec
=============================================================================
