----------------------------- MODULE EmulatedInt -----------------------------
(***************************************************************************)
(* Emulated integers and field elements: LimbedVar of crates/primitives/   *)
(* src/algebra/field/emulated.rs.  A circuit over the field of P elements  *)
(* computes with integers cut into limbs of W bits, or with elements of    *)
(* another field, the integers modulo M.                                   *)
(*                                                                         *)
(* The user of the gadget allocates variables and calls operations on      *)
(* them.  Whoever assigns the witness is not bound to the values the code  *)
(* computes outside the circuit (hints): only the constraints hold it.  A  *)
(* call that the constraints refuse leaves no variable; calls that return  *)
(* Unsatisfiable are not steps.                                            *)
(***************************************************************************)
EXTENDS LimbBounds, Sequences, SequencesExt

CONSTANTS
  W,          \* BITS_PER_LIMB
  M,          \* Target::MODULUS
  Ranges,     \* bounds that integers are allocated with
  Constants,  \* integers that are allocated as constants
  Tampering,  \* what a prover adds to the limbs it should have given
  MaxSize     \* bound on the variables of the circuit

ASSUME WidthAssumption == W \in Nat \ {0} /\ B = 2^W
ASSUME ModulusAssumption == M \in Nat /\ M > 1
ASSUME CallsAssumption == Ranges \subseteq Bounds /\ Constants \subseteq Int /\ MaxSize \in Nat

\* The constraint field is a field, and holds two bits more than a limb: limbs have
\* BITS_PER_LIMB bits, "which is much smaller than the field capacity" (enforce_lt).
ASSUME PrimeAssumption == \A a, b \in 1 .. P - 1 : (a * b) % P # 0
ASSUME CapacityAssumption == 4 * B <= P

\* A vector of limbs is shorter than the field has elements.
ASSUME TamperingAssumption == \A t \in Tampering : \E n \in 0 .. P - 1 : t \in [1 .. n -> -Limit .. Limit]

VARIABLES
  store,    \* the variables of the circuit, each with the integer it is meant to be
  size,     \* of the circuit, in variables
  loop,     \* a call of enforce_equal_unaligned, limb by limb
  verdict   \* of the last call that allocated hints or enforced something

vars == <<store, size, loop, verdict>>

(***************************************************************************)
(* Integers, bits and limbs                                                *)
(***************************************************************************)
Abs(x) == IF x < 0 THEN -x ELSE x

\* BigInt::bits
Bits(x) == IF x = 0 THEN 0 ELSE CHOOSE n \in 1 .. Abs(x) : 2^(n - 1) <= Abs(x) /\ Abs(x) < 2^n

\* What limb k counts
Weight(k) == 2^(W * (k - 1))

\* The chunks of W bits of an n-bit number
Digits(x, n) == [k \in 1 .. CeilDiv(n, W) |-> (x \div Weight(k)) % B]

WithSign(neg, digits) == [k \in DOMAIN digits |-> Field(IF neg THEN -digits[k] ELSE digits[k])]

\* The sum of the first n terms of f
Total(n, f) ==
  LET sum[k \in 0 .. n] == IF k = 0 THEN 0 ELSE sum[k - 1] + f[k]
  IN  sum[n]

Weighted(f) == Total(Len(f), [k \in DOMAIN f |-> f[k] * Weight(k)])

Compose(limbs) == Weighted([k \in DOMAIN limbs |-> Signed(limbs[k])])
UBound(v) == Weighted([k \in DOMAIN v.bounds |-> v.bounds[k].hi])
LBound(v) == Weighted([k \in DOMAIN v.bounds |-> v.bounds[k].lo])

ComputeBounds(lb, ub) ==
  LET n == Max({Bits(lb), Bits(ub)})
      full == [lo |-> IF lb < 0 THEN 1 - B ELSE 0, hi |-> IF ub > 0 THEN B - 1 ELSE 0]
      d == Weight(n \div W + 1)
      last == [lo |-> lb \div d, hi |-> CeilDiv(ub, d)]
  IN  [k \in 1 .. n \div W |-> full] \o (IF n % W = 0 THEN <<>> ELSE <<last>>)

Variable(limbs, bounds, int, const) ==
  [limbs |-> limbs, bounds |-> bounds, int |-> int, aligned |-> FALSE, const |-> const]
Aligned(v) == [v EXCEPT !.aligned = TRUE]

\* No limb is a variable of the constraint system
IsConstant(v) == v.const \/ v.limbs = <<>>

\* constant: a constant is bounded by itself
Constant(x) ==
  LET limbs == WithSign(x < 0, Digits(Abs(x), Max({1, Bits(x)})))
  IN  [limbs |-> limbs, bounds |-> [k \in DOMAIN limbs |-> Exactly(Signed(limbs[k]))],
       int |-> x, aligned |-> TRUE, const |-> TRUE]

(***************************************************************************)
(* Operations on unaligned variables                                       *)
(***************************************************************************)
Longer(x, y) == Max({Len(x.limbs), Len(y.limbs)})
LimbAt(x, k) == IF k \in DOMAIN x.limbs THEN x.limbs[k] ELSE 0
BoundAt(x, k) == IF k \in DOMAIN x.bounds THEN x.bounds[k] ELSE ZeroBounds

Sum(x, y) ==
  Variable([k \in 1 .. Longer(x, y) |-> Field(LimbAt(x, k) + LimbAt(y, k))],
           [k \in 1 .. Longer(x, y) |-> PlusBounds(BoundAt(x, k), BoundAt(y, k))],
           x.int + y.int, IsConstant(x) /\ IsConstant(y))

Difference(x, y) ==
  Variable([k \in 1 .. Longer(x, y) |-> Field(LimbAt(x, k) - LimbAt(y, k))],
           [k \in 1 .. Longer(x, y) |-> MinusBounds(BoundAt(x, k), BoundAt(y, k))],
           x.int - y.int, IsConstant(x) /\ IsConstant(y))

\* Limb i of x and limb j of y meet in limb i + j - 1 of the product.
ProductLimb(x, y, k) ==
  Total(Len(x.limbs), [i \in DOMAIN x.limbs |-> x.limbs[i] * LimbAt(y, k + 1 - i)])

ProductBounds(x, y, k) ==
  LET met == [i \in DOMAIN x.bounds |-> TimesBounds(x.bounds[i], BoundAt(y, k + 1 - i))]
  IN  [lo |-> Total(Len(met), [i \in DOMAIN met |-> met[i].lo]),
       hi |-> Total(Len(met), [i \in DOMAIN met |-> met[i].hi])]

ProductLength(x, y) == Len(x.limbs) + Len(y.limbs) - 1

Product(x, y) ==
  Variable([k \in 1 .. ProductLength(x, y) |-> Field(ProductLimb(x, y, k))],
           [k \in 1 .. ProductLength(x, y) |-> ProductBounds(x, y, k)],
           x.int * y.int, IsConstant(x) /\ IsConstant(y))

\* mul_vector, for one row of a matrix: the sum of products of its entries and a vector's
RowProduct(xs, ys) ==
  LET n == Max({0} \cup {ProductLength(xs[j], ys[j]) : j \in DOMAIN xs})
      Along(term) == Total(Len(xs), term)
  IN  Variable(
        [k \in 1 .. n |-> Field(Along([j \in DOMAIN xs |-> ProductLimb(xs[j], ys[j], k)]))],
        [k \in 1 .. n |-> [lo |-> Along([j \in DOMAIN xs |-> ProductBounds(xs[j], ys[j], k).lo]),
                           hi |-> Along([j \in DOMAIN xs |-> ProductBounds(xs[j], ys[j], k).hi])]],
        Along([j \in DOMAIN xs |-> xs[j].int * ys[j].int]),
        \A j \in DOMAIN xs : IsConstant(xs[j]) /\ IsConstant(ys[j]))

IsSafe(v) == \A k \in DOMAIN v.bounds : v.bounds[k] \in Safe

\* The polynomial whose coefficients are limbs, at c
At(limbs, c) ==
  LET c_powers[k \in 0 .. Len(limbs)] == IF k = 0 THEN 1 ELSE Field(c_powers[k - 1] * c)
  IN  Field(Total(Len(limbs), [k \in DOMAIN limbs |-> limbs[k] * c_powers[k - 1]]))

\* Mutant: as many points as the polynomials have degree
MutEvaluationsAgree(x, y, limbs) ==
  \A c \in 1 .. Len(limbs) - 1 : Field(At(x.limbs, c) * At(y.limbs, c)) = At(limbs, c)

EvaluationsAgree(x, y, limbs) ==
  \A c \in 1 .. Len(limbs) : Field(At(x.limbs, c) * At(y.limbs, c)) = At(limbs, c)

(***************************************************************************)
(* enforce_bit_length, enforce_lt                                          *)
(***************************************************************************)
FitsBits(v, n) == v < 2^n

\* The helper the code computes: the highest positive limb
HighestPositive(d) ==
  LET positive == {k \in DOMAIN d.limbs : Signed(d.limbs[k]) > 0}
  IN  [k \in DOMAIN d.limbs |-> positive # {} /\ k = Max(positive)]

Chosen(helper, k) == Cardinality({j \in 1 .. k : helper[j]})

\* d is other - self
LtHolds(d, helper) ==
  LET p == Total(Len(d.limbs), [k \in DOMAIN d.limbs |-> IF helper[k] THEN d.limbs[k] ELSE 0])
      max_ub == Max({d.bounds[k].hi : k \in DOMAIN d.bounds})
  IN  /\ max_ub > 0
      /\ Chosen(helper, Len(d.limbs)) = 1
      /\ \A k \in DOMAIN d.limbs : Field(Chosen(helper, k - 1) * d.limbs[k]) = 0
      /\ FitsBits(Field(p - 1), Bits(max_ub))

Helpers(d) == [DOMAIN d.limbs -> BOOLEAN]

Comparable(x, y) == IsSafe(Difference(y, x)) /\ Longer(x, y) > 0

\* Some witness satisfies the constraints
Lt(x, y) ==
  LET d == Difference(y, x)
  IN  Comparable(x, y) /\ \E helper \in Helpers(d) : LtHolds(d, helper)

(***************************************************************************)
(* new_variable: the witness is a sign and as many bits as the bounds have *)
(***************************************************************************)
Hints(b) ==
  LET n == Max({Bits(b.lo), Bits(b.hi)})
  IN  [neg : IF b.lo >= 0 THEN {FALSE} ELSE IF b.hi <= 0 THEN {TRUE} ELSE BOOLEAN,
       magnitude : 0 .. 2^n - 1]

HintFor(x) == [neg |-> x < 0, magnitude |-> Abs(x)]
HintInt(h) == IF h.neg THEN -h.magnitude ELSE h.magnitude

Allocated(b, h) ==
  LET n == Max({Bits(b.lo), Bits(b.hi)})
  IN  Aligned(Variable(WithSign(h.neg, Digits(h.magnitude, n)), ComputeBounds(b.lo, b.hi),
                       HintInt(h), FALSE))

\* new_variable_with_inferred_mode: next to a constant the hint is one too
Inferred(v, b, h) == IF IsConstant(v) THEN Constant(HintInt(h)) ELSE Allocated(b, h)

\* The bounds are what the bits can express, so that nothing is left to check
IsFull(b) ==
  LET n == Max({Bits(b.lo), Bits(b.hi)})
  IN  \/ b.lo = 0 /\ b.hi + 1 = 2^n
      \/ 1 - b.lo = 2^n /\ b.hi = 0
      \/ 1 - b.lo = 2^n /\ b.hi + 1 = 2^n

\* Mutant: the lower bound is taken for granted
MutInRange(b, v) == IsFull(b) \/ Lt(v, Constant(b.hi + 1))

InRange(b, v) == v.const \/ IsFull(b) \/ (Lt(v, Constant(b.hi + 1)) /\ Lt(Constant(b.lo - 1), v))

(***************************************************************************)
(* enforce_equal_unaligned                                                 *)
(***************************************************************************)
\* Mutant: the lower bound is not subtracted first
MutCarryFits(g) == FitsBits(g.carry, Bits(g.carry_bounds.hi - g.carry_bounds.lo + 1))

\* Before the first limb of a new group, the carry of the last one is range checked
CarryFits(g) ==
  FitsBits(Field(g.carry - g.carry_bounds.lo), Bits(g.carry_bounds.hi - g.carry_bounds.lo + 1))

CheckedWith(g, b) == Extended(g, b) \in Safe \/ CarryFits(g)

\* The whole loop, on the difference d
EqualHolds(d) ==
  LET groups[k \in 0 .. Len(d.limbs)] ==
        IF k = 0 THEN NoGroup ELSE GroupLimb(groups[k - 1], d.limbs[k], d.bounds[k])
  IN  /\ groups[Len(d.limbs)].carry = 0
      /\ \A k \in DOMAIN d.limbs : CheckedWith(groups[k - 1], d.bounds[k])

(***************************************************************************)
(* modulo and enforce_congruent                                            *)
(***************************************************************************)
\* What the constraints of modulo ask of quotient and remainder
Reduces(v, q, r) ==
  LET d == Difference(Sum(Product(q, Constant(M)), r), v)
  IN  IsSafe(d) /\ EqualHolds(d) /\ Lt(r, Constant(M))

ReducedBounds == [lo |-> 0, hi |-> M]
QuotientBounds(v) == [lo |-> LBound(v) \div M, hi |-> UBound(v) \div M]

\* Whether the code returns Ok
Reducible(v) ==
  LET q == Inferred(v, QuotientBounds(v), HintFor(v.int \div M))
      r == Inferred(v, ReducedBounds, HintFor(v.int % M))
  IN  /\ IsSafe(Product(q, Constant(M))) /\ IsSafe(Sum(Product(q, Constant(M)), r))
      /\ IsSafe(Difference(Sum(Product(q, Constant(M)), r), v))

CongruenceBounds(x, y) ==
  [lo |-> (LBound(x) - UBound(y)) \div M, hi |-> (UBound(x) - LBound(y)) \div M]

MultipleOfM(x, y, q) == Difference(Difference(x, y), Product(q, Constant(M)))

\* Whether the code returns Ok
CongruenceFits(x, y) ==
  LET q == Inferred(x, CongruenceBounds(x, y), HintFor((x.int - y.int) \div M))
  IN  IsSafe(Difference(x, y)) /\ IsSafe(Product(q, Constant(M))) /\ IsSafe(MultipleOfM(x, y, q))

(***************************************************************************)
(* Bits, and what a transcript absorbs                                     *)
(***************************************************************************)
CONSTANT AbsorbBits   \* of an element of the constraint field: MODULUS_BIT_SIZE - 1
ASSUME AbsorbAssumption == AbsorbBits \in Nat \ {0} /\ 2^AbsorbBits <= P

BitsLe(x, n) == [k \in 1 .. n |-> (x \div 2^(k - 1)) % 2]
FromBitsLe(bits) == FoldRight(LAMBDA bit, r : 2 * r + bit, bits, 0)

\* Mutant: every limb has as many bits as an aligned one
MutLimbBits(v) ==
  FoldLeft(\o, <<>>, [k \in DOMAIN v.limbs |-> BitsLe(v.limbs[k], W + 1)])

\* to_bits_le: of each limb as many as its upper bound has
LimbBits(v) ==
  FoldLeft(\o, <<>>, [k \in DOMAIN v.limbs |-> BitsLe(v.limbs[k], Bits(v.bounds[k].hi))])

HasBits(v) ==
  /\ \A k \in DOMAIN v.bounds : v.bounds[k].lo >= 0
  /\ \A k \in DOMAIN v.limbs : FitsBits(v.limbs[k], Bits(v.bounds[k].hi))

\* absorb_into in the circuit, and out of it
AbsorbVar(v) ==
  LET bits == LimbBits(v)
  IN  [k \in 1 .. CeilDiv(Len(bits), AbsorbBits) |->
         FromBitsLe(SubSeq(bits, (k - 1) * AbsorbBits + 1, Min({k * AbsorbBits, Len(bits)})))]

AbsorbElement(x) ==
  [k \in 1 .. CeilDiv(Bits(M), AbsorbBits) |-> (x \div 2^((k - 1) * AbsorbBits)) % 2^AbsorbBits]

FieldBounds == [lo |-> 0, hi |-> M - 1]

\* from_bits_le
FromBits(x, n) ==
  Aligned(Variable(WithSign(FALSE, Digits(x, n)), ComputeBounds(0, 2^n - 1), x, FALSE))

-----------------------------------------------------------------------------
Idle == [at |-> 0, diff |-> Variable(<<>>, <<>>, 0, TRUE), group |-> NoGroup, fits |-> TRUE]

Judged(call, honest, accepted, meant) ==
  [call |-> call, honest |-> honest, accepted |-> accepted, meant |-> meant]
NoVerdict == Judged("none", TRUE, TRUE, TRUE)

Init == store = {} /\ size = 0 /\ loop = Idle /\ verdict = NoVerdict

Ready == loop = Idle /\ verdict = NoVerdict
Room == Ready /\ size < MaxSize

\* The variable joins the circuit if the constraints on its hints hold
Create(v, judgement) ==
  /\ size' = IF judgement.accepted THEN size + 1 ELSE size
  /\ store' = IF judgement.accepted THEN store \cup {v} ELSE store
  /\ verdict' = judgement
  /\ UNCHANGED loop

Enforce(judgement) ==
  /\ verdict' = judgement
  /\ UNCHANGED <<store, size, loop>>

\* The call returns
Return ==
  /\ verdict # NoVerdict /\ verdict' = NoVerdict
  /\ UNCHANGED <<store, size, loop>>

(***************************************************************************)
(* Allocation                                                              *)
(***************************************************************************)
Allocate(b, h) ==
  /\ Room
  /\ LET v == Allocated(b, h)
         right == h = HintFor(v.int)
     IN  Create(v, Judged("allocate", right, InRange(b, v), Between(v.int, b)))

AllocateConstant(x) == Room /\ Create(Constant(x), NoVerdict)

AllocateBits(n, x) == Room /\ x < 2^n /\ Create(FromBits(x, n), NoVerdict)

(***************************************************************************)
(* add_unaligned, sub_unaligned, mul_unaligned, mul_vector                 *)
(***************************************************************************)
Add(x, y) == Room /\ IsSafe(Sum(x, y)) /\ Create(Sum(x, y), NoVerdict)

Subtract(x, y) ==
  Room /\ IsSafe(Difference(x, y)) /\ Create(Difference(x, y), NoVerdict)

\* Two lengths of zero are a panic
Multiplicable(x, y) == ProductLength(x, y) >= 0 /\ IsSafe(Product(x, y))

MultiplyConstant(x, y) ==
  /\ Room /\ Multiplicable(x, y)
  /\ IsConstant(x) \/ IsConstant(y)
  /\ Create(Product(x, y), NoVerdict)

\* The limbs of the product are hints
Multiply(x, y) ==
  /\ Room /\ Multiplicable(x, y)
  /\ ~IsConstant(x) /\ ~IsConstant(y)
  /\ \E wrong \in Tampering :
       /\ DOMAIN wrong = 1 .. ProductLength(x, y)
       /\ LET limbs == [k \in DOMAIN wrong |-> Field(Product(x, y).limbs[k] + wrong[k])]
              given == \A k \in DOMAIN wrong : wrong[k] = 0
          IN  Create([Product(x, y) EXCEPT !.limbs = limbs],
                     Judged("multiply", given, EvaluationsAgree(x, y, limbs), given))

MultiplyRow(xs, ys) ==
  /\ Room
  /\ \A j \in DOMAIN xs : ProductLength(xs[j], ys[j]) >= 0
  /\ IsSafe(RowProduct(xs, ys))
  /\ Create(RowProduct(xs, ys), NoVerdict)

(***************************************************************************)
(* Reduction, selection                                                    *)
(***************************************************************************)
Reduce(v) ==
  /\ Room /\ Reducible(v)
  /\ \E hq \in Hints(QuotientBounds(v)), hr \in Hints(ReducedBounds) :
       LET q == Inferred(v, QuotientBounds(v), hq)
           r == Inferred(v, ReducedBounds, hr)
           right == hq = HintFor(v.int \div M) /\ hr = HintFor(v.int % M)
       IN  /\ IsConstant(v) => right
           /\ Create(r, Judged("reduce", right,
                            /\ Reduces(v, q, r)
                            /\ InRange(QuotientBounds(v), q) /\ InRange(ReducedBounds, r),
                            r.int = v.int % M))

SameBounds(x, y) == x.aligned /\ y.aligned /\ x.bounds = y.bounds

Select(cond, x, y) ==
  /\ Room /\ SameBounds(x, y)
  /\ Create([IF cond THEN x ELSE y EXCEPT !.const = FALSE], NoVerdict)

(***************************************************************************)
(* What is enforced                                                        *)
(***************************************************************************)
EnforceLt(x, y) ==
  /\ Ready /\ x.aligned /\ y.aligned /\ Comparable(x, y)
  /\ LET d == Difference(y, x)
     IN  \E helper \in Helpers(d) :
           /\ IsConstant(d) => helper = HighestPositive(d)
           /\ Enforce(Judged("lt", helper = HighestPositive(d), LtHolds(d, helper),
                             x.int < y.int))

EnforceCongruent(x, y) ==
  /\ Ready /\ CongruenceFits(x, y)
  /\ \E hq \in Hints(CongruenceBounds(x, y)) :
       LET q == Inferred(x, CongruenceBounds(x, y), hq)
           right == hq = HintFor((x.int - y.int) \div M)
       IN  /\ IsConstant(x) => right
           /\ Enforce(Judged("congruent", right,
                             /\ EqualHolds(MultipleOfM(x, y, q))
                             /\ InRange(CongruenceBounds(x, y), q),
                             (x.int - y.int) % M = 0))

\* EqGadget: enforce_equal, and is_eq
EnforceSame(x, y) ==
  /\ Ready /\ SameBounds(x, y)
  /\ Enforce(Judged("same", TRUE, x.limbs = y.limbs, x.int = y.int))

\* enforce_equal_unaligned
BeginEqual(x, y) ==
  /\ Ready /\ IsSafe(Difference(x, y))
  /\ loop' = [Idle EXCEPT !.at = 1, !.diff = Difference(x, y)]
  /\ UNCHANGED <<store, size, verdict>>

GroupNextLimb ==
  /\ loop.at \in DOMAIN loop.diff.limbs
  /\ LET limb == loop.diff.limbs[loop.at]
         b == loop.diff.bounds[loop.at]
     IN  loop' = [loop EXCEPT !.at = @ + 1,
                              !.group = GroupLimb(@, limb, b),
                              !.fits = @ /\ CheckedWith(loop.group, b)]
  /\ UNCHANGED <<store, size, verdict>>

EndEqual ==
  /\ loop.at = Len(loop.diff.limbs) + 1
  /\ verdict' = Judged("equal", TRUE, loop.fits /\ loop.group.carry = 0, loop.diff.int = 0)
  /\ loop' = Idle
  /\ UNCHANGED <<store, size>>

Next ==
  \/ \E b \in Ranges \cup {FieldBounds} : \E h \in Hints(b) : Allocate(b, h)
  \/ \E x \in Constants : AllocateConstant(x)
  \/ \E x \in 0 .. 2^Bits(M) - 1 : AllocateBits(Bits(M), x)
  \/ \E x, y \in store :
       \/ Add(x, y) \/ Subtract(x, y)
       \/ MultiplyConstant(x, y)
       \/ Multiply(x, y)
       \/ MultiplyRow(<<x, y>>, <<y, y>>)
       \/ \E cond \in BOOLEAN : Select(cond, x, y)
       \/ EnforceLt(x, y)
       \/ EnforceCongruent(x, y)
       \/ EnforceSame(x, y)
       \/ BeginEqual(x, y)
  \/ \E v \in store : Reduce(v)
  \/ GroupNextLimb \/ EndEqual \/ Return

Spec == Init /\ [][Next]_vars

-----------------------------------------------------------------------------
\* No limb ever leaves the bounds that are kept of it, and so none wraps around in the
\* constraint field: whatever was computed, and whatever the prover gave as hints, the
\* limbs of a variable compose to the integer that the operations would have given.
ValuesExact ==
  \A v \in store :
    /\ \A k \in DOMAIN v.limbs : Between(Signed(v.limbs[k]), v.bounds[k])
    /\ Compose(v.limbs) = v.int

Forced(calls) == verdict.call \in calls /\ verdict.accepted => verdict.meant

\* new_variable accepts hints only of an integer within the bounds asked for, and enforce_lt
\* an integer only if it is less: limbs of either sign, variables of different length, and
\* any helper bits included.
ComparisonsForced == Forced({"allocate", "lt"})

\* Whatever the prover hints: variables that are equal, aligned or not, are one integer,
\* congruent ones are congruent modulo M, and products and remainders are the right ones.
HintsForced == Forced({"equal", "same", "congruent", "multiply", "reduce"})

\* And a prover who hints what the code computes is never refused what is true: no range
\* check of a carry, a quotient, a remainder or the limb a comparison chooses is too narrow.
NoneRefused == verdict.honest /\ verdict.meant => verdict.accepted

\* The debug assertions of enforce_equal_unaligned: the bounds kept of the carry, shifted
\* back, never exceed those of the group.  And a group is narrower than the field, the one
\* that starts with the limb that did not fit included, so that its residue tells it.
CarryWithinGroup ==
  LET shifted == ShiftLeft(loop.group.carry_bounds, loop.group.unit)
      group == loop.group.group_bounds
  IN  /\ shifted.lo >= group.lo /\ shifted.hi <= group.hi
      /\ group.hi - group.lo < P

\* A field element in the circuit is absorbed as the same elements as out of it.
AbsorbsAlike ==
  \A v \in store :
    v.aligned /\ v.bounds = ComputeBounds(0, M - 1) /\ v.int < M =>
      HasBits(v) /\ AbsorbVar(v) = AbsorbElement(v.int)
=============================================================================
