------------------------ MODULE NovaCycleFold_proofs -------------------------
(***************************************************************************)
(* Proofs about folding with Nova and about its CycleFold adapter: for     *)
(* every prime field, every R1CS of the shape the model has and every      *)
(* commitment key, folds are complete and sound, the verifiers compute     *)
(* what the prover does, and the adapter's circuits pin down the folded    *)
(* commitments.                                                            *)
(*                                                                         *)
(* Elements of the field are integers here, reduced by every operation of  *)
(* the code.  The proofs work with integers up to congruence, where the    *)
(* reductions disappear, and then with identities between polynomials.     *)
(***************************************************************************)
EXTENDS NovaCycleFold, TLAPS, FiniteSetTheorems

-----------------------------------------------------------------------------
(***************************************************************************)
(* Congruence modulo P                                                     *)
(***************************************************************************)
Cong(a, b) == \E k \in Int : a = b + P * k

LEMMA PPositive == P \in Nat /\ P > 2 /\ P \in Int
BY FieldAssumption, SMT

\* Two multiples of P less than P apart are the same.
LEMMA NoMultipleBetween ==
  ASSUME NEW k \in Int, NEW d \in Int, d = P * k, -P < d, d < P
  PROVE  d = 0
<1>1. CASE k = 0
  BY <1>1, PPositive, SMT
<1>2. CASE k >= 1
  <2>1. P * k >= P
    BY <1>2, PPositive, SMT
  <2> QED BY <2>1, PPositive, SMT
<1>3. CASE k <= -1
  <2>1. P * k <= -P
    BY <1>3, PPositive, SMT
  <2> QED BY <2>1, PPositive, SMT
<1> QED BY <1>1, <1>2, <1>3, SMT

\* Every integer is congruent to its residue, an element of the field.
LEMMA Residue == ASSUME NEW a \in Int PROVE a % P \in F /\ a % P \in Int /\ Cong(a % P, a)
<1>1. a % P \in F /\ a % P \in Int
  BY PPositive, SMT DEF F
<1>2. a = P * (a \div P) + (a % P) /\ a \div P \in Int
  BY PPositive, SMT
<1>3. a % P = a + P * (-(a \div P)) /\ -(a \div P) \in Int
  BY <1>1, <1>2, PPositive, SMT
<1> QED BY <1>1, <1>3 DEF Cong

LEMMA CongReflexive == ASSUME NEW a \in Int PROVE Cong(a, a)
<1>1. a = a + P * 0
  BY PPositive, SMT
<1> QED BY <1>1 DEF Cong

LEMMA CongSymmetric == ASSUME NEW a \in Int, NEW b \in Int, Cong(a, b) PROVE Cong(b, a)
<1>1. PICK k \in Int : a = b + P * k
  BY DEF Cong
<1>2. b = a + P * (-k) /\ -k \in Int
  BY <1>1, PPositive, SMT
<1> QED BY <1>2 DEF Cong

LEMMA CongTransitive ==
  ASSUME NEW a \in Int, NEW b \in Int, NEW c \in Int, Cong(a, b), Cong(b, c)
  PROVE  Cong(a, c)
<1>1. PICK k \in Int : a = b + P * k
  BY DEF Cong
<1>2. PICK l \in Int : b = c + P * l
  BY DEF Cong
<1>3. a = c + P * (l + k) /\ l + k \in Int
  BY <1>1, <1>2, PPositive, SMT
<1> QED BY <1>3 DEF Cong

LEMMA CongSum ==
  ASSUME NEW a \in Int, NEW b \in Int, NEW c \in Int, NEW d \in Int, Cong(a, b), Cong(c, d)
  PROVE  Cong(a + c, b + d) /\ Cong(a - c, b - d)
<1>1. PICK k \in Int : a = b + P * k
  BY DEF Cong
<1>2. PICK l \in Int : c = d + P * l
  BY DEF Cong
<1>3. a + c = (b + d) + P * (k + l) /\ k + l \in Int
  BY <1>1, <1>2, PPositive, SMT
<1>4. a - c = (b - d) + P * (k - l) /\ k - l \in Int
  BY <1>1, <1>2, PPositive, SMT
<1> QED BY <1>3, <1>4 DEF Cong

LEMMA CongProduct ==
  ASSUME NEW a \in Int, NEW b \in Int, NEW c \in Int, NEW d \in Int, Cong(a, b), Cong(c, d)
  PROVE  Cong(a * c, b * d)
<1>1. PICK k \in Int : a = b + P * k
  BY DEF Cong
<1>2. PICK l \in Int : c = d + P * l
  BY DEF Cong
<1> DEFINE m == k * d + b * l + P * (k * l)
<1>3. m \in Int
  BY PPositive, SMT
<1>4. a * c = b * d + P * m
  BY <1>1, <1>2, PPositive, SMT
<1> HIDE DEF m
<1> QED BY <1>3, <1>4 DEF Cong

\* Elements of the field that are congruent are equal.
LEMMA CongElements == ASSUME NEW a \in F, NEW b \in F, Cong(a, b) PROVE a = b
<1>1. a \in Int /\ b \in Int /\ a - b < P /\ -P < a - b
  BY PPositive, SMT DEF F
<1>2. PICK k \in Int : a = b + P * k
  BY DEF Cong
<1>3. a - b = P * k
  BY <1>1, <1>2, PPositive, SMT
<1>4. a - b = 0
  BY <1>1, <1>3, NoMultipleBetween, SMT
<1> QED BY <1>1, <1>4, SMT

\* Integers are congruent exactly if they have the same residue.
LEMMA CongResidues ==
  ASSUME NEW a \in Int, NEW b \in Int
  PROVE  Cong(a, b) <=> a % P = b % P
<1> DEFINE x == a % P
           y == b % P
<1>1. x \in F /\ x \in Int /\ Cong(x, a) /\ y \in F /\ y \in Int /\ Cong(y, b)
  BY Residue
<1> HIDE DEF x, y
<1>2. ASSUME Cong(a, b) PROVE x = y
  <2>1. Cong(b, y) 
    BY <1>1, CongSymmetric
  <2>2. Cong(a, y)
    BY <1>1, <1>2, <2>1, CongTransitive
  <2>3. Cong(x, y)
    BY <1>1, <2>2, CongTransitive
  <2> QED BY <1>1, <2>3, CongElements
<1>3. ASSUME x = y PROVE Cong(a, b)
  <2>1. Cong(a, y)
    BY <1>1, <1>3, CongSymmetric
  <2> QED BY <1>1, <2>1, CongTransitive
<1> QED BY <1>2, <1>3 DEF x, y

-----------------------------------------------------------------------------
(***************************************************************************)
(* The relaxed R1CS at a sum of assignments                                *)
(***************************************************************************)
Matrices == Int \X Int \X Int

LEMMA KeyTypes ==
  /\ A \in Matrices /\ B \in Matrices /\ C \in Matrices
  /\ G \in Int /\ H \in Int /\ Blinds \subseteq Int /\ MaxFolds \in Nat
<1>1. F \subseteq Int
  BY SMT DEF F
<1> QED BY <1>1, KeyAssumption DEF Matrices

\* What evaluate_r1cs computes, before the reduction
Relation(u, x, w) == Row(A, u, x, w) * Row(B, u, x, w) - u * Row(C, u, x, w)

LEMMA RowType ==
  ASSUME NEW m \in Matrices, NEW u \in Int, NEW x \in Int, NEW w \in Int
  PROVE  Row(m, u, x, w) \in Int
<1>1. m[1] \in Int /\ m[2] \in Int /\ m[3] \in Int
  BY DEF Matrices
<1> QED BY <1>1, SMT DEF Row

LEMMA RelationType ==
  ASSUME NEW u \in Int, NEW x \in Int, NEW w \in Int
  PROVE  Relation(u, x, w) \in Int
<1>1. Row(A, u, x, w) \in Int /\ Row(B, u, x, w) \in Int /\ Row(C, u, x, w) \in Int
  BY KeyTypes, RowType
<1> QED BY <1>1, SMT DEF Relation

\* Congruent assignments have congruent rows, and satisfy the relation alike.
LEMMA RowCong ==
  ASSUME NEW m \in Matrices, NEW u \in Int, NEW x \in Int, NEW w \in Int,
         NEW v \in Int, NEW y \in Int, NEW z \in Int, Cong(u, v), Cong(x, y), Cong(w, z)
  PROVE  Cong(Row(m, u, x, w), Row(m, v, y, z))
<1>1. m[1] \in Int /\ m[2] \in Int /\ m[3] \in Int
  BY DEF Matrices
<1>2. Cong(m[1], m[1]) /\ Cong(m[2], m[2]) /\ Cong(m[3], m[3])
  BY <1>1, CongReflexive
<1> DEFINE a == m[1] * u  b == m[2] * x  c == m[3] * w
           d == m[1] * v  e == m[2] * y  f == m[3] * z
<1>3. a \in Int /\ b \in Int /\ c \in Int /\ d \in Int /\ e \in Int /\ f \in Int
  BY <1>1, SMT
<1>4. Cong(a, d) /\ Cong(b, e) /\ Cong(c, f)
  BY <1>1, <1>2, CongProduct
<1>5. Row(m, u, x, w) = a + b + c /\ Row(m, v, y, z) = d + e + f
  BY DEF Row
<1> HIDE DEF a, b, c, d, e, f
<1>6. a + b \in Int /\ d + e \in Int /\ Cong(a + b, d + e)
  BY <1>3, <1>4, CongSum, SMT
<1> QED BY <1>3, <1>4, <1>5, <1>6, CongSum

LEMMA RelationCong ==
  ASSUME NEW u \in Int, NEW x \in Int, NEW w \in Int,
         NEW v \in Int, NEW y \in Int, NEW z \in Int, Cong(u, v), Cong(x, y), Cong(w, z)
  PROVE  Cong(Relation(u, x, w), Relation(v, y, z))
<1> DEFINE a == Row(A, u, x, w)  b == Row(B, u, x, w)  c == Row(C, u, x, w)
           d == Row(A, v, y, z)  e == Row(B, v, y, z)  f == Row(C, v, y, z)
<1>1. a \in Int /\ b \in Int /\ c \in Int /\ d \in Int /\ e \in Int /\ f \in Int
  BY KeyTypes, RowType
<1>2. Cong(a, d) /\ Cong(b, e) /\ Cong(c, f)
  BY KeyTypes, RowCong
<1>3. Relation(u, x, w) = a * b - u * c /\ Relation(v, y, z) = d * e - v * f
  BY DEF Relation
<1> HIDE DEF a, b, c, d, e, f
<1>4. Cong(a * b, d * e) /\ Cong(u * c, v * f)
  BY <1>1, <1>2, CongProduct
<1>5. a * b \in Int /\ d * e \in Int /\ u * c \in Int /\ v * f \in Int
  BY <1>1, SMT
<1> QED BY <1>3, <1>4, <1>5, CongSum

\* evaluate_r1cs
LEMMA EvalResidue ==
  ASSUME NEW u \in Int, NEW x \in Int, NEW w \in Int
  PROVE  /\ EvalR1CS(u, x, w) = Relation(u, x, w) % P
         /\ EvalR1CS(u, x, w) \in F /\ Cong(EvalR1CS(u, x, w), Relation(u, x, w))
<1>1. EvalR1CS(u, x, w) = Relation(u, x, w) % P
  BY DEF EvalR1CS, Relation
<1> QED BY <1>1, RelationType, Residue

\* A row at a combination of assignments
LEMMA RowCombination ==
  ASSUME NEW m \in Matrices, NEW r \in Int, NEW u \in Int, NEW x \in Int, NEW w \in Int,
         NEW v \in Int, NEW y \in Int, NEW z \in Int
  PROVE  Row(m, u + r * v, x + r * y, w + r * z) = Row(m, u, x, w) + r * Row(m, v, y, z)
<1>1. m[1] \in Int /\ m[2] \in Int /\ m[3] \in Int
  BY DEF Matrices
<1> DEFINE a == m[1]  b == m[2]  c == m[3]
<1>2. a \in Int /\ b \in Int /\ c \in Int
  BY <1>1
<1>3. Row(m, u + r * v, x + r * y, w + r * z)
        = a * (u + r * v) + b * (x + r * y) + c * (w + r * z)
  BY DEF Row
<1>4. Row(m, u, x, w) = a * u + b * x + c * w /\ Row(m, v, y, z) = a * v + b * y + c * z
  BY DEF Row
<1> HIDE DEF a, b, c
<1>5. a * (u + r * v) + b * (x + r * y) + c * (w + r * z)
        = (a * u + b * x + c * w) + r * (a * v + b * y + c * z)
  BY <1>2, SMT
<1> QED BY <1>3, <1>4, <1>5

\* The relation at a combination is that of its parts, and r times the cross term: what the
\* sum of the parts has beyond them.
LEMMA RelationCombination ==
  ASSUME NEW r \in Int, NEW u \in Int, NEW x \in Int, NEW w \in Int,
         NEW v \in Int, NEW y \in Int, NEW z \in Int
  PROVE  Relation(u + r * v, x + r * y, w + r * z) =
           Relation(u, x, w) + r * r * Relation(v, y, z)
             + r * (Relation(u + v, x + y, w + z) - Relation(u, x, w) - Relation(v, y, z))
<1> DEFINE a == Row(A, u, x, w)  b == Row(B, u, x, w)  c == Row(C, u, x, w)
           d == Row(A, v, y, z)  e == Row(B, v, y, z)  f == Row(C, v, y, z)
<1>1. a \in Int /\ b \in Int /\ c \in Int /\ d \in Int /\ e \in Int /\ f \in Int
  BY KeyTypes, RowType
<1>2. Relation(u, x, w) = a * b - u * c /\ Relation(v, y, z) = d * e - v * f
  BY DEF Relation
<1>3. ASSUME NEW q \in Int
      PROVE  /\ Row(A, u + q * v, x + q * y, w + q * z) = a + q * d
             /\ Row(B, u + q * v, x + q * y, w + q * z) = b + q * e
             /\ Row(C, u + q * v, x + q * y, w + q * z) = c + q * f
  <2>1. A \in Matrices /\ B \in Matrices /\ C \in Matrices
    BY KeyTypes
  <2>2. Row(A, u + q * v, x + q * y, w + q * z) = a + q * d
    BY <2>1, RowCombination
  <2>3. Row(B, u + q * v, x + q * y, w + q * z) = b + q * e
    BY <2>1, RowCombination
  <2>4. Row(C, u + q * v, x + q * y, w + q * z) = c + q * f
    BY <2>1, RowCombination
  <2> QED BY <2>2, <2>3, <2>4
<1> HIDE DEF a, b, c, d, e, f
<1>4. /\ Row(A, u + v, x + y, w + z) = a + d
      /\ Row(B, u + v, x + y, w + z) = b + e
      /\ Row(C, u + v, x + y, w + z) = c + f
  <2>1. 1 * v = v /\ 1 * y = y /\ 1 * z = z /\ 1 * d = d /\ 1 * e = e /\ 1 * f = f /\ 1 \in Int
    BY <1>1, SMT
  <2>2. /\ Row(A, u + 1 * v, x + 1 * y, w + 1 * z) = a + 1 * d
        /\ Row(B, u + 1 * v, x + 1 * y, w + 1 * z) = b + 1 * e
        /\ Row(C, u + 1 * v, x + 1 * y, w + 1 * z) = c + 1 * f
    BY <2>1, <1>3
  <2> QED BY <2>1, <2>2, Zenon
<1>5. Relation(u + r * v, x + r * y, w + r * z)
        = (a + r * d) * (b + r * e) - (u + r * v) * (c + r * f)
  BY <1>3 DEF Relation
<1>6. Relation(u + v, x + y, w + z) = (a + d) * (b + e) - (u + v) * (c + f)
  BY <1>4 DEF Relation
<1>7. (a + r * d) * (b + r * e) - (u + r * v) * (c + r * f)
        = (a * b - u * c) + r * r * (d * e - v * f)
            + r * (((a + d) * (b + e) - (u + v) * (c + f)) - (a * b - u * c) - (d * e - v * f))
  BY <1>1, SMT
<1> QED BY <1>2, <1>5, <1>6, <1>7

-----------------------------------------------------------------------------
(***************************************************************************)
(* How far pairs are from what they should be, and what folds make of it   *)
(***************************************************************************)
\* What a relaxed relation, and an opening, are off by
Excess(u, x, w, e) == Relation(u, x, w) - e
Gap(v, r, cm) == (G * v + H * r) - cm

LEMMA OffTypes ==
  ASSUME NEW u \in Int, NEW x \in Int, NEW w \in Int, NEW e \in Int
  PROVE  Excess(u, x, w, e) \in Int /\ Gap(u, x, w) \in Int
<1>1. Relation(u, x, w) \in Int
  BY RelationType
<1> QED BY <1>1, KeyTypes, SMT DEF Excess, Gap

\* Of integers only their difference matters.
LEMMA CongDifference ==
  ASSUME NEW a \in Int, NEW b \in Int
  PROVE  Cong(a, b) <=> Cong(a - b, 0)
<1>1. ASSUME NEW k \in Int PROVE a = b + P * k <=> a - b = 0 + P * k
  BY PPositive, SMT
<1> QED BY <1>1 DEF Cong

\* check_evaluation passes if the relation is off by nothing.
LEMMA EvalExact ==
  ASSUME NEW u \in F, NEW x \in F, NEW w \in F, NEW e \in F
  PROVE  EvalR1CS(u, x, w) = e <=> Cong(Excess(u, x, w, e), 0)
<1>1. u \in Int /\ x \in Int /\ w \in Int /\ e \in Int
  BY SMT DEF F
<1>2. EvalR1CS(u, x, w) = Relation(u, x, w) % P /\ Relation(u, x, w) \in Int
  BY <1>1, EvalResidue, RelationType
<1>3. e % P = e
  BY <1>1, PPositive, SMT DEF F
<1>4. EvalR1CS(u, x, w) = e <=> Cong(Relation(u, x, w), e)
  BY <1>1, <1>2, <1>3, CongResidues
<1> QED BY <1>1, <1>2, <1>4, CongDifference DEF Excess

LEMMA CommitType == ASSUME NEW v \in Int, NEW r \in Int PROVE Commit(v, r) \in F
<1>1. G * v + H * r \in Int
  BY KeyTypes, SMT
<1> QED BY <1>1, Residue DEF Commit

\* open passes if the commitment is off by nothing.
LEMMA OpensExact ==
  ASSUME NEW v \in Int, NEW r \in Int, NEW cm \in F
  PROVE  Opens(v, r, cm) <=> Cong(Gap(v, r, cm), 0)
<1>1. cm \in Int /\ cm % P = cm
  BY PPositive, SMT DEF F
<1> DEFINE p == G * v + H * r
<1>2. p \in Int
  BY KeyTypes, SMT
<1>3. Opens(v, r, cm) <=> p % P = cm
  BY DEF Opens, Commit
<1>4. Gap(v, r, cm) = p - cm
  BY DEF Gap
<1> HIDE DEF p
<1>5. p % P = cm <=> Cong(p, cm)
  <2>1. Cong(p, cm) <=> p % P = cm % P
    BY <1>1, <1>2, CongResidues
  <2> QED BY <1>1, <2>1, Zenon
<1>6. Cong(p, cm) <=> Cong(p - cm, 0)
  BY <1>1, <1>2, CongDifference
<1> QED BY <1>3, <1>4, <1>5, <1>6

\* A commitment just made opens.
LEMMA CommitGap ==
  ASSUME NEW v \in Int, NEW r \in Int
  PROVE  Cong(Gap(v, r, Commit(v, r)), 0)
BY CommitType, OpensExact DEF Opens

LEMMA GapCong ==
  ASSUME NEW v \in Int, NEW r \in Int, NEW c \in Int, NEW w \in Int, NEW s \in Int, NEW d \in Int,
         Cong(v, w), Cong(r, s), Cong(c, d)
  PROVE  Cong(Gap(v, r, c), Gap(w, s, d))
<1> DEFINE a == G * v  b == H * r  e == G * w  f == H * s
<1>1. a \in Int /\ b \in Int /\ e \in Int /\ f \in Int
  BY KeyTypes, SMT
<1>2. Cong(a, e) /\ Cong(b, f)
  BY KeyTypes, CongReflexive, CongProduct
<1>3. Gap(v, r, c) = (a + b) - c /\ Gap(w, s, d) = (e + f) - d
  BY DEF Gap
<1> HIDE DEF a, b, e, f
<1>4. a + b \in Int /\ e + f \in Int /\ Cong(a + b, e + f)
  BY <1>1, <1>2, CongSum, SMT
<1> DEFINE g == a + b  h == e + f
<1>5. g \in Int /\ h \in Int /\ Cong(g, h)
  BY <1>4
<1>6. Gap(v, r, c) = g - c /\ Gap(w, s, d) = h - d
  BY <1>3
<1> HIDE DEF g, h
<1>7. Cong(g - c, h - d)
  BY <1>5, CongSum
<1> QED BY <1>6, <1>7

\* A commitment folded with q, to v folded with q, is off by the folded gaps.
LEMMA FoldGap ==
  ASSUME NEW q \in Int, NEW v1 \in Int, NEW r1 \in Int, NEW c1 \in Int,
         NEW v2 \in Int, NEW r2 \in Int, NEW c2 \in Int,
         NEW v \in Int, NEW r \in Int, NEW c \in Int,
         Cong(v, v1 + q * v2), Cong(r, r1 + q * r2), Cong(c, c1 + q * c2)
  PROVE  Cong(Gap(v, r, c), Gap(v1, r1, c1) + q * Gap(v2, r2, c2))
<1>1. Gap(v1 + q * v2, r1 + q * r2, c1 + q * c2) = Gap(v1, r1, c1) + q * Gap(v2, r2, c2)
  BY KeyTypes, SMT DEF Gap
<1> DEFINE a == v1 + q * v2  b == r1 + q * r2  d == c1 + q * c2
<1>2. a \in Int /\ b \in Int /\ d \in Int
  BY SMT
<1>3. Cong(v, a) /\ Cong(r, b) /\ Cong(c, d)
  OBVIOUS
<1>4. Gap(a, b, d) = Gap(v1, r1, c1) + q * Gap(v2, r2, c2)
  BY <1>1
<1> HIDE DEF a, b, d
<1>5. Cong(Gap(v, r, c), Gap(a, b, d))
  BY <1>2, <1>3, GapCong
<1> QED BY <1>4, <1>5

\* The error term with the cross term makes the folded relation off by this much.
LEMMA FoldExcess ==
  ASSUME NEW q \in Int, NEW u1 \in Int, NEW x1 \in Int, NEW w1 \in Int, NEW e1 \in Int,
         NEW u2 \in Int, NEW x2 \in Int, NEW w2 \in Int, NEW e2 \in Int,
         NEW u \in Int, NEW x \in Int, NEW w \in Int, NEW e \in Int, NEW t \in Int,
         Cong(u, u1 + q * u2), Cong(x, x1 + q * x2), Cong(w, w1 + q * w2),
         Cong(t, Relation(u1 + u2, x1 + x2, w1 + w2) - (e1 + e2)),
         Cong(e, e1 + q * t + q * q * e2)
  PROVE  LET y == Excess(u1, x1, w1, e1)
             z == Excess(u2, x2, w2, e2)
         IN  Cong(Excess(u, x, w, e), y + q * q * z - q * (y + z))
<1> DEFINE a == Relation(u1, x1, w1)
           b == Relation(u2, x2, w2)
           s == Relation(u1 + u2, x1 + x2, w1 + w2)
           d == Relation(u1 + q * u2, x1 + q * x2, w1 + q * w2)
           h == Relation(u, x, w)
<1>1. /\ u1 + u2 \in Int /\ x1 + x2 \in Int /\ w1 + w2 \in Int
      /\ u1 + q * u2 \in Int /\ x1 + q * x2 \in Int /\ w1 + q * w2 \in Int
  BY SMT
<1>2. a \in Int /\ b \in Int /\ s \in Int /\ d \in Int /\ h \in Int
  BY <1>1, RelationType
<1>3. Cong(h, d)
  BY <1>1, RelationCong
<1>4. d = a + q * q * b + q * (s - a - b)
  BY RelationCombination
<1>5. Cong(t, s - (e1 + e2))
  OBVIOUS
<1>6. Excess(u, x, w, e) = h - e /\ Excess(u1, x1, w1, e1) = a - e1 /\ Excess(u2, x2, w2, e2) = b - e2
  BY DEF Excess
<1> HIDE DEF a, b, s, d, h
<1>7. PICK k \in Int : t = s - (e1 + e2) + P * k
  BY <1>5 DEF Cong
<1>8. PICK l \in Int : e = e1 + q * t + q * q * e2 + P * l
  BY DEF Cong
<1>9. PICK n \in Int : h = d + P * n
  BY <1>3 DEF Cong
<1> DEFINE m == n - q * k - l
<1>10. m \in Int
  BY SMT
<1>11. h - e = (a - e1) + q * q * (b - e2) - q * ((a - e1) + (b - e2)) + P * m
  <2>1. q * t = q * s - q * e1 - q * e2 + P * (q * k)
    BY <1>2, <1>7, PPositive, SMT
  <2>2. h - e = a + q * q * b + q * (s - a - b) + P * n - e1 - q * t - q * q * e2 - P * l
    BY <1>2, <1>4, <1>8, <1>9, PPositive, SMT
  <2>3. h - e = a + q * q * b + q * (s - a - b) + P * n - e1
                  - (q * s - q * e1 - q * e2 + P * (q * k)) - q * q * e2 - P * l
    BY <2>1, <2>2, Zenon
  <2> QED BY <1>2, <2>3, PPositive, SMT
<1> HIDE DEF m
<1> QED BY <1>6, <1>10, <1>11 DEF Cong

-----------------------------------------------------------------------------
(***************************************************************************)
(* The pairs of the scheme                                                 *)
(***************************************************************************)
RunningWitness == [e : F, r_e : F, w : F, r_w : F]
RunningInstance == [cm_e : F, u : F, cm_w : F, x : F]
IncomingWitness == [w : F, r_w : F]
IncomingInstance == [cm_w : F, x : F]

\* What a running pair, and the two commitments of it, are off by
Off(ww, uu) == Excess(uu.u, uu.x, ww.w, ww.e)
OffW(ww, uu) == Gap(ww.w, ww.r_w, uu.cm_w)
OffE(ww, uu) == Gap(ww.e, ww.r_e, uu.cm_e)

LEMMA FieldInt == ASSUME NEW a \in F PROVE a \in Int
BY SMT DEF F

LEMMA RunningOffTypes ==
  ASSUME NEW ww \in RunningWitness, NEW uu \in RunningInstance
  PROVE  Off(ww, uu) \in Int /\ OffW(ww, uu) \in Int /\ OffE(ww, uu) \in Int
<1>1. /\ ww.e \in Int /\ ww.r_e \in Int /\ ww.w \in Int /\ ww.r_w \in Int
      /\ uu.cm_e \in Int /\ uu.u \in Int /\ uu.cm_w \in Int /\ uu.x \in Int
  BY FieldInt DEF RunningWitness, RunningInstance
<1> QED BY <1>1, OffTypes DEF Off, OffW, OffE

\* decide_running accepts a pair that is off by nothing.
LEMMA DecideRunningExact ==
  ASSUME NEW ww \in RunningWitness, NEW uu \in RunningInstance
  PROVE  DecideRunning(ww, uu) <=>
           Cong(Off(ww, uu), 0) /\ Cong(OffW(ww, uu), 0) /\ Cong(OffE(ww, uu), 0)
<1>1. /\ ww.e \in F /\ ww.r_e \in F /\ ww.w \in F /\ ww.r_w \in F
      /\ uu.cm_e \in F /\ uu.u \in F /\ uu.cm_w \in F /\ uu.x \in F
  BY DEF RunningWitness, RunningInstance
<1>2. EvalR1CS(uu.u, uu.x, ww.w) = ww.e <=> Cong(Off(ww, uu), 0)
  BY <1>1, EvalExact DEF Off
<1>3. Opens(ww.w, ww.r_w, uu.cm_w) <=> Cong(OffW(ww, uu), 0)
  BY <1>1, FieldInt, OpensExact DEF OffW
<1>4. Opens(ww.e, ww.r_e, uu.cm_e) <=> Cong(OffE(ww, uu), 0)
  BY <1>1, FieldInt, OpensExact DEF OffE
<1> QED BY <1>2, <1>3, <1>4 DEF DecideRunning

\* decide_incoming, likewise
LEMMA DecideIncomingExact ==
  ASSUME NEW w \in IncomingWitness, NEW u \in IncomingInstance
  PROVE  /\ Relation(1, u.x, w.w) \in Int /\ Gap(w.w, w.r_w, u.cm_w) \in Int
         /\ DecideIncoming(w, u) <=>
              Cong(Relation(1, u.x, w.w), 0) /\ Cong(Gap(w.w, w.r_w, u.cm_w), 0)
<1>1. w.w \in F /\ w.r_w \in F /\ u.cm_w \in F /\ u.x \in F /\ 1 \in F /\ 0 \in F
  BY PPositive, SMT DEF IncomingWitness, IncomingInstance, F
<1>2. w.w \in Int /\ w.r_w \in Int /\ u.cm_w \in Int /\ u.x \in Int /\ 1 \in Int /\ 0 \in Int
  BY <1>1, FieldInt
<1>3. Relation(1, u.x, w.w) \in Int /\ Gap(w.w, w.r_w, u.cm_w) \in Int
  BY <1>2, RelationType, OffTypes
<1>4. Excess(1, u.x, w.w, 0) = Relation(1, u.x, w.w)
  BY <1>3, SMT DEF Excess
<1>5. EvalR1CS(1, u.x, w.w) = 0 <=> Cong(Relation(1, u.x, w.w), 0)
  BY <1>1, <1>4, EvalExact
<1>6. Opens(w.w, w.r_w, u.cm_w) <=> Cong(Gap(w.w, w.r_w, u.cm_w), 0)
  BY <1>1, <1>2, OpensExact
<1> QED BY <1>3, <1>5, <1>6 DEF DecideIncoming

\* compute_cross_term
LEMMA CrossTermExact ==
  ASSUME NEW u1 \in Int, NEW x1 \in Int, NEW w1 \in Int,
         NEW u2 \in Int, NEW x2 \in Int, NEW w2 \in Int, NEW e \in Int
  PROVE  LET t == CrossTerm(u1, x1, w1, u2, x2, w2, e)
         IN  t \in F /\ Cong(t, Relation(u1 + u2, x1 + x2, w1 + w2) - e)
<1> DEFINE v == EvalR1CS(u1 + u2, x1 + x2, w1 + w2)
           d == Relation(u1 + u2, x1 + x2, w1 + w2)
<1>1. u1 + u2 \in Int /\ x1 + x2 \in Int /\ w1 + w2 \in Int
  BY SMT
<1>2. v \in F /\ Cong(v, d) /\ d \in Int
  BY <1>1, EvalResidue, RelationType
<1>3. CrossTerm(u1, x1, w1, u2, x2, w2, e) = (v - e) % P
  BY DEF CrossTerm
<1> HIDE DEF v, d
<1>4. v \in Int /\ v - e \in Int /\ d - e \in Int
  BY <1>2, FieldInt, SMT
<1>5. (v - e) % P \in F /\ (v - e) % P \in Int /\ Cong((v - e) % P, v - e)
  BY <1>4, Residue
<1>6. Cong(v - e, d - e)
  BY <1>2, <1>4, CongReflexive, CongSum
<1>7. Cong((v - e) % P, d - e)
  BY <1>4, <1>5, <1>6, CongTransitive
<1> QED BY <1>3, <1>5, <1>7 DEF d

\* The sums the folds are made of, however they are written
LEMMA FoldedSum ==
  ASSUME NEW a \in Int, NEW b \in Int, NEW q \in Int
  PROVE  /\ (a + b * q) % P \in F /\ Cong((a + b * q) % P, a + q * b)
         /\ (q * b + a) % P \in F /\ Cong((q * b + a) % P, a + q * b)
         /\ (a + q * b) % P \in F /\ Cong((a + q * b) % P, a + q * b)
<1>1. a + b * q = a + q * b /\ q * b + a = a + q * b /\ a + q * b \in Int
  BY SMT
<1> QED BY <1>1, Residue

\* A (1,1) fold: the folded pair is off by y + rho^2 z - rho (y + z), where the running
\* pair is off by y and the incoming pair by z, and its commitments by the folded gaps.
LEMMA Fold11 ==
  ASSUME NEW ww \in RunningWitness, NEW uu \in RunningInstance,
         NEW w \in IncomingWitness, NEW u \in IncomingInstance,
         NEW r_t \in F, NEW rho \in F
  PROVE  LET t    == Term11(ww, uu, w, u)
             cm_t == Commit(t, r_t)
             nw   == ProveW11(ww, w, t, r_t, rho)
             nu   == ProveU11(uu, u, cm_t, rho)
             y    == Off(ww, uu)
             z    == Relation(1, u.x, w.w)
         IN  /\ t \in F /\ cm_t \in F
             /\ nw \in RunningWitness /\ nu \in RunningInstance
             /\ Cong(Off(nw, nu), y + rho * rho * z - rho * (y + z))
             /\ Cong(OffW(nw, nu), OffW(ww, uu) + rho * Gap(w.w, w.r_w, u.cm_w))
             /\ Cong(OffE(nw, nu), OffE(ww, uu))
<1> DEFINE t    == Term11(ww, uu, w, u)
           cm_t == Commit(t, r_t)
           nw   == ProveW11(ww, w, t, r_t, rho)
           nu   == ProveU11(uu, u, cm_t, rho)
           y    == Off(ww, uu)
           z    == Relation(1, u.x, w.w)
<1>1. /\ ww.e \in Int /\ ww.r_e \in Int /\ ww.w \in Int /\ ww.r_w \in Int
      /\ uu.cm_e \in Int /\ uu.u \in Int /\ uu.cm_w \in Int /\ uu.x \in Int
      /\ w.w \in Int /\ w.r_w \in Int /\ u.cm_w \in Int /\ u.x \in Int
      /\ r_t \in Int /\ rho \in Int /\ 0 \in Int /\ 1 \in Int
  BY FieldInt DEF RunningWitness, RunningInstance, IncomingWitness, IncomingInstance
<1>2. t \in F /\ t \in Int
      /\ Cong(t, Relation(uu.u + 1, uu.x + u.x, ww.w + w.w) - ww.e)
  BY <1>1, CrossTermExact, FieldInt DEF Term11
<1> HIDE DEF t
<1>3. cm_t \in F /\ cm_t \in Int /\ Cong(Gap(t, r_t, cm_t), 0)
  BY <1>1, <1>2, CommitType, CommitGap, FieldInt
<1> HIDE DEF cm_t
<1>4. /\ nw.e = (rho * t + ww.e) % P /\ nw.r_e = (ww.r_e + r_t * rho) % P
      /\ nw.w = (rho * w.w + ww.w) % P /\ nw.r_w = (ww.r_w + w.r_w * rho) % P
      /\ nw = [e |-> nw.e, r_e |-> nw.r_e, w |-> nw.w, r_w |-> nw.r_w]
      /\ nu.cm_e = (uu.cm_e + cm_t * rho) % P /\ nu.u = (uu.u + rho) % P
      /\ nu.cm_w = (uu.cm_w + u.cm_w * rho) % P /\ nu.x = (rho * u.x + uu.x) % P
      /\ nu = [cm_e |-> nu.cm_e, u |-> nu.u, cm_w |-> nu.cm_w, x |-> nu.x]
  BY DEF ProveW11, ProveU11
<1> HIDE DEF nw, nu
<1>5. /\ nw.e \in F /\ Cong(nw.e, ww.e + rho * t)
      /\ nw.r_e \in F /\ Cong(nw.r_e, ww.r_e + rho * r_t)
      /\ nw.w \in F /\ Cong(nw.w, ww.w + rho * w.w)
      /\ nw.r_w \in F /\ Cong(nw.r_w, ww.r_w + rho * w.r_w)
      /\ nu.cm_e \in F /\ Cong(nu.cm_e, uu.cm_e + rho * cm_t)
      /\ nu.cm_w \in F /\ Cong(nu.cm_w, uu.cm_w + rho * u.cm_w)
      /\ nu.x \in F /\ Cong(nu.x, uu.x + rho * u.x)
  BY <1>1, <1>2, <1>3, <1>4, FoldedSum, SMTT(30)
<1>6. nu.u \in F /\ Cong(nu.u, uu.u + rho * 1)
  <2>1. uu.u + rho = uu.u + rho * 1 /\ uu.u + rho * 1 \in Int
    BY <1>1, SMT
  <2> QED BY <1>4, <2>1, Residue
<1>7. nw \in RunningWitness /\ nu \in RunningInstance
  <2>1. [e |-> nw.e, r_e |-> nw.r_e, w |-> nw.w, r_w |-> nw.r_w] \in RunningWitness
    BY <1>5 DEF RunningWitness
  <2>2. [cm_e |-> nu.cm_e, u |-> nu.u, cm_w |-> nu.cm_w, x |-> nu.x] \in RunningInstance
    BY <1>5, <1>6 DEF RunningInstance
  <2> QED BY <1>4, <2>1, <2>2, Zenon
<1>8. /\ nw.e \in Int /\ nw.r_e \in Int /\ nw.w \in Int /\ nw.r_w \in Int
      /\ nu.cm_e \in Int /\ nu.u \in Int /\ nu.cm_w \in Int /\ nu.x \in Int
  BY <1>5, <1>6, FieldInt
<1>9. Cong(Off(nw, nu), y + rho * rho * z - rho * (y + z))
  <2>1. Excess(1, u.x, w.w, 0) = z
    <3>1. z \in Int
      BY <1>1, RelationType
    <3> QED BY <3>1, SMT DEF Excess
  <2>2. ww.e + 0 = ww.e /\ ww.e + rho * t = ww.e + rho * t + rho * rho * 0
    BY <1>1, <1>2, SMT
  <2>3. Cong(t, Relation(uu.u + 1, uu.x + u.x, ww.w + w.w) - (ww.e + 0))
    BY <1>2, <2>2, Zenon
  <2>4. Cong(nw.e, ww.e + rho * t + rho * rho * 0)
    BY <1>5, <2>2, Zenon
  <2>5. LET v == Excess(1, u.x, w.w, 0)
        IN  Cong(Excess(nu.u, nu.x, nw.w, nw.e),
                 Excess(uu.u, uu.x, ww.w, ww.e) + rho * rho * v
                   - rho * (Excess(uu.u, uu.x, ww.w, ww.e) + v))
    BY <1>1, <1>2, <1>5, <1>6, <1>8, <2>3, <2>4, FoldExcess
  <2> QED BY <2>1, <2>5 DEF Off
<1>10. Cong(OffW(nw, nu), OffW(ww, uu) + rho * Gap(w.w, w.r_w, u.cm_w))
  BY <1>1, <1>5, <1>8, FoldGap DEF OffW
<1>11. Cong(OffE(nw, nu), OffE(ww, uu))
  <2> DEFINE a == OffE(ww, uu)  b == Gap(t, r_t, cm_t)  c == OffE(nw, nu)
  <2>1. Cong(c, a + rho * b)
    BY <1>1, <1>2, <1>3, <1>5, <1>8, FoldGap DEF OffE
  <2>2. a \in Int /\ b \in Int /\ c \in Int
    BY <1>1, <1>2, <1>3, <1>8, OffTypes DEF OffE
  <2>3. Cong(b, 0)
    BY <1>3
  <2> HIDE DEF a, b, c
  <2>4. Cong(rho * b, rho * 0) /\ Cong(a, a) /\ rho * b \in Int /\ rho * 0 \in Int
    BY <1>1, <2>2, <2>3, CongReflexive, CongProduct, SMT
  <2>5. Cong(a + rho * b, a + rho * 0)
    BY <2>2, <2>4, CongSum
  <2>6. a + rho * 0 = a /\ a + rho * b \in Int
    BY <1>1, <2>2, SMT
  <2>7. Cong(a + rho * b, a)
    BY <2>5, <2>6, Zenon
  <2>8. Cong(c, a)
    BY <2>1, <2>2, <2>6, <2>7, CongTransitive
  <2> QED BY <2>8 DEF a, c
<1> QED BY <1>2, <1>3, <1>7, <1>9, <1>10, <1>11 DEF t, cm_t, nw, nu

\* A (2,0) fold: likewise, with the second running pair's commitment to its error term
\* entering with the square of the challenge.
LEMMA Fold20 ==
  ASSUME NEW w1 \in RunningWitness, NEW u1 \in RunningInstance,
         NEW w2 \in RunningWitness, NEW u2 \in RunningInstance,
         NEW r_t \in F, NEW rho \in F
  PROVE  LET t    == Term20(w1, u1, w2, u2)
             cm_t == Commit(t, r_t)
             nw   == ProveW20(w1, w2, t, r_t, rho)
             nu   == ProveU20(u1, u2, cm_t, rho)
             y    == Off(w1, u1)
             z    == Off(w2, u2)
         IN  /\ t \in F /\ cm_t \in F
             /\ nw \in RunningWitness /\ nu \in RunningInstance
             /\ Cong(Off(nw, nu), y + rho * rho * z - rho * (y + z))
             /\ Cong(OffW(nw, nu), OffW(w1, u1) + rho * OffW(w2, u2))
             /\ Cong(OffE(nw, nu), OffE(w1, u1) + rho * (0 + rho * OffE(w2, u2)))
<1> DEFINE t    == Term20(w1, u1, w2, u2)
           cm_t == Commit(t, r_t)
           nw   == ProveW20(w1, w2, t, r_t, rho)
           nu   == ProveU20(u1, u2, cm_t, rho)
           y    == Off(w1, u1)
           z    == Off(w2, u2)
<1>1. /\ w1.e \in Int /\ w1.r_e \in Int /\ w1.w \in Int /\ w1.r_w \in Int
      /\ u1.cm_e \in Int /\ u1.u \in Int /\ u1.cm_w \in Int /\ u1.x \in Int
      /\ w2.e \in Int /\ w2.r_e \in Int /\ w2.w \in Int /\ w2.r_w \in Int
      /\ u2.cm_e \in Int /\ u2.u \in Int /\ u2.cm_w \in Int /\ u2.x \in Int
      /\ r_t \in Int /\ rho \in Int /\ 0 \in Int
  BY FieldInt DEF RunningWitness, RunningInstance
<1>2. t \in F /\ t \in Int
      /\ Cong(t, Relation(u1.u + u2.u, u1.x + u2.x, w1.w + w2.w) - (w1.e + w2.e))
  <2>1. w1.e + w2.e \in Int
    BY <1>1, SMT
  <2> QED BY <1>1, <2>1, CrossTermExact, FieldInt DEF Term20
<1> HIDE DEF t
<1>3. cm_t \in F /\ cm_t \in Int /\ Cong(Gap(t, r_t, cm_t), 0)
  BY <1>1, <1>2, CommitType, CommitGap, FieldInt
<1> HIDE DEF cm_t
<1>4. /\ nw.e = (rho * rho * w2.e + rho * t + w1.e) % P
      /\ nw.r_e = (w1.r_e + r_t * rho + w2.r_e * rho * rho) % P
      /\ nw.w = (rho * w2.w + w1.w) % P /\ nw.r_w = (w1.r_w + w2.r_w * rho) % P
      /\ nw = [e |-> nw.e, r_e |-> nw.r_e, w |-> nw.w, r_w |-> nw.r_w]
      /\ nu.cm_e = (u1.cm_e + cm_t * rho + u2.cm_e * rho * rho) % P
      /\ nu.u = (u1.u + rho * u2.u) % P
      /\ nu.cm_w = (u1.cm_w + u2.cm_w * rho) % P /\ nu.x = (rho * u2.x + u1.x) % P
      /\ nu = [cm_e |-> nu.cm_e, u |-> nu.u, cm_w |-> nu.cm_w, x |-> nu.x]
  BY DEF ProveW20, ProveU20
<1> HIDE DEF nw, nu
<1>5. /\ nw.w \in F /\ Cong(nw.w, w1.w + rho * w2.w)
      /\ nw.r_w \in F /\ Cong(nw.r_w, w1.r_w + rho * w2.r_w)
      /\ nu.u \in F /\ Cong(nu.u, u1.u + rho * u2.u)
      /\ nu.cm_w \in F /\ Cong(nu.cm_w, u1.cm_w + rho * u2.cm_w)
      /\ nu.x \in F /\ Cong(nu.x, u1.x + rho * u2.x)
  BY <1>1, <1>4, FoldedSum, SMTT(30)
<1>6. /\ nw.e \in F /\ Cong(nw.e, w1.e + rho * t + rho * rho * w2.e)
      /\ nw.r_e \in F /\ Cong(nw.r_e, w1.r_e + rho * (r_t + rho * w2.r_e))
      /\ nu.cm_e \in F /\ Cong(nu.cm_e, u1.cm_e + rho * (cm_t + rho * u2.cm_e))
  <2>1. /\ rho * rho * w2.e + rho * t + w1.e = w1.e + rho * t + rho * rho * w2.e
        /\ w1.e + rho * t + rho * rho * w2.e \in Int
    BY <1>1, <1>2, SMT
  <2>2. /\ w1.r_e + r_t * rho + w2.r_e * rho * rho = w1.r_e + rho * (r_t + rho * w2.r_e)
        /\ w1.r_e + rho * (r_t + rho * w2.r_e) \in Int
    BY <1>1, SMT
  <2>3. /\ u1.cm_e + cm_t * rho + u2.cm_e * rho * rho = u1.cm_e + rho * (cm_t + rho * u2.cm_e)
        /\ u1.cm_e + rho * (cm_t + rho * u2.cm_e) \in Int
    BY <1>1, <1>3, SMT
  <2> QED BY <1>4, <2>1, <2>2, <2>3, Residue
<1>7. nw \in RunningWitness /\ nu \in RunningInstance
  <2>1. [e |-> nw.e, r_e |-> nw.r_e, w |-> nw.w, r_w |-> nw.r_w] \in RunningWitness
    BY <1>5, <1>6 DEF RunningWitness
  <2>2. [cm_e |-> nu.cm_e, u |-> nu.u, cm_w |-> nu.cm_w, x |-> nu.x] \in RunningInstance
    BY <1>5, <1>6 DEF RunningInstance
  <2> QED BY <1>4, <2>1, <2>2, Zenon
<1>8. /\ nw.e \in Int /\ nw.r_e \in Int /\ nw.w \in Int /\ nw.r_w \in Int
      /\ nu.cm_e \in Int /\ nu.u \in Int /\ nu.cm_w \in Int /\ nu.x \in Int
  BY <1>5, <1>6, FieldInt
<1>9. Cong(Off(nw, nu), y + rho * rho * z - rho * (y + z))
  BY <1>1, <1>2, <1>5, <1>6, <1>8, FoldExcess DEF Off
<1>10. Cong(OffW(nw, nu), OffW(w1, u1) + rho * OffW(w2, u2))
  BY <1>1, <1>5, <1>8, FoldGap DEF OffW
<1>11. Cong(OffE(nw, nu), OffE(w1, u1) + rho * (0 + rho * OffE(w2, u2)))
  <2> DEFINE v == t + rho * w2.e  r == r_t + rho * w2.r_e  d == cm_t + rho * u2.cm_e
             g == Gap(v, r, d)  a == OffE(w1, u1)  b == OffE(w2, u2)  c == OffE(nw, nu)
             h == Gap(t, r_t, cm_t)
  <2>1. v \in Int /\ r \in Int /\ d \in Int
    BY <1>1, <1>2, <1>3, SMT
  <2>2. Cong(g, h + rho * b)
    <3>1. Cong(v, t + rho * w2.e) /\ Cong(r, r_t + rho * w2.r_e) /\ Cong(d, cm_t + rho * u2.cm_e)
      BY <2>1, CongReflexive
    <3> QED BY <1>1, <1>2, <1>3, <2>1, <3>1, FoldGap DEF OffE
  <2>3. w1.e + rho * t + rho * rho * w2.e = w1.e + rho * v
    BY <1>1, <1>2, SMT
  <2>4. Cong(nw.e, w1.e + rho * v) /\ Cong(nw.r_e, w1.r_e + rho * r)
        /\ Cong(nu.cm_e, u1.cm_e + rho * d)
    BY <1>6, <2>3
  <2>5. a \in Int /\ b \in Int /\ c \in Int /\ g \in Int /\ h \in Int
    BY <1>1, <1>2, <1>3, <1>8, <2>1, OffTypes DEF OffE
  <2> HIDE DEF v, r, d
  <2>6. Cong(c, a + rho * g)
    BY <1>1, <1>8, <2>1, <2>4, FoldGap DEF OffE
  <2>7. Cong(h, 0)
    BY <1>3
  <2> HIDE DEF a, b, c, g, h
  <2>8. rho * b \in Int /\ h + rho * b \in Int /\ 0 + rho * b \in Int
    BY <1>1, <2>5, SMT
  <2>9. Cong(h + rho * b, 0 + rho * b)
    BY <2>5, <2>7, <2>8, CongReflexive, CongSum
  <2>10. Cong(g, 0 + rho * b)
    BY <2>2, <2>5, <2>8, <2>9, CongTransitive
  <2>11. /\ rho * g \in Int /\ rho * (0 + rho * b) \in Int
         /\ a + rho * g \in Int /\ a + rho * (0 + rho * b) \in Int
    BY <1>1, <2>5, SMT
  <2>12. Cong(rho * g, rho * (0 + rho * b))
    BY <1>1, <2>5, <2>8, <2>10, CongReflexive, CongProduct
  <2>13. Cong(a + rho * g, a + rho * (0 + rho * b))
    BY <2>5, <2>11, <2>12, CongReflexive, CongSum
  <2>14. Cong(c, a + rho * (0 + rho * b))
    BY <2>5, <2>6, <2>11, <2>13, CongTransitive
  <2> QED BY <2>14 DEF a, b, c
<1> QED BY <1>2, <1>3, <1>7, <1>9, <1>10, <1>11 DEF t, cm_t, nw, nu

\* sample(()): a pair that is off by nothing
LEMMA SampleRunningExact ==
  ASSUME NEW u \in F, NEW x \in F, NEW w \in F, NEW r_w \in F, NEW r_e \in F
  PROVE  LET s == SampleRunning(u, x, w, r_w, r_e)
         IN  s.W \in RunningWitness /\ s.U \in RunningInstance /\ DecideRunning(s.W, s.U)
<1> DEFINE e == EvalR1CS(u, x, w)
<1>1. e \in F
  BY FieldInt, EvalResidue
<1>2. Commit(e, r_e) \in F /\ Commit(w, r_w) \in F
  BY <1>1, FieldInt, CommitType
<1> DEFINE a == [e |-> e, r_e |-> r_e, w |-> w, r_w |-> r_w]
           b == [cm_e |-> Commit(e, r_e), u |-> u, cm_w |-> Commit(w, r_w), x |-> x]
<1>3. a \in RunningWitness /\ b \in RunningInstance
  BY <1>1, <1>2 DEF RunningWitness, RunningInstance
<1>4. DecideRunning(a, b)
  BY DEF DecideRunning, Opens
<1>5. SampleRunning(u, x, w, r_w, r_e) = [W |-> a, U |-> b]
  BY DEF SampleRunning
<1> HIDE DEF a, b
<1> QED BY <1>3, <1>4, <1>5

-----------------------------------------------------------------------------
(***************************************************************************)
(* Completeness                                                            *)
(***************************************************************************)
LEMMA Vanishing ==
  ASSUME NEW q \in Int, NEW y \in Int, NEW z \in Int, Cong(y, 0), Cong(z, 0)
  PROVE  /\ Cong(y + q * q * z - q * (y + z), 0)
         /\ Cong(y + q * z, 0)
         /\ Cong(y + q * (0 + q * z), 0)
<1>1. PICK k \in Int : y = 0 + P * k
  BY DEF Cong
<1>2. PICK l \in Int : z = 0 + P * l
  BY DEF Cong
<1> DEFINE m == k + q * q * l - q * (k + l)
           n == k + q * l
           o == k + q * q * l
<1>3. m \in Int /\ n \in Int /\ o \in Int
  BY SMT
<1>4. y + q * q * z - q * (y + z) = 0 + P * m
  BY <1>1, <1>2, PPositive, SMT
<1>5. y + q * z = 0 + P * n
  BY <1>1, <1>2, PPositive, SMT
<1>6. y + q * (0 + q * z) = 0 + P * o
  BY <1>1, <1>2, PPositive, SMT
<1> HIDE DEF m, n, o
<1> QED BY <1>3, <1>4, <1>5, <1>6 DEF Cong

LEMMA Complete11 ==
  ASSUME NEW ww \in RunningWitness, NEW uu \in RunningInstance,
         NEW w \in IncomingWitness, NEW u \in IncomingInstance,
         NEW r_t \in F, NEW rho \in F, DecideRunning(ww, uu), DecideIncoming(w, u)
  PROVE  LET t == Term11(ww, uu, w, u)
         IN  DecideRunning(ProveW11(ww, w, t, r_t, rho), ProveU11(uu, u, Commit(t, r_t), rho))
<1> DEFINE t  == Term11(ww, uu, w, u)
           nw == ProveW11(ww, w, t, r_t, rho)
           nu == ProveU11(uu, u, Commit(t, r_t), rho)
           y  == Off(ww, uu)          z == Relation(1, u.x, w.w)
           a  == OffW(ww, uu)         b == Gap(w.w, w.r_w, u.cm_w)
           c  == OffE(ww, uu)
<1>1. /\ nw \in RunningWitness /\ nu \in RunningInstance
      /\ Cong(Off(nw, nu), y + rho * rho * z - rho * (y + z))
      /\ Cong(OffW(nw, nu), a + rho * b)
      /\ Cong(OffE(nw, nu), c)
  BY Fold11
<1>2. y \in Int /\ a \in Int /\ c \in Int /\ Cong(y, 0) /\ Cong(a, 0) /\ Cong(c, 0)
  BY RunningOffTypes, DecideRunningExact
<1>3. z \in Int /\ b \in Int /\ Cong(z, 0) /\ Cong(b, 0)
  BY DecideIncomingExact
<1>4. rho \in Int /\ 0 \in Int
  BY FieldInt
<1> HIDE DEF t, nw, nu, y, z, a, b, c
<1>5. Off(nw, nu) \in Int /\ OffW(nw, nu) \in Int /\ OffE(nw, nu) \in Int
  BY <1>1, RunningOffTypes
<1>6. y + rho * rho * z - rho * (y + z) \in Int /\ a + rho * b \in Int
  BY <1>2, <1>3, <1>4, SMT
<1>7. Cong(Off(nw, nu), 0)
  <2>1. Cong(y + rho * rho * z - rho * (y + z), 0)
    BY <1>2, <1>3, <1>4, Vanishing
  <2> QED BY <1>1, <1>4, <1>5, <1>6, <2>1, CongTransitive
<1>8. Cong(OffW(nw, nu), 0)
  <2>1. Cong(a + rho * b, 0)
    BY <1>2, <1>3, <1>4, Vanishing
  <2> QED BY <1>1, <1>4, <1>5, <1>6, <2>1, CongTransitive
<1>9. Cong(OffE(nw, nu), 0)
  BY <1>1, <1>2, <1>4, <1>5, CongTransitive
<1>10. DecideRunning(nw, nu)
  BY <1>1, <1>7, <1>8, <1>9, DecideRunningExact
<1> QED BY <1>10 DEF nw, nu, t

LEMMA Complete20 ==
  ASSUME NEW w1 \in RunningWitness, NEW u1 \in RunningInstance,
         NEW w2 \in RunningWitness, NEW u2 \in RunningInstance,
         NEW r_t \in F, NEW rho \in F, DecideRunning(w1, u1), DecideRunning(w2, u2)
  PROVE  LET t == Term20(w1, u1, w2, u2)
         IN  DecideRunning(ProveW20(w1, w2, t, r_t, rho), ProveU20(u1, u2, Commit(t, r_t), rho))
<1> DEFINE t  == Term20(w1, u1, w2, u2)
           nw == ProveW20(w1, w2, t, r_t, rho)
           nu == ProveU20(u1, u2, Commit(t, r_t), rho)
           y  == Off(w1, u1)          z == Off(w2, u2)
           a  == OffW(w1, u1)         b == OffW(w2, u2)
           c  == OffE(w1, u1)         d == OffE(w2, u2)
<1>1. /\ nw \in RunningWitness /\ nu \in RunningInstance
      /\ Cong(Off(nw, nu), y + rho * rho * z - rho * (y + z))
      /\ Cong(OffW(nw, nu), a + rho * b)
      /\ Cong(OffE(nw, nu), c + rho * (0 + rho * d))
  BY Fold20
<1>2. y \in Int /\ a \in Int /\ c \in Int /\ Cong(y, 0) /\ Cong(a, 0) /\ Cong(c, 0)
  BY RunningOffTypes, DecideRunningExact
<1>3. z \in Int /\ b \in Int /\ d \in Int /\ Cong(z, 0) /\ Cong(b, 0) /\ Cong(d, 0)
  BY RunningOffTypes, DecideRunningExact
<1>4. rho \in Int /\ 0 \in Int
  BY FieldInt
<1> HIDE DEF t, nw, nu, y, z, a, b, c, d
<1>5. Off(nw, nu) \in Int /\ OffW(nw, nu) \in Int /\ OffE(nw, nu) \in Int
  BY <1>1, RunningOffTypes
<1>6. /\ y + rho * rho * z - rho * (y + z) \in Int /\ a + rho * b \in Int
      /\ c + rho * (0 + rho * d) \in Int
  BY <1>2, <1>3, <1>4, SMT
<1>7. Cong(Off(nw, nu), 0)
  <2>1. Cong(y + rho * rho * z - rho * (y + z), 0)
    BY <1>2, <1>3, <1>4, Vanishing
  <2> QED BY <1>1, <1>4, <1>5, <1>6, <2>1, CongTransitive
<1>8. Cong(OffW(nw, nu), 0)
  <2>1. Cong(a + rho * b, 0)
    BY <1>2, <1>3, <1>4, Vanishing
  <2> QED BY <1>1, <1>4, <1>5, <1>6, <2>1, CongTransitive
<1>9. Cong(OffE(nw, nu), 0)
  <2>1. Cong(c + rho * (0 + rho * d), 0)
    BY <1>2, <1>3, <1>4, Vanishing
  <2> QED BY <1>1, <1>4, <1>5, <1>6, <2>1, CongTransitive
<1>10. DecideRunning(nw, nu)
  BY <1>1, <1>7, <1>8, <1>9, DecideRunningExact
<1> QED BY <1>10 DEF nw, nu, t

\* The two verifiers do what the prover does to the instances, given its challenge.
LEMMA SameInstances ==
  ASSUME NEW uu, NEW u, NEW cm_t, NEW rho
  PROVE  /\ VerifyU11(uu, u, cm_t, rho) = ProveU11(uu, u, cm_t, rho)
         /\ GadgetU11(uu, u, cm_t, rho) = ProveU11(uu, u, cm_t, rho)
         /\ VerifyU20(uu, u, cm_t, rho) = ProveU20(uu, u, cm_t, rho)
         /\ GadgetU20(uu, u, cm_t, rho) = ProveU20(uu, u, cm_t, rho)
BY DEF VerifyU11, ProveU11, GadgetU11, VerifyU20, ProveU20, GadgetU20

\* And they absorb what it absorbs.
LEMMA SameLogs ==
  ASSUME NEW uu, NEW u, NEW cm_t
  PROVE  /\ VerifierLog11(uu, u, cm_t) = ProverLog11(uu, u, cm_t)
         /\ GadgetLog11(uu, u, cm_t) = ProverLog11(uu, u, cm_t)
         /\ VerifierLog20(uu, u, cm_t) = ProverLog20(uu, u, cm_t)
         /\ GadgetLog20(uu, u, cm_t) = ProverLog20(uu, u, cm_t)
BY DEF VerifierLog11, ProverLog11, GadgetLog11, VerifierLog20, ProverLog20, GadgetLog20,
       AbsorbRunningVar, AbsorbRunning, AbsorbIncomingVar, AbsorbIncoming

(***************************************************************************)
(* The inductive invariant: the kept pair consists of elements of the      *)
(* field, the transcripts are in sync, and the two properties hold.        *)
(***************************************************************************)
FoldInv ==
  /\ W \in RunningWitness /\ U \in RunningInstance
  /\ inSync = TRUE
  /\ HonestFoldsHold
  /\ VerifiersAgree

\* The dummy pair the user starts with satisfies the relation.
LEMMA DummyHolds ==
  DummyW \in RunningWitness /\ DummyU \in RunningInstance /\ DecideRunning(DummyW, DummyU)
<1>1. 0 \in F /\ 0 \in Int /\ 0 % P = 0
  BY PPositive, SMT DEF F
<1>2. ASSUME NEW m \in Matrices PROVE Row(m, 0, 0, 0) = 0
  <2>1. m[1] \in Int /\ m[2] \in Int /\ m[3] \in Int
    BY DEF Matrices
  <2> QED BY <2>1, SMT DEF Row
<1>3. Row(A, 0, 0, 0) = 0 /\ Row(B, 0, 0, 0) = 0 /\ Row(C, 0, 0, 0) = 0
  BY <1>2, KeyTypes
<1>4. EvalR1CS(0, 0, 0) = (0 * 0 - 0 * 0) % P
  BY <1>3 DEF EvalR1CS
<1>5. EvalR1CS(0, 0, 0) = 0
  BY <1>1, <1>4, SMT
<1>6. G * 0 + H * 0 = 0
  BY KeyTypes, SMT
<1>7. Commit(0, 0) = 0
  BY <1>1, <1>6 DEF Commit
<1>8. DummyW \in RunningWitness /\ DummyU \in RunningInstance
  BY <1>1 DEF DummyW, DummyU, RunningWitness, RunningInstance
<1> QED BY <1>5, <1>7, <1>8 DEF DecideRunning, Opens, DummyW, DummyU

LEMMA SampleIncomingTypes ==
  ASSUME NEW x \in F, NEW w \in F, NEW r_w \in F
  PROVE  LET s == SampleIncoming(x, w, r_w)
         IN  s.w \in IncomingWitness /\ s.u \in IncomingInstance
<1>1. Commit(w, r_w) \in F
  BY FieldInt, CommitType
<1> QED BY <1>1 DEF SampleIncoming, IncomingWitness, IncomingInstance

LEMMA FoldInvInit == Init => FoldInv
<1> SUFFICES ASSUME Init PROVE FoldInv
  OBVIOUS
<1> QED BY DummyHolds DEF Init, FoldInv, HonestFoldsHold, VerifiersAgree

LEMMA ResampleKeeps == FoldInv /\ Resample => FoldInv'
<1> SUFFICES ASSUME FoldInv, Resample PROVE FoldInv'
  OBVIOUS
<1>1. PICK u \in F, x \in F, w \in F, r_w \in Blinds, r_e \in Blinds :
        LET s == SampleRunning(u, x, w, r_w, r_e)
        IN  W' = s.W /\ U' = s.U /\ views' = {s.U}
  BY DEF Resample
<1>2. r_w \in F /\ r_e \in F
  BY KeyAssumption
<1>3. W' \in RunningWitness /\ U' \in RunningInstance /\ DecideRunning(W', U')
  BY <1>1, <1>2, SampleRunningExact
<1>4. views' = {U'} /\ inSync' = TRUE
  BY <1>1 DEF Resample, FoldInv
<1> QED BY <1>3, <1>4 DEF FoldInv, HonestFoldsHold, VerifiersAgree

\* A (1,1) fold moves to the folded pair, and the verifiers' instances are that of the prover.
LEMMA FoldIncomingStep ==
  ASSUME FoldInv, NEW x \in F, NEW w \in F, NEW rho \in F, NEW r_w \in Blinds, NEW r_t \in Blinds,
         FoldIncoming(x, w, rho, r_w, r_t)
  PROVE  LET in   == SampleIncoming(x, w, r_w)
             t    == Term11(W, U, in.w, in.u)
             cm_t == Commit(t, r_t)
         IN  /\ W' = ProveW11(W, in.w, t, r_t, rho)
             /\ U' = ProveU11(U, in.u, cm_t, rho)
             /\ views' = {U'} /\ inSync' = TRUE
             /\ honest' = (honest /\ DecideIncoming(in.w, in.u))
<1> DEFINE in   == SampleIncoming(x, w, r_w)
           t    == Term11(W, U, in.w, in.u)
           cm_t == Commit(t, r_t)
           log  == ProverLog11(U, in.u, cm_t)
           vok  == inSync /\ VerifierLog11(U, in.u, cm_t) = log
           gok  == inSync /\ GadgetLog11(U, in.u, cm_t) = log
<1>1. vok = TRUE /\ gok = TRUE
  BY SameLogs DEF FoldInv
<1>2. PICK rhoV \in Derived(rho, vok), rhoG \in Derived(rho, gok) :
        /\ W' = ProveW11(W, in.w, t, r_t, rho)
        /\ U' = ProveU11(U, in.u, cm_t, rho)
        /\ views' = {VerifyU11(U, in.u, cm_t, rhoV), GadgetU11(U, in.u, cm_t, rhoG)}
        /\ honest' = (honest /\ DecideIncoming(in.w, in.u))
        /\ inSync' = (vok /\ gok)
  BY DEF FoldIncoming
<1>3. rhoV = rho /\ rhoG = rho
  BY <1>1, <1>2 DEF Derived
<1> HIDE DEF vok, gok, log, cm_t, t, in
<1>4. views' = {U'}
  BY <1>2, <1>3, SameInstances
<1>5. inSync' = TRUE
  BY <1>1, <1>2
<1> QED BY <1>2, <1>4, <1>5 DEF cm_t, t, in

LEMMA FoldIncomingKeeps ==
  ASSUME FoldInv, NEW x \in F, NEW w \in F, NEW rho \in F, NEW r_w \in Blinds, NEW r_t \in Blinds,
         FoldIncoming(x, w, rho, r_w, r_t)
  PROVE  FoldInv'
<1> DEFINE in   == SampleIncoming(x, w, r_w)
           t    == Term11(W, U, in.w, in.u)
           cm_t == Commit(t, r_t)
<1>1. /\ W' = ProveW11(W, in.w, t, r_t, rho)
      /\ U' = ProveU11(U, in.u, cm_t, rho)
      /\ views' = {U'} /\ inSync' = TRUE
      /\ honest' = (honest /\ DecideIncoming(in.w, in.u))
  BY FoldIncomingStep
<1>2. r_w \in F /\ r_t \in F
  BY KeyAssumption
<1>3. in.w \in IncomingWitness /\ in.u \in IncomingInstance
  BY <1>2, SampleIncomingTypes
<1>4. W \in RunningWitness /\ U \in RunningInstance
  BY DEF FoldInv
<1>5. W' \in RunningWitness /\ U' \in RunningInstance
  BY <1>1, <1>2, <1>3, <1>4, Fold11
<1>6. ASSUME honest' PROVE DecideRunning(W', U')
  <2>1. DecideRunning(W, U) /\ DecideIncoming(in.w, in.u)
    BY <1>1, <1>6 DEF FoldInv, HonestFoldsHold
  <2> QED BY <1>1, <1>2, <1>3, <1>4, <2>1, Complete11
<1> QED BY <1>1, <1>5, <1>6 DEF FoldInv, HonestFoldsHold, VerifiersAgree

\* A (2,0) fold, likewise
LEMMA FoldRunningStep ==
  ASSUME FoldInv, NEW new, NEW keptFirst \in BOOLEAN, NEW rho \in F, NEW r_t \in Blinds,
         FoldRunning(new, keptFirst, rho, r_t)
  PROVE  LET p1   == Pairs(new, keptFirst)[1]
             p2   == Pairs(new, keptFirst)[2]
             t    == Term20(p1.W, p1.U, p2.W, p2.U)
             cm_t == Commit(t, r_t)
         IN  /\ W' = ProveW20(p1.W, p2.W, t, r_t, rho)
             /\ U' = ProveU20(p1.U, p2.U, cm_t, rho)
             /\ views' = {U'} /\ inSync' = TRUE
             /\ honest' = honest
<1> DEFINE p1   == Pairs(new, keptFirst)[1]
           p2   == Pairs(new, keptFirst)[2]
           t    == Term20(p1.W, p1.U, p2.W, p2.U)
           cm_t == Commit(t, r_t)
           log  == ProverLog20(p1.U, p2.U, cm_t)
           vok  == inSync /\ VerifierLog20(p1.U, p2.U, cm_t) = log
           gok  == inSync /\ GadgetLog20(p1.U, p2.U, cm_t) = log
<1>1. vok = TRUE /\ gok = TRUE
  BY SameLogs DEF FoldInv
<1>2. PICK rhoV \in Derived(rho, vok), rhoG \in Derived(rho, gok) :
        /\ W' = ProveW20(p1.W, p2.W, t, r_t, rho)
        /\ U' = ProveU20(p1.U, p2.U, cm_t, rho)
        /\ views' = {VerifyU20(p1.U, p2.U, cm_t, rhoV), GadgetU20(p1.U, p2.U, cm_t, rhoG)}
        /\ inSync' = (vok /\ gok)
  BY DEF FoldRunning
<1>3. rhoV = rho /\ rhoG = rho
  BY <1>1, <1>2 DEF Derived
<1>4. honest' = honest
  BY DEF FoldRunning
<1> HIDE DEF vok, gok, log, cm_t, t, p1, p2
<1>5. views' = {U'}
  BY <1>2, <1>3, SameInstances
<1>6. inSync' = TRUE
  BY <1>1, <1>2
<1> QED BY <1>2, <1>4, <1>5, <1>6 DEF cm_t, t, p1, p2

LEMMA FoldRunningKeeps ==
  ASSUME FoldInv, NEW new, new.W \in RunningWitness, new.U \in RunningInstance,
         DecideRunning(new.W, new.U), NEW keptFirst \in BOOLEAN, NEW rho \in F, NEW r_t \in Blinds,
         FoldRunning(new, keptFirst, rho, r_t)
  PROVE  FoldInv'
<1> DEFINE p1   == Pairs(new, keptFirst)[1]
           p2   == Pairs(new, keptFirst)[2]
           t    == Term20(p1.W, p1.U, p2.W, p2.U)
           cm_t == Commit(t, r_t)
<1>1. /\ W' = ProveW20(p1.W, p2.W, t, r_t, rho)
      /\ U' = ProveU20(p1.U, p2.U, cm_t, rho)
      /\ views' = {U'} /\ inSync' = TRUE
      /\ honest' = honest
  BY FoldRunningStep
<1>2. r_t \in F
  BY KeyAssumption
<1>3. W \in RunningWitness /\ U \in RunningInstance
  BY DEF FoldInv
<1>4. /\ p1.W \in RunningWitness /\ p1.U \in RunningInstance
      /\ p2.W \in RunningWitness /\ p2.U \in RunningInstance
      /\ honest => DecideRunning(p1.W, p1.U) /\ DecideRunning(p2.W, p2.U)
  <2>1. Kept.W = W /\ Kept.U = U
    BY DEF Kept
  <2>2. honest => DecideRunning(W, U)
    BY DEF FoldInv, HonestFoldsHold
  <2>3. CASE keptFirst
    <3>1. p1 = Kept /\ p2 = new
      BY <2>3 DEF Pairs
    <3> QED BY <1>3, <2>1, <2>2, <3>1
  <2>4. CASE ~keptFirst
    <3>1. p1 = new /\ p2 = Kept
      BY <2>4 DEF Pairs
    <3> QED BY <1>3, <2>1, <2>2, <3>1
  <2> QED BY <2>3, <2>4
<1> HIDE DEF p1, p2
<1>5. W' \in RunningWitness /\ U' \in RunningInstance
  BY <1>1, <1>2, <1>4, Fold20
<1>6. ASSUME honest' PROVE DecideRunning(W', U')
  BY <1>1, <1>2, <1>4, <1>6, Complete20
<1> QED BY <1>1, <1>5, <1>6 DEF FoldInv, HonestFoldsHold, VerifiersAgree

LEMMA FoldInvNext == FoldInv /\ [Next]_vars => FoldInv'
<1> SUFFICES ASSUME FoldInv, [Next]_vars PROVE FoldInv'
  OBVIOUS
<1>1. CASE Resample
  BY <1>1, ResampleKeeps
<1>2. CASE \E x, w, rho \in F, r_w, r_t \in Blinds : FoldIncoming(x, w, rho, r_w, r_t)
  BY <1>2, FoldIncomingKeeps
<1>3. CASE \E u, x, w, rho \in F, r_w, r_e, r_t \in Blinds, keptFirst \in BOOLEAN :
             FoldRunning(SampleRunning(u, x, w, r_w, r_e), keptFirst, rho, r_t)
  <2>1. PICK u \in F, x \in F, w \in F, rho \in F, r_w \in Blinds, r_e \in Blinds, r_t \in Blinds,
             keptFirst \in BOOLEAN :
               FoldRunning(SampleRunning(u, x, w, r_w, r_e), keptFirst, rho, r_t)
    BY <1>3
  <2> DEFINE new == SampleRunning(u, x, w, r_w, r_e)
  <2>2. r_w \in F /\ r_e \in F
    BY KeyAssumption
  <2>3. new.W \in RunningWitness /\ new.U \in RunningInstance /\ DecideRunning(new.W, new.U)
    BY <2>2, SampleRunningExact
  <2> QED BY <2>1, <2>3, FoldRunningKeeps
<1>4. CASE UNCHANGED vars
  BY <1>4 DEF vars, FoldInv, HonestFoldsHold, VerifiersAgree
<1> QED BY <1>1, <1>2, <1>3, <1>4 DEF Next

\* The pair a user keeps consists of field elements, at every moment.
THEOREM FoldInvHolds == Spec => []FoldInv
<1> QED BY FoldInvInit, FoldInvNext, PTL DEF Spec

\* Completeness of the folding scheme (decide_running after every prove): over any mix and
\* order of (1,1) and (2,0) folds, the running pair is satisfied and opens its commitments
\* as long as the assignments folded satisfied the R1CS.
THEOREM FoldsAreComplete == Spec => []HonestFoldsHold
<1>1. FoldInv => HonestFoldsHold
  BY DEF FoldInv
<1> QED BY <1>1, FoldInvHolds, PTL

\* verify and the gadget's verify arrive at the instance prove returned, whatever was folded
\* and however many rounds the three transcripts have been in use.
THEOREM VerifiersFollow == Spec => []VerifiersAgree
<1>1. FoldInv => VerifiersAgree
  BY DEF FoldInv
<1> QED BY <1>1, FoldInvHolds, PTL

-----------------------------------------------------------------------------
(***************************************************************************)
(* The CycleFold adapter folds as the scheme does                          *)
(***************************************************************************)
LEMMA AdapterSteps == [CFNext]_cfVars => [Next]_vars
<1> SUFFICES ASSUME [CFNext]_cfVars PROVE [Next]_vars
  OBVIOUS
<1>1. CASE CFResample
  BY <1>1 DEF CFResample, Next
<1>2. CASE \E x, w, rho \in F, r_w, r_t \in Blinds : CFFoldIncoming(x, w, rho, r_w, r_t)
  <2>1. PICK x \in F, w \in F, rho \in F, r_w \in Blinds, r_t \in Blinds :
          FoldIncoming(x, w, rho, r_w, r_t)
    BY <1>2 DEF CFFoldIncoming
  <2> QED BY <2>1 DEF Next
<1>3. CASE \E u, x, w, rho \in F, r_w, r_e, r_t \in Blinds, keptFirst \in BOOLEAN :
             CFFoldRunning(SampleRunning(u, x, w, r_w, r_e), keptFirst, rho, r_t)
  <2>1. PICK u \in F, x \in F, w \in F, rho \in F, r_w \in Blinds, r_e \in Blinds, r_t \in Blinds,
             keptFirst \in BOOLEAN :
               FoldRunning(SampleRunning(u, x, w, r_w, r_e), keptFirst, rho, r_t)
    BY <1>3 DEF CFFoldRunning
  <2> QED BY <2>1 DEF Next
<1>4. CASE UNCHANGED cfVars
  BY <1>4 DEF cfVars, vars
<1> QED BY <1>1, <1>2, <1>3, <1>4 DEF CFNext

\* Whoever folds through the adapter folds with the scheme.
THEOREM AdapterFolds == CFSpec => Spec
<1>1. CFInit => Init
  BY DEF CFInit
<1> QED BY <1>1, AdapterSteps, PTL DEF CFSpec, Spec

\* Folding through the adapter of cyclefold/adapters/nova.rs is as complete as the scheme.
THEOREM AdapterIsComplete == CFSpec => []HonestFoldsHold
BY AdapterFolds, FoldsAreComplete, PTL

\* The fold circuits that the adapter is run beside follow the prover, as they do without it.
THEOREM AdapterVerifiersFollow == CFSpec => []VerifiersAgree
BY AdapterFolds, VerifiersFollow, PTL

\* verify_point_rlc: a CycleFold circuit proves one sum of two points.
LEMMA ProvableExact ==
  ASSUME NEW rho \in F, NEW p0 \in F, NEW p1 \in F, NEW s
  PROVE  <<rho, p0, p1, s>> \in Provable <=> s = (p1 * rho + p0) % P
<1>1. ASSUME NEW r \in F, NEW a \in F, NEW b \in F
      PROVE  Public(Circuit(r, a, b)) = <<r, a, b, (b * r + a) % P>>
  BY DEF Public, Circuit
<1>2. ASSUME s = (p1 * rho + p0) % P PROVE <<rho, p0, p1, s>> \in Provable
  <2>1. <<rho, p0, p1, s>> = Public(Circuit(rho, p0, p1))
    BY <1>1, <1>2
  <2> QED BY <2>1 DEF Provable
<1>3. ASSUME <<rho, p0, p1, s>> \in Provable PROVE s = (p1 * rho + p0) % P
  <2>1. PICK r \in F, a \in F, b \in F : <<rho, p0, p1, s>> = Public(Circuit(r, a, b))
    BY <1>3 DEF Provable
  <2>2. <<rho, p0, p1, s>> = <<r, a, b, (b * r + a) % P>>
    BY <1>1, <2>1
  <2>3. rho = r /\ p0 = a /\ p1 = b /\ s = (b * r + a) % P
    BY <2>2, Zenon
  <2> QED BY <2>3
<1> QED BY <1>2, <1>3

\* The two circuits of a (1,1) fold pin the hinted commitments down to the folded ones.
LEMMA Pinned11 ==
  ASSUME NEW uu \in RunningInstance, NEW u \in IncomingInstance,
         NEW cm_t \in F, NEW rho \in F
  PROVE  LET nu == ProveU11(uu, u, cm_t, rho)
         IN  /\ Publics(Circuits11(uu, u, cm_t, rho)) = Inputs11(uu, u, nu, cm_t, rho)
             /\ {h \in Hints : AllProvable(Inputs11(uu, u, h, cm_t, rho))}
                  = {[cm_e |-> nu.cm_e, cm_w |-> nu.cm_w]}
<1> DEFINE nu == ProveU11(uu, u, cm_t, rho)
           a  == (cm_t * rho + uu.cm_e) % P
           b  == (u.cm_w * rho + uu.cm_w) % P
<1>1. uu.cm_e \in F /\ uu.cm_w \in F /\ u.cm_w \in F
  BY DEF RunningInstance, IncomingInstance
<1>2. /\ uu.cm_e \in Int /\ uu.cm_w \in Int /\ u.cm_w \in Int /\ cm_t \in Int /\ rho \in Int
  BY <1>1, FieldInt
<1>3. a \in F /\ b \in F
  <2>1. cm_t * rho + uu.cm_e \in Int /\ u.cm_w * rho + uu.cm_w \in Int
    BY <1>2, SMT
  <2> QED BY <2>1, Residue
<1>4. nu.cm_e = a /\ nu.cm_w = b
  <2>1. /\ cm_t * rho + uu.cm_e = uu.cm_e + cm_t * rho
        /\ u.cm_w * rho + uu.cm_w = uu.cm_w + u.cm_w * rho
    BY <1>2, SMT
  <2> QED BY <2>1 DEF ProveU11
<1>5. Publics(Circuits11(uu, u, cm_t, rho)) =
        <<<<rho, uu.cm_e, cm_t, a>>, <<rho, uu.cm_w, u.cm_w, b>>>>
  BY DEF Publics, Circuits11, Circuit, Public
<1> HIDE DEF nu, a, b
<1>6. Publics(Circuits11(uu, u, cm_t, rho)) = Inputs11(uu, u, nu, cm_t, rho)
  BY <1>4, <1>5 DEF Inputs11
<1>7. ASSUME NEW h
      PROVE  AllProvable(Inputs11(uu, u, h, cm_t, rho)) <=>
               /\ <<rho, uu.cm_e, cm_t, h.cm_e>> \in Provable
               /\ <<rho, uu.cm_w, u.cm_w, h.cm_w>> \in Provable
  BY DEF AllProvable, Inputs11
<1>8. ASSUME NEW h
      PROVE  AllProvable(Inputs11(uu, u, h, cm_t, rho)) <=> h.cm_e = a /\ h.cm_w = b
  BY <1>1, <1>7, ProvableExact DEF a, b
<1>9. {h \in Hints : AllProvable(Inputs11(uu, u, h, cm_t, rho))} = {[cm_e |-> a, cm_w |-> b]}
  BY <1>3, <1>8 DEF Hints
<1> QED BY <1>4, <1>6, <1>9 DEF nu

\* The three circuits of a (2,0) fold do too, though the point between the first two is
\* hinted as well.
LEMMA Pinned20 ==
  ASSUME NEW u1 \in RunningInstance, NEW u2 \in RunningInstance,
         NEW cm_t \in F, NEW rho \in F
  PROVE  LET nu  == ProveU20(u1, u2, cm_t, rho)
             tmp == Between20(u2, cm_t, rho)
         IN  /\ Publics(Circuits20(u1, u2, cm_t, rho)) = Inputs20(u1, u2, nu, cm_t, tmp, rho)
             /\ {h \in Hints : \E cm_tmp \in F :
                   AllProvable(Inputs20(u1, u2, h, cm_t, cm_tmp, rho))}
                  = {[cm_e |-> nu.cm_e, cm_w |-> nu.cm_w]}
<1> DEFINE nu  == ProveU20(u1, u2, cm_t, rho)
           tmp == Between20(u2, cm_t, rho)
           a   == (tmp * rho + u1.cm_e) % P
           b   == (u2.cm_w * rho + u1.cm_w) % P
<1>1. u1.cm_e \in F /\ u1.cm_w \in F /\ u2.cm_e \in F /\ u2.cm_w \in F
  BY DEF RunningInstance
<1>2. /\ u1.cm_e \in Int /\ u1.cm_w \in Int /\ u2.cm_e \in Int /\ u2.cm_w \in Int
      /\ cm_t \in Int /\ rho \in Int
  BY <1>1, FieldInt
<1>3. tmp = (u2.cm_e * rho + cm_t) % P
  BY DEF Between20
<1>4. tmp \in F /\ tmp \in Int /\ Cong(tmp, u2.cm_e * rho + cm_t)
  <2>1. u2.cm_e * rho + cm_t \in Int
    BY <1>2, SMT
  <2> QED BY <1>3, <2>1, Residue
<1>5. Publics(Circuits20(u1, u2, cm_t, rho)) =
        <<<<rho, cm_t, u2.cm_e, (u2.cm_e * rho + cm_t) % P>>,
          <<rho, u1.cm_e, tmp, a>>, <<rho, u1.cm_w, u2.cm_w, b>>>>
  BY DEF Publics, Circuits20, Circuit, Public
<1> HIDE DEF tmp
<1>6. a \in F /\ b \in F
  <2>1. tmp * rho + u1.cm_e \in Int /\ u2.cm_w * rho + u1.cm_w \in Int
    BY <1>2, <1>4, SMT
  <2> QED BY <2>1, Residue
<1>7. nu.cm_e = a /\ nu.cm_w = b
  <2>1. u2.cm_w * rho + u1.cm_w = u1.cm_w + u2.cm_w * rho
    BY <1>2, SMT
  <2> DEFINE c == u2.cm_e * rho + cm_t
             d == u1.cm_e + cm_t * rho + u2.cm_e * rho * rho
  <2>2. c \in Int /\ d \in Int /\ d = c * rho + u1.cm_e
    BY <1>2, SMT
  <2>3. Cong(tmp, c)
    BY <1>4
  <2>4. nu.cm_e = d % P
    BY DEF ProveU20
  <2> HIDE DEF c, d
  <2>5. /\ tmp * rho \in Int /\ c * rho \in Int
        /\ tmp * rho + u1.cm_e \in Int /\ c * rho + u1.cm_e \in Int
    BY <1>2, <1>4, <2>2, SMT
  <2>6. Cong(tmp * rho, c * rho)
    BY <1>2, <1>4, <2>2, <2>3, CongReflexive, CongProduct
  <2>7. Cong(tmp * rho + u1.cm_e, c * rho + u1.cm_e)
    BY <1>2, <2>5, <2>6, CongReflexive, CongSum
  <2>8. (tmp * rho + u1.cm_e) % P = (c * rho + u1.cm_e) % P
    BY <2>5, <2>7, CongResidues
  <2> QED BY <2>1, <2>2, <2>4, <2>8 DEF ProveU20
<1> HIDE DEF nu, a, b
<1>8. Publics(Circuits20(u1, u2, cm_t, rho)) = Inputs20(u1, u2, nu, cm_t, tmp, rho)
  BY <1>3, <1>5, <1>7 DEF Inputs20
<1>9. ASSUME NEW h, NEW cm_tmp \in F
      PROVE  AllProvable(Inputs20(u1, u2, h, cm_t, cm_tmp, rho)) <=>
               /\ <<rho, cm_t, u2.cm_e, cm_tmp>> \in Provable
               /\ <<rho, u1.cm_e, cm_tmp, h.cm_e>> \in Provable
               /\ <<rho, u1.cm_w, u2.cm_w, h.cm_w>> \in Provable
  BY DEF AllProvable, Inputs20
<1>10. ASSUME NEW h
       PROVE  (\E cm_tmp \in F : AllProvable(Inputs20(u1, u2, h, cm_t, cm_tmp, rho)))
                <=> h.cm_e = a /\ h.cm_w = b
  <2>1. ASSUME NEW cm_tmp \in F
        PROVE  AllProvable(Inputs20(u1, u2, h, cm_t, cm_tmp, rho)) <=>
                 cm_tmp = tmp /\ h.cm_e = (cm_tmp * rho + u1.cm_e) % P /\ h.cm_w = b
    BY <1>1, <1>3, <1>9, ProvableExact DEF b
  <2> QED BY <1>4, <2>1 DEF a
<1>11. {h \in Hints : \E cm_tmp \in F : AllProvable(Inputs20(u1, u2, h, cm_t, cm_tmp, rho))}
         = {[cm_e |-> a, cm_w |-> b]}
  BY <1>6, <1>10 DEF Hints
<1> QED BY <1>7, <1>8, <1>11 DEF nu, tmp

LEMMA DelegationInit == CFInit => DelegationExact
BY DEF CFInit, DelegationExact

LEMMA DelegationNext == FoldInv /\ DelegationExact /\ [CFNext]_cfVars => DelegationExact'
<1> SUFFICES ASSUME FoldInv, DelegationExact, [CFNext]_cfVars PROVE DelegationExact'
  OBVIOUS
<1>1. CASE CFResample
  BY <1>1 DEF CFResample, DelegationExact
<1>2. ASSUME NEW x \in F, NEW w \in F, NEW rho \in F, NEW r_w \in Blinds, NEW r_t \in Blinds,
             CFFoldIncoming(x, w, rho, r_w, r_t)
      PROVE  DelegationExact'
  <2> DEFINE in   == SampleIncoming(x, w, r_w)
             t    == Term11(W, U, in.w, in.u)
             cm_t == Commit(t, r_t)
  <2>1. /\ pinned' = {h \in Hints : AllProvable(Inputs11(U, in.u, h, cm_t, rho))}
        /\ matched' = (Publics(Circuits11(U, in.u, cm_t, rho)) = Inputs11(U, in.u, U', cm_t, rho))
    BY <1>2 DEF CFFoldIncoming
  <2>2. U' = ProveU11(U, in.u, cm_t, rho)
    BY <1>2, FoldIncomingStep DEF CFFoldIncoming
  <2>3. r_w \in F /\ r_t \in F
    BY KeyAssumption
  <2>4. in.w \in IncomingWitness /\ in.u \in IncomingInstance
    BY <2>3, SampleIncomingTypes
  <2>5. W \in RunningWitness /\ U \in RunningInstance
    BY DEF FoldInv
  <2>6. cm_t \in F
    BY <2>3, <2>4, <2>5, Fold11, <1>2
  <2> DEFINE uu == U
             u  == in.u
  <2>7. uu \in RunningInstance /\ u \in IncomingInstance
    BY <2>4, <2>5
  <2>8. /\ pinned' = {h \in Hints : AllProvable(Inputs11(uu, u, h, cm_t, rho))}
        /\ matched' = (Publics(Circuits11(uu, u, cm_t, rho)) = Inputs11(uu, u, U', cm_t, rho))
        /\ U' = ProveU11(uu, u, cm_t, rho)
    BY <2>1, <2>2
  <2> HIDE DEF in, t, cm_t, uu, u
  <2> DEFINE nu == ProveU11(uu, u, cm_t, rho)
  <2>9. /\ Publics(Circuits11(uu, u, cm_t, rho)) = Inputs11(uu, u, nu, cm_t, rho)
        /\ {h \in Hints : AllProvable(Inputs11(uu, u, h, cm_t, rho))}
             = {[cm_e |-> nu.cm_e, cm_w |-> nu.cm_w]}
    BY <2>6, <2>7, Pinned11
  <2>10. U' = nu
    BY <2>8
  <2> HIDE DEF nu
  <2>11. matched' /\ pinned' = {[cm_e |-> U'.cm_e, cm_w |-> U'.cm_w]}
    BY <2>8, <2>9, <2>10, Zenon
  <2> QED BY <2>11 DEF DelegationExact
<1>3. ASSUME NEW u \in F, NEW x \in F, NEW w \in F, NEW rho \in F, NEW r_w \in Blinds,
             NEW r_e \in Blinds, NEW r_t \in Blinds, NEW keptFirst \in BOOLEAN,
             CFFoldRunning(SampleRunning(u, x, w, r_w, r_e), keptFirst, rho, r_t)
      PROVE  DelegationExact'
  <2> DEFINE new  == SampleRunning(u, x, w, r_w, r_e)
             p1   == Pairs(new, keptFirst)[1]
             p2   == Pairs(new, keptFirst)[2]
             cm_t == Commit(Term20(p1.W, p1.U, p2.W, p2.U), r_t)
             tmp  == Between20(p2.U, cm_t, rho)
  <2>1. /\ pinned' = {h \in Hints : \E cm_tmp \in F :
                        AllProvable(Inputs20(p1.U, p2.U, h, cm_t, cm_tmp, rho))}
        /\ matched' = (Publics(Circuits20(p1.U, p2.U, cm_t, rho))
                         = Inputs20(p1.U, p2.U, U', cm_t, tmp, rho))
    BY <1>3 DEF CFFoldRunning
  <2>2. U' = ProveU20(p1.U, p2.U, cm_t, rho)
    BY <1>3, FoldRunningStep DEF CFFoldRunning
  <2>3. r_w \in F /\ r_e \in F /\ r_t \in F
    BY KeyAssumption
  <2>4. new.W \in RunningWitness /\ new.U \in RunningInstance
    BY <2>3, SampleRunningExact
  <2>5. W \in RunningWitness /\ U \in RunningInstance
    BY DEF FoldInv
  <2>6. /\ p1.W \in RunningWitness /\ p1.U \in RunningInstance
        /\ p2.W \in RunningWitness /\ p2.U \in RunningInstance
    BY <2>4, <2>5 DEF Pairs, Kept
  <2>7. cm_t \in F
    BY <2>3, <2>6, <1>3, Fold20
  <2> DEFINE u1 == p1.U
             u2 == p2.U
  <2>8. /\ pinned' = {h \in Hints : \E cm_tmp \in F :
                        AllProvable(Inputs20(u1, u2, h, cm_t, cm_tmp, rho))}
        /\ matched' = (Publics(Circuits20(u1, u2, cm_t, rho))
                         = Inputs20(u1, u2, U', cm_t, Between20(u2, cm_t, rho), rho))
        /\ U' = ProveU20(u1, u2, cm_t, rho)
    BY <2>1, <2>2
  <2>9. u1 \in RunningInstance /\ u2 \in RunningInstance
    BY <2>6
  <2> HIDE DEF new, p1, p2, cm_t, u1, u2
  <2> DEFINE nu  == ProveU20(u1, u2, cm_t, rho)
             mid == Between20(u2, cm_t, rho)
  <2>10. /\ Publics(Circuits20(u1, u2, cm_t, rho)) = Inputs20(u1, u2, nu, cm_t, mid, rho)
         /\ {h \in Hints : \E cm_tmp \in F : AllProvable(Inputs20(u1, u2, h, cm_t, cm_tmp, rho))}
              = {[cm_e |-> nu.cm_e, cm_w |-> nu.cm_w]}
    BY <2>7, <2>9, Pinned20
  <2>11. /\ matched' = (Publics(Circuits20(u1, u2, cm_t, rho))
                          = Inputs20(u1, u2, U', cm_t, mid, rho))
         /\ U' = nu
    BY <2>8
  <2> HIDE DEF nu, mid
  <2>12. matched' /\ pinned' = {[cm_e |-> U'.cm_e, cm_w |-> U'.cm_w]}
    BY <2>8, <2>10, <2>11, Zenon
  <2> QED BY <2>12 DEF DelegationExact
<1>4. CASE UNCHANGED cfVars
  BY <1>4 DEF cfVars, DelegationExact
<1>5. CASE \E x, w, rho \in F, r_w, r_t \in Blinds : CFFoldIncoming(x, w, rho, r_w, r_t)
  BY <1>2, <1>5
<1>6. CASE \E u, x, w, rho \in F, r_w, r_e, r_t \in Blinds, keptFirst \in BOOLEAN :
             CFFoldRunning(SampleRunning(u, x, w, r_w, r_e), keptFirst, rho, r_t)
  BY <1>3, <1>6
<1> QED BY <1>1, <1>4, <1>5, <1>6 DEF CFNext

\* The CycleFold circuits the adapter proves are those the augmented circuit asks for, and
\* their public inputs leave the prover no other folded commitments to hint.
THEOREM DelegationIsExact == CFSpec => []DelegationExact
<1>1. CFSpec => []FoldInv
  BY AdapterFolds, FoldInvHolds, PTL
<1> QED BY <1>1, DelegationInit, DelegationNext, PTL DEF CFSpec

-----------------------------------------------------------------------------
(***************************************************************************)
(* Soundness of a (1,1) fold.  A fold of pairs that are off by y and z is  *)
(* off by (1 - rho) (y - rho z): the field being prime, that vanishes for  *)
(* rho = 1 and for at most one other challenge, unless y and z both do.    *)
(***************************************************************************)
LEMMA NoZeroDivisors ==
  ASSUME NEW a \in Int, NEW b \in Int, Cong(a * b, 0)
  PROVE  Cong(a, 0) \/ Cong(b, 0)
<1> DEFINE x == a % P
           y == b % P
<1>1. x \in F /\ x \in Int /\ Cong(x, a) /\ y \in F /\ y \in Int /\ Cong(y, b)
  BY Residue
<1> HIDE DEF x, y
<1>2. x * y \in Int /\ a * b \in Int /\ 0 \in Int /\ 0 % P = 0
  BY <1>1, PPositive, SMT
<1>3. Cong(x * y, a * b)
  BY <1>1, CongProduct
<1>4. Cong(x * y, 0)
  BY <1>2, <1>3, CongTransitive
<1>5. (x * y) % P = 0
  BY <1>2, <1>4, CongResidues
<1>6. x = 0 \/ y = 0
  <2>1. SUFFICES ASSUME x # 0, y # 0 PROVE FALSE
    OBVIOUS
  <2>2. x \in 1 .. P - 1 /\ y \in 1 .. P - 1
    BY <1>1, <2>1, PPositive, SMT DEF F
  <2> QED BY <1>5, <2>2, FieldAssumption, Zenon
<1>7. Cong(a, x) /\ Cong(b, y)
  BY <1>1, CongSymmetric
<1> QED BY <1>6, <1>7

\* A product of elements of the field times an element that is not 0 determines the element.
LEMMA Determined ==
  ASSUME NEW a \in Int, NEW b \in Int, NEW q \in F, NEW s \in F, ~Cong(b, 0),
         Cong(a + q * b, 0), Cong(a + s * b, 0)
  PROVE  q = s
<1>1. q \in Int /\ s \in Int /\ 0 \in Int
  BY FieldInt
<1>2. /\ q * b \in Int /\ s * b \in Int /\ a + q * b \in Int /\ a + s * b \in Int
      /\ (a + q * b) - (a + s * b) = (q - s) * b /\ 0 - 0 = 0 /\ q - s \in Int
  BY <1>1, SMT
<1>3. Cong((a + q * b) - (a + s * b), 0 - 0)
  BY <1>1, <1>2, CongSum
<1>4. Cong((q - s) * b, 0)
  BY <1>2, <1>3, Zenon
<1>5. Cong(q - s, 0)
  BY <1>2, <1>4, NoZeroDivisors
<1>6. Cong(q, s)
  BY <1>1, <1>5, CongDifference
<1> QED BY <1>6, CongElements

\* The error of the folded relation, as a product
LEMMA ExcessProduct ==
  ASSUME NEW y \in Int, NEW z \in Int, NEW q \in F, q # 1,
         Cong(y + q * q * z - q * (y + z), 0)
  PROVE  Cong(y + q * (-z), 0)
<1>1. q \in Int /\ 1 \in Int /\ 1 \in F /\ 1 - q \in Int /\ y + q * (-z) \in Int
  BY FieldInt, PPositive, SMT DEF F
<1>2. y + q * q * z - q * (y + z) = (1 - q) * (y + q * (-z))
  BY <1>1, SMT
<1>3. Cong((1 - q) * (y + q * (-z)), 0)
  BY <1>2
<1>4. ~Cong(1 - q, 0)
  <2>1. SUFFICES ASSUME Cong(1 - q, 0) PROVE FALSE
    OBVIOUS
  <2>2. Cong(1, q)
    BY <1>1, <2>1, CongDifference
  <2> QED BY <1>1, <2>2, CongElements
<1> HIDE DEF Cong
<1> QED BY <1>1, <1>3, <1>4, NoZeroDivisors

LEMMA AtMostTwo ==
  ASSUME NEW S, NEW c, \A q, s \in S : q # c /\ s # c => q = s
  PROVE  Cardinality(S) <= 2
<1>1. PICK d : S \subseteq {c, d}
  <2>1. CASE \E q \in S : q # c
    <3>1. PICK q \in S : q # c
      BY <2>1
    <3>2. S \subseteq {c, q}
      BY <3>1
    <3> QED BY <3>2
  <2>2. CASE ~\E q \in S : q # c
    <3>1. S \subseteq {c, c}
      BY <2>2
    <3> QED BY <3>1
  <2> QED BY <2>1, <2>2
<1>2. IsFiniteSet({c}) /\ Cardinality({c}) = 1
  BY FS_Singleton
<1> DEFINE D == {c} \cup {d}
<1>3. IsFiniteSet(D) /\ Cardinality(D) = IF d \in {c} THEN 1 ELSE 1 + 1
  BY <1>2, FS_AddElement
<1>4. S \in SUBSET D
  BY <1>1
<1> HIDE DEF D
<1>5. IsFiniteSet(S) /\ Cardinality(S) <= Cardinality(D)
  BY <1>3, <1>4, FS_Subset
<1>6. Cardinality(S) \in Nat /\ Cardinality(D) \in Nat
  BY <1>3, <1>5, FS_CardinalityType
<1>7. Cardinality(D) <= 2
  BY <1>3, SMT
<1> QED BY <1>5, <1>6, <1>7, SMT

\* What decide_running of a (1,1) fold requires of the pairs that were folded
LEMMA AcceptedFold ==
  ASSUME NEW ww \in RunningWitness, NEW uu \in RunningInstance,
         NEW w \in IncomingWitness, NEW u \in IncomingInstance, NEW rho \in F, NEW r_t \in F,
         LET t == Term11(ww, uu, w, u)
         IN  DecideRunning(ProveW11(ww, w, t, r_t, rho), ProveU11(uu, u, Commit(t, r_t), rho))
  PROVE  LET y == Off(ww, uu)
             z == Relation(1, u.x, w.w)
         IN  /\ Cong(y + rho * rho * z - rho * (y + z), 0)
             /\ Cong(OffW(ww, uu) + rho * Gap(w.w, w.r_w, u.cm_w), 0)
             /\ Cong(OffE(ww, uu), 0)
<1> DEFINE t  == Term11(ww, uu, w, u)
           nw == ProveW11(ww, w, t, r_t, rho)
           nu == ProveU11(uu, u, Commit(t, r_t), rho)
           y  == Off(ww, uu)          z == Relation(1, u.x, w.w)
           a  == OffW(ww, uu)         b == Gap(w.w, w.r_w, u.cm_w)
           c  == OffE(ww, uu)
           f  == y + rho * rho * z - rho * (y + z)
           g  == a + rho * b
<1>1. /\ nw \in RunningWitness /\ nu \in RunningInstance
      /\ Cong(Off(nw, nu), f) /\ Cong(OffW(nw, nu), g) /\ Cong(OffE(nw, nu), c)
  BY Fold11
<1>2. DecideRunning(nw, nu)
  OBVIOUS
<1> HIDE DEF t, nw, nu
<1>3. Off(nw, nu) \in Int /\ OffW(nw, nu) \in Int /\ OffE(nw, nu) \in Int
  BY <1>1, RunningOffTypes
<1>4. Cong(Off(nw, nu), 0) /\ Cong(OffW(nw, nu), 0) /\ Cong(OffE(nw, nu), 0)
  BY <1>1, <1>2, DecideRunningExact
<1>5. f \in Int /\ g \in Int /\ c \in Int /\ 0 \in Int
  <2>1. y \in Int /\ a \in Int /\ c \in Int
    BY RunningOffTypes
  <2>2. z \in Int /\ b \in Int
    BY DecideIncomingExact
  <2>3. rho \in Int
    BY FieldInt
  <2> HIDE DEF y, z, a, b, c
  <2> QED BY <2>1, <2>2, <2>3, SMT
<1> HIDE DEF f, g, c
<1>6. Cong(f, Off(nw, nu)) /\ Cong(g, OffW(nw, nu)) /\ Cong(c, OffE(nw, nu))
  BY <1>1, <1>3, <1>5, CongSymmetric
<1>7. Cong(f, 0) /\ Cong(g, 0) /\ Cong(c, 0)
  BY <1>3, <1>4, <1>5, <1>6, CongTransitive
<1> QED BY <1>7 DEF f, g, c

\* Two challenges other than 1 at which a fold with a bad side is accepted are the same.
LEMMA SoundFold ==
  ASSUME NEW ww \in RunningWitness, NEW uu \in RunningInstance,
         NEW w \in IncomingWitness, NEW u \in IncomingInstance, NEW r_t \in F,
         ~(DecideRunning(ww, uu) /\ DecideIncoming(w, u))
  PROVE  LET t == Term11(ww, uu, w, u)
             S == {rho \in F : DecideRunning(ProveW11(ww, w, t, r_t, rho),
                                             ProveU11(uu, u, Commit(t, r_t), rho))}
         IN  \A q, s \in S : q # 1 /\ s # 1 => q = s
<1> DEFINE t == Term11(ww, uu, w, u)
           S == {rho \in F : DecideRunning(ProveW11(ww, w, t, r_t, rho),
                                           ProveU11(uu, u, Commit(t, r_t), rho))}
           y == Off(ww, uu)          z == Relation(1, u.x, w.w)
           a == OffW(ww, uu)         b == Gap(w.w, w.r_w, u.cm_w)
           c == OffE(ww, uu)
<1>1. ASSUME NEW q \in S
      PROVE  /\ q \in F
             /\ Cong(y + q * q * z - q * (y + z), 0)
             /\ Cong(a + q * b, 0)
             /\ Cong(c, 0)
  BY AcceptedFold
<1>2. DecideRunning(ww, uu) <=> Cong(y, 0) /\ Cong(a, 0) /\ Cong(c, 0)
  BY DecideRunningExact
<1>3. DecideIncoming(w, u) <=> Cong(z, 0) /\ Cong(b, 0)
  BY DecideIncomingExact
<1>4. y \in Int /\ a \in Int /\ c \in Int /\ z \in Int /\ b \in Int /\ -z \in Int
  <2>1. y \in Int /\ a \in Int /\ c \in Int
    BY RunningOffTypes
  <2>2. z \in Int /\ b \in Int
    BY DecideIncomingExact
  <2> QED BY <2>1, <2>2, SMT
<1> HIDE DEF y, z, a, b, c, S
<1>5. ASSUME NEW q \in S, NEW s \in S, q # 1, s # 1 PROVE q = s
  <2>1. q \in F /\ s \in F /\ Cong(a + q * b, 0) /\ Cong(a + s * b, 0) /\ Cong(c, 0)
    BY <1>1
  <2>2. Cong(y + q * (-z), 0) /\ Cong(y + s * (-z), 0)
    BY <1>1, <1>4, <1>5, ExcessProduct
  <2>3. ASSUME NEW v \in Int, NEW d \in Int, Cong(d, 0), Cong(v + q * d, 0) PROVE Cong(v, 0)
    <3>1. q \in Int /\ 0 \in Int /\ q * d \in Int /\ q * 0 \in Int /\ v + q * 0 = v
          /\ v + q * d \in Int
      BY <2>1, FieldInt, SMT
    <3>2. Cong(q * d, q * 0)
      BY <2>3, <3>1, CongReflexive, CongProduct
    <3>3. Cong(v + q * d, v + q * 0)
      BY <2>3, <3>1, <3>2, CongReflexive, CongSum
    <3>4. Cong(v, v + q * d)
      BY <3>1, <3>3, CongSymmetric
    <3> QED BY <2>3, <3>1, <3>4, CongTransitive
  <2>4. CASE ~Cong(b, 0)
    BY <1>4, <2>1, <2>4, Determined
  <2>5. CASE ~Cong(-z, 0)
    BY <1>4, <2>1, <2>2, <2>5, Determined
  <2>6. CASE Cong(b, 0) /\ Cong(-z, 0)
    <3>1. Cong(a, 0) /\ Cong(y, 0)
      BY <1>4, <2>1, <2>2, <2>3, <2>6
    <3>2. Cong(z, 0)
      <4>1. PICK k \in Int : -z = 0 + P * k
        BY <2>6 DEF Cong
      <4>2. z = 0 + P * (-k) /\ -k \in Int
        BY <1>4, <4>1, PPositive, SMT
      <4> QED BY <4>2 DEF Cong
    <3> QED BY <1>2, <1>3, <2>1, <2>6, <3>1, <3>2
  <2> QED BY <2>4, <2>5, <2>6
<1> QED BY <1>5 DEF S

\* The soundness error quoted for Nova (nova/mod.rs): a fold of an unsatisfied running pair,
\* of an unsatisfied assignment or of a commitment that does not open passes decide_running
\* for at most two challenges - in any state that folds lead to.
THEOREM FoldsAreSound == Spec => []FoldSoundness
<1>1. FoldInv => FoldSoundness
  <2> SUFFICES ASSUME FoldInv, NEW x \in F, NEW w1 \in F, NEW w2 \in F
               PROVE  LET w    == SampleIncoming(x, w1, 0).w
                          u    == SampleIncoming(x, w2, 0).u
                          t    == Term11(W, U, w, u)
                          cm_t == Commit(t, 0)
                      IN  ~(DecideRunning(W, U) /\ DecideIncoming(w, u)) =>
                            Cardinality({rho \in F :
                              DecideRunning(ProveW11(W, w, t, 0, rho),
                                            ProveU11(U, u, cm_t, rho))}) <= 2
    BY DEF FoldSoundness
  <2> DEFINE w == SampleIncoming(x, w1, 0).w
             u == SampleIncoming(x, w2, 0).u
             t == Term11(W, U, w, u)
             S == {rho \in F : DecideRunning(ProveW11(W, w, t, 0, rho),
                                             ProveU11(U, u, Commit(t, 0), rho))}
  <2>1. 0 \in F
    BY PPositive, SMT DEF F
  <2>2. w \in IncomingWitness /\ u \in IncomingInstance
    BY <2>1, SampleIncomingTypes
  <2>3. W \in RunningWitness /\ U \in RunningInstance
    BY DEF FoldInv
  <2> HIDE DEF w, u
  <2>4. ASSUME ~(DecideRunning(W, U) /\ DecideIncoming(w, u)) PROVE Cardinality(S) <= 2
    <3>1. \A q, s \in S : q # 1 /\ s # 1 => q = s
      BY <2>1, <2>2, <2>3, <2>4, SoundFold
    <3> HIDE DEF S
    <3> QED BY <3>1, AtMostTwo
  <2> QED BY <2>4 DEF w, u
<1> QED BY <1>1, FoldInvHolds, PTL
=============================================================================
