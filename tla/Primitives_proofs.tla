--------------------------- MODULE Primitives_proofs ---------------------------
(***************************************************************************)
(* Proofs about the primitives that share no state: R1CS structures,       *)
(* Pedersen commitments, curve points and the Griffin permutation, for     *)
(* structures, circuits, assignments, keys, scalars, fields, curves,       *)
(* widths and rounds of every size.                                        *)
(*                                                                         *)
(* The evaluation of a sound structure indexes nothing out of range, code  *)
(* and gadget evaluate alike, and what is extracted from a circuit is      *)
(* satisfied exactly if the circuit is.  That rests on one invariant: a    *)
(* structure that was validated, or extracted, is sound, because the       *)
(* constraints of a circuit only mention variables it has allocated.       *)
(*                                                                         *)
(* A loop is modelled by a recursive function.  What it computes is proved *)
(* by the least number at which it would not: sums of rows, and scalars    *)
(* that are put together of their bits.                                    *)
(*                                                                         *)
(* A root that a prover supplies to the Griffin gadget is the one that the *)
(* code computes, for by Fermat's little theorem an element is known by    *)
(* its power.  That theorem is proved by counting: an element divides what *)
(* is not zero into orbits of one size.  Each layer of the permutation     *)
(* tells its state, and so does the permutation.                           *)
(***************************************************************************)
EXTENDS Griffin, R1CS, Pedersen, Points, TLAPS, FiniteSetTheorems, WellFoundedInduction

-----------------------------------------------------------------------------
(***************************************************************************)
(* Numbers                                                                 *)
(***************************************************************************)
\* Every nonempty set of numbers has a least one.
LEMMA Least ==
  ASSUME NEW T \in SUBSET Nat, NEW t \in T
  PROVE  \E n \in T : \A m \in T : n <= m
<1> DEFINE R == OpToRel(<, Nat)
<1>1. IsWellFoundedOn(R, Nat)
  BY NatLessThanWellFounded
<1>2. \A x, y \in Nat : x < y => <<x, y>> \in R
  BY DEF OpToRel
<1> HIDE DEF R
<1>3. PICK x \in T : \A y \in T : ~(<<y, x>> \in R)
  BY <1>1, WFMin
<1>4. \A y \in T : ~(y < x)
  BY <1>2, <1>3, Zenon
<1>5. \A y \in T : x <= y
  BY <1>4, SMT
<1> QED BY <1>5

\* A set of numbers that holds 0 and, with a number, the next one up to n, holds those up to n.
LEMMA UpTo ==
  ASSUME NEW n \in Nat, NEW T, 0 \in T, \A k \in 1 .. n : k - 1 \in T => k \in T
  PROVE  0 .. n \subseteq T
<1> SUFFICES ASSUME NEW t \in 0 .. n, t \notin T PROVE FALSE
  OBVIOUS
<1> DEFINE U == (0 .. n) \ T
<1>1. U \in SUBSET Nat /\ t \in U
  OBVIOUS
<1>2. PICK k \in U : \A m \in U : k <= m
  BY <1>1, Least
<1>3. k \in 1 .. n /\ k - 1 \in 0 .. n /\ ~(k <= k - 1)
  BY <1>2
<1>4. k - 1 \in T
  BY <1>2, <1>3
<1> QED BY <1>2, <1>3, <1>4

\* A function with values in V is defined by recursion over an interval.
Recursive(n, V, step, a) ==
  \E f \in [0 .. n -> V] : f[0] = a /\ \A k \in 1 .. n : f[k] = step[k][f[k - 1]]

\* Functions from a value to the next, one for each number
StepFunctions(n, V) == [1 .. n -> [V -> V]]

\* It exists.
LEMMA RecursionIn ==
  ASSUME NEW n \in Nat, NEW V, NEW step \in StepFunctions(n, V), NEW a \in V
  PROVE  Recursive(n, V, step, a)
<1> USE DEF StepFunctions
<1> DEFINE Good(m, f) == f[0] = a /\ \A k \in 1 .. m : f[k] = step[k][f[k - 1]]
           T == {m \in 0 .. n : \E f \in [0 .. m -> V] : Good(m, f)}
<1>1. 0 \in T
  <2> DEFINE f == [k \in 0 .. 0 |-> a]
  <2>1. f \in [0 .. 0 -> V] /\ f[0] = a
    OBVIOUS
  <2>2. 1 .. 0 = {} /\ 0 \in 0 .. n
    OBVIOUS
  <2> QED BY <2>1, <2>2
<1>2. ASSUME NEW m \in 1 .. n, m - 1 \in T PROVE m \in T
  <2>1. PICK f \in [0 .. m - 1 -> V] : Good(m - 1, f)
    BY <1>2
  <2> DEFINE g == [k \in 0 .. m |-> IF k = m THEN step[m][f[m - 1]] ELSE f[k]]
  <2>2. step[m][f[m - 1]] \in V
    <3>1. f[m - 1] \in V /\ step[m] \in [V -> V]
      OBVIOUS
    <3> QED BY <3>1
  <2>3. g \in [0 .. m -> V]
    <3>1. ASSUME NEW k \in 0 .. m
          PROVE  (IF k = m THEN step[m][f[m - 1]] ELSE f[k]) \in V
      <4>1. k # m => k \in 0 .. m - 1
        OBVIOUS
      <4> QED BY <2>2, <4>1
    <3> QED BY <3>1
  <2>4. g[0] = a
    BY <2>1
  <2>5. ASSUME NEW k \in 1 .. m PROVE g[k] = step[k][g[k - 1]]
    <3>1. g[k - 1] = f[k - 1]
      OBVIOUS
    <3>2. CASE k = m
      <4>1. g[m] = step[m][f[m - 1]]
        OBVIOUS
      <4> QED BY <3>1, <3>2, <4>1
    <3>3. CASE k # m
      <4>1. k \in 1 .. m - 1 /\ g[k] = f[k]
        BY <3>3
      <4> QED BY <2>1, <3>1, <4>1
    <3> QED BY <3>2, <3>3
  <2> HIDE DEF g
  <2>6. Good(m, g)
    BY <2>4, <2>5
  <2> HIDE DEF Good
  <2>7. m \in 0 .. n
    OBVIOUS
  <2> QED BY <2>3, <2>6, <2>7, Zenon
<1> HIDE DEF T
<1>3. 0 .. n \subseteq T
  BY <1>1, <1>2, UpTo, Zenon
<1>4. n \in T
  BY <1>3
<1> QED BY <1>4 DEF T, Recursive

\* In particular, one with values that are numbers
LEMMA Recursion ==
  ASSUME NEW n \in Nat, NEW step \in [1 .. n -> [Nat -> Nat]], NEW a \in Nat
  PROVE  \E f \in [0 .. n -> Nat] : f[0] = a /\ \A k \in 1 .. n : f[k] = step[k][f[k - 1]]
<1>1. step \in StepFunctions(n, Nat)
  BY DEF StepFunctions
<1>2. Recursive(n, Nat, step, a)
  BY <1>1, RecursionIn, Zenon
<1> QED BY <1>2 DEF Recursive

\* Division with a remainder
LEMMA Remainder ==
  ASSUME NEW M \in Nat, M > 0, NEW a \in Int
  PROVE  /\ a % M \in 0 .. M - 1 /\ a % M \in Int /\ a \div M \in Int
         /\ a = M * (a \div M) + (a % M)
  BY SMT

\* A number below the modulus is its own residue.
LEMMA SmallResidue == ASSUME NEW M \in Nat, M > 0, NEW a \in 0 .. M - 1 PROVE a % M = a
  BY SMT

\* Two multiples of M less than M apart are the same.
LEMMA NoMultipleBetween ==
  ASSUME NEW M \in Nat, M > 0, NEW k \in Int, -M < M * k, M * k < M
  PROVE  k = 0
<1>1. CASE k >= 1
  <2>1. M * k >= M
    BY <1>1, SMT
  <2> QED BY <2>1, SMT
<1>2. CASE k <= -1
  <2>1. M * k <= -M
    BY <1>2, SMT
  <2> QED BY <2>1, SMT
<1> QED BY <1>1, <1>2, SMT

\* Multiples of the modulus do not change a residue.
LEMMA Shift ==
  ASSUME NEW M \in Nat, M > 0, NEW a \in Int, NEW k \in Int
  PROVE  (a + M * k) % M = a % M
<1> DEFINE b == a + M * k
<1>1. b \in Int /\ b = a + M * k
  BY SMT
<1> HIDE DEF b
<1>2. PICK x \in 0 .. M - 1, p \in Int : a % M = x /\ a = M * p + x
  BY Remainder
<1>3. PICK y \in 0 .. M - 1, q \in Int : b % M = y /\ b = M * q + y
  BY <1>1, Remainder
<1> DEFINE d == (q - p) - k
<1>4. d \in Int /\ M * d = x - y
  <2>1. M * q + y = (M * p + x) + M * k
    BY <1>1, <1>2, <1>3
  <2>2. M * d = (M * q - M * p) - M * k
    BY SMT
  <2>3. M * p \in Int /\ M * q \in Int /\ M * k \in Int /\ x \in Int /\ y \in Int
    BY SMT
  <2> QED BY <2>1, <2>2, <2>3, SMT
<1> HIDE DEF d
<1>5. -M < x - y /\ x - y < M
  BY SMT
<1>6. d = 0
  BY <1>4, <1>5, NoMultipleBetween
<1>7. x - y = 0
  BY <1>4, <1>6, SMT
<1>8. x = y
  BY <1>7, SMT
<1> QED BY <1>1, <1>2, <1>3, <1>8

\* A residue stands for its number in sums and products.
LEMMA Residue ==
  ASSUME NEW M \in Nat, M > 0, NEW a \in Int, NEW b \in Int
  PROVE  /\ ((a % M) + b) % M = (a + b) % M
         /\ ((a % M) * b) % M = (a * b) % M
<1>1. PICK x \in 0 .. M - 1, p \in Int : a % M = x /\ a = M * p + x
  BY Remainder
<1>2. x + b = (a + b) + M * (-p) /\ -p \in Int /\ a + b \in Int
  BY <1>1, SMT
<1>3. x * b = (a * b) + M * (-(p * b)) /\ -(p * b) \in Int /\ a * b \in Int
  BY <1>1, SMT
<1>4. (x + b) % M = (a + b) % M
  BY <1>2, Shift, ZenonT(30)
<1>5. (x * b) % M = (a * b) % M
  BY <1>3, Shift
<1> QED BY <1>1, <1>4, <1>5

\* A difference is 0 in the field exactly if the numbers have the same residue.
LEMMA DifferenceZero ==
  ASSUME NEW M \in Nat, M > 0, NEW a \in Int, NEW b \in 0 .. M - 1
  PROVE  (a - b) % M = 0 <=> a % M = b
<1>1. PICK x \in 0 .. M - 1, p \in Int : a % M = x /\ a = M * p + x
  BY Remainder
<1>2. ASSUME a % M = b PROVE (a - b) % M = 0
  <2>1. a - b = 0 + M * p
    BY <1>1, <1>2, SMT
  <2>2. 0 % M = 0
    BY SmallResidue, SMT
  <2> QED BY <2>1, <2>2, Shift
<1>3. ASSUME (a - b) % M = 0 PROVE a % M = b
  <2>1. a - b \in Int /\ b \in Int
    BY SMT
  <2>2. PICK q \in Int : a - b = M * q + 0
    BY <1>3, <2>1, Remainder
  <2>3. a = b + M * q
    BY <2>1, <2>2, SMT
  <2>4. b % M = b
    BY SmallResidue
  <2> QED BY <2>1, <2>3, <2>4, Shift
<1> QED BY <1>2, <1>3

\* The powers of two, by the number of subsets of a set of one more element
LEMMA PowerDoubles ==
  ASSUME NEW k \in Nat
  PROVE  2 ^ k \in Nat /\ 2 ^ (k + 1) = 2 * 2 ^ k
<1> DEFINE A == 1 .. k
           B == 1 .. k + 1
           old == SUBSET A
           new == {X \cup {k + 1} : X \in old}
<1>1. IsFiniteSet(A) /\ Cardinality(A) = k /\ IsFiniteSet(B) /\ Cardinality(B) = k + 1
  <2>1. 1 \in Int /\ k \in Int /\ k + 1 \in Int /\ ~(1 > k + 1) /\ (1 > k => k = 0)
        /\ (k - 1) + 1 = k /\ (k + 1 - 1) + 1 = k + 1
    OBVIOUS
  <2> QED BY <2>1, FS_Interval
<1> HIDE DEF A, B
<1>2. /\ IsFiniteSet(SUBSET A) /\ Cardinality(SUBSET A) = 2 ^ k
      /\ IsFiniteSet(SUBSET B) /\ Cardinality(SUBSET B) = 2 ^ (k + 1)
  BY <1>1, FS_SUBSET, Zenon
<1>3. Cardinality(SUBSET A) \in Nat
  BY <1>2, FS_CardinalityType, Zenon
<1>4. SUBSET B = old \cup new
  <2>1. ASSUME NEW X \in SUBSET B, X \notin old PROVE X \in new
    <3>1. k + 1 \in X
      BY <2>1 DEF A, B
    <3>2. X \ {k + 1} \in old
      BY <2>1 DEF A, B
    <3>3. X = (X \ {k + 1}) \cup {k + 1}
      BY <3>1
    <3> QED BY <3>2, <3>3
  <2>2. ASSUME NEW X \in old PROVE X \in SUBSET B /\ X \cup {k + 1} \in SUBSET B
    BY DEF A, B
  <2> QED BY <2>1, <2>2
<1>5. old \cap new = {}
  BY DEF A
<1>6. ExistsBijection(old, new)
  <2>1. PICK f : f = [X \in old |-> X \cup {k + 1}]
    OBVIOUS
  <2>2. f \in [old -> new]
    BY <2>1
  <2>3. \A X, Y \in old : f[X] = f[Y] => X = Y
    <3> SUFFICES ASSUME NEW X \in old, NEW Y \in old, X \cup {k + 1} = Y \cup {k + 1} PROVE X = Y
      BY <2>1
    <3>1. k + 1 \notin X /\ k + 1 \notin Y
      BY DEF A
    <3> QED BY <3>1
  <2>4. \A Z \in new : \E X \in old : f[X] = Z
    BY <2>1
  <2> HIDE DEF old, new
  <2> QED BY <2>2, <2>3, <2>4 DEF ExistsBijection, Bijection, Injection, Surjection, IsInjective
<1> HIDE DEF old, new
<1>7. IsFiniteSet(old) /\ Cardinality(old) = 2 ^ k
  BY <1>2 DEF old
<1>8. IsFiniteSet(new) /\ Cardinality(new) = 2 ^ k
  BY <1>6, <1>7, FS_Bijection, Zenon
<1>9. Cardinality(old \cup new) = Cardinality(old) + Cardinality(new) - Cardinality(old \cap new)
  BY <1>7, <1>8, FS_Union, Zenon
<1>10. Cardinality(old \cap new) = 0
  BY <1>5, FS_EmptySet
<1>11. 2 ^ k \in Nat
  BY <1>2, <1>3
<1>12. PICK p \in Nat : p = 2 ^ k
  BY <1>11
<1>13. 2 ^ (k + 1) = p + p - 0
  BY <1>2, <1>4, <1>7, <1>8, <1>9, <1>10, <1>12
<1>14. p + p - 0 = 2 * p
  BY SMT
<1> QED BY <1>12, <1>13, <1>14

-----------------------------------------------------------------------------
(***************************************************************************)
(* R1CS structures                                                         *)
(***************************************************************************)
Kinds == {"one", "instance", "witness"}
Combinations == Seq(Elements \X (Kinds \X Nat))
Constraints == Combinations \X Combinations \X Combinations
Systems == [instance : Seq(Values), witness : Seq(Values), rows : Seq(Constraints)]

\* The variables of a circuit with p instances and q witnesses
AllocatedIn(p, q) ==
  {<<"one", 0>>} \cup {<<"instance", k>> : k \in 1 .. p} \cup {<<"witness", k>> : k \in 1 .. q}

\* The combination mentions allocated variables only.
Closed(lc, p, q) == \A k \in 1 .. Len(lc) : lc[k][2] \in AllocatedIn(p, q)

SystemInv ==
  /\ cs \in Systems
  /\ \A r \in 1 .. Len(cs.rows) : \A i \in 1 .. 3 :
       Closed(cs.rows[r][i], Len(cs.instance), Len(cs.witness))

\* Every row of every matrix is there, and within the columns
Sound(s) ==
  /\ s.m \in Nat /\ s.n \in Nat /\ s.l \in Nat
  /\ \A i \in 1 .. 3 :
       /\ Len(s.matrices[i]) = s.m
       /\ \A r \in 1 .. s.m : \A k \in 1 .. Len(s.matrices[i][r]) :
            s.matrices[i][r][k][2] \in 0 .. s.n - 1

StructureInv == built \in {"synthesized", "validated"} => Sound(arith)

\* Nothing is evaluated before there is a structure.
FreshInv == built = "none" => native.tag = "none"

\* A structure has dimensions, however it was obtained.
SizeInv == arith.n \in Nat /\ arith.l \in Nat

IInv == SystemInv /\ StructureInv /\ SizeInv /\ FreshInv /\ EvaluationSafe /\ EvaluationsAgree

-----------------------------------------------------------------------------
(***************************************************************************)
(* Evaluations of a sound structure                                        *)
(***************************************************************************)
\* With assignments of the right lengths, every column of a sound structure has its element.
LEMMA SoundFits ==
  ASSUME NEW s, Sound(s), ~Underflows(s), NEW a, Len(a.public) = s.l, Len(a.private) = Witnesses(s),
         NEW i \in 1 .. 3, NEW r \in 1 .. s.m
  PROVE  r <= Len(s.matrices[i]) /\ RowFits(s.matrices[i][r], a)
<1>1. Columns(a) = 0 .. s.n - 1
  BY DEF Columns, Witnesses, Underflows, Sound
<1>2. RowFits(s.matrices[i][r], a)
  BY <1>1 DEF RowFits, Sound
<1> QED BY <1>2 DEF Sound

\* evaluate_r1cs panics on a sound structure only where config does.
LEMMA SoundPanics ==
  ASSUME NEW s, Sound(s), NEW a, NEW checks \in BOOLEAN,
         EvaluateNatively(s, a, checks).tag = "panic"
  PROVE  Underflows(s)
<1> SUFFICES ASSUME ~Underflows(s) PROVE FALSE
  OBVIOUS
<1>1. CASE Len(a.public) # s.l \/ Len(a.private) # Witnesses(s)
  BY <1>1 DEF EvaluateNatively, Failed
<1>2. CASE Len(a.public) = s.l /\ Len(a.private) = Witnesses(s)
  <2>1. ~ \E i \in 1 .. 3 : \E r \in 1 .. s.m :
            r > Len(s.matrices[i]) \/ ~RowFits(s.matrices[i][r], a)
    <3> SUFFICES ASSUME NEW i \in 1 .. 3, NEW r \in 1 .. s.m
                 PROVE  ~(r > Len(s.matrices[i])) /\ RowFits(s.matrices[i][r], a)
      OBVIOUS
    <3>1. r <= Len(s.matrices[i]) /\ RowFits(s.matrices[i][r], a)
      BY <1>2, SoundFits
    <3>2. Len(s.matrices[i]) = s.m /\ s.m \in Nat
      BY DEF Sound
    <3> QED BY <3>1, <3>2
  <2> QED BY <1>2, <2>1 DEF EvaluateNatively, Evaluated, Failed
<1> QED BY <1>1, <1>2

LEMMA PartLength ==
  ASSUME NEW v \in Parts PROVE Len(v) \in 0 .. MaxLength
<1>1. PICK k \in 0 .. MaxLength : v \in [1 .. k -> Values]
  BY DEF Parts
<1>2. k \in Nat
  BY LengthAssumption
<1>3. v \in Seq(Values)
  BY <1>1, <1>2
<1> QED BY <1>1, <1>2, <1>3

\* With n <= l, evaluate_r1cs asks for more elements than there can be.
LEMMA WrappedRefuses ==
  ASSUME NEW s, s.n \in Nat, s.l \in Nat, Underflows(s), NEW checks \in BOOLEAN,
         NEW a, Len(a.public) \in 0 .. MaxLength, Len(a.private) \in 0 .. MaxLength
  PROVE  EvaluateNatively(s, a, checks).tag # "value"
<1>1. Len(a.public) # s.l \/ Len(a.private) # Witnesses(s)
  BY LengthAssumption DEF Witnesses, Underflows
<1> QED BY <1>1 DEF EvaluateNatively, Failed

\* Where evaluate_r1cs has a value, the gadget has the same.
LEMMA SoundAgrees ==
  ASSUME NEW s, Sound(s), NEW a, NEW checks \in BOOLEAN,
         EvaluateNatively(s, a, checks).tag = "value"
  PROVE  EvaluateInCircuit(s, a) = EvaluateNatively(s, a, checks)
<1>1. \A i \in 1 .. 3 : Len(s.matrices[i]) = s.m
  BY DEF Sound
<1>2. ~ \E i \in 1 .. 3 : \E r \in 1 .. s.m :
          r > Len(s.matrices[i]) \/ ~RowFits(s.matrices[i][r], a)
  BY DEF EvaluateNatively, Evaluated, Failed
<1>3. ~ \E i \in 1 .. 3 : \E r \in 1 .. Len(s.matrices[i]) : ~RowFits(s.matrices[i][r], a)
  BY <1>1, <1>2
<1>4. ~ \E i \in 2 .. 3 : Len(s.matrices[i]) # Len(s.matrices[1])
  BY <1>1
<1>5. EvaluateInCircuit(s, a) =
        Evaluated([r \in 1 .. s.m |->
          (Dot(s.matrices[1][r], a) * Dot(s.matrices[2][r], a)
             - a.constant * Dot(s.matrices[3][r], a)) % Modulus])
  BY <1>1, <1>3, <1>4, SMTT(30) DEF EvaluateInCircuit
<1>6. EvaluateNatively(s, a, checks) =
        Evaluated([r \in 1 .. s.m |->
          (Dot(s.matrices[1][r], a) * Dot(s.matrices[2][r], a)
             - a.constant * Dot(s.matrices[3][r], a)) % Modulus])
  BY <1>2 DEF EvaluateNatively, Evaluated, Failed
<1> QED BY <1>5, <1>6

-----------------------------------------------------------------------------
(***************************************************************************)
(* Circuits                                                                *)
(***************************************************************************)
\* The column of an allocated variable is one of the structure's.
LEMMA ColumnFits ==
  ASSUME cs \in Systems, NEW var \in Variables
  PROVE  Column(var) \in 0 .. Len(cs.instance) + Len(cs.witness)
<1>1. PICK p \in Nat, q \in Nat : Len(cs.instance) = p /\ Len(cs.witness) = q
  BY DEF Systems
<1>2. CASE var = <<"one", 0>>
  <2>1. Column(var) = 0
    BY <1>2 DEF Column
  <2> QED BY <1>1, <2>1
<1>3. CASE \E k \in 1 .. p : var = <<"instance", k>>
  <2>1. PICK k \in 1 .. p : var = <<"instance", k>>
    BY <1>3
  <2>2. Column(var) = k
    BY <2>1 DEF Column
  <2> QED BY <1>1, <2>2
<1>4. CASE \E k \in 1 .. q : var = <<"witness", k>>
  <2>1. PICK k \in 1 .. q : var = <<"witness", k>>
    BY <1>4
  <2>2. Column(var) = p + k
    BY <1>1, <2>1 DEF Column
  <2>3. p + k \in 0 .. p + q
    OBVIOUS
  <2> QED BY <1>1, <2>2, <2>3
<1> QED BY <1>1, <1>2, <1>3, <1>4 DEF Variables

\* What is extracted from a circuit is sound.
LEMMA ExtractedSound == ASSUME SystemInv PROVE Sound(FromConstraintSystem)
<1> DEFINE s == FromConstraintSystem
<1>1. PICK p \in Nat, q \in Nat, m \in Nat :
        Len(cs.instance) = p /\ Len(cs.witness) = q /\ Len(cs.rows) = m
  BY DEF SystemInv, Systems
<1>2. s.m = m /\ s.n = (1 + p) + q /\ s.l = (1 + p) - 1
  BY <1>1 DEF FromConstraintSystem
<1>3. ASSUME NEW i \in 1 .. 3
      PROVE  Len(s.matrices[i]) = s.m
  BY <1>1 DEF FromConstraintSystem
<1>4. ASSUME NEW i \in 1 .. 3, NEW r \in 1 .. s.m, NEW k \in 1 .. Len(s.matrices[i][r])
      PROVE  s.matrices[i][r][k][2] \in 0 .. s.n - 1
  <2> DEFINE lc == cs.rows[r][i]
  <2>1. s.matrices[i][r] = ToRow(lc)
    BY <1>1, <1>2 DEF FromConstraintSystem
  <2>2. cs.rows[r] \in Constraints
    BY <1>1, <1>2 DEF SystemInv, Systems
  <2>3. lc \in Combinations
    <3>1. i = 1 \/ i = 2 \/ i = 3
      OBVIOUS
    <3> QED BY <2>2, <3>1 DEF Constraints
  <2>4. Len(lc) \in Nat /\ Len(ToRow(lc)) = Len(lc)
    BY <2>3 DEF Combinations, ToRow
  <2>5. lc[k][2] \in Variables
    BY <1>1, <1>2, <2>1, <2>4 DEF SystemInv, Closed, Variables, AllocatedIn
  <2>6. s.matrices[i][r][k][2] = Column(lc[k][2])
    BY <2>1, <2>4 DEF ToRow
  <2>7. Column(lc[k][2]) \in 0 .. p + q
    BY <1>1, <2>5, ColumnFits DEF SystemInv
  <2>8. s.n - 1 = p + q
    BY <1>2
  <2> HIDE DEF s, lc
  <2> QED BY <2>6, <2>7, <2>8
<1>5. s.m \in Nat /\ s.n \in Nat /\ s.l \in Nat
  BY <1>2
<1> HIDE DEF s
<1>6. Sound(s)
  BY <1>3, <1>4, <1>5 DEF Sound
<1> QED BY <1>6 DEF s

-----------------------------------------------------------------------------
(***************************************************************************)
(* The invariant                                                           *)
(***************************************************************************)
\* A structure that was loaded and passed validate is sound.
LEMMA ValidatedSound == ASSUME NEW s \in Structures, Validates(s) PROVE Sound(s)
<1>1. s.m \in Nat /\ s.l \in Nat /\ \A i \in 1 .. 3 : s.matrices[i] \in Seq(Rows)
  BY DEF Structures
<1>2. PICK n \in Nat : s.n = n
  BY DEF Structures
<1>3. ASSUME NEW i \in 1 .. 3, NEW r \in 1 .. s.m, NEW k \in 1 .. Len(s.matrices[i][r])
      PROVE  s.matrices[i][r][k][2] \in 0 .. s.n - 1
  <2>1. Len(s.matrices[i]) = s.m
    BY DEF Validates
  <2>2. s.matrices[i][r] \in Rows
    BY <1>1, <2>1, SMTT(30)
  <2>3. PICK c \in Nat : s.matrices[i][r][k][2] = c
    BY <2>2, SMTT(30) DEF Rows
  <2>4. c < n
    BY <1>2, <2>1, <2>3 DEF Validates
  <2>5. c \in 0 .. n - 1
    BY <2>4
  <2> QED BY <1>2, <2>3, <2>5
<1> QED BY <1>1, <1>2, <1>3 DEF Sound, Validates

\* A combination stays closed while variables are added.
LEMMA ClosedGrows ==
  ASSUME NEW lc, NEW p \in Nat, NEW q \in Nat, Closed(lc, p, q),
         NEW p1 \in Nat, NEW q1 \in Nat, p <= p1, q <= q1
  PROVE  Closed(lc, p1, q1)
<1>1. AllocatedIn(p, q) \subseteq AllocatedIn(p1, q1)
  BY DEF AllocatedIn
<1> QED BY <1>1 DEF Closed

\* A step of synthesis: more variables, and constraints that are old or closed
LEMMA SystemGrows ==
  ASSUME SystemInv, NEW instance \in Seq(Values), NEW witness \in Seq(Values),
         NEW rows \in Seq(Constraints),
         cs' = [instance |-> instance, witness |-> witness, rows |-> rows],
         Len(cs.instance) <= Len(instance), Len(cs.witness) <= Len(witness),
         \A r \in 1 .. Len(rows) :
           \/ r \in 1 .. Len(cs.rows) /\ rows[r] = cs.rows[r]
           \/ \A i \in 1 .. 3 : Closed(rows[r][i], Len(instance), Len(witness))
  PROVE  SystemInv'
<1>1. PICK p \in Nat, q \in Nat, p1 \in Nat, q1 \in Nat :
        /\ Len(cs.instance) = p /\ Len(cs.witness) = q
        /\ Len(instance) = p1 /\ Len(witness) = q1
  BY DEF SystemInv, Systems
<1>2. ASSUME NEW r \in 1 .. Len(rows), NEW i \in 1 .. 3
      PROVE  Closed(rows[r][i], p1, q1)
  <2>1. CASE r \in 1 .. Len(cs.rows) /\ rows[r] = cs.rows[r]
    <3>1. Closed(rows[r][i], p, q)
      BY <1>1, <2>1 DEF SystemInv
    <3> QED BY <1>1, <3>1, ClosedGrows
  <2>2. CASE \A j \in 1 .. 3 : Closed(rows[r][j], p1, q1)
    BY <2>2
  <2> QED BY <1>1, <2>1, <2>2
<1>3. cs' \in Systems
  BY DEF Systems
<1>4. cs'.instance = instance /\ cs'.witness = witness /\ cs'.rows = rows
  OBVIOUS
<1> QED BY <1>1, <1>2, <1>3, <1>4 DEF SystemInv

\* What a sequence holds after an Append.
LEMMA AppendedRows ==
  ASSUME NEW rows \in Seq(Constraints), NEW c \in Constraints
  PROVE  /\ Append(rows, c) \in Seq(Constraints)
         /\ \A r \in 1 .. Len(Append(rows, c)) :
              \/ r \in 1 .. Len(rows) /\ Append(rows, c)[r] = rows[r]
              \/ Append(rows, c)[r] = c
  OBVIOUS

\* A step of synthesis that enforces one more closed constraint.
LEMMA SystemAppended ==
  ASSUME SystemInv, NEW instance \in Seq(Values), NEW witness \in Seq(Values),
         NEW c \in Constraints,
         cs' = [instance |-> instance, witness |-> witness, rows |-> Append(cs.rows, c)],
         Len(cs.instance) <= Len(instance), Len(cs.witness) <= Len(witness),
         \A i \in 1 .. 3 : Closed(c[i], Len(instance), Len(witness))
  PROVE  SystemInv'
<1>1. PICK old : old = cs.rows
  OBVIOUS
<1>2. old \in Seq(Constraints)
  BY <1>1 DEF SystemInv, Systems
<1>3. PICK rows : rows = Append(old, c)
  OBVIOUS
<1>4. rows \in Seq(Constraints) /\ cs' = [instance |-> instance, witness |-> witness, rows |-> rows]
  BY <1>1, <1>2, <1>3
<1>5. \A r \in 1 .. Len(rows) :
        \/ r \in 1 .. Len(cs.rows) /\ rows[r] = cs.rows[r]
        \/ \A i \in 1 .. 3 : Closed(rows[r][i], Len(instance), Len(witness))
  BY <1>1, <1>2, <1>3, AppendedRows
<1> QED BY <1>4, <1>5, SystemGrows

\* Synthesis keeps the constraints of a circuit closed.
LEMMA SystemStep == ASSUME SystemInv, [R1CSNext]_rvars PROVE SystemInv'
<1> USE DEF Synthesizing
<1>t. /\ cs = [instance |-> cs.instance, witness |-> cs.witness, rows |-> cs.rows]
      /\ cs.instance \in Seq(Values) /\ cs.witness \in Seq(Values) /\ cs.rows \in Seq(Constraints)
  BY DEF SystemInv, Systems
<1>1. CASE AllocateInput
  <2>1. PICK v \in Values : cs' = [cs EXCEPT !.instance = Append(@, v)]
    BY <1>1 DEF AllocateInput
  <2>2. cs' = [instance |-> Append(cs.instance, v), witness |-> cs.witness, rows |-> cs.rows]
    BY <1>t, <2>1
  <2>3. /\ Append(cs.instance, v) \in Seq(Values)
        /\ Len(cs.instance) <= Len(Append(cs.instance, v)) /\ Len(cs.witness) <= Len(cs.witness)
    BY <1>t
  <2> QED BY <1>t, <2>2, <2>3, SystemGrows
<1>2. CASE AllocateWitness
  <2>1. PICK v \in Values : cs' = [cs EXCEPT !.witness = Append(@, v)]
    BY <1>2 DEF AllocateWitness
  <2>2. cs' = [instance |-> cs.instance, witness |-> Append(cs.witness, v), rows |-> cs.rows]
    BY <1>t, <2>1
  <2>3. /\ Append(cs.witness, v) \in Seq(Values)
        /\ Len(cs.witness) <= Len(Append(cs.witness, v)) /\ Len(cs.instance) <= Len(cs.instance)
    BY <1>t
  <2> QED BY <1>t, <2>2, <2>3, SystemGrows
<1>3. CASE Enforce
  <2>1. PICK a \in Terms, b \in Terms, c \in Terms :
          cs' = [cs EXCEPT !.rows = Append(@, <<a, b, c>>)]
    BY <1>3 DEF Enforce
  <2>2. cs' = [instance |-> cs.instance, witness |-> cs.witness,
               rows |-> Append(cs.rows, <<a, b, c>>)]
    BY <1>t, <2>1
  <2>3. ASSUME NEW lc \in Terms
        PROVE  lc \in Combinations /\ Closed(lc, Len(cs.instance), Len(cs.witness))
    <3>1. PICK coeff \in Coefficients, var \in Variables : lc = <<<<coeff, var>>>>
      BY DEF Terms
    <3>2. var \in AllocatedIn(Len(cs.instance), Len(cs.witness))
      BY DEF Variables, AllocatedIn
    <3>3. var \in Kinds \X Nat
      BY DEF Variables, Kinds
    <3>4. coeff \in Elements
      BY ElementsAssumption
    <3>5. Len(lc) = 1 /\ lc[1] = <<coeff, var>>
      BY <3>1
    <3> QED BY <3>1, <3>2, <3>3, <3>4, <3>5 DEF Combinations, Closed
  <2>4. <<a, b, c>> \in Constraints
    BY <2>3 DEF Constraints
  <2>5. \A i \in 1 .. 3 : Closed(<<a, b, c>>[i], Len(cs.instance), Len(cs.witness))
    BY <2>3
  <2>6. Len(cs.instance) <= Len(cs.instance) /\ Len(cs.witness) <= Len(cs.witness)
    BY <1>t
  <2> QED BY <1>t, <2>2, <2>4, <2>5, <2>6, SystemAppended
<1>4. CASE MarkAsPublic
  <2> DEFINE input == <<"instance", Len(cs.instance) + 1>>
             one == <<<<1, <<"one", 0>>>>>>
             difference(k) == <<<<1, <<"witness", k>>>>, <<Modulus - 1, input>>>>
             row(k) == <<difference(k), one, <<>>>>
  <2>1. PICK k \in 1 .. Len(cs.witness) :
          cs' = [cs EXCEPT !.instance = Append(@, cs.witness[k]), !.rows = Append(@, row(k))]
    BY <1>4 DEF MarkAsPublic
  <2>2. cs' = [instance |-> Append(cs.instance, cs.witness[k]), witness |-> cs.witness,
               rows |-> Append(cs.rows, row(k))]
    BY <1>t, <2>1
  <2>3. PICK p \in Nat, q \in Nat : Len(cs.instance) = p /\ Len(cs.witness) = q
    BY <1>t
  <2>4. /\ Append(cs.instance, cs.witness[k]) \in Seq(Values)
        /\ Len(Append(cs.instance, cs.witness[k])) = p + 1
    BY <1>t, <2>3
  <2>5. 1 \in Elements /\ Modulus - 1 \in Elements
    BY ModulusAssumption DEF Elements
  <2>6. difference(k) \in Combinations /\ Closed(difference(k), p + 1, q)
    <3>1. <<"witness", k>> \in Kinds \X Nat /\ input \in Kinds \X Nat
      BY <2>3 DEF Kinds
    <3>2. difference(k) \in Combinations
      BY <2>5, <3>1 DEF Combinations
    <3>3. <<"witness", k>> \in AllocatedIn(p + 1, q) /\ input \in AllocatedIn(p + 1, q)
      BY <2>3 DEF AllocatedIn
    <3>4. Len(difference(k)) = 2 /\ difference(k)[1][2] = <<"witness", k>> /\ difference(k)[2][2] = input
      OBVIOUS
    <3> QED BY <3>2, <3>3, <3>4 DEF Closed
  <2>7. one \in Combinations /\ Closed(one, p + 1, q)
    <3>1. Len(one) = 1 /\ one[1] = <<1, <<"one", 0>>>>
      OBVIOUS
    <3> QED BY <2>5, <3>1 DEF Combinations, Kinds, Closed, AllocatedIn
  <2>8. <<>> \in Combinations /\ Closed(<<>>, p + 1, q)
    BY DEF Combinations, Closed
  <2> HIDE DEF difference, one
  <2>9. row(k) \in Constraints /\ \A i \in 1 .. 3 : Closed(row(k)[i], p + 1, q)
    BY <2>6, <2>7, <2>8 DEF Constraints
  <2>10. p <= p + 1 /\ q <= q
    BY <2>3
  <2> HIDE DEF row
  <2> QED BY <1>t, <2>2, <2>3, <2>4, <2>9, <2>10, SystemAppended
<1>5. CASE UNCHANGED cs
  BY <1>5 DEF SystemInv, Systems
<1> QED BY <1>1, <1>2, <1>3, <1>4, <1>5
        DEF R1CSNext, rvars, Extract, LoadValidated, LoadUnchecked, Evaluate

-----------------------------------------------------------------------------
\* Extraction counts the constant among the columns: n = 1 + instances + witnesses.
LEMMA ExtractedCounts == ASSUME SystemInv PROVE ~Underflows(FromConstraintSystem)
<1>1. Len(cs.instance) \in Nat /\ Len(cs.witness) \in Nat
  BY DEF SystemInv, Systems
<1>2. PICK p, q : p = Len(cs.instance) /\ q = Len(cs.witness)
  OBVIOUS
<1>3. p \in Nat /\ q \in Nat
  BY <1>1, <1>2
<1>4. FromConstraintSystem.n = (1 + p) + q /\ FromConstraintSystem.l = (1 + p) - 1
  BY <1>2 DEF FromConstraintSystem
<1>5. ~((1 + p) + q < ((1 + p) - 1) + 1)
  BY <1>3
<1> QED BY <1>4, <1>5 DEF Underflows

\* A structure in use stays sound, and its outcomes are those of a sound structure.
LEMMA StructureStep ==
  ASSUME IInv, [R1CSNext]_rvars
  PROVE  StructureInv' /\ SizeInv' /\ FreshInv' /\ EvaluationSafe' /\ EvaluationsAgree'
<1> USE DEF IInv, StructureInv, SizeInv, FreshInv, EvaluationSafe, EvaluationsAgree
<1>1. CASE Extract
  <2>1. Sound(FromConstraintSystem)
    BY ExtractedSound
  <2>2. /\ built' = "synthesized" /\ arith' = FromConstraintSystem
        /\ native' = EvaluateNatively(arith', ExtractedAssignments, TRUE)
        /\ wired' = EvaluateInCircuit(arith', ExtractedAssignments)
    BY <1>1 DEF Extract
  <2>3. Sound(arith')
    BY <2>1, <2>2
  <2>4. StructureInv'
    BY <2>3 DEF Sound
  <2>v. ~Underflows(arith')
    BY <2>2, ExtractedCounts
  <2>w. ~Underflows(arith)'
    BY <2>v DEF Underflows
  <2>p. native'.tag # "panic"
    BY <2>2, <2>3, <2>v, SoundPanics
  <2>5. EvaluationSafe'
    BY <2>p, <2>w
  <2>z. SizeInv'
    BY <2>3 DEF Sound
  <2>6. EvaluationsAgree'
    BY <2>2, <2>3, SoundAgrees
  <2> QED BY <2>2, <2>4, <2>5, <2>6, <2>z
<1>2. CASE LoadValidated
  <2>1. PICK s \in Loaded : IF Validates(s)
                            THEN built' = "validated" /\ arith' = s
                            ELSE built' = "rejected" /\ UNCHANGED arith
    BY <1>2 DEF LoadValidated
  <2>2. Validates(s) => Sound(s)
    BY LoadedAssumption, ValidatedSound
  <2>3. built' \in {"validated", "rejected"} /\ native'.tag = "none"
    BY <1>2, <2>1 DEF LoadValidated
  <2>4. built' = "validated" => Sound(arith')
    BY <2>1, <2>2
  <2>5. StructureInv'
    BY <2>3, <2>4 DEF Sound
  <2>6. SizeInv'
    BY <2>1, LoadedAssumption DEF Structures
  <2> QED BY <2>3, <2>5, <2>6
<1>3. CASE LoadUnchecked
  <2>1. built' = "unchecked" /\ native'.tag = "none"
    BY <1>3 DEF LoadUnchecked
  <2>2. SizeInv'
    BY <1>3, LoadedAssumption DEF LoadUnchecked, Structures
  <2> QED BY <2>1, <2>2
<1>4. CASE Evaluate
  <2>1. PICK u \in Values, public \in Parts, private \in Parts, checks \in BOOLEAN :
          /\ native' = EvaluateNatively(arith, [constant |-> u, public |-> public, private |-> private], checks)
          /\ wired' = EvaluateInCircuit(arith, [constant |-> u, public |-> public, private |-> private])
    BY <1>4 DEF Evaluate
  <2>2. built' = built /\ arith' = arith /\ built \in {"validated", "unchecked"}
    BY <1>4 DEF Evaluate
  <2>3. StructureInv'
    BY <2>2 DEF Sound
  <2>s. Len(public) \in 0 .. MaxLength /\ Len(private) \in 0 .. MaxLength
    BY PartLength
  <2>p. native'.tag = "panic" => built = "unchecked" \/ Underflows(arith)
    BY <2>1, <2>2, SoundPanics
  <2>v. native'.tag = "value" => ~Underflows(arith)
    BY <2>1, <2>s, WrappedRefuses
  <2>4. EvaluationSafe'
    BY <2>2, <2>p, <2>v DEF Underflows
  <2>5. EvaluationsAgree'
    BY <2>1, <2>2, SoundAgrees
  <2> QED BY <2>2, <2>3, <2>4, <2>5
<1>5. CASE UNCHANGED <<built, arith, z, native, wired>>
  <2>1. built' = built /\ arith' = arith /\ native' = native /\ wired' = wired
    BY <1>5
  <2>2. StructureInv'
    BY <2>1 DEF Sound
  <2>3. EvaluationSafe'
    BY <2>1 DEF Underflows
  <2> QED BY <2>1, <2>2, <2>3
<1> QED BY <1>1, <1>2, <1>3, <1>4, <1>5
        DEF R1CSNext, rvars, Synthesizing, AllocateInput, AllocateWitness, Enforce, MarkAsPublic

\* The invariant holds while circuits are synthesized, and structures loaded and evaluated.
LEMMA R1CSInductive == R1CSSpec => []IInv
<1>1. R1CSInit => IInv
  <2> SUFFICES ASSUME R1CSInit PROVE IInv
    OBVIOUS
  <2>1. SystemInv
    BY DEF R1CSInit, EmptySystem, SystemInv, Systems
  <2> QED BY <2>1
          DEF R1CSInit, IInv, StructureInv, SizeInv, FreshInv, EvaluationSafe, EvaluationsAgree, Failed
<1>2. IInv /\ [R1CSNext]_rvars => IInv'
  BY SystemStep, StructureStep DEF IInv
<1> QED BY <1>1, <1>2, PTL DEF R1CSSpec

\* The evaluation of a validated or synthesized structure of any size, at assignments of any
\* lengths, never indexes out of range (evaluate_ccs, under validate and FromConstraintSystem),
\* and one with n <= l has no evaluation (the lengths n - l - 1 asks for after wrapping).
THEOREM EvaluationNeverPanics == R1CSSpec => []EvaluationSafe
<1>1. IInv => EvaluationSafe
  BY DEF IInv
<1> QED BY <1>1, R1CSInductive, PTL

\* Where it has a value, R1CSMatricesVar::evaluate_r1cs has the same.
THEOREM GadgetEvaluatesAlike == R1CSSpec => []EvaluationsAgree
<1>1. IInv => EvaluationsAgree
  BY DEF IInv
<1> QED BY <1>1, R1CSInductive, PTL

-----------------------------------------------------------------------------
(***************************************************************************)
(* Products of rows, and sums of combinations                              *)
(***************************************************************************)
\* The sums of the first terms, and of all n
SumsUp(g, n, t) ==
  g \in [0 .. n -> Nat] /\ g[0] = 0 /\ \A k \in 1 .. n : g[k] = g[k - 1] + t[k]

\* Terms are summed with a residue taken at every step, or at none; both sums exist.
LEMMA StepwiseSum ==
  ASSUME NEW M \in Nat, M > 0, NEW n \in Nat, NEW t \in [1 .. n -> Nat]
  PROVE  \E f \in [0 .. n -> Nat] : f[0] = 0 /\ \A k \in 1 .. n : f[k] = (f[k - 1] + t[k]) % M
<1>0. PICK step : step = [k \in 1 .. n |-> [x \in Nat |-> (x + t[k]) % M]]
  OBVIOUS
<1>1. step \in [1 .. n -> [Nat -> Nat]]
  <2>1. ASSUME NEW k \in 1 .. n, NEW x \in Nat PROVE (x + t[k]) % M \in Nat
    <3>1. x + t[k] \in Int
      OBVIOUS
    <3> QED BY <3>1, Remainder
  <2> QED BY <1>0, <2>1
<1>2. \A x \in Nat, k \in 1 .. n : step[k][x] = (x + t[k]) % M
  BY <1>0
<1>3. PICK f \in [0 .. n -> Nat] : f[0] = 0 /\ \A k \in 1 .. n : f[k] = step[k][f[k - 1]]
  <2>1. 0 \in Nat
    OBVIOUS
  <2> QED BY <1>1, <2>1, Recursion, Zenon
<1>4. ASSUME NEW k \in 1 .. n PROVE f[k] = (f[k - 1] + t[k]) % M
  <2>1. f[k - 1] \in Nat
    OBVIOUS
  <2> QED BY <1>2, <1>3, <2>1, Zenon
<1> QED BY <1>3, <1>4, Zenon

LEMMA PlainSum ==
  ASSUME NEW n \in Nat, NEW t \in [1 .. n -> Nat]
  PROVE  \E f : SumsUp(f, n, t)
<1>0. PICK step : step = [k \in 1 .. n |-> [x \in Nat |-> x + t[k]]]
  OBVIOUS
<1>1. step \in [1 .. n -> [Nat -> Nat]]
  BY <1>0
<1>2. \A x \in Nat, k \in 1 .. n : step[k][x] = x + t[k]
  BY <1>0
<1>3. PICK f \in [0 .. n -> Nat] : f[0] = 0 /\ \A k \in 1 .. n : f[k] = step[k][f[k - 1]]
  <2>1. 0 \in Nat
    OBVIOUS
  <2> QED BY <1>1, <2>1, Recursion, Zenon
<1>4. ASSUME NEW k \in 1 .. n PROVE f[k] = f[k - 1] + t[k]
  <2>1. f[k - 1] \in Nat
    OBVIOUS
  <2> QED BY <1>2, <1>3, <2>1, Zenon
<1> QED BY <1>3, <1>4, Zenon DEF SumsUp

\* Taken at every step or at the end, the residue is the same.
LEMMA SumsAgree ==
  ASSUME NEW M \in Nat, M > 0, NEW n \in Nat, NEW t \in [1 .. n -> Nat],
         NEW f, f[0] = 0, \A k \in 1 .. n : f[k] = (f[k - 1] + t[k]) % M,
         NEW g \in [0 .. n -> Nat], g[0] = 0, \A k \in 1 .. n : g[k] = g[k - 1] + t[k]
  PROVE  f[n] = g[n] % M
<1> DEFINE T == {k \in 0 .. n : f[k] = g[k] % M}
<1>1. 0 \in T
  <2>1. 0 \in 0 .. M - 1 /\ 0 \in 0 .. n
    OBVIOUS
  <2>2. 0 % M = 0
    BY <2>1, SmallResidue, Zenon
  <2> QED BY <2>1, <2>2, Zenon
<1>2. ASSUME NEW k \in 1 .. n, k - 1 \in T PROVE k \in T
  <2>1. k \in 0 .. n /\ g[k - 1] \in Nat /\ t[k] \in Nat
    OBVIOUS
  <2>2. PICK x \in Nat, y \in Nat : x = g[k - 1] /\ y = t[k]
    BY <2>1, Zenon
  <2>3. f[k - 1] = x % M
    BY <1>2, <2>2, Zenon
  <2>4. f[k] = ((x % M) + y) % M /\ g[k] = x + y
    BY <2>2, <2>3, Zenon
  <2>5. x \in Int /\ y \in Int
    OBVIOUS
  <2>6. ((x % M) + y) % M = (x + y) % M
    BY <2>5, Residue, Zenon
  <2> QED BY <2>1, <2>4, <2>6, Zenon
<1> HIDE DEF T
<1>3. 0 .. n \subseteq T
  BY <1>1, <1>2, UpTo, Zenon
<1>4. n \in 0 .. n
  OBVIOUS
<1> QED BY <1>3, <1>4 DEF T

\* The terms of the product of a row of length n
TermsOf(row, a, n, t) ==
  Len(row) = n /\ \A k \in 1 .. n : row[k][1] * At(a, row[k][2]) = t[k]

\* The product of a row is the residue of the sum of its terms.
LEMMA DotIsSum ==
  ASSUME NEW n \in Nat, NEW t \in [1 .. n -> Nat],
         NEW g, SumsUp(g, n, t),
         NEW row, NEW a, TermsOf(row, a, n, t)
  PROVE  Dot(row, a) = g[n] % Modulus
<1>0. Len(row) = n /\ \A k \in 1 .. n : row[k][1] * At(a, row[k][2]) = t[k]
  BY DEF TermsOf
<1> DEFINE Sums(f) ==
      f = [k \in 0 .. Len(row) |->
             IF k = 0 THEN 0 ELSE (f[k - 1] + row[k][1] * At(a, row[k][2])) % Modulus]
<1>1. Dot(row, a) = (CHOOSE f : Sums(f))[n]
  BY <1>0 DEF Dot
<1>2. \E f : Sums(f)
  <2>0. Modulus \in Nat /\ Modulus > 0
    BY ModulusAssumption
  <2>1. PICK f \in [0 .. n -> Nat] :
          f[0] = 0 /\ \A k \in 1 .. n : f[k] = (f[k - 1] + t[k]) % Modulus
    BY <2>0, StepwiseSum, Zenon
  <2>2. ASSUME NEW k \in 0 .. n
        PROVE  f[k] = IF k = 0 THEN 0 ELSE (f[k - 1] + row[k][1] * At(a, row[k][2])) % Modulus
    <3>1. CASE k = 0
      BY <2>1, <3>1
    <3>2. CASE k # 0
      <4>1. k \in 1 .. n
        BY <3>2
      <4> QED BY <1>0, <2>1, <3>2, <4>1
    <3> QED BY <3>1, <3>2
  <2>3. f = [k \in 0 .. n |-> f[k]]
    BY <2>1
  <2>4. Sums(f)
    BY <1>0, <2>2, <2>3
  <2> QED BY <2>4
<1>3. PICK f : Sums(f) /\ Dot(row, a) = f[n]
  BY <1>1, <1>2
<1>4. f[0] = 0
  BY <1>0, <1>3
<1>5. ASSUME NEW k \in 1 .. n PROVE f[k] = (f[k - 1] + t[k]) % Modulus
  <2>1. k \in 0 .. n /\ k # 0
    OBVIOUS
  <2>2. f[k] = (f[k - 1] + row[k][1] * At(a, row[k][2])) % Modulus
    BY <1>0, <1>3, <2>1
  <2> QED BY <1>0, <2>2
<1>6. Modulus \in Nat /\ Modulus > 0
  BY ModulusAssumption
<1>7. f[n] = g[n] % Modulus
  BY <1>4, <1>5, <1>6, SumsAgree, Zenon DEF SumsUp
<1> QED BY <1>3, <1>7

\* So is the sum of a combination.
LEMMA SumIsSum ==
  ASSUME NEW lc, NEW n \in Nat, Len(lc) = n, NEW t \in [1 .. n -> Nat],
         \A k \in 1 .. n : lc[k][1] * Value(lc[k][2]) = t[k]
  PROVE  \E f : SumsUp(f, n, t) /\ Sum(lc) = f[n] % Modulus
<1> DEFINE Sums(f) ==
      f = [k \in 0 .. Len(lc) |-> IF k = 0 THEN 0 ELSE f[k - 1] + lc[k][1] * Value(lc[k][2])]
<1>1. Sum(lc) = (CHOOSE f : Sums(f))[n] % Modulus
  BY DEF Sum
<1>0. PICK f : SumsUp(f, n, t)
  BY PlainSum
<1>2. f \in [0 .. n -> Nat] /\ f[0] = 0 /\ \A k \in 1 .. n : f[k] = f[k - 1] + t[k]
  BY <1>0 DEF SumsUp
<1>3. Sums(f)
  <2>1. ASSUME NEW k \in 0 .. n
        PROVE  f[k] = IF k = 0 THEN 0 ELSE f[k - 1] + lc[k][1] * Value(lc[k][2])
    <3>1. CASE k = 0
      BY <1>2, <3>1
    <3>2. CASE k # 0
      <4>1. k \in 1 .. n
        BY <3>2
      <4> QED BY <1>2, <3>2, <4>1
    <3> QED BY <3>1, <3>2
  <2>2. f = [k \in 0 .. n |-> f[k]]
    BY <1>2
  <2> QED BY <2>1, <2>2
<1>4. ASSUME NEW g, Sums(g) PROVE g = f
  <2> DEFINE T == {k \in 0 .. n : g[k] = f[k]}
  <2>1. 0 \in T
    BY <1>2, <1>4
  <2>2. ASSUME NEW k \in 1 .. n, k - 1 \in T PROVE k \in T
    <3>1. k \in 0 .. n /\ k # 0
      OBVIOUS
    <3>2. g[k] = g[k - 1] + lc[k][1] * Value(lc[k][2])
      BY <1>4, <3>1
    <3> QED BY <1>2, <2>2, <3>1, <3>2
  <2> HIDE DEF T
  <2>3. 0 .. n \subseteq T
    BY <2>1, <2>2, UpTo
  <2>4. \A k \in 0 .. n : g[k] = f[k]
    BY <2>3 DEF T
  <2>5. g = [k \in 0 .. n |-> g[k]] /\ f = [k \in 0 .. n |-> f[k]]
    BY <1>2, <1>4
  <2> QED BY <2>4, <2>5
<1>5. (CHOOSE g : Sums(g)) = f
  BY <1>3, <1>4
<1> QED BY <1>0, <1>1, <1>5

\* The assignments extracted hold the value of a variable at its column.
LEMMA ColumnHolds ==
  ASSUME SystemInv, NEW var \in Variables
  PROVE  At(ExtractedAssignments, Column(var)) = Value(var) /\ Value(var) \in Nat
<1> DEFINE ea == ExtractedAssignments
<1>1. PICK p \in Nat, q \in Nat : Len(cs.instance) = p /\ Len(cs.witness) = q
  BY DEF SystemInv, Systems
<1>2. ea.constant = 1 /\ ea.public = cs.instance /\ ea.private = cs.witness
  BY DEF ExtractedAssignments
<1>3. cs.instance \in Seq(Values) /\ cs.witness \in Seq(Values) /\ Values \subseteq Nat
  BY ElementsAssumption, ModulusAssumption DEF SystemInv, Systems, Elements
<1> HIDE DEF ea
<1>4. CASE var = <<"one", 0>>
  <2>1. Column(var) = 0 /\ Value(var) = 1
    BY <1>4 DEF Column, Value
  <2> QED BY <1>2, <2>1 DEF At, ea
<1>5. CASE \E k \in 1 .. p : var = <<"instance", k>>
  <2>1. PICK k \in 1 .. p : var = <<"instance", k>>
    BY <1>5
  <2>2. Column(var) = k /\ Value(var) = cs.instance[k]
    BY <2>1 DEF Column, Value
  <2>3. At(ea, k) = cs.instance[k]
    BY <1>1, <1>2 DEF At
  <2>4. cs.instance[k] \in Nat
    <3>1. cs.instance[k] \in Values
      BY <1>1, <1>3
    <3> QED BY <1>3, <3>1, Zenon
  <2> QED BY <2>2, <2>3, <2>4 DEF ea
<1>6. CASE \E k \in 1 .. q : var = <<"witness", k>>
  <2>1. PICK k \in 1 .. q : var = <<"witness", k>>
    BY <1>6
  <2>2. Column(var) = p + k /\ Value(var) = cs.witness[k]
    BY <1>1, <2>1 DEF Column, Value
  <2>3. p + k # 0 /\ ~(p + k <= p) /\ (p + k) - p = k
    OBVIOUS
  <2>4. At(ea, p + k) = cs.witness[k]
    BY <1>1, <1>2, <2>3 DEF At
  <2>5. cs.witness[k] \in Nat
    <3>1. cs.witness[k] \in Values
      BY <1>1, <1>3
    <3> QED BY <1>3, <3>1, Zenon
  <2> QED BY <2>2, <2>4, <2>5 DEF ea
<1> QED BY <1>1, <1>4, <1>5, <1>6 DEF Variables

\* So a row of the matrices evaluates as the combination it was made of.
LEMMA RowEvaluates ==
  ASSUME SystemInv, NEW lc \in Combinations, Closed(lc, Len(cs.instance), Len(cs.witness))
  PROVE  Dot(ToRow(lc), ExtractedAssignments) = Sum(lc) /\ Sum(lc) \in 0 .. Modulus - 1
<1>1. PICK n \in Nat : Len(lc) = n
  BY DEF Combinations
<1>2. Len(ToRow(lc)) = n /\ \A k \in 1 .. n : ToRow(lc)[k] = <<lc[k][1], Column(lc[k][2])>>
  BY <1>1 DEF ToRow
<1>3. ASSUME NEW k \in 1 .. n
      PROVE  /\ lc[k][1] \in Nat /\ Value(lc[k][2]) \in Nat
             /\ At(ExtractedAssignments, Column(lc[k][2])) = Value(lc[k][2])
  <2>1. lc[k][2] \in Variables
    BY <1>1 DEF Closed, Variables, AllocatedIn
  <2>2. lc[k] \in Elements \X (Kinds \X Nat)
    BY <1>1 DEF Combinations
  <2>3. lc[k][1] \in Nat
    BY <2>2, ModulusAssumption DEF Elements
  <2> QED BY <2>1, <2>3, ColumnHolds
<1>4. PICK t : t = [k \in 1 .. n |-> lc[k][1] * Value(lc[k][2])]
  OBVIOUS
<1>5. t \in [1 .. n -> Nat]
  <2>1. \A x, y \in Nat : x * y \in Nat
    BY SMT
  <2> QED BY <1>3, <1>4, <2>1, Zenon
<1>6. \A k \in 1 .. n : lc[k][1] * Value(lc[k][2]) = t[k]
  BY <1>4
<1>7. \A k \in 1 .. n : ToRow(lc)[k][1] * At(ExtractedAssignments, ToRow(lc)[k][2]) = t[k]
  <2>1. ASSUME NEW k \in 1 .. n
        PROVE  ToRow(lc)[k][1] = lc[k][1] /\ ToRow(lc)[k][2] = Column(lc[k][2])
    BY <1>2
  <2> QED BY <1>3, <1>6, <2>1, Zenon
<1>8. PICK g : SumsUp(g, n, t) /\ Sum(lc) = g[n] % Modulus
  BY <1>1, <1>5, <1>6, SumIsSum, Zenon
<1>9. Modulus \in Nat /\ Modulus > 0
  BY ModulusAssumption
<1>10. PICK row, ea : row = ToRow(lc) /\ ea = ExtractedAssignments
  OBVIOUS
<1>11. Dot(row, ea) = g[n] % Modulus
  <2>1. TermsOf(row, ea, n, t)
    BY <1>2, <1>7, <1>10 DEF TermsOf
  <2> QED BY <1>5, <1>8, <2>1, DotIsSum
<1>12. g[n] \in Int
  BY <1>8 DEF SumsUp
<1>13. g[n] % Modulus \in 0 .. Modulus - 1
  BY <1>9, <1>12, Remainder, Zenon
<1> QED BY <1>8, <1>10, <1>11, <1>13, Zenon

\* The relation of a constraint is 0 exactly if the constraint holds.
LEMMA RelationZero ==
  ASSUME NEW x \in 0 .. Modulus - 1, NEW y \in 0 .. Modulus - 1, NEW w \in 0 .. Modulus - 1
  PROVE  (x * y - 1 * w) % Modulus = 0 <=> x * y % Modulus = w
<1>1. Modulus \in Nat /\ Modulus > 0
  BY ModulusAssumption
<1>2. x * y \in Int /\ 1 * w = w
  BY SMT
<1> QED BY <1>1, <1>2, DifferenceZero, ZenonT(30)

\* What is extracted from a circuit evaluates to 0 exactly if its constraints hold.
LEMMA ExtractedEvaluates ==
  ASSUME SystemInv
  PROVE  LET s == FromConstraintSystem
             v == EvaluateNatively(s, ExtractedAssignments, TRUE)
         IN  /\ Validates(s) /\ ~Underflows(s)
             /\ v.tag = "value"
             /\ PlainCheck(v.v) = "satisfied" <=> Satisfied
<1> DEFINE s == FromConstraintSystem
           ea == ExtractedAssignments
           v == EvaluateNatively(s, ea, TRUE)
<1>1. PICK p \in Nat, q \in Nat, m \in Nat :
        Len(cs.instance) = p /\ Len(cs.witness) = q /\ Len(cs.rows) = m
  BY DEF SystemInv, Systems
<1>2. s.m = m /\ s.n = (1 + p) + q /\ s.l = (1 + p) - 1
  BY <1>1 DEF FromConstraintSystem
<1>3. Sound(s)
  BY ExtractedSound
<1>4. \A r \in 1 .. m, i \in 1 .. 3 : s.matrices[i][r] = ToRow(cs.rows[r][i])
  BY <1>1 DEF FromConstraintSystem
<1>5. ea.constant = 1 /\ Len(ea.public) = p /\ Len(ea.private) = q
  BY <1>1 DEF ExtractedAssignments
<1>6. ASSUME NEW r \in 1 .. m, NEW i \in 1 .. 3
      PROVE  /\ Dot(s.matrices[i][r], ea) = Sum(cs.rows[r][i])
             /\ Sum(cs.rows[r][i]) \in 0 .. Modulus - 1
  <2>1. cs.rows[r] \in Constraints
    BY <1>1 DEF SystemInv, Systems
  <2>2. cs.rows[r][i] \in Combinations
    <3>1. i = 1 \/ i = 2 \/ i = 3
      OBVIOUS
    <3> QED BY <2>1, <3>1 DEF Constraints
  <2>3. Closed(cs.rows[r][i], Len(cs.instance), Len(cs.witness))
    BY <1>1 DEF SystemInv
  <2>4. /\ Dot(ToRow(cs.rows[r][i]), ea) = Sum(cs.rows[r][i])
        /\ Sum(cs.rows[r][i]) \in 0 .. Modulus - 1
    BY <2>2, <2>3, RowEvaluates
  <2> QED BY <1>4, <2>4
<1> HIDE DEF s, ea
<1>7. ~Underflows(s)
  BY <1>2 DEF Underflows
<1>8. Validates(s)
  <2>1. ASSUME NEW i \in 1 .. 3 PROVE Len(s.matrices[i]) = s.m
    BY <1>3 DEF Sound
  <2>2. ASSUME NEW i \in 1 .. 3, NEW r \in 1 .. s.m, NEW k \in 1 .. Len(s.matrices[i][r])
        PROVE  s.matrices[i][r][k][2] < s.n
    <3>1. s.matrices[i][r][k][2] \in 0 .. s.n - 1
      BY <1>3 DEF Sound
    <3> QED BY <1>2, <3>1, SMTT(30)
  <2> QED BY <2>1, <2>2 DEF Validates
<1>9. Len(ea.public) = s.l /\ Len(ea.private) = Witnesses(s)
  BY <1>2, <1>5, <1>7 DEF Witnesses
<1>10. ~ \E i \in 1 .. 3 : \E r \in 1 .. s.m :
          r > Len(s.matrices[i]) \/ ~RowFits(s.matrices[i][r], ea)
  <2> SUFFICES ASSUME NEW i \in 1 .. 3, NEW r \in 1 .. s.m
               PROVE  ~(r > Len(s.matrices[i])) /\ RowFits(s.matrices[i][r], ea)
    OBVIOUS
  <2>1. r <= Len(s.matrices[i]) /\ RowFits(s.matrices[i][r], ea)
    BY <1>3, <1>7, <1>9, SoundFits
  <2>2. Len(s.matrices[i]) = s.m /\ s.m \in Nat
    BY <1>3 DEF Sound
  <2> QED BY <2>1, <2>2
<1>11. v = Evaluated([r \in 1 .. s.m |->
             (Dot(s.matrices[1][r], ea) * Dot(s.matrices[2][r], ea)
                - ea.constant * Dot(s.matrices[3][r], ea)) % Modulus])
  BY <1>7, <1>9, <1>10 DEF EvaluateNatively
<1> HIDE DEF v
<1>12. v.tag = "value" /\ DOMAIN v.v = 1 .. m
  BY <1>2, <1>11 DEF Evaluated
<1>13. ASSUME NEW r \in 1 .. m
       PROVE  v.v[r] = 0 <=> Sum(cs.rows[r][1]) * Sum(cs.rows[r][2]) % Modulus = Sum(cs.rows[r][3])
  <2>1. PICK x \in 0 .. Modulus - 1, y \in 0 .. Modulus - 1, w \in 0 .. Modulus - 1 :
          x = Sum(cs.rows[r][1]) /\ y = Sum(cs.rows[r][2]) /\ w = Sum(cs.rows[r][3])
    BY <1>6
  <2>2. v.v[r] = (Dot(s.matrices[1][r], ea) * Dot(s.matrices[2][r], ea)
                    - ea.constant * Dot(s.matrices[3][r], ea)) % Modulus
    BY <1>2, <1>11 DEF Evaluated
  <2>3. v.v[r] = (x * y - 1 * w) % Modulus
    <3>1. Dot(s.matrices[1][r], ea) = x /\ Dot(s.matrices[2][r], ea) = y /\ Dot(s.matrices[3][r], ea) = w
      BY <1>6, <2>1
    <3> QED BY <1>5, <2>2, <3>1, Zenon
  <2>4. (x * y - 1 * w) % Modulus = 0 <=> x * y % Modulus = w
    BY RelationZero
  <2> QED BY <2>1, <2>3, <2>4, Zenon
<1>14. PlainCheck(v.v) = "satisfied" <=> \A r \in 1 .. m : v.v[r] = 0
  BY <1>12 DEF PlainCheck
<1>15. PlainCheck(v.v) = "satisfied" <=> Satisfied
  BY <1>1, <1>13, <1>14, Zenon DEF Satisfied
<1> QED BY <1>7, <1>8, <1>12, <1>15 DEF v, s, ea

\* What was evaluated when a circuit was extracted
ExtractInv ==
  built = "synthesized" =>
    /\ arith = FromConstraintSystem
    /\ native = EvaluateNatively(FromConstraintSystem, ExtractedAssignments, TRUE)

LEMMA ExtractedExact == ASSUME IInv, ExtractInv PROVE ExtractionExact
<1> SUFFICES ASSUME built = "synthesized" PROVE ExtractionExact
  BY DEF ExtractionExact
<1>1. arith = FromConstraintSystem
  BY DEF ExtractInv
<1>2. native = EvaluateNatively(FromConstraintSystem, ExtractedAssignments, TRUE)
  BY DEF ExtractInv
<1>3. /\ Validates(arith) /\ ~Underflows(arith)
      /\ native.tag = "value"
      /\ PlainCheck(native.v) = "satisfied" <=> Satisfied
  BY <1>1, <1>2, ExtractedEvaluates DEF IInv
<1>4. wired = native
  BY <1>3 DEF IInv, EvaluationsAgree
<1> QED BY <1>3, <1>4 DEF ExtractionExact

LEMMA ExtractStep == ASSUME IInv, ExtractInv, [R1CSNext]_rvars PROVE ExtractInv'
<1>1. CASE Extract
  <2>1. built' = "synthesized" /\ UNCHANGED cs
        /\ arith' = FromConstraintSystem
        /\ native' = EvaluateNatively(FromConstraintSystem, ExtractedAssignments, TRUE)
    BY <1>1 DEF Extract
  <2>2. FromConstraintSystem' = FromConstraintSystem /\ ExtractedAssignments' = ExtractedAssignments
    BY <2>1, ZenonT(30) DEF FromConstraintSystem, ToRow, Column, ExtractedAssignments
  <2> QED BY <2>1, <2>2 DEF ExtractInv
<1>2. CASE built' # "synthesized"
  BY <1>2 DEF ExtractInv
<1>3. CASE UNCHANGED <<cs, built, arith, native>>
  <2>1. FromConstraintSystem' = FromConstraintSystem /\ ExtractedAssignments' = ExtractedAssignments
    BY <1>3 DEF FromConstraintSystem, ToRow, Column, ExtractedAssignments
  <2> QED BY <1>3, <2>1 DEF ExtractInv
<1>4. Synthesizing \/ LoadValidated \/ LoadUnchecked \/ Evaluate => built' # "synthesized"
  BY DEF Synthesizing, LoadValidated, LoadUnchecked, Evaluate
<1> QED BY <1>1, <1>2, <1>3, <1>4
        DEF R1CSNext, rvars, AllocateInput, AllocateWitness, Enforce, MarkAsPublic

\* The value of evaluate_r1cs has an element for every constraint.
ValueInv ==
  /\ arith.m \in Nat
  /\ native.tag = "value" => native.v = [r \in 1 .. arith.m |-> native.v[r]]

LEMMA NativeValue ==
  ASSUME NEW s, NEW a, NEW checks \in BOOLEAN, EvaluateNatively(s, a, checks).tag = "value"
  PROVE  EvaluateNatively(s, a, checks).v
           = [r \in 1 .. s.m |-> EvaluateNatively(s, a, checks).v[r]]
<1> DEFINE e == [r \in 1 .. s.m |->
                   (Dot(s.matrices[1][r], a) * Dot(s.matrices[2][r], a)
                      - a.constant * Dot(s.matrices[3][r], a)) % Modulus]
<1>1. EvaluateNatively(s, a, checks) = Evaluated(e)
  BY DEF EvaluateNatively, Evaluated, Failed
<1>2. e = [r \in 1 .. s.m |-> e[r]]
  OBVIOUS
<1> HIDE DEF e
<1> QED BY <1>1, <1>2 DEF Evaluated

LEMMA ValueStep == ASSUME IInv, ValueInv, [R1CSNext]_rvars PROVE ValueInv'
<1>1. CASE Extract
  <2>1. /\ arith' = FromConstraintSystem
        /\ native' = EvaluateNatively(arith', ExtractedAssignments, TRUE)
    BY <1>1 DEF Extract
  <2>2. arith'.m \in Nat
    BY <2>1 DEF IInv, SystemInv, Systems, FromConstraintSystem
  <2>3. native'.tag = "value" => native'.v = [r \in 1 .. arith'.m |-> native'.v[r]]
    <3>1. PICK s, a : s = arith' /\ a = ExtractedAssignments
      OBVIOUS
    <3>2. PICK c \in BOOLEAN : native' = EvaluateNatively(s, a, c)
      BY <2>1, <3>1, Zenon
    <3> QED BY <3>1, <3>2, NativeValue
  <2> QED BY <2>2, <2>3 DEF ValueInv
<1>2. CASE LoadValidated
  <2>1. PICK s \in Loaded : arith' = s \/ arith' = arith
    BY <1>2 DEF LoadValidated
  <2>2. arith'.m \in Nat
    BY <2>1, LoadedAssumption DEF ValueInv, Structures
  <2>3. native'.tag = "none"
    BY <1>2 DEF LoadValidated, IInv, FreshInv
  <2> QED BY <2>2, <2>3 DEF ValueInv
<1>3. CASE LoadUnchecked
  <2>1. PICK s \in Loaded : arith' = s
    BY <1>3 DEF LoadUnchecked
  <2>2. arith'.m \in Nat
    BY <2>1, LoadedAssumption DEF Structures
  <2>3. native'.tag = "none"
    BY <1>3 DEF LoadUnchecked, IInv, FreshInv
  <2> QED BY <2>2, <2>3 DEF ValueInv
<1>4. CASE Evaluate
  <2>1. PICK a : \E checks \in BOOLEAN : native' = EvaluateNatively(arith, a, checks)
    <3>1. PICK u \in Values, public \in Parts, private \in Parts, checks \in BOOLEAN :
            native' = EvaluateNatively(arith, [constant |-> u, public |-> public, private |-> private],
                                       checks)
      BY <1>4 DEF Evaluate
    <3> QED BY <3>1
  <2>2. arith' = arith /\ arith.m \in Nat
    BY <1>4 DEF Evaluate, ValueInv
  <2>3. native'.tag = "value" => native'.v = [r \in 1 .. arith.m |-> native'.v[r]]
    BY <2>1, NativeValue
  <2> QED BY <2>2, <2>3 DEF ValueInv
<1>5. CASE UNCHANGED <<arith, native>>
  BY <1>5 DEF ValueInv
<1> QED BY <1>1, <1>2, <1>3, <1>4, <1>5
        DEF R1CSNext, rvars, Synthesizing, AllocateInput, AllocateWitness, Enforce, MarkAsPublic

\* One error term satisfies the relaxed relation: the value.
LEMMA OneErrorTerm ==
  ASSUME NEW m \in Nat, NEW v, v = [r \in 1 .. m |-> v[r]],
         NEW n \in Nat, NEW e \in [1 .. n -> Elements]
  PROVE  RelaxedCheck(e, v) = "satisfied" <=> e = v
<1>1. Len(e) = n
  <2>1. e \in Seq(Elements)
    OBVIOUS
  <2> QED BY <2>1
<1>2. Len(v) = m /\ DOMAIN v = 1 .. m
  <2>1. PICK S : \A r \in 1 .. m : v[r] \in S
    <3>1. \A r \in 1 .. m : v[r] \in {v[k] : k \in 1 .. m}
      OBVIOUS
    <3> QED BY <3>1
  <2>2. v \in [1 .. m -> S]
    BY <2>1
  <2>3. v \in Seq(S)
    BY <2>2
  <2> QED BY <2>2, <2>3
<1>3. ASSUME e = v PROVE RelaxedCheck(e, v) = "satisfied"
  BY <1>3 DEF RelaxedCheck
<1>4. ASSUME RelaxedCheck(e, v) = "satisfied" PROVE e = v
  <2>1. n = m /\ \A r \in 1 .. m : e[r] = v[r]
    BY <1>1, <1>2, <1>4 DEF RelaxedCheck
  <2>2. e = [r \in 1 .. m |-> e[r]]
    BY <2>1
  <2> QED BY <2>1, <2>2
<1> QED BY <1>3, <1>4

LEMMA ExactRelaxation == ASSUME ValueInv PROVE RelaxationExact
<1> SUFFICES ASSUME native.tag = "value",
                    NEW e \in UNION {[1 .. k -> Elements] : k \in 0 .. arith.m + 1}
             PROVE  RelaxedCheck(e, native.v) = "satisfied" <=>
                      /\ e = native.v
                      /\ z.constant = 1 => (PlainCheck(native.v) = "satisfied" <=> e = NoError(arith))
  BY DEF RelaxationExact
<1>1. PICK m \in Nat, v \in {native.v} : m = arith.m /\ v = native.v
  BY DEF ValueInv
<1>2. v = [r \in 1 .. m |-> v[r]]
  BY <1>1 DEF ValueInv
<1>3. PICK n \in Nat : e \in [1 .. n -> Elements]
  BY <1>1
<1>4. RelaxedCheck(e, v) = "satisfied" <=> e = v
  BY <1>2, <1>3, OneErrorTerm
<1>5. PlainCheck(v) = "satisfied" <=> v = NoError(arith)
  <2>1. DOMAIN v = 1 .. m
    BY <1>2
  <2>2. PlainCheck(v) = "satisfied" <=> \A r \in 1 .. m : v[r] = 0
    BY <2>1 DEF PlainCheck
  <2>3. NoError(arith) = [r \in 1 .. m |-> 0]
    BY <1>1 DEF NoError
  <2>4. (\A r \in 1 .. m : v[r] = 0) <=> v = [r \in 1 .. m |-> 0]
    BY <1>2
  <2> QED BY <2>2, <2>3, <2>4
<1> QED BY <1>1, <1>4, <1>5

\* Both invariants hold.
LEMMA RelationsInductive == R1CSSpec => [](IInv /\ ExtractInv /\ ValueInv)
<1>1. R1CSInit => ExtractInv /\ ValueInv
  BY DEF R1CSInit, ExtractInv, ValueInv, Failed
<1>2. IInv /\ ExtractInv /\ ValueInv /\ [R1CSNext]_rvars => ExtractInv' /\ ValueInv'
  BY ExtractStep, ValueStep
<1> QED BY <1>1, <1>2, R1CSInductive, PTL DEF R1CSSpec

\* What ArithExtractor and AssignmentsExtractor obtain from a circuit, whatever its inputs,
\* witnesses and constraints: a valid structure and assignments that satisfy its relation, in
\* code and in the gadget, exactly if the constraints of the circuit hold.
THEOREM ExtractionIsExact == R1CSSpec => []ExtractionExact
<1>1. IInv /\ ExtractInv => ExtractionExact
  BY ExtractedExact
<1> QED BY <1>1, RelationsInductive, PTL

\* The relaxed check of a structure of any size, at any assignments, is satisfied by one error
\* term; it is zero where the plain check is satisfied.
THEOREM RelaxationIsExact == R1CSSpec => []RelaxationExact
<1>1. ValueInv => RelaxationExact
  BY ExactRelaxation
<1> QED BY <1>1, RelationsInductive, PTL

-----------------------------------------------------------------------------
(***************************************************************************)
(* Scalars that are multiplied by their bits                               *)
(***************************************************************************)
\* The bits of a number up to one more: the residue of the power before, and the next bit
LEMMA NextBit ==
  ASSUME NEW w \in Nat, NEW b \in Nat, b > 0
  PROVE  w % (2 * b) = (w % b) + ((w \div b) % 2) * b
<1>1. PICK q \in Int, r \in 0 .. b - 1 : w \div b = q /\ w % b = r /\ w = b * q + r
  BY Remainder
<1>2. PICK h \in Int, c \in 0 .. 1 : q % 2 = c /\ q = 2 * h + c
  <2>1. q % 2 \in 0 .. 1 /\ q \div 2 \in Int /\ q = 2 * (q \div 2) + (q % 2)
    BY SMT
  <2> QED BY <2>1
<1>3. w = (r + c * b) + (2 * b) * h
  <2>1. b * q = (2 * b) * h + c * b
    BY <1>2, SMT
  <2> QED BY <1>1, <2>1, SMT
<1>4. r + c * b \in 0 .. 2 * b - 1 /\ 2 * b \in Nat /\ 2 * b > 0 /\ r + c * b \in Int
  <2>1. c = 0 \/ c = 1
    BY <1>2
  <2>2. c * b = 0 \/ c * b = b
    BY <2>1, SMT
  <2> QED BY <2>2, SMT
<1>5. PICK m \in Nat, x \in Int : m = 2 * b /\ x = r + c * b
  BY <1>4
<1>6. m > 0 /\ x \in 0 .. m - 1 /\ w = x + m * h
  BY <1>3, <1>4, <1>5
<1>7. w % m = x % m
  BY <1>5, <1>6, Shift
<1>8. x % m = x
  BY <1>6, SmallResidue
<1> QED BY <1>1, <1>2, <1>5, <1>7, <1>8

LEMMA PowerPositive == ASSUME NEW k \in Nat PROVE 2 ^ k \in Nat /\ k < 2 ^ k
<1> DEFINE T == {j \in 0 .. k : j < 2 ^ j}
<1>1. 0 \in T
  <2>1. 2 ^ 0 = 1
    OBVIOUS
  <2>2. 0 \in 0 .. k /\ 0 < 1
    OBVIOUS
  <2> QED BY <2>1, <2>2, Zenon
<1>2. ASSUME NEW j \in 1 .. k, j - 1 \in T PROVE j \in T
  <2>1. j - 1 \in Nat /\ j = (j - 1) + 1 /\ j \in 0 .. k
    OBVIOUS
  <2>2. PICK p \in Nat : p = 2 ^ (j - 1) /\ 2 ^ j = 2 * p
    BY <2>1, PowerDoubles
  <2>3. j - 1 < p
    BY <1>2, <2>2
  <2>4. j < 2 * p
    BY <2>3
  <2> QED BY <2>1, <2>2, <2>4
<1> HIDE DEF T
<1>3. 0 .. k \subseteq T
  BY <1>1, <1>2, UpTo, Zenon
<1>4. k \in 0 .. k
  OBVIOUS
<1>5. k < 2 ^ k
  BY <1>3, <1>4 DEF T
<1> QED BY <1>5, PowerDoubles

\* What a point is multiplied by is the scalar that the bits stand for.
LEMMA TimesReduces == ASSUME NEW w \in Wires PROVE Times(w) = w % Order
<1>0. /\ ScalarBits \in Nat /\ Order \in Nat /\ Order > 0
      /\ 2 ^ ScalarBits \in Nat /\ w \in Nat /\ w \in 0 .. 2 ^ ScalarBits - 1
  BY OrderAssumption, PowerDoubles DEF Wires
<1> DEFINE term(j) == ((w \div 2 ^ (j - 1)) % 2) * 2 ^ (j - 1)
           Up(f) == f = [j \in 0 .. ScalarBits |-> IF j = 0 THEN 0 ELSE (f[j - 1] + term(j)) % Order]
<1>1. Times(w) = (CHOOSE f : Up(f))[ScalarBits]
  BY DEF Times
<1>2. ASSUME NEW j \in 1 .. ScalarBits
      PROVE  /\ term(j) \in Nat
             /\ w % 2 ^ j = (w % 2 ^ (j - 1)) + term(j)
             /\ w % 2 ^ (j - 1) \in Nat
  <2>1. j - 1 \in Nat /\ (j - 1) + 1 = j
    OBVIOUS
  <2>2. PICK b \in Nat : b = 2 ^ (j - 1) /\ 2 ^ j = 2 * b /\ b > 0
    BY <2>1, PowerDoubles, PowerPositive
  <2>3. w % (2 * b) = (w % b) + ((w \div b) % 2) * b
    BY <1>0, <2>2, NextBit
  <2>4. w % b \in Nat /\ ((w \div b) % 2) * b \in Nat
    <3>1. w % b \in 0 .. b - 1 /\ w \div b \in Int
      BY <1>0, <2>2, Remainder
    <3>2. PICK c \in 0 .. 1 : c = (w \div b) % 2
      <4>1. 2 \in Nat /\ 2 > 0 /\ 2 - 1 = 1
        OBVIOUS
      <4> QED BY <3>1, <4>1, Remainder, Zenon
    <3>3. c * b \in Nat
      BY SMT
    <3> QED BY <3>1, <3>2, <3>3
  <2> QED BY <2>2, <2>3, <2>4
<1>3. \E f : Up(f)
  <2>1. PICK step : step = [j \in 1 .. ScalarBits |-> [x \in Nat |-> (x + term(j)) % Order]]
    OBVIOUS
  <2>2. step \in [1 .. ScalarBits -> [Nat -> Nat]]
    <3>1. ASSUME NEW j \in 1 .. ScalarBits, NEW x \in Nat PROVE (x + term(j)) % Order \in Nat
      <4>1. PICK y \in Nat : y = term(j)
        BY <1>2
      <4>2. x + y \in Int
        OBVIOUS
      <4>3. (x + y) % Order \in 0 .. Order - 1
        BY <1>0, <4>2, Remainder
      <4> QED BY <1>0, <4>1, <4>3
    <3> HIDE DEF term
    <3> QED BY <2>1, <3>1
  <2>3. PICK f \in [0 .. ScalarBits -> Nat] :
          f[0] = 0 /\ \A j \in 1 .. ScalarBits : f[j] = step[j][f[j - 1]]
    <3>1. 0 \in Nat
      OBVIOUS
    <3> QED BY <1>0, <2>2, <3>1, Recursion, ZenonT(30)
  <2> HIDE DEF term
  <2>4. ASSUME NEW j \in 0 .. ScalarBits
        PROVE  f[j] = IF j = 0 THEN 0 ELSE (f[j - 1] + term(j)) % Order
    <3>1. CASE j = 0
      BY <2>3, <3>1
    <3>2. CASE j # 0
      <4>1. j \in 1 .. ScalarBits /\ j - 1 \in 0 .. ScalarBits
        BY <1>0, <3>2
      <4>2. f[j - 1] \in Nat
        BY <2>3, <4>1, Zenon
      <4>3. f[j] = (f[j - 1] + term(j)) % Order
        BY <2>1, <2>3, <4>1, <4>2, Zenon
      <4> QED BY <3>2, <4>3
    <3> QED BY <3>1, <3>2
  <2>5. f = [j \in 0 .. ScalarBits |-> f[j]]
    BY <2>3
  <2> QED BY <2>4, <2>5
<1>4. PICK f : Up(f) /\ Times(w) = f[ScalarBits]
  BY <1>1, <1>3
<1> HIDE DEF term
<1> DEFINE T == {j \in 0 .. ScalarBits : f[j] = (w % 2 ^ j) % Order}
<1>5. 0 \in T
  <2>1. 0 \in 0 .. ScalarBits /\ f[0] = 0
    BY <1>0, <1>4
  <2>2. 2 ^ 0 = 1 /\ w % 1 = 0
    BY <1>0
  <2>3. 0 % Order = 0
    BY <1>0, SmallResidue
  <2> QED BY <2>1, <2>2, <2>3, Zenon
<1>6. ASSUME NEW j \in 1 .. ScalarBits, j - 1 \in T PROVE j \in T
  <2>1. j \in 0 .. ScalarBits /\ j # 0
    OBVIOUS
  <2>2. f[j] = (f[j - 1] + term(j)) % Order
    BY <1>4, <2>1
  <2>3. PICK a \in Int, y \in Int : a = w % 2 ^ (j - 1) /\ y = term(j) /\ w % 2 ^ j = a + y
    BY <1>2
  <2>4. f[j] = ((a % Order) + y) % Order
    BY <1>6, <2>2, <2>3
  <2>5. ((a % Order) + y) % Order = (a + y) % Order
    BY <1>0, Residue
  <2> QED BY <2>1, <2>3, <2>4, <2>5
<1> HIDE DEF T
<1>7. 0 .. ScalarBits \subseteq T
  BY <1>0, <1>5, <1>6, UpTo, Zenon
<1>8. Times(w) = (w % 2 ^ ScalarBits) % Order
  <2>1. ScalarBits \in 0 .. ScalarBits
    BY <1>0
  <2> QED BY <1>4, <1>7, <2>1 DEF T
<1>9. w % 2 ^ ScalarBits = w
  <2>1. PICK p \in Nat : p = 2 ^ ScalarBits /\ p > 0 /\ w \in 0 .. p - 1
    BY <1>0
  <2> QED BY <2>1, SmallResidue
<1> QED BY <1>8, <1>9

-----------------------------------------------------------------------------
(***************************************************************************)
(* Commitments and their openings                                          *)
(***************************************************************************)
\* next_power_of_two returns a number.
LEMMA NextPowerExists == ASSUME NEW n \in Nat PROVE NextPowerOfTwo(n) \in Nat
<1>1. CASE n = 0
  BY <1>1 DEF NextPowerOfTwo
<1>2. CASE n # 0
  <2> DEFINE T == {k \in Nat : n <= 2 ^ k}
             powers == {2 ^ k : k \in 0 .. n}
  <2>1. n \in T
    BY PowerPositive
  <2> HIDE DEF T
  <2>2. PICK k \in T : \A j \in T : k <= j
    <3>1. T \in SUBSET Nat
      BY DEF T
    <3> QED BY <2>1, <3>1, Least, Zenon
  <2>3. k \in 0 .. n /\ n <= 2 ^ k /\ 2 ^ k \in Nat
    BY <2>1, <2>2, PowerPositive DEF T
  <2>4. 2 ^ k < 2 * n
    <3>1. CASE k = 0
      <4>1. 2 ^ 0 = 1
        OBVIOUS
      <4> QED BY <1>2, <3>1, <4>1
    <3>2. CASE k # 0
      <4>1. k - 1 \in Nat /\ (k - 1) + 1 = k /\ ~(k <= k - 1)
        BY <2>3, <3>2
      <4>2. k - 1 \notin T
        BY <2>2, <4>1
      <4>3. PICK p \in Nat : p = 2 ^ (k - 1) /\ 2 ^ k = 2 * p
        BY <4>1, PowerDoubles
      <4>4. ~(n <= p)
        BY <4>1, <4>2, <4>3 DEF T
      <4> QED BY <4>3, <4>4
    <3> QED BY <3>1, <3>2
  <2>5. \E p \in powers : n <= p /\ p < 2 * n
    BY <2>3, <2>4
  <2>6. NextPowerOfTwo(n) = CHOOSE p \in powers : n <= p /\ p < 2 * n
    BY <1>2 DEF NextPowerOfTwo
  <2>7. NextPowerOfTwo(n) \in powers
    BY <2>5, <2>6
  <2>8. \A p \in powers : p \in Nat
    BY PowerPositive
  <2> QED BY <2>7, <2>8
<1> QED BY <1>1, <1>2

KeyInv ==
  /\ key.g \in Nat /\ key.hiding \in BOOLEAN
  /\ key = NoKey => commitment = <<>>

\* What is committed to fits the key, and is what the commitment is made of.
CommitInv ==
  commitment # <<>> =>
    /\ message \in Vectors(Scalars) /\ ~TooLong(key, message)
    /\ randomness \in (IF key.hiding THEN Scalars ELSE {0})
    /\ commitment = CommitWith(key, message, randomness)

PedersenInv == KeyInv /\ CommitInv

LEMMA VectorType ==
  ASSUME NEW S, NEW v \in Vectors(S)
  PROVE  /\ Len(v) \in 0 .. MaxMessage /\ DOMAIN v = 1 .. Len(v)
         /\ \A i \in 1 .. Len(v) : v[i] \in S
<1>1. PICK k \in 0 .. MaxMessage : v \in [1 .. k -> S]
  BY DEF Vectors
<1>2. k \in Nat
  BY LengthsAssumption
<1>3. Len(v) = k
  <2>1. v \in Seq(S)
    BY <1>1, <1>2
  <2> QED BY <1>1, <1>2, <2>1
<1> QED BY <1>1, <1>3

\* Commitments are equal exactly if the messages are, up to zeros, and the randomness.
LEMMA CommitBinds ==
  ASSUME NEW k, k.g \in Nat, k.hiding \in BOOLEAN,
         NEW v, NEW n \in 0 .. MaxMessage, Len(v) = n, n <= k.g,
         NEW w, NEW m \in 0 .. MaxMessage, Len(w) = m, m <= k.g,
         NEW r, NEW s, ~k.hiding => r = s
  PROVE  CommitWith(k, v, r) = CommitWith(k, w, s) <=> Padded(v) = Padded(w) /\ r = s
<1> DEFINE at(u, i) == IF i <= Len(u) THEN u[i] ELSE 0
           entry(u, t, i) == IF i = 0 THEN (IF k.hiding THEN t ELSE 0) ELSE at(u, i)
<1>0. MaxMessage \in Nat
  BY LengthsAssumption
<1>1. ASSUME NEW u, NEW t PROVE CommitWith(k, u, t) = [i \in 0 .. k.g |-> entry(u, t, i)]
  <2>1. ASSUME NEW i \in 0 .. k.g, i # 0 PROVE Msm(k, u)[i] = at(u, i)
    <3>1. i \in 1 .. k.g
      BY <2>1
    <3> QED BY <3>1 DEF Msm
  <2> HIDE DEF at
  <2> QED BY <2>1 DEF CommitWith, Blinded
<1>2. \A u : Padded(u) = [i \in 1 .. MaxMessage |-> at(u, i)]
  BY DEF Padded
<1> HIDE DEF entry
<1>3. CommitWith(k, v, r) = CommitWith(k, w, s) <=>
        \A i \in 0 .. k.g : entry(v, r, i) = entry(w, s, i)
  BY <1>1
<1>4. (\A i \in 0 .. k.g : entry(v, r, i) = entry(w, s, i)) <=>
        r = s /\ \A i \in 1 .. k.g : at(v, i) = at(w, i)
  <2> HIDE DEF at
  <2>1. \A i : i \in 0 .. k.g <=> (i = 0 \/ i \in 1 .. k.g)
    OBVIOUS
  <2>2. entry(v, r, 0) = entry(w, s, 0) <=> r = s
    BY DEF entry
  <2>3. \A i \in 1 .. k.g : entry(v, r, i) = at(v, i) /\ entry(w, s, i) = at(w, i)
    BY DEF entry
  <2> QED BY <2>1, <2>2, <2>3
<1>5. (\A i \in 1 .. k.g : at(v, i) = at(w, i)) <=> (\A i \in 1 .. MaxMessage : at(v, i) = at(w, i))
  <2>1. ASSUME NEW i \in Nat, i > k.g \/ i > MaxMessage PROVE at(v, i) = 0 /\ at(w, i) = 0
    BY <1>0, <2>1
  <2> HIDE DEF at
  <2>2. ASSUME \A i \in 1 .. k.g : at(v, i) = at(w, i), NEW i \in 1 .. MaxMessage
        PROVE  at(v, i) = at(w, i)
    BY <1>0, <2>1, <2>2
  <2>3. ASSUME \A i \in 1 .. MaxMessage : at(v, i) = at(w, i), NEW i \in 1 .. k.g
        PROVE  at(v, i) = at(w, i)
    BY <1>0, <2>1, <2>3
  <2> QED BY <2>2, <2>3
<1>6. Padded(v) = Padded(w) <=> \A i \in 1 .. MaxMessage : at(v, i) = at(w, i)
  BY <1>2
<1> QED BY <1>3, <1>4, <1>5, <1>6

\* The circuit multiplies by the reduced scalars.
LEMMA CircuitReduces ==
  ASSUME NEW k, NEW v \in Vectors(Wires), NEW r \in Wires, ~TooLong(k, v), NEW cm
  PROVE  OpensInCircuit(k, v, r, cm) <=> Opens(k, Reduced(v), r % Order, cm)
<1>1. DOMAIN v = 1 .. Len(v) /\ \A i \in DOMAIN v : v[i] \in Wires
  BY VectorType
<1>2. [i \in DOMAIN v |-> Times(v[i])] = Reduced(v)
  BY <1>1, TimesReduces DEF Reduced
<1>3. Times(r) = r % Order
  BY TimesReduces
<1>4. Len(Reduced(v)) = Len(v)
  BY <1>1, VectorType DEF Reduced
<1> QED BY <1>2, <1>3, <1>4 DEF OpensInCircuit, Opens, CommitWith, TooLong

\* It ends with the generators, whatever is left of the message.
LEMMA CircuitCuts ==
  ASSUME NEW k, k.g \in Nat, NEW v \in Vectors(Wires), TooLong(k, v)
  PROVE  /\ Fitting(k, v) \in Vectors(Wires) /\ ~TooLong(k, Fitting(k, v))
         /\ \A r, cm : OpensInCircuit(k, v, r, cm) <=> OpensInCircuit(k, Fitting(k, v), r, cm)
<1>1. PICK g, w : g \in Nat /\ g = k.g /\ w = Fitting(k, v) /\ w = [i \in 1 .. g |-> v[i]]
  BY DEF Fitting
<1>2. /\ Len(v) \in 0 .. MaxMessage /\ DOMAIN v = 1 .. Len(v) /\ g < Len(v)
      /\ \A i \in 1 .. Len(v) : v[i] \in Wires
  BY <1>1, VectorType DEF TooLong
<1>3. MaxMessage \in Nat /\ g \in 0 .. MaxMessage
  <2>1. PICK n : n = Len(v)
    OBVIOUS
  <2>2. MaxMessage \in Nat /\ g \in Nat
    BY <1>1, LengthsAssumption
  <2>3. n \in 0 .. MaxMessage /\ g < n
    BY <1>2, <2>1
  <2> QED BY <2>2, <2>3
<1>4. w \in [1 .. g -> Wires]
  BY <1>1, <1>2, <1>3
<1>5. w \in Vectors(Wires)
  BY <1>3, <1>4 DEF Vectors
<1>6. Len(w) = g
  BY <1>1
<1>7. PICK x, y : x = [i \in DOMAIN v |-> Times(v[i])] /\ y = [i \in DOMAIN w |-> Times(w[i])]
  OBVIOUS
<1>8. Len(x) = Len(v) /\ Len(y) = g
  BY <1>1, <1>2, <1>3, <1>7
<1>9. \A i \in 1 .. g : x[i] = Times(v[i]) /\ y[i] = Times(v[i])
  BY <1>1, <1>2, <1>3, <1>7
<1>10. \A i \in 1 .. k.g : i <= Len(x) /\ i <= Len(y) /\ x[i] = y[i]
  BY <1>1, <1>2, <1>3, <1>8, <1>9
<1>11. Msm(k, x) = Msm(k, y)
  BY <1>10 DEF Msm
<1>12. ~TooLong(k, w)
  BY <1>1, <1>6 DEF TooLong
<1> QED BY <1>1, <1>5, <1>7, <1>11, <1>12 DEF OpensInCircuit

\* A message within the length of the key opens in code and in the circuit alike.
LEMMA OpensFitting ==
  ASSUME PedersenInv, commitment # <<>>, NEW v \in Vectors(Wires),
         NEW r \in IF key.hiding THEN Wires ELSE {0}, ~TooLong(key, v)
  PROVE  /\ OpensInCircuit(key, v, r, commitment) <=> Opens(key, Reduced(v), r % Order, commitment)
         /\ Opens(key, Reduced(v), r % Order, commitment)
              <=> Padded(Reduced(v)) = Padded(message) /\ r % Order = randomness
<1>1. /\ key.g \in Nat /\ key.hiding \in BOOLEAN
      /\ message \in Vectors(Scalars) /\ ~TooLong(key, message)
      /\ randomness \in (IF key.hiding THEN Scalars ELSE {0})
      /\ commitment = CommitWith(key, message, randomness)
  BY DEF PedersenInv, KeyInv, CommitInv
<1>2. r \in Wires
  <2>1. 0 < 2 ^ ScalarBits /\ 2 ^ ScalarBits \in Nat
    BY OrderAssumption, PowerPositive
  <2>2. 0 \in Wires
    BY <2>1 DEF Wires
  <2> QED BY <2>2
<1>3. DOMAIN v = 1 .. Len(v) /\ Len(v) \in 0 .. MaxMessage
  BY VectorType
<1>4. Len(Reduced(v)) = Len(v)
  BY <1>3, LengthsAssumption DEF Reduced
<1>5. ~key.hiding => r % Order = randomness
  <2>1. 0 % Order = 0
    BY OrderAssumption, SmallResidue
  <2> QED BY <1>1, <2>1
<1>6. Len(message) \in 0 .. MaxMessage
  BY <1>1, VectorType
<1>7. PICK k, w, s, n, m : /\ k = key /\ w = message /\ s = randomness
                           /\ n = Len(v) /\ m = Len(message)
  OBVIOUS
<1>8. n <= k.g /\ m <= k.g
  BY <1>1, <1>3, <1>6, <1>7, LengthsAssumption DEF TooLong
<1>9. PICK u, t : u = Reduced(v) /\ t = r % Order
  OBVIOUS
<1>10. CommitWith(k, u, t) = CommitWith(k, w, s) <=> Padded(u) = Padded(w) /\ t = s
  BY <1>1, <1>3, <1>4, <1>5, <1>6, <1>7, <1>8, <1>9, CommitBinds
<1>11. Opens(key, Reduced(v), r % Order, commitment) <=> CommitWith(k, u, t) = CommitWith(k, w, s)
  BY <1>1, <1>4, <1>7, <1>9 DEF Opens, TooLong
<1>12. OpensInCircuit(key, v, r, commitment) <=> Opens(key, Reduced(v), r % Order, commitment)
  BY <1>2, CircuitReduces
<1> QED BY <1>7, <1>9, <1>10, <1>11, <1>12

LEMMA OpensExactly == ASSUME PedersenInv PROVE OpeningsExact
<1> SUFFICES ASSUME commitment # <<>>, NEW v \in Vectors(Wires),
                    NEW r \in IF key.hiding THEN Wires ELSE {0}
             PROVE  LET committed == /\ Padded(Reduced(Fitting(key, v))) = Padded(message)
                                     /\ r % Order = randomness
                    IN  /\ OpensInCircuit(key, v, r, commitment) <=> committed
                        /\ Opens(key, Reduced(v), r % Order, commitment)
                             <=> ~TooLong(key, v) /\ committed
  BY DEF OpeningsExact
<1>1. CASE ~TooLong(key, v)
  <2>1. Fitting(key, v) = v
    BY <1>1 DEF Fitting
  <2> QED BY <1>1, <2>1, OpensFitting
<1>2. CASE TooLong(key, v)
  <2>1. key.g \in Nat
    BY DEF PedersenInv, KeyInv
  <2>2. PICK w : w = Fitting(key, v)
    OBVIOUS
  <2>3. /\ w \in Vectors(Wires) /\ ~TooLong(key, w)
        /\ OpensInCircuit(key, v, r, commitment) <=> OpensInCircuit(key, w, r, commitment)
    BY <1>2, <2>1, <2>2, CircuitCuts
  <2>4. OpensInCircuit(key, w, r, commitment)
          <=> Padded(Reduced(w)) = Padded(message) /\ r % Order = randomness
    BY <2>3, OpensFitting
  <2>5. TooLong(key, Reduced(v))
    <3>1. Len(v) \in 0 .. MaxMessage /\ DOMAIN v = 1 .. Len(v)
      BY VectorType
    <3>2. Len(Reduced(v)) = Len(v)
      BY <3>1, LengthsAssumption DEF Reduced
    <3> QED BY <1>2, <3>2 DEF TooLong
  <2> QED BY <1>2, <2>2, <2>3, <2>4, <2>5 DEF Opens
<1> QED BY <1>1, <1>2

LEMMA PedersenInductive == PedersenInit /\ [][PedersenNext]_pvars => []PedersenInv
<1>1. PedersenInit => PedersenInv
  BY DEF PedersenInit, PedersenInv, KeyInv, CommitInv, NoKey
<1>2. PedersenInv /\ [PedersenNext]_pvars => PedersenInv'
  <2> SUFFICES ASSUME PedersenInv, [PedersenNext]_pvars PROVE PedersenInv'
    OBVIOUS
  <2> USE DEF PedersenInv
  <2>1. CASE GenerateKey
    <3>1. PICK len \in Lengths, hiding \in BOOLEAN : key' = [g |-> NextPowerOfTwo(len), hiding |-> hiding]
      BY <2>1 DEF GenerateKey
    <3>2. key = NoKey /\ UNCHANGED <<message, randomness, commitment>>
      BY <2>1 DEF GenerateKey
    <3>3. commitment' = <<>>
      BY <3>2 DEF KeyInv
    <3>4. KeyInv'
      BY <3>1, <3>3, LengthsAssumption, NextPowerExists DEF KeyInv
    <3> QED BY <3>3, <3>4 DEF CommitInv
  <2>2. CASE Commit
    <3>1. PICK v \in Vectors(Scalars), r \in IF key.hiding THEN Scalars ELSE {0} :
            /\ ~TooLong(key, v) /\ message' = v /\ randomness' = r
            /\ commitment' = CommitWith(key, v, r)
      BY <2>2 DEF Commit
    <3>2. key' = key /\ key # NoKey
      BY <2>2 DEF Commit
    <3>3. KeyInv'
      BY <3>2 DEF KeyInv
    <3>4. CommitInv'
      BY <3>1, <3>2 DEF CommitInv
    <3> QED BY <3>3, <3>4
  <2>3. CASE UNCHANGED pvars
    BY <2>3 DEF pvars, KeyInv, CommitInv
  <2> QED BY <2>1, <2>2, <2>3 DEF PedersenNext
<1> QED BY <1>1, <1>2, PTL

\* OpeningsExact: what was committed to is what opens, within the length of the key, in code
\* and in a circuit that multiplies by the bits a prover gives, for keys and scalars of every
\* size.
THEOREM OpeningsAreExact == PedersenSpec => []OpeningsExact
<1>1. PedersenInv => OpeningsExact
  BY OpensExactly
<1> QED BY <1>1, PedersenInductive, PTL DEF PedersenSpec

-----------------------------------------------------------------------------
(***************************************************************************)
(* The base field                                                          *)
(***************************************************************************)
\* a is zero in the field
IsZero(a) == \E k \in Int : a = Base * k

LEMMA BaseType == Base \in Nat /\ Base > 2 /\ Base > 0 /\ CurveA \in Int /\ CurveB \in Int
  BY BaseAssumption

LEMMA ZeroResidue == ASSUME NEW a \in Int PROVE IsZero(a) <=> a % Base = 0
<1>1. ASSUME IsZero(a) PROVE a % Base = 0
  <2>1. PICK k \in Int : a = 0 + Base * k
    BY <1>1, BaseType DEF IsZero
  <2>2. 0 % Base = 0
    BY BaseType, SmallResidue
  <2> QED BY <2>1, <2>2, BaseType, Shift
<1>2. ASSUME a % Base = 0 PROVE IsZero(a)
  <2>1. a \div Base \in Int /\ a = Base * (a \div Base) + 0
    BY <1>2, BaseType, Remainder
  <2>2. PICK k \in Int : k = a \div Base
    BY <2>1
  <2>3. a = Base * k
    BY <2>1, <2>2, BaseType, SMT
  <2> QED BY <2>3 DEF IsZero
<1> QED BY <1>1, <1>2

\* A number differs from its residue by zero.
LEMMA ResidueZero ==
  ASSUME NEW a \in Int
  PROVE  /\ a % Base \in BaseField /\ a % Base \in Int
         /\ IsZero((a % Base) - a) /\ IsZero(a - (a % Base))
<1>1. PICK x \in 0 .. Base - 1, k \in Int : x = a % Base /\ a = Base * k + x
  BY BaseType, Remainder
<1>2. x - a = Base * (-k) /\ a - x = Base * k /\ -k \in Int
  BY <1>1, BaseType, SMT
<1> QED BY <1>1, <1>2 DEF IsZero, BaseField

\* The numbers that are zero in the field are an ideal.
LEMMA Combination ==
  ASSUME NEW a \in Int, NEW b \in Int, NEW u \in Int, NEW v \in Int, IsZero(a), IsZero(b)
  PROVE  IsZero(u * a + v * b)
<1>1. PICK k \in Int : a = Base * k
  BY DEF IsZero
<1>2. PICK l \in Int : b = Base * l
  BY DEF IsZero
<1>3. u * a + v * b = Base * (u * k + v * l) /\ u * k + v * l \in Int
  BY <1>1, <1>2, BaseType, SMT
<1> QED BY <1>3 DEF IsZero

LEMMA Multiple == ASSUME NEW a \in Int, NEW u \in Int, IsZero(a) PROVE IsZero(u * a)
<1>1. PICK k \in Int : a = Base * k
  BY DEF IsZero
<1>2. u * a = Base * (u * k) /\ u * k \in Int
  BY <1>1, BaseType, SMT
<1> QED BY <1>2 DEF IsZero

\* Elements of the field that differ by zero are equal.
LEMMA SameElements ==
  ASSUME NEW a \in BaseField, NEW b \in BaseField, IsZero(a - b)
  PROVE  a = b
<1>1. PICK k \in Int : a - b = Base * k
  BY DEF IsZero
<1>2. a \in Int /\ b \in Int /\ -Base < a - b /\ a - b < Base
  BY BaseType DEF BaseField
<1>3. k = 0
  BY <1>1, <1>2, BaseType, NoMultipleBetween
<1>4. a - b = 0
  BY <1>1, <1>3, BaseType, SMT
<1> QED BY <1>2, <1>4, SMT

LEMMA UnitType == Units \subseteq BaseField /\ Units \subseteq Int /\ \A den \in Units : den # 0
  BY BaseType DEF Units, BaseField

LEMMA UnitNotZero == ASSUME NEW den \in Units PROVE ~IsZero(den)
<1>1. den \in Int /\ den % Base = den /\ den # 0
  BY BaseType, UnitType, SmallResidue DEF Units
<1> QED BY <1>1, ZeroResidue

LEMMA InverseExists ==
  ASSUME NEW den \in Units
  PROVE  Inverted[den] \in Units /\ Inverted[den] \in Int /\ IsZero(den * Inverted[den] - 1)
<1>1. Inverted[den] \in Units /\ (den * Inverted[den]) % Base = 1
  BY BaseAssumption DEF Inverted
<1>2. PICK w \in Int : w = Inverted[den] /\ den \in Int
  BY <1>1, UnitType
<1>3. den * w \in Int
  BY <1>2, SMT
<1>4. IsZero(den * w - ((den * w) % Base))
  BY <1>3, ResidueZero
<1> QED BY <1>1, <1>2, <1>4

\* A unit is cancelled.
LEMMA Cancel ==
  ASSUME NEW den \in Units, NEW a \in Int, IsZero(den * a)
  PROVE  IsZero(a)
<1>1. PICK w \in Int : IsZero(den * w - 1)
  BY InverseExists
<1>2. den \in Int
  BY UnitType
<1>3. den * w - 1 \in Int /\ den * a \in Int /\ -a \in Int
  BY <1>2, SMT
<1>4. IsZero(w * (den * a) + (-a) * (den * w - 1))
  BY <1>1, <1>3, Combination
<1>5. w * (den * a) + (-a) * (den * w - 1) = a
  BY <1>2, SMT
<1> QED BY <1>4, <1>5

LEMMA UnitResidue == ASSUME NEW a \in Int, ~IsZero(a) PROVE a % Base \in Units
<1>1. a % Base # 0 /\ a % Base \in BaseField
  BY ZeroResidue, ResidueZero
<1> QED BY <1>1, BaseType DEF BaseField, Units

LEMMA UnitProduct == ASSUME NEW den \in Units, NEW w \in Units PROVE (den * w) % Base \in Units
<1>1. den \in Int /\ w \in Int /\ den * w \in Int
  BY UnitType, SMT
<1>2. ~IsZero(den * w)
  BY <1>1, Cancel, UnitNotZero
<1> QED BY <1>1, <1>2, UnitResidue

\* A quotient is the element whose product with the divisor is the dividend.
LEMMA Quotient ==
  ASSUME NEW x \in Int, NEW den \in Units
  PROVE  /\ Over(x, den) \in BaseField /\ Over(x, den) \in Int
         /\ IsZero(Over(x, den) * den - x)
<1>1. PICK w \in Int : w = Inverted[den] /\ IsZero(den * w - 1)
  BY InverseExists
<1>2. den \in Int /\ x * w \in Int
  BY UnitType, SMT
<1>3. PICK c \in Int : c = (x * w) % Base /\ IsZero(c - x * w)
  BY <1>2, ResidueZero
<1>4. c - x * w \in Int /\ den * w - 1 \in Int
  BY <1>2, SMT
<1>5. IsZero(den * (c - x * w) + x * (den * w - 1))
  BY <1>1, <1>2, <1>3, <1>4, Combination
<1>6. den * (c - x * w) + x * (den * w - 1) = c * den - x
  BY <1>2, SMT
<1> QED BY <1>1, <1>2, <1>3, <1>5, <1>6, ResidueZero DEF Over

LEMMA QuotientIs ==
  ASSUME NEW x \in Int, NEW den \in Units, NEW c \in BaseField, IsZero(c * den - x)
  PROVE  Over(x, den) = c
<1>1. PICK d \in BaseField : d = Over(x, den) /\ IsZero(d * den - x)
  BY Quotient
<1>2. den \in Int /\ c \in Int /\ d \in Int
  BY UnitType, BaseType DEF BaseField
<1>3. PICK e \in Int, f \in Int : e = d * den - x /\ f = c * den - x /\ IsZero(e) /\ IsZero(f)
  BY <1>1, <1>2, SMT
<1>4. IsZero(1 * e + (-1) * f)
  BY <1>3, Combination
<1>5. 1 * e + (-1) * f = den * (d - c) /\ d - c \in Int
  BY <1>2, <1>3, SMT
<1>6. IsZero(d - c)
  BY <1>4, <1>5, Cancel
<1> QED BY <1>1, <1>6, SameElements

-----------------------------------------------------------------------------
(***************************************************************************)
(* The curve                                                               *)
(***************************************************************************)
Curve(x, y) == y * y - x * x * x - CurveA * x - CurveB

LEMMA FinitePoint ==
  ASSUME NEW x \in BaseField, NEW y \in BaseField
  PROVE  <<x, y>> \in Finite <=> IsZero(Curve(x, y))
<1>1. x \in Int /\ y \in Int /\ Curve(x, y) \in Int
  BY BaseType, SMT DEF BaseField, Curve
<1>2. <<x, y>> \in Finite <=> Curve(x, y) % Base = 0
  BY DEF Finite, Curve
<1> QED BY <1>1, <1>2, ZeroResidue

LEMMA FiniteType ==
  ASSUME NEW p \in Finite
  PROVE  /\ p = <<p[1], p[2]>> /\ p[1] \in BaseField /\ p[2] \in BaseField
         /\ p[1] \in Int /\ p[2] \in Int /\ p[2] # 0
         /\ IsZero(Curve(p[1], p[2])) /\ p # <<0, 0>> /\ p # Infinity
<1>1. p = <<p[1], p[2]>> /\ p[1] \in BaseField /\ p[2] \in BaseField
  BY DEF Finite
<1>2. IsZero(Curve(p[1], p[2]))
  BY <1>1, FinitePoint
<1>3. p[2] # 0
  BY CurveAssumption
<1>4. p # <<0, 0>>
  BY <1>3, SMT
<1>5. p # Infinity
  <2>1. Len(<<p[1], p[2]>>) = 2 /\ Len(<<>>) = 0
    BY SMT
  <2> QED BY <1>1, <2>1 DEF Infinity
<1> QED BY <1>1, <1>2, <1>3, <1>4, <1>5, BaseType DEF BaseField

\* The line through a point, and what is left of the curve's equation on it when that point is
\* divided out
Line(x1, y1, s, x) == s * (x - x1) + y1
Rest(x1, y1, s, x) == (x * x + x * x1 + x1 * x1 + CurveA) - s * s * (x - x1) - 2 * (s * y1)

LEMMA OnLine ==
  ASSUME NEW x1 \in Int, NEW y1 \in Int, NEW s \in Int, NEW x \in Int
  PROVE  /\ Curve(x, Line(x1, y1, s, x)) = Curve(x1, y1) - (x - x1) * Rest(x1, y1, s, x)
         /\ Rest(x1, y1, s, x) \in Int /\ Curve(x1, y1) \in Int /\ Line(x1, y1, s, x) \in Int
<1>1. PICK d \in Int : d = x - x1
  BY SMT
<1>2. x = x1 + d
  BY <1>1, SMT
<1>3. PICK a \in Int, b \in Int : a = CurveA /\ b = CurveB
  BY BaseType
<1>4. PICK e \in Int : e = s * d
  BY SMT
<1>5. Rest(x1, y1, s, x) = ((x1 + d) * (x1 + d) + (x1 + d) * x1 + x1 * x1 + a) - s * s * d - 2 * (s * y1)
  BY <1>1, <1>2, <1>3 DEF Rest
<1>6. Line(x1, y1, s, x) = s * d + y1
  BY <1>1 DEF Line
<1>7. (s * d + y1) * (s * d + y1) - (x1 + d) * (x1 + d) * (x1 + d) - a * (x1 + d) - b
        = (y1 * y1 - x1 * x1 * x1 - a * x1 - b)
            - d * (((x1 + d) * (x1 + d) + (x1 + d) * x1 + x1 * x1 + a) - s * s * d - 2 * (s * y1))
  BY SMT
<1>8. /\ Rest(x1, y1, s, x) \in Int /\ Curve(x1, y1) \in Int /\ Line(x1, y1, s, x) \in Int
  BY BaseType, SMT DEF Rest, Curve, Line
<1> QED BY <1>1, <1>2, <1>3, <1>5, <1>6, <1>7, <1>8 DEF Curve

\* The third point of a line through two points of the curve, reflected, is on the curve.
LEMMA ThirdPoint ==
  ASSUME NEW x1 \in Int, NEW y1 \in Int, NEW x2 \in Int, NEW s \in Int, NEW x \in Int, NEW y \in Int,
         IsZero(Curve(x1, y1)), IsZero(Rest(x1, y1, s, x2)),
         IsZero(x - (s * s - x1 - x2)), IsZero(y - (s * (x1 - x) - y1))
  PROVE  IsZero(Curve(x, y))
<1> DEFINE l == Line(x1, y1, s, x)
           g == Rest(x1, y1, s, x)
           h == Rest(x1, y1, s, x2)
<1>1. /\ Curve(x, l) = Curve(x1, y1) - (x - x1) * g
      /\ g \in Int /\ h \in Int /\ Curve(x1, y1) \in Int /\ l \in Int
  <2>1. /\ Curve(x, l) = Curve(x1, y1) - (x - x1) * g
        /\ g \in Int /\ Curve(x1, y1) \in Int /\ l \in Int
    BY OnLine
  <2>2. h \in Int
    BY OnLine
  <2> QED BY <2>1, <2>2
<1>2. PICK e \in Int : e = x - (s * s - x1 - x2) /\ IsZero(e)
  BY SMT
<1>3. PICK f \in Int : f = y - (s * (x1 - x) - y1) /\ IsZero(f)
  BY SMT
<1>4. g = (x - x2) * e + 1 * h
  <2>1. PICK a \in Int : a = CurveA
    BY BaseType
  <2>2. (x * x + x * x1 + x1 * x1 + a) - s * s * (x - x1) - 2 * (s * y1)
          = (x - x2) * (x - (s * s - x1 - x2))
              + ((x2 * x2 + x2 * x1 + x1 * x1 + a) - s * s * (x2 - x1) - 2 * (s * y1))
    BY SMT
  <2>3. 1 * h = h
    BY <1>1, SMT
  <2> QED BY <1>2, <2>1, <2>2, <2>3 DEF Rest
<1>5. IsZero(g)
  <2>1. x - x2 \in Int /\ 1 \in Int
    BY SMT
  <2> HIDE DEF g, h
  <2>2. IsZero(h)
    BY DEF h
  <2> QED BY <1>1, <1>2, <1>4, <2>1, <2>2, Combination
<1>6. y * y = l * l + (y - l) * f
  <2>1. l = -(s * (x1 - x) - y1)
    BY SMT DEF Line
  <2>2. PICK m \in Int : m = s * (x1 - x) - y1
    BY SMT
  <2>3. y * y = (-m) * (-m) + (y - (-m)) * (y - m)
    BY <2>2, SMT
  <2> QED BY <1>3, <2>1, <2>2, <2>3
<1> HIDE DEF l, g, h
<1>7. PICK c \in Int, d \in Int, u \in Int, v \in Int :
        /\ c = Curve(x1, y1) /\ IsZero(c)
        /\ d = (-(x - x1)) * g + (y - l) * f /\ IsZero(d)
        /\ u = -(x - x1) /\ v = y - l
  <2>1. PICK u \in Int, v \in Int : u = -(x - x1) /\ v = y - l
    BY <1>1, SMT
  <2>2. IsZero(u * g + v * f)
    BY <1>1, <1>3, <1>5, <2>1, Combination
  <2>3. u * g + v * f \in Int
    BY <1>1, <2>1, SMT
  <2> QED BY <1>1, <2>1, <2>2, <2>3
<1>8. Curve(x, y) = 1 * c + 1 * d
  <2>1. Curve(x, y) = Curve(x, l) + (y - l) * f
    <3>1. x * x * x \in Int /\ CurveA * x \in Int /\ l * l \in Int /\ (y - l) * f \in Int
      BY <1>1, BaseType, SMT
    <3>2. PICK w \in Int, k \in Int, n \in Int, r \in Int, t \in Int :
            /\ w = x * x * x /\ k = CurveA * x /\ n = l * l /\ r = (y - l) * f /\ t = CurveB
      BY <3>1, BaseType
    <3>3. Curve(x, y) = (n + r) - w - k - t /\ Curve(x, l) = n - w - k - t
      BY <1>6, <3>2 DEF Curve
    <3>4. (n + r) - w - k - t = (n - w - k - t) + r
      BY SMT
    <3> QED BY <3>2, <3>3, <3>4
  <2>2. Curve(x, l) = c + u * g
    BY <1>1, <1>7, SMT
  <2> QED BY <1>1, <1>7, <2>1, <2>2, SMT
<1>9. IsZero(1 * c + 1 * d)
  BY <1>7, Combination
<1> QED BY <1>8, <1>9

-----------------------------------------------------------------------------
\* The slope of the tangent of a point
LEMMA Tangent ==
  ASSUME NEW p \in Finite, NEW s \in Int,
         s = Over(3 * p[1] * p[1] + CurveA, (2 * p[2]) % Base)
  PROVE  IsZero(Rest(p[1], p[2], s, p[1]))
<1>1. PICK x \in Int, y \in Int, a \in Int : x = p[1] /\ y = p[2] /\ a = CurveA /\ y \in Units
  BY FiniteType, BaseType DEF BaseField, Units
<1>2. 2 \in Units /\ 3 * x * x + a \in Int /\ 2 * y \in Int
  <2>1. 2 \in Units
    BY BaseType DEF Units
  <2>2. 3 * x * x + a \in Int /\ 2 * y \in Int
    BY SMT
  <2> QED BY <2>1, <2>2
<1>3. PICK den \in Units : den = (2 * y) % Base
  BY <1>1, <1>2, UnitProduct
<1>4. IsZero(s * den - (3 * x * x + a))
  BY <1>1, <1>2, <1>3, Quotient
<1>5. IsZero(den - 2 * y) /\ den \in Int
  BY <1>2, <1>3, ResidueZero
<1>6. PICK e \in Int, f \in Int :
        e = s * den - (3 * x * x + a) /\ f = den - 2 * y /\ IsZero(e) /\ IsZero(f)
  BY <1>2, <1>4, <1>5, SMT
<1>7. IsZero((-1) * e + s * f)
  BY <1>6, Combination
<1>8. (x * x + x * x + x * x + a) - s * s * (x - x) - 2 * (s * y) = (-1) * e + s * f
  BY <1>5, <1>6, SMT
<1>9. Rest(x, y, s, x) = (-1) * e + s * f
  BY <1>1, <1>8 DEF Rest
<1> QED BY <1>1, <1>7, <1>9

\* The slope of the line through two points
LEMMA Secant ==
  ASSUME NEW p \in Finite, NEW q \in Finite, p[1] # q[1], NEW s \in Int,
         s = Over(q[2] - p[2], (q[1] - p[1]) % Base)
  PROVE  IsZero(Rest(p[1], p[2], s, q[1]))
<1>1. PICK x \in Int, y \in Int, u \in Int, v \in Int :
        /\ x = p[1] /\ y = p[2] /\ u = q[1] /\ v = q[2]
        /\ x \in BaseField /\ u \in BaseField /\ x # u
        /\ IsZero(Curve(x, y)) /\ IsZero(Curve(u, v))
  BY FiniteType
<1>2. u - x \in Int /\ v - y \in Int /\ ~IsZero(u - x)
  BY <1>1, SameElements, SMT
<1>3. PICK den \in Units : den = (u - x) % Base
  BY <1>2, UnitResidue
<1>4. IsZero(s * den - (v - y))
  BY <1>1, <1>2, <1>3, Quotient
<1>5. IsZero((u - x) - den) /\ IsZero(den - (u - x)) /\ den \in Int
  BY <1>2, <1>3, ResidueZero
<1>6. PICK e \in Int, f \in Int : 
        e = s * den - (v - y) /\ f = (u - x) - den /\ IsZero(e) /\ IsZero(f)
  BY <1>1, <1>2, <1>4, <1>5, SMT
<1>7. PICK c \in Int : c = 1 * e + s * f /\ IsZero(c)
  <2>1. 1 * e + s * f \in Int /\ 1 \in Int
    BY SMT
  <2>2. IsZero(1 * e + s * f)
    BY <1>6, <2>1, Combination
  <2> QED BY <2>1, <2>2
<1>8. c = s * (u - x) - (v - y)
  BY <1>5, <1>6, <1>7, SMT
<1>9. Line(x, y, s, u) = v + c
  BY <1>8, SMT DEF Line
<1>10. /\ Curve(u, v + c) = Curve(x, y) - (u - x) * Rest(x, y, s, u)
       /\ Rest(x, y, s, u) \in Int /\ Curve(x, y) \in Int
  BY <1>9, OnLine
<1>11. PICK g \in Int, d \in Int : g = Rest(x, y, s, u) /\ d = Curve(x, y) /\ IsZero(d)
  BY <1>1, <1>10
<1>12. Curve(u, v) \in Int
  BY OnLine
<1>13. PICK b \in Int : b = Curve(u, v) /\ IsZero(b)
  BY <1>1, <1>12
<1>14. Curve(u, v + c) = b + (2 * v + c) * c
  <2>1. u * u * u \in Int /\ CurveA * u \in Int /\ CurveB \in Int
    BY BaseType, SMT
  <2>2. PICK w \in Int, k \in Int, t \in Int : w = u * u * u /\ k = CurveA * u /\ t = CurveB
    BY <2>1
  <2>3. Curve(u, v) = v * v - w - k - t /\ Curve(u, v + c) = (v + c) * (v + c) - w - k - t
    BY <2>2 DEF Curve
  <2>4. (v + c) * (v + c) - w - k - t = (v * v - w - k - t) + (2 * v + c) * c
    BY SMT
  <2> QED BY <1>13, <2>3, <2>4
<1>15. (u - x) * g = 1 * (1 * d + (-1) * b) + (-(2 * v + c)) * c
  <2>1. PICK k \in Int : k = u - x
    BY <1>2
  <2>2. b + (2 * v + c) * c = d - k * g
    BY <1>10, <1>11, <1>14, <2>1
  <2>3. k * g = 1 * (1 * d + (-1) * b) + (-(2 * v + c)) * c
    BY <2>2, SMT
  <2> QED BY <2>1, <2>3
<1>16. IsZero((u - x) * g) /\ (u - x) * g \in Int
  <2>1. PICK r \in Int : r = 1 * d + (-1) * b /\ IsZero(r)
    BY <1>11, <1>13, Combination, SMT
  <2>2. -(2 * v + c) \in Int /\ 1 \in Int
    BY SMT
  <2>5. PICK n \in Int : n = -(2 * v + c)
    BY <2>2
  <2>6. IsZero(1 * r + n * c)
    BY <1>7, <2>1, <2>2, Combination, Zenon
  <2>3. IsZero(1 * r + (-(2 * v + c)) * c)
    BY <2>5, <2>6
  <2>4. (u - x) * g \in Int
    BY <1>2, SMT
  <2> QED BY <1>15, <2>1, <2>3, <2>4
<1>17. IsZero(den * g)
  <2>1. PICK m \in Int, n \in Int : m = den - (u - x) /\ n = (u - x) * g /\ IsZero(m) /\ IsZero(n)
    BY <1>5, <1>16, SMT
  <2>2. IsZero(g * m + 1 * n)
    BY <2>1, Combination
  <2>3. g * m + 1 * n = den * g
    BY <1>5, <2>1, SMT
  <2> QED BY <2>2, <2>3
<1> QED BY <1>1, <1>11, <1>17, Cancel

LEMMA ChordOnCurve ==
  ASSUME NEW p \in Finite, NEW q \in Finite, p = q \/ p[1] # q[1]
  PROVE  Chord(p, q) \in Finite
<1>1. PICK x1 \in Int, y1 \in Int, x2 \in Int, y2 \in Int, a \in Int :
        /\ x1 = p[1] /\ y1 = p[2] /\ x2 = q[1] /\ y2 = q[2] /\ a = CurveA
        /\ IsZero(Curve(x1, y1))
  BY FiniteType, BaseType
<1> DEFINE slope == IF p = q
                    THEN Over(3 * p[1] * p[1] + CurveA, (2 * p[2]) % Base)
                    ELSE Over(q[2] - p[2], (q[1] - p[1]) % Base)
<1>2. slope \in Int
  <2>1. CASE p = q
    <3>1. 2 \in Units /\ p[2] \in Units /\ 3 * x1 * x1 + a \in Int
      BY <1>1, FiniteType, BaseType, SMT DEF Units, BaseField
    <3>2. (2 * p[2]) % Base \in Units
      BY <3>1, UnitProduct
    <3> QED BY <1>1, <2>1, <3>1, <3>2, Quotient
  <2>2. CASE p # q
    <3>1. p[1] \in BaseField /\ q[1] \in BaseField /\ p[1] # q[1]
      BY <2>2, FiniteType
    <3>2. q[1] - p[1] \in Int /\ q[2] - p[2] \in Int
      BY <1>1, SMT
    <3>3. ~IsZero(q[1] - p[1])
      BY <3>1, SameElements
    <3>4. (q[1] - p[1]) % Base \in Units
      BY <3>2, <3>3, UnitResidue
    <3> QED BY <2>2, <3>2, <3>4, Quotient
  <2> QED BY <2>1, <2>2
<1>3. IsZero(Rest(x1, y1, slope, x2))
  BY <1>1, <1>2, Tangent, Secant
<1>4. PICK s \in Int : s = slope /\ IsZero(Rest(x1, y1, s, x2))
  BY <1>2, <1>3
<1>5. s * s - x1 - x2 \in Int
  BY SMT
<1>6. PICK x \in BaseField :
        x = (s * s - x1 - x2) % Base /\ x \in Int /\ IsZero(x - (s * s - x1 - x2))
  BY <1>5, ResidueZero
<1>7. s * (x1 - x) - y1 \in Int
  BY <1>6, SMT
<1>8. PICK y \in BaseField :
        y = (s * (x1 - x) - y1) % Base /\ y \in Int /\ IsZero(y - (s * (x1 - x) - y1))
  BY <1>7, ResidueZero
<1>9. IsZero(Curve(x, y))
  <2>1. x \in Int /\ y \in Int
    BY <1>6, <1>8
  <2>2. /\ IsZero(Curve(x1, y1)) /\ IsZero(Rest(x1, y1, s, x2))
        /\ IsZero(x - (s * s - x1 - x2)) /\ IsZero(y - (s * (x1 - x) - y1))
    BY <1>1, <1>4, <1>6, <1>8
  <2> HIDE DEF slope
  <2> QED BY <2>1, <2>2, ThirdPoint
<1>10. Chord(p, q) = <<x, y>>
  BY <1>1, <1>4, <1>6, <1>8 DEF Chord
<1> QED BY <1>9, <1>10, FinitePoint

\* The sum of two points of the curve is on the curve.
LEMMA SumOnCurve == \A p, q \in CurvePoints : PointSum(p, q) \in CurvePoints
<1> SUFFICES ASSUME NEW p \in CurvePoints, NEW q \in CurvePoints
             PROVE  PointSum(p, q) \in CurvePoints
  OBVIOUS
<1>1. CASE p \in Finite /\ q \in Finite /\ (p = q \/ p[1] # q[1])
  <2>1. Chord(p, q) \in CurvePoints
    BY <1>1, ChordOnCurve DEF CurvePoints
  <2> QED BY <1>1, <2>1 DEF PointSum, CurvePoints
<1>2. CASE ~(p \in Finite /\ q \in Finite /\ (p = q \/ p[1] # q[1]))
  BY <1>2 DEF PointSum, CurvePoints
<1> QED BY <1>1, <1>2

-----------------------------------------------------------------------------
(***************************************************************************)
(* The forms of a point                                                    *)
(***************************************************************************)
\* A coordinate is what its multiple is divided to.
LEMMA Fraction ==
  ASSUME NEW c \in BaseField, NEW n \in Int, n % Base \in Units
  PROVE  Over((c * n) % Base, n % Base) = c
<1>1. c \in Int /\ c * n \in Int
  BY BaseType, SMT DEF BaseField
<1>2. PICK w \in Units : w = n % Base /\ w \in Int /\ IsZero(w - n)
  BY ResidueZero
<1>3. PICK v \in Int : v = (c * n) % Base /\ IsZero(c * n - v)
  BY <1>1, ResidueZero
<1>4. PICK e \in Int, f \in Int : e = w - n /\ f = c * n - v /\ IsZero(e) /\ IsZero(f)
  BY <1>1, <1>2, <1>3, SMT
<1>5. 1 \in Int
  BY SMT
<1>6. IsZero(c * e + 1 * f)
  BY <1>1, <1>4, <1>5, Combination, Zenon
<1>7. c * e + 1 * f = c * w - v
  BY <1>1, <1>2, <1>4, SMT
<1> QED BY <1>2, <1>3, <1>6, <1>7, QuotientIs

LEMMA UnitPowers ==
  ASSUME NEW den \in Units
  PROVE  /\ den \in Int /\ den # 0 /\ den % Base \in Units /\ den % Base = den
         /\ (den * den) % Base \in Units /\ (den * den * den) % Base \in Units
<1>1. den \in Int /\ den # 0 /\ den % Base = den
  BY UnitType, BaseType, SmallResidue DEF BaseField
<1>2. den * den \in Int
  BY <1>1, SMT
<1>3. (den * den) % Base \in Units
  BY UnitProduct
<1>4. (((den * den) % Base) * den) % Base \in Units
  BY <1>3, UnitProduct
<1>5. (((den * den) % Base) * den) % Base = (den * den * den) % Base
  BY <1>1, <1>2, BaseType, Residue
<1> QED BY <1>1, <1>3, <1>4, <1>5

LEMMA InfinityNotFinite == Infinity \notin Finite
  BY FiniteType

\* A triple for a value stands for one point.
LEMMA JacobianIs ==
  ASSUME NEW p \in CurvePoints, NEW v \in Jacobian(p)
  PROVE  IntoAffine(v) = p
<1>1. CASE p = Infinity
  BY <1>1 DEF Jacobian, IntoAffine
<1>2. CASE p # Infinity
  <2>1. p \in Finite
    BY <1>2 DEF CurvePoints
  <2>2. PICK x \in BaseField, y \in BaseField : p = <<x, y>> /\ x \in Int /\ y \in Int
    BY <2>1, FiniteType
  <2>3. PICK den \in Units : v = <<(x * den * den) % Base, (y * den * den * den) % Base, den>>
    BY <1>2, <2>2 DEF Jacobian
  <2>4. PICK m \in Int, n \in Int :
          /\ m = den * den /\ n = den * den * den /\ m % Base \in Units /\ n % Base \in Units
          /\ den # 0 /\ den \in Int
    BY UnitPowers, SMT
  <2>5. x * den * den = x * m /\ y * den * den * den = y * n
    BY <2>2, <2>4, SMT
  <2>6. Over((x * m) % Base, m % Base) = x /\ Over((y * n) % Base, n % Base) = y
    BY <2>4, Fraction
  <2>7. v[1] = (x * m) % Base /\ v[2] = (y * n) % Base /\ v[3] = den
    BY <2>3, <2>5
  <2> QED BY <2>2, <2>4, <2>6, <2>7 DEF IntoAffine
<1> QED BY <1>1, <1>2

LEMMA SameSequence ==
  \A S : \A s, t \in Seq(S) :
    Len(s) = Len(t) /\ (\A i \in 1 .. Len(s) : s[i] = t[i]) => s = t
  BY SMT

LEMMA Appended == \A a, b, c : <<a, b>> \o <<c>> = <<a, b, c>>
<1> TAKE a, b, c
<1> DEFINE u == <<a, b>> \o <<c>>
           v == <<a, b, c>>
           S == {a, b, c}
<1>1. u \in Seq(S) /\ v \in Seq(S)
  BY SMT
<1>2. Len(u) = 3 /\ Len(v) = 3
  BY SMT
<1>3. u[1] = a /\ u[2] = b /\ u[3] = c
  BY SMT
<1>4. v[1] = a /\ v[2] = b /\ v[3] = c
  BY SMT
<1> HIDE DEF u, v, S
<1>5. \A i \in 1 .. Len(u) : u[i] = v[i]
  BY <1>2, <1>3, <1>4, SMT
<1>6. u = v
  BY <1>1, <1>2, <1>5, SameSequence
<1> QED BY <1>6 DEF u, v

LEMMA FirstTwo == \A a, b, c : SubSeq(<<a, b, c>>, 1, 2) = <<a, b>>
<1> TAKE a, b, c
<1> DEFINE u == SubSeq(<<a, b, c>>, 1, 2)
           v == <<a, b>>
           S == {a, b, c}
<1>1. u \in Seq(S) /\ v \in Seq(S)
  BY SMT
<1>2. Len(u) = 2 /\ Len(v) = 2
  BY SMT
<1>3. u[1] = a /\ u[2] = b
  BY SMT
<1>4. v[1] = a /\ v[2] = b
  BY SMT
<1> HIDE DEF u, v, S
<1>5. \A i \in 1 .. Len(u) : u[i] = v[i]
  BY <1>2, <1>3, <1>4, SMT
<1>6. u = v
  BY <1>1, <1>2, <1>5, SameSequence
<1> QED BY <1>6 DEF u, v

\* A triple for a variable has the coordinates of its point.
LEMMA HomogeneousIs ==
  ASSUME NEW p \in CurvePoints, NEW w \in Homogeneous(p)
  PROVE  SubSeq(ToConstraintField(w), 1, 2) = IF p = Infinity THEN <<0, 0>> ELSE p
<1>1. CASE p = Infinity
  <2>1. w[3] = 0
    BY <1>1 DEF Homogeneous
  <2>2. ToConstraintField(w) = <<0, 0, 1>>
    BY <2>1 DEF ToConstraintField
  <2> QED BY <1>1, <2>2, FirstTwo
<1>2. CASE p # Infinity
  <2>1. p \in Finite
    BY <1>2 DEF CurvePoints
  <2>2. PICK x \in BaseField, y \in BaseField : p = <<x, y>>
    BY <2>1, FiniteType
  <2>3. PICK den \in Units : w = <<(x * den) % Base, (y * den) % Base, den>>
    BY <1>2, <2>2 DEF Homogeneous
  <2>4. den \in Int /\ den # 0 /\ den % Base \in Units /\ den % Base = den
    BY UnitPowers
  <2>5. Over((x * den) % Base, den) = x /\ Over((y * den) % Base, den) = y
    BY <2>4, Fraction
  <2>6. ToConstraintField(w) = <<x, y, 0>>
    BY <2>3, <2>4, <2>5 DEF ToConstraintField
  <2> QED BY <1>2, <2>2, <2>6, FirstTwo
<1> QED BY <1>1, <1>2

\* The coordinates of a point, and its public triple
LEMMA Coordinates ==
  ASSUME NEW p \in CurvePoints, NEW v \in Jacobian(p)
  PROVE  /\ XY(v) = IF p = Infinity THEN <<0, 0>> ELSE p
         /\ XY(v) \in BaseField \X BaseField
         /\ Inputize(v) \in Homogeneous(p)
<1>1. IntoAffine(v) = p
  BY JacobianIs
<1>2. XY(v) = IF p = Infinity THEN <<0, 0>> ELSE p
  BY <1>1 DEF XY
<1>3. CASE p = Infinity
  <2>1. 1 \in Units /\ 0 \in BaseField
    BY BaseType DEF Units, BaseField
  <2> QED BY <1>1, <1>2, <1>3, <2>1 DEF Inputize, Homogeneous
<1>4. CASE p # Infinity
  <2>1. p \in Finite
    BY <1>4 DEF CurvePoints
  <2>2. PICK x \in BaseField, y \in BaseField : p = <<x, y>> /\ x \in Int /\ y \in Int
    BY <2>1, FiniteType
  <2>3. x % Base = x /\ y % Base = y
    BY BaseType, SmallResidue DEF BaseField
  <2>4. x * 1 = x /\ y * 1 = y
    BY <2>2, SMT
  <2>5. 1 \in Units
    BY BaseType DEF Units
  <2>6. Inputize(v) = <<x, y, 1>>
    BY <1>1, <1>4, <2>2, Appended DEF Inputize
  <2>7. p[1] = x /\ p[2] = y
    BY <2>2
  <2>8. Inputize(v) = <<(p[1] * 1) % Base, (p[2] * 1) % Base, 1>>
    BY <2>3, <2>4, <2>6, <2>7
  <2>9. Inputize(v) \in Homogeneous(p)
    BY <1>4, <2>5, <2>8 DEF Homogeneous
  <2> QED BY <1>2, <1>4, <2>2, <2>9
<1> QED BY <1>2, <1>3, <1>4

-----------------------------------------------------------------------------
(***************************************************************************)
(* However a point was computed, both forms stand for it.                  *)
(***************************************************************************)
SamePoint ==
  \E p \in CurvePoints :
    /\ value \in Jacobian(p)
    /\ variable \in Homogeneous(p)
    /\ fresh => variable = Inputize(value)
    /\ emulated \in BaseField \X BaseField

PointsInv == Allocated => SamePoint

LEMMA PointsInductive ==
  /\ PointsInit => PointsInv
  /\ PointsInv /\ [PointsNext]_ptvars => PointsInv'
<1>1. PointsInit => PointsInv
  BY DEF PointsInit, PointsInv, Allocated
<1>2. ASSUME PointsInv, [PointsNext]_ptvars PROVE PointsInv'
  <2>1. CASE AllocatePoint
    <3>1. PICK p \in CurvePoints : \E v \in Jacobian(p) :
            value' = v /\ variable' = Inputize(v) /\ emulated' = XY(v)
      BY <2>1 DEF AllocatePoint
    <3>2. PICK v \in Jacobian(p) : value' = v /\ variable' = Inputize(v) /\ emulated' = XY(v)
      BY <3>1
    <3>3. Inputize(v) \in Homogeneous(p) /\ XY(v) \in BaseField \X BaseField
      BY Coordinates
    <3> QED BY <3>2, <3>3 DEF PointsInv, SamePoint, Inputize, IntoAffine
  <2>2. CASE AddPoint
    <3>1. PICK q \in CurvePoints :
            \E v \in Jacobian(PointSum(IntoAffine(value), q)),
               w \in Homogeneous(PointSum(IntoAffine(value), q)) :
              value' = v /\ variable' = w /\ emulated' = XY(v)
      BY <2>2 DEF AddPoint
    <3>2. PICK p \in CurvePoints : value \in Jacobian(p)
      BY <1>2, <2>2 DEF PointsInv, SamePoint, AddPoint
    <3>3. IntoAffine(value) = p
      BY <3>2, JacobianIs
    <3>4. PICK s \in CurvePoints : s = PointSum(IntoAffine(value), q)
      BY <3>2, <3>3, SumOnCurve
    <3>5. PICK v \in Jacobian(s), w \in Homogeneous(s) :
            value' = v /\ variable' = w /\ emulated' = XY(v)
      BY <3>1, <3>4
    <3>6. XY(v) \in BaseField \X BaseField
      BY Coordinates
    <3>7. ~fresh'
      BY <2>2 DEF AddPoint
    <3> QED BY <3>5, <3>6, <3>7 DEF PointsInv, SamePoint
  <2>3. CASE HintPoint
    BY <1>2, <2>3 DEF HintPoint, PointsInv, SamePoint, Allocated, Inputize, IntoAffine
  <2>4. CASE SelectEmulated
    <3>1. 0 \in BaseField
      BY BaseType DEF BaseField
    <3>2. PICK p \in CurvePoints :
            /\ value \in Jacobian(p) /\ variable \in Homogeneous(p)
            /\ fresh => variable = Inputize(value)
            /\ emulated \in BaseField \X BaseField
      BY <1>2, <2>4 DEF SelectEmulated, PointsInv, SamePoint
    <3>3. emulated' \in BaseField \X BaseField
      BY <2>4, <3>1, <3>2 DEF SelectEmulated
    <3>4. value' = value /\ variable' = variable /\ fresh' = fresh
      BY <2>4 DEF SelectEmulated
    <3> QED BY <3>2, <3>3, <3>4 DEF PointsInv, SamePoint, Inputize, IntoAffine
  <2>5. CASE UNCHANGED ptvars
    BY <1>2, <2>5 DEF ptvars, PointsInv, SamePoint, Allocated, Inputize, IntoAffine
  <2> QED BY <1>2, <2>1, <2>2, <2>3, <2>4, <2>5 DEF PointsNext
<1> QED BY <1>1, <1>2

LEMMA AgreementFollows == PointsInv => PointsAgree
<1> SUFFICES ASSUME PointsInv, Allocated PROVE PointsAgree
  BY DEF PointsAgree
<1>1. PICK p \in CurvePoints :
        /\ value \in Jacobian(p) /\ variable \in Homogeneous(p)
        /\ fresh => variable = Inputize(value)
        /\ emulated \in BaseField \X BaseField
  BY DEF PointsInv, SamePoint
<1> DEFINE coords(q) == IF q = Infinity THEN <<0, 0>> ELSE q
<1>2. XY(value) = coords(p) /\ IntoAffine(value) = p
  BY <1>1, Coordinates, JacobianIs
<1>3. SubSeq(ToConstraintField(variable), 1, 2) = coords(p)
  BY <1>1, HomogeneousIs
<1>4. \A q \in CurvePoints : \A v \in Jacobian(q) : XY(v) = coords(q)
  BY Coordinates
<1>5. \A q \in CurvePoints : q # <<0, 0>>
  <2>1. Infinity # <<0, 0>>
    <3>1. Len(<<0, 0>>) = 2 /\ Len(<<>>) = 0
      BY SMT
    <3> QED BY <3>1 DEF Infinity
  <2> QED BY <2>1, FiniteType DEF CurvePoints
<1>6. \A q \in CurvePoints : coords(q) = coords(p) => q = p
  BY <1>5
<1>7. emulated # Infinity
  <2>1. PICK a \in BaseField, b \in BaseField : emulated = <<a, b>>
    BY <1>1
  <2>2. Len(<<a, b>>) = 2 /\ Len(<<>>) = 0
    BY SMT
  <2> QED BY <2>1, <2>2 DEF Infinity
<1>8. emulated = coords(p) <=> ValueOfEmulated(emulated) = p
  BY <1>5, <1>7 DEF ValueOfEmulated
<1>9. AbsorbPointVar(variable) = AbsorbPoint(value)
  BY <1>2, <1>3 DEF AbsorbPointVar, AbsorbPoint
<1>10. PublicPoint(variable) = InputizeEmulated(value)
  BY <1>2, <1>3 DEF PublicPoint, InputizeEmulated
<1>11. ASSUME NEW q \in CurvePoints, NEW v \in Jacobian(q), AbsorbPoint(v) = AbsorbPoint(value)
       PROVE  q = IntoAffine(value)
  <2>1. XY(v) = coords(q)
    BY <1>4
  <2>2. coords(q) = coords(p)
    BY <1>2, <1>11, <2>1 DEF AbsorbPoint
  <2>3. q = p
    BY <1>6, <2>2
  <2> QED BY <1>2, <2>3
<1>12. emulated = AbsorbPoint(value) <=> ValueOfEmulated(emulated) = IntoAffine(value)
  BY <1>2, <1>8 DEF AbsorbPoint
<1> HIDE DEF coords
<1> QED BY <1>1, <1>9, <1>10, <1>11, <1>12 DEF PointsAgree

\* PointsAgree: a point and its variable are absorbed and made public as the same two elements,
\* which are those of no other point, over every field and on every curve of odd order, after
\* any number of additions.
THEOREM PointsAlwaysAgree == PointsSpec => []PointsAgree
<1> USE DEF PointsSpec
<1>1. PointsSpec => []PointsInv
  BY PointsInductive, PTL
<1> QED BY <1>1, AgreementFollows, PTL

-----------------------------------------------------------------------------
(***************************************************************************)
(* Griffin: powers modulo a prime                                          *)
(***************************************************************************)
\* f has the first powers of x.
Powers(f, x, n) == f \in [0 .. n -> Nat] /\ f[0] = 1 /\ \A k \in 1 .. n : f[k] = (x * f[k - 1]) % P

\* The field, as the prime has it
LEMMA PrimeType == P \in Nat /\ P > 2 /\ P > 0 /\ Field \subseteq Nat /\ NonZero \subseteq Field
  BY PrimeAssumption DEF Field, NonZero

\* Powers are computed one after the other.
LEMMA PowersExist ==
  ASSUME NEW x \in Field, NEW n \in Nat
  PROVE  \E f : Powers(f, x, n)
<1>0. PICK step : step = [k \in 1 .. n |-> [y \in Nat |-> (x * y) % P]]
  OBVIOUS
<1>1. step \in [1 .. n -> [Nat -> Nat]]
  <2>1. ASSUME NEW y \in Nat PROVE (x * y) % P \in Nat
    <3>1. x * y \in Int
      BY PrimeType
    <3> QED BY <3>1, PrimeType, Remainder
  <2> QED BY <1>0, <2>1
<1>2. \A y \in Nat, k \in 1 .. n : step[k][y] = (x * y) % P
  BY <1>0
<1>3. PICK f \in [0 .. n -> Nat] : f[0] = 1 /\ \A k \in 1 .. n : f[k] = step[k][f[k - 1]]
  <2>1. 1 \in Nat
    OBVIOUS
  <2> QED BY <1>1, <2>1, Recursion, Zenon
<1>4. ASSUME NEW k \in 1 .. n PROVE f[k] = (x * f[k - 1]) % P
  <2>1. f[k - 1] \in Nat
    OBVIOUS
  <2> QED BY <1>2, <1>3, <2>1, Zenon
<1> QED BY <1>3, <1>4, Zenon DEF Powers

\* Power is the last of them.
LEMMA PowerIs ==
  ASSUME NEW x \in Field, NEW n \in Nat, NEW f, Powers(f, x, n)
  PROVE  Power(x, n) = f[n]
<1> DEFINE Good(g) == g = [k \in 0 .. n |-> IF k = 0 THEN 1 ELSE (x * g[k - 1]) % P]
<1>1. Good(f)
  <2>1. ASSUME NEW k \in 0 .. n PROVE f[k] = IF k = 0 THEN 1 ELSE (x * f[k - 1]) % P
    BY DEF Powers
  <2>2. f = [k \in 0 .. n |-> f[k]]
    BY DEF Powers
  <2> QED BY <2>1, <2>2
<1> DEFINE g == CHOOSE g : Good(g)
<1>2. Good(g)
  BY <1>1, Zenon
<1>3. Power(x, n) = g[n]
  BY DEF Power
<1>4. g[0] = 1 /\ \A k \in 1 .. n : g[k] = (x * g[k - 1]) % P
  <2>1. \A k \in 0 .. n : g[k] = IF k = 0 THEN 1 ELSE (x * g[k - 1]) % P
    BY <1>2, Zenon
  <2>2. 0 \in 0 .. n /\ \A k \in 1 .. n : k \in 0 .. n /\ k # 0
    OBVIOUS
  <2> QED BY <2>1, <2>2, Zenon
<1> HIDE DEF g, Good
<1> DEFINE T == {k \in 0 .. n : g[k] = f[k]}
<1>5. 0 \in T
  BY <1>4 DEF Powers
<1>6. ASSUME NEW k \in 1 .. n, k - 1 \in T PROVE k \in T
  BY <1>4, <1>6 DEF Powers
<1> HIDE DEF T
<1>7. 0 .. n \subseteq T
  BY <1>5, <1>6, UpTo, Zenon
<1>8. n \in T
  BY <1>7
<1> QED BY <1>3, <1>8 DEF T

\* A power is an element, and the next one is a product.
LEMMA PowerNext ==
  ASSUME NEW x \in Field, NEW n \in Nat
  PROVE  /\ Power(x, 0) = 1 /\ Power(x, n) \in Field
         /\ Power(x, n + 1) = (x * Power(x, n)) % P
<1>1. PICK m \in Nat : m = n + 1 /\ n \in 0 .. m /\ 0 \in 0 .. m
  OBVIOUS
<1>2. PICK f : Powers(f, x, m)
  BY <1>1, PowersExist
<1>3. ASSUME NEW k \in 0 .. m PROVE Power(x, k) = f[k]
  <2>1. PICK g : g = [i \in 0 .. k |-> f[i]]
    OBVIOUS
  <2>2. Powers(g, x, k)
    BY <1>2, <2>1 DEF Powers
  <2>3. k \in Nat /\ g[k] = f[k]
    BY <2>1
  <2> QED BY <2>2, <2>3, PowerIs
<1>4. Power(x, 0) = 1 /\ Power(x, n) = f[n] /\ Power(x, m) = (x * f[n]) % P
  BY <1>1, <1>2, <1>3 DEF Powers
<1>5. f[n] \in Field
  <2>1. CASE n = 0
    BY <1>2, <2>1, PrimeType DEF Powers, Field
  <2>2. CASE n # 0
    <3>1. n \in 1 .. m /\ n - 1 \in 0 .. m
      BY <1>1, <2>2
    <3>2. PICK y \in Nat : y = f[n - 1] /\ f[n] = (x * y) % P
      BY <1>2, <3>1 DEF Powers
    <3>3. x * y \in Int
      BY PrimeType
    <3> QED BY <3>2, <3>3, Remainder, PrimeType DEF Field
  <2> QED BY <2>1, <2>2
<1> QED BY <1>1, <1>4, <1>5

\* The product of field elements, in any order
LEMMA ProductOrder ==
  ASSUME NEW x \in Int, NEW y \in Int, NEW w \in Int
  PROVE  /\ (x * y) % P = (y * x) % P
         /\ (((x * y) % P) * w) % P = (x * ((y * w) % P)) % P
<1>1. /\ x * y = y * x /\ x * y \in Int /\ y * w \in Int /\ (y * w) % P \in Int
      /\ (x * y) * w = (y * w) * x
  <2>1. x * y \in Int /\ y * w \in Int /\ x * y = y * x
    OBVIOUS
  <2>2. (x * y) * w = (y * w) * x
    OBVIOUS
  <2> QED BY <2>1, <2>2, PrimeType, Remainder
<1>2. (((x * y) % P) * w) % P = ((x * y) * w) % P
  BY <1>1, PrimeType, Residue
<1>3. (((y * w) % P) * x) % P = ((y * w) * x) % P
  BY <1>1, PrimeType, Residue
<1>4. ((y * w) % P) * x = x * ((y * w) % P)
  BY <1>1
<1> QED BY <1>1, <1>2, <1>3, <1>4

\* Adding exponents multiplies powers.
LEMMA PowerSum ==
  ASSUME NEW x \in Field, NEW a \in Nat, NEW b \in Nat
  PROVE  Power(x, a + b) = (Power(x, a) * Power(x, b)) % P
<1> DEFINE T == {k \in 0 .. b : Power(x, a + k) = (Power(x, a) * Power(x, k)) % P}
<1>1. PICK y \in Field : y = Power(x, a) /\ y \in Nat
  BY PowerNext, PrimeType
<1>2. 0 \in T
  <2>1. y % P = y
    BY SmallResidue, PrimeType DEF Field
  <2>2. a + 0 = a /\ y * 1 = y
    BY <1>1
  <2> QED BY <1>1, <2>1, <2>2, PowerNext
<1>3. ASSUME NEW k \in 1 .. b, k - 1 \in T PROVE k \in T
  <2>1. PICK j \in Nat : j = k - 1 /\ k = j + 1 /\ a + j \in Nat /\ a + k = (a + j) + 1
    OBVIOUS
  <2>2. PICK w \in Field : w = Power(x, j) /\ w \in Nat /\ x \in Nat
    BY PowerNext, PrimeType
  <2>3. Power(x, a + j) = (y * w) % P
    BY <1>1, <1>3, <2>1, <2>2
  <2>4. Power(x, a + k) = (x * ((y * w) % P)) % P
    BY <2>1, <2>3, PowerNext
  <2>5. Power(x, k) = (x * w) % P
    BY <2>1, <2>2, PowerNext
  <2>6. (x * ((y * w) % P)) % P = (y * ((x * w) % P)) % P
    <3>0. x \in Int /\ y \in Int /\ w \in Int
      BY <1>1, <2>2
    <3>1. (x * ((y * w) % P)) % P = (((x * y) % P) * w) % P
      BY <3>0, ProductOrder
    <3>2. (y * ((x * w) % P)) % P = (((y * x) % P) * w) % P
      BY <3>0, ProductOrder
    <3>3. (x * y) % P = (y * x) % P
      BY <3>0, ProductOrder
    <3> QED BY <3>1, <3>2, <3>3
  <2> QED BY <1>1, <2>4, <2>5, <2>6
<1> HIDE DEF T
<1>4. 0 .. b \subseteq T
  BY <1>2, <1>3, UpTo, Zenon
<1>5. b \in T
  BY <1>4
<1> QED BY <1>5 DEF T

\* A power of a power multiplies exponents.
LEMMA PowerProduct ==
  ASSUME NEW x \in Field, NEW a \in Nat, NEW b \in Nat
  PROVE  Power(Power(x, a), b) = Power(x, a * b)
<1> DEFINE T == {k \in 0 .. b : Power(Power(x, a), k) = Power(x, a * k)}
<1>1. PICK y \in Field : y = Power(x, a)
  BY PowerNext
<1>2. 0 \in T
  BY <1>1, PowerNext
<1>3. ASSUME NEW k \in 1 .. b, k - 1 \in T PROVE k \in T
  <2>1. PICK j \in Nat : j = k - 1 /\ k = j + 1
    OBVIOUS
  <2>2. PICK m \in Nat : m = a * j /\ a * k = a + m
    BY <2>1
  <2>3. Power(y, j) = Power(x, m)
    BY <1>1, <1>3, <2>1, <2>2
  <2>4. Power(y, k) = (y * Power(x, m)) % P
    BY <2>1, <2>3, PowerNext
  <2>5. Power(x, a + m) = (y * Power(x, m)) % P
    BY <1>1, PowerSum
  <2> QED BY <1>1, <2>2, <2>4, <2>5
<1> HIDE DEF T
<1>4. 0 .. b \subseteq T
  BY <1>2, <1>3, UpTo, Zenon
<1>5. b \in T
  BY <1>4
<1> QED BY <1>5 DEF T

-----------------------------------------------------------------------------
(***************************************************************************)
(* The order of an element                                                 *)
(***************************************************************************)
\* Products of nonzero elements are not zero, and can be cancelled.
LEMMA UnitTimes ==
  ASSUME NEW a \in NonZero, NEW b \in NonZero
  PROVE  (a * b) % P \in NonZero
<1>1. a * b \in Int /\ (a * b) % P # 0
  BY PrimeAssumption DEF NonZero
<1>2. (a * b) % P \in 0 .. P - 1
  BY <1>1, PrimeType, Remainder
<1> QED BY <1>1, <1>2 DEF NonZero

\* A factor that is not zero can be cancelled.
LEMMA UnitCancels ==
  ASSUME NEW a \in NonZero, NEW b \in NonZero, NEW c \in NonZero, (a * b) % P = (a * c) % P
  PROVE  b = c
<1>1. ASSUME NEW x \in NonZero, NEW y \in NonZero, x < y PROVE (a * x) % P # (a * y) % P
  <2>1. PICK d \in NonZero : d = y - x /\ y = x + d
    <3>1. y - x \in NonZero /\ y = x + (y - x)
      BY <1>1, PrimeType DEF NonZero
    <3> QED BY <3>1
  <2>2. PICK p \in Nat, q \in Nat : p = a * x /\ q = a * d /\ a * y = p + q
    <3>1. a \in Nat /\ x \in Nat /\ d \in Nat
      BY DEF NonZero
    <3>2. a * x \in Nat /\ a * d \in Nat /\ a * (x + d) = a * x + a * d
      BY <3>1
    <3> QED BY <2>1, <3>2
  <2>3. SUFFICES ASSUME p % P = (p + q) % P PROVE FALSE
    BY <2>2
  <2>4. PICK r \in 0 .. P - 1, k \in Int : r = p % P /\ p = P * k + r
    <3>1. p % P \in 0 .. P - 1 /\ p \div P \in Int /\ p = P * (p \div P) + (p % P)
      BY PrimeType, Remainder
    <3> QED BY <3>1
  <2>5. PICK l \in Int : p + q = P * l + r
    <3>1. PICK s \in Int : s = p + q
      OBVIOUS
    <3>2. s = P * (s \div P) + (s % P) /\ s \div P \in Int
      BY <3>1, PrimeType, Remainder
    <3> QED BY <2>3, <2>4, <3>1, <3>2
  <2>6. PICK i \in Int : i = l - k /\ q = P * i
    <3>1. l - k \in Int /\ P * (l - k) = P * l - P * k
      BY PrimeType
    <3>2. P * k \in Int /\ P * l \in Int
      BY PrimeType
    <3>3. q = P * l - P * k
      BY <2>4, <2>5, <3>2
    <3> QED BY <3>1, <3>3
  <2>7. q % P = 0
    <3>1. q = 0 + P * i /\ 0 \in Int /\ 0 \in 0 .. P - 1
      BY <2>6, PrimeType
    <3>2. 0 % P = 0
      BY <3>1, SmallResidue, PrimeType
    <3> QED BY <3>1, <3>2, Shift, PrimeType
  <2> QED BY <2>2, <2>7, PrimeAssumption DEF NonZero
<1>2. b < c \/ c < b \/ b = c
  BY DEF NonZero
<1> QED BY <1>1, <1>2

\* No power of it is zero.
LEMMA UnitPower ==
  ASSUME NEW y \in NonZero, NEW n \in Nat
  PROVE  Power(y, n) \in NonZero
<1> DEFINE T == {k \in 0 .. n : Power(y, k) \in NonZero}
<1>1. y \in Field
  BY PrimeType
<1>2. 0 \in T
  BY <1>1, PowerNext, PrimeType DEF NonZero
<1>3. ASSUME NEW k \in 1 .. n, k - 1 \in T PROVE k \in T
  <2>1. PICK j \in Nat : j = k - 1 /\ k = j + 1
    OBVIOUS
  <2>2. Power(y, k) = (y * Power(y, j)) % P /\ Power(y, j) \in NonZero
    BY <1>1, <1>3, <2>1, PowerNext
  <2> QED BY <2>2, UnitTimes
<1> HIDE DEF T
<1>4. 0 .. n \subseteq T
  BY <1>2, <1>3, UpTo, Zenon
<1>5. n \in T
  BY <1>4
<1> QED BY <1>5 DEF T

\* Equal powers are a period apart.
LEMMA PowersMeet ==
  ASSUME NEW y \in NonZero, NEW i \in Nat, NEW j \in Nat, i < j, Power(y, i) = Power(y, j)
  PROVE  Power(y, j - i) = 1
<1>1. PICK d \in Nat : d = j - i /\ j = i + d
  OBVIOUS
<1>2. y \in Field /\ Power(y, i) \in NonZero /\ Power(y, d) \in NonZero /\ 1 \in NonZero
  BY UnitPower, PrimeType DEF NonZero
<1>3. Power(y, j) = (Power(y, i) * Power(y, d)) % P
  BY <1>1, <1>2, PowerSum
<1>4. (Power(y, i) * 1) % P = Power(y, i)
  <2>1. PICK w \in NonZero : w = Power(y, i)
    BY <1>2
  <2>2. w * 1 = w /\ w \in 0 .. P - 1
    BY DEF NonZero
  <2>3. w % P = w
    BY <2>2, SmallResidue, PrimeType
  <2> QED BY <2>1, <2>2, <2>3
<1>5. Power(y, d) = 1
  BY <1>2, <1>3, <1>4, UnitCancels
<1> QED BY <1>1, <1>5

\* The order of y
Order1(y, n) ==
  /\ n \in 1 .. P - 1 /\ Power(y, n) = 1
  /\ \A i, j \in 0 .. n - 1 : Power(y, i) = Power(y, j) => i = j

\* Every element that is not zero has an order.
LEMMA OrderExists ==
  ASSUME NEW y \in NonZero
  PROVE  \E n : Order1(y, n)
<1> DEFINE T == {m \in 1 .. P - 1 : Power(y, m) = 1}
<1>1. \E m \in T : TRUE
  <2>1. PICK f : f = [k \in 0 .. P - 1 |-> Power(y, k)]
    OBVIOUS
  <2>2. f \in [0 .. P - 1 -> NonZero]
    BY <2>1, UnitPower
  <2>3. IsFiniteSet(0 .. P - 1) /\ Cardinality(0 .. P - 1) = P
    <3>1. 0 \in Int /\ P - 1 \in Int /\ ~(0 > P - 1) /\ (P - 1) - 0 + 1 = P
      BY PrimeType
    <3> QED BY <3>1, FS_Interval
  <2>4. IsFiniteSet(NonZero) /\ Cardinality(NonZero) = P - 1
    <3>1. 1 \in Int /\ P - 1 \in Int /\ ~(1 > P - 1) /\ (P - 1) - 1 + 1 = P - 1
      BY PrimeType
    <3> QED BY <3>1, FS_Interval DEF NonZero
  <2>5. Cardinality(NonZero) < Cardinality(0 .. P - 1)
    BY <2>3, <2>4, PrimeType
  <2>6. PICK i, j \in 0 .. P - 1 : i # j /\ f[i] = f[j]
    BY <2>2, <2>3, <2>4, <2>5, FS_PigeonHole
  <2>7. ASSUME NEW a \in 0 .. P - 1, NEW b \in 0 .. P - 1, a < b, Power(y, a) = Power(y, b)
        PROVE  \E m \in T : TRUE
    <3>1. b - a \in 1 .. P - 1 /\ a \in Nat /\ b \in Nat
      BY <2>7, PrimeType
    <3> QED BY <2>7, <3>1, PowersMeet
  <2>8. i < j \/ j < i
    BY <2>6
  <2> QED BY <2>1, <2>6, <2>7, <2>8
<1>2. T \in SUBSET Nat
  OBVIOUS
<1>3. PICK n \in T : \A m \in T : n <= m
  BY <1>1, <1>2, Least
<1>4. ASSUME NEW i \in 0 .. n - 1, NEW j \in 0 .. n - 1, i < j, Power(y, i) = Power(y, j) PROVE FALSE
  <2>1. i \in Nat /\ j \in Nat /\ j - i \in 1 .. P - 1 /\ j - i < n
    BY <1>4, PrimeType
  <2>2. Power(y, j - i) = 1
    BY <1>4, <2>1, PowersMeet
  <2> QED BY <1>3, <2>1, <2>2
<1>5. \A i, j \in 0 .. n - 1 : i < j \/ j < i \/ i = j
  OBVIOUS
<1> QED BY <1>3, <1>4, <1>5 DEF Order1

\* Sets of nonzero elements that multiplication by y does not leave
ClosedUnder(y, U) == U \in SUBSET NonZero /\ \A u \in U : (y * u) % P \in U

\* What u becomes when it is multiplied by y again and again
Orbit(y, n, u) == {(Power(y, k) * u) % P : k \in 0 .. n - 1}

\* There are P - 1 elements that are not zero.
LEMMA UnitsFinite == IsFiniteSet(NonZero) /\ Cardinality(NonZero) = P - 1
<1>1. 1 \in Int /\ P - 1 \in Int /\ ~(1 > P - 1) /\ (P - 1) - 1 + 1 = P - 1
  BY PrimeType
<1> QED BY <1>1, FS_Interval DEF NonZero

\* An orbit has as many elements as the order of y.
LEMMA OrbitSize ==
  ASSUME NEW y \in NonZero, NEW n, Order1(y, n), NEW u \in NonZero
  PROVE  IsFiniteSet(Orbit(y, n, u)) /\ Cardinality(Orbit(y, n, u)) = n
<1>1. PICK f : f = [k \in 0 .. n - 1 |-> (Power(y, k) * u) % P]
  OBVIOUS
<1>2. PICK O : O = Orbit(y, n, u)
  OBVIOUS
<1>3. IsFiniteSet(0 .. n - 1) /\ Cardinality(0 .. n - 1) = n
  <2>1. n \in Nat \ {0}
    BY PrimeType DEF Order1
  <2>2. 0 \in Int /\ n - 1 \in Int /\ ~(0 > n - 1) /\ (n - 1) - 0 + 1 = n
    BY <2>1
  <2> QED BY <2>2, FS_Interval
<1>4. f \in [0 .. n - 1 -> O] /\ \A x \in O : \E k \in 0 .. n - 1 : f[k] = x
  BY <1>1, <1>2 DEF Orbit
<1>5. ASSUME NEW i \in 0 .. n - 1, NEW j \in 0 .. n - 1, f[i] = f[j] PROVE i = j
  <2>1. PICK a \in NonZero, b \in NonZero : a = Power(y, i) /\ b = Power(y, j)
    <3>1. i \in Nat /\ j \in Nat
      OBVIOUS
    <3> QED BY <3>1, UnitPower
  <2>2. (a * u) % P = (b * u) % P
    BY <1>1, <1>5, <2>1
  <2>3. (u * a) % P = (u * b) % P
    <3>1. a \in Int /\ b \in Int /\ u \in Int
      BY DEF NonZero
    <3> QED BY <2>2, <3>1, ProductOrder
  <2>4. a = b
    BY <2>3, UnitCancels
  <2> QED BY <2>1, <2>4 DEF Order1
<1>6. f \in Surjection(0 .. n - 1, O)
  BY <1>4 DEF Surjection
<1>7. f \in Injection(0 .. n - 1, O)
  BY <1>4, <1>5 DEF Injection, IsInjective
<1> QED BY <1>2, <1>3, <1>6, <1>7, FS_Surjection

\* An orbit lies in every closed set it starts in, and leaves a closed set.
LEMMA OrbitLeaves ==
  ASSUME NEW y \in NonZero, NEW n, Order1(y, n), NEW U, ClosedUnder(y, U), NEW u \in U
  PROVE  Orbit(y, n, u) \subseteq U /\ ClosedUnder(y, U \ Orbit(y, n, u))
<1>1. n \in Nat \ {0} /\ Power(y, n) = 1 /\ u \in NonZero /\ y \in Field
  BY PrimeType DEF Order1, ClosedUnder
<1>2. PICK g : g = [k \in 0 .. n |-> (Power(y, k) * u) % P]
  OBVIOUS
<1>3. g[0] = u /\ g[n] = u
  <2>1. 1 * u = u /\ u \in 0 .. P - 1
    BY <1>1 DEF NonZero
  <2>2. u % P = u
    BY <2>1, SmallResidue, PrimeType
  <2>3. Power(y, 0) = 1 /\ 0 \in 0 .. n /\ n \in 0 .. n
    BY <1>1, PowerNext
  <2> QED BY <1>1, <1>2, <2>1, <2>2, <2>3
<1>4. ASSUME NEW k \in 0 .. n PROVE g[k] \in NonZero
  <2>1. Power(y, k) \in NonZero
    BY UnitPower
  <2> QED BY <1>1, <1>2, <2>1, UnitTimes
<1>5. ASSUME NEW k \in 1 .. n PROVE g[k] = (y * g[k - 1]) % P
  <2>1. PICK j \in Nat : j = k - 1 /\ k = j + 1 /\ j \in 0 .. n /\ k \in 0 .. n
    BY <1>1
  <2>2. PICK w \in Int : w = Power(y, j)
    <3>1. Power(y, j) \in Field
      BY <1>1, <2>1, PowerNext
    <3>2. PICK x : x = Power(y, j)
      OBVIOUS
    <3>3. x \in 0 .. P - 1
      BY <3>1, <3>2 DEF Field
    <3>4. x \in Int
      BY <3>3
    <3> QED BY <3>2, <3>4
  <2>3. Power(y, k) = (y * w) % P
    BY <1>1, <2>1, <2>2, PowerNext
  <2>4. y \in Int /\ u \in Int
    BY <1>1 DEF NonZero
  <2>5. (((y * w) % P) * u) % P = (y * ((w * u) % P)) % P
    BY <2>2, <2>4, ProductOrder
  <2> QED BY <1>2, <2>1, <2>2, <2>3, <2>5
<1>6. 0 .. n \subseteq {k \in 0 .. n : g[k] \in U}
  <2> DEFINE T == {k \in 0 .. n : g[k] \in U}
  <2>1. 0 \in T
    BY <1>1, <1>3
  <2>2. ASSUME NEW k \in 1 .. n, k - 1 \in T PROVE k \in T
    <3>1. g[k - 1] \in U
      BY <2>2
    <3>2. (y * g[k - 1]) % P \in U
      BY <3>1 DEF ClosedUnder
    <3> QED BY <1>5, <3>2
  <2>3. n \in Nat
    BY <1>1
  <2> HIDE DEF T
  <2>4. 0 .. n \subseteq T
    BY <2>1, <2>2, <2>3, UpTo, Zenon
  <2> QED BY <2>4 DEF T
<1>7. Orbit(y, n, u) = {g[k] : k \in 0 .. n - 1}
  <2>1. \A k \in 0 .. n - 1 : k \in 0 .. n /\ g[k] = (Power(y, k) * u) % P
    BY <1>1, <1>2
  <2> QED BY <2>1 DEF Orbit
<1>8. ASSUME NEW v \in U \ Orbit(y, n, u) PROVE (y * v) % P \in U \ Orbit(y, n, u)
  <2>1. (y * v) % P \in U /\ v \in NonZero
    BY <1>8 DEF ClosedUnder
  <2>2. SUFFICES ASSUME NEW k \in 0 .. n - 1, (y * v) % P = g[k] PROVE FALSE
    BY <1>7, <2>1
  <2>3. PICK j \in 1 .. n : g[k] = g[j]
    <3>1. CASE k = 0
      BY <1>1, <1>3, <3>1
    <3>2. CASE k # 0
      BY <1>1, <3>2
    <3> QED BY <3>1, <3>2
  <2>4. g[j] = (y * g[j - 1]) % P /\ j - 1 \in 0 .. n - 1 /\ j - 1 \in 0 .. n
    BY <1>1, <1>5
  <2>5. v = g[j - 1]
    BY <1>4, <2>1, <2>2, <2>3, <2>4, UnitCancels
  <2> QED BY <1>7, <1>8, <2>4, <2>5
<1>9. Orbit(y, n, u) \subseteq U
  <2>1. \A k \in 0 .. n - 1 : k \in 0 .. n
    BY <1>1
  <2> QED BY <1>6, <1>7, <2>1
<1>10. PICK V : V = U \ Orbit(y, n, u)
  OBVIOUS
<1>11. ClosedUnder(y, V)
  BY <1>8, <1>10 DEF ClosedUnder
<1> QED BY <1>9, <1>10, <1>11

\* The order of y divides the size of every closed set.
LEMMA ClosedSize ==
  ASSUME NEW y \in NonZero, NEW n, Order1(y, n), NEW U, ClosedUnder(y, U)
  PROVE  \E q \in Nat : Cardinality(U) = n * q
<1> DEFINE T == {m \in Nat : \E V : /\ ClosedUnder(y, V) /\ Cardinality(V) = m
                                    /\ ~\E q \in Nat : m = n * q}
<1>1. n \in Nat \ {0}
  BY PrimeType DEF Order1
<1>2. ASSUME NEW V, ClosedUnder(y, V) PROVE IsFiniteSet(V) /\ Cardinality(V) \in Nat
  <2>1. IsFiniteSet(V)
    BY <1>2, UnitsFinite, FS_Subset DEF ClosedUnder
  <2> QED BY <2>1, FS_CardinalityType
<1>3. SUFFICES ASSUME ~\E q \in Nat : Cardinality(U) = n * q PROVE FALSE
  OBVIOUS
<1>4. Cardinality(U) \in T
  BY <1>2, <1>3
<1>5. T \in SUBSET Nat
  OBVIOUS
<1>6. PICK m \in T : \A k \in T : m <= k
  BY <1>4, <1>5, Least
<1>7. PICK V : ClosedUnder(y, V) /\ Cardinality(V) = m /\ ~\E q \in Nat : m = n * q
  BY <1>6
<1>8. m # 0
  <2>1. 0 = n * 0
    BY <1>1
  <2> QED BY <1>7, <2>1
<1>9. IsFiniteSet(V) /\ m \in Nat
  BY <1>2, <1>7
<1>10. PICK u \in V : u \in NonZero
  <2>1. V # {}
    BY <1>7, <1>8, FS_EmptySet
  <2> QED BY <1>7, <2>1 DEF ClosedUnder
<1>11. PICK O, W : O = Orbit(y, n, u) /\ W = V \ O
  OBVIOUS
<1>12. O \subseteq V /\ ClosedUnder(y, W) /\ IsFiniteSet(O) /\ Cardinality(O) = n
  BY <1>7, <1>10, <1>11, OrbitLeaves, OrbitSize
<1>13. PICK k \in Nat : k = Cardinality(W) /\ IsFiniteSet(W)
  BY <1>2, <1>12
<1>14. m = n + k
  <2>1. O \cup W = V /\ O \cap W = {}
    BY <1>11, <1>12
  <2>2. Cardinality(O \cup W) = Cardinality(O) + Cardinality(W) - Cardinality(O \cap W)
    BY <1>12, <1>13, FS_Union
  <2>3. Cardinality({}) = 0
    BY FS_EmptySet
  <2>4. m = n + k - 0
    BY <1>7, <1>12, <1>13, <2>1, <2>2, <2>3
  <2> QED BY <1>1, <1>13, <2>4
<1>15. k \notin T
  BY <1>1, <1>6, <1>14
<1>16. PICK q \in Nat : k = n * q
  BY <1>12, <1>13, <1>15
<1>17. m = n * (q + 1) /\ q + 1 \in Nat
  BY <1>1, <1>14, <1>16
<1> QED BY <1>7, <1>17

\* Powers of one are one.
LEMMA OnePower ==
  ASSUME NEW q \in Nat
  PROVE  Power(1, q) = 1
<1> DEFINE T == {k \in 0 .. q : Power(1, k) = 1}
<1>1. 1 \in Field /\ 1 % P = 1
  <2>1. 1 \in 0 .. P - 1
    BY PrimeType
  <2> QED BY <2>1, SmallResidue, PrimeType DEF Field
<1>2. 0 \in T
  BY <1>1, PowerNext
<1>3. ASSUME NEW k \in 1 .. q, k - 1 \in T PROVE k \in T
  <2>1. PICK j \in Nat : j = k - 1 /\ k = j + 1
    OBVIOUS
  <2> QED BY <1>1, <1>3, <2>1, PowerNext
<1> HIDE DEF T
<1>4. 0 .. q \subseteq T
  BY <1>2, <1>3, UpTo, Zenon
<1>5. q \in T
  BY <1>4
<1> QED BY <1>5 DEF T

\* Fermat's little theorem
LEMMA Fermat ==
  ASSUME NEW y \in NonZero
  PROVE  Power(y, P - 1) = 1
<1>1. PICK n : Order1(y, n)
  BY OrderExists
<1>2. ClosedUnder(y, NonZero)
  BY UnitTimes DEF ClosedUnder
<1>3. PICK q \in Nat : P - 1 = n * q
  BY <1>1, <1>2, ClosedSize, UnitsFinite
<1>4. y \in Field /\ n \in Nat /\ Power(y, n) = 1 /\ 1 \in Field
  BY <1>1, PrimeType DEF Order1, Field
<1>5. Power(y, P - 1) = Power(1, q)
  BY <1>3, <1>4, PowerProduct
<1>6. Power(1, q) = 1
  BY OnePower
<1> QED BY <1>5, <1>6

\* The inverse exponent takes roots, and there is one root only.
LEMMA RootOfPower ==
  ASSUME NEW y \in Field, NEW d \in Nat, NEW e \in Inverses(d)
  PROVE  Power(Power(y, d), e) = y
<1>1. e \in Nat /\ e >= 1 /\ (d * e) % (P - 1) = 1
  BY PrimeType DEF Inverses
<1>2. PICK h \in Nat : h = P - 1 /\ h > 0 /\ h > 1
  BY PrimeType
<1>3. PICK m \in Nat : m = d * e
  BY <1>1
<1>4. PICK k \in Int : m = h * k + 1
  <2>1. m \in Int
    OBVIOUS
  <2>2. m = h * (m \div h) + (m % h) /\ m \div h \in Int
    BY <1>2, <2>1, Remainder
  <2> QED BY <1>1, <1>2, <1>3, <2>2
<1>5. k \in Nat
  <2>1. ASSUME k <= -1 PROVE FALSE
    <3>1. PICK j \in Nat : j = -k /\ j >= 1 /\ h * k = -(h * j)
      BY <1>2, <2>1
    <3>2. h * j >= h
      BY <1>2, <3>1
    <3> QED BY <1>2, <1>4, <3>1, <3>2
  <2> QED BY <2>1
<1>6. Power(Power(y, d), e) = Power(y, m)
  BY <1>1, <1>3, PowerProduct
<1>7. Power(y, 1) = y
  <2>1. Power(y, 0 + 1) = (y * Power(y, 0)) % P /\ Power(y, 0) = 1
    BY PowerNext
  <2>2. y \in 0 .. P - 1 /\ y * 1 = y /\ 0 + 1 = 1
    BY PrimeType DEF Field
  <2>3. y % P = y
    BY <2>2, SmallResidue, PrimeType
  <2> QED BY <2>1, <2>2, <2>3
<1>8. PICK j \in Nat : j = h * k /\ m = j + 1
  <2>1. h * k \in Nat
    BY <1>2, <1>5
  <2> QED BY <1>4, <2>1
<1>9. PICK w \in Field : w = Power(y, j) /\ Power(y, m) = (w * y) % P
  <2>1. 1 \in Nat /\ Power(y, j) \in Field
    BY PowerNext
  <2>2. Power(y, j + 1) = (Power(y, j) * Power(y, 1)) % P
    BY <2>1, PowerSum
  <2> QED BY <1>7, <1>8, <2>1, <2>2
<1>10. CASE y = 0
  <2>1. w * y = 0 /\ 0 \in 0 .. P - 1
    <3>1. w \in Int /\ w * 0 = 0 /\ 0 \in 0 .. P - 1
      BY PrimeType
    <3> QED BY <1>10, <3>1
  <2>2. 0 % P = 0
    BY <2>1, SmallResidue, PrimeType
  <2> QED BY <1>6, <1>9, <1>10, <2>1, <2>2
<1>11. CASE y # 0
  <2>1. y \in NonZero
    BY <1>11 DEF Field, NonZero
  <2>2. Power(y, h) = 1
    BY <1>2, <2>1, Fermat
  <2>3. w = Power(1, k)
    BY <1>2, <1>5, <1>8, <1>9, <2>2, PowerProduct
  <2>4. w = 1
    BY <1>5, <2>3, OnePower
  <2>5. 1 * y = y /\ y \in 0 .. P - 1
    BY PrimeType DEF Field
  <2>6. y % P = y
    BY <2>5, SmallResidue, PrimeType
  <2> QED BY <1>6, <1>9, <2>4, <2>5, <2>6
<1> QED BY <1>10, <1>11

-----------------------------------------------------------------------------
(***************************************************************************)
(* Sums of words, and rows of the matrix                                   *)
(***************************************************************************)
\* The sums of the first terms of f
Sums0(g, n, f) == g \in [0 .. n -> Nat] /\ g[0] = 0 /\ \A k \in 1 .. n : g[k] = g[k - 1] + f[k - 1]

\* The sums of the first terms exist.
LEMMA Sums0Exist ==
  ASSUME NEW n \in Nat, NEW f \in [0 .. n - 1 -> Nat]
  PROVE  \E g : Sums0(g, n, f)
<1>1. PICK t : t = [k \in 1 .. n |-> f[k - 1]]
  OBVIOUS
<1>2. t \in [1 .. n -> Nat] /\ \A k \in 1 .. n : t[k] = f[k - 1]
  BY <1>1
<1>3. PICK g : SumsUp(g, n, t)
  BY <1>2, PlainSum
<1> QED BY <1>2, <1>3 DEF SumsUp, Sums0

\* Total is the last of them.
LEMMA TotalIs ==
  ASSUME NEW n \in Nat, NEW f, NEW g, Sums0(g, n, f)
  PROVE  Total(n, f) = g[n]
<1> DEFINE Good(h) == h = [k \in 0 .. n |-> IF k = 0 THEN 0 ELSE h[k - 1] + f[k - 1]]
<1>1. Good(g)
  <2>1. ASSUME NEW k \in 0 .. n PROVE g[k] = IF k = 0 THEN 0 ELSE g[k - 1] + f[k - 1]
    BY DEF Sums0
  <2>2. g = [k \in 0 .. n |-> g[k]]
    BY DEF Sums0
  <2> QED BY <2>1, <2>2
<1> DEFINE h == CHOOSE h : Good(h)
<1>2. Good(h)
  BY <1>1, Zenon
<1>3. Total(n, f) = h[n]
  BY DEF Total
<1>4. h[0] = 0 /\ \A k \in 1 .. n : h[k] = h[k - 1] + f[k - 1]
  <2>1. \A k \in 0 .. n : h[k] = IF k = 0 THEN 0 ELSE h[k - 1] + f[k - 1]
    BY <1>2, Zenon
  <2>2. 0 \in 0 .. n /\ \A k \in 1 .. n : k \in 0 .. n /\ k # 0
    OBVIOUS
  <2> QED BY <2>1, <2>2, Zenon
<1> HIDE DEF h, Good
<1> DEFINE T == {k \in 0 .. n : h[k] = g[k]}
<1>5. 0 \in T
  BY <1>4 DEF Sums0
<1>6. ASSUME NEW k \in 1 .. n, k - 1 \in T PROVE k \in T
  BY <1>4, <1>6 DEF Sums0
<1> HIDE DEF T
<1>7. 0 .. n \subseteq T
  BY <1>5, <1>6, UpTo, Zenon
<1>8. n \in T
  BY <1>7
<1> QED BY <1>3, <1>8 DEF T

\* The sums of a block are the products with its rows.
LEMMA FourIs ==
  ASSUME NEW x \in [0 .. 3 -> Nat], NEW c \in 1 .. 4
  PROVE  /\ Four(x)[c] \in Nat
         /\ Four(x)[c] = x[0] * Block[c][1] + x[1] * Block[c][2]
                           + x[2] * Block[c][3] + x[3] * Block[c][4]
<1>1. PICK a \in Nat, b \in Nat, d \in Nat, e \in Nat : a = x[0] /\ b = x[1] /\ d = x[2] /\ e = x[3]
  OBVIOUS
<1>2. c = 1 \/ c = 2 \/ c = 3 \/ c = 4
  OBVIOUS
<1> QED BY <1>1, <1>2 DEF Four, Block

\* The matrix of width 3 adds the sum of all words to each.
LEMMA ThreeAgree ==
  ASSUME NEW x \in [Lanes(3) -> Nat], NEW i \in Lanes(3)
  PROVE  /\ Linear(3, x)[i] \in Nat
         /\ Total(3, [j \in Lanes(3) |-> x[j] * Matrix(3)[i][j]]) = Linear(3, x)[i]
<1>1. PICK f : f = [j \in Lanes(3) |-> x[j] * Matrix(3)[i][j]]
  OBVIOUS
<1>2. PICK a \in Nat, b \in Nat, d \in Nat : a = x[0] /\ b = x[1] /\ d = x[2]
  BY DEF Lanes
<1>3. Lanes(3) = {0, 1, 2} /\ Lanes(3) = 0 .. 3 - 1
  BY DEF Lanes
<1>4. /\ f[0] = (IF i = 0 THEN a + a ELSE a) /\ f[1] = (IF i = 1 THEN b + b ELSE b)
      /\ f[2] = (IF i = 2 THEN d + d ELSE d)
  BY <1>1, <1>2, <1>3 DEF Matrix
<1>5. f \in [0 .. 3 - 1 -> Nat]
  BY <1>1, <1>2, <1>3, <1>4
<1>6. PICK g : Sums0(g, 3, f)
  BY <1>5, Sums0Exist
<1>7. PICK h : Sums0(h, 3, x)
  BY <1>3, Sums0Exist
<1>8. g[3] = f[0] + f[1] + f[2] /\ h[3] = a + b + d
  <2>1. g[1] = g[0] + f[0] /\ g[2] = g[1] + f[1] /\ g[3] = g[2] + f[2] /\ g[0] = 0
    BY <1>6 DEF Sums0
  <2>2. h[1] = h[0] + a /\ h[2] = h[1] + b /\ h[3] = h[2] + d /\ h[0] = 0
    BY <1>2, <1>7 DEF Sums0
  <2> QED BY <1>2, <1>4, <2>1, <2>2
<1>9. Total(3, f) = g[3] /\ Total(3, x) = h[3]
  BY <1>6, <1>7, TotalIs
<1>10. Linear(3, x)[i] = x[i] + Total(3, x)
  BY DEF Linear
<1> QED BY <1>1, <1>2, <1>3, <1>4, <1>8, <1>9, <1>10

\* The words of block b
BlockOf(x, b) == [a \in 0 .. 3 |-> x[4 * b + a]]

\* The place of a word in its block
LEMMA InBlock ==
  ASSUME NEW b \in Nat, NEW a \in 0 .. 3
  PROVE  (4 * b + a) % 4 = a /\ (4 * b + a) \div 4 = b
  OBVIOUS

\* Row c of the block matrix, for every block of x
FourSums(x, k, c) == [b \in 0 .. k - 1 |-> Four(BlockOf(x, b))[c]]

\* Linear, word by word, for a width of k blocks
LEMMA LinearIs ==
  ASSUME NEW k \in Nat \ {0}, NEW t, t = 4 * k, NEW x, NEW i \in Lanes(t),
         NEW c, c = (i % 4) + 1, NEW F, F = FourSums(x, k, c)
  PROVE  /\ i \div 4 \in 0 .. k - 1 /\ c \in 1 .. 4
         /\ Linear(t, x)[i] = F[i \div 4] + (IF k = 1 THEN 0 ELSE Total(k, F))
<1>1. i \in 0 .. t - 1 /\ t # 3 /\ t \div 4 = k /\ (t = 4 <=> k = 1)
  BY DEF Lanes
<1>2. c \in 1 .. 4
  <2>1. i \in Nat
    BY <1>1
  <2> QED BY <2>1
<1>3. i \div 4 \in 0 .. k - 1
  BY <1>1
<1>4. PICK fours : fours = [b \in 0 .. k - 1 |-> Four(BlockOf(x, b))]
  OBVIOUS
<1>5. Linear(t, x)[i] = fours[i \div 4][c]
        + (IF t = 4 THEN 0 ELSE [l \in 1 .. 4 |-> Total(k, [b \in 0 .. k - 1 |-> fours[b][l]])][c])
  BY <1>1, <1>2, <1>3, <1>4 DEF Linear, BlockOf, Lanes
<1>6. [b \in 0 .. k - 1 |-> fours[b][c]] = F
  BY <1>4 DEF FourSums
<1>7. fours[i \div 4][c] = F[i \div 4]
  BY <1>3, <1>4 DEF FourSums
<1> QED BY <1>1, <1>2, <1>3, <1>5, <1>6, <1>7

\* The matrix of a width of k blocks adds up the same.
LEMMA FoursAgree ==
  ASSUME NEW k \in Nat \ {0}, NEW t, t = 4 * k, NEW x \in [Lanes(t) -> Nat], NEW i \in Lanes(t)
  PROVE  /\ Linear(t, x)[i] \in Nat
         /\ Total(t, [j \in Lanes(t) |-> x[j] * Matrix(t)[i][j]]) = Linear(t, x)[i]
<1>1. PICK f : f = [j \in Lanes(t) |-> x[j] * Matrix(t)[i][j]]
  OBVIOUS
<1>2. PICK c, r : c = (i % 4) + 1 /\ r = i \div 4
  OBVIOUS
<1>3. PICK F : F = FourSums(x, k, c)
  OBVIOUS
<1>4. c \in 1 .. 4 /\ r \in 0 .. k - 1 /\ Linear(t, x)[i] = F[r] + (IF k = 1 THEN 0 ELSE Total(k, F))
  <2>1. /\ i \div 4 \in 0 .. k - 1 /\ c \in 1 .. 4
        /\ Linear(t, x)[i] = F[i \div 4] + (IF k = 1 THEN 0 ELSE Total(k, F))
    BY <1>2, <1>3, LinearIs
  <2> QED BY <1>2, <2>1
<1>5. ASSUME NEW b \in 0 .. k - 1
      PROVE  /\ BlockOf(x, b) \in [0 .. 3 -> Nat]
             /\ \A a \in 0 .. 3 : 4 * b + a \in Lanes(t)
  <2>1. \A a \in 0 .. 3 : 4 * b + a \in Lanes(t)
    BY DEF Lanes
  <2> QED BY <2>1 DEF BlockOf
<1>6. F \in [0 .. k - 1 -> Nat]
  BY <1>3, <1>4, <1>5, FourIs DEF FourSums
<1>7. PICK h : Sums0(h, k, F)
  BY <1>6, Sums0Exist
\* How often block b counts
<1>8. PICK m : m = [b \in 0 .. k - 1 |-> IF k # 1 /\ b = r THEN 2 ELSE 1]
  OBVIOUS
<1>9. ASSUME NEW b \in 0 .. k - 1, NEW a \in 0 .. 3
      PROVE  f[4 * b + a] = BlockOf(x, b)[a] * (Block[c][a + 1] * m[b])
  <2>1. PICK j : j = 4 * b + a /\ j \in Lanes(t) /\ j % 4 = a /\ j \div 4 = b
    <3>1. b \in Nat
      OBVIOUS
    <3> QED BY <1>5, <3>1, InBlock
  <2>2. t # 3 /\ (t > 4 <=> k # 1)
    OBVIOUS
  <2>3. Matrix(t)[i][j] = Block[c][a + 1] * (IF t > 4 /\ r = b THEN 2 ELSE 1)
    BY <1>2, <1>4, <2>1, <2>2 DEF Matrix
  <2>4. m[b] = IF t > 4 /\ r = b THEN 2 ELSE 1
    BY <1>8, <2>2
  <2>5. BlockOf(x, b)[a] = x[j]
    BY <2>1 DEF BlockOf
  <2> QED BY <1>1, <2>1, <2>3, <2>4, <2>5
<1>10. c = 1 \/ c = 2 \/ c = 3 \/ c = 4
  BY <1>4
<1>11. f \in [0 .. t - 1 -> Nat]
  <2>1. ASSUME NEW j \in 0 .. t - 1 PROVE f[j] \in Nat
    <3>1. PICK b, a : b \in 0 .. k - 1 /\ a \in 0 .. 3 /\ j = 4 * b + a
      <4>1. j \in Nat
        OBVIOUS
      <4>2. j \div 4 \in 0 .. k - 1 /\ j % 4 \in 0 .. 3 /\ j = 4 * (j \div 4) + (j % 4)
        BY <4>1
      <4> QED BY <4>2
    <3>2. m[b] \in Nat /\ BlockOf(x, b)[a] \in Nat
      BY <1>5, <1>8, <3>1
    <3>3. Block[c][a + 1] \in Nat
      BY <1>10, <3>1 DEF Block
    <3> QED BY <1>9, <3>1, <3>2, <3>3
  <2>2. f = [j \in 0 .. t - 1 |-> f[j]]
    BY <1>1 DEF Lanes
  <2> QED BY <2>1, <2>2
<1>12. t \in Nat
  OBVIOUS
<1>13. PICK g : Sums0(g, t, f)
  BY <1>11, <1>12, Sums0Exist
<1>14. ASSUME NEW b \in 0 .. k - 1 PROVE g[4 * b + 4] = g[4 * b] + m[b] * F[b]
  <2>1. PICK s \in Nat : s = 4 * b /\ s + 4 <= t
    OBVIOUS
  <2>2. g[s + 1] = g[s] + f[s] /\ g[s + 2] = g[s + 1] + f[s + 1] /\ g[s + 3] = g[s + 2] + f[s + 2]
        /\ g[s + 4] = g[s + 3] + f[s + 3]
    <3>1. /\ s + 1 \in 1 .. t /\ s + 2 \in 1 .. t /\ s + 3 \in 1 .. t /\ s + 4 \in 1 .. t
          /\ s + 1 - 1 = s /\ s + 2 - 1 = s + 1 /\ s + 3 - 1 = s + 2 /\ s + 4 - 1 = s + 3
      BY <2>1
    <3> QED BY <1>13, <3>1 DEF Sums0
  <2>3. PICK p0 \in Nat, p1 \in Nat, p2 \in Nat, p3 \in Nat, n \in Nat :
          /\ p0 = BlockOf(x, b)[0] /\ p1 = BlockOf(x, b)[1] /\ p2 = BlockOf(x, b)[2]
          /\ p3 = BlockOf(x, b)[3] /\ n = m[b]
    <3>1. /\ BlockOf(x, b)[0] \in Nat /\ BlockOf(x, b)[1] \in Nat /\ BlockOf(x, b)[2] \in Nat
          /\ BlockOf(x, b)[3] \in Nat
      BY <1>5
    <3>2. m[b] \in Nat
      BY <1>8
    <3> QED BY <3>1, <3>2
  <2>4. PICK q0 \in Nat, q1 \in Nat, q2 \in Nat, q3 \in Nat :
          q0 = Block[c][1] /\ q1 = Block[c][2] /\ q2 = Block[c][3] /\ q3 = Block[c][4]
    BY <1>10 DEF Block
  <2>5. f[s] = p0 * (q0 * n) /\ f[s + 1] = p1 * (q1 * n) /\ f[s + 2] = p2 * (q2 * n)
        /\ f[s + 3] = p3 * (q3 * n)
    <3>1. s + 0 = s /\ 0 \in 0 .. 3 /\ 1 \in 0 .. 3 /\ 2 \in 0 .. 3 /\ 3 \in 0 .. 3
          /\ 0 + 1 = 1 /\ 1 + 1 = 2 /\ 2 + 1 = 3 /\ 3 + 1 = 4
      OBVIOUS
    <3> QED BY <1>9, <2>1, <2>3, <2>4, <3>1
  <2>6. F[b] = p0 * q0 + p1 * q1 + p2 * q2 + p3 * q3
    BY <1>3, <1>4, <1>5, <2>3, <2>4, FourIs DEF FourSums
  <2>7. g[s] \in Nat
    BY <1>13, <2>1 DEF Sums0
  <2>8. n * (p0 * q0 + p1 * q1 + p2 * q2 + p3 * q3)
          = p0 * (q0 * n) + p1 * (q1 * n) + p2 * (q2 * n) + p3 * (q3 * n)
    OBVIOUS
  <2>9. PICK e0 \in Nat, e1 \in Nat, e2 \in Nat, e3 \in Nat :
          e0 = p0 * (q0 * n) /\ e1 = p1 * (q1 * n) /\ e2 = p2 * (q2 * n) /\ e3 = p3 * (q3 * n)
    OBVIOUS
  <2>10. m[b] * F[b] = e0 + e1 + e2 + e3
    BY <2>3, <2>6, <2>8, <2>9
  <2>11. g[s + 4] = g[s] + (e0 + e1 + e2 + e3)
    BY <2>2, <2>5, <2>7, <2>9
  <2> QED BY <2>1, <2>10, <2>11
<1> DEFINE T == {b \in 0 .. k : g[4 * b] = h[b] + (IF k # 1 /\ r < b THEN F[r] ELSE 0)}
<1>15. 0 \in T
  <2>1. r \in Nat /\ ~(r < 0) /\ 4 * 0 = 0 /\ 0 \in 0 .. k
    BY <1>4
  <2>2. g[0] = 0 /\ h[0] = 0
    BY <1>7, <1>13 DEF Sums0
  <2> QED BY <2>1, <2>2
<1>16. ASSUME NEW d \in 1 .. k, d - 1 \in T PROVE d \in T
  <2>1. PICK b \in 0 .. k - 1 : b = d - 1 /\ d = b + 1 /\ 4 * d = 4 * b + 4
    OBVIOUS
  <2>2. g[4 * b] = h[b] + (IF k # 1 /\ r < b THEN F[r] ELSE 0)
    BY <1>16, <2>1
  <2>3. g[4 * d] = g[4 * b] + m[b] * F[b]
    BY <1>14, <2>1
  <2>4. h[d] = h[b] + F[b] /\ h[b] \in Nat /\ F[b] \in Nat /\ F[r] \in Nat
    BY <1>4, <1>6, <1>7, <2>1 DEF Sums0
  <2>5. CASE k # 1 /\ b = r
    <3>1. m[b] * F[b] = F[b] + F[b]
      BY <1>8, <2>4, <2>5
    <3> QED BY <1>4, <2>1, <2>2, <2>3, <2>4, <2>5, <3>1
  <2>6. CASE ~(k # 1 /\ b = r)
    <3>1. m[b] * F[b] = F[b]
      BY <1>8, <2>4, <2>6
    <3>2. k # 1 /\ r < d <=> k # 1 /\ r < b
      BY <1>4, <2>1, <2>6
    <3> QED BY <1>4, <2>1, <2>2, <2>3, <2>4, <3>1, <3>2
  <2> QED BY <2>5, <2>6
<1> HIDE DEF T
<1>17. 0 .. k \subseteq T
  BY <1>15, <1>16, UpTo, Zenon
<1>18. k \in T
  BY <1>17
<1>19. g[t] = h[k] + (IF k # 1 THEN F[r] ELSE 0)
  BY <1>4, <1>18 DEF T
<1>20. Total(t, f) = g[t] /\ Total(k, F) = h[k]
  BY <1>7, <1>12, <1>13, TotalIs
<1>21. k = 1 => h[k] = F[r] /\ r = 0
  BY <1>4, <1>6, <1>7 DEF Sums0
<1>22. h[k] \in Nat /\ F[r] \in Nat
  BY <1>4, <1>6, <1>7 DEF Sums0
<1> QED BY <1>1, <1>4, <1>19, <1>20, <1>21, <1>22

-----------------------------------------------------------------------------
(***************************************************************************)
(* Layers of the code and of the circuit                                   *)
(***************************************************************************)
\* Parameters that are ready: the width, the exponents, the constants, the pairs, the matrix
Arguments(p) ==
  /\ p.t \in Nat /\ (p.t = 3 \/ p.t % 4 = 0)
  /\ p.d \in Nat /\ p.dInv \in Inverses(p.d) /\ p.rounds \in Nat /\ p.rounds >= 1
  /\ p.rate = p.t - 1

\* Constants for all rounds but the last, in a width that reserves room for pairs
Constants(p) == p.t >= 3 /\ p.rc \in [0 .. p.rounds - 2 -> [Lanes(p.t) -> RoundConstants]]

\* The first n pairs
Pairs(ab, n) == ab \in Seq(Int \X Int) /\ Len(ab) = n

\* All that GriffinParams::new returns
ReadyParams(p) == Arguments(p) /\ Constants(p) /\ Pairs(p.ab, p.t - 2) /\ p.mat = Matrix(p.t)

\* The states of width t
States(t) == [Lanes(t) -> Field]

\* The sums of Griffin are the products of the gadget, whatever the width.
LEMMA LayersAgree ==
  ASSUME NEW p, ReadyParams(p), NEW x \in States(p.t), NEW i \in Lanes(p.t)
  PROVE  /\ Linear(p.t, x)[i] \in Nat
         /\ VarAffine(p, x)[i] = Linear(p.t, x)[i] % P
<1>1. PICK t \in Nat : t = p.t /\ t >= 3 /\ (t = 3 \/ t % 4 = 0) /\ p.mat = Matrix(t)
  BY DEF ReadyParams, Arguments, Constants
<1>2. x \in [Lanes(t) -> Nat]
  BY <1>1, PrimeType DEF States
<1>3. VarAffine(p, x)[i] = Total(t, [j \in Lanes(t) |-> x[j] * Matrix(t)[i][j]]) % P
  BY <1>1 DEF VarAffine
<1>4. CASE t = 3
  BY <1>1, <1>2, <1>3, <1>4, ThreeAgree
<1>5. CASE t # 3
  <2>1. PICK k \in Nat \ {0} : t = 4 * k
    <3>1. t \div 4 \in Nat \ {0} /\ t = 4 * (t \div 4)
      BY <1>1, <1>5
    <3> QED BY <3>1
  <2> QED BY <1>1, <1>2, <1>3, <2>1, FoursAgree
<1> QED BY <1>4, <1>5

\* So are the layers with their constants.
LEMMA AffineAgrees ==
  ASSUME NEW p, ReadyParams(p), NEW x \in States(p.t), NEW r \in Nat
  PROVE  /\ Affine(p, x, r) \in States(p.t)
         /\ VarConstants(p, VarAffine(p, x), r) = Affine(p, x, r)
         /\ VarAffine(p, x) = Affine(p, x, p.rounds)
<1>0. PICK n \in Nat : n = p.rounds /\ p.rc \in [0 .. n - 2 -> [Lanes(p.t) -> RoundConstants]]
  BY DEF ReadyParams, Arguments, Constants
<1>1. ASSUME NEW i \in Lanes(p.t)
      PROVE  /\ Affine(p, x, r)[i] \in Field
             /\ VarConstants(p, VarAffine(p, x), r)[i] = Affine(p, x, r)[i]
             /\ VarAffine(p, x)[i] = Affine(p, x, n)[i]
  <2>1. PICK a \in Nat : a = Linear(p.t, x)[i] /\ VarAffine(p, x)[i] = a % P
    BY LayersAgree
  <2>2. PICK c \in Int : c = IF r < n - 1 THEN p.rc[r][i] ELSE 0
    <3>1. CASE r < n - 1
      <4>1. r \in 0 .. n - 2
        BY <3>1
      <4>2. p.rc[r][i] \in RoundConstants
        BY <1>0, <4>1
      <4> QED BY <3>1, <4>2, ElementAssumption
    <3>2. CASE ~(r < n - 1)
      BY <3>2
    <3> QED BY <3>1, <3>2
  <2>3. Affine(p, x, r)[i] = (a + c) % P
    BY <1>0, <2>1, <2>2 DEF Affine
  <2>4. VarConstants(p, VarAffine(p, x), r)[i] = ((a % P) + c) % P
    BY <1>0, <2>1, <2>2 DEF VarConstants
  <2>5. Affine(p, x, n)[i] = (a + 0) % P
    <3>1. ~(n < n - 1)
      OBVIOUS
    <3> QED BY <1>0, <2>1, <3>1 DEF Affine
  <2>6. ((a % P) + c) % P = (a + c) % P /\ (a + c) % P \in 0 .. P - 1 /\ a + 0 = a
    <3>1. a \in Int /\ a + c \in Int
      OBVIOUS
    <3>2. ((a % P) + c) % P = (a + c) % P
      BY <3>1, Residue, PrimeType
    <3>3. (a + c) % P \in 0 .. P - 1
      BY <3>1, Remainder, PrimeType
    <3> QED BY <3>2, <3>3
  <2> QED BY <2>1, <2>3, <2>4, <2>5, <2>6 DEF Field
<1>2. /\ DOMAIN Affine(p, x, r) = Lanes(p.t) /\ DOMAIN Affine(p, x, n) = Lanes(p.t)
      /\ DOMAIN VarConstants(p, VarAffine(p, x), r) = Lanes(p.t) /\ DOMAIN VarAffine(p, x) = Lanes(p.t)
  BY DEF Affine, VarConstants, VarAffine
<1>3. PICK f, g, h, a : /\ f = Affine(p, x, r) /\ g = VarConstants(p, VarAffine(p, x), r)
                        /\ h = VarAffine(p, x) /\ a = Affine(p, x, n)
  OBVIOUS
<1>4. /\ f = [i \in Lanes(p.t) |-> f[i]] /\ g = [i \in Lanes(p.t) |-> g[i]]
      /\ h = [i \in Lanes(p.t) |-> h[i]] /\ a = [i \in Lanes(p.t) |-> a[i]]
  BY <1>3 DEF Affine, VarConstants, VarAffine
<1>5. f = g /\ h = a /\ f \in [Lanes(p.t) -> Field]
  BY <1>1, <1>3, <1>4
<1> QED BY <1>0, <1>3, <1>5 DEF States

\* A root that satisfies the constraint is the one Griffin computes, and with it the layer.
LEMMA NonLinearAgrees ==
  ASSUME NEW p, ReadyParams(p), NEW x \in States(p.t), NEW y0 \in RootHints(p, x)
  PROVE  VarNonLinear(p, x, y0) = NonLinear(p, x) /\ NonLinear(p, x) \in States(p.t)
<1>1. p.d \in Nat /\ p.dInv \in Inverses(p.d) /\ p.dInv \in Nat /\ p.t \in Nat /\ p.t >= 3
  BY DEF ReadyParams, Arguments, Constants, Inverses
<1>2. y0 \in Field /\ Power(y0, p.d) = x[0]
  BY DEF RootHints
<1>3. y0 = Power(x[0], p.dInv)
  BY <1>1, <1>2, RootOfPower
<1>4. PICK y1 \in Field : y1 = Power(x[1], p.d)
  <2>1. x[1] \in Field
    BY <1>1 DEF States, Lanes
  <2> QED BY <1>1, <2>1, PowerNext
<1>5. ASSUME NEW i \in 2 .. p.t - 1 PROVE Masked(p, x, y0, y1)[i] \in Field
  <2>1. PICK a \in Int, b \in Int : a = p.ab[i - 1][1] /\ b = p.ab[i - 1][2]
    <3>1. PICK ab \in Seq(Int \X Int) : ab = p.ab /\ Len(ab) = p.t - 2
      BY DEF ReadyParams, Pairs
    <3>2. i - 1 \in 1 .. Len(ab)
      BY <1>1, <3>1
    <3>3. ab[i - 1] \in Int \X Int
      BY <3>1, <3>2
    <3> QED BY <3>1, <3>3
  <2>2. PICK u \in Int : u = x[i]
    <3>1. i \in Lanes(p.t)
      BY <1>1 DEF Lanes
    <3> QED BY <3>1, PrimeType DEF States, Field
  <2>3. PICK l \in Int : l = y1 + (i - 1) * y0 + (IF i = 2 THEN 0 ELSE x[i - 1])
    <3>1. PICK v \in Int : v = IF i = 2 THEN 0 ELSE x[i - 1]
      <4>1. i # 2 => i - 1 \in Lanes(p.t)
        BY <1>1 DEF Lanes
      <4>2. i # 2 => x[i - 1] \in Field
        BY <4>1 DEF States
      <4> QED BY <4>2, PrimeType DEF Field
    <3>2. y1 \in Int /\ y0 \in Int /\ i - 1 \in Int
      BY <1>2, PrimeType
    <3>3. y1 + (i - 1) * y0 + v \in Int
      BY <3>2
    <3> QED BY <3>1, <3>3
  <2>4. Masked(p, x, y0, y1)[i] = (u * ((l * l + l * a + b) % P)) % P
    BY <2>1, <2>2, <2>3 DEF Masked
  <2>5. PICK m \in Int : m = (l * l + l * a + b) % P
    <3>1. l * l + l * a + b \in Int
      OBVIOUS
    <3> QED BY <3>1, Remainder, PrimeType
  <2>6. u * m \in Int
    OBVIOUS
  <2> QED BY <2>4, <2>5, <2>6, Remainder, PrimeType DEF Field
<1>6. VarNonLinear(p, x, y0) = NonLinear(p, x)
  BY <1>3 DEF VarNonLinear, NonLinear
<1>7. NonLinear(p, x) = [i \in Lanes(p.t) |->
                           IF i = 0 THEN y0 ELSE IF i = 1 THEN y1 ELSE Masked(p, x, y0, y1)[i]]
  BY <1>3, <1>4 DEF NonLinear
<1>8. ASSUME NEW i \in Lanes(p.t)
      PROVE  (IF i = 0 THEN y0 ELSE IF i = 1 THEN y1 ELSE Masked(p, x, y0, y1)[i]) \in Field
  <2>1. i = 0 \/ i = 1 \/ i \in 2 .. p.t - 1
    BY <1>1 DEF Lanes
  <2> QED BY <1>2, <1>4, <1>5, <2>1
<1> QED BY <1>6, <1>7, <1>8 DEF States

\* A chunk that is added leaves a state.
LEMMA AddedState ==
  ASSUME NEW t \in Nat, NEW x \in States(t), NEW n \in Nat, NEW chunk \in [1 .. n -> Words]
  PROVE  Added(x, chunk) \in States(t)
<1>1. Len(chunk) = n
  <2>1. chunk \in Seq(Words)
    OBVIOUS
  <2> QED BY <2>1
<1>2. ASSUME NEW i \in Lanes(t)
      PROVE  (x[i] + (IF i < Len(chunk) THEN chunk[i + 1] ELSE 0)) % P \in Field
  <2>1. PICK a \in Int : a = x[i]
    BY PrimeType DEF States, Field
  <2>2. PICK b \in Int : b = IF i < Len(chunk) THEN chunk[i + 1] ELSE 0
    <3>1. CASE i < n
      <4>1. i + 1 \in 1 .. n
        BY <3>1 DEF Lanes
      <4>2. chunk[i + 1] \in Words
        BY <4>1
      <4> QED BY <1>1, <3>1, <4>2, ElementAssumption
    <3>2. CASE ~(i < n)
      BY <1>1, <3>2
    <3> QED BY <3>1, <3>2
  <2>3. a + b \in Int
    OBVIOUS
  <2> QED BY <2>1, <2>2, <2>3, Remainder, PrimeType DEF Field
<1> QED BY <1>2 DEF Added, States

-----------------------------------------------------------------------------
(***************************************************************************)
(* The invariant of Griffin                                                *)
(***************************************************************************)
\* The fields of GriffinParams
Fields == {"t", "d", "rounds", "rate", "dInv", "debug", "rc", "ab", "mat"}

\* The parameters as far as they are made; from then on one state of code and circuit
GriffinInv ==
  /\ stage = "constants" => Arguments(params) /\ DOMAIN params = Fields
  /\ stage = "first" => Arguments(params) /\ Constants(params) /\ DOMAIN params = Fields
  /\ stage = "others" =>
       /\ Arguments(params) /\ Constants(params) /\ DOMAIN params = Fields
       /\ \E n \in 1 .. params.t - 2 : Pairs(params.ab, n)
  /\ stage \in {"ready", "rounds"} =>
       ReadyParams(params) /\ state \in States(params.t) /\ wires = state
  /\ stage = "rounds" => round \in Nat

\* new starts with arguments that it has asserted.
LEMMA NewStep == ASSUME NewParams PROVE GriffinInv'
<1>1. PICK s \in Shapes :
        IF Asserted(s) /\ Inverses(s.d) # {}
        THEN /\ stage' = "constants"
             /\ params' = [t |-> s.t, d |-> s.d, rounds |-> s.rounds, rate |-> s.t - 1,
                           dInv |-> CHOOSE e \in Inverses(s.d) : TRUE, debug |-> s.debug,
                           rc |-> <<>>, ab |-> <<>>, mat |-> <<>>]
        ELSE stage' = "panicked" /\ UNCHANGED params
  BY DEF NewParams
<1>2. CASE Asserted(s) /\ Inverses(s.d) # {}
  <2>1. PICK t, d, rounds : t = s.t /\ d = s.d /\ rounds = s.rounds
    OBVIOUS
  <2>2. t \in Nat /\ d \in Nat /\ rounds \in Nat /\ rounds >= 1 /\ (t = 3 \/ t % 4 = 0)
    BY <1>2, <2>1, ShapeAssumption DEF Asserted
  <2>3. PICK e \in Inverses(d) : e = CHOOSE c \in Inverses(s.d) : TRUE
    BY <1>2, <2>1
  <2>4. PICK q : q = params'
    OBVIOUS
  <2>5. q = [t |-> t, d |-> d, rounds |-> rounds, rate |-> t - 1, dInv |-> e, debug |-> s.debug,
             rc |-> <<>>, ab |-> <<>>, mat |-> <<>>]
    BY <1>1, <1>2, <2>1, <2>3, <2>4
  <2>6. Arguments(q)
    BY <2>2, <2>3, <2>5 DEF Arguments
  <2>7. DOMAIN q = Fields
    BY <2>5 DEF Fields
  <2>8. stage' = "constants"
    BY <1>1, <1>2
  <2> QED BY <2>4, <2>6, <2>7, <2>8 DEF GriffinInv
<1>3. CASE ~(Asserted(s) /\ Inverses(s.d) # {})
  <2>1. stage' = "panicked"
    BY <1>1, <1>3
  <2> QED BY <2>1 DEF GriffinInv
<1> QED BY <1>2, <1>3

\* Then come the constants of all rounds but the last,
LEMMA ConstantsStep == ASSUME GriffinInv, DrawRoundConstants PROVE GriffinInv'
<1>1. Arguments(params) /\ DOMAIN params = Fields
  BY DEF GriffinInv, DrawRoundConstants
<1>2. PICK rc \in [0 .. params.rounds - 2 -> [Lanes(params.t) -> RoundConstants]] :
        params' = [params EXCEPT !.rc = rc]
  BY DEF DrawRoundConstants
<1>3. PICK q : q = params' /\ q = [params EXCEPT !.rc = rc]
  BY <1>2
<1>4. /\ DOMAIN q = Fields /\ q.rc = rc /\ q.t = params.t /\ q.d = params.d
      /\ q.rounds = params.rounds /\ q.rate = params.rate /\ q.dInv = params.dInv
  BY <1>1, <1>3 DEF Fields
<1>5. Arguments(q)
  BY <1>1, <1>4 DEF Arguments
<1>6. CASE params.t < 2
  <2>1. stage' = "panicked"
    BY <1>6 DEF DrawRoundConstants
  <2> QED BY <2>1 DEF GriffinInv
<1>7. CASE ~(params.t < 2)
  <2>1. stage' = "first" /\ q.t >= 3
    BY <1>1, <1>4, <1>7 DEF DrawRoundConstants, Arguments
  <2>2. Constants(q)
    BY <1>4, <2>1 DEF Constants
  <2> QED BY <1>3, <1>4, <1>5, <2>1, <2>2 DEF GriffinInv
<1> QED BY <1>6, <1>7

\* the first pair,
LEMMA FirstPairStep == ASSUME GriffinInv, DrawFirstPair PROVE GriffinInv'
<1>1. Arguments(params) /\ Constants(params) /\ DOMAIN params = Fields
  BY DEF GriffinInv, DrawFirstPair
<1>2. PICK alpha, beta \in NonZero : params' = [params EXCEPT !.ab = <<<<alpha, beta>>>>]
  BY DEF DrawFirstPair
<1>3. PICK q, ab : q = params' /\ ab = <<<<alpha, beta>>>> /\ q = [params EXCEPT !.ab = ab]
  BY <1>2
<1>4. /\ DOMAIN q = Fields /\ q.ab = ab /\ q.rc = params.rc /\ q.t = params.t /\ q.d = params.d
      /\ q.rounds = params.rounds /\ q.rate = params.rate /\ q.dInv = params.dInv
  BY <1>1, <1>3 DEF Fields
<1>5. Arguments(q) /\ Constants(q)
  BY <1>1, <1>4 DEF Arguments, Constants
<1>6. Pairs(ab, 1)
  <2>1. <<alpha, beta>> \in Int \X Int
    BY DEF NonZero
  <2> QED BY <1>3, <2>1 DEF Pairs
<1>7. 1 \in 1 .. q.t - 2
  BY <1>5 DEF Arguments, Constants
<1>8. stage' = "others"
  BY DEF DrawFirstPair
<1> QED BY <1>3, <1>4, <1>5, <1>6, <1>7, <1>8 DEF GriffinInv

\* and the others, up to one for each word from the third on.
LEMMA OtherPairStep == ASSUME GriffinInv, DrawOtherPair PROVE GriffinInv'
<1>1. /\ Arguments(params) /\ Constants(params) /\ DOMAIN params = Fields
      /\ \E n \in 1 .. params.t - 2 : Pairs(params.ab, n)
  BY DEF GriffinInv, DrawOtherPair
<1>2. PICK t \in Nat : t = params.t /\ t >= 3
  BY <1>1 DEF Arguments, Constants
<1>3. PICK n \in 1 .. t - 2 : Pairs(params.ab, n)
  BY <1>1, <1>2
<1>4. PICK i, scaled : i = Len(params.ab) + 1 /\ i = n + 1 /\ scaled = ScaledPair(params.ab[1], i)
  BY <1>3 DEF Pairs
<1>5. CASE i \notin OtherPairs(params.t)
  <2>1. /\ params' = [params EXCEPT !.mat = Matrix(params.t)] /\ stage' = "ready"
        /\ state' = Zeros(params.t) /\ wires' = Zeros(params.t)
    BY <1>4, <1>5 DEF DrawOtherPair
  <2>2. PICK q : q = params' /\ q = [params EXCEPT !.mat = Matrix(t)]
    BY <1>2, <2>1
  <2>3. /\ q.mat = Matrix(t) /\ q.ab = params.ab /\ q.rc = params.rc /\ q.t = t /\ q.d = params.d
        /\ q.rounds = params.rounds /\ q.rate = params.rate /\ q.dInv = params.dInv
    BY <1>1, <1>2, <2>2 DEF Fields
  <2>4. Arguments(q) /\ Constants(q)
    BY <1>1, <1>2, <2>3 DEF Arguments, Constants
  <2>5. n = t - 2
    BY <1>2, <1>4, <1>5 DEF OtherPairs
  <2>6. ReadyParams(q)
    BY <1>3, <2>3, <2>4, <2>5 DEF ReadyParams
  <2>7. Zeros(t) \in States(t)
    BY PrimeType DEF Zeros, States, Field
  <2> QED BY <1>2, <2>1, <2>2, <2>3, <2>6, <2>7 DEF GriffinInv
<1>6. CASE i \in OtherPairs(params.t)
  <2>1. PICK pair \in IF scaled[1] # scaled[2]
                      THEN {scaled}
                      ELSE {<<scaled[1], beta>> : beta \in NonZero \ {scaled[1]}} :
          IF params.debug /\ ~GoodPair(pair)
          THEN stage' = "panicked" /\ UNCHANGED params
          ELSE /\ params' = [params EXCEPT !.ab = Append(@, pair)]
               /\ UNCHANGED stage
    BY <1>4, <1>6 DEF DrawOtherPair
  <2>2. CASE params.debug /\ ~GoodPair(pair)
    <3>1. stage' = "panicked"
      BY <2>1, <2>2
    <3> QED BY <3>1 DEF GriffinInv
  <2>3. CASE ~(params.debug /\ ~GoodPair(pair))
    <3>1. PICK q, ab : /\ ab = Append(params.ab, pair) /\ q = params'
                       /\ q = [params EXCEPT !.ab = ab]
      BY <2>1, <2>3
    <3>2. /\ DOMAIN q = Fields /\ q.ab = ab /\ q.rc = params.rc /\ q.t = t /\ q.d = params.d
          /\ q.rounds = params.rounds /\ q.rate = params.rate /\ q.dInv = params.dInv
      BY <1>1, <1>2, <3>1 DEF Fields
    <3>3. Arguments(q) /\ Constants(q)
      BY <1>1, <1>2, <3>2 DEF Arguments, Constants
    <3>4. pair \in Int \X Int
      <4>1. PICK old \in Seq(Int \X Int) : old = params.ab /\ Len(old) = n
        BY <1>3 DEF Pairs
      <4>2. 1 \in 1 .. Len(old)
        BY <4>1
      <4>3. PICK a \in Int, b \in Int : old[1][1] = a /\ old[1][2] = b
        BY <4>1, <4>2
      <4>4. i \in Int /\ a * i \in Int /\ b * i * i \in Int
        BY <1>4
      <4>5. (a * i) % P \in Int /\ (b * i * i) % P \in Int
        BY <4>4, Remainder, PrimeType
      <4>6. scaled = <<(a * i) % P, (b * i * i) % P>>
        BY <1>4, <4>1, <4>3 DEF ScaledPair
      <4> QED BY <2>1, <4>5, <4>6 DEF NonZero
    <3>5. Pairs(ab, n + 1)
      <4>1. PICK old \in Seq(Int \X Int) : old = params.ab /\ Len(old) = n
        BY <1>3 DEF Pairs
      <4> QED BY <3>1, <3>4, <4>1 DEF Pairs
    <3>6. n + 1 \in 1 .. t - 2
      BY <1>2, <1>4, <1>6 DEF OtherPairs
    <3>7. stage' = "others"
      BY <2>1, <2>3 DEF DrawOtherPair
    <3>8. \E k \in 1 .. q.t - 2 : Pairs(q.ab, k)
      BY <3>2, <3>5, <3>6
    <3> QED BY <3>1, <3>2, <3>3, <3>7, <3>8 DEF GriffinInv
  <2> QED BY <2>2, <2>3
<1> QED BY <1>5, <1>6

\* A chunk is added and mixed alike.
LEMMA ChunkStep == ASSUME GriffinInv, AbsorbChunk PROVE GriffinInv'
<1>1. ReadyParams(params) /\ state \in States(params.t) /\ wires = state
  BY DEF GriffinInv, AbsorbChunk
<1>2. PICK n \in 1 .. params.rate : \E chunk \in [1 .. n -> Words] :
        /\ state' = Affine(params, Added(state, chunk), params.rounds)
        /\ wires' = VarAffine(params, Added(wires, chunk))
  BY DEF AbsorbChunk
<1>3. PICK chunk \in [1 .. n -> Words] :
        /\ state' = Affine(params, Added(state, chunk), params.rounds)
        /\ wires' = VarAffine(params, Added(wires, chunk))
  BY <1>2
<1>4. params.t \in Nat /\ n \in Nat /\ params.rounds \in Nat
  BY <1>1 DEF ReadyParams, Arguments
<1>5. Added(state, chunk) \in States(params.t)
  BY <1>1, <1>4, AddedState
<1>6. /\ Affine(params, Added(state, chunk), params.rounds) \in States(params.t)
      /\ VarAffine(params, Added(state, chunk)) = Affine(params, Added(state, chunk), params.rounds)
  BY <1>1, <1>4, <1>5, AffineAgrees
<1>7. state' \in States(params.t) /\ wires' = state'
  BY <1>1, <1>3, <1>6
<1>8. params' = params /\ stage' = "rounds" /\ round' = 0
  BY DEF AbsorbChunk
<1> QED BY <1>1, <1>7, <1>8 DEF GriffinInv

\* So does every round.
LEMMA RoundStep == ASSUME GriffinInv, OneRound PROVE GriffinInv'
<1>1. ReadyParams(params) /\ state \in States(params.t) /\ wires = state /\ round \in Nat
  BY DEF GriffinInv, OneRound
<1>2. PICK y0 \in RootHints(params, wires) :
        wires' = VarConstants(params, VarAffine(params, VarNonLinear(params, wires, y0)), round)
  BY DEF OneRound
<1>3. PICK x : /\ x = NonLinear(params, state) /\ x \in States(params.t)
               /\ x = VarNonLinear(params, wires, y0)
  BY <1>1, <1>2, NonLinearAgrees
<1>4. /\ Affine(params, x, round) \in States(params.t)
      /\ VarConstants(params, VarAffine(params, x), round) = Affine(params, x, round)
  BY <1>1, <1>3, AffineAgrees
<1>5. state' = Affine(params, x, round)
  BY <1>3 DEF OneRound
<1>6. params' = params /\ stage' \in {"ready", "rounds"} /\ round' = round + 1
  BY DEF OneRound
<1> QED BY <1>1, <1>2, <1>3, <1>4, <1>5, <1>6 DEF GriffinInv

\* Every step keeps the wires alike.
LEMMA GriffinInductive == GriffinSpec => []GriffinInv
<1>1. GriffinInit => GriffinInv
  BY DEF GriffinInit, GriffinInv
<1>2. GriffinInv /\ [GriffinNext]_gvars => GriffinInv'
  <2> SUFFICES ASSUME GriffinInv, [GriffinNext]_gvars PROVE GriffinInv'
    OBVIOUS
  <2>1. CASE UNCHANGED gvars
    BY <2>1 DEF GriffinInv, gvars
  <2>2. CASE GriffinNext
    BY <2>2, NewStep, ConstantsStep, FirstPairStep, OtherPairStep, ChunkStep, RoundStep DEF GriffinNext
  <2> QED BY <2>1, <2>2
<1> QED BY <1>1, <1>2, PTL DEF GriffinSpec

\* Whatever roots satisfy the constraints, for any prime field, width, exponent, number of rounds,
\* constants and message, the wires of GriffinGadget::hash carry the state of Griffin::hash after
\* every layer.
THEOREM GadgetHashesAlike == GriffinSpec => []HashGadgetAgrees
<1>1. GriffinInv => HashGadgetAgrees
  BY DEF GriffinInv, HashGadgetAgrees
<1> QED BY <1>1, GriffinInductive, PTL

-----------------------------------------------------------------------------
(***************************************************************************)
(* Numbers that are zero in the field                                      *)
(***************************************************************************)
\* A number that is zero in the field
Vanishes(a) == \E k \in Int : a = P * k

\* Such a number has the residue zero.
LEMMA VanishesIs == ASSUME NEW a \in Int PROVE Vanishes(a) <=> a % P = 0
<1>1. ASSUME a % P = 0 PROVE Vanishes(a)
  <2>1. a = P * (a \div P) + (a % P) /\ a \div P \in Int
    BY Remainder, PrimeType
  <2>2. a = P * (a \div P)
    BY <1>1, <2>1, PrimeType
  <2> QED BY <2>1, <2>2 DEF Vanishes
<1>2. ASSUME Vanishes(a) PROVE a % P = 0
  <2>1. PICK k \in Int : a = P * k
    BY <1>2 DEF Vanishes
  <2>2. 0 \in Int /\ a = 0 + P * k /\ 0 \in 0 .. P - 1
    BY <2>1, PrimeType
  <2>3. a % P = 0 % P
    BY <2>2, Shift, PrimeType
  <2>4. 0 % P = 0
    BY <2>2, SmallResidue, PrimeType
  <2> QED BY <2>3, <2>4
<1> QED BY <1>1, <1>2

\* Residues are the same if the difference vanishes.
LEMMA SameResidue ==
  ASSUME NEW a \in Int, NEW b \in Int
  PROVE  a % P = b % P <=> Vanishes(a - b)
<1>1. PICK r \in Int, s \in Int, k \in Int, l \in Int :
        r = a % P /\ s = b % P /\ a = P * k + r /\ b = P * l + s /\ r \in 0 .. P - 1 /\ s \in 0 .. P - 1
  <2>1. /\ a % P \in 0 .. P - 1 /\ a \div P \in Int /\ a = P * (a \div P) + (a % P)
        /\ b % P \in 0 .. P - 1 /\ b \div P \in Int /\ b = P * (b \div P) + (b % P)
    BY Remainder, PrimeType
  <2>2. a % P \in Int /\ b % P \in Int
    BY <2>1
  <2> QED BY <2>1, <2>2
<1>2. ASSUME r = s PROVE Vanishes(a - b)
  <2>1. a - b = P * (k - l) /\ k - l \in Int
    BY <1>1, <1>2, PrimeType
  <2> QED BY <2>1 DEF Vanishes
<1>3. ASSUME Vanishes(a - b) PROVE r = s
  <2>1. PICK m \in Int : a - b = P * m
    BY <1>3 DEF Vanishes
  <2>2. a = b + P * m
    BY <2>1, PrimeType
  <2> QED BY <1>1, <2>2, Shift, PrimeType
<1> QED BY <1>1, <1>2, <1>3

\* Sums, differences and multiples
LEMMA VanishTogether ==
  ASSUME NEW a \in Int, NEW b \in Int, Vanishes(a), NEW u \in Int
  PROVE  /\ Vanishes(b) => Vanishes(a + b) /\ Vanishes(a - b)
         /\ Vanishes(u * a)
<1>1. PICK k \in Int : a = P * k
  BY DEF Vanishes
<1>2. ASSUME Vanishes(b) PROVE Vanishes(a + b) /\ Vanishes(a - b)
  <2>1. PICK l \in Int : b = P * l
    BY <1>2 DEF Vanishes
  <2>2. a + b = P * (k + l) /\ k + l \in Int /\ a - b = P * (k - l) /\ k - l \in Int
    BY <1>1, <2>1, PrimeType
  <2> QED BY <2>2 DEF Vanishes
<1>3. u * a = P * (u * k) /\ u * k \in Int
  BY <1>1, PrimeType
<1>4. Vanishes(u * a)
  BY <1>3 DEF Vanishes
<1> QED BY <1>2, <1>4

\* Without zero divisors
LEMMA VanishesAlone ==
  ASSUME NEW u \in Int, NEW a \in Int, ~Vanishes(u), Vanishes(u * a)
  PROVE  Vanishes(a)
<1>1. SUFFICES ASSUME ~Vanishes(a) PROVE FALSE
  OBVIOUS
<1>2. PICK v \in NonZero, b \in NonZero : v = u % P /\ b = a % P
  <2>1. u % P \in 0 .. P - 1 /\ a % P \in 0 .. P - 1
    BY Remainder, PrimeType
  <2>2. u % P # 0 /\ a % P # 0
    BY <1>1, VanishesIs
  <2>3. u % P \in NonZero /\ a % P \in NonZero
    BY <2>1, <2>2, PrimeType DEF NonZero
  <2> QED BY <2>3
<1>3. (v * b) % P # 0
  BY <1>2, PrimeAssumption DEF NonZero
<1>4. (v * b) % P = (u * a) % P
  <2>1. v \in Int /\ b \in Int /\ v * a = a * v /\ v * b = b * v /\ u * a \in Int
    BY DEF NonZero
  <2>2. ((u % P) * a) % P = (u * a) % P
    BY Residue, PrimeType
  <2>3. ((a % P) * v) % P = (a * v) % P
    BY <2>1, Residue, PrimeType
  <2> QED BY <1>2, <2>1, <2>2, <2>3
<1>5. u * a \in Int
  OBVIOUS
<1> QED BY <1>3, <1>4, <1>5, VanishesIs

\* The prime is odd.
LEMMA TwiceVanishes == ASSUME NEW a \in Int, Vanishes(2 * a) PROVE Vanishes(a)
<1>1. 2 % P = 2
  <2>1. 2 \in 0 .. P - 1
    BY PrimeType
  <2> QED BY <2>1, SmallResidue, PrimeType
<1>2. ~Vanishes(2)
  BY <1>1, VanishesIs
<1> QED BY <1>2, VanishesAlone

\* Two elements with such a difference are the same.
LEMMA FieldVanishes ==
  ASSUME NEW a \in Field, NEW b \in Field, Vanishes(a - b)
  PROVE  a = b
<1>1. a \in Int /\ b \in Int /\ a \in 0 .. P - 1 /\ b \in 0 .. P - 1
  BY DEF Field
<1>2. a % P = b % P
  BY <1>1, SameResidue
<1> QED BY <1>1, <1>2, SmallResidue, PrimeType

\* The words that are added to their sum are known by the results.
LEMMA SumsLeave ==
  ASSUME NEW k \in Nat, (k + 1) % P # 0, NEW F \in [0 .. k - 1 -> Nat], NEW G \in [0 .. k - 1 -> Nat],
         \A b \in 0 .. k - 1 : (F[b] + Total(k, F)) % P = (G[b] + Total(k, G)) % P
  PROVE  \A b \in 0 .. k - 1 : Vanishes(F[b] - G[b])
<1>1. PICK f : Sums0(f, k, F)
  BY Sums0Exist
<1>2. PICK g : Sums0(g, k, G)
  BY Sums0Exist
<1>3. PICK d \in Int, m \in Nat, n \in Nat : /\ m = f[k] /\ n = g[k] /\ d = m - n
                                             /\ Total(k, F) = m /\ Total(k, G) = n
  <2>1. f[k] \in Nat /\ g[k] \in Nat
    BY <1>1, <1>2 DEF Sums0
  <2>2. f[k] - g[k] \in Int
    BY <2>1
  <2> QED BY <1>1, <1>2, <2>1, <2>2, TotalIs
<1>4. ASSUME NEW b \in 0 .. k - 1 PROVE Vanishes(F[b] - G[b] + d)
  <2>1. PICK x \in Nat, y \in Nat : x = F[b] /\ y = G[b]
    OBVIOUS
  <2>2. (x + m) % P = (y + n) % P /\ x + m \in Int /\ y + n \in Int
    <3>1. (F[b] + Total(k, F)) % P = (G[b] + Total(k, G)) % P
      OBVIOUS
    <3>2. (x + m) % P = (y + n) % P
      BY <1>3, <2>1, <3>1
    <3> QED BY <3>2
  <2>3. Vanishes((x + m) - (y + n))
    BY <2>2, SameResidue
  <2>4. (x + m) - (y + n) = (x - y) + d
    <3>1. d = m - n
      BY <1>3
    <3> QED BY <3>1
  <2> QED BY <2>1, <2>3, <2>4
<1> DEFINE T == {b \in 0 .. k : Vanishes((f[b] - g[b]) + b * d)}
<1>5. 0 \in T
  <2>1. f[0] = 0 /\ g[0] = 0 /\ 0 \in 0 .. k /\ (0 - 0) + 0 * d = P * 0 /\ 0 \in Int
    BY <1>1, <1>2, PrimeType DEF Sums0
  <2> QED BY <2>1 DEF Vanishes
<1>6. ASSUME NEW e \in 1 .. k, e - 1 \in T PROVE e \in T
  <2>1. PICK b \in 0 .. k - 1 : b = e - 1 /\ e = b + 1
    OBVIOUS
  <2>2. PICK x \in Int, y \in Int, u \in Int, v \in Int : x = F[b] /\ y = G[b] /\ u = f[b] /\ v = g[b]
    <3>1. F[b] \in Int /\ G[b] \in Int
      OBVIOUS
    <3>2. f[b] \in Int /\ g[b] \in Int
      BY <1>1, <1>2 DEF Sums0
    <3> QED BY <3>1, <3>2
  <2>3. f[e] = u + x /\ g[e] = v + y
    BY <1>1, <1>2, <2>1, <2>2 DEF Sums0
  <2>4. PICK p \in Int, q \in Int : p = (u - v) + b * d /\ q = x - y + d
    <3>1. (u - v) + b * d \in Int /\ x - y + d \in Int
      OBVIOUS
    <3> QED BY <3>1
  <2>5. Vanishes(p) /\ Vanishes(q)
    BY <1>4, <1>6, <2>1, <2>2, <2>4
  <2>6. Vanishes(p + q)
    BY <2>5, VanishTogether
  <2>7. p + q = ((u + x) - (v + y)) + e * d
    <3>1. e * d = b * d + d
      BY <2>1
    <3>2. b * d \in Int
      OBVIOUS
    <3> QED BY <2>4, <3>1, <3>2
  <2>8. e \in 0 .. k /\ Vanishes((f[e] - g[e]) + e * d)
    BY <2>3, <2>6, <2>7
  <2> QED BY <2>8
<1> HIDE DEF T
<1>7. 0 .. k \subseteq T
  BY <1>5, <1>6, UpTo, Zenon
<1>8. Vanishes(d + k * d)
  <2>1. k \in T
    BY <1>7
  <2> QED BY <1>3, <2>1 DEF T
<1>9. Vanishes(d)
  <2>1. d + k * d = (k + 1) * d /\ k + 1 \in Int
    OBVIOUS
  <2>2. ~Vanishes(k + 1)
    BY <2>1, VanishesIs
  <2> QED BY <1>8, <2>1, <2>2, VanishesAlone
<1>10. ASSUME NEW b \in 0 .. k - 1 PROVE Vanishes(F[b] - G[b])
  <2>1. PICK w \in Int : w = F[b] - G[b]
    OBVIOUS
  <2>2. Vanishes(w + d) /\ w + d \in Int /\ (w + d) - d = w
    BY <1>4, <2>1, SMTT(30)
  <2> QED BY <1>9, <2>1, <2>2, VanishTogether
<1> QED BY <1>10

\* The products of a block with its rows tell its words.
LEMMA BlockLeaves ==
  ASSUME NEW u \in [0 .. 3 -> Field], NEW v \in [0 .. 3 -> Field],
         \A c \in 1 .. 4 : Vanishes(Four(u)[c] - Four(v)[c])
  PROVE  \A a \in 0 .. 3 : u[a] = v[a]
<1>1. PICK u0 \in Int, u1 \in Int, u2 \in Int, u3 \in Int :
        u0 = u[0] /\ u1 = u[1] /\ u2 = u[2] /\ u3 = u[3]
  <2>1. u[0] \in Int /\ u[1] \in Int /\ u[2] \in Int /\ u[3] \in Int
    BY DEF Field
  <2> QED BY <2>1
<1>2. PICK v0 \in Int, v1 \in Int, v2 \in Int, v3 \in Int :
        v0 = v[0] /\ v1 = v[1] /\ v2 = v[2] /\ v3 = v[3]
  <2>1. v[0] \in Int /\ v[1] \in Int /\ v[2] \in Int /\ v[3] \in Int
    BY DEF Field
  <2> QED BY <2>1
<1>3. PICK z0 \in Int, z1 \in Int, z2 \in Int, z3 \in Int :
        z0 = u0 - v0 /\ z1 = u1 - v1 /\ z2 = u2 - v2 /\ z3 = u3 - v3
  OBVIOUS
<1>4. PICK r1 \in Int, r2 \in Int, r3 \in Int, r4 \in Int :
        /\ r1 = 5 * z0 + 7 * z1 + z2 + 3 * z3 /\ r2 = 4 * z0 + 6 * z1 + z2 + z3
        /\ r3 = z0 + 3 * z1 + 5 * z2 + 7 * z3 /\ r4 = z0 + z1 + 4 * z2 + 6 * z3
  OBVIOUS
<1>5. Vanishes(r1) /\ Vanishes(r2) /\ Vanishes(r3) /\ Vanishes(r4)
  <2>1. /\ Four(u)[1] - Four(v)[1] = r1 /\ Four(u)[2] - Four(v)[2] = r2
        /\ Four(u)[3] - Four(v)[3] = r3 /\ Four(u)[4] - Four(v)[4] = r4
    BY <1>1, <1>2, <1>3, <1>4 DEF Four
  <2>2. 1 \in 1 .. 4 /\ 2 \in 1 .. 4 /\ 3 \in 1 .. 4 /\ 4 \in 1 .. 4
    OBVIOUS
  <2> QED BY <2>1, <2>2
<1>6. PICK a \in Int, b \in Int, c \in Int, d \in Int :
        /\ a = 10 * (r2 + r4) - 7 * (r1 + r3) /\ b = 5 * (r1 + r3) - 6 * (r2 + r4)
        /\ c = 5 * (r1 - r3) - 4 * (r2 - r4) /\ d = 4 * (r2 - r4) - 3 * (r1 - r3)
        /\ Vanishes(a) /\ Vanishes(b) /\ Vanishes(c) /\ Vanishes(d)
  <2>1. PICK s \in Int, t \in Int, h \in Int, g \in Int :
          /\ s = r1 + r3 /\ t = r2 + r4 /\ h = r1 - r3 /\ g = r2 - r4
          /\ Vanishes(s) /\ Vanishes(t) /\ Vanishes(h) /\ Vanishes(g)
    <3>1. /\ r1 + r3 \in Int /\ r2 + r4 \in Int /\ r1 - r3 \in Int /\ r2 - r4 \in Int
          /\ Vanishes(r1 + r3) /\ Vanishes(r2 + r4) /\ Vanishes(r1 - r3) /\ Vanishes(r2 - r4)
      BY <1>5, VanishTogether
    <3> QED BY <3>1
  <2>2. ASSUME NEW m \in Int, NEW n \in Int, NEW x \in Int, NEW y \in Int, Vanishes(x), Vanishes(y)
        PROVE  m * x - n * y \in Int /\ Vanishes(m * x - n * y)
    <3>1. m * x \in Int /\ n * y \in Int /\ Vanishes(m * x) /\ Vanishes(n * y)
      BY <2>2, VanishTogether
    <3> QED BY <3>1, VanishTogether
  <2>3. /\ 10 * t - 7 * s \in Int /\ Vanishes(10 * t - 7 * s)
        /\ 5 * s - 6 * t \in Int /\ Vanishes(5 * s - 6 * t)
        /\ 5 * h - 4 * g \in Int /\ Vanishes(5 * h - 4 * g)
        /\ 4 * g - 3 * h \in Int /\ Vanishes(4 * g - 3 * h)
    <3>1. 10 \in Int /\ 7 \in Int /\ 5 \in Int /\ 6 \in Int /\ 4 \in Int /\ 3 \in Int
      OBVIOUS
    <3>2. 10 * t - 7 * s \in Int /\ Vanishes(10 * t - 7 * s)
      BY <2>1, <2>2, <3>1, Zenon
    <3>3. 5 * s - 6 * t \in Int /\ Vanishes(5 * s - 6 * t)
      BY <2>1, <2>2, <3>1, Zenon
    <3>4. 5 * h - 4 * g \in Int /\ Vanishes(5 * h - 4 * g)
      BY <2>1, <2>2, <3>1, Zenon
    <3>5. 4 * g - 3 * h \in Int /\ Vanishes(4 * g - 3 * h)
      BY <2>1, <2>2, <3>1, Zenon
    <3> QED BY <3>2, <3>3, <3>4, <3>5
  <2> QED BY <2>1, <2>3
<1>7. /\ 2 * (2 * (2 * (2 * z0))) = a + c /\ 2 * (2 * (2 * (2 * z2))) = a - c
      /\ 2 * (2 * (2 * (2 * z1))) = b + d /\ 2 * (2 * (2 * (2 * z3))) = b - d
  <2>1. a + c = 16 * z0 /\ a - c = 16 * z2 /\ b + d = 16 * z1 /\ b - d = 16 * z3
    BY <1>4, <1>6
  <2> QED BY <2>1
<1>8. Vanishes(a + c) /\ Vanishes(a - c) /\ Vanishes(b + d) /\ Vanishes(b - d)
  BY <1>6, VanishTogether
<1>9. ASSUME NEW w \in Int, Vanishes(2 * (2 * (2 * (2 * w)))) PROVE Vanishes(w)
  <2>1. 2 * w \in Int /\ 2 * (2 * w) \in Int /\ 2 * (2 * (2 * w)) \in Int
    OBVIOUS
  <2>2. Vanishes(2 * (2 * (2 * w)))
    BY <1>9, <2>1, TwiceVanishes
  <2>3. Vanishes(2 * (2 * w))
    BY <2>1, <2>2, TwiceVanishes
  <2> QED BY <2>1, <2>3, TwiceVanishes
<1>10. Vanishes(z0) /\ Vanishes(z1) /\ Vanishes(z2) /\ Vanishes(z3)
  BY <1>7, <1>8, <1>9
<1>11. u[0] = v[0] /\ u[1] = v[1] /\ u[2] = v[2] /\ u[3] = v[3]
  BY <1>1, <1>2, <1>3, <1>10, FieldVanishes
<1>12. 0 .. 3 = {0, 1, 2, 3}
  OBVIOUS
<1> QED BY <1>11, <1>12

\* So do the linear layers of every width.
LEMMA LinearLeaves ==
  ASSUME NEW t \in Nat, t = 3 \/ (t % 4 = 0 /\ t >= 4), t % 4 = 0 => (t \div 4 + 1) % P # 0,
         NEW x \in States(t), NEW y \in States(t),
         \A i \in Lanes(t) : Linear(t, x)[i] % P = Linear(t, y)[i] % P
  PROVE  x = y
<1>1. SUFFICES \A i \in Lanes(t) : x[i] = y[i]
  BY DEF States
<1>2. x \in [Lanes(t) -> Nat] /\ y \in [Lanes(t) -> Nat]
  BY PrimeType DEF States
<1>3. CASE t = 3
  <2>1. Lanes(t) = 0 .. 3 - 1 /\ x \in [0 .. 3 - 1 -> Nat] /\ y \in [0 .. 3 - 1 -> Nat]
    BY <1>2, <1>3 DEF Lanes
  <2>2. \A i \in 0 .. 3 - 1 : /\ Linear(3, x)[i] = x[i] + Total(3, x)
                              /\ Linear(3, y)[i] = y[i] + Total(3, y)
    BY DEF Linear, Lanes
  <2>3. \A i \in 0 .. 3 - 1 : (x[i] + Total(3, x)) % P = (y[i] + Total(3, y)) % P
    BY <1>3, <2>1, <2>2
  <2>4. (3 + 1) % P # 0
    <3>1. ~Vanishes(4)
      <4>1. SUFFICES ASSUME Vanishes(2 * (2 * 1)) PROVE FALSE
        OBVIOUS
      <4>2. Vanishes(1)
        BY <4>1, TwiceVanishes
      <4>3. 1 \in 0 .. P - 1
        BY PrimeType
      <4> QED BY <4>2, <4>3, VanishesIs, SmallResidue, PrimeType
    <3> QED BY <3>1, VanishesIs
  <2>5. \A i \in 0 .. 3 - 1 : Vanishes(x[i] - y[i])
    BY <2>1, <2>3, <2>4, SumsLeave
  <2>6. \A i \in 0 .. 3 - 1 : x[i] \in Field /\ y[i] \in Field
    BY <1>3 DEF States, Lanes
  <2> QED BY <2>1, <2>5, <2>6, FieldVanishes
<1>4. CASE t # 3
  <2>1. PICK k \in Nat \ {0} : t = 4 * k /\ k = t \div 4 /\ (k + 1) % P # 0
    <3>1. t \div 4 \in Nat \ {0} /\ t = 4 * (t \div 4)
      BY <1>4
    <3> QED BY <1>4, <3>1
  <2>2. ASSUME NEW b \in 0 .. k - 1
        PROVE  /\ BlockOf(x, b) \in [0 .. 3 -> Field] /\ BlockOf(y, b) \in [0 .. 3 -> Field]
               /\ \A a \in 0 .. 3 : 4 * b + a \in Lanes(t)
    <3>1. \A a \in 0 .. 3 : 4 * b + a \in Lanes(t)
      BY <2>1 DEF Lanes
    <3> QED BY <3>1 DEF BlockOf, States
  <2>3. ASSUME NEW c \in 1 .. 4
        PROVE  \A b \in 0 .. k - 1 : Vanishes(Four(BlockOf(x, b))[c] - Four(BlockOf(y, b))[c])
    <3>1. PICK F, G : F = FourSums(x, k, c) /\ G = FourSums(y, k, c)
      OBVIOUS
    <3>2. F \in [0 .. k - 1 -> Nat] /\ G \in [0 .. k - 1 -> Nat]
      <4>1. ASSUME NEW b \in 0 .. k - 1
            PROVE  Four(BlockOf(x, b))[c] \in Nat /\ Four(BlockOf(y, b))[c] \in Nat
        <5>1. BlockOf(x, b) \in [0 .. 3 -> Nat] /\ BlockOf(y, b) \in [0 .. 3 -> Nat]
          BY <2>2, PrimeType
        <5> QED BY <5>1, FourIs
      <4> QED BY <3>1, <4>1 DEF FourSums
    <3>3. ASSUME NEW b \in 0 .. k - 1
          PROVE  (F[b] + (IF k = 1 THEN 0 ELSE Total(k, F))) % P
                   = (G[b] + (IF k = 1 THEN 0 ELSE Total(k, G))) % P
      <4>1. PICK a \in 0 .. 3 : c = a + 1
        BY <2>3
      <4>2. PICK i : i = 4 * b + a /\ i \in Lanes(t) /\ i % 4 = a /\ i \div 4 = b
        <5>1. b \in Nat
          OBVIOUS
        <5> QED BY <2>2, <5>1, InBlock
      <4>3. c = (i % 4) + 1
        BY <4>1, <4>2
      <4>4. Linear(t, x)[i] = F[i \div 4] + (IF k = 1 THEN 0 ELSE Total(k, F))
        BY <2>1, <3>1, <4>2, <4>3, LinearIs
      <4>5. Linear(t, y)[i] = G[i \div 4] + (IF k = 1 THEN 0 ELSE Total(k, G))
        BY <2>1, <3>1, <4>2, <4>3, LinearIs
      <4>6. Linear(t, x)[i] % P = Linear(t, y)[i] % P
        BY <4>2
      <4> QED BY <4>2, <4>4, <4>5, <4>6
    <3>4. \A b \in 0 .. k - 1 : Vanishes(F[b] - G[b])
      <4>1. CASE k = 1
        <5>1. ASSUME NEW b \in 0 .. k - 1 PROVE Vanishes(F[b] - G[b])
          <6>1. PICK m \in Int, n \in Int : m = F[b] /\ n = G[b]
            BY <3>2
          <6>2. m + 0 = m /\ n + 0 = n
            OBVIOUS
          <6>3. m % P = n % P
            BY <3>3, <4>1, <6>1, <6>2
          <6> QED BY <6>1, <6>3, SameResidue
        <5> QED BY <5>1
      <4>2. CASE k # 1
        <5>1. \A b \in 0 .. k - 1 : (F[b] + Total(k, F)) % P = (G[b] + Total(k, G)) % P
          BY <3>3, <4>2
        <5>2. k \in Nat
          OBVIOUS
        <5> QED BY <2>1, <3>2, <5>1, <5>2, SumsLeave
      <4> QED BY <4>1, <4>2
    <3> QED BY <3>1, <3>4 DEF FourSums
  <2>4. ASSUME NEW i \in Lanes(t) PROVE x[i] = y[i]
    <3>1. PICK b, a : b \in 0 .. k - 1 /\ a \in 0 .. 3 /\ i = 4 * b + a
      <4>1. i \in 0 .. t - 1
        BY DEF Lanes
      <4>2. i \div 4 \in 0 .. k - 1 /\ i % 4 \in 0 .. 3 /\ i = 4 * (i \div 4) + (i % 4)
        BY <2>1, <4>1
      <4> QED BY <4>2
    <3>2. BlockOf(x, b)[a] = BlockOf(y, b)[a]
      BY <2>2, <2>3, <3>1, BlockLeaves
    <3> QED BY <3>1, <3>2 DEF BlockOf
  <2> QED BY <2>4
<1> QED BY <1>3, <1>4

-----------------------------------------------------------------------------
(***************************************************************************)
(* Layers that tell their states                                           *)
(***************************************************************************)
\* The matrix of width t is invertible.
Wide(t) == t % 4 = 0 => (t \div 4 + 1) % P # 0

\* An affine layer tells its state.
LEMMA AffineLeaves ==
  ASSUME NEW p, ReadyParams(p), Wide(p.t), NEW x \in States(p.t), NEW y \in States(p.t), NEW r \in Nat,
         Affine(p, x, r) = Affine(p, y, r)
  PROVE  x = y
<1>0. PICK n \in Nat : n = p.rounds /\ p.rc \in [0 .. n - 2 -> [Lanes(p.t) -> RoundConstants]]
  BY DEF ReadyParams, Arguments, Constants
<1>1. ASSUME NEW i \in Lanes(p.t)
      PROVE  Linear(p.t, x)[i] % P = Linear(p.t, y)[i] % P
  <2>1. PICK a \in Nat, b \in Nat : a = Linear(p.t, x)[i] /\ b = Linear(p.t, y)[i]
    BY LayersAgree
  <2>2. PICK c \in Int : c = IF r < n - 1 THEN p.rc[r][i] ELSE 0
    <3>1. CASE r < n - 1
      <4>1. r \in 0 .. n - 2
        BY <3>1
      <4>2. p.rc[r][i] \in RoundConstants
        BY <1>0, <4>1
      <4> QED BY <3>1, <4>2, ElementAssumption
    <3>2. CASE ~(r < n - 1)
      BY <3>2
    <3> QED BY <3>1, <3>2
  <2>3. Affine(p, x, r)[i] = (a + c) % P /\ Affine(p, y, r)[i] = (b + c) % P
    BY <1>0, <2>1, <2>2 DEF Affine
  <2>4. (a + c) % P = (b + c) % P
    BY <2>3
  <2>5. a + c \in Int /\ b + c \in Int /\ (a + c) - (b + c) = a - b
    OBVIOUS
  <2>6. Vanishes(a - b)
    BY <2>4, <2>5, SameResidue
  <2>7. a % P = b % P
    <3>1. a \in Int /\ b \in Int
      OBVIOUS
    <3> QED BY <2>6, <3>1, SameResidue
  <2> QED BY <2>1, <2>7
<1>2. p.t \in Nat /\ (p.t = 3 \/ (p.t % 4 = 0 /\ p.t >= 4))
  BY DEF ReadyParams, Arguments, Constants
<1> QED BY <1>1, <1>2, LinearLeaves DEF Wide

\* What is no square in the field is none with a multiple of P beside it.
LEMMA NotSquare ==
  ASSUME NEW v \in Int, NonResidue(v), NEW m \in Int
  PROVE  ~Vanishes(m * m - v)
<1>1. SUFFICES ASSUME Vanishes(m * m - v) PROVE FALSE
  OBVIOUS
<1>2. m * m \in Int
  OBVIOUS
<1>3. (m * m) % P = v % P
  BY <1>1, <1>2, SameResidue
<1>4. PICK w \in Field : w = m % P
  BY Remainder, PrimeType DEF Field
<1>5. (w * w) % P = (m * m) % P
  <2>1. w \in Int
    BY <1>4 DEF Field
  <2>2. ((m % P) * w) % P = (m * w) % P /\ ((m % P) * m) % P = (m * m) % P
    BY <2>1, Residue, PrimeType
  <2>3. m * w = w * m
    BY <2>1
  <2> QED BY <1>4, <2>2, <2>3
<1> QED BY <1>3, <1>4, <1>5 DEF NonResidue

\* A pair that is good gives a factor that is not zero.
LEMMA FactorStays ==
  ASSUME NEW a \in Int, NEW b \in Int, NonResidue(a * a - 4 * b), NEW l \in Int
  PROVE  ~Vanishes(l * l + l * a + b)
<1>1. PICK q \in Int, m \in Int, v \in Int : q = l * l + l * a + b /\ m = 2 * l + a /\ v = a * a - 4 * b
  OBVIOUS
<1>2. SUFFICES ASSUME Vanishes(q) PROVE FALSE
  BY <1>1
<1>3. m * m - v = 4 * q
  <2>1. m * m = 4 * (l * l) + 4 * (l * a) + a * a
    BY <1>1
  <2> QED BY <1>1, <2>1
<1>4. Vanishes(m * m - v)
  <2>1. Vanishes(4 * q)
    BY <1>2, VanishTogether
  <2> QED BY <1>3, <2>1
<1> QED BY <1>1, <1>4, NotSquare

\* Raising the root gives the element back.
LEMMA PowerOfRoot ==
  ASSUME NEW y \in Field, NEW d \in Nat, NEW e \in Inverses(d)
  PROVE  Power(Power(y, e), d) = y
<1>1. e \in Nat
  BY PrimeType DEF Inverses
<1>2. Power(Power(y, e), d) = Power(y, e * d) /\ Power(Power(y, d), e) = Power(y, d * e)
  BY <1>1, PowerProduct
<1>3. e * d = d * e
  BY <1>1
<1> QED BY <1>2, <1>3, RootOfPower

\* A masked word is the word times a factor that the words before it determine.
LEMMA MaskedWord ==
  ASSUME NEW p, ReadyParams(p), \A k \in 1 .. p.t - 2 : GoodPair(p.ab[k]),
         NEW x \in States(p.t), NEW y \in States(p.t), NEW y0 \in Field, NEW y1 \in Field,
         NEW i \in 2 .. p.t - 1, x[i - 1] = y[i - 1],
         Masked(p, x, y0, y1)[i] = Masked(p, y, y0, y1)[i]
  PROVE  x[i] = y[i]
<1>1. p.t \in Nat /\ p.t >= 3
  BY DEF ReadyParams, Arguments, Constants
<1>2. PICK a \in Int, b \in Int : a = p.ab[i - 1][1] /\ b = p.ab[i - 1][2] /\ NonResidue(a * a - 4 * b)
  <2>1. PICK ab \in Seq(Int \X Int) : ab = p.ab /\ Len(ab) = p.t - 2
    BY DEF ReadyParams, Pairs
  <2>2. i - 1 \in 1 .. Len(ab) /\ i - 1 \in 1 .. p.t - 2
    BY <1>1, <2>1
  <2>3. ab[i - 1] \in Int \X Int
    BY <2>1, <2>2
  <2>4. GoodPair(p.ab[i - 1])
    BY <2>2
  <2> QED BY <2>1, <2>3, <2>4 DEF GoodPair
<1>3. PICK u \in Int, v \in Int : u = x[i] /\ v = y[i] /\ u \in Field /\ v \in Field
  <2>1. i \in Lanes(p.t)
    BY <1>1 DEF Lanes
  <2>2. x[i] \in Field /\ y[i] \in Field
    BY <2>1 DEF States
  <2> QED BY <2>2, PrimeType DEF Field
<1>4. PICK l \in Int : /\ l = y1 + (i - 1) * y0 + (IF i = 2 THEN 0 ELSE x[i - 1])
                       /\ l = y1 + (i - 1) * y0 + (IF i = 2 THEN 0 ELSE y[i - 1])
  <2>1. PICK w \in Int : w = (IF i = 2 THEN 0 ELSE x[i - 1]) /\ w = (IF i = 2 THEN 0 ELSE y[i - 1])
    <3>1. i # 2 => i - 1 \in Lanes(p.t)
      BY <1>1 DEF Lanes
    <3>2. i # 2 => x[i - 1] \in Field
      BY <3>1 DEF States
    <3> QED BY <3>2, PrimeType DEF Field
  <2>2. y1 \in Int /\ y0 \in Int /\ i - 1 \in Int
    BY PrimeType DEF Field
  <2>3. y1 + (i - 1) * y0 + w \in Int
    BY <2>2
  <2> QED BY <2>1, <2>3
<1>5. PICK q \in Int, m \in Int : q = l * l + l * a + b /\ m = q % P
  <2>1. l * l + l * a + b \in Int
    OBVIOUS
  <2>2. (l * l + l * a + b) % P \in Int
    BY <2>1, Remainder, PrimeType
  <2> QED BY <2>1, <2>2
<1>6. Masked(p, x, y0, y1)[i] = (u * m) % P
  <2>1. Masked(p, x, y0, y1)[i] = (x[i] * ((l * l + l * p.ab[i - 1][1] + p.ab[i - 1][2]) % P)) % P
    BY <1>4 DEF Masked
  <2> QED BY <1>2, <1>3, <1>5, <2>1
<1>7. Masked(p, y, y0, y1)[i] = (v * m) % P
  <2>1. Masked(p, y, y0, y1)[i] = (y[i] * ((l * l + l * p.ab[i - 1][1] + p.ab[i - 1][2]) % P)) % P
    BY <1>4 DEF Masked
  <2> QED BY <1>2, <1>3, <1>5, <2>1
<1>8. ~Vanishes(m)
  <2>1. ~Vanishes(q)
    BY <1>2, <1>5, FactorStays
  <2>2. q % P # 0 /\ m \in 0 .. P - 1
    BY <1>5, <2>1, VanishesIs, Remainder, PrimeType
  <2>3. m % P = m
    BY <2>2, SmallResidue, PrimeType
  <2> QED BY <1>5, <2>2, <2>3, VanishesIs
<1>9. Vanishes(u - v) /\ u - v \in Int
  <2>1. u * m \in Int /\ v * m \in Int /\ u * m - v * m = m * (u - v) /\ u - v \in Int
    OBVIOUS
  <2>2. (u * m) % P = (v * m) % P
    BY <1>6, <1>7
  <2>3. Vanishes(m * (u - v))
    BY <2>1, <2>2, SameResidue
  <2> QED BY <1>8, <2>1, <2>3, VanishesAlone
<1> QED BY <1>3, <1>9, FieldVanishes

\* With good pairs the nonlinear layer tells its state.
LEMMA NonLinearLeaves ==
  ASSUME NEW p, ReadyParams(p), \A k \in 1 .. p.t - 2 : GoodPair(p.ab[k]),
         NEW x \in States(p.t), NEW y \in States(p.t), NonLinear(p, x) = NonLinear(p, y)
  PROVE  x = y
<1>1. p.d \in Nat /\ p.dInv \in Inverses(p.d) /\ p.dInv \in Nat /\ p.t \in Nat /\ p.t >= 3
  BY DEF ReadyParams, Arguments, Constants, Inverses
<1>2. 0 \in Lanes(p.t) /\ 1 \in Lanes(p.t)
  BY <1>1 DEF Lanes
<1>3. x[0] \in Field /\ y[0] \in Field /\ x[1] \in Field /\ y[1] \in Field
  BY <1>2 DEF States
<1>4. NonLinear(p, x)[0] = Power(x[0], p.dInv) /\ NonLinear(p, x)[1] = Power(x[1], p.d)
  BY <1>2 DEF NonLinear
<1>5. NonLinear(p, y)[0] = Power(y[0], p.dInv) /\ NonLinear(p, y)[1] = Power(y[1], p.d)
  BY <1>2 DEF NonLinear
<1>6. PICK y0 \in Field, y1 \in Field : /\ y0 = Power(x[0], p.dInv) /\ y0 = Power(y[0], p.dInv)
                                        /\ y1 = Power(x[1], p.d) /\ y1 = Power(y[1], p.d)
  <2>1. Power(x[0], p.dInv) \in Field /\ Power(x[1], p.d) \in Field
    BY <1>1, <1>3, PowerNext
  <2> QED BY <1>4, <1>5, <2>1
<1>7. x[0] = y[0]
  <2>1. Power(Power(x[0], p.dInv), p.d) = x[0] /\ Power(Power(y[0], p.dInv), p.d) = y[0]
    BY <1>1, <1>3, PowerOfRoot
  <2> QED BY <1>6, <2>1
<1>8. x[1] = y[1]
  <2>1. Power(Power(x[1], p.d), p.dInv) = x[1] /\ Power(Power(y[1], p.d), p.dInv) = y[1]
    BY <1>1, <1>3, RootOfPower
  <2> QED BY <1>6, <2>1
<1>9. ASSUME NEW i \in 2 .. p.t - 1 PROVE Masked(p, x, y0, y1)[i] = Masked(p, y, y0, y1)[i]
  <2>1. i \in Lanes(p.t) /\ i # 0 /\ i # 1
    BY <1>1 DEF Lanes
  <2>2. NonLinear(p, x)[i] = Masked(p, x, y0, y1)[i]
    BY <1>6, <2>1 DEF NonLinear
  <2>3. NonLinear(p, y)[i] = Masked(p, y, y0, y1)[i]
    BY <1>6, <2>1 DEF NonLinear
  <2> QED BY <2>2, <2>3
<1> DEFINE T == {i \in Lanes(p.t) : x[i] = y[i]}
<1>10. PICK n \in Nat : n = p.t - 1 /\ Lanes(p.t) = 0 .. n
  BY <1>1 DEF Lanes
<1>11. 0 \in T
  BY <1>2, <1>7
<1>12. ASSUME NEW k \in 1 .. n, k - 1 \in T PROVE k \in T
  <2>1. k \in Lanes(p.t) /\ x[k - 1] = y[k - 1]
    BY <1>10, <1>12
  <2>2. CASE k = 1
    BY <1>8, <2>1, <2>2
  <2>3. CASE k # 1
    <3>1. k \in 2 .. p.t - 1
      BY <1>10, <2>3
    <3>2. x[k] = y[k]
      BY <1>9, <2>1, <3>1, MaskedWord
    <3> QED BY <2>1, <3>2
  <2> QED BY <2>2, <2>3
<1> HIDE DEF T
<1>13. 0 .. n \subseteq T
  BY <1>11, <1>12, UpTo, Zenon
<1>14. \A i \in Lanes(p.t) : x[i] = y[i]
  BY <1>10, <1>13 DEF T
<1> QED BY <1>14 DEF States

-----------------------------------------------------------------------------
(***************************************************************************)
(* The permutation, round by round                                         *)
(***************************************************************************)
\* One round of the permutation, the r-th
RoundOf(p, x, r) == Affine(p, NonLinear(p, x), r - 1)

\* g has the states of the permutation of x, one after the other.
Rounds(g, p, x) ==
  /\ g \in [0 .. p.rounds -> States(p.t)] /\ g[0] = Affine(p, x, p.rounds)
  /\ \A r \in 1 .. p.rounds : g[r] = RoundOf(p, g[r - 1], r)

\* The nonlinear layer leaves a state.
LEMMA NonLinearState ==
  ASSUME NEW p, ReadyParams(p), NEW x \in States(p.t)
  PROVE  NonLinear(p, x) \in States(p.t)
<1>1. p.d \in Nat /\ p.dInv \in Inverses(p.d) /\ p.dInv \in Nat /\ p.t \in Nat /\ p.t >= 3
  BY DEF ReadyParams, Arguments, Constants, Inverses
<1>2. x[0] \in Field
  <2>1. 0 \in Lanes(p.t)
    BY <1>1 DEF Lanes
  <2> QED BY <2>1 DEF States
<1>3. PICK y0 : y0 = Power(x[0], p.dInv)
  OBVIOUS
<1>4. y0 \in RootHints(p, x)
  <2>1. Power(x[0], p.dInv) \in Field
    BY <1>1, <1>2, PowerNext
  <2>2. Power(Power(x[0], p.dInv), p.d) = x[0]
    BY <1>1, <1>2, PowerOfRoot
  <2> QED BY <1>3, <2>1, <2>2 DEF RootHints
<1> QED BY <1>4, NonLinearAgrees

\* A round leads from state to state.
LEMMA RoundState ==
  ASSUME NEW p, ReadyParams(p), NEW x \in States(p.t), NEW r \in Nat, r >= 1
  PROVE  RoundOf(p, x, r) \in States(p.t)
<1>1. NonLinear(p, x) \in States(p.t) /\ r - 1 \in Nat
  BY NonLinearState
<1> QED BY <1>1, AffineAgrees DEF RoundOf

\* Permute is the last of the states.
LEMMA PermuteIs ==
  ASSUME NEW p, ReadyParams(p), NEW x \in States(p.t)
  PROVE  \E g : Rounds(g, p, x) /\ Permute(p, x) = g[p.rounds]
<1>1. PICK n \in Nat : n = p.rounds /\ n >= 1
  BY DEF ReadyParams, Arguments
<1>2. PICK V : V = States(p.t)
  OBVIOUS
<1>3. PICK a \in V : a = Affine(p, x, p.rounds)
  <2>1. Affine(p, x, n) \in States(p.t)
    BY AffineAgrees
  <2> QED BY <1>1, <1>2, <2>1
<1>4. PICK step : step = [r \in 1 .. n |-> [y \in V |-> RoundOf(p, y, r)]]
  OBVIOUS
<1>5. step \in StepFunctions(n, V)
  <2>1. ASSUME NEW r \in 1 .. n, NEW y \in V PROVE RoundOf(p, y, r) \in V
    <3>1. r \in Nat /\ r >= 1
      OBVIOUS
    <3> QED BY <1>2, <3>1, RoundState
  <2> QED BY <1>4, <2>1 DEF StepFunctions
<1>6. Recursive(n, V, step, a)
  BY <1>5, RecursionIn, Zenon
<1>7. PICK f \in [0 .. n -> V] : f[0] = a /\ \A r \in 1 .. n : f[r] = step[r][f[r - 1]]
  BY <1>6 DEF Recursive
<1> DEFINE Good(g) ==
      g = [r \in 0 .. p.rounds |->
             IF r = 0 THEN Affine(p, x, p.rounds) ELSE Affine(p, NonLinear(p, g[r - 1]), r - 1)]
<1>8. Good(f)
  <2>1. ASSUME NEW r \in 0 .. n
        PROVE  f[r] = IF r = 0 THEN Affine(p, x, p.rounds) ELSE Affine(p, NonLinear(p, f[r - 1]), r - 1)
    <3>1. CASE r = 0
      BY <1>3, <1>7, <3>1
    <3>2. CASE r # 0
      <4>1. r \in 1 .. n /\ r - 1 \in 0 .. n
        BY <3>2
      <4>2. f[r - 1] \in V
        BY <1>7, <4>1
      <4>3. f[r] = RoundOf(p, f[r - 1], r)
        BY <1>4, <1>7, <4>1, <4>2
      <4> QED BY <3>2, <4>3 DEF RoundOf
    <3> QED BY <3>1, <3>2
  <2>2. f = [r \in 0 .. n |-> f[r]]
    BY <1>7
  <2> QED BY <1>1, <2>1, <2>2
<1> DEFINE g == CHOOSE g : Good(g)
<1>9. Good(g)
  BY <1>8, Zenon
<1>10. Permute(p, x) = g[p.rounds]
  BY DEF Permute
<1>11. /\ g[0] = Affine(p, x, p.rounds) /\ DOMAIN g = 0 .. n
       /\ \A r \in 1 .. n : g[r] = RoundOf(p, g[r - 1], r)
  <2>1. \A r \in 0 .. n : g[r] = IF r = 0 THEN Affine(p, x, p.rounds)
                                 ELSE Affine(p, NonLinear(p, g[r - 1]), r - 1)
    BY <1>1, <1>9, Zenon
  <2>2. 0 \in 0 .. n /\ \A r \in 1 .. n : r \in 0 .. n /\ r # 0
    OBVIOUS
  <2>3. DOMAIN g = 0 .. n
    BY <1>1, <1>9, Zenon
  <2> QED BY <2>1, <2>2, <2>3, Zenon DEF RoundOf
<1>12. g = [r \in 0 .. n |-> g[r]]
  <2> HIDE DEF g
  <2>1. PICK F : F = [r \in 0 .. n |-> IF r = 0 THEN Affine(p, x, p.rounds)
                                 ELSE Affine(p, NonLinear(p, g[r - 1]), r - 1)]
    OBVIOUS
  <2>2. g = F
    BY <1>1, <1>9, <2>1, Zenon
  <2>3. F = [r \in 0 .. n |-> F[r]]
    BY <2>1
  <2> QED BY <2>2, <2>3
<1> HIDE DEF g, Good
<1> DEFINE T == {r \in 0 .. n : g[r] \in V}
<1>13. 0 \in T
  BY <1>3, <1>11
<1>14. ASSUME NEW r \in 1 .. n, r - 1 \in T PROVE r \in T
  <2>1. r \in Nat /\ r >= 1 /\ g[r - 1] \in States(p.t)
    BY <1>2, <1>14
  <2>2. RoundOf(p, g[r - 1], r) \in V
    BY <1>2, <2>1, RoundState
  <2> QED BY <1>11, <2>2
<1> HIDE DEF T
<1>15. 0 .. n \subseteq T
  BY <1>13, <1>14, UpTo, Zenon
<1>16. g \in [0 .. n -> V]
  <2>1. \A r \in 0 .. n : g[r] \in V
    BY <1>15 DEF T
  <2> QED BY <1>12, <2>1
<1>17. Rounds(g, p, x)
  BY <1>1, <1>2, <1>11, <1>16 DEF Rounds
<1> QED BY <1>10, <1>17

\* What the pairs must be for the layers to tell their states
GoodParams(p) == ReadyParams(p) /\ Wide(p.t) /\ \A k \in 1 .. p.t - 2 : GoodPair(p.ab[k])

\* With good parameters permute never maps two states to one.
LEMMA PermuteLeaves ==
  ASSUME NEW p, GoodParams(p), NEW x \in States(p.t), NEW y \in States(p.t),
         Permute(p, x) = Permute(p, y)
  PROVE  x = y
<1>0. ReadyParams(p) /\ Wide(p.t) /\ \A k \in 1 .. p.t - 2 : GoodPair(p.ab[k])
  BY DEF GoodParams
<1>1. PICK n \in Nat : n = p.rounds /\ n >= 1
  BY <1>0 DEF ReadyParams, Arguments
<1>2. PICK f : Rounds(f, p, x) /\ Permute(p, x) = f[n]
  BY <1>0, <1>1, PermuteIs
<1>3. PICK g : Rounds(g, p, y) /\ Permute(p, y) = g[n]
  BY <1>0, <1>1, PermuteIs
<1>4. ASSUME NEW r \in 1 .. n, f[r] = g[r] PROVE f[r - 1] = g[r - 1]
  <2>1. r - 1 \in 0 .. n /\ r - 1 \in Nat
    OBVIOUS
  <2>2. PICK u \in States(p.t), v \in States(p.t) : u = f[r - 1] /\ v = g[r - 1]
    BY <1>1, <1>2, <1>3, <2>1 DEF Rounds
  <2>3. f[r] = Affine(p, NonLinear(p, u), r - 1) /\ g[r] = Affine(p, NonLinear(p, v), r - 1)
    BY <1>1, <1>2, <1>3, <2>2 DEF Rounds, RoundOf
  <2>4. NonLinear(p, u) \in States(p.t) /\ NonLinear(p, v) \in States(p.t)
    BY <1>0, NonLinearState
  <2>5. Affine(p, NonLinear(p, u), r - 1) = Affine(p, NonLinear(p, v), r - 1)
    BY <1>4, <2>3
  <2>6. NonLinear(p, u) = NonLinear(p, v)
    BY <1>0, <2>1, <2>4, <2>5, AffineLeaves
  <2> QED BY <1>0, <2>2, <2>6, NonLinearLeaves
<1> DEFINE T == {k \in 0 .. n : f[n - k] = g[n - k]}
<1>5. 0 \in T
  <2>1. n - 0 = n /\ 0 \in 0 .. n
    OBVIOUS
  <2> QED BY <1>2, <1>3, <2>1
<1>6. ASSUME NEW k \in 1 .. n, k - 1 \in T PROVE k \in T
  <2>1. PICK r \in 1 .. n : r = n - (k - 1) /\ n - k = r - 1
    OBVIOUS
  <2>2. f[r] = g[r]
    BY <1>6, <2>1
  <2>3. f[r - 1] = g[r - 1]
    BY <1>4, <2>2
  <2> QED BY <2>1, <2>3
<1> HIDE DEF T
<1>7. 0 .. n \subseteq T
  BY <1>5, <1>6, UpTo, Zenon
<1>8. f[0] = g[0]
  <2>1. n \in T /\ n - n = 0
    BY <1>7
  <2> QED BY <2>1 DEF T
<1>9. Affine(p, x, n) = Affine(p, y, n)
  BY <1>1, <1>2, <1>3, <1>8 DEF Rounds
<1> QED BY <1>0, <1>9, AffineLeaves

-----------------------------------------------------------------------------
(***************************************************************************)
(* Good pairs                                                              *)
(***************************************************************************)
\* An element that is not zero has an inverse.
LEMMA ReciprocalExists ==
  ASSUME NEW k \in Int, ~Vanishes(k)
  PROVE  \E e \in Int : Vanishes(e * k - 1)
<1>1. PICK v \in NonZero : v = k % P
  <2>1. k % P \in 0 .. P - 1 /\ k % P # 0
    BY VanishesIs, Remainder, PrimeType
  <2> QED BY <2>1 DEF NonZero
<1>2. PICK e \in Int : e = Power(v, P - 2)
  <2>1. P - 2 \in Nat /\ v \in Field
    BY PrimeType
  <2>2. Power(v, P - 2) \in Field
    BY <2>1, PowerNext
  <2> QED BY <2>2 DEF Field
<1>3. (v * e) % P = 1
  <2>1. PICK n \in Nat : n = P - 2 /\ n + 1 = P - 1
    BY PrimeType
  <2>2. Power(v, n + 1) = (v * Power(v, n)) % P
    BY PrimeType, PowerNext
  <2>3. Power(v, P - 1) = 1
    BY Fermat
  <2> QED BY <1>2, <2>1, <2>2, <2>3
<1>4. (e * k) % P = 1 % P
  <2>1. ((k % P) * e) % P = (k * e) % P
    BY Residue, PrimeType
  <2>2. k * e = e * k
    OBVIOUS
  <2>3. 1 \in 0 .. P - 1
    BY PrimeType
  <2>4. 1 % P = 1
    BY <2>3, SmallResidue, PrimeType
  <2> QED BY <1>1, <1>3, <2>1, <2>2, <2>4
<1>5. Vanishes(e * k - 1)
  <2>1. e * k \in Int /\ 1 \in Int
    OBVIOUS
  <2> QED BY <1>4, <2>1, SameResidue
<1> QED BY <1>5

\* The square of an element changes no squareness.
LEMMA ScaledResidue ==
  ASSUME NEW D \in Int, NonResidue(D), NEW k \in Int, ~Vanishes(k), NEW w \in Int,
         Vanishes(w - k * (k * D))
  PROVE  NonResidue(w)
<1>1. ~Vanishes(D)
  BY VanishesIs DEF NonResidue
<1>2. PICK c \in Int : c = k * (k * D) /\ Vanishes(w - c)
  OBVIOUS
<1>3. w % P # 0
  <2>1. SUFFICES ASSUME Vanishes(w) PROVE FALSE
    BY VanishesIs
  <2>2. w - c \in Int /\ w - (w - c) = c
    OBVIOUS
  <2>3. Vanishes(c)
    BY <1>2, <2>1, <2>2, VanishTogether
  <2>4. k * D \in Int
    OBVIOUS
  <2>5. Vanishes(k * D)
    BY <1>2, <2>3, <2>4, VanishesAlone
  <2> QED BY <1>1, <2>5, VanishesAlone
<1>4. ASSUME NEW y \in Field, (y * y) % P = w % P PROVE FALSE
  <2>1. y \in Int /\ y * y \in Int
    BY DEF Field
  <2>2. Vanishes(y * y - w)
    BY <1>4, <2>1, SameResidue
  <2>3. Vanishes(y * y - c)
    <3>1. y * y - w \in Int /\ w - c \in Int /\ (y * y - w) + (w - c) = y * y - c
      BY <2>1
    <3> QED BY <1>2, <2>2, <3>1, VanishTogether
  <2>4. PICK e \in Int : Vanishes(e * k - 1)
    BY ReciprocalExists
  <2>5. PICK m \in Int, h \in Int, s \in Int : m = e * y /\ h = e * k - 1 /\ s = y * y - c
    BY <2>1
  <2>6. Vanishes(m * m - D)
    <3>1. (e * e) * s = m * m - (e * e) * c
      BY <2>1, <2>5
    <3>2. (e * e) * c = (h + 1) * ((h + 1) * D)
      <4>1. e * k = h + 1
        BY <2>5
      <4>2. (e * e) * c = (e * k) * ((e * k) * D)
        BY <1>2
      <4> QED BY <4>1, <4>2
    <3>3. (h + 1) * ((h + 1) * D) = D + ((h + 2) * D) * h
      OBVIOUS
    <3>4. m * m - D = (e * e) * s + ((h + 2) * D) * h
      <4>1. (e * e) * s \in Int /\ (e * e) * c \in Int /\ ((h + 2) * D) * h \in Int /\ m * m \in Int
        BY <1>2
      <4> QED BY <3>1, <3>2, <3>3, <4>1
    <3>5. e * e \in Int /\ (h + 2) * D \in Int /\ Vanishes(s) /\ Vanishes(h)
      BY <2>3, <2>4, <2>5
    <3>6. Vanishes((e * e) * s) /\ Vanishes(((h + 2) * D) * h)
      BY <3>5, VanishTogether
    <3>7. (e * e) * s \in Int /\ ((h + 2) * D) * h \in Int
      BY <3>5
    <3> QED BY <3>4, <3>6, <3>7, VanishTogether
  <2> QED BY <2>6, NotSquare
<1> QED BY <1>3, <1>4 DEF NonResidue

\* Multiples of a good pair are good, unless their two elements are the same.
LEMMA ScaledIsGood ==
  ASSUME NEW a \in Int, NEW b \in Int, NonResidue(a * a - 4 * b), NEW k \in Nat,
         NEW u \in Int, NEW v \in Int, u = (a * k) % P, v = (b * k * k) % P, u # v
  PROVE  NonResidue(u * u - 4 * v)
<1>1. PICK m \in Int, n \in Int, D \in Int : m = a * k /\ n = b * k * k /\ D = a * a - 4 * b
  OBVIOUS
<1>2. ~Vanishes(k)
  <2>1. SUFFICES ASSUME Vanishes(k) PROVE FALSE
    OBVIOUS
  <2>2. m = a * k /\ n = (b * k) * k /\ b * k \in Int
    BY <1>1
  <2>3. Vanishes(m) /\ Vanishes(n)
    <3>1. k \in Int
      OBVIOUS
    <3>2. Vanishes(a * k)
      BY <2>1, <3>1, VanishTogether
    <3>3. Vanishes((b * k) * k)
      BY <2>1, <2>2, <3>1, VanishTogether
    <3> QED BY <2>2, <3>2, <3>3
  <2>4. m % P = 0 /\ n % P = 0
    BY <2>3, VanishesIs
  <2> QED BY <1>1, <2>4
<1>3. Vanishes(u - m) /\ Vanishes(v - n)
  <2>1. u % P = m % P /\ v % P = n % P
    <3>1. u \in 0 .. P - 1 /\ v \in 0 .. P - 1
      BY <1>1, Remainder, PrimeType
    <3>2. u % P = u /\ v % P = v
      BY <3>1, SmallResidue, PrimeType
    <3> QED BY <1>1, <3>2
  <2> QED BY <2>1, SameResidue
<1>4. PICK w \in Int, p \in Int, q \in Int : w = u * u - 4 * v /\ p = u - m /\ q = v - n
  OBVIOUS
<1>5. w - k * (k * D) = (u + m) * p - 4 * q
  <2>1. k * (k * D) = m * m - 4 * n
    <3>1. k * (k * (a * a)) = m * m /\ k * (k * b) = n
      BY <1>1
    <3>2. k * (k * D) = k * (k * (a * a)) - 4 * (k * (k * b))
      BY <1>1
    <3> QED BY <3>1, <3>2
  <2>2. (u + m) * p = u * u - m * m
    BY <1>4
  <2>3. u * u \in Int /\ m * m \in Int
    OBVIOUS
  <2> QED BY <1>4, <2>1, <2>2, <2>3
<1>6. Vanishes(w - k * (k * D))
  <2>1. u + m \in Int /\ Vanishes(p) /\ Vanishes(q) /\ 4 \in Int
    BY <1>3, <1>4
  <2>2. Vanishes((u + m) * p) /\ Vanishes(4 * q)
    BY <2>1, VanishTogether
  <2>3. (u + m) * p \in Int /\ 4 * q \in Int
    BY <2>1
  <2>4. Vanishes((u + m) * p - 4 * q)
    BY <2>2, <2>3, VanishTogether
  <2> QED BY <1>5, <2>4
<1>7. k \in Int /\ NonResidue(D)
  BY <1>1
<1> QED BY <1>2, <1>4, <1>6, <1>7, ScaledResidue

\* The first pair is good, no pair repeats an element, and debug assertions looked at each.
Looked(ab, debug) ==
  /\ GoodPair(ab[1])
  /\ \A k \in 1 .. Len(ab) : ab[k][1] # ab[k][2] /\ (debug => GoodPair(ab[k]))

\* The width stays, and pairs stay looked at.
PairsInv ==
  /\ stage \in {"constants", "first", "others", "ready", "rounds"} => Wide(params.t)
  /\ stage \in {"others", "ready", "rounds"} => Looked(params.ab, params.debug)

\* new leaves a width whose matrix is invertible.
LEMMA NewWide == ASSUME NewParams PROVE PairsInv'
<1>1. PICK s \in Shapes :
        IF Asserted(s) /\ Inverses(s.d) # {}
        THEN /\ stage' = "constants"
             /\ params' = [t |-> s.t, d |-> s.d, rounds |-> s.rounds, rate |-> s.t - 1,
                           dInv |-> CHOOSE e \in Inverses(s.d) : TRUE, debug |-> s.debug,
                           rc |-> <<>>, ab |-> <<>>, mat |-> <<>>]
        ELSE stage' = "panicked" /\ UNCHANGED params
  BY DEF NewParams
<1>2. Wide(s.t)
  BY WidthAssumption DEF Wide
<1>3. CASE Asserted(s) /\ Inverses(s.d) # {}
  <2>1. stage' = "constants" /\ params'.t = s.t
    BY <1>1, <1>3
  <2> QED BY <1>2, <2>1 DEF PairsInv
<1>4. CASE ~(Asserted(s) /\ Inverses(s.d) # {})
  <2>1. stage' = "panicked"
    BY <1>1, <1>4
  <2> QED BY <2>1 DEF PairsInv
<1> QED BY <1>3, <1>4

\* So do the constants.
LEMMA ConstantsWide == ASSUME GriffinInv, PairsInv, DrawRoundConstants PROVE PairsInv'
<1>1. Wide(params.t) /\ DOMAIN params = Fields
  BY DEF GriffinInv, PairsInv, DrawRoundConstants
<1>2. PICK rc \in [0 .. params.rounds - 2 -> [Lanes(params.t) -> RoundConstants]] :
        params' = [params EXCEPT !.rc = rc]
  BY DEF DrawRoundConstants
<1>3. params'.t = params.t
  BY <1>1, <1>2 DEF Fields
<1>4. stage' \in {"panicked", "first"}
  BY DEF DrawRoundConstants
<1> QED BY <1>1, <1>3, <1>4 DEF PairsInv

\* The first pair is a good one.
LEMMA FirstPairLooked == ASSUME GriffinInv, PairsInv, DrawFirstPair PROVE PairsInv'
<1>1. Wide(params.t) /\ DOMAIN params = Fields
  BY DEF GriffinInv, PairsInv, DrawFirstPair
<1>2. PICK alpha, beta \in NonZero : /\ alpha # beta /\ GoodPair(<<alpha, beta>>)
                                     /\ params' = [params EXCEPT !.ab = <<<<alpha, beta>>>>]
  BY DEF DrawFirstPair
<1>3. PICK ab, pair : pair = <<alpha, beta>> /\ ab = <<pair>> /\ params' = [params EXCEPT !.ab = ab]
  BY <1>2
<1>4. params'.t = params.t /\ params'.ab = ab
  BY <1>1, <1>3 DEF Fields
<1>5. Looked(ab, params'.debug)
  <2>1. GoodPair(pair) /\ pair[1] # pair[2]
    BY <1>2, <1>3
  <2>2. Len(ab) = 1 /\ ab[1] = pair
    BY <1>3
  <2>3. ASSUME NEW k \in 1 .. Len(ab) PROVE ab[k] = pair
    BY <2>2
  <2> QED BY <2>1, <2>2, <2>3 DEF Looked
<1>6. stage' = "others"
  BY DEF DrawFirstPair
<1> QED BY <1>1, <1>4, <1>5, <1>6 DEF PairsInv

\* Whatever is drawn again, a pair has two elements.
LEMMA OtherPairLooked == ASSUME GriffinInv, PairsInv, DrawOtherPair PROVE PairsInv'
<1>1. /\ DOMAIN params = Fields /\ Wide(params.t) /\ Looked(params.ab, params.debug)
      /\ \E n \in 1 .. params.t - 2 : Pairs(params.ab, n)
  BY DEF GriffinInv, PairsInv, DrawOtherPair
<1>2. PICK old \in Seq(Int \X Int) : old = params.ab
  BY <1>1 DEF Pairs
<1>3. PICK i, scaled : i = Len(old) + 1 /\ scaled = ScaledPair(old[1], i)
  OBVIOUS
<1>4. CASE i \notin OtherPairs(params.t)
  <2>1. params' = [params EXCEPT !.mat = Matrix(params.t)] /\ stage' = "ready"
    BY <1>2, <1>3, <1>4 DEF DrawOtherPair
  <2>2. params'.t = params.t /\ params'.ab = params.ab /\ params'.debug = params.debug
    BY <1>1, <2>1 DEF Fields
  <2> QED BY <1>1, <2>1, <2>2 DEF PairsInv
<1>5. CASE i \in OtherPairs(params.t)
  <2>1. PICK pair \in IF scaled[1] # scaled[2]
                      THEN {scaled}
                      ELSE {<<scaled[1], beta>> : beta \in NonZero \ {scaled[1]}} :
          IF params.debug /\ ~GoodPair(pair)
          THEN stage' = "panicked" /\ UNCHANGED params
          ELSE /\ params' = [params EXCEPT !.ab = Append(@, pair)]
               /\ UNCHANGED stage
    BY <1>2, <1>3, <1>5 DEF DrawOtherPair
  <2>2. CASE params.debug /\ ~GoodPair(pair)
    <3>1. stage' = "panicked"
      BY <2>1, <2>2
    <3> QED BY <3>1 DEF PairsInv
  <2>3. CASE ~(params.debug /\ ~GoodPair(pair))
    <3>1. PICK ab : ab = Append(old, pair) /\ params' = [params EXCEPT !.ab = ab]
      BY <1>2, <2>1, <2>3
    <3>2. params'.t = params.t /\ params'.ab = ab /\ params'.debug = params.debug
      BY <1>1, <3>1 DEF Fields
    <3>3. pair[1] # pair[2]
      <4>1. CASE scaled[1] # scaled[2]
        BY <2>1, <4>1
      <4>2. CASE scaled[1] = scaled[2]
        <5>1. PICK beta \in NonZero \ {scaled[1]} : pair = <<scaled[1], beta>>
          BY <2>1, <4>2
        <5> QED BY <5>1
      <4> QED BY <4>1, <4>2
    <3>4. Len(ab) = Len(old) + 1 /\ ab[Len(old) + 1] = pair /\ \A k \in 1 .. Len(old) : ab[k] = old[k]
      BY <3>1
    <3>5. 1 \in 1 .. Len(old)
      BY <1>1, <1>2 DEF Pairs
    <3>6. ASSUME NEW k \in 1 .. Len(ab) PROVE ab[k][1] # ab[k][2] /\ (params.debug => GoodPair(ab[k]))
      <4>1. CASE k = Len(old) + 1
        BY <2>3, <3>3, <3>4, <4>1
      <4>2. CASE k # Len(old) + 1
        <5>1. k \in 1 .. Len(old)
          BY <3>4, <4>2
        <5> QED BY <1>1, <1>2, <3>4, <5>1 DEF Looked
      <4> QED BY <4>1, <4>2
    <3>7. Looked(ab, params.debug)
      BY <1>1, <1>2, <3>4, <3>5, <3>6 DEF Looked
    <3>8. stage' = "others"
      BY <2>1, <2>3 DEF DrawOtherPair
    <3> QED BY <1>1, <3>2, <3>7, <3>8 DEF PairsInv
  <2> QED BY <2>2, <2>3
<1> QED BY <1>4, <1>5

\* Every step keeps the pairs.
LEMMA PairsInductive == GriffinSpec => []PairsInv
<1>1. GriffinInit => PairsInv
  BY DEF GriffinInit, PairsInv
<1>2. GriffinInv /\ PairsInv /\ [GriffinNext]_gvars => PairsInv'
  <2> SUFFICES ASSUME GriffinInv, PairsInv, [GriffinNext]_gvars PROVE PairsInv'
    OBVIOUS
  <2>1. CASE UNCHANGED gvars
    BY <2>1 DEF PairsInv, gvars
  <2>2. CASE AbsorbChunk
    <3>1. stage = "ready" /\ stage' = "rounds" /\ params' = params
      BY <2>2 DEF AbsorbChunk
    <3> QED BY <3>1 DEF PairsInv
  <2>3. CASE OneRound
    <3>1. stage = "rounds" /\ stage' \in {"ready", "rounds"} /\ params' = params
      BY <2>3 DEF OneRound
    <3> QED BY <3>1 DEF PairsInv
  <2>4. CASE GriffinNext
    BY <2>2, <2>3, <2>4, NewWide, ConstantsWide, FirstPairLooked, OtherPairLooked DEF GriffinNext
  <2> QED BY <2>1, <2>4
<1> QED BY <1>1, <1>2, GriffinInductive, PTL DEF GriffinSpec

\* Parameters as new means them are good: a pair that is a multiple of the first is good with it.
LEMMA ParamsGood ==
  ASSUME GriffinInv, PairsInv, stage = "ready", params.debug \/ AllScaled(params)
  PROVE  GoodParams(params)
<1>1. ReadyParams(params) /\ Wide(params.t) /\ Looked(params.ab, params.debug)
  BY DEF GriffinInv, PairsInv
<1>2. PICK t \in Nat, ab \in Seq(Int \X Int) :
        t = params.t /\ t >= 3 /\ ab = params.ab /\ Len(ab) = t - 2
  BY <1>1 DEF ReadyParams, Arguments, Constants, Pairs
<1>3. ASSUME NEW k \in 1 .. t - 2 PROVE GoodPair(ab[k])
  <2>1. CASE params.debug
    BY <1>1, <1>2, <2>1 DEF Looked
  <2>2. CASE k = 1
    BY <1>1, <1>2, <2>2 DEF Looked
  <2>3. CASE AllScaled(params) /\ k # 1
    <3>1. PICK i \in 3 .. t - 1 : k = i - 1
      <4>1. k + 1 \in 3 .. t - 1 /\ k = (k + 1) - 1
        BY <2>3
      <4> QED BY <4>1
    <3>2. ab[k] = ScaledPair(ab[1], k)
      BY <1>2, <2>3, <3>1 DEF AllScaled
    <3>3. PICK a \in Int, b \in Int : a = ab[1][1] /\ b = ab[1][2]
      <4>1. 1 \in 1 .. Len(ab)
        BY <1>2
      <4>2. ab[1] \in Int \X Int
        BY <4>1
      <4> QED BY <4>2
    <3>4. NonResidue(a * a - 4 * b)
      BY <1>1, <1>2, <3>3 DEF Looked, GoodPair
    <3>5. PICK u \in Int, v \in Int : u = (a * k) % P /\ v = (b * k * k) % P
      <4>1. a * k \in Int /\ b * k * k \in Int
        OBVIOUS
      <4> QED BY <4>1, Remainder, PrimeType
    <3>6. ab[k][1] = u /\ ab[k][2] = v
      BY <3>2, <3>3, <3>5 DEF ScaledPair
    <3>7. u # v
      BY <1>1, <1>2, <3>6 DEF Looked
    <3>8. k \in Nat
      OBVIOUS
    <3>9. NonResidue(u * u - 4 * v)
      BY <3>4, <3>5, <3>7, <3>8, ScaledIsGood
    <3> QED BY <3>6, <3>9 DEF GoodPair
  <2> QED BY <2>1, <2>2, <2>3
<1> QED BY <1>1, <1>2, <1>3 DEF GoodParams

\* The samples are states, and finitely many.
LEMMA SamplesFinite ==
  ASSUME NEW t \in Nat, t >= 3
  PROVE  Samples(t) \subseteq States(t) /\ IsFiniteSet(Samples(t))
<1>1. PICK S, n : S = Samples(t) /\ n = IF t < 4 THEN t ELSE 4
  OBVIOUS
<1>2. IsFiniteSet(Field)
  BY PrimeType, FS_Interval DEF Field
<1>3. PICK T : T = (Field \X Field) \X (Field \X Field) /\ IsFiniteSet(T)
  BY <1>2, FS_Product
<1>4. ASSUME NEW s \in S
      PROVE  /\ s \in States(t) /\ \A i \in Lanes(t) : i >= 4 => s[i] = 0
             /\ 0 \in Lanes(t) /\ 1 \in Lanes(t) /\ 2 \in Lanes(t) /\ (t # 3 => 3 \in Lanes(t))
  <2>1. PICK x \in [0 .. n - 1 -> Field] : s = [i \in Lanes(t) |-> IF i < 4 THEN x[i] ELSE 0]
    BY <1>1 DEF Samples
  <2>2. ASSUME NEW i \in Lanes(t) PROVE (IF i < 4 THEN x[i] ELSE 0) \in Field
    <3>1. i < 4 => i \in 0 .. n - 1
      BY <1>1 DEF Lanes
    <3>2. 0 \in Field
      BY PrimeType DEF Field
    <3> QED BY <3>1, <3>2
  <2>3. s \in [Lanes(t) -> Field] /\ \A i \in Lanes(t) : i >= 4 => s[i] = 0
    <3>1. \A i \in Lanes(t) : i >= 4 => ~(i < 4)
      BY DEF Lanes
    <3> QED BY <2>1, <2>2, <3>1
  <2>4. 0 \in Lanes(t) /\ 1 \in Lanes(t) /\ 2 \in Lanes(t) /\ (t # 3 => 3 \in Lanes(t))
    BY DEF Lanes
  <2> QED BY <2>3, <2>4 DEF States
<1>5. PICK h : h = [s \in S |-> <<<<s[0], s[1]>>, <<s[2], IF t = 3 THEN 0 ELSE s[3]>>>>]
  OBVIOUS
<1>6. h \in [S -> T]
  <2>1. ASSUME NEW s \in S PROVE <<<<s[0], s[1]>>, <<s[2], IF t = 3 THEN 0 ELSE s[3]>>>> \in T
    <3>1. s[0] \in Field /\ s[1] \in Field /\ s[2] \in Field /\ (t # 3 => s[3] \in Field) /\ 0 \in Field
      BY <1>4, PrimeType DEF States, Field
    <3> QED BY <1>3, <3>1
  <2> QED BY <1>5, <2>1
<1>7. ASSUME NEW s \in S, NEW r \in S, h[s] = h[r] PROVE s = r
  <2>1. s[0] = r[0] /\ s[1] = r[1] /\ s[2] = r[2] /\ (t # 3 => s[3] = r[3])
    BY <1>5, <1>7
  <2>2. ASSUME NEW i \in Lanes(t) PROVE s[i] = r[i]
    <3>1. i \in {0, 1, 2} \/ (t # 3 /\ i = 3) \/ i >= 4
      BY DEF Lanes
    <3> QED BY <1>4, <2>1, <3>1
  <2>3. s \in [Lanes(t) -> Field] /\ r \in [Lanes(t) -> Field]
    BY <1>4 DEF States
  <2> QED BY <2>2, <2>3
<1>8. h \in Injection(S, T)
  BY <1>6, <1>7 DEF Injection, IsInjective
<1>9. IsFiniteSet(S)
  BY <1>3, <1>8, FS_Injection
<1> QED BY <1>1, <1>4, <1>9

\* Of all states, and not of samples only: permute never maps two to one.
StatesKept ==
  stage = "ready" /\ (params.debug \/ AllScaled(params)) =>
    \A x, y \in States(params.t) : Permute(params, x) = Permute(params, y) => x = y

\* For any prime field, width, exponent, number of rounds and constants, and any parameters that new
\* means, permute never maps two states to one; so the samples have as many images as they are.
THEOREM PermutationsKeepStates == GriffinSpec => [](PermuteIsInjective /\ StatesKept)
<1>0. GriffinInv /\ PairsInv => StatesKept
  <2> SUFFICES ASSUME GriffinInv, PairsInv, stage = "ready", params.debug \/ AllScaled(params),
                      NEW x \in States(params.t), NEW y \in States(params.t),
                      Permute(params, x) = Permute(params, y)
               PROVE  x = y
    BY DEF StatesKept
  <2> QED BY ParamsGood, PermuteLeaves
<1>1. GriffinInv /\ PairsInv => PermuteIsInjective
  <2> SUFFICES ASSUME GriffinInv, PairsInv, stage = "ready", params.debug \/ AllScaled(params)
               PROVE  Cardinality({Permute(params, x) : x \in Samples(params.t)})
                        = Cardinality(Samples(params.t))
    BY DEF PermuteIsInjective
  <2>1. GoodParams(params)
    BY ParamsGood
  <2>2. params.t \in Nat /\ params.t >= 3
    BY <2>1 DEF GoodParams, ReadyParams, Arguments, Constants
  <2>3. PICK S : S = Samples(params.t) /\ S \subseteq States(params.t) /\ IsFiniteSet(S)
    BY <2>2, SamplesFinite
  <2>4. PICK T, f : T = {Permute(params, x) : x \in S} /\ f = [x \in S |-> Permute(params, x)]
    OBVIOUS
  <2>5. f \in Surjection(S, T)
    BY <2>4 DEF Surjection
  <2>6. f \in Injection(S, T)
    <3>1. ASSUME NEW x \in S, NEW y \in S, f[x] = f[y] PROVE x = y
      <4>1. x \in States(params.t) /\ y \in States(params.t) /\ Permute(params, x) = Permute(params, y)
        BY <2>3, <2>4, <3>1
      <4> QED BY <2>1, <4>1, PermuteLeaves
    <3> QED BY <2>4, <3>1 DEF Injection, IsInjective
  <2>7. Cardinality(T) = Cardinality(S)
    BY <2>3, <2>5, <2>6, FS_Surjection
  <2> QED BY <2>3, <2>4, <2>7
<1> QED BY <1>0, <1>1, GriffinInductive, PairsInductive, PTL
=============================================================================
