------------------------------ MODULE Polynomials ------------------------------
(***************************************************************************)
(* Powers and polynomials (crates/primitives/src/algebra/ops): powers of   *)
(* an element and of its squares, Lagrange coefficients over a coset in a  *)
(* circuit, and the multilinear extensions that CCS::mles makes.           *)
(*                                                                         *)
(* The value of a gadget's result is what is modelled of it.               *)
(***************************************************************************)
EXTENDS Integers, Sequences, SequencesExt

CONSTANTS
  Prime,       \* the field
  Sizes,       \* of evaluation domains, powers of two that divide Prime - 1
  MaxSquares,  \* bound on the squares that are expanded
  Entries,     \* elements that a multilinear extension is made of
  MaxRows      \* bound on their number

ASSUME SizesAssumption ==
  /\ \A n \in Sizes : n \in Nat /\ (Prime - 1) % n = 0
  /\ Entries \subseteq 0 .. Prime - 1

VARIABLES
  domain,    \* size, generator and offset of the evaluation domain
  tau,       \* the element
  tables     \* the evaluations of a multilinear extension

plvars == <<domain, tau, tables>>

Residues == 0 .. Prime - 1
Nonzero == 1 .. Prime - 1
Reciprocals == [x \in Nonzero |-> CHOOSE y \in Nonzero : (x * y) % Prime = 1]
Reciprocal(x) == Reciprocals[x]

-----------------------------------------------------------------------------
(***************************************************************************)
(* Pow, PowGadget                                                          *)
(***************************************************************************)
\* powers: x^0, ..., x^(n - 1)
Powers(x, n) ==
  LET res[i \in 1 .. n] == IF i = 1 THEN 1 ELSE (res[i - 1] * x) % Prime IN res

\* repeated_squares
RepeatedSquares(x, n) ==
  LET res[i \in 1 .. n] == IF i = 1 THEN x ELSE (res[i - 1] * res[i - 1]) % Prime IN res

\* powers_from_repeated_squares: the last square is multiplied in first.
PowersFromRepeatedSquares(squares) ==
  FoldRight(LAMBDA square, pows :
              [k \in 1 .. 2 * Len(pows) |->
                 IF k % 2 = 1 THEN pows[(k + 1) \div 2] ELSE (pows[k \div 2] * square) % Prime],
            squares, <<1>>)

-----------------------------------------------------------------------------
(***************************************************************************)
(* EvaluationDomainGadget                                                  *)
(***************************************************************************)
Pow(x, n) == Powers(x, n + 1)[n + 1]

\* evaluate_vanishing_polynomial_var
Vanishing(d, t) == (Pow(t, d.size) - Pow(d.offset, d.size)) % Prime

\* Mutant: as on the subgroup itself
MutLagrange(d, t) ==
  LET l == (Pow(t, d.size) - 1) * Reciprocal(d.size)
  IN  [i \in 1 .. d.size |->
         LET g == Powers(d.gen, d.size)[i]
         IN  (l * g * Reciprocal((t - d.offset * g) % Prime)) % Prime]

\* evaluate_all_lagrange_coefficients_var, which has no solution on the coset
Lagrange(d, t) ==
  LET l == ((Pow(t, d.size) * Pow(Reciprocal(d.offset), d.size - 1) - d.offset)
              * Reciprocal(d.size)) % Prime
  IN  [i \in 1 .. d.size |->
         LET g == Powers(d.gen, d.size)[i]
         IN  (l * g * Reciprocal((t - d.offset * g) % Prime)) % Prime]

-----------------------------------------------------------------------------
(***************************************************************************)
(* MLEHelper                                                               *)
(***************************************************************************)
\* ark_std::log2 rounds up
Log2(n) == IF n <= 1 THEN 0 ELSE CHOOSE k \in 1 .. n : 2 ^ (k - 1) < n /\ n <= 2 ^ k

\* from_evaluations: padded up to the next power of two
FromEvaluations(values) ==
  [vars |-> Log2(Len(values)),
   table |-> values \o [k \in 1 .. 2 ^ Log2(Len(values)) - Len(values) |-> 0]]

\* The extension at a point, one variable fixed after the other
EvaluateAt(mle, point) ==
  FoldLeft(LAMBDA table, x :
             [k \in 1 .. Len(table) \div 2 |->
                (table[2 * k - 1] + x * (table[2 * k] - table[2 * k - 1])) % Prime],
           mle.table, point)[1]

-----------------------------------------------------------------------------
NoDomain == [size |-> 0, gen |-> 0, offset |-> 0]

PolynomialsInit == domain = NoDomain /\ tau = 0 /\ tables = <<>>

HasOrder(g, n) == Pow(g, n) = 1 /\ \A k \in 1 .. n - 1 : Pow(g, k) # 1

\* A coset, and an element at which its polynomials are evaluated
ChooseDomain ==
  /\ tables = <<>>
  /\ domain = NoDomain
  /\ \E n \in Sizes, g, h \in Nonzero, t \in Residues :
       /\ HasOrder(g, n)
       /\ domain' = [size |-> n, gen |-> g, offset |-> h]
       /\ tau' = t
  /\ UNCHANGED tables

\* One more row of a matrix times the assignments, in CCS::mles
AddRow ==
  /\ Len(tables) < MaxRows
  /\ domain = NoDomain
  /\ \E t \in Entries : tables' = Append(tables, t)
  /\ UNCHANGED <<domain, tau>>

PolynomialsNext == ChooseDomain \/ AddRow

-----------------------------------------------------------------------------
Coset(d) == [i \in 1 .. d.size |-> (d.offset * Pow(d.gen, i - 1)) % Prime]
Product(s) == FoldLeft(LAMBDA x, y : (x * y) % Prime, 1, s)

\* The Lagrange polynomial of a point of the coset, from its definition
LagrangeAt(d, t, i) ==
  Product([j \in 1 .. d.size |->
             IF j = i THEN 1
             ELSE (t - Coset(d)[j]) * Reciprocal((Coset(d)[i] - Coset(d)[j]) % Prime)])

\* PolynomialsExact: the closed forms of the gadgets are the Lagrange coefficients and the
\* vanishing polynomial of the coset, whatever its offset, wherever tau is not on it; powers
\* expanded from squares are the powers in order; and an extension has the given values at the
\* corners and zeros at those that were padded.
PolynomialsExact ==
  /\ domain # NoDomain =>
       /\ Vanishing(domain, tau) = Product([i \in 1 .. domain.size |-> (tau - Coset(domain)[i]) % Prime])
       /\ Vanishing(domain, tau) # 0 =>
            \A i \in 1 .. domain.size : Lagrange(domain, tau)[i] = LagrangeAt(domain, tau, i)
       /\ \A n \in 0 .. MaxSquares :
            PowersFromRepeatedSquares(RepeatedSquares(tau, n)) = Powers(tau, 2 ^ n)
  /\ tables # <<>> =>
       LET mle == FromEvaluations(tables)
       IN  \A k \in 0 .. 2 ^ mle.vars - 1 :
             EvaluateAt(mle, [b \in 1 .. mle.vars |-> (k \div 2 ^ (b - 1)) % 2])
               = IF k < Len(tables) THEN tables[k + 1] ELSE 0
=============================================================================
