--------------------------------- MODULE R1CS ---------------------------------
(***************************************************************************)
(* R1CS arithmetizations: the structure and its relations                  *)
(* (crates/primitives/src/arithmetizations), the gadget that evaluates it  *)
(* in a circuit, and the extractors of crates/primitives/src/circuits that *)
(* obtain a structure and its assignments from a synthesized circuit.      *)
(*                                                                         *)
(* The constraint system that a circuit is synthesized into is arkworks':  *)
(* a variable is <<"one", 0>>, <<"instance", k>> or <<"witness", k>>, and  *)
(* matrices number the columns one, instances, witnesses.  A circuit's two *)
(* extractions run the same synthesis, which is modelled once.             *)
(***************************************************************************)
EXTENDS Integers, Sequences

CONSTANTS
  Modulus,         \* of the field
  WordSize,        \* 2^64, of usize
  Loaded,          \* structures given to new and deserialize_with_mode
  Coefficients,    \* of the linear combinations that circuits constrain
  Values,          \* field elements that assignments are made of
  MaxLength,       \* bound on the two parts of the assignments that are checked
  MaxVariables,    \* bound on the variables of a circuit
  MaxConstraints   \* bound on the constraints of a circuit

Elements == 0 .. Modulus - 1
Rows == Seq(Elements \X Nat)
Structures == [m : Nat, n : Nat, l : Nat, matrices : [1 .. 3 -> Seq(Rows)]]

ASSUME ModulusAssumption == Modulus \in Nat \ {0, 1}
ASSUME LoadedAssumption == Loaded \subseteq Structures
ASSUME ElementsAssumption == Coefficients \subseteq Elements /\ Values \subseteq Elements
\* Two slices never have so many elements together as usize has values.
ASSUME LengthAssumption ==
  MaxLength \in Nat /\ WordSize \in Nat /\ 2 * MaxLength + 1 < WordSize

VARIABLES
  cs,        \* the constraint system of the circuit: values of its instances and witnesses, rows
  built,     \* how the structure was obtained: "none", "synthesized", "validated", "unchecked",
             \* or "rejected"
  arith,     \* the R1CS
  z,         \* the Assignments last evaluated
  native,    \* the outcome of R1CS::evaluate_r1cs on them
  wired      \* the outcome of R1CSMatricesVar::evaluate_r1cs on them

rvars == <<cs, built, arith, z, native, wired>>

-----------------------------------------------------------------------------
(***************************************************************************)
(* Assignments                                                             *)
(***************************************************************************)
Columns(a) == 0 .. Len(a.public) + Len(a.private)

\* index
At(a, i) ==
  IF i = 0 THEN a.constant
  ELSE IF i <= Len(a.public) THEN a.public[i]
  ELSE a.private[i - Len(a.public)]

\* The product of a row and the assignments
Dot(row, a) ==
  LET upTo[k \in 0 .. Len(row)] ==
        IF k = 0 THEN 0 ELSE (upTo[k - 1] + row[k][1] * At(a, row[k][2])) % Modulus
  IN  upTo[Len(row)]

\* Every index is in range
RowFits(row, a) == \A k \in 1 .. Len(row) : row[k][2] \in Columns(a)

-----------------------------------------------------------------------------
(***************************************************************************)
(* The structure                                                           *)
(***************************************************************************)
\* Mutant: a column just past the variables is let through
MutValidates(s) ==
  \A i \in 1 .. 3 :
    /\ Len(s.matrices[i]) = s.m
    /\ \A r \in 1 .. Len(s.matrices[i]) : \A k \in 1 .. Len(s.matrices[i][r]) :
         s.matrices[i][r][k][2] <= s.n

\* validate
Validates(s) ==
  \A i \in 1 .. 3 :
    /\ Len(s.matrices[i]) = s.m
    /\ \A r \in 1 .. Len(s.matrices[i]) : \A k \in 1 .. Len(s.matrices[i][r]) :
         s.matrices[i][r][k][2] < s.n

\* n_witnesses of config wraps, or panics in a build with overflow checks.
Underflows(s) == s.n < s.l + 1
Witnesses(s) == IF Underflows(s) THEN s.n - s.l - 1 + WordSize ELSE s.n - s.l - 1

Evaluated(v) == [tag |-> "value", v |-> v]
Failed(tag) == [tag |-> tag, v |-> <<>>]

\* evaluate_ccs with the multisets {A, B}, {C} and the coefficients 1, -u
EvaluateNatively(s, a, overflowChecks) ==
  IF overflowChecks /\ Underflows(s) THEN Failed("panic")
  ELSE IF Len(a.public) # s.l \/ Len(a.private) # Witnesses(s) THEN Failed("malformed")
  ELSE IF \E i \in 1 .. 3 : \E r \in 1 .. s.m :
            r > Len(s.matrices[i]) \/ ~RowFits(s.matrices[i][r], a)
       THEN Failed("panic")
  ELSE Evaluated([r \in 1 .. s.m |->
         LET entry(i) == Dot(s.matrices[i][r], a)
         IN  (entry(1) * entry(2) - a.constant * entry(3)) % Modulus])

\* Mutant: C z is not relaxed
MutEvaluateInCircuit(s, a) ==
  LET entry(i, r) == Dot(s.matrices[i][r], a)
  IN  IF \E i \in 1 .. 3 : \E r \in 1 .. Len(s.matrices[i]) : ~RowFits(s.matrices[i][r], a)
      THEN Failed("panic")
      ELSE IF \E i \in 2 .. 3 : Len(s.matrices[i]) # Len(s.matrices[1])
      THEN Failed("unsatisfiable")
      ELSE Evaluated([r \in 1 .. Len(s.matrices[1]) |->
             (entry(1, r) * entry(2, r) - entry(3, r)) % Modulus])

\* The gadget multiplies whole matrices, and looks at no length but those of the products.
EvaluateInCircuit(s, a) ==
  LET entry(i, r) == Dot(s.matrices[i][r], a)
  IN  IF \E i \in 1 .. 3 : \E r \in 1 .. Len(s.matrices[i]) : ~RowFits(s.matrices[i][r], a)
      THEN Failed("panic")
      ELSE IF \E i \in 2 .. 3 : Len(s.matrices[i]) # Len(s.matrices[1])
      THEN Failed("unsatisfiable")
      ELSE Evaluated([r \in 1 .. Len(s.matrices[1]) |->
             (entry(1, r) * entry(2, r) - a.constant * entry(3, r)) % Modulus])

\* check_evaluation of plain witnesses
PlainCheck(v) == IF \A r \in DOMAIN v : v[r] = 0 THEN "satisfied" ELSE "unsatisfied"

\* Mutant: no look at the length of the error term
MutRelaxedCheck(e, v) ==
  IF \A r \in DOMAIN e \cap DOMAIN v : e[r] = v[r] THEN "satisfied" ELSE "unsatisfied"

\* check_evaluation of relaxed witnesses
RelaxedCheck(e, v) ==
  IF Len(e) # Len(v) THEN "malformed"
  ELSE IF \A r \in DOMAIN v : e[r] = v[r] THEN "satisfied" ELSE "unsatisfied"

-----------------------------------------------------------------------------
(***************************************************************************)
(* The constraint system of a circuit, and its two extractions             *)
(***************************************************************************)
Variables == {<<"one", 0>>} \cup {<<"instance", k>> : k \in 1 .. Len(cs.instance)}
                            \cup {<<"witness", k>> : k \in 1 .. Len(cs.witness)}

Value(var) ==
  CASE var[1] = "one" -> 1
    [] var[1] = "instance" -> cs.instance[var[2]]
    [] var[1] = "witness" -> cs.witness[var[2]]

\* The constant is column 0, and the instances go before the witnesses.
Column(var) == IF var[1] = "witness" THEN Len(cs.instance) + var[2] ELSE var[2]

\* A linear combination is a sequence of pairs of coefficients and variables.
Sum(lc) ==
  LET upTo[k \in 0 .. Len(lc)] ==
        IF k = 0 THEN 0 ELSE upTo[k - 1] + lc[k][1] * Value(lc[k][2])
  IN  upTo[Len(lc)] % Modulus

Satisfied == \A r \in 1 .. Len(cs.rows) : Sum(cs.rows[r][1]) * Sum(cs.rows[r][2]) % Modulus = Sum(cs.rows[r][3])

ToRow(lc) == [k \in 1 .. Len(lc) |-> <<lc[k][1], Column(lc[k][2])>>]

\* from, by which arith of ArithExtractor ends; arkworks counts the constant as an instance.
FromConstraintSystem ==
  [m |-> Len(cs.rows),
   n |-> (1 + Len(cs.instance)) + Len(cs.witness),
   l |-> (1 + Len(cs.instance)) - 1,
   matrices |-> [i \in 1 .. 3 |-> [r \in 1 .. Len(cs.rows) |-> ToRow(cs.rows[r][i])]]]

\* Mutant: the constant stays in front of the instances
MutExtractedAssignments ==
  [constant |-> 1, public |-> <<1>> \o cs.instance, private |-> cs.witness]

\* assignments of AssignmentsExtractor
ExtractedAssignments ==
  [constant |-> 1, public |-> cs.instance, private |-> cs.witness]

-----------------------------------------------------------------------------
EmptySystem == [instance |-> <<>>, witness |-> <<>>, rows |-> <<>>]
NoError(s) == [r \in 1 .. s.m |-> 0]

R1CSInit ==
  /\ cs = EmptySystem
  /\ built = "none"
  /\ arith = [m |-> 0, n |-> 0, l |-> 0, matrices |-> [i \in 1 .. 3 |-> <<>>]]
  /\ z = [constant |-> 1, public |-> <<>>, private |-> <<>>]
  /\ native = Failed("none")
  /\ wired = Failed("none")

Synthesizing ==
  /\ built = "none"
  /\ UNCHANGED <<built, arith, z, native, wired>>

MoreVariables == Len(cs.instance) + Len(cs.witness) < MaxVariables

AllocateInput ==
  /\ Synthesizing
  /\ MoreVariables
  /\ \E v \in Values : cs' = [cs EXCEPT !.instance = Append(@, v)]

AllocateWitness ==
  /\ Synthesizing
  /\ MoreVariables
  /\ \E v \in Values : cs' = [cs EXCEPT !.witness = Append(@, v)]

MoreConstraints == Len(cs.rows) < MaxConstraints

Terms == {<<<<coeff, var>>>> : coeff \in Coefficients, var \in Variables}

Enforce ==
  /\ Synthesizing
  /\ MoreConstraints
  /\ \E a, b, c \in Terms :
       cs' = [cs EXCEPT !.rows = Append(@, <<a, b, c>>)]

\* mark_as_public: a new input with the variable's value, and a constraint that they are equal
MarkAsPublic ==
  /\ Synthesizing
  /\ MoreVariables
  /\ MoreConstraints
  /\ \E k \in 1 .. Len(cs.witness) :
       LET input == <<"instance", Len(cs.instance) + 1>>
           difference == <<<<1, <<"witness", k>>>>, <<Modulus - 1, input>>>>
       IN  cs' = [cs EXCEPT !.instance = Append(@, cs.witness[k]),
                            !.rows = Append(@, <<difference, <<<<1, <<"one", 0>>>>>>, <<>>>>)]

\* The structure and the assignments of the circuit, and their evaluation
Extract ==
  /\ built = "none"
  /\ Len(cs.rows) > 0
  /\ built' = "synthesized"
  /\ arith' = FromConstraintSystem
  /\ z' = ExtractedAssignments
  /\ native' = EvaluateNatively(FromConstraintSystem, ExtractedAssignments, TRUE)
  /\ wired' = EvaluateInCircuit(FromConstraintSystem, ExtractedAssignments)
  /\ UNCHANGED cs

\* new, and deserialize_with_mode with validation
LoadValidated ==
  /\ built = "none"
  /\ cs = EmptySystem
  /\ \E s \in Loaded :
       IF Validates(s)
       THEN built' = "validated" /\ arith' = s
       ELSE built' = "rejected" /\ UNCHANGED arith
  /\ UNCHANGED <<cs, z, native, wired>>

\* new_without_validity_check, and deserialize_with_mode without validation
LoadUnchecked ==
  /\ built = "none"
  /\ cs = EmptySystem
  /\ \E s \in Loaded : arith' = s
  /\ built' = "unchecked"
  /\ UNCHANGED <<cs, z, native, wired>>

Parts == UNION {[1 .. k -> Values] : k \in 0 .. MaxLength}

\* The first evaluation of a loaded structure, at whatever assignments
Evaluate ==
  /\ built \in {"validated", "unchecked"}
  /\ native.tag = "none"
  /\ \E u \in Values, public, private \in Parts, overflowChecks \in BOOLEAN :
       LET a == [constant |-> u, public |-> public, private |-> private]
       IN  /\ z' = a
           /\ native' = EvaluateNatively(arith, a, overflowChecks)
           /\ wired' = EvaluateInCircuit(arith, a)
  /\ UNCHANGED <<cs, built, arith>>

R1CSNext ==
  \/ AllocateInput
  \/ AllocateWitness
  \/ Enforce
  \/ MarkAsPublic
  \/ Extract
  \/ LoadValidated
  \/ LoadUnchecked
  \/ Evaluate

R1CSSpec == R1CSInit /\ [][R1CSNext]_rvars

-----------------------------------------------------------------------------
\* EvaluationSafe: the evaluation of a validated structure, or of one extracted from a
\* circuit, indexes no matrix and no assignment out of range, whatever assignments it is
\* given; the one panic left is that of n <= l in a build with overflow checks.  Without
\* them n - l - 1 wraps, and then no assignments have the lengths it asks for, so that a
\* structure with n <= l, however obtained, is never evaluated.
EvaluationSafe ==
  /\ native.tag = "panic" => built = "unchecked" \/ Underflows(arith)
  /\ native.tag = "value" => ~Underflows(arith)

\* EvaluationsAgree: at assignments of the lengths that a sound structure asks for, the
\* gadget evaluates as evaluate_r1cs does, at every constant term; it never panics there.
EvaluationsAgree ==
  built \in {"synthesized", "validated"} /\ native.tag = "value" => wired = native

\* RelaxationExact: at most one error term, of any length, satisfies the relaxed relation,
\* and with a constant of 1 it is zero exactly when the plain relation holds.
RelaxationExact ==
  native.tag = "value" =>
    \A e \in UNION {[1 .. k -> Elements] : k \in 0 .. arith.m + 1} :
      RelaxedCheck(e, native.v) = "satisfied" <=>
        /\ e = native.v
        /\ z.constant = 1 => (PlainCheck(native.v) = "satisfied" <=> e = NoError(arith))

\* ExtractionExact: a structure extracted from a circuit would pass the validation it is not
\* put through; the assignments extracted with it fit it and satisfy its relation, in code and in the gadget, exactly when the circuit's
\* constraints hold, in whatever order inputs, witnesses and constraints came.
ExtractionExact ==
  built = "synthesized" =>
    /\ Validates(arith) /\ ~Underflows(arith)
    /\ native.tag = "value" /\ wired.tag = "value"
    /\ PlainCheck(native.v) = "satisfied" <=> Satisfied
    /\ PlainCheck(wired.v) = "satisfied" <=> Satisfied
=============================================================================
