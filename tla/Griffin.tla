-------------------------------- MODULE Griffin --------------------------------
(***************************************************************************)
(* The Griffin permutation of crates/primitives/src/transcripts/griffin:   *)
(* the generation of its parameters, the hash function, and the gadget     *)
(* that repeats it in the circuit.                                         *)
(*                                                                         *)
(* The stream of the extendable output function is any stream of field     *)
(* elements.  A hint of the gadget is any value that its constraint        *)
(* admits.  The words of a state are numbered from 0, as in the code.      *)
(***************************************************************************)
EXTENDS Integers, Sequences, FiniteSets

CONSTANTS
  P,                  \* the field, a prime
  Shapes,             \* records of the arguments of GriffinParams::new (t, d, rounds), and whether the
                      \* build has debug assertions
  RoundConstants,     \* elements that round constants are taken from
  Words,              \* elements that messages are made of
  MaxChunks           \* bound on the chunks of a message

ASSUME PrimeAssumption == P \in Nat /\ P > 2 /\ \A a, b \in 1 .. P - 1 : (a * b) % P # 0
ASSUME ShapeAssumption == \A s \in Shapes : s.t \in Nat /\ s.d \in Nat /\ s.rounds \in Nat

\* The matrices of all widths are invertible; the code has fields far larger than its widths.
ASSUME WidthAssumption == \A s \in Shapes : s.t % 4 = 0 => (s.t \div 4 + 1) % P # 0
ASSUME ElementAssumption == RoundConstants \cup Words \subseteq 0 .. P - 1

VARIABLES
  stage,   \* what happens next: "new", "constants", "first", "others", "ready", "rounds", "panicked"
  params,  \* GriffinParams
  round,   \* how many rounds of the permutation are done
  chunks,  \* how many chunks of the message are absorbed
  state,   \* of Griffin::hash
  wires    \* of GriffinGadget::hash

gvars == <<stage, params, round, chunks, state, wires>>

Field == 0 .. P - 1
NonZero == 1 .. P - 1

\* The sum of the n terms of f
Total(n, f) ==
  LET sum[k \in 0 .. n] == IF k = 0 THEN 0 ELSE sum[k - 1] + f[k - 1]
  IN  sum[n]

Power(x, n) ==
  LET power[k \in 0 .. n] == IF k = 0 THEN 1 ELSE (x * power[k - 1]) % P
  IN  power[n]

NonResidue(x) == x % P # 0 /\ \A y \in Field : (y * y) % P # x % P

Lanes(t) == 0 .. t - 1
Zeros(t) == [i \in Lanes(t) |-> 0]

-----------------------------------------------------------------------------
(***************************************************************************)
(* GriffinParams                                                           *)
(***************************************************************************)
Asserted(s) == (s.t = 3 \/ s.t % 4 = 0) /\ s.d \in {3, 5} /\ s.rounds >= 1

\* The inverse of d modulo p - 1, if there is one
Inverses(d) == {e \in 1 .. P - 2 : (d * e) % (P - 1) = 1}

\* The pairs are good: with alpha^2 - 4 beta no square, l^2 + alpha l + beta has no root.
GoodPair(ab) == NonResidue(ab[1] * ab[1] - 4 * ab[2])

Block == <<<<5, 7, 1, 3>>, <<4, 6, 1, 1>>, <<1, 3, 5, 7>>, <<1, 1, 4, 6>>>>

\* instantiate_matrix
Matrix(t) ==
  [i \in Lanes(t) |-> [j \in Lanes(t) |->
     IF t = 3
     THEN IF i = j THEN 2 ELSE 1
     ELSE Block[(i % 4) + 1][(j % 4) + 1] * (IF t > 4 /\ i \div 4 = j \div 4 THEN 2 ELSE 1)]]

-----------------------------------------------------------------------------
(***************************************************************************)
(* Griffin: the affine layer by sums                                       *)
(***************************************************************************)
\* affine_4, and the first matrix of affine, on four words
Four(x) ==
  LET t0 == x[0] + x[1]       t1 == x[2] + x[3]
      t2 == 2 * x[1] + t1     t3 == 2 * x[3] + t0
      t4 == 4 * t1 + t3       t5 == 4 * t0 + t2
  IN  <<t3 + t5, t5, t2 + t4, t4>>

\* affine_3 and the two matrices of affine
Linear(t, x) ==
  IF t = 3
  THEN [i \in Lanes(3) |-> x[i] + Total(3, x)]
  ELSE LET fours == [k \in 0 .. t \div 4 - 1 |-> Four([i \in 0 .. 3 |-> x[4 * k + i]])]
           stored == [i \in 1 .. 4 |-> Total(t \div 4, [k \in 0 .. t \div 4 - 1 |-> fours[k][i]])]
       IN  [i \in Lanes(t) |->
              fours[i \div 4][(i % 4) + 1] + (IF t = 4 THEN 0 ELSE stored[(i % 4) + 1])]

\* After round r; no constant is added after the last round, and none before the first,
\* which affine takes for a round beyond the last.
Affine(p, x, r) ==
  [i \in Lanes(p.t) |->
     (Linear(p.t, x)[i] + (IF r < p.rounds - 1 THEN p.rc[r][i] ELSE 0)) % P]

\* Words from the third on, given the first two: l runs over y_1 + (i - 1) y_0 + x_(i - 1)
Masked(p, x, y0, y1) ==
  [i \in 2 .. p.t - 1 |->
     LET l == y1 + (i - 1) * y0 + (IF i = 2 THEN 0 ELSE x[i - 1])
         ab == p.ab[i - 1]
     IN  (x[i] * ((l * l + l * ab[1] + ab[2]) % P)) % P]

NonLinear(p, x) ==
  LET y0 == Power(x[0], p.dInv)
      y1 == Power(x[1], p.d)
  IN  [i \in Lanes(p.t) |-> IF i = 0 THEN y0 ELSE IF i = 1 THEN y1 ELSE Masked(p, x, y0, y1)[i]]

Permute(p, x) ==
  LET after[r \in 0 .. p.rounds] ==
        IF r = 0 THEN Affine(p, x, p.rounds) ELSE Affine(p, NonLinear(p, after[r - 1]), r - 1)
  IN  after[p.rounds]

-----------------------------------------------------------------------------
(***************************************************************************)
(* GriffinGadget: the affine layer by the matrix, and a hint for the root  *)
(***************************************************************************)
VarAffine(p, x) ==
  [i \in Lanes(p.t) |-> Total(p.t, [j \in Lanes(p.t) |-> x[j] * p.mat[i][j]]) % P]

\* Mutant: a constant after every round
MutVarConstants(p, x, r) ==
  [i \in Lanes(p.t) |-> (x[i] + p.rc[IF r < p.rounds - 1 THEN r ELSE 0][i]) % P]

VarConstants(p, x, r) ==
  [i \in Lanes(p.t) |-> (x[i] + (IF r < p.rounds - 1 THEN p.rc[r][i] ELSE 0)) % P]

\* result[0] * sq = state[0]
RootHints(p, x) == {y \in Field : Power(y, p.d) = x[0]}

VarNonLinear(p, x, y0) ==
  LET y1 == Power(x[1], p.d)
  IN  [i \in Lanes(p.t) |-> IF i = 0 THEN y0 ELSE IF i = 1 THEN y1 ELSE Masked(p, x, y0, y1)[i]]

-----------------------------------------------------------------------------
(***************************************************************************)
(* GriffinParams::new, one draw from the stream after the other            *)
(***************************************************************************)
GriffinInit ==
  /\ stage = "new"
  /\ params = <<>>
  /\ round = 0
  /\ chunks = 0
  /\ state = <<>>
  /\ wires = <<>>

NewParams ==
  /\ stage = "new"
  /\ \E s \in Shapes :
       IF Asserted(s) /\ Inverses(s.d) # {}
       THEN /\ stage' = "constants"
            /\ params' = [t |-> s.t, d |-> s.d, rounds |-> s.rounds, rate |-> s.t - 1,
                          dInv |-> CHOOSE e \in Inverses(s.d) : TRUE, debug |-> s.debug,
                          rc |-> <<>>, ab |-> <<>>, mat |-> <<>>]
       ELSE stage' = "panicked" /\ UNCHANGED params
  /\ UNCHANGED <<round, chunks, state, wires>>

\* instantiate_rc; what follows reserves room for t - 2 pairs
DrawRoundConstants ==
  /\ stage = "constants"
  /\ \E rc \in [0 .. params.rounds - 2 -> [Lanes(params.t) -> RoundConstants]] :
       params' = [params EXCEPT !.rc = rc]
  /\ stage' = IF params.t < 2 THEN "panicked" ELSE "first"
  /\ UNCHANGED <<round, chunks, state, wires>>

\* The loop of instantiate_alpha_beta: whatever it rejects, it ends with such a pair.
DrawFirstPair ==
  /\ stage = "first"
  /\ \E alpha, beta \in NonZero :
       /\ alpha # beta
       /\ GoodPair(<<alpha, beta>>)
       /\ params' = [params EXCEPT !.ab = <<<<alpha, beta>>>>]
  /\ stage' = "others"
  /\ UNCHANGED <<round, chunks, state, wires>>

OtherPairs(t) == 2 .. t - 2

\* Mutant: beta grows as alpha does
MutScaledPair(ab, i) == <<(ab[1] * i) % P, (ab[2] * i) % P>>

\* The pair of word i + 1, a multiple of the first
ScaledPair(ab, i) == <<(ab[1] * i) % P, (ab[2] * i * i) % P>>

\* One iteration over the other pairs, with the parameters ready at the end.
\* A beta equal to alpha is drawn again; only debug assertions look at the result.
DrawOtherPair ==
  /\ stage = "others"
  /\ LET i == Len(params.ab) + 1
         scaled == ScaledPair(params.ab[1], i)
     IN  IF i \notin OtherPairs(params.t)
         THEN /\ params' = [params EXCEPT !.mat = Matrix(params.t)]
              /\ stage' = "ready"
              /\ state' = Zeros(params.t)
              /\ wires' = Zeros(params.t)
         ELSE \E pair \in IF scaled[1] # scaled[2]
                          THEN {scaled}
                          ELSE {<<scaled[1], beta>> : beta \in NonZero \ {scaled[1]}} :
                /\ IF params.debug /\ ~GoodPair(pair)
                   THEN stage' = "panicked" /\ UNCHANGED params
                   ELSE /\ params' = [params EXCEPT !.ab = Append(@, pair)]
                        /\ UNCHANGED stage
                /\ UNCHANGED <<state, wires>>
  /\ UNCHANGED <<round, chunks>>

-----------------------------------------------------------------------------
(***************************************************************************)
(* hash, of Griffin and of GriffinGadget                                   *)
(***************************************************************************)
Added(x, chunk) ==
  [i \in DOMAIN x |-> (x[i] + (IF i < Len(chunk) THEN chunk[i + 1] ELSE 0)) % P]

\* A chunk of the message, up to the first layer of permute.  A chunk shorter than the rate
\* is the last one.
AbsorbChunk ==
  /\ stage = "ready"
  /\ chunks < MaxChunks
  /\ \E n \in 1 .. params.rate : \E chunk \in [1 .. n -> Words] :
       /\ chunks' = IF n < params.rate THEN MaxChunks ELSE chunks + 1
       /\ state' = Affine(params, Added(state, chunk), params.rounds)
       /\ wires' = VarAffine(params, Added(wires, chunk))
  /\ round' = 0
  /\ stage' = "rounds"
  /\ UNCHANGED params

\* An iteration of the loop of permute; the circuit takes any root that satisfies it.
OneRound ==
  /\ stage = "rounds"
  /\ state' = Affine(params, NonLinear(params, state), round)
  /\ \E y0 \in RootHints(params, wires) :
       wires' = VarConstants(params, VarAffine(params, VarNonLinear(params, wires, y0)), round)
  /\ round' = round + 1
  /\ stage' = IF round + 1 = params.rounds THEN "ready" ELSE "rounds"
  /\ UNCHANGED <<params, chunks>>

GriffinNext ==
  \/ NewParams
  \/ DrawRoundConstants
  \/ DrawFirstPair
  \/ DrawOtherPair
  \/ AbsorbChunk
  \/ OneRound

GriffinSpec == GriffinInit /\ [][GriffinNext]_gvars

-----------------------------------------------------------------------------
\* HashGadgetAgrees: whatever satisfying roots a prover supplies, the wires of
\* GriffinGadget::hash carry the state of Griffin::hash after every layer, though the one
\* multiplies by a matrix, the other adds up, and each decides for itself which round adds
\* constants.
HashGadgetAgrees == stage \in {"ready", "rounds"} => wires = state

\* The inputs whose words from the fifth on are zero
Samples(t) ==
  {[i \in Lanes(t) |-> IF i < 4 THEN x[i] ELSE 0] : x \in [0 .. (IF t < 4 THEN t ELSE 4) - 1 -> Field]}

\* Parameters as new means them: a pair drawn again was looked at by the assertion only.
AllScaled(p) == \A i \in 3 .. p.t - 1 : p.ab[i - 1] = ScaledPair(p.ab[1], i - 1)

\* PermuteIsInjective: with whatever parameters new returns (pairs that were drawn again
\* having passed the debug assertion), permute never maps two inputs to one state.
PermuteIsInjective ==
  stage = "ready" /\ chunks = 0 /\ (params.debug \/ AllScaled(params)) =>
    Cardinality({Permute(params, x) : x \in Samples(params.t)}) = Cardinality(Samples(params.t))
=============================================================================
