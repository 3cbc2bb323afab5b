------------------------ MODULE KeyGeneration_proofs -------------------------
(***************************************************************************)
(* For any circuits, sizes and key lengths: the keys that generate_keys    *)
(* returns fit every commitment prove makes with them, and decide the very *)
(* circuit that prove synthesizes.                                         *)
(***************************************************************************)
EXTENDS KeyGeneration, TLAPS

\* Max of two numbers bounds both.
LEMMA MaxOfTwo ==
  ASSUME NEW a \in Int, NEW b \in Int
  PROVE  Max({a, b}) \in Int /\ Max({a, b}) >= a /\ Max({a, b}) >= b
<1>1. \E x \in {a, b} : \A y \in {a, b} : x >= y
  OBVIOUS
<1>2. Max({a, b}) \in {a, b} /\ \A y \in {a, b} : Max({a, b}) >= y
  BY <1>1 DEF Max
<1> QED BY <1>2

\* The sizes of an R1CS and of its configuration are numbers.
LEMMA ArithTypes ==
  ASSUME NEW a \in Ariths
  PROVE  a.m \in Nat /\ Config(a).n_constraints = a.m /\ Config(a).n_witnesses \in Nat
  BY SizeAssumption DEF Ariths, Sizes, Config

\* A commitment key that generate_keys of Nova takes is as long as either message.
LEMMA NotTooShort ==
  ASSUME NEW length \in Nat, NEW a \in Ariths, ~TooShort(length, Config(a))
  PROVE  ~MessageTooLong(length, a.m) /\ ~MessageTooLong(length, Config(a).n_witnesses)
<1>1. PICK m, w : m = a.m /\ w = Config(a).n_witnesses
  OBVIOUS
<1>2. m \in Nat /\ w \in Nat /\ Config(a).n_constraints = m
  BY <1>1, ArithTypes
<1>3. Max({m, w}) \in Int /\ Max({m, w}) >= m /\ Max({m, w}) >= w
  BY <1>2, MaxOfTwo
<1>4. ~(length < Max({m, w}))
  BY <1>1, <1>2 DEF TooShort
<1>5. ~MessageTooLong(length, m) /\ ~MessageTooLong(length, w)
  BY <1>2, <1>3, <1>4 DEF MessageTooLong
<1> QED BY <1>1, <1>5

\* What the loop synthesizes is an R1CS.
LEMMA AugmentedType ==
  ASSUME NEW c \in Circuits, NEW cfg \in Configs
  PROVE  /\ Augmented(c, cfg) \in Ariths /\ Config(Augmented(c, cfg)) \in Configs
         /\ Config(Augmented(c, cfg)).n_witnesses \in Nat
<1>1. Augmented(c, cfg) \in Ariths
  BY SynthAssumption DEF Augmented
<1> QED BY <1>1, ArithTypes DEF Configs

LEMMA KeyTypeStep == ASSUME TypeOK, [Next]_vars PROVE TypeOK'
<1> USE DEF TypeOK, Stages
<1>1. CASE Preprocess
  BY <1>1 DEF Preprocess, NextPowerOfTwo
<1>2. CASE GenerateKeys
  BY <1>2 DEF GenerateKeys, Configs, DefaultConfig
<1>3. CASE Iterate
  <2>1. /\ Augmented(circuit, config) \in Ariths
        /\ Config(Augmented(circuit, config)) \in Configs
        /\ Config(Augmented(circuit, config)).n_witnesses \in Nat
    BY AugmentedType
  <2> QED BY <1>3, <2>1 DEF Iterate
<1>4. CASE GenerateKeys1
  BY <1>4 DEF GenerateKeys1
<1>5. CASE GenerateKeys2
  BY <1>5 DEF GenerateKeys2
<1>6. CASE Prove
  BY <1>6 DEF Prove
<1>7. CASE UNCHANGED vars
  BY <1>7 DEF vars
<1> QED BY <1>1, <1>2, <1>3, <1>4, <1>5, <1>6, <1>7 DEF Next

\* Every variable keeps its type, so a configuration is that of an R1CS.
THEOREM KeyTypes == Spec => []TypeOK
<1>1. Init => TypeOK
  <2> SUFFICES ASSUME Init PROVE TypeOK
    OBVIOUS
  <2>1. stage \in Stages /\ circuit \in Circuits /\ tooLong \in BOOLEAN
    BY DEF Init, Stages
  <2>2. ck \in Nat \X Nat
    BY DEF Init
  <2>3. config \in Configs /\ config.n_witnesses \in Nat
    BY DEF Init, Configs, DefaultConfig
  <2>4. arith1 \in Ariths \cup {NoR1CS}
    BY DEF Init
  <2> QED BY <2>1, <2>2, <2>3, <2>4 DEF TypeOK
<1> QED BY <1>1, KeyTypeStep, PTL DEF Spec

\* The inductive invariant: what each stage has established, on the way to the keys.
Established ==
  /\ stage \in {"stable", "dk1", "ready"} =>
       arith1 \in Ariths /\ Augmented(circuit, Config(arith1)) = arith1
  /\ stage \in {"dk1", "ready"} => ~TooShort(ck[1], Config(arith1))
  /\ stage = "ready" => ~TooShort(ck[2], Config(CycleFoldR1CS))
  /\ CommitmentsFit

LEMMA EstablishedStep == ASSUME TypeOK, Established, [Next]_vars PROVE Established'
<1> USE DEF Established, CommitmentsFit
<1>1. CASE Preprocess
  BY <1>1 DEF Preprocess
<1>2. CASE GenerateKeys
  BY <1>2 DEF GenerateKeys
<1>3. CASE Iterate
  <2>1. Augmented(circuit, config) \in Ariths
    BY AugmentedType DEF TypeOK
  <2> QED BY <1>3, <2>1 DEF Iterate
<1>4. CASE GenerateKeys1
  BY <1>4 DEF GenerateKeys1
<1>5. CASE GenerateKeys2
  BY <1>5 DEF GenerateKeys2
<1>6. CASE Prove
  <2>1. /\ stage = "ready" /\ arith1 \in Ariths
        /\ Augmented(circuit, Config(arith1)) = arith1
        /\ ~TooShort(ck[1], Config(arith1)) /\ ~TooShort(ck[2], Config(CycleFoldR1CS))
    BY <1>6 DEF Prove
  <2>2. ck[1] \in Nat /\ ck[2] \in Nat
    BY DEF TypeOK
  <2>3. \A v \in Messages1(circuit) : ~MessageTooLong(ck[1], v)
    BY <2>1, <2>2, NotTooShort DEF Messages1
  <2>4. \A v \in Messages2 : ~MessageTooLong(ck[2], v)
    BY <2>1, <2>2, NotTooShort, CycleFoldAssumption DEF Messages2
  <2> QED BY <1>6, <2>1, <2>3, <2>4 DEF Prove
<1>7. CASE UNCHANGED vars
  BY <1>7 DEF vars
<1> QED BY <1>1, <1>2, <1>3, <1>4, <1>5, <1>6, <1>7 DEF Next

LEMMA EstablishedAlways == Spec => []Established
<1>1. Init => Established
  BY DEF Init, Established, CommitmentsFit
<1> QED BY <1>1, EstablishedStep, KeyTypes, PTL DEF Spec

\* No commitment of prove ever finds its message too long for keys that
\* generate_keys returned (the check in key_generator.rs covers both messages).
THEOREM KeysFitCommitments == Spec => []CommitmentsFit
<1>1. Established => CommitmentsFit
  BY DEF Established
<1> QED BY <1>1, EstablishedAlways, PTL

\* The loop of generate_keys ends at a fixed point: prove, which synthesizes the
\* circuit for the configuration of the finished key, gets that key's own R1CS.
THEOREM KeysMatchCircuit == Spec => []CircuitMatchesKey
<1>1. Established => CircuitMatchesKey
  BY DEF Established, CircuitMatchesKey
<1> QED BY <1>1, EstablishedAlways, PTL

(***************************************************************************)
(* The loop takes two passes for Nova                                      *)
(***************************************************************************)
FirstConfig(c) == Config(Augmented(c, DefaultConfig))

\* While the loop runs for such a circuit, it is at the default configuration or at
\* the one its first pass gives.
OneOfTwo ==
  stage = "loop" /\ FollowsPublicInputs(circuit) =>
    config \in {DefaultConfig, FirstConfig(circuit)}

\* Either configuration has one public input, and so gives the same circuit.
LEMMA SameCircuit ==
  ASSUME TypeOK, FollowsPublicInputs(circuit),
         config \in {DefaultConfig, FirstConfig(circuit)}
  PROVE  Augmented(circuit, config) = Augmented(circuit, DefaultConfig)
<1>1. DefaultConfig \in Configs /\ config \in Configs
  BY DEF Configs, TypeOK
<1>2. DefaultConfig.n_public_inputs = 1
  BY DEF DefaultConfig
<1>3. FirstConfig(circuit).n_public_inputs = 1
  BY <1>1 DEF FirstConfig, Config, FollowsPublicInputs
<1> QED BY <1>1, <1>2, <1>3 DEF FollowsPublicInputs

LEMMA OneOfTwoStep == ASSUME TypeOK, OneOfTwo, [Next]_vars PROVE OneOfTwo'
<1>1. CASE Iterate
  <2> SUFFICES ASSUME stage' = "loop", FollowsPublicInputs(circuit)'
               PROVE  config' = FirstConfig(circuit)'
    BY DEF OneOfTwo
  <2>1. circuit' = circuit /\ stage = "loop" /\ config' = Config(Augmented(circuit, config))
    BY <1>1 DEF Iterate
  <2>2. FollowsPublicInputs(circuit)
    BY <2>1 DEF FollowsPublicInputs
  <2>3. Augmented(circuit, config) = Augmented(circuit, DefaultConfig)
    BY <2>1, <2>2, SameCircuit DEF OneOfTwo
  <2> QED BY <2>1, <2>3 DEF FirstConfig
<1>2. CASE GenerateKeys
  BY <1>2 DEF GenerateKeys, OneOfTwo
<1>3. CASE Preprocess \/ GenerateKeys1 \/ GenerateKeys2 \/ Prove
  BY <1>3 DEF Preprocess, GenerateKeys1, GenerateKeys2, Prove, OneOfTwo
<1>4. CASE UNCHANGED vars
  BY <1>4 DEF vars, OneOfTwo, FollowsPublicInputs, FirstConfig
<1> QED BY <1>1, <1>2, <1>3, <1>4 DEF Next

\* The second pass of the loop in generate_keys finds the configuration it was given,
\* for every augmented circuit that depends on the configuration only through the
\* public inputs of its dummies, as Nova's does.
THEOREM TwoPasses == Spec => SecondPassSettles
<1> DEFINE Settles == stage = "loop" /\ config # DefaultConfig /\ FollowsPublicInputs(circuit)
                        => stage' = "stable"
<1>1. Init => OneOfTwo
  BY DEF Init, OneOfTwo
<1>2. TypeOK /\ OneOfTwo /\ [Next]_vars => [Settles]_vars
  <2> SUFFICES ASSUME TypeOK, OneOfTwo, Next, stage = "loop", config # DefaultConfig,
                      FollowsPublicInputs(circuit)
               PROVE  stage' = "stable"
    OBVIOUS
  <2>1. Iterate
    BY DEF Next, Preprocess, GenerateKeys, GenerateKeys1, GenerateKeys2, Prove
  <2>2. config = FirstConfig(circuit)
    BY DEF OneOfTwo
  <2>3. Config(Augmented(circuit, config)) = config
    BY <2>2, SameCircuit DEF FirstConfig
  <2> QED BY <2>1, <2>3 DEF Iterate
<1>3. Spec => []TypeOK
  BY KeyTypes
<1>4. TypeOK /\ OneOfTwo /\ [Next]_vars => OneOfTwo'
  BY OneOfTwoStep
<1>5. Spec => [][Settles]_vars
  BY <1>1, <1>2, <1>3, <1>4, PTL DEF Spec
<1> QED BY <1>5 DEF SecondPassSettles
=============================================================================
