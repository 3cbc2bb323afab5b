---------------------------- MODULE KeyGeneration ----------------------------
(***************************************************************************)
(* preprocess and generate_keys of the CycleFold-based IVC (crates/ivc/src *)
(* /compilers/cyclefold/mod.rs) with Nova's preprocessor and key generator *)
(* (crates/fs/src/nova/algorithms) and the Pedersen commitment key, and    *)
(* the commitments that prove makes with the keys afterwards.              *)
(*                                                                         *)
(* The augmented circuit contains a verifier for its own instances, so     *)
(* what it is depends on its own configuration.  Synth(c, cfg1, cfg2) is   *)
(* the R1CS that ArithExtractor gets for step circuit c when the augmented *)
(* circuit is told configurations cfg1 and cfg2.  The contents of an R1CS  *)
(* beyond its sizes are left out: they follow from what Synth is given.    *)
(***************************************************************************)
EXTENDS Integers, FiniteSetsExt

CONSTANTS
  Circuits,          \* step circuits
  Synth(_, _, _),
  CycleFoldR1CS,     \* the R1CS of the secondary circuit, verify_point_rlc
  MaxSize            \* bound on the sizes of an R1CS and the requested key lengths

Sizes == 0 .. MaxSize

\* An R1CS: m constraints, n variables with the constant 1, l public inputs
Ariths ==
  {a \in [m : Sizes, n : Sizes, l : Sizes] : a.l < a.n}

(***************************************************************************)
(* R1CS::config, and the ArithConfig the iteration starts from             *)
(***************************************************************************)
\* Mutant: the constant 1 taken off twice
MutConfig(a) ==
  [degree |-> 2, n_constraints |-> a.m, n_variables |-> a.n,
   n_public_inputs |-> a.l, n_witnesses |-> a.n - a.l - 2]

Config(a) ==
  [degree |-> 2, n_constraints |-> a.m, n_variables |-> a.n,
   n_public_inputs |-> a.l, n_witnesses |-> a.n - a.l - 1]

\* Mutant: all of it by default
MutDefaultConfig ==
  [degree |-> 0, n_constraints |-> 0, n_variables |-> 0,
   n_public_inputs |-> 0, n_witnesses |-> 0]

DefaultConfig ==
  [degree |-> 0, n_constraints |-> 0, n_variables |-> 0,
   n_public_inputs |-> 1, n_witnesses |-> 0]

Configs == {DefaultConfig} \cup {Config(a) : a \in Ariths}

ASSUME SizeAssumption == MaxSize \in Nat \ {0}
ASSUME CycleFoldAssumption == CycleFoldR1CS \in Ariths
ASSUME SynthAssumption ==
  \A c \in Circuits, cfg \in Configs : Synth(c, cfg, Config(CycleFoldR1CS)) \in Ariths

VARIABLES
  stage,     \* how far the application is
  ck,        \* the lengths of the two Pedersen keys
  circuit,   \* the step circuit keys are generated for
  config,    \* arith1_config
  arith1,    \* the R1CS of the augmented circuit, once it is stable
  tooLong    \* whether a commitment of the last prove returned MessageTooLong

vars == <<stage, ck, circuit, config, arith1, tooLong>>

Stages == {"start", "params", "loop", "stable", "dk1", "ready", "refused"}
NoR1CS == [m |-> 0, n |-> 0, l |-> 0]

\* The augmented circuit, as the loop and prove synthesize it
Augmented(c, cfg) == Synth(c, cfg, Config(CycleFoldR1CS))

(***************************************************************************)
(* Pedersen keys and commitments                                           *)
(***************************************************************************)
IsPowerOfTwo(p) == \E j \in 0 .. p : p = 2 ^ j

\* len.next_power_of_two(), which is 1 for 0, as the one element of a set
NextPowerOfTwo(len) ==
  {p \in 1 .. 2 * MaxSize :
     /\ IsPowerOfTwo(p) /\ p >= len
     /\ \A q \in 1 .. p - 1 : IsPowerOfTwo(q) => q < len}

MessageTooLong(length, v) == length < v

\* Mutant: only the witnesses have to fit
MutTooShort(length, cfg) == length < cfg.n_witnesses

\* generate_keys of Nova refuses the commitment key
TooShort(length, cfg) == length < Max({cfg.n_constraints, cfg.n_witnesses})

Init ==
  /\ stage = "start" /\ ck = <<0, 0>>
  /\ circuit \in Circuits
  /\ config = DefaultConfig /\ arith1 = NoR1CS
  /\ tooLong = FALSE

\* preprocess((len1, len2, hash_config)): also after keys were refused
Preprocess ==
  /\ stage \in {"start", "refused"}
  /\ \E len1, len2 \in Sizes : ck' \in NextPowerOfTwo(len1) \X NextPowerOfTwo(len2)
  /\ stage' = "params"
  /\ UNCHANGED <<circuit, config, arith1, tooLong>>

\* generate_keys(pp, step_circuit) up to the loop; the parameters serve again and
\* again, for one circuit after the other
GenerateKeys ==
  /\ stage \in {"params", "ready"}
  /\ circuit' \in Circuits
  /\ config' = DefaultConfig /\ arith1' = NoR1CS
  /\ stage' = "loop" /\ tooLong' = FALSE
  /\ UNCHANGED ck

\* Mutants: only the public inputs are compared; the configuration is not updated
MutIterateCompare ==
  /\ stage = "loop"
  /\ LET new == Augmented(circuit, config)
     IN  IF new.l = config.n_public_inputs
         THEN stage' = "stable" /\ arith1' = new /\ UNCHANGED config
         ELSE config' = Config(new) /\ UNCHANGED <<stage, arith1>>
  /\ UNCHANGED <<ck, circuit, tooLong>>

MutIterateUpdate ==
  /\ stage = "loop"
  /\ Config(Augmented(circuit, config)) = config
  /\ stage' = "stable" /\ arith1' = Augmented(circuit, config)
  /\ UNCHANGED <<ck, circuit, config, tooLong>>

\* One pass of the fixed-point loop
Iterate ==
  /\ stage = "loop"
  /\ LET new == Augmented(circuit, config)
     IN  IF Config(new) = config
         THEN stage' = "stable" /\ arith1' = new /\ UNCHANGED config
         ELSE config' = Config(new) /\ UNCHANGED <<stage, arith1>>
  /\ UNCHANGED <<ck, circuit, tooLong>>

\* FS1::generate_keys(pp1, arith1)
GenerateKeys1 ==
  /\ stage = "stable"
  /\ stage' = IF TooShort(ck[1], Config(arith1)) THEN "refused" ELSE "dk1"
  /\ UNCHANGED <<ck, circuit, config, arith1, tooLong>>

\* FS2::generate_keys(pp2, arith2), and the key that is put together from all of it
GenerateKeys2 ==
  /\ stage = "dk1"
  /\ stage' = IF TooShort(ck[2], Config(CycleFoldR1CS)) THEN "refused" ELSE "ready"
  /\ UNCHANGED <<ck, circuit, config, arith1, tooLong>>

\* What prove commits to at step i # 0 with the keys, when it is given circuit c: the
\* cross terms and the witnesses of the two curves.  The assignments are those of the
\* augmented circuit for the configurations the decider keys report.
Messages1(c) ==
  {arith1.m, Config(Augmented(c, Config(arith1))).n_witnesses}
Messages2 == {CycleFoldR1CS.m, Config(CycleFoldR1CS).n_witnesses}

\* prove with the circuit the keys were generated for
Prove ==
  /\ stage = "ready"
  /\ tooLong' = (\/ \E v \in Messages1(circuit) : MessageTooLong(ck[1], v)
                 \/ \E v \in Messages2 : MessageTooLong(ck[2], v))
  /\ UNCHANGED <<stage, ck, circuit, config, arith1>>

Next ==
  \/ Preprocess \/ GenerateKeys \/ Iterate \/ GenerateKeys1 \/ GenerateKeys2 \/ Prove

\* generate_keys is one call, and runs until it returns
Spec == Init /\ [][Next]_vars /\ WF_vars(Iterate)

-----------------------------------------------------------------------------
TypeOK ==
  /\ stage \in Stages
  /\ ck \in Nat \X Nat
  /\ circuit \in Circuits
  /\ config \in Configs /\ config.n_witnesses \in Nat
  /\ arith1 \in Ariths \cup {NoR1CS}
  /\ tooLong \in BOOLEAN

\* Keys that generate_keys returned never let prove down: the commitments to the
\* witnesses and to the cross terms fit both Pedersen keys.
CommitmentsFit == ~tooLong

\* The fixed point: the circuit that prove synthesizes, with the configuration that
\* the decider key reports, is the one whose R1CS that key decides.
CircuitMatchesKey ==
  stage \in {"stable", "dk1", "ready"} => Augmented(circuit, Config(arith1)) = arith1

\* Nova's augmented circuit depends on the configuration only through the public
\* inputs of the dummy instances, of which it has the one it marks as public
FollowsPublicInputs(c) ==
  /\ \A cfg \in Configs : Augmented(c, cfg).l = 1
  /\ \A cfg1, cfg2 \in Configs :
       cfg1.n_public_inputs = cfg2.n_public_inputs => Augmented(c, cfg1) = Augmented(c, cfg2)

\* For such a circuit the loop ends with its second pass.
SecondPassSettles ==
  [][stage = "loop" /\ config # DefaultConfig /\ FollowsPublicInputs(circuit)
       => stage' = "stable"]_vars

\* The loop ends, for circuits whose configuration settles.
LoopEnds == stage = "loop" ~> stage = "stable"
=============================================================================
