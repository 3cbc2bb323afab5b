# A TLA+ development of Sonobe

Sonobe is a library for folding schemes and incrementally verifiable
computation (IVC). A step circuit is run again and again; after every run the
prover holds a proof, of constant size, that the current state comes from the
initial one in that many satisfied steps. Three crates make it up:
`primitives` (fields, commitments, arithmetizations, transcripts, circuits),
`fs` (folding schemes: Nova) and `ivc` (the CycleFold-based compiler from a
folding scheme to IVC).

There are no threads, nothing is persisted and nothing goes over a network.
What is hard here is *sequences of calls*: every step trusts running instances,
hashes and challenges computed in earlier steps, by three parties (prover,
verifier, circuit) that repeat one another's computation in different code; and
the user may hand any call any arguments, including a proof put together from
pieces of others. A unit test runs one honest sequence.

## Inventory

| component | source | state | operations | what makes it correct |
|---|---|---|---|---|
| IVC compiler | `ivc/src/compilers/cyclefold/{mod,circuits}.rs` | none of its own: keys and proofs travel through the user | `prove`, `verify`, `compute_next_state` | nothing false is accepted, whatever `prove` was given; honest extensions verify; a proof speaks for one statement |
| key generation | same, `fs/src/nova/algorithms/{preprocessor,key_generator}.rs` | configuration of the circuit while the loop runs | `preprocess`, `generate_keys` | the loop ends; the key holds the R1CS of the circuit `prove` runs; accepted keys are long enough |
| IVC trait, stateful prover | `ivc/src/lib.rs` | `i`, initial and current state, proof | `new`, `prove_step` | the kept proof verifies as long as the steps were satisfied; a failed step changes nothing |
| Nova | `fs/src/nova` | running pair, transcript | `prove`, `verify`, gadget's `verify` and `verify_hinted`, sampling, deciding | completeness over any series of folds; the three parties agree; soundness error |
| CycleFold adapter | `ivc/.../adapters/nova.rs` | none | `to_cyclefold_circuits`, `to_cyclefold_inputs`, `verify_point_rlc` | the public inputs of the secondary circuits are those the augmented circuit derives, and hints are pinned down by them |
| fold definitions | `fs/src/definitions` | none | traits, newtypes | - |
| transcripts | `primitives/src/transcripts` | sponge state, mode, recorded challenges | `add`, `get_*`, `challenge_*`, `separate_domain`, record, replay | value and variable in lockstep; challenges independent of how a message is cut, bound to all of it and apart between domains |
| Griffin | `primitives/src/transcripts/griffin/mod.rs` | parameters, permuted state | `GriffinParams::new`, `hash`, gadget | a permutation; the gadget's wires carry the native state |
| Poseidon | `primitives/src/transcripts/poseidon` | - | calls of arkworks | - |
| Pedersen | `primitives/src/commitments` | generators | `generate_key`, `commit`, `open`, gadget | homomorphic; refuses messages longer than the key; opens alike in the circuit |
| arithmetizations | `primitives/src/arithmetizations` | matrices and sizes | `new`, loading, `validate`, `config`, `evaluate`, relations, gadget | no index out of range; gadget and code agree; at most one error term fits |
| circuits | `primitives/src/circuits` | constraint system | `FCircuit`, extractors, `mark_as_public` | structure and assignments extracted apart fit each other |
| emulated fields | `primitives/src/algebra/field/emulated.rs` | limbs and bounds | arithmetic, reduction, comparison, equality, selection, absorption | no limb leaves its bounds; hints are forced; equality is equality of integers |
| curve points | `primitives/src/algebra/group` | a value and two kinds of variable | allocation, absorption, publication | every form of one point is absorbed alike, and as no other point |
| algebra helpers | `primitives/src/algebra/ops` | none | bits, powers, polynomials, matrices, `rlc` | closed forms are what they stand for |

They interact by calls only: `prove` folds with the primary scheme on a
recorded transcript, builds CycleFold circuits from the replayed challenges,
folds those with the secondary scheme, synthesizes the augmented circuit (which
repeats both folds, and the transcript, in-circuit) and commits to the
assignments, which are the incoming pair of the next call. The hazards this
exposes the code to are listed in `PROJECT.json`, each at its line.

## The modules

**`StepCircuit`** declares step circuits: any function `StepOf` and any
constraints `Holds`. They are apart because `generate_step_constraints` computes
a next state whether or not the constraints it emits are satisfied. A key names
the circuit it was generated for. `Reachable` defines a true statement.

**`IVC`** is the abstract specification, the promise of the `IVC` trait: the set
of statements with an accepted proof starts empty and grows one satisfied step
at a time, from an initial state or from a statement already in the set.

**`CycleFoldIVC`** is the compiler. The one variable is the list of `prove`
calls that returned `Ok`; call `n` also names the pairs it created, the incoming
pair it sampled and the two running pairs it folded; 0 names the dummy pairs.
`Prove` takes any key, circuit, counter, states and external input, and a proof
whose three parts may each come from another call. It follows the code: fold
what the proof holds unless `i = 0` (`NativeFold`, `FoldHolds`,
`CycleFoldHolds`), run the augmented circuit, which folds an instance with the
public input *it* derives (`CircuitFold`; an instance that is not the prover's
is called `Diverged`), hash, sample. `Verify` follows `verify` check by check.
Hashes are records, so injective; a fold of pairs that do not satisfy their
relation does not satisfy it either (`NovaFolding` shows for how few challenges
that fails). Where the code panics because vectors differ in length (pairs of
circuits of another size), the model records a call whose pair is not satisfied,
which allows the prover more than the code does. States have elements and a
shape, since only the elements are hashed.

**`StatefulProver`** extends it with `IVCStatefulProver`: its fields, `new`,
`prove_step` when `prove` succeeds and when it fails.

**`NovaFolding`** is Nova over `Z_P` with an R1CS of one row: a user keeps a
running pair, folds sampled pairs into it, `(1,1)` or `(2,0)`, and has each fold
repeated by the verifier and the gadget, on transcripts of their own. Prover,
verifier and gadget each have operators translated from their own code, which is
what `VerifiersAgree` compares. Challenges are arbitrary; two parties have the
same one if their transcripts absorbed the same.

**`KeyGeneration`** is `preprocess`, the loop of `generate_keys` pass by pass,
Nova's length check for each curve, and the commitments of `prove`. The
augmented circuit is a constant operator from a configuration to an R1CS.

**`NovaCycleFold`** extends it with the adapter: each fold is turned into the
circuits to prove (`Circuits11`, `Circuits20`) and into the public inputs the
augmented circuit demands of their instances (`Inputs11`, `Inputs20`), where the
folded commitments, and the point that two circuits of a `(2,0)` fold share, are
hints. `pinned` collects which hints some provable instances would let pass.

**Sponges and transcripts** come in three layers. `Sponge` is the duplex sponge
of Griffin, `GriffinSponge` and the identical `GriffinSpongeVar`: `Add` and `Get`
start a call, the loops of `absorb_internal` and `squeeze_internal` run an
iteration a step. The permutation is free, so a state is the list of the rate
parts that were permuted, and two sponges that list the same blocks are the
same. To add nothing does nothing; to squeeze nothing does end the message.
`DuplexCalls` says what a whole call does, `SpongeCalls` is the specification in
which every call is one step, and `SpongeAtomic` maps the loops to it: while a
loop runs, the abstract sponge is already where the loop will leave it.
`Transcript` is built on `DuplexCalls`: the provided methods of the two traits
(`get_bits`, `challenge_*`, `separate_domain` with its chunks of a byte string),
`RecordingTranscript` and `ReplayTranscript`; a value and its variable go through
each call by definitions of their own. `calls` is a history, kept for the
properties.

**`LimbBounds`** and **`EmulatedInt`** are emulated integers. The first is
`struct Bounds` and the step of the loop that groups limbs; the second has an
action for every operation on `LimbedVar`: allocation, constants, sums,
differences, products and matrix rows, `modulo`, comparison, congruence, aligned
and unaligned equality (the latter a limb a step), selection. A variable carries
the integer it is *meant* to be. A hint is what the code computes plus a
`Tampering`, so that a prover may give wrong limbs; an action that the
constraints refuse says so in `verdict` and leaves no variable.

**`Griffin`**: `GriffinParams::new` draw by draw from a stream of any elements,
then `hash` and its gadget in lockstep, a chunk and a round at a time; the
gadget's root is any that satisfies its constraint.

**`R1CS`**: a structure is loaded (with or without validation) or extracted from
a constraint system that a circuit built by inputs, witnesses, constraints and
`mark_as_public` in any order; then evaluated, in code and by the gadget, at its
own or at any assignments. Panics and errors are outcomes.

**`Pedersen`**: keys, commitments and openings, where a point is the vector of
its coefficients over the key, as nobody knows a relation between generators.

**`Points`**: a point kept as a Jacobian value, as a homogeneous variable and as
a pair of emulated coordinates, on a curve small enough to list. **`Polynomials`**:
the closed forms of `algebra/ops`, each beside its definition.

`MC*` modules give the constants values; `*_proofs` hold the theorems.

## What is checked

| run | bounds | what it shows |
|---|---|---|
| `nova_completeness` | P = 3, R1CS `w*w = x`, hiding key, one blind value, 3 folds | honest pairs fold to honest pairs; the parties agree; the CycleFold circuits of every fold have the inputs the augmented circuit derives, and only the right commitments pass them. Three folds reach a running pair with non-zero error, folded again on either side |
| `nova_soundness` | P = 5, binding key, 1 fold | for every running pair reachable by sampling or one fold of anything, and every incoming pair, at most 2 of 5 challenges hide an unsatisfied input. A cheating prover needs P > 2 so that 2 is not all; at P = 5 the bound is attained |
| `ivc_promise` | 1 key, 2 elements, 3 calls, 3 steps | refinement of `IVC` and completeness. Three calls make a chain 1, 2, 3, and every mixture of two proofs continued |
| `ivc_keys` | 2 keys with one secondary key, 2 calls | soundness and binding with proofs mixed across keys |
| `ivc_shapes` | 2 shapes, 2 calls | soundness when regrouped states hash alike |
| `stateful_prover` | 2 keys and circuits, 2 shapes, 3 calls, failing inputs | the kept proof verifies only if every step was honest, and iff when the circuit is the key's |
| `stateful_prover_doc` | same | **violated**: see below |
| `key_generation` | 3 circuits, sizes up to 9 | fixed point, key lengths, two passes, termination |
| `sponge` | rate 2, bits, messages and answers of up to 5 elements per call, calls until 4 permutations | blocks and answers do not depend on the calls; loops end; refinement of `SpongeCalls`. A call spans three blocks, and starts at each index of either mode |
| `transcript` | 11 elements with 3 usable bits, bytes of a bit, lengths of two; rate 2; 3 transcripts, 6 calls | value and variable agree; a replay repeats the recording; domains are apart; answers bind what was absorbed and are never handed out twice. A domain spans two chunks, one call of 3 elements spans two states and stops in the middle of one |
| `emulated` | P = 101, limbs of 2 bits, integers modulo 7 | limbs stay within bounds, comparisons, equalities and hints are forced, and honest ones never refused. A product of two field elements has limbs close to the window of safe bounds, another product overflows it; 7 leaves the last limb half full; groups of one limb and of more occur, as do carries of either sign |
| `primitives` | see below | Griffin, R1CS, Pedersen, points, polynomials: code and circuit agree, and with the definition |

Three variables of `EmulatedInt` are two inputs and an operation on them, or one and
an operation on the result of another, and everything that can be enforced between
them. The tampered limbs include polynomials that vanish at one or two of the
points at which products are compared, which is what one point too few would let pass.

`primitives` runs five components side by side that share no state: a behaviour
belongs to the first that takes a step, so the run is the union of five small
ones. Its bounds: Griffin of widths 3, 4 and 8 with each power over five elements,
with and without debug assertions, arguments that `new` refuses, and messages of
up to three chunks; R1CS of up to two rows and three columns, dimensions that
underflow and matrices that do not fit included, and circuits of up to three
variables and two constraints; keys for up to three generators over
scalars modulo 3 given by three bits, so that a scalar has more than one
encoding; a curve of prime order 7 over five elements with every Jacobian
and homogeneous representation; domains and cosets of sizes 1, 2 and 4 over
13 elements and extensions of up to five values, which are padded to eight.

The step circuits of the `MC` modules count from 0 to 1; `"reset"` computes 0
against the constraints, so that a false statement exists at every counter; the
circuit of `k2` differs from that of `k1` from the second step on.
The constants named `Max...` are the only bounds. Where they stop a
behaviour the run does not check deadlock; nothing else in those modules waits.

Each property has a mutation of the model, named `Mut...` beside the definition it
replaces, under which TLC finds it violated: a wrong order of absorption, `rho`
where `rho^2` is due, a commitment that is never opened, a missing selection of
the dummy, a counter off by one, a state left out of the hash, a length check
that forgets the constraints, a loop that compares too little or never updates, bounds of a product that
forget the signs, a carry whose bounds are rounded outwards, a domain without its length, a challenge
that the variable does not absorb, a column let through by one.

**Fairness.** Only `KeyGeneration` states any: `WF_vars(Iterate)`. The loop is
the body of one call, and nothing else runs until the call returns. Whether it
ends depends on the circuit; `LoopEnds` shows it for circuits whose configuration
settles, as Nova's does. A circuit whose configuration oscillates would
keep it going, and nothing in the code prevents that.

**A divergence.** `prove` commits to the assignments of the augmented circuit
without checking that they satisfy it (`cyclefold/mod.rs:350`), so `prove_step`
returns `Ok` and moves on when the external inputs violate the step circuit's
constraints. The documentation of `current_proof` (`ivc/src/lib.rs:158`) says the
proof then attests the new state; in `stateful_prover_doc` it does not verify.
`ProofVerifiesIffHonest` says what is true instead. Its other half is about the circuit of the
key: another circuit, or states of another shape, lay out witnesses of their own, which may
not fit the key (`MayFail`) and, where they do, may satisfy its R1CS or not (`Satisfied`), but never
against the constraints.

## What is proved

For all values of the constants, under the named assumptions of the modules (a
step stays within the states, the shape of a key is a shape, an R1CS has the
constant 1, the fields of Nova, of the curve, of Griffin and of emulated integers are prime,
the last with two bits more than a limb, a byte fits an element,
two slices together are shorter than the word size,
constants and messages of Griffin are elements and the matrices of its widths are invertible,
which one of width `4 k` is unless the prime divides `k + 1`):

* `IVC_proofs`: nothing false is ever attested. The invariant is inductive once
  the type of the set is added; a run is extended by a step.
* `CycleFoldIVC_proofs`, of the compiler: `TypeOK`; `PromiseKept`; `Soundness`;
  `ProofBindsStatement`; `Completeness`. `TypeOK` contains `NamesExist` (what a call
  hashes and was given are names of earlier pairs, or its own), which makes it
  inductive and says that calls recorded earlier never change their verdict. Then a
  step either adds no accepted call, and stutters in `IVC`, or adds one. An accepted
  call was satisfied and folded accepted pairs, and its circuit agreed with the
  prover, so that the public input it was given is the hash of a statement already
  attested: `Extend`; in the base case: `Start`. Soundness follows from
  `PromiseIsSound` and the fact that what verifies is attested; binding from
  injectivity of the hash; completeness from `AllRecorded`, which says of every
  recorded call what `Prove` computed when it recorded it.
  Of the stateful prover: every behaviour of a prover is one of `CycleFoldIVC`,
  and `ProofVerifiesIffHonest`. It is not inductive: `Kept` adds that the kept
  proof is the one the last call returned, with the hash of the kept counter and
  states, and that its pairs are satisfied only if the run was honest, and exactly then if the
  circuit is that of the key.
* `NovaCycleFold_proofs`: `HonestFoldsHold`, `VerifiersAgree`, `FoldSoundness` and
  `DelegationExact`, over any prime field. `FoldInv` says that pairs and instances
  are made of field elements; equations between them are solved modulo `P` as
  congruences of integers. Soundness of a fold is that a polynomial of degree two, in
  the challenge, that is not zero has at most two roots, for which the field has to be
  prime. A step of the adapter is a step of Nova, so that all of it holds there too.
* `KeyGeneration_proofs`: `TypeOK`, `CommitmentsFit`, `CircuitMatchesKey`,
  `SecondPassSettles`. `Established` collects what each stage of key generation
  has established by then (the fixed point; the length of each key); `OneOfTwo`
  says which two configurations the loop can hold.
* `Sponge_proofs`: all properties of the run, for any rate and field.
  `RoomInv` (a loop never starts with the rate part used up) ends the loops.
  `AbsorbInv` and `SqueezeInv` say at every iteration what `CutInBlocks` and
  `AnswerInOrder` say between calls: how much of the message the state has
  absorbed, where the rest belongs, and that squeezing leaves the lanes alone.
  They carry the refinement, `CallsAreAtomic`, as well. The step that starts a loop
  is the whole call; each iteration has to be a stutter, that is, what the loop still
  does must be the same before it and after. The block an iteration fills is the first
  of those the call adds from there (`Filling`), and the lanes beyond the next one are
  zero, as in the padded block of the atomic call.
* `Transcript_proofs`: all properties of the run. Every element a sponge
  squeezes has a place, by the number of permutations before it and its lane, and
  `NextPlace` never goes back. `HistoryInv` adds to `VariableAgrees` that the answers
  of every history lie at different places, those of earlier calls before those of
  later ones and all before the next, as long as the transcript is not a replay
  (`AnswersFresh`). `Kept` is what a transcript keeps of its past: a recording has cached
  the challenges of its calls so far, in order; a replay has left, in reverse, those of its
  recording that its own calls have not taken; one that has panicked was asked for more than
  were left. Calls of the same shape take the same pieces of one list (`SameServed`), which is
  `ReplaysRecording`.
  For `DomainsApart` and `AnswersBind` the invariant is `LeadInv`: the sponge of every
  transcript is at the end of a path of sponges, one call leading from each to the next.
  `Allows` says of every position in what a sponge has taken in what stands or may yet come
  to stand there: what is there already, or else a number or an element squeezed later on.
  Along a path less and less is allowed (`PathGrows`). Two sponges are `Apart` if at some
  position they allow nothing in common; they stay apart (`StayApart`), and squeeze no common
  element (`ElementsDiffer`), because every state spells all that was put in (`StateSpells`).
  So it is enough that calls which differ part the sponges they start from (`LeadsApart`):
  two messages of one length differ at an element, and two domains, each behind its own
  length, at a byte, therefore in a chunk (`EncodingsDiffer`, `DomainsDiffer`), for a chunk is
  shorter than the modulus and is its bytes in base `2 ^ ByteBits` (`NumbersDiffer`).
* `EmulatedInt_proofs`: bounds of sums, products and quotients hold what they should;
  an integer within safe bounds is known by its residue (`SafeIsFaithful`) and read
  back by `compose` (`SignedOfField`); `CarryWithinGroup`, for any field, limb size and
  bounds. `Grouping` is the invariant of the loop: the group of the limbs seen so far is
  `Sound`, that is, narrower than the field, with the shifted bounds of the carry within its
  own; between calls there is no group. `CarryIsQuotient` is why that is enough.
  `ValuesExact` and `ComparisonsForced` follow from `StoreKept`: every variable is `Exact` (its
  limbs lie within their bounds and compose to its integer), and an aligned one is `Regular` (its
  limbs are the digits of its integer, all with the integer's sign, and their bounds are those
  of a digit). A limb within safe bounds is an integer and not only a residue, so that the limbs of
  sums and products are sums and products of integers, and what they compose to is told by the
  weights (`Convolution`, `ProductMakesUp`). That the evaluations force a product
  (`EvaluationsForce`): the difference of two vectors of limbs is a polynomial with as many
  roots as it has limbs, and a field has no more roots than that (`NoMoreRoots`). That
  `enforce_lt` is right: of regular variables the highest digit that differs decides
  (`Lexicographic`); a helper can choose only that one, and its limb less one would be a large
  residue if it were not positive (`LtSound`); the room is the two bits. A range check
  compares with constants, and those comparisons never overflow (`ComparableWithConstant`).
  `NoneRefused` needs that the loop of `enforce_equal_unaligned` gets through a difference that
  is zero: the sum of the limbs up to each is then a multiple of the weight of the next
  (`QuotientsExist`), the carry is that multiple modulo the prime, since the base has an
  inverse (`InverseOfBase`), and it stays within bounds that are rounded inwards (`NextCarry`);
  `LoopKept` says so of every turn of the loop.
  `ClearCallsForced` is the converse, soundness for any hints: a group stands for an integer
  `t`, the difference of the limbs before it, in that its carry times its unit is `t` modulo the
  prime (`GroupIs`). A carry that passes the check is then the only one with that residue if the
  group is `ToldApart`, so `t` is a multiple of the unit and the carry its quotient (`GroupEnds`),
  and what is left of the last one is zero. `LoopGroups` says so of the loop, which works one limb
  at a time; `enforce_congruent` and `modulo` are an equality for quotients within their bounds.
  Every group is told apart that, counted twice, fits the field (`RoomTellsApart`). A quotient lies within the bounds that
  `modulo` and `enforce_congruent` compute from those of the limbs (`IntWithin`).
* `Primitives_proofs`, of components that share no state.
  R1CS: `EvaluationSafe`, `EvaluationsAgree`, `ExtractionExact` and `RelaxationExact`, for
  structures, circuits and assignments of any size. No structure with `n <= l` is ever evaluated,
  wherever it came from: `n - l - 1` panics or wraps to more elements than there can
  be. `ExtractInv` says that a validated or extracted structure is `Sound` (all rows there, all columns within `n`), for extracted ones
  because the constraints of a system mention allocated variables only, which survives
  later allocations though they renumber the columns of witnesses; `ValueInv` that
  assignments and evaluations are of field elements.
  Pedersen: `OpeningsExact`, for keys, messages and scalars of any length; of a message longer
  than the key, which `open` refuses, the circuit sees as much as the key has generators for. Points:
  `PointsAgree`, over any odd prime field: the Jacobian and the homogeneous form stand for one
  affine point after every operation, and a point that is added stays on the curve, which
  is the argument about a line and its third point with the curve, done by hand.
  Griffin: `HashGadgetAgrees` and `PermuteIsInjective`, the latter of all states (`StatesKept`)
  where the run takes samples, over any prime field and for any width,
  number of rounds, constants and message. The gadget takes any root that satisfies its constraint;
  there is but one because `y ^ (P - 1)` is 1 (`Fermat`, by dividing what is not zero into orbits
  of one size) and the exponents of `new` are inverses modulo `P - 1` (`RootOfPower`). The sums
  of the code are the rows of the gadget's matrix block by block (`LayersAgree`).
  `GriffinInv` says which parameters are made when, and that wires and state are one state.
  Injectivity goes layer by layer: differences of sums tell the words (`LinearLeaves`), and a word
  is multiplied by a factor that is not zero and that words before it determine, if its pair is
  good (`NonLinearLeaves`). `PairsInv` says that no pair repeats an element, and with it that a
  multiple `i` of a good pair is good: `i` is not zero in the field, for else both were zero
  and would have been drawn again (`ScaledIsGood`).
  Sums and powers are recursive functions: what they compute is shown by the least
  argument at which they would not, since `<` is well-founded.

The attempt to prove `AnswersBind` showed that it was false as first stated, of replays, where the
bounds of the run do not reach: a replay absorbs nothing, so that two that are separated by domains of
one length and asked the same answer the same. It is now stated of transcripts that were not
replayed; what a replay answers is the subject of `ReplaysRecording`.

Only model-checked: `AbsorbsAlike` of emulated integers, and `HintsForced` of them in general;
polynomials; and the liveness property `LoopEnds` (liveness under fairness is not something
the proof system handles).
Of `HintsForced`, products and aligned equality are proved outright, and equality of grouped limbs,
congruence and reduction wherever the carries of the call's groups are told apart
(`ClearCallsForced`). This is not so in every field: `enforce_equal_unaligned` checks a carry by the
number of its bits, which admits up to twice as many carries as the bounds have, and in a field
that the bounds of a group fill by more than half, such a carry could stand for another quotient
modulo the prime. In the run it is so of every equality that gets through the loop, but not of every
congruence and reduction, whose groups fill a field as small as the run's; that these are forced
all the same is what the run shows of them.
`AbsorbsAlike` compares the number of bits of a variable, from the bounds of its last limb, with
that of the modulus: whether both make the same number of elements depends on the moduli.
The types of `CycleFoldIVC` are proved and not run.

## How the modules build on each other

`StepCircuit` <- `IVC`, `CycleFoldIVC` (implements `IVC`) <- `StatefulProver`;
`NovaFolding` <- `NovaCycleFold`; `DuplexCalls` <- `SpongeCalls`, `Transcript`;
`Sponge` <- `SpongeAtomic` (implements `SpongeCalls`); `LimbBounds` <- `EmulatedInt`;
`KeyGeneration`, `Griffin`, `R1CS`, `Pedersen`, `Points` and `Polynomials` stand alone,
the last five joined in `MCPrimitives`. What one layer takes for granted another shows:
that folds preserve satisfaction (`CycleFoldIVC` assumes it, `FoldsAreComplete` and `FoldsAreSound`
prove it of Nova), that the circuit's fold is the prover's (`VerifiersFollow`, `DelegationIsExact`),
that calls of a sponge are atomic (`SpongeIsAtomic`), that the elements of points in and out of
circuits are the same (`PointsAlwaysAgree`), that a permutation permutes (`PermutationsKeepStates`);
that numbers in and out of circuits are the same (`ValuesStayExact`).

What would come next: the equalities of emulated integers as a theorem, with the fields it holds
of; the
decider of the relaxed relation in a circuit when the code has it, and the `Decider`
once it is implemented.

## Not modelled

Serialisation and byte formats; curve arithmetic and fast multiplication beyond the
textbook definitions; the Poseidon sponges, which are calls of arkworks; `rlc.rs`, which
nothing else uses; the traits of `fs/src/definitions`, which have no control of their
own; the `Decider` trait (work in progress, no implementation); facade crate, examples,
build files. Randomness is nondeterministic choice; that hashes do not collide, that
commitments bind and that nobody knows a relation between generators is assumed.

Of `GriffinParams::new` without debug assertions, parameters with a pair that was drawn again:
nothing says such a pair is good, and `PermuteIsInjective` leaves them out (`AllScaled`).

Two edges of `emulated.rs` lie outside the model. Selection and aligned equality refuse variables
whose limbs have unequal bounds, and `modulo` asks for `[0, m]` where an allocated element has
`[0, m - 1]`: whether the two agree limb for limb depends on the bits of the modulus (they do
unless `m - 1` is a multiple of the weight of the last limb). And `modulo` and
`enforce_congruent` allocate their hints in the constraint system of `self` alone; the relations in
circuits only compare computed variables with a constant zero, in that order.
