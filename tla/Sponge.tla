-------------------------------- MODULE Sponge --------------------------------
(***************************************************************************)
(* The duplex sponge of crates/primitives/src/transcripts/griffin/         *)
(* sponge.rs, GriffinSponge, and GriffinSpongeVar, which repeats it        *)
(* statement by statement in the circuit.                                  *)
(*                                                                         *)
(* The permutation is free: a permuted state is known by the rate parts    *)
(* that went into it, one block per permutation, and all that is kept of   *)
(* the rate part is what was added since.  The capacity part is never      *)
(* written but by the permutation.  The loops of absorb_internal and       *)
(* squeeze_internal run one iteration a step, between which nothing else   *)
(* happens.                                                                *)
(***************************************************************************)
EXTENDS Integers, Sequences

CONSTANTS
  Rate,
  Elements, Zero, Plus(_, _),   \* field elements and their addition
  Messages,                     \* what a call may add, sequences of elements
  MaxGet,                       \* bound on the elements a call may squeeze
  MaxBlocks                     \* bound on the permutations before a call

ASSUME RateAssumption == Rate \in Nat \ {0}
ASSUME ElementAssumption ==
  /\ Zero \in Elements
  /\ \A a, b \in Elements : Plus(a, b) \in Elements
  /\ \A a \in Elements : Plus(Zero, a) = a
ASSUME CallAssumption == Messages \subseteq Seq(Elements) /\ MaxGet \in Nat /\ MaxBlocks \in Nat

VARIABLES
  mode, index,   \* DuplexSpongeMode, with its next_absorb_index or next_squeeze_index
  lanes,         \* what was added to the rate part since the last permutation
  blocks,        \* the rate parts that were permuted
  doing,         \* the loop that runs, or "nothing" between calls
  start,         \* its rate_start_index
  rest,          \* remaining_elements of absorb_internal
  wanted,        \* length of output_remaining of squeeze_internal
  \* History of the last message, the elements added since the last squeeze, and of
  \* its answer, the elements squeezed since the last message
  message, answer,
  from, after    \* number of permutations before the message, and before the answer

sponge == <<mode, index, lanes, blocks>>
loop == <<doing, start, rest, wanted>>
history == <<message, answer, from, after>>
vars == <<sponge, loop, history>>

Lanes == [1 .. Rate -> Elements]
NoLanes == [j \in 1 .. Rate |-> Zero]

\* new
Init ==
  /\ mode = "absorbing" /\ index = 0
  /\ lanes = NoLanes /\ blocks = <<>>
  /\ doing = "nothing" /\ start = 0 /\ rest = <<>> /\ wanted = 0
  /\ message = <<>> /\ answer = <<>> /\ from = 0 /\ after = 0

Permute == blocks' = Append(blocks, lanes) /\ lanes' = NoLanes

Added(at, elements) ==
  [j \in 1 .. Rate |->
     IF j \in at + 1 .. at + Len(elements) THEN Plus(lanes[j], elements[j - at]) ELSE lanes[j]]

\* An element that is squeezed: of which permuted state, which one, and with what added
Squeezed(at, n) ==
  [j \in 1 .. n |-> [state |-> Len(blocks), lane |-> at + j, plus |-> lanes[at + j]]]

(***************************************************************************)
(* add_field_elements and absorb_internal                                  *)
(***************************************************************************)
\* Mutant: every call starts at the first lane
MutAdd(elements) ==
  /\ doing = "nothing" /\ elements # <<>> /\ Len(blocks) < MaxBlocks
  /\ doing' = "absorbing" /\ rest' = elements /\ start' = 0
  /\ IF mode = "absorbing"
     THEN message' = message \o elements /\ UNCHANGED from
     ELSE message' = elements /\ from' = Len(blocks)
  /\ UNCHANGED <<mode, index, lanes, blocks, wanted, answer, after>>

\* Mutant: a full rate part is not permuted first, and no element fits any more
MutAddFull(elements) ==
  /\ doing = "nothing" /\ elements # <<>> /\ Len(blocks) < MaxBlocks
  /\ doing' = "absorbing" /\ rest' = elements
  /\ start' = IF mode = "absorbing" THEN index ELSE 0
  /\ IF mode = "absorbing"
     THEN message' = message \o elements /\ UNCHANGED from
     ELSE message' = elements /\ from' = Len(blocks)
  /\ UNCHANGED <<mode, index, lanes, blocks, wanted, answer, after>>

\* To add nothing does nothing
Add(elements) ==
  /\ doing = "nothing" /\ elements # <<>> /\ Len(blocks) < MaxBlocks
  /\ doing' = "absorbing" /\ rest' = elements
  /\ IF mode = "absorbing" /\ index = Rate
     THEN Permute
     ELSE UNCHANGED <<blocks, lanes>>
  /\ start' = IF mode = "absorbing" /\ index < Rate THEN index ELSE 0
  /\ IF mode = "absorbing"
     THEN message' = message \o elements /\ UNCHANGED from
     ELSE message' = elements /\ from' = Len(blocks)
  /\ UNCHANGED <<mode, index, wanted, answer, after>>

\* Fill up the block, and permute
AbsorbBlock ==
  /\ doing = "absorbing" /\ start + Len(rest) > Rate
  /\ LET n == Rate - start
     IN  /\ blocks' = Append(blocks, Added(start, SubSeq(rest, 1, n)))
         /\ rest' = SubSeq(rest, n + 1, Len(rest))
  /\ lanes' = NoLanes /\ start' = 0
  /\ UNCHANGED <<mode, index, doing, wanted, history>>

\* What is left fits
AbsorbRest ==
  /\ doing = "absorbing" /\ start + Len(rest) <= Rate
  /\ lanes' = Added(start, rest)
  /\ mode' = "absorbing" /\ index' = start + Len(rest)
  /\ doing' = "nothing" /\ rest' = <<>>
  /\ UNCHANGED <<blocks, start, wanted, history>>

(***************************************************************************)
(* get_field_elements and squeeze_internal                                 *)
(***************************************************************************)
Get(n) ==
  /\ doing = "nothing" /\ Len(blocks) < MaxBlocks
  /\ doing' = "squeezing" /\ wanted' = n
  /\ IF mode = "absorbing" \/ index = Rate
     THEN Permute
     ELSE UNCHANGED <<blocks, lanes>>
  /\ start' = IF mode = "squeezing" /\ index < Rate THEN index ELSE 0
  /\ IF mode = "absorbing"
     THEN answer' = <<>> /\ after' = Len(blocks) + 1
     ELSE UNCHANGED <<answer, after>>
  /\ UNCHANGED <<mode, index, rest, message, from>>

\* Mutant: the rest is taken from the same state
MutSqueezeBlock ==
  /\ doing = "squeezing" /\ start + wanted > Rate
  /\ LET n == Rate - start
     IN  answer' = answer \o Squeezed(start, n) /\ wanted' = wanted - n
  /\ start' = 0
  /\ UNCHANGED <<sponge, doing, rest, message, from, after>>

\* All that is left of the state, and permute
SqueezeBlock ==
  /\ doing = "squeezing" /\ start + wanted > Rate
  /\ LET n == Rate - start
     IN  answer' = answer \o Squeezed(start, n) /\ wanted' = wanted - n
  /\ IF wanted' # 0 THEN Permute ELSE UNCHANGED <<blocks, lanes>>
  /\ start' = 0
  /\ UNCHANGED <<mode, index, doing, rest, message, from, after>>

\* Mutant: the index of the last element, counted from one past it
MutSqueezeRest ==
  /\ doing = "squeezing" /\ start + wanted <= Rate
  /\ answer' = answer \o Squeezed(start, wanted)
  /\ mode' = "squeezing" /\ index' = start + wanted + 1
  /\ doing' = "nothing" /\ wanted' = 0
  /\ UNCHANGED <<blocks, lanes, start, rest, message, from, after>>

SqueezeRest ==
  /\ doing = "squeezing" /\ start + wanted <= Rate
  /\ answer' = answer \o Squeezed(start, wanted)
  /\ mode' = "squeezing" /\ index' = start + wanted
  /\ doing' = "nothing" /\ wanted' = 0
  /\ UNCHANGED <<blocks, lanes, start, rest, message, from, after>>

Next ==
  \/ \E elements \in Messages : Add(elements)
  \/ \E n \in 0 .. MaxGet : Get(n)
  \/ AbsorbBlock \/ AbsorbRest \/ SqueezeBlock \/ SqueezeRest

Spec == Init /\ [][Next]_vars

-----------------------------------------------------------------------------
Outputs == [state : Nat, lane : 1 .. Rate, plus : Elements]

\* Indices stay within the rate part: the code indexes state[capacity + index].
TypeOK ==
  /\ mode \in {"absorbing", "squeezing"} /\ index \in 0 .. Rate
  /\ lanes \in Lanes /\ blocks \in Seq(Lanes)
  /\ doing \in {"nothing", "absorbing", "squeezing"} /\ start \in 0 .. Rate
  /\ rest \in Seq(Elements) /\ wanted \in Nat
  /\ message \in Seq(Elements) /\ answer \in Seq(Outputs)
  /\ from \in Nat /\ after \in Nat

\* The blocks of the message, with the one that is being filled
NBlocks == IF mode = "absorbing" THEN Len(blocks) - from + 1 ELSE after - from
Block(b) == IF from + b <= Len(blocks) THEN blocks[from + b] ELSE lanes

\* However a message is cut into calls of add, and whatever came before it, the sponge
\* absorbs it in the same way: in blocks of Rate elements, the last one padded with
\* zeros and permuted only when an element or a squeeze is still to come.
CutInBlocks ==
  doing = "nothing" =>
    /\ \/ (NBlocks - 1) * Rate < Len(message) /\ Len(message) <= NBlocks * Rate
       \/ message = <<>> /\ NBlocks = 1
    /\ \A b \in 1 .. NBlocks, j \in 1 .. Rate :
         Block(b)[j] = IF (b - 1) * Rate + j <= Len(message)
                       THEN message[(b - 1) * Rate + j] ELSE Zero

\* However squeezing is cut into calls, the elements of an answer come from the states
\* that follow the message one after the other, each lane once and in order, and with
\* nothing added in between.
AnswerInOrder ==
  doing = "nothing" /\ mode = "squeezing" =>
    /\ Len(answer) = (Len(blocks) - after) * Rate + index
    /\ \A b \in 0 .. Len(blocks) - after, j \in 1 .. Rate :
         b * Rate + j <= Len(answer) =>
           answer[b * Rate + j] = [state |-> after + b, lane |-> j, plus |-> Zero]

\* The loops of absorb_internal and squeeze_internal end: every iteration leaves less to
\* do.  That needs room in the rate part whenever a loop starts, which is the case only
\* because the calls permute a rate part that an earlier call has used up.
LoopsProgress ==
  [][doing # "nothing" =>
       doing' = "nothing" \/ Len(rest') + wanted' < Len(rest) + wanted]_vars
=============================================================================
