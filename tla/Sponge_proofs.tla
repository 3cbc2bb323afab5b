---------------------------- MODULE Sponge_proofs ----------------------------
(***************************************************************************)
(* What Sponge promises holds for every rate, field, and sequence of       *)
(* calls.  The inductive invariant says of every iteration of the loops    *)
(* what CutInBlocks and AnswerInOrder say between calls: how much of the   *)
(* message is absorbed, and where the part that is left belongs.           *)
(*                                                                         *)
(* With it the loops are shown to implement calls that take effect at      *)
(* once: a block that an iteration fills is the first of those that the    *)
(* whole call adds.                                                        *)
(***************************************************************************)
EXTENDS SpongeAtomic, TLAPS

Absorbing == doing = "absorbing" \/ (doing = "nothing" /\ mode = "absorbing")
Squeezing == doing = "squeezing" \/ (doing = "nothing" /\ mode = "squeezing")

\* The next lane, the elements of the message in the state, and the blocks they filled
Pos == IF doing = "nothing" THEN index ELSE start
Absorbed == Len(message) - Len(rest)
Full == Len(blocks) - from

\* A loop never starts with the rate part used up, nor absorbs nothing.
RoomInv ==
  /\ doing # "nothing" => start < Rate
  /\ doing = "absorbing" <=> rest # <<>>

AbsorbInv ==
  Absorbing =>
    /\ from <= Len(blocks)
    /\ Absorbed = Full * Rate + Pos
    /\ \A k \in 1 .. Len(rest) : rest[k] = message[Absorbed + k]
    /\ \A b \in 1 .. Full, j \in 1 .. Rate : blocks[from + b][j] = message[(b - 1) * Rate + j]
    /\ \A j \in 1 .. Rate : lanes[j] = IF j <= Pos THEN message[Full * Rate + j] ELSE Zero
    /\ doing = "nothing" /\ Pos = 0 => message = <<>> /\ Full = 0

\* The blocks of a message that the sponge has been squeezed after
MessageCut ==
  /\ from < after /\ after <= Len(blocks)
  /\ \/ (after - from - 1) * Rate < Len(message) /\ Len(message) <= (after - from) * Rate
     \/ message = <<>> /\ after - from = 1
  /\ \A b \in 1 .. after - from, j \in 1 .. Rate :
       blocks[from + b][j] = IF (b - 1) * Rate + j <= Len(message)
                             THEN message[(b - 1) * Rate + j] ELSE Zero

SqueezeInv ==
  Squeezing =>
    /\ MessageCut
    /\ lanes = NoLanes
    /\ Len(answer) = (Len(blocks) - after) * Rate + Pos
    /\ \A b \in 0 .. Len(blocks) - after, j \in 1 .. Rate :
         b * Rate + j <= Len(answer) =>
           answer[b * Rate + j] = [state |-> after + b, lane |-> j, plus |-> Zero]

IInv == TypeOK /\ RoomInv /\ AbsorbInv /\ SqueezeInv

-----------------------------------------------------------------------------
\* The blocks a multiple of the rate counts: the products of the arithmetic below.
LEMMA OneMoreBlock ==
  ASSUME NEW q \in Nat
  PROVE  q * Rate \in Nat /\ (q + 1) * Rate = q * Rate + Rate
  BY RateAssumption

LEMMA WithinBlocks ==
  ASSUME NEW q \in Nat, NEW b \in 1 .. q, NEW j \in 1 .. Rate
  PROVE  (b - 1) * Rate + j \in 1 .. q * Rate
<1>1. PICK d \in Nat : q = b + d
  <2>1. q - b \in Nat /\ q = b + (q - b)
    OBVIOUS
  <2> QED BY <2>1
<1>2. (b - 1) \in Nat /\ (b - 1) * Rate \in Nat /\ d * Rate \in Nat
  BY RateAssumption
<1>3. q * Rate = (b - 1) * Rate + Rate + d * Rate
  BY <1>1, <1>2, RateAssumption
<1> QED BY <1>2, <1>3, RateAssumption

LEMMA PermuteType == ASSUME TypeOK, Permute PROVE lanes' \in Lanes /\ blocks' \in Seq(Lanes)
  BY RateAssumption, ElementAssumption DEF TypeOK, Permute, NoLanes, Lanes

LEMMA AddedType ==
  ASSUME TypeOK, NEW at \in 0 .. Rate, NEW elements \in Seq(Elements)
  PROVE  Added(at, elements) \in Lanes
<1> SUFFICES ASSUME NEW j \in 1 .. Rate, j \in at + 1 .. at + Len(elements)
             PROVE  Plus(lanes[j], elements[j - at]) \in Elements
  BY RateAssumption DEF TypeOK, Added, Lanes
<1>1. j - at \in 1 .. Len(elements) /\ lanes[j] \in Elements
  BY RateAssumption DEF TypeOK, Lanes
<1> QED BY <1>1, ElementAssumption

LEMMA SqueezedType ==
  ASSUME TypeOK, NEW at \in 0 .. Rate, NEW n \in Nat, at + n <= Rate
  PROVE  Squeezed(at, n) \in Seq(Outputs) /\ Len(Squeezed(at, n)) = n
<1>1. Squeezed(at, n) \in [1 .. n -> Outputs]
  BY RateAssumption DEF TypeOK, Squeezed, Outputs, Lanes
<1> QED BY <1>1

LEMMA SpongeTypeStep == ASSUME TypeOK, RoomInv, [Next]_vars PROVE TypeOK' /\ RoomInv'
<1> USE RateAssumption DEF TypeOK, RoomInv
<1>1. ASSUME NEW elements \in Messages, Add(elements) PROVE TypeOK' /\ RoomInv'
  <2>1. elements \in Seq(Elements)
    BY CallAssumption
  <2>2. lanes' \in Lanes /\ blocks' \in Seq(Lanes)
    BY <1>1, PermuteType DEF Add
  <2>3. message' \in Seq(Elements) /\ from' \in Nat
    <3>1. message \o elements \in Seq(Elements) /\ Len(blocks) \in Nat
      BY <2>1
    <3> QED BY <1>1, <2>1, <3>1 DEF Add
  <2>4. start' \in 0 .. Rate /\ start' < Rate
    BY <1>1 DEF Add
  <2> QED BY <1>1, <2>1, <2>2, <2>3, <2>4 DEF Add
<1>2. ASSUME NEW n \in 0 .. MaxGet, Get(n) PROVE TypeOK' /\ RoomInv'
  <2>1. lanes' \in Lanes /\ blocks' \in Seq(Lanes)
    BY <1>2, PermuteType DEF Get
  <2>2. start' \in 0 .. Rate /\ start' < Rate
    BY <1>2 DEF Get
  <2>3. answer' \in Seq(Outputs) /\ after' \in Nat
    <3>1. <<>> \in Seq(Outputs) /\ Len(blocks) + 1 \in Nat
      OBVIOUS
    <3> QED BY <1>2, <3>1 DEF Get
  <2> QED BY <1>2, <2>1, <2>2, <2>3, CallAssumption DEF Get
<1>3. CASE AbsorbBlock
  <2> DEFINE n == Rate - start
  <2>1. n \in Nat /\ n < Len(rest)
    BY <1>3 DEF AbsorbBlock
  <2>2. SubSeq(rest, 1, n) \in Seq(Elements) /\ Len(SubSeq(rest, 1, n)) = n
    BY <2>1
  <2>3. rest' \in Seq(Elements) /\ rest' # <<>>
    <3>1. rest' = SubSeq(rest, n + 1, Len(rest))
      BY <1>3 DEF AbsorbBlock
    <3>2. rest' \in Seq(Elements) /\ Len(rest') = Len(rest) - n
      BY <2>1, <3>1
    <3>3. Len(rest') # 0 /\ Len(<<>>) = 0
      BY <2>1, <3>2
    <3>4. rest' # <<>>
      BY <3>3, Zenon
    <3> QED BY <3>2, <3>4
  <2>4. blocks' \in Seq(Lanes)
    <3> DEFINE head == SubSeq(rest, 1, n)
    <3>1. Added(start, head) \in Lanes
      <4>1. head \in Seq(Elements) /\ start \in 0 .. Rate
        BY <2>2
      <4> HIDE DEF head
      <4> QED BY <4>1, AddedType
    <3>2. blocks' = Append(blocks, Added(start, head))
      BY <1>3 DEF AbsorbBlock
    <3>3. Append(blocks, Added(start, head)) \in Seq(Lanes)
      BY <3>1
    <3> QED BY <3>2, <3>3
  <2>5. lanes' \in Lanes
    BY <1>3, ElementAssumption DEF AbsorbBlock, NoLanes, Lanes
  <2> QED BY <1>3, <2>3, <2>4, <2>5 DEF AbsorbBlock, history
<1>4. CASE AbsorbRest
  <2>1. lanes' \in Lanes
    BY <1>4, AddedType DEF AbsorbRest
  <2> QED BY <1>4, <2>1 DEF AbsorbRest, history
<1>5. CASE SqueezeBlock
  <2> DEFINE n == Rate - start
  <2>1. n \in Nat /\ n < wanted
    BY <1>5 DEF SqueezeBlock
  <2>2. Squeezed(start, n) \in Seq(Outputs)
    BY <2>1, SqueezedType
  <2>3. answer' \in Seq(Outputs) /\ wanted' \in Nat
    BY <1>5, <2>1, <2>2 DEF SqueezeBlock
  <2>4. lanes' \in Lanes /\ blocks' \in Seq(Lanes)
    BY <1>5, PermuteType DEF SqueezeBlock
  <2> QED BY <1>5, <2>3, <2>4 DEF SqueezeBlock
<1>6. CASE SqueezeRest
  <2>1. Squeezed(start, wanted) \in Seq(Outputs)
    BY <1>6, SqueezedType DEF SqueezeRest
  <2>2. answer' \in Seq(Outputs)
    BY <1>6, <2>1 DEF SqueezeRest
  <2> QED BY <1>6, <2>2 DEF SqueezeRest
<1>7. CASE UNCHANGED vars
  BY <1>7 DEF vars, sponge, loop, history
<1> QED BY <1>1, <1>2, <1>3, <1>4, <1>5, <1>6, <1>7 DEF Next

LEMMA SpongeTypeInit == Init => TypeOK /\ RoomInv
  BY RateAssumption, ElementAssumption DEF Init, TypeOK, RoomInv, NoLanes, Lanes

\* No call ever reads or writes beyond the rate part of the state.
THEOREM SpongeTypes == Spec => []TypeOK
<1>1. Spec => [](TypeOK /\ RoomInv)
  BY SpongeTypeInit, SpongeTypeStep, PTL DEF Spec
<1> QED BY <1>1, PTL

\* The loops of absorb_internal and squeeze_internal end, for any rate and any call.
THEOREM SpongeLoopsEnd == Spec => LoopsProgress
<1> DEFINE Progress == doing # "nothing" =>
                         doing' = "nothing" \/ Len(rest') + wanted' < Len(rest) + wanted
<1>1. TypeOK /\ RoomInv /\ [Next]_vars => [Progress]_vars
  <2> SUFFICES ASSUME TypeOK, RoomInv, Next, doing # "nothing", doing' # "nothing"
               PROVE  Len(rest') + wanted' < Len(rest) + wanted
    OBVIOUS
  <2> DEFINE n == Rate - start
  <2>1. n \in Nat /\ n > 0
    BY RateAssumption DEF TypeOK, RoomInv
  <2>2. CASE AbsorbBlock
    <3>1. n < Len(rest) /\ rest' = SubSeq(rest, n + 1, Len(rest)) /\ wanted' = wanted
      BY <2>2, RateAssumption DEF AbsorbBlock, TypeOK
    <3>2. Len(rest') = Len(rest) - n
      BY <2>1, <3>1 DEF TypeOK
    <3> QED BY <2>1, <3>1, <3>2 DEF TypeOK
  <2>3. CASE SqueezeBlock
    BY <2>1, <2>3, RateAssumption DEF SqueezeBlock, TypeOK
  <2> QED BY <2>2, <2>3 DEF Next, Add, Get, AbsorbRest, SqueezeRest
<1>2. Spec => [](TypeOK /\ RoomInv)
  BY SpongeTypeInit, SpongeTypeStep, PTL DEF Spec
<1> QED BY <1>1, <1>2, PTL DEF Spec, LoopsProgress

-----------------------------------------------------------------------------
\* What is appended to a message leaves the message where it was.
LEMMA Appended ==
  ASSUME NEW S, NEW s \in Seq(S), NEW t \in Seq(S)
  PROVE  /\ s \o t \in Seq(S) /\ Len(s \o t) = Len(s) + Len(t)
         /\ \A i \in 1 .. Len(s) : (s \o t)[i] = s[i]
         /\ \A k \in 1 .. Len(t) : (s \o t)[Len(s) + k] = t[k]
  OBVIOUS

LEMMA OneAppended ==
  ASSUME NEW S, NEW s \in Seq(S), NEW e \in S
  PROVE  /\ Append(s, e) \in Seq(S) /\ Len(Append(s, e)) = Len(s) + 1
         /\ Append(s, e)[Len(s) + 1] = e
         /\ \A i \in 1 .. Len(s) : Append(s, e)[i] = s[i]
  OBVIOUS

\* The elements that fill a block are at their place in the message.
LEMMA AddStep ==
  ASSUME TypeOK, RoomInv, AbsorbInv, SqueezeInv, NEW elements \in Messages, Add(elements)
  PROVE  AbsorbInv' /\ SqueezeInv'
<1>1. /\ doing = "nothing" /\ doing' = "absorbing" /\ rest = <<>> /\ rest' = elements
      /\ elements \in Seq(Elements) /\ Pos = index /\ Pos' = start' /\ Len(rest) = 0
  BY CallAssumption DEF Add, RoomInv, Pos
<1>2. SqueezeInv'
  BY <1>1 DEF SqueezeInv, Squeezing
<1>3. CASE mode = "squeezing"
  <2>1. /\ message' = elements /\ from' = Len(blocks) /\ start' = 0
        /\ blocks' = blocks /\ lanes' = lanes /\ lanes = NoLanes
    BY <1>1, <1>3 DEF Add, SqueezeInv, Squeezing
  <2>2. Absorbed' = 0 /\ Full' = 0 /\ Len(blocks) \in Nat
    BY <1>1, <2>1 DEF Absorbed, Full, TypeOK
  <2>3. Pos' = 0 /\ Full' * Rate = 0
    BY <1>1, <2>1, <2>2, RateAssumption
  <2>4. \A k \in 1 .. Len(rest') : rest'[k] = message'[Absorbed' + k]
    BY <1>1, <2>1, <2>2
  <2>5. \A j \in 1 .. Rate : lanes'[j] = IF j <= Pos' THEN message'[Full' * Rate + j] ELSE Zero
    BY <2>1, <2>3 DEF NoLanes
  <2> QED BY <1>1, <1>2, <2>1, <2>2, <2>3, <2>4, <2>5 DEF AbsorbInv
<1>4. CASE mode = "absorbing"
  <2>1. Absorbing
    BY <1>1, <1>4 DEF Absorbing
  <2>2. message' = message \o elements /\ from' = from /\ message \in Seq(Elements)
    BY <1>4 DEF Add, TypeOK
  <2>3. /\ Len(message') = Len(message) + Len(elements)
        /\ \A i \in 1 .. Len(message) : message'[i] = message[i]
        /\ \A k \in 1 .. Len(elements) : message'[Len(message) + k] = elements[k]
    BY <1>1, <2>2, Appended
  <2>4. /\ Full \in Nat /\ Full * Rate \in Nat /\ (Full + 1) * Rate = Full * Rate + Rate
        /\ Len(message) = Full * Rate + index /\ Len(message) \in Nat
    <3>1. Full \in Nat
      BY <2>1 DEF AbsorbInv, Full, TypeOK
    <3>2. Absorbed = Full * Rate + index /\ Absorbed = Len(message)
      BY <1>1, <2>1, <2>2 DEF AbsorbInv, Absorbed
    <3> QED BY <2>2, <3>1, <3>2, OneMoreBlock, SMTT(30)
  <2>5. Absorbed' = Len(message)
    BY <1>1, <2>3, <2>4 DEF Absorbed
  <2>6. \A k \in 1 .. Len(rest') : rest'[k] = message'[Absorbed' + k]
    BY <1>1, <2>3, <2>5
  <2>7. \A b \in 1 .. Full, j \in 1 .. Rate : blocks[from + b][j] = message'[(b - 1) * Rate + j]
    <3> SUFFICES ASSUME NEW b \in 1 .. Full, NEW j \in 1 .. Rate
                 PROVE  blocks[from + b][j] = message'[(b - 1) * Rate + j]
      OBVIOUS
    <3>1. (b - 1) * Rate + j \in 1 .. Full * Rate
      BY <2>4, WithinBlocks
    <3>2. (b - 1) * Rate + j \in 1 .. Len(message)
      BY <2>4, <3>1 DEF TypeOK
    <3>3. blocks[from + b][j] = message[(b - 1) * Rate + j]
      BY <2>1 DEF AbsorbInv
    <3> QED BY <2>3, <3>2, <3>3
  <2>8. \A j \in 1 .. Rate : j <= index => lanes[j] = message'[Full * Rate + j]
    <3> SUFFICES ASSUME NEW j \in 1 .. Rate, j <= index
                 PROVE  lanes[j] = message'[Full * Rate + j]
      OBVIOUS
    <3>1. Full * Rate + j \in 1 .. Len(message)
      BY <2>4 DEF TypeOK
    <3>2. lanes[j] = message[Full * Rate + j]
      BY <1>1, <2>1 DEF AbsorbInv
    <3> QED BY <2>3, <3>1, <3>2
  <2>9. CASE index < Rate
    <3>1. blocks' = blocks /\ lanes' = lanes /\ start' = index
      BY <1>4, <2>9, RateAssumption DEF Add, TypeOK
    <3>2. Full' = Full /\ Pos' = index
      BY <1>1, <2>2, <3>1 DEF Full
    <3>3. Absorbed' = Full' * Rate + Pos'
      BY <2>4, <2>5, <3>2
    <3>4. \A b \in 1 .. Full', j \in 1 .. Rate : blocks'[from' + b][j] = message'[(b - 1) * Rate + j]
      BY <2>2, <2>7, <3>1, <3>2
    <3>5. \A j \in 1 .. Rate : lanes'[j] = IF j <= Pos' THEN message'[Full' * Rate + j] ELSE Zero
      BY <1>1, <2>1, <2>8, <3>1, <3>2 DEF AbsorbInv
    <3>6. from' <= Len(blocks')
      BY <2>1, <2>2, <3>1 DEF AbsorbInv
    <3> QED BY <1>1, <1>2, <2>6, <3>3, <3>4, <3>5, <3>6 DEF AbsorbInv
  <2>10. CASE index = Rate
    <3>1. blocks' = Append(blocks, lanes) /\ lanes' = NoLanes /\ start' = 0
      BY <1>4, <2>10, RateAssumption DEF Add, Permute
    <3>2. /\ Len(blocks') = Len(blocks) + 1 /\ blocks'[Len(blocks) + 1] = lanes
          /\ \A b \in 1 .. Len(blocks) : blocks'[b] = blocks[b]
      <4>1. blocks \in Seq(Lanes) /\ lanes \in Lanes
        BY DEF TypeOK
      <4> QED BY <3>1, <4>1, OneAppended
    <3>3. Full' = Full + 1 /\ Pos' = 0 /\ from + (Full + 1) = Len(blocks) + 1
      <4>1. Len(blocks) \in Nat /\ from \in Nat
        BY DEF TypeOK
      <4> QED BY <1>1, <2>2, <3>1, <3>2, <4>1 DEF Full
    <3>4. Absorbed' = Full' * Rate + Pos'
      BY <2>4, <2>5, <2>10, <3>3, RateAssumption
    <3>5. \A b \in 1 .. Full', j \in 1 .. Rate : blocks'[from' + b][j] = message'[(b - 1) * Rate + j]
      <4> SUFFICES ASSUME NEW b \in 1 .. Full', NEW j \in 1 .. Rate
                   PROVE  blocks'[from + b][j] = message'[(b - 1) * Rate + j]
        BY <2>2
      <4>1. CASE b = Full + 1
        <5>1. blocks'[from + b] = lanes /\ (b - 1) * Rate = Full * Rate
          BY <2>4, <3>2, <3>3, <4>1
        <5> QED BY <2>8, <2>10, <5>1, RateAssumption
      <4>2. CASE b \in 1 .. Full
        <5>1. from + b \in 1 .. Len(blocks)
          BY <4>2, <2>4 DEF Full, TypeOK
        <5> QED BY <2>7, <3>2, <4>2, <5>1
      <4> QED BY <2>4, <3>3, <4>1, <4>2
    <3>6. \A j \in 1 .. Rate : lanes'[j] = IF j <= Pos' THEN message'[Full' * Rate + j] ELSE Zero
      BY <3>1, <3>3 DEF NoLanes
    <3>7. from' <= Len(blocks')
      BY <2>1, <2>2, <3>2 DEF AbsorbInv, TypeOK
    <3> QED BY <1>1, <1>2, <2>6, <3>4, <3>5, <3>6, <3>7 DEF AbsorbInv
  <2> QED BY <2>9, <2>10, RateAssumption DEF TypeOK
<1> QED BY <1>3, <1>4 DEF TypeOK

\* What a loop adds to the lanes is the part of the message that belongs there.
LEMMA FilledLane ==
  ASSUME TypeOK, AbsorbInv, doing = "absorbing",
         NEW elements \in Seq(Elements),
         Len(elements) <= Len(rest), start + Len(elements) <= Rate,
         \A k \in 1 .. Len(elements) : elements[k] = rest[k],
         NEW j \in 1 .. Rate
  PROVE  Added(start, elements)[j] =
           IF j <= start + Len(elements) THEN message[Full * Rate + j] ELSE Zero
<1>1. /\ Absorbing /\ Pos = start /\ start \in Nat /\ Len(elements) \in Nat /\ Len(rest) \in Nat
      /\ Rate \in Nat
  BY RateAssumption DEF Absorbing, Pos, TypeOK
<1>2. Full \in Nat /\ Full * Rate \in Nat
  BY <1>1, OneMoreBlock DEF AbsorbInv, Full, TypeOK
<1>3. Added(start, elements)[j] =
        IF j \in start + 1 .. start + Len(elements)
        THEN Plus(lanes[j], elements[j - start]) ELSE lanes[j]
  BY DEF Added
<1>4. lanes[j] = IF j <= start THEN message[Full * Rate + j] ELSE Zero
  BY <1>1 DEF AbsorbInv
<1>5. CASE j <= start
  BY <1>1, <1>3, <1>4, <1>5
<1>6. CASE j \in start + 1 .. start + Len(elements)
  <2>1. j - start \in 1 .. Len(elements) /\ j - start \in 1 .. Len(rest)
    BY <1>1, <1>6
  <2>2. elements[j - start] = rest[j - start] /\ rest[j - start] = message[Absorbed + (j - start)]
    BY <1>1, <2>1 DEF AbsorbInv
  <2>3. Absorbed + (j - start) = Full * Rate + j
    BY <1>1, <1>2 DEF AbsorbInv
  <2>4. elements[j - start] \in Elements
    BY <2>1
  <2>5. Plus(Zero, elements[j - start]) = elements[j - start]
    BY <2>4, ElementAssumption
  <2>6. lanes[j] = Zero /\ ~(j <= start) /\ j <= start + Len(elements)
    BY <1>1, <1>4, <1>6
  <2> QED BY <1>3, <1>6, <2>2, <2>3, <2>5, <2>6
<1>7. CASE j > start + Len(elements)
  BY <1>1, <1>3, <1>4, <1>7
<1> QED BY <1>1, <1>5, <1>6, <1>7

LEMMA AbsorbBlockStep ==
  ASSUME TypeOK, RoomInv, AbsorbInv, SqueezeInv, AbsorbBlock
  PROVE  AbsorbInv' /\ SqueezeInv'
<1> DEFINE n == Rate - start
           head == SubSeq(rest, 1, n)
           block == Added(start, head)
<1>1. /\ doing = "absorbing" /\ doing' = "absorbing" /\ Absorbing /\ Absorbing'
      /\ Pos = start /\ Pos' = 0 /\ from' = from /\ message' = message /\ lanes' = NoLanes
  BY DEF AbsorbBlock, Absorbing, Pos, history
<1>2. SqueezeInv'
  BY <1>1 DEF SqueezeInv, Squeezing
<1>3. /\ n \in Nat /\ n < Len(rest) /\ start + n = Rate /\ rest \in Seq(Elements)
      /\ start \in 0 .. Rate
  BY RateAssumption DEF AbsorbBlock, TypeOK
<1>4. head \in Seq(Elements) /\ Len(head) = n /\ \A k \in 1 .. n : head[k] = rest[k]
  BY <1>3
<1>5. /\ rest' = SubSeq(rest, n + 1, Len(rest)) /\ Len(rest') = Len(rest) - n
      /\ \A k \in 1 .. Len(rest') : rest'[k] = rest[n + k] /\ n + k \in 1 .. Len(rest)
  <2>1. rest' = SubSeq(rest, n + 1, Len(rest))
    BY DEF AbsorbBlock
  <2>2. /\ Len(SubSeq(rest, n + 1, Len(rest))) = Len(rest) - n
        /\ \A k \in 1 .. Len(rest) - n :
             SubSeq(rest, n + 1, Len(rest))[k] = rest[n + k] /\ n + k \in 1 .. Len(rest)
    BY <1>3, SMTT(30)
  <2> QED BY <2>1, <2>2
<1>6. blocks' = Append(blocks, block)
  BY DEF AbsorbBlock
<1> HIDE DEF n, head, block
<1>7. block \in Lanes
  BY <1>3, <1>4, AddedType DEF block
<1>8. \A j \in 1 .. Rate : block[j] = message[Full * Rate + j]
  BY <1>1, <1>3, <1>4, FilledLane, RateAssumption DEF block
<1>9. /\ Len(blocks') = Len(blocks) + 1 /\ blocks'[Len(blocks) + 1] = block
      /\ \A b \in 1 .. Len(blocks) : blocks'[b] = blocks[b]
  <2>1. blocks \in Seq(Lanes)
    BY DEF TypeOK
  <2> QED BY <1>6, <1>7, <2>1, OneAppended
<1>10. /\ Full \in Nat /\ Full' = Full + 1 /\ from + (Full + 1) = Len(blocks) + 1
       /\ from \in Nat /\ Len(blocks) \in Nat /\ from' <= Len(blocks')
  <2>1. from \in Nat /\ Len(blocks) \in Nat /\ from <= Len(blocks)
    BY <1>1 DEF TypeOK, AbsorbInv
  <2> QED BY <1>1, <1>9, <2>1 DEF Full
<1>11. Full * Rate \in Nat /\ Full' * Rate = Full * Rate + Rate
  BY <1>10, OneMoreBlock
<1>12. Absorbed' = Absorbed + n /\ Absorbed = Full * Rate + start /\ Absorbed' = Full' * Rate + Pos'
  <2>1. Absorbed = Full * Rate + start
    BY <1>1 DEF AbsorbInv
  <2>2. Absorbed' = Len(message) - (Len(rest) - n) /\ Len(message) \in Nat /\ Len(rest) \in Nat
    <3>1. message \in Seq(Elements) /\ Len(message) \in Nat
      BY DEF TypeOK
    <3>2. Len(message') = Len(message) /\ Len(rest') = Len(rest) - n /\ Len(rest) \in Nat
      BY <1>1, <1>3, <1>5
    <3> QED BY <3>1, <3>2 DEF Absorbed
  <2>3. Absorbed' = Absorbed + n
    BY <1>3, <2>2 DEF Absorbed
  <2> QED BY <1>1, <1>3, <1>11, <2>1, <2>3, RateAssumption
<1>13. \A k \in 1 .. Len(rest') : rest'[k] = message'[Absorbed' + k]
  <2> SUFFICES ASSUME NEW k \in 1 .. Len(rest') PROVE rest'[k] = message[Absorbed' + k]
    BY <1>1
  <2>1. rest'[k] = rest[n + k] /\ n + k \in 1 .. Len(rest)
    BY <1>5
  <2>2. rest[n + k] = message[Absorbed + (n + k)]
    BY <1>1, <2>1 DEF AbsorbInv
  <2>3. Absorbed + (n + k) = Absorbed' + k
    BY <1>3, <1>10, <1>11, <1>12
  <2> QED BY <2>1, <2>2, <2>3
<1>14. \A b \in 1 .. Full', j \in 1 .. Rate : blocks'[from' + b][j] = message'[(b - 1) * Rate + j]
  <2> SUFFICES ASSUME NEW b \in 1 .. Full', NEW j \in 1 .. Rate
               PROVE  blocks'[from + b][j] = message[(b - 1) * Rate + j]
    BY <1>1
  <2>1. CASE b = Full + 1
    <3>1. blocks'[from + b] = block /\ (b - 1) * Rate = Full * Rate
      BY <1>9, <1>10, <2>1
    <3> QED BY <1>8, <3>1
  <2>2. CASE b \in 1 .. Full
    <3>1. from + b \in 1 .. Len(blocks)
      BY <1>10, <2>2 DEF Full
    <3>2. blocks[from + b][j] = message[(b - 1) * Rate + j]
      BY <1>1, <2>2 DEF AbsorbInv
    <3> QED BY <1>9, <3>1, <3>2
  <2> QED BY <1>10, <2>1, <2>2
<1>15. \A j \in 1 .. Rate : lanes'[j] = IF j <= Pos' THEN message'[Full' * Rate + j] ELSE Zero
  BY <1>1 DEF NoLanes
<1> QED BY <1>1, <1>2, <1>10, <1>12, <1>13, <1>14, <1>15 DEF AbsorbInv

LEMMA AbsorbRestStep ==
  ASSUME TypeOK, RoomInv, AbsorbInv, SqueezeInv, AbsorbRest
  PROVE  AbsorbInv' /\ SqueezeInv'
<1>1. /\ doing = "absorbing" /\ doing' = "nothing" /\ mode' = "absorbing" /\ Absorbing /\ Absorbing'
      /\ Pos = start /\ Pos' = start + Len(rest) /\ rest' = <<>> /\ Len(rest') = 0
      /\ from' = from /\ message' = message /\ blocks' = blocks
      /\ lanes' = Added(start, rest) /\ start + Len(rest) <= Rate
  BY DEF AbsorbRest, Absorbing, Pos, history
<1>2. SqueezeInv'
  BY <1>1 DEF SqueezeInv, Squeezing
<1>3. /\ rest \in Seq(Elements) /\ Len(rest) \in Nat /\ start \in Nat /\ Len(message) \in Nat
      /\ rest # <<>> /\ Len(rest) # 0
  <2>1. rest \in Seq(Elements) /\ rest # <<>> /\ start \in Nat /\ Len(message) \in Nat
    BY <1>1 DEF TypeOK, RoomInv
  <2>2. Len(rest) # 0 /\ Len(rest) \in Nat
    BY <2>1
  <2> QED BY <2>1, <2>2
<1>4. Full' = Full /\ Full \in Nat /\ Full * Rate \in Nat /\ from' <= Len(blocks')
  <2>1. Full' = Full /\ Full \in Nat /\ from' <= Len(blocks')
    BY <1>1 DEF Full, AbsorbInv, TypeOK
  <2> QED BY <2>1, OneMoreBlock
<1>5. Absorbed' = Full' * Rate + Pos'
  <2>1. Absorbed = Full * Rate + start /\ Absorbed = Len(message) - Len(rest)
    BY <1>1 DEF AbsorbInv, Absorbed
  <2>2. Absorbed' = Len(message)
    BY <1>1, <1>3 DEF Absorbed
  <2> QED BY <1>1, <1>3, <1>4, <2>1, <2>2
<1>6. \A j \in 1 .. Rate : lanes'[j] = IF j <= Pos' THEN message'[Full' * Rate + j] ELSE Zero
  <2>1. \A k \in 1 .. Len(rest) : rest[k] = rest[k]
    OBVIOUS
  <2>2. \A j \in 1 .. Rate :
          lanes'[j] = IF j <= start + Len(rest) THEN message[Full * Rate + j] ELSE Zero
    BY <1>1, <1>3, <2>1, FilledLane
  <2> QED BY <1>1, <1>4, <2>2
<1>7. \A b \in 1 .. Full', j \in 1 .. Rate : blocks'[from' + b][j] = message'[(b - 1) * Rate + j]
  BY <1>1, <1>4 DEF AbsorbInv
<1>8. Pos' # 0
  BY <1>1, <1>3
<1> QED BY <1>1, <1>2, <1>4, <1>5, <1>6, <1>7, <1>8 DEF AbsorbInv

-----------------------------------------------------------------------------
\* Squeezing does not touch the blocks of the message.
LEMMA MessageCutKept ==
  ASSUME TypeOK, MessageCut, from' = from, after' = after, message' = message,
         blocks' = blocks \/ blocks' = Append(blocks, lanes)
  PROVE  MessageCut'
<1>1. /\ blocks \in Seq(Lanes) /\ lanes \in Lanes
      /\ from \in Nat /\ after \in Nat /\ Len(blocks) \in Nat
  BY DEF TypeOK
<1>2. Len(blocks') >= Len(blocks) /\ \A b \in 1 .. Len(blocks) : blocks'[b] = blocks[b]
  BY <1>1, OneAppended
<1>3. \A b \in 1 .. after - from : from + b \in 1 .. Len(blocks)
  BY <1>1 DEF MessageCut
<1>4. Len(blocks') \in Nat /\ after <= Len(blocks')
  BY <1>1, <1>2, OneAppended DEF MessageCut
<1> QED BY <1>2, <1>3, <1>4 DEF MessageCut

\* The first squeeze after a message permutes its last block.
LEMMA MessageCutFirst ==
  ASSUME TypeOK, RoomInv, AbsorbInv, doing = "nothing", mode = "absorbing",
         Permute, after' = Len(blocks) + 1, message' = message, from' = from
  PROVE  MessageCut'
<1>1. Absorbing /\ Pos = index /\ rest = <<>> /\ Len(rest) = 0
  BY DEF Absorbing, Pos, RoomInv
<1>2. /\ blocks \in Seq(Lanes) /\ lanes \in Lanes /\ message \in Seq(Elements)
      /\ from \in Nat /\ Len(blocks) \in Nat /\ index \in 0 .. Rate /\ Len(message) \in Nat
  BY DEF TypeOK
<1>3. /\ Len(blocks') = Len(blocks) + 1 /\ blocks'[Len(blocks) + 1] = lanes
      /\ \A b \in 1 .. Len(blocks) : blocks'[b] = blocks[b]
  BY <1>2, OneAppended DEF Permute
<1>4. Full \in Nat /\ after' - from = Full + 1 /\ from < after' /\ after' <= Len(blocks')
  BY <1>1, <1>2, <1>3 DEF AbsorbInv, Full
<1>5. /\ Full * Rate \in Nat /\ (Full + 1) * Rate = Full * Rate + Rate
      /\ Len(message) = Full * Rate + index
  <2>1. Absorbed = Full * Rate + index /\ Absorbed = Len(message)
    BY <1>1, <1>2 DEF AbsorbInv, Absorbed
  <2> QED BY <1>4, <2>1, OneMoreBlock
<1>6. \/ (after' - from - 1) * Rate < Len(message) /\ Len(message) <= (after' - from) * Rate
      \/ message = <<>> /\ after' - from = 1
  <2>1. CASE index = 0
    BY <1>1, <1>4, <2>1 DEF AbsorbInv
  <2>2. CASE index # 0
    <3>1. Full * Rate < Len(message) /\ Len(message) <= (Full + 1) * Rate
      BY <1>2, <1>5, <2>2, RateAssumption
    <3>2. after' - from - 1 = Full
      BY <1>4
    <3> QED BY <1>4, <3>1, <3>2
  <2> QED BY <2>1, <2>2
<1>7. ASSUME NEW b \in 1 .. after' - from, NEW j \in 1 .. Rate
      PROVE  blocks'[from + b][j] = IF (b - 1) * Rate + j <= Len(message)
                                    THEN message[(b - 1) * Rate + j] ELSE Zero
  <2>1. CASE b = Full + 1
    <3>1. from + b = Len(blocks) + 1 /\ (b - 1) * Rate = Full * Rate
      BY <1>2, <1>4, <2>1 DEF Full
    <3>2. lanes[j] = IF j <= index THEN message[Full * Rate + j] ELSE Zero
      BY <1>1 DEF AbsorbInv
    <3>3. j <= index <=> Full * Rate + j <= Len(message)
      BY <1>2, <1>5, RateAssumption
    <3> QED BY <1>3, <3>1, <3>2, <3>3
  <2>2. CASE b \in 1 .. Full
    <3>1. from + b \in 1 .. Len(blocks)
      BY <1>2, <1>4, <2>2 DEF Full
    <3>2. blocks[from + b][j] = message[(b - 1) * Rate + j]
      BY <1>1, <2>2 DEF AbsorbInv
    <3>3. (b - 1) * Rate + j \in 1 .. Full * Rate
      BY <1>4, <2>2, WithinBlocks
    <3>4. (b - 1) * Rate + j <= Len(message)
      BY <1>2, <1>5, <3>3
    <3> QED BY <1>3, <3>1, <3>2, <3>4
  <2> QED BY <1>4, <2>1, <2>2
<1> QED BY <1>4, <1>6, <1>7 DEF MessageCut

LEMMA GetStep ==
  ASSUME TypeOK, RoomInv, AbsorbInv, SqueezeInv, NEW k \in 0 .. MaxGet, Get(k)
  PROVE  AbsorbInv' /\ SqueezeInv'
<1>1. /\ doing = "nothing" /\ doing' = "squeezing" /\ Pos = index /\ Pos' = start'
      /\ from' = from /\ message' = message
  BY DEF Get, Pos
<1>2. AbsorbInv'
  BY <1>1 DEF AbsorbInv, Absorbing
<1>3. /\ blocks \in Seq(Lanes) /\ lanes \in Lanes /\ index \in 0 .. Rate
      /\ after \in Nat /\ Len(blocks) \in Nat
  BY DEF TypeOK
<1>4. Permute => lanes' = NoLanes /\ Len(blocks') = Len(blocks) + 1
  BY <1>3, OneAppended DEF Permute
<1>5. CASE mode = "absorbing"
  <2>1. Permute /\ start' = 0 /\ answer' = <<>> /\ after' = Len(blocks) + 1 /\ Len(answer') = 0
    BY <1>5 DEF Get
  <2>2. MessageCut'
    BY <1>1, <1>5, <2>1, MessageCutFirst
  <2>3. Len(blocks') - after' = 0 /\ (Len(blocks') - after') * Rate = 0
    BY <1>3, <1>4, <2>1, RateAssumption
  <2>4. \A b \in 0 .. Len(blocks') - after', j \in 1 .. Rate : ~(b * Rate + j <= Len(answer'))
    BY <2>1, <2>3, RateAssumption
  <2> QED BY <1>1, <1>2, <1>4, <2>1, <2>2, <2>3, <2>4 DEF SqueezeInv
<1>6. CASE mode = "squeezing"
  <2> DEFINE q == Len(blocks) - after
  <2>1. /\ Squeezing /\ MessageCut /\ lanes = NoLanes /\ Len(answer) = q * Rate + index
        /\ answer' = answer /\ after' = after
    BY <1>1, <1>6 DEF Squeezing, SqueezeInv, Get
  <2>2. q \in Nat /\ q * Rate \in Nat /\ (q + 1) * Rate = q * Rate + Rate
    <3>1. q \in Nat
      BY <1>3, <2>1 DEF MessageCut
    <3> HIDE DEF q
    <3> QED BY <3>1, OneMoreBlock
  <2>3. \A b \in 0 .. q, j \in 1 .. Rate :
          b * Rate + j <= Len(answer) =>
            answer[b * Rate + j] = [state |-> after + b, lane |-> j, plus |-> Zero]
    BY <2>1 DEF SqueezeInv
  <2>4. CASE index < Rate
    <3>1. blocks' = blocks /\ lanes' = lanes /\ start' = index
      BY <1>3, <1>6, <2>4, RateAssumption DEF Get
    <3>2. MessageCut'
      BY <1>1, <2>1, <3>1, MessageCutKept
    <3> QED BY <1>1, <1>2, <2>1, <2>3, <3>1, <3>2 DEF SqueezeInv
  <2>5. CASE index = Rate
    <3>1. Permute /\ start' = 0
      BY <1>3, <1>6, <2>5, RateAssumption DEF Get
    <3>2. MessageCut'
      BY <1>1, <2>1, <3>1, MessageCutKept DEF Permute
    <3>3. Len(blocks') - after' = q + 1 /\ lanes' = NoLanes
      BY <1>3, <1>4, <2>1, <3>1
    <3> HIDE DEF q
    <3>4. Len(answer') = (Len(blocks') - after') * Rate + Pos' /\ Len(answer) = (q + 1) * Rate
      BY <1>1, <2>1, <2>2, <2>5, <3>1, <3>3, RateAssumption
    <3>5. ASSUME NEW b \in 0 .. q + 1, NEW j \in 1 .. Rate, b * Rate + j <= Len(answer)
          PROVE  answer[b * Rate + j] = [state |-> after + b, lane |-> j, plus |-> Zero]
      <4>1. b # q + 1
        BY <2>2, <3>4, <3>5, RateAssumption
      <4>2. b \in 0 .. q
        BY <2>2, <4>1
      <4> QED BY <2>3, <3>5, <4>2
    <3> QED BY <1>2, <2>1, <3>2, <3>3, <3>4, <3>5 DEF SqueezeInv
  <2> QED BY <1>3, <2>4, <2>5, RateAssumption
<1> QED BY <1>5, <1>6 DEF TypeOK

\* What an iteration squeezes continues the answer where it had come to.
LEMMA AnswerGrown ==
  ASSUME TypeOK, SqueezeInv, doing = "squeezing", NEW n \in Nat, start + n <= Rate,
         answer' = answer \o Squeezed(start, n)
  PROVE  /\ Len(answer') = (Len(blocks) - after) * Rate + start + n
         /\ \A b \in 0 .. Len(blocks) - after, j \in 1 .. Rate :
              b * Rate + j <= Len(answer') =>
                answer'[b * Rate + j] = [state |-> after + b, lane |-> j, plus |-> Zero]
<1> DEFINE q == Len(blocks) - after
           more == Squeezed(start, n)
<1>1. Squeezing /\ Pos = start /\ lanes = NoLanes /\ MessageCut
  BY DEF Squeezing, Pos, SqueezeInv
<1>2. /\ after \in Nat /\ Len(blocks) \in Nat /\ start \in 0 .. Rate
      /\ answer \in Seq(Outputs) /\ Len(answer) \in Nat
  BY DEF TypeOK
<1>3. q \in Nat /\ Len(answer) = q * Rate + start
  BY <1>1, <1>2 DEF MessageCut, SqueezeInv
<1>4. more \in Seq(Outputs) /\ Len(more) = n
  BY <1>2, SqueezedType
<1>5. \A i \in 1 .. n : more[i] = [state |-> Len(blocks), lane |-> start + i, plus |-> lanes[start + i]]
  BY DEF Squeezed
<1>6. \A b \in 0 .. q, j \in 1 .. Rate :
        b * Rate + j <= Len(answer) =>
          answer[b * Rate + j] = [state |-> after + b, lane |-> j, plus |-> Zero]
  BY <1>1 DEF SqueezeInv
<1>7. /\ Len(answer') = Len(answer) + n
      /\ \A i \in 1 .. Len(answer) : answer'[i] = answer[i]
      /\ \A i \in 1 .. n : answer'[Len(answer) + i] = more[i]
  <2>1. answer' = answer \o more
    OBVIOUS
  <2> HIDE DEF more, q
  <2>2. /\ Len(answer \o more) = Len(answer) + Len(more)
        /\ \A i \in 1 .. Len(answer) : (answer \o more)[i] = answer[i]
        /\ \A i \in 1 .. Len(more) : (answer \o more)[Len(answer) + i] = more[i]
    <3>1. answer \in Seq(Outputs) /\ more \in Seq(Outputs)
      BY <1>2, <1>4
    <3> QED BY <3>1, Appended
  <2> QED BY <1>4, <2>1, <2>2, Zenon
<1>8. Len(blocks) = after + q
  BY <1>2
<1> HIDE DEF q, more
<1>9. q * Rate \in Nat
  BY <1>3, OneMoreBlock
<1>10. ASSUME NEW b \in 0 .. q, NEW j \in 1 .. Rate, b * Rate + j <= Len(answer')
       PROVE  answer'[b * Rate + j] = [state |-> after + b, lane |-> j, plus |-> Zero]
  <2>1. b \in Nat /\ b * Rate \in Nat
    <3>1. b \in Nat
      BY <1>3
    <3> QED BY <3>1, OneMoreBlock
  <2>2. CASE b * Rate + j <= Len(answer)
    <3>1. b * Rate + j \in 1 .. Len(answer)
      BY <1>2, <2>1, <2>2
    <3> QED BY <1>6, <1>7, <2>2, <3>1
  <2>3. CASE b * Rate + j > Len(answer)
    <3>1. b = q
      <4> SUFFICES ASSUME b # q PROVE FALSE
        OBVIOUS
      <4>1. b + 1 \in 1 .. q
        BY <1>3
      <4>2. ((b + 1) - 1) * Rate + j \in 1 .. q * Rate
        BY <1>3, <4>1, WithinBlocks
      <4>3. b * Rate + j <= q * Rate
        BY <1>9, <2>1, <4>2
      <4> QED BY <1>2, <1>3, <1>9, <2>1, <2>3, <4>3
    <3>2. j - start \in 1 .. n /\ b * Rate + j = Len(answer) + (j - start)
      BY <1>2, <1>3, <1>7, <1>9, <1>10, <2>3, <3>1
    <3>3. answer'[b * Rate + j] = more[j - start]
      BY <1>7, <3>2
    <3>4. more[j - start] =
            [state |-> Len(blocks), lane |-> start + (j - start), plus |-> lanes[start + (j - start)]]
      BY <1>5, <3>2
    <3>5. start + (j - start) = j
      BY <1>2
    <3>6. lanes[j] = Zero
      BY <1>1 DEF NoLanes
    <3> QED BY <1>8, <3>1, <3>3, <3>4, <3>5, <3>6
  <2>4. b * Rate + j <= Len(answer) \/ b * Rate + j > Len(answer)
    BY <1>2, <2>1
  <2> QED BY <2>2, <2>3, <2>4
<1>11. Len(answer') = q * Rate + start + n
  BY <1>2, <1>3, <1>7, <1>9
<1> QED BY <1>10, <1>11 DEF q

LEMMA SqueezeBlockStep ==
  ASSUME TypeOK, RoomInv, AbsorbInv, SqueezeInv, SqueezeBlock
  PROVE  AbsorbInv' /\ SqueezeInv'
<1> DEFINE n == Rate - start
           q == Len(blocks) - after
<1>1. /\ doing = "squeezing" /\ doing' = "squeezing" /\ Squeezing /\ Pos' = 0
      /\ from' = from /\ message' = message /\ after' = after
      /\ answer' = answer \o Squeezed(start, n)
  BY DEF SqueezeBlock, Squeezing, Pos
<1>2. AbsorbInv'
  BY <1>1 DEF AbsorbInv, Absorbing
<1>3. n \in Nat /\ start + n = Rate /\ Permute
  BY RateAssumption DEF SqueezeBlock, TypeOK
<1>4. /\ blocks \in Seq(Lanes) /\ lanes \in Lanes /\ after \in Nat /\ Len(blocks) \in Nat
      /\ start \in Nat /\ MessageCut
  BY <1>1 DEF TypeOK, SqueezeInv
<1>5. lanes' = NoLanes /\ Len(blocks') - after' = q + 1
  BY <1>1, <1>3, <1>4, OneAppended DEF Permute
<1>6. MessageCut'
  BY <1>1, <1>3, <1>4, MessageCutKept DEF Permute
<1>7. q \in Nat
  BY <1>4 DEF MessageCut
<1>8. /\ Len(answer') = q * Rate + start + n
      /\ \A b \in 0 .. q, j \in 1 .. Rate :
           b * Rate + j <= Len(answer') =>
             answer'[b * Rate + j] = [state |-> after + b, lane |-> j, plus |-> Zero]
  <2>1. start + n <= Rate
    BY <1>3, RateAssumption
  <2> HIDE DEF n
  <2> QED BY <1>1, <1>3, <2>1, AnswerGrown DEF q
<1> HIDE DEF n, q
<1>9. /\ q * Rate \in Nat /\ (q + 1) * Rate = q * Rate + Rate
      /\ Len(answer') = (q + 1) * Rate
  BY <1>3, <1>4, <1>7, <1>8, OneMoreBlock
<1>10. Len(answer') = (Len(blocks') - after') * Rate + Pos'
  BY <1>1, <1>5, <1>9, RateAssumption
<1>11. ASSUME NEW b \in 0 .. q + 1, NEW j \in 1 .. Rate, b * Rate + j <= Len(answer')
       PROVE  answer'[b * Rate + j] = [state |-> after + b, lane |-> j, plus |-> Zero]
  <2>1. b # q + 1
    BY <1>9, <1>11, RateAssumption
  <2>2. b \in 0 .. q
    BY <1>7, <2>1
  <2> QED BY <1>8, <1>11, <2>2
<1> QED BY <1>1, <1>2, <1>5, <1>6, <1>10, <1>11 DEF SqueezeInv

LEMMA SqueezeRestStep ==
  ASSUME TypeOK, RoomInv, AbsorbInv, SqueezeInv, SqueezeRest
  PROVE  AbsorbInv' /\ SqueezeInv'
<1>1. /\ doing = "squeezing" /\ doing' = "nothing" /\ mode' = "squeezing" /\ Squeezing
      /\ Pos' = start + wanted /\ start + wanted <= Rate
      /\ from' = from /\ message' = message /\ after' = after
      /\ blocks' = blocks /\ lanes' = lanes
      /\ answer' = answer \o Squeezed(start, wanted)
  BY DEF SqueezeRest, Squeezing, Pos
<1>2. AbsorbInv'
  BY <1>1 DEF AbsorbInv, Absorbing
<1>3. wanted \in Nat /\ start \in Nat /\ MessageCut /\ lanes = NoLanes
  BY <1>1 DEF TypeOK, SqueezeInv
<1>4. MessageCut'
  BY <1>1, <1>3, MessageCutKept
<1>5. after \in Nat /\ Len(blocks) \in Nat
  BY DEF TypeOK
<1>6. Len(blocks) - after \in Nat /\ (Len(blocks) - after) * Rate \in Nat
  <2>1. Len(blocks) - after \in Nat
    BY <1>3, <1>5 DEF MessageCut
  <2> QED BY <2>1, OneMoreBlock
<1>7. /\ Len(answer') = (Len(blocks) - after) * Rate + start + wanted
      /\ \A b \in 0 .. Len(blocks) - after, j \in 1 .. Rate :
           b * Rate + j <= Len(answer') =>
             answer'[b * Rate + j] = [state |-> after + b, lane |-> j, plus |-> Zero]
  BY <1>1, <1>3, AnswerGrown
<1>8. Len(answer') = (Len(blocks') - after') * Rate + Pos'
  BY <1>1, <1>3, <1>6, <1>7
<1> QED BY <1>1, <1>2, <1>3, <1>4, <1>7, <1>8 DEF SqueezeInv

-----------------------------------------------------------------------------
LEMMA SpongeInit == Init => AbsorbInv /\ SqueezeInv
<1> SUFFICES ASSUME Init PROVE AbsorbInv /\ SqueezeInv
  OBVIOUS
<1>1. /\ ~Squeezing /\ Pos = 0 /\ Absorbed = 0 /\ Full = 0 /\ Full * Rate = 0
      /\ from = 0 /\ Len(blocks) = 0 /\ rest = <<>> /\ Len(rest) = 0
      /\ message = <<>> /\ lanes = NoLanes
  BY RateAssumption DEF Init, Squeezing, Pos, Absorbed, Full
<1> QED BY <1>1 DEF AbsorbInv, SqueezeInv, NoLanes

LEMMA SpongeStep == IInv /\ [Next]_vars => IInv'
<1> SUFFICES ASSUME IInv, [Next]_vars PROVE IInv'
  OBVIOUS
<1>1. TypeOK' /\ RoomInv'
  BY SpongeTypeStep DEF IInv
<1>2. ASSUME Next PROVE AbsorbInv' /\ SqueezeInv'
  BY <1>2, AddStep, AbsorbBlockStep, AbsorbRestStep, GetStep, SqueezeBlockStep, SqueezeRestStep
     DEF IInv, Next
<1>3. CASE UNCHANGED vars
  <2>1. /\ Absorbing' = Absorbing /\ Squeezing' = Squeezing
        /\ Pos' = Pos /\ Absorbed' = Absorbed /\ Full' = Full
    BY <1>3 DEF vars, sponge, loop, history, Absorbing, Squeezing, Pos, Absorbed, Full
  <2>2. MessageCut' = MessageCut
    BY <1>3 DEF vars, sponge, loop, history, MessageCut
  <2>3. AbsorbInv'
    BY <1>3, <2>1 DEF IInv, AbsorbInv, vars, sponge, loop, history
  <2>4. SqueezeInv'
    BY <1>3, <2>1, <2>2 DEF IInv, SqueezeInv, vars, sponge, loop, history
  <2> QED BY <1>1, <2>3, <2>4 DEF IInv
<1> QED BY <1>1, <1>2, <1>3 DEF IInv

LEMMA SpongeInvariant == Spec => []IInv
<1>1. Init => IInv
  BY SpongeTypeInit, SpongeInit DEF IInv
<1> QED BY <1>1, SpongeStep, PTL DEF Spec

\* For any rate, field and calls: a message is absorbed in the same blocks however it
\* was cut into calls of add and whatever came before it.
THEOREM SpongeCutInBlocks == Spec => []CutInBlocks
<1>1. IInv => CutInBlocks
  <2> SUFFICES ASSUME IInv, doing = "nothing" PROVE CutInBlocks
    BY DEF CutInBlocks
  <2> USE DEF IInv
  <2>1. CASE mode = "squeezing"
    <3>1. MessageCut /\ NBlocks = after - from
      BY <2>1 DEF SqueezeInv, Squeezing, NBlocks
    <3>2. \A b \in 1 .. NBlocks : from + b <= Len(blocks)
      BY <3>1 DEF MessageCut, TypeOK
    <3>3. \A b \in 1 .. NBlocks : Block(b) = blocks[from + b]
      BY <3>2 DEF Block
    <3> QED BY <3>1, <3>3 DEF CutInBlocks, MessageCut
  <2>2. CASE mode = "absorbing"
    <3>1. Absorbing /\ Pos = index /\ NBlocks = Full + 1 /\ rest = <<>> /\ Len(rest) = 0
      BY <2>2 DEF Absorbing, Pos, NBlocks, Full, RoomInv
    <3>2. /\ from \in Nat /\ Len(blocks) \in Nat /\ index \in 0 .. Rate /\ Len(message) \in Nat
          /\ message \in Seq(Elements)
      BY DEF TypeOK
    <3>3. Full \in Nat
      BY <3>1, <3>2 DEF AbsorbInv, Full
    <3>4. /\ Full * Rate \in Nat /\ (Full + 1) * Rate = Full * Rate + Rate
          /\ Len(message) = Full * Rate + index
      <4>1. Absorbed = Full * Rate + index /\ Absorbed = Len(message)
        BY <3>1, <3>2 DEF AbsorbInv, Absorbed
      <4> QED BY <3>3, <4>1, OneMoreBlock
    <3>5. \/ (NBlocks - 1) * Rate < Len(message) /\ Len(message) <= NBlocks * Rate
          \/ message = <<>> /\ NBlocks = 1
      <4>1. CASE index = 0
        BY <3>1, <4>1 DEF AbsorbInv
      <4>2. CASE index # 0
        <5>1. Full * Rate < Len(message) /\ Len(message) <= (Full + 1) * Rate
          BY <3>2, <3>4, <4>2, RateAssumption
        <5>2. NBlocks - 1 = Full
          BY <3>1, <3>3
        <5> QED BY <3>1, <5>1, <5>2
      <4> QED BY <4>1, <4>2
    <3>6. ASSUME NEW b \in 1 .. NBlocks, NEW j \in 1 .. Rate
          PROVE  Block(b)[j] = IF (b - 1) * Rate + j <= Len(message)
                               THEN message[(b - 1) * Rate + j] ELSE Zero
      <4>1. CASE b = Full + 1
        <5>1. Block(b) = lanes /\ (b - 1) * Rate = Full * Rate
          BY <3>2, <3>3, <4>1 DEF Block, Full
        <5>2. lanes[j] = IF j <= index THEN message[Full * Rate + j] ELSE Zero
          BY <3>1 DEF AbsorbInv
        <5>3. j <= index <=> Full * Rate + j <= Len(message)
          BY <3>2, <3>4, RateAssumption
        <5> QED BY <5>1, <5>2, <5>3
      <4>2. CASE b \in 1 .. Full
        <5>1. Block(b) = blocks[from + b]
          BY <3>2, <3>3, <4>2 DEF Block, Full
        <5>2. blocks[from + b][j] = message[(b - 1) * Rate + j]
          BY <3>1, <4>2 DEF AbsorbInv
        <5>3. (b - 1) * Rate + j \in 1 .. Full * Rate
          BY <3>3, <4>2, WithinBlocks
        <5>4. (b - 1) * Rate + j <= Len(message)
          BY <3>2, <3>4, <5>3
        <5> QED BY <5>1, <5>2, <5>4
      <4> QED BY <3>1, <3>3, <4>1, <4>2
    <3> QED BY <3>5, <3>6 DEF CutInBlocks
  <2> QED BY <2>1, <2>2 DEF TypeOK
<1> QED BY <1>1, SpongeInvariant, PTL

\* For any rate, field and calls: an answer is read off the states that follow the
\* message, in order, however squeezing was cut into calls.
THEOREM SpongeAnswerInOrder == Spec => []AnswerInOrder
<1>1. IInv => AnswerInOrder
  BY DEF IInv, SqueezeInv, Squeezing, Pos, AnswerInOrder
<1> QED BY <1>1, SpongeInvariant, PTL
-----------------------------------------------------------------------------
(***************************************************************************)
(* Whole calls                                                             *)
(***************************************************************************)
\* How often a length is full, by what is left
LEMMA FullBlocks ==
  ASSUME NEW q \in Nat, NEW r \in 0 .. Rate - 1
  PROVE  (q * Rate + r) \div Rate = q
<1>1. PICK a \in Nat : a = q * Rate + r /\ Rate \in Nat /\ Rate > 0
  <2>1. q * Rate \in Nat
    BY OneMoreBlock
  <2>2. r \in Nat /\ Rate \in Nat /\ Rate > 0
    BY RateAssumption
  <2>3. PICK p \in Nat : p = q * Rate
    BY <2>1
  <2>4. p + r \in Nat
    BY <2>2
  <2> QED BY <2>2, <2>3, <2>4, Zenon
<1>2. PICK d \in Int, m \in 0 .. Rate - 1 : d = a \div Rate /\ a = Rate * d + m
  <2>1. a \div Rate \in Int /\ a % Rate \in 0 .. Rate - 1 /\ a = Rate * (a \div Rate) + (a % Rate)
    BY <1>1, SMT
  <2> QED BY <2>1
<1>3. PICK k \in Int : k = q - d
  OBVIOUS
<1>4. Rate * k = m - r
  BY <1>1, <1>2, <1>3, SMT
<1>5. k = 0
  <2>1. CASE k >= 1
    <3>1. Rate * k >= Rate
      BY <1>1, <2>1, SMT
    <3> QED BY <1>1, <1>4, <3>1
  <2>2. CASE k <= -1
    <3>1. Rate * k <= -Rate
      BY <1>1, <2>2, SMT
    <3> QED BY <1>1, <1>4, <3>1
  <2> QED BY <2>1, <2>2
<1> QED BY <1>1, <1>2, <1>3, <1>5

LEMMA OneMoreFull ==
  ASSUME NEW a \in Nat
  PROVE  /\ a \div Rate \in Nat /\ (a + Rate) \div Rate = (a \div Rate) + 1
         /\ a < Rate => a \div Rate = 0
         /\ \A b \in 1 .. a \div Rate : b * Rate \in Nat /\ b * Rate <= a
<1>1. PICK q \in Nat, r \in 0 .. Rate - 1 : q = a \div Rate /\ a = q * Rate + r
  <2>1. a \div Rate \in Int /\ a % Rate \in 0 .. Rate - 1 /\ a = Rate * (a \div Rate) + (a % Rate)
    BY RateAssumption, SMT
  <2>2. PICK q \in Int, r \in 0 .. Rate - 1 : q = a \div Rate /\ a = Rate * q + r
    BY <2>1
  <2>3. q \in Nat
    <3>1. CASE q <= -1
      <4>1. Rate * q <= -Rate
        BY <3>1, RateAssumption, SMT
      <4> QED BY <2>2, <4>1, RateAssumption
    <3> QED BY <3>1
  <2>4. Rate * q = q * Rate
    BY RateAssumption, SMT
  <2> QED BY <2>2, <2>3, <2>4
<1>2. a + Rate = (q + 1) * Rate + r /\ q + 1 \in Nat
  BY <1>1, OneMoreBlock, RateAssumption
<1>3. (a + Rate) \div Rate = q + 1
  BY <1>2, FullBlocks
<1>4. ASSUME a < Rate PROVE q = 0
  <2>1. a = 0 * Rate + a /\ a \in 0 .. Rate - 1
    BY <1>4, RateAssumption
  <2> QED BY <1>1, <2>1, FullBlocks
<1>5. ASSUME NEW b \in 1 .. q PROVE b * Rate \in Nat /\ b * Rate <= a
  <2>1. b * Rate \in Nat /\ q * Rate \in Nat
    BY OneMoreBlock
  <2>2. PICK e \in Nat : q = b + e /\ e * Rate \in Nat
    <3>1. q - b \in Nat /\ q = b + (q - b)
      BY <1>1
    <3> QED BY <3>1, OneMoreBlock
  <2>3. q * Rate = b * Rate + e * Rate
    BY <2>2, RateAssumption, SMT
  <2> QED BY <1>1, <2>1, <2>2, <2>3
<1> QED BY <1>1, <1>3, <1>4, <1>5

\* A sequence is its elements.
LEMMA SameSequence ==
  \A T : \A u, v \in Seq(T) :
    Len(u) = Len(v) /\ (\A i \in 1 .. Len(u) : u[i] = v[i]) => u = v
  BY SMT

\* Parts of sequences
LEMMA Part ==
  ASSUME NEW T, NEW u \in Seq(T), NEW m \in Nat, NEW n \in Nat, m >= 1, n <= Len(u), m <= n + 1
  PROVE  /\ SubSeq(u, m, n) \in Seq(T) /\ Len(SubSeq(u, m, n)) = n - m + 1
         /\ \A i \in 1 .. n - m + 1 : SubSeq(u, m, n)[i] = u[m + i - 1]
<1>1. \A i \in m .. n : u[i] \in T
  OBVIOUS
<1> QED BY <1>1, SMT

\* A block, the first of all that is added, and the blocks of the rest
LEMMA OneBlockFirst ==
  ASSUME NEW old \in Seq(Lanes), NEW k \in Nat,
         NEW u \in [1 .. k + 1 -> Lanes], NEW v \in [1 .. k -> Lanes],
         \A b \in 1 .. k : v[b] = u[b + 1]
  PROVE  old \o u = Append(old, u[1]) \o v
<1>0. PICK first \in Lanes : first = u[1]
  <2>1. 1 \in 1 .. k + 1
    OBVIOUS
  <2> QED BY <2>1
<1> DEFINE one == Append(old, first)
<1>1. u \in Seq(Lanes) /\ Len(u) = k + 1
  OBVIOUS
<1>2. v \in Seq(Lanes) /\ Len(v) = k
  OBVIOUS
<1>3. /\ one \in Seq(Lanes) /\ Len(one) = Len(old) + 1 /\ one[Len(old) + 1] = first
      /\ \A i \in 1 .. Len(old) : one[i] = old[i]
  BY OneAppended
<1> HIDE DEF one
<1>4. /\ old \o u \in Seq(Lanes) /\ Len(old \o u) = Len(old) + (k + 1)
      /\ \A i \in 1 .. Len(old) : (old \o u)[i] = old[i]
      /\ \A b \in 1 .. k + 1 : (old \o u)[Len(old) + b] = u[b]
  <2>1. /\ old \o u \in Seq(Lanes) /\ Len(old \o u) = Len(old) + Len(u)
        /\ \A i \in 1 .. Len(old) : (old \o u)[i] = old[i]
        /\ \A b \in 1 .. Len(u) : (old \o u)[Len(old) + b] = u[b]
    <3>1. u \in Seq(Lanes) /\ old \in Seq(Lanes)
      BY <1>1
    <3> QED BY <3>1, SMT
  <2> QED BY <1>1, <2>1, Zenon
<1>5. /\ one \o v \in Seq(Lanes) /\ Len(one \o v) = (Len(old) + 1) + k
      /\ \A i \in 1 .. Len(old) + 1 : (one \o v)[i] = one[i]
      /\ \A b \in 1 .. k : (one \o v)[(Len(old) + 1) + b] = v[b]
  <2>1. /\ one \o v \in Seq(Lanes) /\ Len(one \o v) = Len(one) + Len(v)
        /\ \A i \in 1 .. Len(one) : (one \o v)[i] = one[i]
        /\ \A b \in 1 .. Len(v) : (one \o v)[Len(one) + b] = v[b]
    <3>1. v \in Seq(Lanes) /\ one \in Seq(Lanes)
      BY <1>2, <1>3
    <3> QED BY <3>1, SMT
  <2> QED BY <1>2, <1>3, <2>1, Zenon
<1>6. PICK n \in Nat : n = Len(old)
  OBVIOUS
<1>7. ASSUME NEW i \in 1 .. n + (k + 1) PROVE (old \o u)[i] = (one \o v)[i]
  <2>1. CASE i \in 1 .. n
    BY <1>3, <1>4, <1>5, <1>6, <2>1
  <2>2. CASE i = n + 1
    <3>1. 1 \in 1 .. k + 1 /\ n + 1 \in 1 .. n + 1
      OBVIOUS
    <3>2. (old \o u)[n + 1] = u[1]
      BY <1>4, <1>6, <3>1, Zenon
    <3>3. (one \o v)[n + 1] = u[1]
      <4>1. (one \o v)[n + 1] = one[n + 1]
        BY <1>5, <1>6, <3>1, Zenon
      <4>2. one[n + 1] = u[1]
        BY <1>0, <1>3, <1>6, Zenon
      <4> QED BY <4>1, <4>2, Zenon
    <3> QED BY <2>2, <3>2, <3>3
  <2>3. CASE i \in n + 2 .. n + (k + 1)
    <3>1. PICK b \in 1 .. k : b = i - (n + 1)
      BY <2>3
    <3>2. i = n + (b + 1) /\ i = (n + 1) + b /\ b + 1 \in 1 .. k + 1
      BY <3>1
    <3>3. (old \o u)[n + (b + 1)] = u[b + 1]
      BY <1>4, <1>6, <3>2
    <3>4. (one \o v)[(n + 1) + b] = v[b] /\ v[b] = u[b + 1]
      BY <1>5, <1>6
    <3> QED BY <3>2, <3>3, <3>4
  <2>4. i \in 1 .. n \/ i = n + 1 \/ i \in n + 2 .. n + (k + 1)
    OBVIOUS
  <2> QED BY <2>1, <2>2, <2>3, <2>4, Zenon
<1>8. old \o u = one \o v
  <2>1. Len(old \o u) = n + (k + 1) /\ Len(one \o v) = n + (k + 1)
    BY <1>4, <1>5, <1>6
  <2> QED BY <1>4, <1>5, <1>7, <2>1, SameSequence
<1> QED BY <1>0, <1>8 DEF one

\* What is after the first block of a sequence is what it was as a sequence of its own.
LEMMA Shifted ==
  ASSUME NEW T, NEW u \in Seq(T), NEW v \in Seq(T), NEW q \in Nat, Len(u) = q + Len(v),
         \A i \in 1 .. Len(v) : u[q + i] = v[i],
         NEW m \in Nat, NEW h \in Nat, m >= 1, h <= Len(v), m <= h + 1
  PROVE  SubSeq(u, q + m, q + h) = SubSeq(v, m, h)
<1>1. /\ SubSeq(u, q + m, q + h) \in Seq(T) /\ Len(SubSeq(u, q + m, q + h)) = h - m + 1
      /\ \A i \in 1 .. h - m + 1 : SubSeq(u, q + m, q + h)[i] = u[q + m + i - 1]
  <2>1. PICK a \in Nat, b \in Nat : a = q + m /\ b = q + h /\ a >= 1 /\ b <= Len(u) /\ a <= b + 1
    <3>1. q + m \in Nat /\ q + h \in Nat /\ q + m >= 1 /\ q + h <= Len(u) /\ q + m <= q + h + 1
      OBVIOUS
    <3> QED BY <3>1
  <2>2. /\ SubSeq(u, a, b) \in Seq(T) /\ Len(SubSeq(u, a, b)) = b - a + 1
        /\ \A i \in 1 .. b - a + 1 : SubSeq(u, a, b)[i] = u[a + i - 1]
    BY <2>1, Part
  <2>3. b - a + 1 = h - m + 1
    BY <2>1
  <2> QED BY <2>1, <2>2, <2>3
<1>2. /\ SubSeq(v, m, h) \in Seq(T) /\ Len(SubSeq(v, m, h)) = h - m + 1
      /\ \A i \in 1 .. h - m + 1 : SubSeq(v, m, h)[i] = v[m + i - 1]
  BY Part
<1>3. ASSUME NEW i \in 1 .. h - m + 1 PROVE SubSeq(u, q + m, q + h)[i] = SubSeq(v, m, h)[i]
  <2>1. m + i - 1 \in 1 .. Len(v) /\ q + m + i - 1 = q + (m + i - 1)
    OBVIOUS
  <2>2. u[q + (m + i - 1)] = v[m + i - 1]
    BY <2>1
  <2> QED BY <1>1, <1>2, <2>1, <2>2
<1> QED BY <1>1, <1>2, <1>3, SameSequence

\* The lanes, as the sequence that a part of them is
LEMMA LanesAreSequences ==
  /\ Lanes \subseteq Seq(Elements)
  /\ \A a \in Lanes : Len(a) = Rate
  /\ \A e \in Seq(Elements) : Len(e) = Rate => e \in Lanes
<1>1. Rate \in Nat
  BY RateAssumption
<1>2. ASSUME NEW a \in Lanes PROVE a \in Seq(Elements) /\ Len(a) = Rate
  <2>1. a \in [1 .. Rate -> Elements]
    BY DEF Lanes
  <2> QED BY <1>1, <2>1, SMT
<1>3. ASSUME NEW e \in Seq(Elements), Len(e) = Rate PROVE e \in Lanes
  BY <1>1, <1>3, SMT DEF Lanes
<1> QED BY <1>2, <1>3

LEMMA NoneAdded ==
  ASSUME NEW T, NEW u \in Seq(T)
  PROVE  /\ SubSeq(u, 1, 0) = <<>> /\ SubSeq(u, 1, Len(u)) = u
         /\ <<>> \o u = u /\ u \o <<>> = u
<1>1. SubSeq(u, 1, 0) = <<>>
  OBVIOUS
<1>2. SubSeq(u, 1, Len(u)) = u
  <2>1. /\ SubSeq(u, 1, Len(u)) \in Seq(T) /\ Len(SubSeq(u, 1, Len(u))) = Len(u)
        /\ \A i \in 1 .. Len(u) : SubSeq(u, 1, Len(u))[i] = u[i]
    <3>1. PICK l \in Nat : l = Len(u)
      OBVIOUS
    <3>2. /\ SubSeq(u, 1, l) \in Seq(T) /\ Len(SubSeq(u, 1, l)) = l - 1 + 1
          /\ \A i \in 1 .. l - 1 + 1 : SubSeq(u, 1, l)[i] = u[1 + i - 1]
      <4>1. 1 \in Nat /\ 1 >= 1 /\ l <= Len(u) /\ 1 <= l + 1
        BY <3>1
      <4> QED BY <4>1, Part
    <3>3. l - 1 + 1 = l /\ \A i \in 1 .. l : 1 + i - 1 = i
      BY <3>1
    <3> QED BY <3>1, <3>2, <3>3
  <2> QED BY <2>1, SameSequence
<1>3. <<>> \o u = u
  OBVIOUS
<1>4. u \o <<>> = u
  OBVIOUS
<1> QED BY <1>1, <1>2, <1>3, <1>4

\* A call that begins by filling up the open block is the call of what is left, on the
\* sponge that has permuted the block.
LEMMA Filling ==
  ASSUME NEW bs \in Seq(Lanes), NEW open \in Seq(Elements), NEW e \in Seq(Elements),
         NEW n \in Nat, Len(open) + n = Rate, n < Len(e),
         NEW first \in Lanes, first = open \o SubSeq(e, 1, n)
  PROVE  D!Absorb([blocks |-> bs, mode |-> "absorbing", open |-> open, index |-> 0], e)
           = D!Absorb([blocks |-> Append(bs, first), mode |-> "absorbing", open |-> <<>>, index |-> 0],
                      SubSeq(e, n + 1, Len(e)))
<1>1. PICK r \in Nat : r = Len(e) - n /\ r >= 1 /\ Len(e) = n + r
  <2>1. Len(e) - n \in Nat /\ Len(e) - n >= 1 /\ Len(e) = n + (Len(e) - n)
    OBVIOUS
  <2> QED BY <2>1
<1>2. PICK left : left = SubSeq(e, n + 1, Len(e))
  OBVIOUS
<1>3. left \in Seq(Elements) /\ Len(left) = r /\ \A i \in 1 .. r : left[i] = e[n + i]
  <2>1. PICK a \in Nat, l \in Nat : a = n + 1 /\ l = Len(e)
    <3>1. n + 1 \in Nat /\ Len(e) \in Nat
      OBVIOUS
    <3> QED BY <3>1
  <2>2. a >= 1 /\ l <= Len(e) /\ a <= l + 1
    BY <2>1
  <2>3. /\ SubSeq(e, a, l) \in Seq(Elements) /\ Len(SubSeq(e, a, l)) = l - a + 1
        /\ \A i \in 1 .. l - a + 1 : SubSeq(e, a, l)[i] = e[a + i - 1]
    BY <2>1, <2>2, Part
  <2>4. l - a + 1 = r /\ \A i \in 1 .. r : a + i - 1 = n + i
    BY <1>1, <2>1
  <2> QED BY <1>2, <2>1, <2>3, <2>4
<1>4. PICK head : head = SubSeq(e, 1, n)
  OBVIOUS
<1>5. head \in Seq(Elements) /\ Len(head) = n /\ \A i \in 1 .. n : head[i] = e[i]
  <2>1. 1 \in Nat /\ 1 >= 1 /\ n <= Len(e) /\ 1 <= n + 1
    OBVIOUS
  <2>2. /\ SubSeq(e, 1, n) \in Seq(Elements) /\ Len(SubSeq(e, 1, n)) = n - 1 + 1
        /\ \A i \in 1 .. n - 1 + 1 : SubSeq(e, 1, n)[i] = e[1 + i - 1]
    BY <2>1, Part
  <2>3. n - 1 + 1 = n /\ \A i \in 1 .. n : 1 + i - 1 = i
    OBVIOUS
  <2> QED BY <1>4, <2>2, <2>3
<1>6. PICK all : all = open \o e
  OBVIOUS
<1>7. PICK o \in Nat : o = Len(open) /\ o + n = Rate
  OBVIOUS
<1>8. /\ all \in Seq(Elements) /\ Len(all) = o + Len(e)
      /\ \A i \in 1 .. o : all[i] = open[i]
      /\ \A i \in 1 .. Len(e) : all[o + i] = e[i]
  <2>1. /\ open \o e \in Seq(Elements) /\ Len(open \o e) = Len(open) + Len(e)
        /\ \A i \in 1 .. Len(open) : (open \o e)[i] = open[i]
        /\ \A i \in 1 .. Len(e) : (open \o e)[Len(open) + i] = e[i]
    BY Appended
  <2> QED BY <1>6, <1>7, <2>1
<1>9. /\ Len(first) = Rate
      /\ \A i \in 1 .. o : first[i] = open[i]
      /\ \A i \in 1 .. n : first[o + i] = head[i]
  <2>1. /\ open \o head \in Seq(Elements) /\ Len(open \o head) = Len(open) + Len(head)
        /\ \A i \in 1 .. Len(open) : (open \o head)[i] = open[i]
        /\ \A i \in 1 .. Len(head) : (open \o head)[Len(open) + i] = head[i]
    <3>1. head \in Seq(Elements)
      BY <1>5
    <3> QED BY <3>1, SMT
  <2> QED BY <1>4, <1>5, <1>7, <2>1
<1>10. Rate \in Nat /\ Rate > 0
  BY RateAssumption
<1>11. Len(all) = Rate + Len(left)
  BY <1>1, <1>3, <1>7, <1>8
<1>12. ASSUME NEW i \in 1 .. Len(left) PROVE all[Rate + i] = left[i]
  <2>1. n + i \in 1 .. Len(e) /\ Rate + i = o + (n + i)
    BY <1>1, <1>3, <1>7
  <2>2. all[o + (n + i)] = e[n + i]
    BY <1>8, <2>1
  <2> QED BY <1>3, <2>1, <2>2
<1>13. SubSeq(all, 1, Rate) = first
  <2>1. 1 \in Nat /\ 1 >= 1 /\ Rate <= Len(all) /\ 1 <= Rate + 1
    BY <1>10, <1>11, <1>3
  <2>2. /\ SubSeq(all, 1, Rate) \in Seq(Elements) /\ Len(SubSeq(all, 1, Rate)) = Rate - 1 + 1
        /\ \A i \in 1 .. Rate - 1 + 1 : SubSeq(all, 1, Rate)[i] = all[1 + i - 1]
    BY <1>8, <1>10, <2>1, Part
  <2>3. Rate - 1 + 1 = Rate /\ \A i \in 1 .. Rate : 1 + i - 1 = i
    BY <1>10
  <2>4. ASSUME NEW i \in 1 .. Rate PROVE all[i] = first[i]
    <3>1. CASE i \in 1 .. o
      BY <1>8, <1>9, <3>1
    <3>2. CASE i \in o + 1 .. Rate
      <4>1. PICK j \in 1 .. n : i = o + j
        <5>1. i - o \in 1 .. n /\ i = o + (i - o)
          BY <1>7, <3>2
        <5> QED BY <5>1
      <4>2. j \in 1 .. Len(e)
        BY <1>1
      <4> QED BY <1>5, <1>8, <1>9, <4>1, <4>2
    <3>3. i \in 1 .. o \/ i \in o + 1 .. Rate
      BY <1>7
    <3> QED BY <3>1, <3>2, <3>3
  <2>5. first \in Seq(Elements)
    BY LanesAreSequences
  <2>6. /\ SubSeq(all, 1, Rate) \in Seq(Elements) /\ Len(SubSeq(all, 1, Rate)) = Rate
        /\ \A i \in 1 .. Rate : SubSeq(all, 1, Rate)[i] = first[i]
    BY <2>2, <2>3, <2>4
  <2> QED BY <1>9, <2>5, <2>6, SameSequence
<1>14. PICK a \in Nat, k \in Nat : a = r - 1 /\ k = a \div Rate /\ (a + Rate) \div Rate = k + 1
                                   /\ \A b \in 1 .. k : b * Rate \in Nat /\ b * Rate <= a
  <2>1. PICK a \in Nat : a = r - 1
    <3>1. r - 1 \in Nat
      BY <1>1
    <3> QED BY <3>1
  <2> QED BY <2>1, OneMoreFull
<1>15. (Len(all) - 1) \div Rate = k + 1 /\ (Len(left) - 1) \div Rate = k
  <2>1. Len(all) - 1 = a + Rate /\ Len(left) - 1 = a
    BY <1>1, <1>3, <1>10, <1>11, <1>14
  <2> QED BY <1>14, <2>1
<1>16. \A b \in 0 .. k : b * Rate \in Nat /\ b * Rate <= a /\ (b + 1) * Rate = b * Rate + Rate
  <2> SUFFICES ASSUME NEW b \in 0 .. k
               PROVE  b * Rate \in Nat /\ b * Rate <= a /\ (b + 1) * Rate = b * Rate + Rate
    OBVIOUS
  <2>1. b \in Nat /\ (b = 0 \/ b \in 1 .. k)
    OBVIOUS
  <2>2. b * Rate \in Nat /\ (b + 1) * Rate = b * Rate + Rate
    BY <2>1, OneMoreBlock
  <2>3. b = 0 => b * Rate = 0
    BY <1>10
  <2> QED BY <1>14, <2>1, <2>2, <2>3
\* the blocks
<1> DEFINE Cut(u) == [b \in 1 .. (Len(u) - 1) \div Rate |-> SubSeq(u, (b - 1) * Rate + 1, b * Rate)]
<1>17. ASSUME NEW b \in 1 .. k
       PROVE  /\ SubSeq(left, (b - 1) * Rate + 1, b * Rate) \in Lanes
              /\ SubSeq(all, ((b + 1) - 1) * Rate + 1, (b + 1) * Rate)
                   = SubSeq(left, (b - 1) * Rate + 1, b * Rate)
  <2>1. PICK c \in Nat : c = (b - 1) * Rate /\ b * Rate = c + Rate /\ c + Rate <= a
                         /\ (b + 1) * Rate = Rate + (c + Rate)
    <3>1. PICK d \in 0 .. k : d = b - 1 /\ b = d + 1 /\ d + 1 \in 0 .. k
      OBVIOUS
    <3>2. /\ d * Rate \in Nat /\ (d + 1) * Rate = d * Rate + Rate
          /\ (d + 1) * Rate <= a /\ ((d + 1) + 1) * Rate = (d + 1) * Rate + Rate
      BY <1>16, <3>1
    <3>3. PICK c \in Nat : c = d * Rate
      BY <3>2
    <3> QED BY <1>10, <3>1, <3>2, <3>3
  <2>2. PICK m \in Nat, h \in Nat : m = c + 1 /\ h = c + Rate
    BY <1>10
  <2>3. m >= 1 /\ h <= Len(left) /\ m <= h + 1 /\ h - m + 1 = Rate
    BY <1>3, <1>10, <1>14, <2>1, <2>2
  <2>4. SubSeq(all, Rate + m, Rate + h) = SubSeq(left, m, h)
    BY <1>3, <1>8, <1>10, <1>11, <1>12, <2>3, Shifted, SMTT(30)
  <2>5. SubSeq(left, m, h) \in Seq(Elements) /\ Len(SubSeq(left, m, h)) = Rate
    <3>1. SubSeq(left, m, h) \in Seq(Elements) /\ Len(SubSeq(left, m, h)) = h - m + 1
      BY <1>3, <2>3, Part
    <3> QED BY <2>3, <3>1
  <2>6. ((b + 1) - 1) * Rate + 1 = Rate + m /\ (b + 1) * Rate = Rate + h
    <3>1. (b + 1) - 1 = b
      OBVIOUS
    <3> QED BY <1>10, <2>1, <2>2, <3>1
  <2>7. SubSeq(left, m, h) \in Lanes
    BY <2>5, LanesAreSequences
  <2> QED BY <2>1, <2>2, <2>4, <2>6, <2>7
<1>18. bs \o Cut(all) = Append(bs, first) \o Cut(left)
  <2> DEFINE f == [b \in 1 .. k + 1 |-> SubSeq(all, (b - 1) * Rate + 1, b * Rate)]
             g == [b \in 1 .. k |-> SubSeq(left, (b - 1) * Rate + 1, b * Rate)]
  <2>1. f[1] = first
    <3>1. (1 - 1) * Rate + 1 = 1 /\ 1 * Rate = Rate /\ 1 \in 1 .. k + 1
      BY <1>10
    <3> QED BY <1>13, <3>1
  <2>2. ASSUME NEW b \in 1 .. k PROVE g[b] = f[b + 1] /\ g[b] \in Lanes
    <3>1. b + 1 \in 1 .. k + 1
      OBVIOUS
    <3> QED BY <1>17, <3>1
  <2>3. ASSUME NEW b \in 1 .. k + 1 PROVE f[b] \in Lanes
    <3>1. CASE b = 1
      BY <2>1, <3>1
    <3>2. CASE b \in 2 .. k + 1
      <4>1. PICK d \in 1 .. k : b = d + 1
        <5>1. b - 1 \in 1 .. k /\ b = (b - 1) + 1
          BY <3>2
        <5> QED BY <5>1
      <4> QED BY <2>2, <4>1
    <3>3. b = 1 \/ b \in 2 .. k + 1
      OBVIOUS
    <3> QED BY <3>1, <3>2, <3>3
  <2>4. Cut(all) = f /\ Cut(left) = g
    BY <1>15
  <2>5. f \in [1 .. k + 1 -> Lanes] /\ g \in [1 .. k -> Lanes]
    BY <2>2, <2>3
  <2> HIDE DEF f, g, Cut
  <2>6. bs \o f = Append(bs, first) \o g
    <3>1. PICK u \in [1 .. k + 1 -> Lanes], v \in [1 .. k -> Lanes] : u = f /\ v = g
      BY <2>5
    <3>2. \A b \in 1 .. k : v[b] = u[b + 1]
      BY <2>2, <3>1
    <3>3. bs \o u = Append(bs, u[1]) \o v
      BY <3>2, OneBlockFirst
    <3> QED BY <2>1, <3>1, <3>3
  <2> QED BY <2>4, <2>6
\* what stays open
<1>19. SubSeq(all, ((Len(all) - 1) \div Rate) * Rate + 1, Len(all))
         = SubSeq(left, ((Len(left) - 1) \div Rate) * Rate + 1, Len(left))
  <2>1. PICK c \in Nat : c = k * Rate /\ c <= a /\ (k + 1) * Rate = c + Rate
    <3>1. k \in 0 .. k
      OBVIOUS
    <3> QED BY <1>16, <3>1
  <2>2. PICK m \in Nat : m = c + 1 /\ m >= 1 /\ r <= Len(left) /\ m <= r + 1
    BY <1>3, <1>14, <2>1, SMTT(30)
  <2>3. SubSeq(all, Rate + m, Rate + r) = SubSeq(left, m, r)
    BY <1>3, <1>8, <1>10, <1>11, <1>12, <2>2, Shifted, SMTT(30)
  <2>4. (k + 1) * Rate + 1 = Rate + m /\ Len(all) = Rate + r
    BY <1>3, <1>10, <1>11, <2>1, <2>2
  <2> QED BY <1>3, <1>15, <2>1, <2>2, <2>3, <2>4
<1>20. e # <<>> /\ left # <<>>
  <2>1. Len(e) # 0 /\ Len(left) # 0 /\ Len(<<>>) = 0
    BY <1>1, <1>3
  <2> QED BY <2>1, Zenon
<1>21. <<>> \o left = left
  BY <1>3, NoneAdded
<1> DEFINE s1 == [blocks |-> bs, mode |-> "absorbing", open |-> open, index |-> 0]
           s2 == [blocks |-> Append(bs, first), mode |-> "absorbing", open |-> <<>>, index |-> 0]
<1>22. D!Absorb(s1, e) =
         [blocks |-> bs \o Cut(all), mode |-> "absorbing",
          open |-> SubSeq(all, ((Len(all) - 1) \div Rate) * Rate + 1, Len(all)), index |-> 0]
  BY <1>6, <1>20 DEF D!Absorb
<1>23. D!Absorb(s2, left) =
         [blocks |-> Append(bs, first) \o Cut(left), mode |-> "absorbing",
          open |-> SubSeq(left, ((Len(left) - 1) \div Rate) * Rate + 1, Len(left)), index |-> 0]
  BY <1>20, <1>21 DEF D!Absorb
<1> QED BY <1>2, <1>18, <1>19, <1>22, <1>23

\* Beyond the next lane nothing was added, so that filling a lane writes it.
LEMMA AddedToNothing ==
  ASSUME TypeOK, AbsorbInv, Absorbing, NEW e \in Seq(Elements), Pos + Len(e) <= Rate, Pos \in 0 .. Rate
  PROVE  /\ SubSeq(lanes, 1, Pos) \in Seq(Elements) /\ Len(SubSeq(lanes, 1, Pos)) = Pos
         /\ \A j \in 1 .. Pos + Len(e) : Added(Pos, e)[j] = (SubSeq(lanes, 1, Pos) \o e)[j]
         /\ Added(Pos, e) \in Lanes
<1>1. PICK p \in Nat, l \in Nat : p = Pos /\ l = Len(e) /\ p + l <= Rate /\ Rate \in Nat
  <2>1. Pos \in Nat /\ Len(e) \in Nat /\ Rate \in Nat
    BY RateAssumption
  <2> QED BY <2>1
<1>2. lanes \in Lanes /\ lanes \in Seq(Elements) /\ Len(lanes) = Rate
  BY LanesAreSequences DEF TypeOK
<1>3. PICK open : open = SubSeq(lanes, 1, p)
  OBVIOUS
<1>4. open \in Seq(Elements) /\ Len(open) = p /\ \A i \in 1 .. p : open[i] = lanes[i]
  <2>1. 1 \in Nat /\ 1 >= 1 /\ p <= Len(lanes) /\ 1 <= p + 1
    BY <1>1, <1>2
  <2>2. /\ SubSeq(lanes, 1, p) \in Seq(Elements) /\ Len(SubSeq(lanes, 1, p)) = p - 1 + 1
        /\ \A i \in 1 .. p - 1 + 1 : SubSeq(lanes, 1, p)[i] = lanes[1 + i - 1]
    BY <1>2, <2>1, Part
  <2>3. p - 1 + 1 = p /\ \A i \in 1 .. p : 1 + i - 1 = i
    OBVIOUS
  <2> QED BY <1>3, <2>2, <2>3
<1>5. /\ \A i \in 1 .. p : (open \o e)[i] = open[i]
      /\ \A i \in 1 .. l : (open \o e)[p + i] = e[i]
  <2>1. open \in Seq(Elements)
    BY <1>4
  <2>2. /\ \A i \in 1 .. Len(open) : (open \o e)[i] = open[i]
        /\ \A i \in 1 .. Len(e) : (open \o e)[Len(open) + i] = e[i]
    BY <2>1, SMT
  <2> QED BY <1>1, <1>4, <2>2
<1>6. \A j \in p + 1 .. Rate : lanes[j] = Zero
  <2> SUFFICES ASSUME NEW j \in p + 1 .. Rate PROVE lanes[j] = Zero
    OBVIOUS
  <2>1. j \in 1 .. Rate /\ ~(j <= p)
    BY <1>1
  <2>2. lanes[j] = IF j <= Pos THEN message[Full * Rate + j] ELSE Zero
    BY <2>1 DEF AbsorbInv
  <2> QED BY <1>1, <2>1, <2>2
<1>7. ASSUME NEW j \in 1 .. p + l PROVE Added(p, e)[j] = (open \o e)[j]
  <2>1. CASE j \in 1 .. p
    <3>1. j \in 1 .. Rate /\ j \notin p + 1 .. p + Len(e)
      BY <1>1, <2>1
    <3>2. Added(p, e)[j] = lanes[j]
      BY <3>1 DEF Added
    <3> QED BY <1>4, <1>5, <2>1, <3>2
  <2>2. CASE j \in p + 1 .. p + l
    <3>1. j \in 1 .. Rate /\ j \in p + 1 .. p + Len(e) /\ j - p \in 1 .. l /\ p + (j - p) = j
          /\ j \in p + 1 .. Rate /\ j - p \in 1 .. Len(e)
      BY <1>1, <2>2
    <3>2. Added(p, e)[j] = Plus(lanes[j], e[j - p])
      BY <3>1 DEF Added
    <3>3. lanes[j] = Zero /\ e[j - p] \in Elements
      BY <1>6, <3>1
    <3>4. Plus(Zero, e[j - p]) = e[j - p]
      BY <3>3, ElementAssumption
    <3>5. (open \o e)[p + (j - p)] = e[j - p]
      BY <1>5, <3>1
    <3>6. Added(p, e)[j] = e[j - p]
      BY <3>2, <3>3, <3>4
    <3>7. (open \o e)[j] = e[j - p]
      BY <3>1, <3>5
    <3> QED BY <3>6, <3>7
  <2>3. j \in 1 .. p \/ j \in p + 1 .. p + l
    OBVIOUS
  <2> QED BY <2>1, <2>2, <2>3
<1>8. Added(p, e) \in Lanes
  <2>1. p \in 0 .. Rate
    BY <1>1
  <2> QED BY <2>1, AddedType
<1> QED BY <1>1, <1>3, <1>4, <1>7, <1>8

\* A call that adds takes effect when it starts.
LEMMA AddTakesEffect ==
  ASSUME TypeOK, AbsorbInv, NEW elements \in Messages, Add(elements)
  PROVE  Ended' = D!Absorb(Ended, elements)
<1>1. /\ doing = "nothing" /\ doing' = "absorbing" /\ rest' = elements
      /\ elements # <<>> /\ elements \in Seq(Elements) /\ Pos = index
  BY CallAssumption DEF Add, Pos
<1>2. Ended = Standing(mode, index)
  BY <1>1 DEF Ended
<1>3. Ended' = D!Absorb(Standing("absorbing", start)', elements)
  BY <1>1 DEF Ended
<1>4. /\ lanes \in Lanes /\ blocks \in Seq(Lanes) /\ index \in 0 .. Rate
      /\ lanes \in Seq(Elements) /\ Len(lanes) = Rate /\ Rate \in Nat /\ Rate > 0
  BY RateAssumption, LanesAreSequences DEF TypeOK
<1>5. CASE mode = "squeezing"
  <2>1. start' = 0 /\ lanes' = lanes /\ blocks' = blocks
    BY <1>1, <1>5 DEF Add
  <2>2. SubSeq(lanes, 1, 0) = <<>>
    BY <1>4, NoneAdded
  <2>3. Standing("absorbing", start)'
          = [blocks |-> blocks, mode |-> "absorbing", open |-> <<>>, index |-> 0]
    BY <2>1, <2>2 DEF Standing
  <2>4. Standing(mode, index)
          = [blocks |-> blocks, mode |-> "squeezing", open |-> <<>>, index |-> index]
    BY <1>5 DEF Standing
  <2>5. D!Absorb([blocks |-> blocks, mode |-> "absorbing", open |-> <<>>, index |-> 0], elements)
          = D!Absorb([blocks |-> blocks, mode |-> "squeezing", open |-> <<>>, index |-> index],
                     elements)
    BY <1>1 DEF D!Absorb
  <2> QED BY <1>2, <1>3, <2>3, <2>4, <2>5
<1>6. CASE mode = "absorbing" /\ index < Rate
  <2>1. start' = index /\ lanes' = lanes /\ blocks' = blocks
    BY <1>1, <1>4, <1>6 DEF Add
  <2>2. Standing("absorbing", start)' = Standing(mode, index)
    BY <1>6, <2>1 DEF Standing
  <2> QED BY <1>2, <1>3, <2>2
<1>7. CASE mode = "absorbing" /\ index = Rate
  <2>1. start' = 0 /\ lanes' = NoLanes /\ blocks' = Append(blocks, lanes)
    BY <1>1, <1>4, <1>7 DEF Add, Permute
  <2>2. NoLanes \in Seq(Elements)
    <3>1. NoLanes \in Lanes
      BY ElementAssumption DEF NoLanes, Lanes
    <3> QED BY <3>1, LanesAreSequences
  <2>3. SubSeq(NoLanes, 1, 0) = <<>> /\ SubSeq(lanes, 1, Rate) = lanes
    BY <1>4, <2>2, NoneAdded
  <2>4. SubSeq(elements, 1, 0) = <<>> /\ SubSeq(elements, 1, Len(elements)) = elements
        /\ lanes \o <<>> = lanes
    BY <1>1, <1>4, NoneAdded
  <2>5. Standing("absorbing", start)'
          = [blocks |-> Append(blocks, lanes), mode |-> "absorbing", open |-> <<>>, index |-> 0]
    BY <2>1, <2>3 DEF Standing
  <2>6. Standing(mode, index)
          = [blocks |-> blocks, mode |-> "absorbing", open |-> lanes, index |-> 0]
    BY <1>7, <2>3 DEF Standing
  <2>7. 0 < Len(elements) /\ Len(lanes) + 0 = Rate /\ 0 \in Nat /\ 0 + 1 = 1
    <3>1. Len(elements) \in Nat /\ (Len(elements) = 0 => elements = <<>>)
      BY <1>1
    <3> QED BY <1>1, <1>4, <3>1
  <2>8. D!Absorb([blocks |-> blocks, mode |-> "absorbing", open |-> lanes, index |-> 0], elements)
          = D!Absorb([blocks |-> Append(blocks, lanes), mode |-> "absorbing", open |-> <<>>,
                      index |-> 0], SubSeq(elements, 0 + 1, Len(elements)))
    <3>1. PICK n \in Nat : n = 0 /\ Len(lanes) + n = Rate /\ n < Len(elements)
      BY <2>7
    <3>2. PICK first \in Lanes : first = lanes
      BY <1>4
    <3>3. first = lanes \o SubSeq(elements, 1, n)
      BY <2>4, <3>1, <3>2
    <3>4. D!Absorb([blocks |-> blocks, mode |-> "absorbing", open |-> lanes, index |-> 0], elements)
            = D!Absorb([blocks |-> Append(blocks, first), mode |-> "absorbing", open |-> <<>>,
                        index |-> 0], SubSeq(elements, n + 1, Len(elements)))
      <4>1. blocks \in Seq(Lanes) /\ lanes \in Seq(Elements) /\ elements \in Seq(Elements)
        BY <1>1, <1>4
      <4>2. Len(lanes) + n = Rate /\ n < Len(elements)
        BY <3>1
      <4> QED BY <3>3, <4>1, <4>2, Filling, Zenon
    <3> QED BY <3>1, <3>2, <3>4
  <2> QED BY <1>2, <1>3, <2>4, <2>5, <2>6, <2>7, <2>8
<1> QED BY <1>4, <1>5, <1>6, <1>7 DEF TypeOK

\* An iteration of absorb_internal brings the sponge no further than the call did.
LEMMA BlockChangesNothing ==
  ASSUME TypeOK, RoomInv, AbsorbInv, AbsorbBlock
  PROVE  Ended' = Ended
<1>1. /\ doing = "absorbing" /\ doing' = "absorbing" /\ Pos = start /\ Absorbing
      /\ start' = 0 /\ lanes' = NoLanes /\ start < Rate /\ start + Len(rest) > Rate
  BY DEF AbsorbBlock, RoomInv, Pos, Absorbing
<1>2. /\ lanes \in Lanes /\ blocks \in Seq(Lanes) /\ rest \in Seq(Elements)
      /\ start \in 0 .. Rate /\ Rate \in Nat /\ Rate > 0
  BY RateAssumption DEF TypeOK
<1>3. PICK n \in Nat : n = Rate - start /\ start + n = Rate /\ n < Len(rest)
  <2>1. Rate - start \in Nat /\ start + (Rate - start) = Rate /\ Rate - start < Len(rest)
    BY <1>1, <1>2
  <2> QED BY <2>1
<1>4. PICK e : e = SubSeq(rest, 1, n)
  OBVIOUS
<1>5. e \in Seq(Elements) /\ Len(e) = n
  <2>1. 1 \in Nat /\ 1 >= 1 /\ n <= Len(rest) /\ 1 <= n + 1
    BY <1>2, <1>3
  <2>2. SubSeq(rest, 1, n) \in Seq(Elements) /\ Len(SubSeq(rest, 1, n)) = n - 1 + 1
    BY <1>2, <2>1, Part
  <2>3. n - 1 + 1 = n
    OBVIOUS
  <2> QED BY <1>4, <2>2, <2>3
<1>6. blocks' = Append(blocks, Added(start, e)) /\ rest' = SubSeq(rest, n + 1, Len(rest))
  BY <1>3, <1>4 DEF AbsorbBlock
<1>7. PICK open \in Seq(Elements), first \in Lanes :
        /\ open = SubSeq(lanes, 1, start) /\ Len(open) = start /\ first = Added(start, e)
        /\ \A j \in 1 .. Rate : first[j] = (open \o e)[j]
  <2>1. Pos + Len(e) = Rate /\ Pos \in 0 .. Rate /\ Rate <= Rate
    BY <1>1, <1>2, <1>3, <1>5
  <2>2. /\ SubSeq(lanes, 1, Pos) \in Seq(Elements) /\ Len(SubSeq(lanes, 1, Pos)) = Pos
        /\ \A j \in 1 .. Pos + Len(e) : Added(Pos, e)[j] = (SubSeq(lanes, 1, Pos) \o e)[j]
        /\ Added(Pos, e) \in Lanes
    BY <1>1, <1>5, <2>1, AddedToNothing
  <2> QED BY <1>1, <2>1, <2>2
<1>8. first = open \o e
  <2>1. first \in Seq(Elements) /\ Len(first) = Rate
    BY LanesAreSequences
  <2>2. open \o e \in Seq(Elements) /\ Len(open \o e) = Len(open) + Len(e)
    <3>1. open \in Seq(Elements) /\ e \in Seq(Elements)
      BY <1>5
    <3> QED BY <3>1, SMT
  <2>3. Len(open \o e) = Rate
    BY <1>3, <1>5, <1>7, <2>2
  <2> QED BY <1>7, <2>1, <2>2, <2>3, SameSequence
<1>9. D!Absorb([blocks |-> blocks, mode |-> "absorbing", open |-> open, index |-> 0], rest)
        = D!Absorb([blocks |-> Append(blocks, first), mode |-> "absorbing", open |-> <<>>,
                    index |-> 0], SubSeq(rest, n + 1, Len(rest)))
  <2>1. blocks \in Seq(Lanes) /\ rest \in Seq(Elements) /\ Len(open) + n = Rate /\ n < Len(rest)
    BY <1>2, <1>3, <1>7
  <2>2. first = open \o SubSeq(rest, 1, n)
    BY <1>4, <1>8
  <2> QED BY <2>1, <2>2, Filling, Zenon
<1>10. Ended = D!Absorb([blocks |-> blocks, mode |-> "absorbing", open |-> open, index |-> 0], rest)
  BY <1>1, <1>7 DEF Ended, Standing
<1>11. Ended' = D!Absorb([blocks |-> Append(blocks, first), mode |-> "absorbing", open |-> <<>>,
                          index |-> 0], SubSeq(rest, n + 1, Len(rest)))
  <2>1. SubSeq(NoLanes, 1, 0) = <<>>
    <3>1. NoLanes \in Lanes
      BY ElementAssumption DEF NoLanes, Lanes
    <3>2. NoLanes \in Seq(Elements)
      BY <3>1, LanesAreSequences
    <3> QED BY <3>2, NoneAdded
  <2>2. Standing("absorbing", start)'
          = [blocks |-> Append(blocks, first), mode |-> "absorbing", open |-> <<>>, index |-> 0]
    BY <1>1, <1>6, <1>7, <2>1 DEF Standing
  <2>3. Ended' = D!Absorb(Standing("absorbing", start)', rest')
    BY <1>1 DEF Ended
  <2> QED BY <1>6, <2>2, <2>3
<1> QED BY <1>9, <1>10, <1>11

LEMMA RestChangesNothing ==
  ASSUME TypeOK, RoomInv, AbsorbInv, AbsorbRest
  PROVE  Ended' = Ended
<1>1. /\ doing = "absorbing" /\ doing' = "nothing" /\ Pos = start /\ Absorbing
      /\ rest # <<>> /\ start + Len(rest) <= Rate
      /\ lanes' = Added(start, rest) /\ mode' = "absorbing" /\ index' = start + Len(rest)
      /\ blocks' = blocks
  BY DEF AbsorbRest, RoomInv, Pos, Absorbing
<1>2. /\ lanes \in Lanes /\ blocks \in Seq(Lanes) /\ rest \in Seq(Elements)
      /\ start \in 0 .. Rate /\ Rate \in Nat /\ Rate > 0
  BY RateAssumption DEF TypeOK
<1>3. PICK l \in Nat : l = start + Len(rest) /\ l >= 1 /\ l <= Rate
  <2>1. Len(rest) \in Nat /\ (Len(rest) = 0 => rest = <<>>)
    BY <1>2
  <2>2. start + Len(rest) \in Nat /\ start + Len(rest) >= 1
    BY <1>1, <1>2, <2>1
  <2> QED BY <1>1, <2>2
<1>4. PICK open \in Seq(Elements), added \in Lanes :
        /\ open = SubSeq(lanes, 1, start) /\ Len(open) = start /\ added = Added(start, rest)
        /\ \A j \in 1 .. l : added[j] = (open \o rest)[j]
  <2>1. Pos + Len(rest) <= Rate /\ Pos \in 0 .. Rate
    BY <1>1, <1>2
  <2>2. /\ SubSeq(lanes, 1, Pos) \in Seq(Elements) /\ Len(SubSeq(lanes, 1, Pos)) = Pos
        /\ \A j \in 1 .. Pos + Len(rest) : Added(Pos, rest)[j] = (SubSeq(lanes, 1, Pos) \o rest)[j]
        /\ Added(Pos, rest) \in Lanes
    BY <1>1, <1>2, <2>1, AddedToNothing
  <2> QED BY <1>1, <1>3, <2>2
<1>5. PICK all \in Seq(Elements) : all = open \o rest /\ Len(all) = l
  <2>1. open \o rest \in Seq(Elements) /\ Len(open \o rest) = Len(open) + Len(rest)
    <3>1. open \in Seq(Elements) /\ rest \in Seq(Elements)
      BY <1>2
    <3> QED BY <3>1, SMT
  <2> QED BY <1>3, <1>4, <2>1
<1>6. SubSeq(added, 1, l) = all
  <2>1. added \in Seq(Elements) /\ Len(added) = Rate
    BY LanesAreSequences
  <2>2. 1 \in Nat /\ 1 >= 1 /\ l <= Len(added) /\ 1 <= l + 1
    BY <1>3, <2>1
  <2>3. /\ SubSeq(added, 1, l) \in Seq(Elements) /\ Len(SubSeq(added, 1, l)) = l - 1 + 1
        /\ \A i \in 1 .. l - 1 + 1 : SubSeq(added, 1, l)[i] = added[1 + i - 1]
    BY <2>1, <2>2, Part
  <2>4. l - 1 + 1 = l /\ \A i \in 1 .. l : 1 + i - 1 = i
    OBVIOUS
  <2>5. /\ SubSeq(added, 1, l) \in Seq(Elements) /\ Len(SubSeq(added, 1, l)) = Len(all)
        /\ \A i \in 1 .. Len(all) : SubSeq(added, 1, l)[i] = all[i]
    BY <1>4, <1>5, <2>3, <2>4
  <2> QED BY <2>5, SameSequence
<1>7. (l - 1) \div Rate = 0 /\ 0 * Rate = 0
  <2>1. l - 1 \in Nat /\ l - 1 < Rate
    BY <1>2, <1>3
  <2> QED BY <1>2, <2>1, OneMoreFull
<1>8. blocks \o [b \in 1 .. 0 |-> SubSeq(all, (b - 1) * Rate + 1, b * Rate)] = blocks
  <2>1. [b \in 1 .. 0 |-> SubSeq(all, (b - 1) * Rate + 1, b * Rate)] = <<>>
    OBVIOUS
  <2> QED BY <1>2, <2>1, NoneAdded
<1>9. SubSeq(all, 0 * Rate + 1, Len(all)) = all
  <2>1. SubSeq(all, 1, Len(all)) = all
    BY NoneAdded
  <2> QED BY <1>7, <2>1
<1>10. Ended = [blocks |-> blocks, mode |-> "absorbing", open |-> all, index |-> 0]
  <2>1. Ended = D!Absorb([blocks |-> blocks, mode |-> "absorbing", open |-> open, index |-> 0], rest)
    BY <1>1, <1>4 DEF Ended, Standing
  <2>2. (Len(all) - 1) \div Rate = 0
    BY <1>5, <1>7
  <2>3. D!Absorb([blocks |-> blocks, mode |-> "absorbing", open |-> open, index |-> 0], rest)
          = [blocks |-> blocks \o [b \in 1 .. (Len(all) - 1) \div Rate |->
                                     SubSeq(all, (b - 1) * Rate + 1, b * Rate)],
             mode |-> "absorbing",
             open |-> SubSeq(all, ((Len(all) - 1) \div Rate) * Rate + 1, Len(all)), index |-> 0]
    BY <1>1, <1>5 DEF D!Absorb
  <2> QED BY <1>8, <1>9, <2>1, <2>2, <2>3
<1>11. Ended' = [blocks |-> blocks, mode |-> "absorbing", open |-> all, index |-> 0]
  <2>1. Ended' = Standing(mode, index)'
    BY <1>1 DEF Ended
  <2>2. Standing(mode, index)'
          = [blocks |-> blocks', mode |-> mode',
             open |-> IF mode' = "absorbing" THEN SubSeq(lanes', 1, index') ELSE <<>>,
             index |-> IF mode' = "squeezing" THEN index' ELSE 0]
    BY DEF Standing
  <2> QED BY <1>1, <1>3, <1>4, <1>6, <2>1, <2>2
<1> QED BY <1>10, <1>11

\* A call that squeezes takes effect when it starts.
LEMMA GetTakesEffect ==
  ASSUME TypeOK, AbsorbInv, SqueezeInv, NEW k \in 0 .. MaxGet, Get(k)
  PROVE  Ended' = D!Squeeze(Ended, k)
<1>1. doing = "nothing" /\ doing' = "squeezing" /\ wanted' = k /\ Pos = index
  BY DEF Get, Pos
<1>2. Ended = Standing(mode, index) /\ Ended' = D!Squeeze(Standing("squeezing", start)', k)
  BY <1>1 DEF Ended
<1>3. /\ lanes \in Lanes /\ blocks \in Seq(Lanes) /\ index \in 0 .. Rate
      /\ lanes \in Seq(Elements) /\ Len(lanes) = Rate /\ Rate \in Nat /\ Rate > 0
  BY RateAssumption, LanesAreSequences DEF TypeOK
<1>4. Standing("squeezing", start)'
        = [blocks |-> blocks', mode |-> "squeezing", open |-> <<>>, index |-> start']
  BY DEF Standing
<1>5. D!Padded(<<>>) = NoLanes
  BY <1>3 DEF D!Padded, NoLanes
<1>6. D!Ready(Standing(mode, index)) = D!Ready(Standing("squeezing", start)')
  <2>1. CASE mode = "absorbing"
    <3>1. start' = 0 /\ blocks' = Append(blocks, lanes)
      BY <2>1 DEF Get, Permute
    <3>0. PICK open : open = SubSeq(lanes, 1, index)
      OBVIOUS
    <3>2. PICK p \in Nat : p = index /\ p <= Rate /\ open = SubSeq(lanes, 1, p)
      <4>1. index \in Nat /\ index <= Rate
        BY <1>3
      <4> QED BY <3>0, <4>1
    <3>3. Len(open) = p /\ \A i \in 1 .. p : open[i] = lanes[i]
      <4>1. 1 \in Nat /\ 1 >= 1 /\ p <= Len(lanes) /\ 1 <= p + 1
        BY <1>3, <3>2
      <4>2. /\ Len(SubSeq(lanes, 1, p)) = p - 1 + 1
            /\ \A i \in 1 .. p - 1 + 1 : SubSeq(lanes, 1, p)[i] = lanes[1 + i - 1]
        BY <1>3, <4>1, Part
      <4>3. p - 1 + 1 = p /\ \A i \in 1 .. p : 1 + i - 1 = i
        OBVIOUS
      <4> QED BY <3>2, <4>2, <4>3
    <3>4. Absorbing
      BY <1>1, <2>1 DEF Absorbing
    <3>5. ASSUME NEW j \in 1 .. Rate
          PROVE  lanes[j] = IF j <= Len(open) THEN open[j] ELSE Zero
      <4>1. lanes[j] = IF j <= Pos THEN message[Full * Rate + j] ELSE Zero
        BY <3>4 DEF AbsorbInv
      <4>2. CASE j <= p
        <5>1. j \in 1 .. p
          BY <1>3, <4>2
        <5> QED BY <3>3, <4>2, <5>1
      <4>3. CASE ~(j <= p)
        BY <1>1, <3>2, <3>3, <4>1, <4>3
      <4> QED BY <4>2, <4>3
    <3>6. D!Padded(open) = lanes
      <4>1. lanes \in [1 .. Rate -> Elements]
        BY <1>3 DEF Lanes
      <4>2. lanes = [j \in 1 .. Rate |-> lanes[j]]
        BY <4>1
      <4> QED BY <3>5, <4>2 DEF D!Padded
    <3>7. Standing(mode, index)
            = [blocks |-> blocks, mode |-> "absorbing", open |-> open, index |-> 0]
      BY <2>1, <3>2 DEF Standing
    <3>8. D!Ready(Standing(mode, index))
            = [blocks |-> Append(blocks, lanes), mode |-> "squeezing", open |-> <<>>, index |-> 0]
      BY <3>6, <3>7 DEF D!Ready
    <3>9. Standing("squeezing", start)'
            = [blocks |-> Append(blocks, lanes), mode |-> "squeezing", open |-> <<>>, index |-> 0]
      BY <1>4, <3>1
    <3>10. D!Ready([blocks |-> Append(blocks, lanes), mode |-> "squeezing", open |-> <<>>, index |-> 0])
             = [blocks |-> Append(blocks, lanes), mode |-> "squeezing", open |-> <<>>, index |-> 0]
      BY <1>3 DEF D!Ready
    <3> QED BY <3>8, <3>9, <3>10
  <2>2. CASE mode = "squeezing"
    <3>1. Standing(mode, index)
            = [blocks |-> blocks, mode |-> "squeezing", open |-> <<>>, index |-> index]
      BY <2>2 DEF Standing
    <3>2. CASE index < Rate
      <4>1. start' = index /\ blocks' = blocks
        BY <1>3, <2>2, <3>2 DEF Get
      <4> QED BY <1>4, <3>1, <4>1
    <3>3. CASE index = Rate
      <4>1. start' = 0 /\ blocks' = Append(blocks, lanes)
        BY <1>3, <2>2, <3>3 DEF Get, Permute
      <4>2. lanes = NoLanes
        BY <1>1, <2>2 DEF SqueezeInv, Squeezing
      <4>3. D!Ready([blocks |-> blocks, mode |-> "squeezing", open |-> <<>>, index |-> Rate])
              = [blocks |-> Append(blocks, NoLanes), mode |-> "squeezing", open |-> <<>>,
                 index |-> 0]
        BY <1>5 DEF D!Ready
      <4>4. D!Ready([blocks |-> Append(blocks, NoLanes), mode |-> "squeezing", open |-> <<>>,
                     index |-> 0])
              = [blocks |-> Append(blocks, NoLanes), mode |-> "squeezing", open |-> <<>>,
                 index |-> 0]
        BY <1>3 DEF D!Ready
      <4> QED BY <1>4, <3>1, <3>3, <4>1, <4>2, <4>3, <4>4
    <3> QED BY <1>3, <3>2, <3>3
  <2> QED BY <2>1, <2>2 DEF TypeOK
<1>7. D!Squeeze(Standing(mode, index), k) = D!Squeeze(Standing("squeezing", start)', k)
  BY <1>6 DEF D!Squeeze
<1> QED BY <1>2, <1>7

\* The permutations that squeeze_internal will go through
Iterations(at, n) == IF n = 0 THEN 0 ELSE (at + n - 1) \div Rate

\* What the sponge will be once squeeze_internal has ended
LEMMA SqueezeFrom ==
  ASSUME NEW bs, NEW at \in Nat, at < Rate, NEW n \in Nat
  PROVE  D!Squeeze([blocks |-> bs, mode |-> "squeezing", open |-> <<>>, index |-> at], n)
           = [blocks |-> bs \o [b \in 1 .. Iterations(at, n) |-> D!Padded(<<>>)],
              mode |-> "squeezing", open |-> <<>>, index |-> at + n - Iterations(at, n) * Rate]
<1>1. at # Rate
  BY RateAssumption
<1> DEFINE s == [blocks |-> bs, mode |-> "squeezing", open |-> <<>>, index |-> at]
<1>2. D!Ready(s) = s
  BY <1>1 DEF D!Ready
<1>3. PICK times : /\ times = Iterations(at, n)
                   /\ times = IF n = 0 THEN 0 ELSE (at + n - 1) \div Rate
  BY DEF Iterations
<1>4. s.index = at /\ s.blocks = bs
  OBVIOUS
<1>5. D!Squeeze(s, n)
        = [D!Ready(s) EXCEPT
             !.blocks = D!Permuted(D!Ready(s), IF n = 0 THEN 0 ELSE (D!Ready(s).index + n - 1) \div Rate),
             !.index = D!Ready(s).index + n
                       - (IF n = 0 THEN 0 ELSE (D!Ready(s).index + n - 1) \div Rate) * Rate]
  BY DEF D!Squeeze
<1> HIDE DEF s
<1>6. D!Squeeze(s, n)
        = [s EXCEPT !.blocks = D!Permuted(s, times), !.index = at + n - times * Rate]
  BY <1>2, <1>3, <1>4, <1>5
<1>7. D!Permuted(s, times) = bs \o [b \in 1 .. times |-> D!Padded(<<>>)]
  BY <1>4 DEF D!Permuted
<1> QED BY <1>3, <1>6, <1>7 DEF s

\* An iteration of squeeze_internal brings the sponge no further than the call did.
LEMMA SqueezingChangesNothing ==
  ASSUME TypeOK, RoomInv, SqueezeInv, SqueezeBlock
  PROVE  Ended' = Ended
<1>1. /\ doing = "squeezing" /\ doing' = "squeezing" /\ start' = 0 /\ start < Rate
      /\ start + wanted > Rate /\ wanted' = wanted - (Rate - start) /\ lanes = NoLanes
      /\ wanted' # 0 => Permute
  BY DEF SqueezeBlock, RoomInv, SqueezeInv, Squeezing
<1>2. blocks \in Seq(Lanes) /\ start \in Nat /\ wanted \in Nat /\ Rate \in Nat /\ Rate > 0
  BY RateAssumption DEF TypeOK
<1>3. PICK a \in Nat : a = wanted' - 1 /\ start + wanted - 1 = a + Rate /\ wanted' \in Nat
                       /\ wanted' # 0 /\ start + wanted = wanted' + Rate
  <2>1. PICK w \in Int : w = wanted - (Rate - start)
    BY <1>2
  <2>2. w - 1 \in Nat /\ start + wanted - 1 = (w - 1) + Rate /\ w \in Nat /\ w # 0
        /\ start + wanted = w + Rate
    BY <1>1, <1>2, <2>1
  <2> QED BY <1>1, <2>1, <2>2
<1>4. PICK k \in Nat : k = a \div Rate /\ (a + Rate) \div Rate = k + 1
  BY OneMoreFull
<1>5. blocks' = Append(blocks, NoLanes)
  BY <1>1, <1>3 DEF Permute
<1>6. D!Padded(<<>>) = NoLanes /\ NoLanes \in Lanes
  BY <1>2, ElementAssumption DEF D!Padded, NoLanes, Lanes
<1>7. Ended = [blocks |-> blocks \o [b \in 1 .. k + 1 |-> NoLanes], mode |-> "squeezing",
               open |-> <<>>, index |-> start + wanted - (k + 1) * Rate]
  <2>1. wanted # 0 /\ (start + wanted - 1) \div Rate = k + 1
    BY <1>1, <1>2, <1>3, <1>4
  <2>2. Ended = D!Squeeze([blocks |-> blocks, mode |-> "squeezing", open |-> <<>>, index |-> start],
                          wanted)
    BY <1>1 DEF Ended, Standing
  <2>3. Iterations(start, wanted) = k + 1
    BY <2>1 DEF Iterations
  <2>4. D!Squeeze([blocks |-> blocks, mode |-> "squeezing", open |-> <<>>, index |-> start], wanted)
          = [blocks |-> blocks \o [b \in 1 .. Iterations(start, wanted) |-> D!Padded(<<>>)],
             mode |-> "squeezing", open |-> <<>>,
             index |-> start + wanted - Iterations(start, wanted) * Rate]
    BY <1>1, <1>2, SqueezeFrom
  <2> QED BY <1>6, <2>2, <2>3, <2>4
<1>8. Ended' = [blocks |-> Append(blocks, NoLanes) \o [b \in 1 .. k |-> NoLanes],
                mode |-> "squeezing", open |-> <<>>, index |-> 0 + wanted' - k * Rate]
  <2>1. (0 + wanted' - 1) \div Rate = k /\ 0 \in Nat /\ 0 < Rate
    <3>1. 0 + wanted' - 1 = a
      BY <1>3
    <3> QED BY <1>2, <1>4, <3>1
  <2>2. Standing("squeezing", start)'
          = [blocks |-> Append(blocks, NoLanes), mode |-> "squeezing", open |-> <<>>, index |-> 0]
    BY <1>1, <1>5 DEF Standing
  <2>3. Ended' = D!Squeeze([blocks |-> Append(blocks, NoLanes), mode |-> "squeezing",
                            open |-> <<>>, index |-> 0], wanted')
    BY <1>1, <2>2 DEF Ended
  <2>4. PICK w \in Nat : w = wanted' /\ w # 0
    BY <1>3
  <2>5. D!Squeeze([blocks |-> Append(blocks, NoLanes), mode |-> "squeezing",
                   open |-> <<>>, index |-> 0], w)
          = [blocks |-> Append(blocks, NoLanes) \o [b \in 1 .. k |-> D!Padded(<<>>)],
             mode |-> "squeezing", open |-> <<>>, index |-> 0 + w - k * Rate]
    <3>1. PICK z \in Nat : z = 0 /\ z < Rate
      BY <2>1
    <3>2. D!Squeeze([blocks |-> Append(blocks, NoLanes), mode |-> "squeezing",
                     open |-> <<>>, index |-> z], w)
            = [blocks |-> Append(blocks, NoLanes) \o [b \in 1 .. Iterations(z, w) |-> D!Padded(<<>>)],
               mode |-> "squeezing", open |-> <<>>, index |-> z + w - Iterations(z, w) * Rate]
      <4>1. z < Rate
        BY <3>1
      <4> QED BY <4>1, SqueezeFrom, Zenon
    <3>3. Iterations(z, w) = k
      BY <2>1, <2>4, <3>1 DEF Iterations
    <3> QED BY <3>1, <3>2, <3>3
  <2> QED BY <1>6, <2>3, <2>4, <2>5
<1>9. blocks \o [b \in 1 .. k + 1 |-> NoLanes] = Append(blocks, NoLanes) \o [b \in 1 .. k |-> NoLanes]
  <2>1. PICK u \in [1 .. k + 1 -> Lanes], v \in [1 .. k -> Lanes] :
          u = [b \in 1 .. k + 1 |-> NoLanes] /\ v = [b \in 1 .. k |-> NoLanes]
    BY <1>6
  <2>2. u[1] = NoLanes /\ \A b \in 1 .. k : v[b] = u[b + 1]
    <3>1. 1 \in 1 .. k + 1 /\ \A b \in 1 .. k : b + 1 \in 1 .. k + 1
      OBVIOUS
    <3> QED BY <2>1, <3>1
  <2>3. blocks \o u = Append(blocks, u[1]) \o v
    BY <1>2, <2>2, OneBlockFirst
  <2> QED BY <2>1, <2>2, <2>3
<1>10. start + wanted - (k + 1) * Rate = 0 + wanted' - k * Rate
  <2>1. PICK c \in Nat : c = k * Rate /\ (k + 1) * Rate = c + Rate
    BY OneMoreBlock
  <2>2. PICK w \in Nat : w = wanted' /\ start + wanted = w + Rate
    BY <1>3
  <2>3. start + wanted - (c + Rate) = 0 + w - c
    <3>1. PICK f \in Nat, n \in Nat, r \in Nat : f = start /\ n = wanted /\ r = Rate
      BY <1>2
    <3>2. f + n = w + r
      BY <2>2, <3>1
    <3>3. f + n - (c + r) = 0 + w - c
      BY <3>2
    <3> QED BY <3>1, <3>3
  <2> QED BY <2>1, <2>2, <2>3
<1> QED BY <1>7, <1>8, <1>9, <1>10

LEMMA SqueezedChangesNothing ==
  ASSUME TypeOK, RoomInv, SqueezeRest
  PROVE  Ended' = Ended
<1>1. /\ doing = "squeezing" /\ doing' = "nothing" /\ mode' = "squeezing" /\ start < Rate
      /\ start + wanted <= Rate /\ index' = start + wanted /\ blocks' = blocks
  BY DEF SqueezeRest, RoomInv
<1>2. blocks \in Seq(Lanes) /\ start \in Nat /\ wanted \in Nat /\ Rate \in Nat /\ Rate > 0
  BY RateAssumption DEF TypeOK
<1>3. wanted # 0 => (start + wanted - 1) \div Rate = 0
  <2> SUFFICES ASSUME wanted # 0 PROVE (start + wanted - 1) \div Rate = 0
    OBVIOUS
  <2>1. start + wanted - 1 \in Nat /\ start + wanted - 1 < Rate
    BY <1>1, <1>2
  <2> QED BY <2>1, OneMoreFull
<1>4. Ended = [blocks |-> blocks \o [b \in 1 .. 0 |-> D!Padded(<<>>)], mode |-> "squeezing",
               open |-> <<>>, index |-> start + wanted - 0 * Rate]
  <2>1. Ended = D!Squeeze([blocks |-> blocks, mode |-> "squeezing", open |-> <<>>, index |-> start],
                          wanted)
    BY <1>1 DEF Ended, Standing
  <2>2. Iterations(start, wanted) = 0
    BY <1>3 DEF Iterations
  <2>3. D!Squeeze([blocks |-> blocks, mode |-> "squeezing", open |-> <<>>, index |-> start], wanted)
          = [blocks |-> blocks \o [b \in 1 .. Iterations(start, wanted) |-> D!Padded(<<>>)],
             mode |-> "squeezing", open |-> <<>>,
             index |-> start + wanted - Iterations(start, wanted) * Rate]
    BY <1>1, <1>2, SqueezeFrom
  <2> QED BY <2>1, <2>2, <2>3
<1>5. blocks \o [b \in 1 .. 0 |-> D!Padded(<<>>)] = blocks
  <2>1. [b \in 1 .. 0 |-> D!Padded(<<>>)] = <<>>
    OBVIOUS
  <2> QED BY <1>2, <2>1, NoneAdded
<1>6. start + wanted - 0 * Rate = start + wanted
  BY <1>2
<1>7. Ended' = Standing(mode, index)'
  BY <1>1 DEF Ended
<1>8. Standing(mode, index)'
        = [blocks |-> blocks, mode |-> "squeezing", open |-> <<>>, index |-> start + wanted]
  BY <1>1 DEF Standing
<1> QED BY <1>4, <1>5, <1>6, <1>7, <1>8

\* Every step is a whole call of the abstract sponge, or none.
LEMMA CallOrNothing == IInv /\ [Next]_vars => [Atomic!Next]_Ended
<1> SUFFICES ASSUME TypeOK, RoomInv, AbsorbInv, SqueezeInv, [Next]_vars
             PROVE  Atomic!Next \/ Ended' = Ended
  BY DEF IInv
<1>1. ASSUME NEW elements \in Messages, Add(elements) PROVE Atomic!Next
  <2>1. D!Absorb(Ended, elements) = Atomic!Absorb(Ended, elements)
    BY DEF D!Absorb, Atomic!Absorb
  <2> QED BY <1>1, <2>1, AddTakesEffect DEF Atomic!Next
<1>2. ASSUME NEW k \in 0 .. MaxGet, Get(k) PROVE Atomic!Next
  <2>1. D!Squeeze(Ended, k) = Atomic!Squeeze(Ended, k)
    BY DEF D!Squeeze, D!Ready, D!Permuted, D!Padded,
           Atomic!Squeeze, Atomic!Ready, Atomic!Permuted, Atomic!Padded
  <2> QED BY <1>2, <2>1, GetTakesEffect DEF Atomic!Next
<1>3. CASE AbsorbBlock \/ AbsorbRest \/ SqueezeBlock \/ SqueezeRest
  BY <1>3, BlockChangesNothing, RestChangesNothing, SqueezingChangesNothing, SqueezedChangesNothing
<1>4. CASE UNCHANGED vars
  BY <1>4 DEF vars, sponge, loop, history, Ended, Standing
<1> QED BY <1>1, <1>2, <1>3, <1>4 DEF Next

\* The loops of absorb_internal and squeeze_internal implement the calls of SpongeCalls, for
\* every rate, field and series of calls: what a call adds or squeezes depends on the calls
\* before it alone.
THEOREM SpongeIsAtomic == Spec => CallsAreAtomic
<1>1. Init => Atomic!Init
  <2> SUFFICES ASSUME Init PROVE Ended = Atomic!NewSponge
    BY DEF Atomic!Init
  <2>1. SubSeq(lanes, 1, 0) = <<>>
    <3>1. lanes \in Seq(Elements)
      BY SpongeTypeInit, LanesAreSequences DEF TypeOK
    <3> QED BY <3>1, NoneAdded
  <2> QED BY <2>1 DEF Init, Ended, Standing, Atomic!NewSponge
<1> QED BY <1>1, CallOrNothing, SpongeInvariant, PTL DEF Spec, CallsAreAtomic, Atomic!Spec
=============================================================================
