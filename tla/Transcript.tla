------------------------------ MODULE Transcript ------------------------------
(***************************************************************************)
(* The transcripts of crates/primitives/src/transcripts: the methods that  *)
(* the traits Transcript and TranscriptGadget provide on top of a duplex   *)
(* sponge, and the transcripts that record and replay challenges.          *)
(*                                                                         *)
(* A transcript is kept with its in-circuit variable: every call is made   *)
(* on both, on the variable by the methods of the gadget.  The sponge is   *)
(* that of DuplexCalls.  An element is a number, when it was added, or is  *)
(* known by where it was squeezed.                                         *)
(***************************************************************************)
EXTENDS Integers, Sequences, SequencesExt

CONSTANTS
  Rate,
  Modulus, UsableBits,       \* UsableBits is MODULUS_BIT_SIZE - 1
  ByteBits, LengthBytes,     \* 8, and the 8 bytes of a u64
  Hashes,                    \* hashes of public parameters
  Domains,                   \* what domains are separated by, sequences of bytes
  Messages,                  \* what is added, sequences of sequences of numbers
  Gets, Bits,                \* how many elements, how many bits a call asks for
  MaxTranscripts, MaxCalls   \* bounds on the transcripts, and on all calls made

ASSUME FieldAssumption ==
  /\ {Modulus, UsableBits, ByteBits, LengthBytes} \subseteq Nat \ {0}
  /\ 2 ^ UsableBits <= Modulus /\ Modulus < 2 ^ (UsableBits + 1)
  /\ ByteBits <= UsableBits
ASSUME CallAssumption ==
  /\ Rate \in Nat \ {0} /\ Gets \subseteq Nat /\ Bits \subseteq Nat
  /\ Messages \subseteq Seq(Seq(Nat))
ASSUME DomainAssumption ==
  \A d \in Domains : d \in Seq(0 .. 2 ^ ByteBits - 1) /\ Len(d) < 2 ^ (ByteBits * LengthBytes)

VARIABLES
  transcripts,  \* in the order they are made
  made,         \* number of calls made
  calls         \* history: for each transcript, the calls that led to it

vars == <<transcripts, made, calls>>

Number(n) == [number |-> n]

S == INSTANCE DuplexCalls WITH Zero <- Number(0)

\* Absorbable, AbsorbableVar: the items of a slice one after the other, without a length
Absorbed(message) == [j \in 1 .. Len(FlattenSeq(message)) |-> Number(FlattenSeq(message)[j])]

-----------------------------------------------------------------------------
(***************************************************************************)
(* What the three kinds of transcript implement themselves, each value and *)
(* variable alike: a hash, a RecordingTranscript and a ReplayTranscript.   *)
(***************************************************************************)
AddElements(t, elements) ==
  IF t.kind = "replay" THEN t ELSE [t EXCEPT !.sponge = S!Absorb(@, elements)]

\* A ReplayTranscript pops from the end of its challenges, and panics when there are none.
RunsDry(t, n) == t.kind = "replay" /\ n > Len(t.cached)

Elements(t, n) ==
  IF t.kind = "replay"
  THEN [k \in 1 .. n |-> t.cached[Len(t.cached) - k + 1]]
  ELSE S!Squeezed(t.sponge, n)

AfterElements(t, n) ==
  CASE t.kind = "hash" -> [t EXCEPT !.sponge = S!Squeeze(@, n)]
    [] t.kind = "recording" ->
         [t EXCEPT !.sponge = S!Squeeze(@, n), !.cached = @ \o Elements(t, n)]
    [] t.kind = "replay" -> [t EXCEPT !.cached = SubSeq(@, 1, Len(@) - n)]

\* RecordingTranscript::new
Recording(t) == [kind |-> "recording", sponge |-> t.sponge, cached |-> <<>>]

\* Mutant: the challenges are not turned around, and the last is replayed first
MutReplaying(t) == [kind |-> "replay", sponge |-> S!NewSponge, cached |-> t.cached]

\* ReplayTranscript::from and new
Replaying(t) == [kind |-> "replay", sponge |-> S!NewSponge, cached |-> Reverse(t.cached)]

-----------------------------------------------------------------------------
(***************************************************************************)
(* What the trait Transcript provides                                      *)
(***************************************************************************)
NewWithHash(h) ==
  AddElements([kind |-> "hash", sponge |-> S!NewSponge, cached |-> <<>>], <<Number(h)>>)

\* Little-endian bytes as a number, in the field
FromBytes(bytes) ==
  LET first[n \in 0 .. Len(bytes)] ==
        IF n = 0 THEN 0 ELSE first[n - 1] + bytes[n] * 2 ^ (ByteBits * (n - 1))
  IN  first[Len(bytes)] % Modulus

ToBytes(n) == [k \in 1 .. LengthBytes |-> (n \div 2 ^ (ByteBits * (k - 1))) % 2 ^ ByteBits]

Ceil(a, b) == (a + b - 1) \div b

ChunksOf(size, bytes) ==
  [c \in 1 .. Ceil(Len(bytes), size) |->
     LET last == IF c * size < Len(bytes) THEN c * size ELSE Len(bytes)
     IN  Number(FromBytes(SubSeq(bytes, (c - 1) * size + 1, last)))]

\* Mutant: chunks of as many bytes as the modulus has
MutChunks(bytes) == ChunksOf((UsableBits + 1) \div ByteBits, bytes)

\* Bytes in chunks that fit an element
Chunks(bytes) == ChunksOf(UsableBits \div ByteBits, bytes)

\* Mutant: the length alone
MutSeparateDomain(t, d) == AddElements(t, Chunks(ToBytes(Len(d))))

SeparateDomain(t, d) == AddElements(t, Chunks(ToBytes(Len(d)) \o d))

AfterChallengeElements(t, n) == AddElements(AfterElements(t, n), Elements(t, n))

\* The elements that n bits are taken from
Sources(n) == Ceil(n, UsableBits)

\* Usable bits of every element, and of those the first n
ToBits(elements, n) ==
  [k \in 1 .. n |-> [of |-> elements[(k - 1) \div UsableBits + 1], bit |-> (k - 1) % UsableBits]]

GetBits(t, n) == ToBits(Elements(t, Sources(n)), n)
AfterBits(t, n) == AfterElements(t, Sources(n))

AfterChallengeBits(t, n) == AfterChallengeElements(t, Sources(n))

-----------------------------------------------------------------------------
(***************************************************************************)
(* What the trait TranscriptGadget provides                                *)
(***************************************************************************)
VarNewWithHash(h) ==
  AddElements([kind |-> "hash", sponge |-> S!NewSponge, cached |-> <<>>], <<Number(h)>>)

VarSeparateDomain(t, d) == AddElements(t, Chunks(ToBytes(Len(d)) \o d))

VarAfterChallengeElements(t, n) == AddElements(AfterElements(t, n), Elements(t, n))

VarGetBits(t, n) == ToBits(Elements(t, Sources(n)), n)
VarAfterBits(t, n) == AfterElements(t, Sources(n))

\* Mutant: the elements are not absorbed back
MutVarAfterChallengeBits(t, n) == AfterElements(t, Sources(n))

VarAfterChallengeBits(t, n) == VarAfterChallengeElements(t, Sources(n))

-----------------------------------------------------------------------------
(***************************************************************************)
(* The calls                                                               *)
(***************************************************************************)
Pair(value, variable) == [value |-> value, variable |-> variable]

Call(op, size, arg, answer, answerVar) ==
  [op |-> op, size |-> size, arg |-> arg, answer |-> answer, answerVar |-> answerVar]

Init == transcripts = <<>> /\ made = 0 /\ calls = <<>>

\* Transcript t is replaced, and call is added to its history
Update(t, pair, call) ==
  /\ made < MaxCalls /\ made' = made + 1
  /\ transcripts' = [transcripts EXCEPT ![t] = pair]
  /\ calls' = [calls EXCEPT ![t] = Append(@, call)]

\* A transcript is made, which continues a history
Create(pair, history) ==
  /\ made < MaxCalls /\ made' = made + 1
  /\ Len(transcripts) < MaxTranscripts
  /\ transcripts' = Append(transcripts, pair) /\ calls' = Append(calls, history)

New(h) ==
  Create(Pair(NewWithHash(h), VarNewWithHash(h)), <<Call("new", 1, <<h>>, <<>>, <<>>)>>)

\* The transcript itself stays what it was
Separate(t, d) ==
  LET pair == transcripts[t]
  IN  Create(Pair(SeparateDomain(pair.value, d), VarSeparateDomain(pair.variable, d)),
             Append(calls[t], Call("separate", Len(d), d, <<>>, <<>>)))

Record(t) ==
  LET pair == transcripts[t]
  IN  /\ pair.value.kind = "hash"
      /\ Create(Pair(Recording(pair.value), Recording(pair.variable)),
                Append(calls[t], Call("record", 0, <<>>, <<>>, <<>>)))

\* transcript.clone().into()
Replay(t) ==
  LET pair == transcripts[t]
  IN  /\ pair.value.kind = "recording"
      /\ Create(Pair(Replaying(pair.value), Replaying(pair.variable)),
                Append(calls[t], Call("replay", 0, <<>>, <<>>, <<>>)))

Add(t, message) ==
  LET pair == transcripts[t]
      elements == Absorbed(message)
  IN  Update(t, Pair(AddElements(pair.value, elements), AddElements(pair.variable, elements)),
             Call("add", Len(elements), elements, <<>>, <<>>))

GetFieldElements(t, n) ==
  LET pair == transcripts[t]
  IN  /\ ~RunsDry(pair.value, n)
      /\ Update(t, Pair(AfterElements(pair.value, n), AfterElements(pair.variable, n)),
                Call("elements", n, <<>>, Elements(pair.value, n), Elements(pair.variable, n)))

ChallengeFieldElements(t, n) ==
  LET pair == transcripts[t]
  IN  /\ ~RunsDry(pair.value, n)
      /\ Update(t, Pair(AfterChallengeElements(pair.value, n),
                        VarAfterChallengeElements(pair.variable, n)),
                Call("elements", n, <<>>, Elements(pair.value, n), Elements(pair.variable, n)))

GetTheBits(t, n) ==
  LET pair == transcripts[t]
  IN  /\ ~RunsDry(pair.value, Sources(n))
      /\ Update(t, Pair(AfterBits(pair.value, n), VarAfterBits(pair.variable, n)),
                Call("bits", n, <<>>, GetBits(pair.value, n), VarGetBits(pair.variable, n)))

ChallengeBits(t, n) ==
  LET pair == transcripts[t]
  IN  /\ ~RunsDry(pair.value, Sources(n))
      /\ Update(t, Pair(AfterChallengeBits(pair.value, n), VarAfterChallengeBits(pair.variable, n)),
                Call("bits", n, <<>>, GetBits(pair.value, n), VarGetBits(pair.variable, n)))

\* pop().unwrap() on an empty list; the transcript is not used any more
Panic(t, op, n) ==
  LET pair == transcripts[t]
      panicked == [pair.value EXCEPT !.kind = "panicked"]
  IN  /\ RunsDry(pair.value, IF op = "bits" THEN Sources(n) ELSE n)
      /\ Update(t, Pair(panicked, panicked), Call(op, n, <<>>, <<>>, <<>>))

Usable == {t \in DOMAIN transcripts : transcripts[t].value.kind # "panicked"}

Next ==
  \/ \E h \in Hashes : New(h)
  \/ \E t \in Usable :
       \/ \E d \in Domains : Separate(t, d)
       \/ Record(t) \/ Replay(t)
       \/ \E message \in Messages : Add(t, message)
       \/ \E n \in Gets : GetFieldElements(t, n) \/ ChallengeFieldElements(t, n)
       \/ \E n \in Bits : GetTheBits(t, n) \/ ChallengeBits(t, n)
       \/ \E n \in Gets : Panic(t, "elements", n)
       \/ \E n \in Bits : Panic(t, "bits", n)

Spec == Init /\ [][Next]_vars

-----------------------------------------------------------------------------
\* Whatever is called on it, the variable of a transcript is in the state of the
\* transcript, and has returned the same elements and bits.
VariableAgrees ==
  \A t \in DOMAIN transcripts :
    /\ transcripts[t].variable = transcripts[t].value
    /\ \A c \in DOMAIN calls[t] : calls[t][c].answerVar = calls[t][c].answer

\* The calls that squeeze, in order
Squeezes(history) ==
  LET first[n \in 0 .. Len(history)] ==
        IF n = 0 THEN <<>>
        ELSE IF history[n].op \in {"elements", "bits"} THEN Append(first[n - 1], history[n])
        ELSE first[n - 1]
  IN  first[Len(history)]

Shape(history) == [c \in DOMAIN history |-> <<history[c].op, history[c].size>>]
CallOf(op, history) == CHOOSE c \in DOMAIN history : history[c].op = op
Before(op, history) == SubSeq(history, 1, CallOf(op, history) - 1)
Since(op, history) == SubSeq(history, CallOf(op, history) + 1, Len(history))

\* However a replay is reached, in every call that repeats a call of the recording it
\* answers what the recording has answered, and as long as only such calls are made it
\* does not run out of challenges.
ReplaysRecording ==
  \A t \in DOMAIN transcripts :
    transcripts[t].value.kind \in {"replay", "panicked"} =>
      LET recorded == Squeezes(Since("record", Before("replay", calls[t])))
          replayed == Squeezes(Since("replay", calls[t]))
      IN  IsPrefix(Shape(replayed), Shape(recorded)) =>
            /\ transcripts[t].value.kind = "replay"
            /\ \A c \in DOMAIN replayed : replayed[c].answer = recorded[c].answer

Answered(t) == UNION {ToSet(calls[t][c].answer) : c \in DOMAIN calls[t]}

AnsweredFrom(c, history) == UNION {ToSet(history[e].answer) : e \in c .. Len(history)}

\* Two transcripts that continue the same one in different domains never come to the
\* same state, and have no answer in common from then on, whatever is added to them.
DomainsApart ==
  \A t, u \in DOMAIN transcripts : \A c \in DOMAIN calls[t] \cap DOMAIN calls[u] :
    /\ SubSeq(calls[t], 1, c - 1) = SubSeq(calls[u], 1, c - 1) /\ calls[t][c] # calls[u][c]
    /\ calls[t][c].op = "separate" /\ calls[u][c].op = "separate"
    /\ \A x \in {t, u} : \A e \in DOMAIN calls[x] : calls[x][e].op # "replay"
    => /\ transcripts[t].value.sponge # transcripts[u].value.sponge
       /\ AnsweredFrom(c, calls[t]) \cap AnsweredFrom(c, calls[u]) = {}

\* An answer binds all that was put in: two transcripts that were called in the same way
\* and once gave the same answer had been given the same hash, domains and messages.
\* A replay absorbs nothing, and its answers bind what those of its recording do.
AnswersBind ==
  \A t, u \in DOMAIN transcripts : \A c \in DOMAIN calls[t] \cap DOMAIN calls[u] :
    /\ Shape(SubSeq(calls[t], 1, c)) = Shape(SubSeq(calls[u], 1, c))
    /\ calls[t][c].answer = calls[u][c].answer /\ calls[t][c].answer # <<>>
    /\ \A e \in 1 .. c : calls[t][e].op # "replay"
    => SubSeq(calls[t], 1, c) = SubSeq(calls[u], 1, c)

\* No element and no bit is squeezed twice.
AnswersFresh ==
  \A t \in DOMAIN transcripts : \A c, d \in DOMAIN calls[t] :
    LET history == calls[t]
    IN  /\ transcripts[t].value.kind \in {"hash", "recording"}
        /\ c < d
        => /\ ToSet(history[c].answer) \cap ToSet(history[d].answer) = {}
           /\ IsInjective(history[d].answer)
=============================================================================
