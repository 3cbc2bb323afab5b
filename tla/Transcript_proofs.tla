--------------------------- MODULE Transcript_proofs ---------------------------
(***************************************************************************)
(* Proofs about transcripts, for any rate, field, domains, messages and    *)
(* calls: the in-circuit transcript never differs from the transcript, no  *)
(* element and no bit is squeezed twice, a replay answers what its         *)
(* recording has answered, an answer binds all that was put in, and        *)
(* transcripts stay apart once they were separated by different domains.   *)
(*                                                                         *)
(* A sponge squeezes the elements of the states it goes through in order.  *)
(* Every element has a place in that order.  Absorbing and squeezing never *)
(* go back, so that whatever is answered later has a later place; a bit is *)
(* known by the place of its element and where it is in it.                *)
(*                                                                         *)
(* What a sponge has taken in is laid out in blocks, and is never changed. *)
(* What may come to stand behind it is a number, or an element squeezed at *)
(* a later place.  Two sponges are apart when at some position nothing can *)
(* stand that both allow.  Inputs that differ part sponges, sponges that   *)
(* are apart stay apart, and their states never agree again.               *)
(***************************************************************************)
EXTENDS Transcript, FiniteSetTheorems, TLAPS, WellFoundedInduction
-----------------------------------------------------------------------------
(***************************************************************************)
(* Sequences                                                               *)
(***************************************************************************)
IsSeq(s) == \E T : s \in Seq(T)

LEMMA SeqDomain ==
  ASSUME NEW s, IsSeq(s)
  PROVE  Len(s) \in Nat /\ DOMAIN s = 1 .. Len(s) /\ s = [i \in 1 .. Len(s) |-> s[i]]
<1>1. PICK T : s \in Seq(T)
  BY DEF IsSeq
<1> QED BY <1>1, SMT

\* A function on the first n numbers is a sequence.
LEMMA SeqOfFunction ==
  ASSUME NEW n \in Nat, NEW f, f = [i \in 1 .. n |-> f[i]]
  PROVE  IsSeq(f) /\ Len(f) = n
<1> DEFINE T == {f[i] : i \in 1 .. n}
<1>1. \A i \in 1 .. n : f[i] \in T
  OBVIOUS
<1> HIDE DEF T
<1>2. f \in [1 .. n -> T]
  BY <1>1
<1>3. f \in Seq(T) /\ Len(f) = n
  BY <1>2, SMT
<1> QED BY <1>3 DEF IsSeq

LEMMA SeqEmpty == IsSeq(<<>>) /\ Len(<<>>) = 0
<1>1. <<>> \in Seq({}) /\ Len(<<>>) = 0
  OBVIOUS
<1> QED BY <1>1 DEF IsSeq

LEMMA SeqAppend ==
  ASSUME NEW s, IsSeq(s), NEW e
  PROVE  /\ IsSeq(Append(s, e)) /\ Len(Append(s, e)) = Len(s) + 1
         /\ Append(s, e)[Len(s) + 1] = e
         /\ \A i \in 1 .. Len(s) : Append(s, e)[i] = s[i]
<1>1. PICK T : s \in Seq(T)
  BY DEF IsSeq
<1> DEFINE U == T \cup {e}
<1>2. s \in Seq(U) /\ e \in U
  BY <1>1, SMT
<1> HIDE DEF U
<1>3. /\ Append(s, e) \in Seq(U) /\ Len(Append(s, e)) = Len(s) + 1
      /\ Append(s, e)[Len(s) + 1] = e
      /\ \A i \in 1 .. Len(s) : Append(s, e)[i] = s[i]
  BY <1>2, SMT
<1> QED BY <1>3 DEF IsSeq

LEMMA SeqConcat ==
  ASSUME NEW s, IsSeq(s), NEW t, IsSeq(t)
  PROVE  /\ IsSeq(s \o t) /\ Len(s \o t) = Len(s) + Len(t)
         /\ \A i \in 1 .. Len(s) : (s \o t)[i] = s[i]
         /\ \A i \in 1 .. Len(t) : (s \o t)[Len(s) + i] = t[i]
<1>1. PICK T : s \in Seq(T)
  BY DEF IsSeq
<1>2. PICK V : t \in Seq(V)
  BY DEF IsSeq
<1> DEFINE U == T \cup V
<1>3. s \in Seq(U) /\ t \in Seq(U)
  BY <1>1, <1>2, SMT
<1> HIDE DEF U
<1>4. /\ s \o t \in Seq(U) /\ Len(s \o t) = Len(s) + Len(t)
      /\ \A i \in 1 .. Len(s) : (s \o t)[i] = s[i]
      /\ \A i \in 1 .. Len(t) : (s \o t)[Len(s) + i] = t[i]
  BY <1>3, SMT
<1> QED BY <1>4 DEF IsSeq

LEMMA SeqPart ==
  ASSUME NEW s, IsSeq(s), NEW m \in Nat, NEW n \in Nat, m >= 1, n <= Len(s), m <= n + 1
  PROVE  /\ IsSeq(SubSeq(s, m, n)) /\ Len(SubSeq(s, m, n)) = n - m + 1
         /\ \A i \in 1 .. n - m + 1 : SubSeq(s, m, n)[i] = s[m + i - 1]
<1>1. PICK T : s \in Seq(T)
  BY DEF IsSeq
<1>2. \A i \in m .. n : s[i] \in T
  BY <1>1
<1>3. /\ SubSeq(s, m, n) \in Seq(T) /\ Len(SubSeq(s, m, n)) = n - m + 1
      /\ \A i \in 1 .. n - m + 1 : SubSeq(s, m, n)[i] = s[m + i - 1]
  BY <1>1, <1>2, SMT
<1> QED BY <1>3 DEF IsSeq

\* A sequence is its elements.
LEMMA SameElements ==
  \A T : \A u, v \in Seq(T) :
    Len(u) = Len(v) /\ (\A i \in 1 .. Len(u) : u[i] = v[i]) => u = v
  BY SMT

LEMMA OneSeq ==
  \A s, t : IsSeq(s) /\ IsSeq(t) /\ Len(s) = Len(t) /\ (\A i \in 1 .. Len(s) : s[i] = t[i]) => s = t
<1> SUFFICES ASSUME NEW s, NEW t, IsSeq(s), IsSeq(t)
             PROVE  Len(s) = Len(t) /\ (\A i \in 1 .. Len(s) : s[i] = t[i]) => s = t
  OBVIOUS
<1>1. PICK T : s \in Seq(T)
  BY DEF IsSeq
<1>2. PICK V : t \in Seq(V)
  BY DEF IsSeq
<1>3. s \in Seq(T \cup V) /\ t \in Seq(T \cup V)
  BY <1>1, <1>2, SMT
<1> QED BY <1>3, SameElements, Zenon

LEMMA SeqUpdate ==
  ASSUME NEW s, IsSeq(s), NEW k \in DOMAIN s, NEW e
  PROVE  /\ IsSeq([s EXCEPT ![k] = e]) /\ Len([s EXCEPT ![k] = e]) = Len(s)
         /\ DOMAIN [s EXCEPT ![k] = e] = DOMAIN s
         /\ [s EXCEPT ![k] = e][k] = e
         /\ \A i \in DOMAIN s \ {k} : [s EXCEPT ![k] = e][i] = s[i]
<1> DEFINE u == [s EXCEPT ![k] = e]
<1>1. PICK n \in Nat : n = Len(s) /\ DOMAIN s = 1 .. n /\ s = [i \in 1 .. n |-> s[i]]
  BY SeqDomain
<1>2. u = [i \in 1 .. n |-> u[i]] /\ DOMAIN u = 1 .. n
  BY <1>1
<1>3. u[k] = e /\ \A i \in DOMAIN s \ {k} : u[i] = s[i]
  OBVIOUS
<1> HIDE DEF u
<1>4. IsSeq(u) /\ Len(u) = n
  BY <1>2, SeqOfFunction
<1> QED BY <1>1, <1>2, <1>3, <1>4 DEF u

-----------------------------------------------------------------------------
\* Every nonempty set of numbers has a least one.
LEMMA Least ==
  ASSUME NEW T \in SUBSET Nat, NEW t \in T
  PROVE  \E n \in T : \A m \in T : n <= m
<1> DEFINE R == OpToRel(<, Nat)
<1>1. IsWellFoundedOn(R, Nat)
  BY NatLessThanWellFounded
<1>2. \A x, y \in Nat : x < y => <<x, y>> \in R
  BY DEF OpToRel
<1> HIDE DEF R
<1>3. PICK x \in T : \A y \in T : ~(<<y, x>> \in R)
  BY <1>1, WFMin
<1>4. \A y \in T : ~(y < x)
  BY <1>2, <1>3, Zenon
<1>5. \A y \in T : x <= y
  BY <1>4, SMT
<1> QED BY <1>5

\* A set of numbers that holds 0 and, with a number, the next one up to n, holds those up to n.
LEMMA UpTo ==
  ASSUME NEW n \in Nat, NEW T, 0 \in T, \A k \in 1 .. n : k - 1 \in T => k \in T
  PROVE  0 .. n \subseteq T
<1> SUFFICES ASSUME NEW t \in 0 .. n, t \notin T PROVE FALSE
  OBVIOUS
<1> DEFINE U == (0 .. n) \ T
<1>1. U \in SUBSET Nat /\ t \in U
  OBVIOUS
<1>2. PICK k \in U : \A m \in U : k <= m
  BY <1>1, Least
<1>3. k \in 1 .. n /\ k - 1 \in 0 .. n /\ ~(k <= k - 1)
  BY <1>2
<1>4. k - 1 \in T
  BY <1>2, <1>3
<1> QED BY <1>2, <1>3, <1>4

\* FlattenSeq of the community modules, by which the items of a slice are absorbed one after
\* the other, yields a sequence.
LEMMA Flattened == ASSUME NEW m \in Seq(Seq(Nat)) PROVE IsSeq(FlattenSeq(m))
<1>1. PICK n \in Nat : n = Len(m) /\ \A i \in 1 .. n : m[i] \in Seq(Nat)
  OBVIOUS
<1> DEFINE Step(f, i) == IF i = 1 THEN m[i] ELSE f[i - 1] \o m[i]
           T == {k \in 0 .. n : \E f \in [1 .. k -> Seq(Nat)] : \A i \in 1 .. k : f[i] = Step(f, i)}
<1>2. 0 \in T
  <2> DEFINE f == [i \in 1 .. 0 |-> <<>>]
  <2>1. f \in [1 .. 0 -> Seq(Nat)] /\ 1 .. 0 = {} /\ 0 \in 0 .. n
    OBVIOUS
  <2>2. \A i \in 1 .. 0 : f[i] = Step(f, i)
    BY <2>1
  <2> HIDE DEF f, Step
  <2> QED BY <2>1, <2>2
<1>3. ASSUME NEW k \in 1 .. n, k - 1 \in T PROVE k \in T
  <2>1. PICK f \in [1 .. k - 1 -> Seq(Nat)] : \A i \in 1 .. k - 1 : f[i] = Step(f, i)
    BY <1>3
  <2> DEFINE g == [i \in 1 .. k |-> IF i = k THEN Step(f, k) ELSE f[i]]
  <2>2. Step(f, k) \in Seq(Nat)
    <3>1. m[k] \in Seq(Nat)
      BY <1>1
    <3>2. CASE k = 1
      BY <3>1, <3>2
    <3>3. CASE k # 1
      <4>1. k - 1 \in 1 .. k - 1
        BY <3>3
      <4>2. f[k - 1] \in Seq(Nat)
        BY <4>1
      <4>3. f[k - 1] \o m[k] \in Seq(Nat)
        BY <3>1, <4>2
      <4> QED BY <3>3, <4>3
    <3> QED BY <3>2, <3>3
  <2>3. g \in [1 .. k -> Seq(Nat)]
    <3>1. ASSUME NEW i \in 1 .. k PROVE (IF i = k THEN Step(f, k) ELSE f[i]) \in Seq(Nat)
      <4>1. i # k => i \in 1 .. k - 1
        OBVIOUS
      <4> HIDE DEF Step
      <4> QED BY <2>2, <4>1
    <3> HIDE DEF Step
    <3> QED BY <3>1
  <2>4. ASSUME NEW i \in 1 .. k PROVE g[i] = Step(g, i)
    <3>1. i # 1 => i - 1 \in 1 .. k - 1 /\ i - 1 \in 1 .. k /\ i - 1 # k
      OBVIOUS
    <3>2. i # 1 => g[i - 1] = f[i - 1]
      BY <3>1
    <3>3. Step(g, i) = Step(f, i)
      <4> HIDE DEF g
      <4> QED BY <3>2
    <3>4. i # k => i \in 1 .. k - 1
      OBVIOUS
    <3> HIDE DEF Step
    <3>5. g[i] = IF i = k THEN Step(f, k) ELSE f[i]
      OBVIOUS
    <3>6. CASE i = k
      BY <3>3, <3>5, <3>6, Zenon
    <3>7. CASE i # k
      BY <2>1, <3>3, <3>4, <3>5, <3>7, Zenon
    <3> QED BY <3>6, <3>7
  <2>5. k \in 0 .. n
    OBVIOUS
  <2> HIDE DEF g, Step
  <2> QED BY <2>3, <2>4, <2>5
<1> HIDE DEF T
<1>4. n \in T
  <2>1. 0 .. n \subseteq T
    BY <1>2, <1>3, UpTo, Zenon
  <2> QED BY <2>1
<1>5. PICK f \in [1 .. n -> Seq(Nat)] : \A i \in 1 .. n : f[i] = Step(f, i)
  BY <1>4 DEF T
<1>6. CASE n = 0
  <2>1. FlattenSeq(m) = m
    BY <1>1, <1>6 DEF FlattenSeq
  <2> QED BY <2>1 DEF IsSeq
<1>7. CASE n # 0
  <2>1. f = [i \in 1 .. n |-> IF i = 1 THEN m[i] ELSE f[i - 1] \o m[i]]
    BY <1>5
  <2> DEFINE g == CHOOSE h : h = [i \in 1 .. n |-> IF i = 1 THEN m[i] ELSE h[i - 1] \o m[i]]
  <2>2. g = [i \in 1 .. n |-> IF i = 1 THEN m[i] ELSE g[i - 1] \o m[i]]
    BY <2>1
  <2>3. FlattenSeq(m) = g[n]
    BY <1>1, <1>7 DEF FlattenSeq
  <2> HIDE DEF g
  <2>4. \A i \in 1 .. n : g[i] = IF i = 1 THEN m[i] ELSE g[i - 1] \o m[i]
    BY <2>2
  <2> DEFINE V == {k \in 0 .. n : k = 0 \/ g[k] \in Seq(Nat)}
  <2>5. 0 \in V
    OBVIOUS
  <2>6. ASSUME NEW k \in 1 .. n, k - 1 \in V PROVE k \in V
    <3>1. m[k] \in Seq(Nat) /\ k \in 0 .. n
      BY <1>1
    <3>2. CASE k = 1
      BY <2>4, <3>1, <3>2
    <3>3. CASE k # 1
      <4>1. g[k - 1] \in Seq(Nat)
        BY <2>6, <3>3
      <4>2. g[k] = g[k - 1] \o m[k]
        BY <2>4, <3>3
      <4>3. g[k - 1] \o m[k] \in Seq(Nat)
        BY <3>1, <4>1
      <4> QED BY <3>1, <4>2, <4>3
    <3> QED BY <3>2, <3>3
  <2> HIDE DEF V
  <2>7. 0 .. n \subseteq V
    BY <2>5, <2>6, UpTo, Zenon
  <2>8. g[n] \in Seq(Nat)
    <3>1. n \in 0 .. n
      OBVIOUS
    <3>2. n \in V
      BY <2>7, <3>1
    <3> QED BY <1>7, <3>2 DEF V
  <2> QED BY <2>3, <2>8 DEF IsSeq
<1> QED BY <1>6, <1>7

-----------------------------------------------------------------------------
(***************************************************************************)
(* Places                                                                  *)
(***************************************************************************)
SpongeOK(s) ==
  /\ s = [blocks |-> s.blocks, mode |-> s.mode, open |-> s.open, index |-> s.index]
  /\ IsSeq(s.blocks) /\ IsSeq(s.open)
  /\ s.mode \in {"absorbing", "squeezing"} /\ s.index \in 0 .. Rate

\* The elements of all states that a sponge goes through, one after the other: the place of
\* the next one it squeezes, and of one that was squeezed
NextPlace(s) == Len(s.blocks) * Rate + IF s.mode = "absorbing" THEN Rate ELSE s.index
Place(x) == Len(x.state) * Rate + x.lane

LEMMA Times ==
  ASSUME NEW a \in Nat, NEW b \in Nat
  PROVE  /\ a * Rate \in Nat /\ (a + b) * Rate = a * Rate + b * Rate
         /\ (a + 1) * Rate = a * Rate + Rate
  BY CallAssumption, SMT

LEMMA Divided ==
  ASSUME NEW a \in Nat
  PROVE  /\ a \div Rate \in Nat /\ a % Rate \in 0 .. Rate - 1
         /\ (a \div Rate) * Rate \in Nat /\ a = (a \div Rate) * Rate + (a % Rate)
<1>1. PICK q, m : q = a \div Rate /\ m = a % Rate
  OBVIOUS
<1>2. q \in Int /\ m \in 0 .. Rate - 1 /\ a = Rate * q + m
  BY <1>1, CallAssumption, SMT
<1>3. q \in Nat
  <2>1. CASE q <= -1
    <3>1. Rate * q <= -Rate
      BY <1>2, <2>1, CallAssumption, SMT
    <3> QED BY <1>2, <3>1, CallAssumption
  <2> QED BY <1>2, <2>1
<1>4. Rate * q = q * Rate /\ q * Rate \in Nat
  BY <1>3, CallAssumption, SMT
<1> QED BY <1>1, <1>2, <1>3, <1>4

LEMMA NewSpongeOK == SpongeOK(S!NewSponge)
  BY SeqEmpty, CallAssumption DEF SpongeOK, S!NewSponge

LEMMA AbsorbOK ==
  ASSUME NEW s, SpongeOK(s), NEW e, IsSeq(e)
  PROVE  SpongeOK(S!Absorb(s, e)) /\ NextPlace(s) <= NextPlace(S!Absorb(s, e))
<1>1. PICK b \in Nat, i \in Nat : b = Len(s.blocks) /\ i = s.index /\ i <= Rate /\ Rate \in Nat
                                  /\ Rate > 0 /\ b * Rate \in Nat
  <2>1. Len(s.blocks) \in Nat /\ s.index \in Nat /\ s.index <= Rate /\ Rate \in Nat /\ Rate > 0
    BY SeqDomain, CallAssumption DEF SpongeOK
  <2> QED BY <2>1, Times
<1>2. CASE e = <<>>
  <2>1. S!Absorb(s, e) = s
    BY <1>2 DEF S!Absorb
  <2>2. NextPlace(s) <= NextPlace(s)
    <3>1. NextPlace(s) = b * Rate + IF s.mode = "absorbing" THEN Rate ELSE i
      BY <1>1 DEF NextPlace
    <3>2. NextPlace(s) \in Nat
      BY <1>1, <3>1
    <3> QED BY <3>2
  <2> QED BY <2>1, <2>2
<1>3. CASE e # <<>>
  <2>1. PICK all : all = s.open \o e
    OBVIOUS
  <2>2. IsSeq(all) /\ Len(all) \in Nat /\ Len(all) >= 1
    <3>1. IsSeq(s.open \o e) /\ Len(s.open \o e) = Len(s.open) + Len(e)
      BY SeqConcat DEF SpongeOK
    <3>2. Len(s.open) \in Nat /\ Len(e) \in Nat /\ e = [j \in 1 .. Len(e) |-> e[j]]
      BY SeqDomain DEF SpongeOK
    <3>3. Len(e) # 0
      <4> SUFFICES ASSUME Len(e) = 0 PROVE e = <<>>
        BY <1>3
      <4>1. \A j \in 1 .. Len(e) : e[j] = <<>>[j]
        OBVIOUS
      <4> QED BY <4>1, SeqEmpty, OneSeq
    <3> QED BY <2>1, <3>1, <3>2, <3>3
  <2>3. PICK f \in Nat : /\ f = (Len(all) - 1) \div Rate
                         /\ f * Rate \in Nat /\ f * Rate <= Len(all) - 1
    <3>1. PICK a \in Nat : a = Len(all) - 1
      <4>1. Len(all) - 1 \in Nat
        BY <2>2
      <4> QED BY <4>1
    <3>2. a \div Rate \in Nat /\ (a \div Rate) * Rate \in Nat /\ (a \div Rate) * Rate <= a
      <4>1. PICK q, r : q = a \div Rate /\ r = a % Rate
        OBVIOUS
      <4>2. q \in Nat /\ r \in 0 .. Rate - 1 /\ q * Rate \in Nat /\ a = q * Rate + r
        BY <4>1, Divided
      <4>3. PICK p \in Nat : p = q * Rate
        BY <4>2
      <4>4. p <= a
        BY <1>1, <4>2, <4>3
      <4> QED BY <4>1, <4>2, <4>3, <4>4
    <3> QED BY <3>1, <3>2
  <2>4. PICK more, part :
          /\ more = [c \in 1 .. f |-> SubSeq(all, (c - 1) * Rate + 1, c * Rate)]
          /\ part = SubSeq(all, f * Rate + 1, Len(all))
    OBVIOUS
  <2>5. IsSeq(more) /\ Len(more) = f
    <3>1. more = [c \in 1 .. f |-> more[c]]
      BY <2>4
    <3> QED BY <3>1, SeqOfFunction
  <2>6. IsSeq(part)
    <3>1. PICK m \in Nat, n \in Nat : m = f * Rate + 1 /\ n = Len(all) /\ m >= 1 /\ m <= n + 1
      <4>1. PICK p \in Nat : p = f * Rate /\ p <= Len(all) - 1
        BY <2>3
      <4>2. p + 1 \in Nat /\ p + 1 >= 1 /\ p + 1 <= Len(all) + 1
        BY <2>2, <4>1
      <4> QED BY <2>2, <4>1, <4>2
    <3>2. n <= Len(all)
      BY <3>1
    <3>3. IsSeq(SubSeq(all, m, n))
      BY <2>2, <3>1, <3>2, SeqPart
    <3> QED BY <2>4, <3>1, <3>3
  <2>7. S!Absorb(s, e)
          = [blocks |-> s.blocks \o more, mode |-> "absorbing", open |-> part, index |-> 0]
    BY <1>3, <2>1, <2>3, <2>4 DEF S!Absorb
  <2>8. IsSeq(s.blocks \o more) /\ Len(s.blocks \o more) = b + f
    <3>1. IsSeq(s.blocks)
      BY DEF SpongeOK
    <3> QED BY <1>1, <2>5, <3>1, SeqConcat
  <2>9. SpongeOK(S!Absorb(s, e))
    BY <1>1, <2>6, <2>7, <2>8 DEF SpongeOK
  <2>10. NextPlace(S!Absorb(s, e)) = (b + f) * Rate + Rate
    BY <2>7, <2>8 DEF NextPlace
  <2>11. NextPlace(s) = b * Rate + IF s.mode = "absorbing" THEN Rate ELSE i
    BY <1>1 DEF NextPlace
  <2>12. PICK p \in Nat, q \in Nat : p = b * Rate /\ q = f * Rate /\ (b + f) * Rate = p + q
    BY Times, ZenonT(30)
  <2>13. p + (IF s.mode = "absorbing" THEN Rate ELSE i) <= (p + q) + Rate
    <3>1. PICK x \in Nat : x = (IF s.mode = "absorbing" THEN Rate ELSE i) /\ x <= Rate
      BY <1>1
    <3>2. PICK r \in Nat : r = Rate
      BY <1>1
    <3>3. p + x <= (p + q) + r
      BY <3>1, <3>2
    <3> QED BY <3>1, <3>2, <3>3
  <2> QED BY <2>9, <2>10, <2>11, <2>12, <2>13
<1> QED BY <1>2, <1>3

-----------------------------------------------------------------------------
\* The state that a squeeze starts from holds the next place.
LEMMA ReadyOK ==
  ASSUME NEW s, SpongeOK(s)
  PROVE  /\ SpongeOK(S!Ready(s)) /\ S!Ready(s).mode = "squeezing"
         /\ S!Ready(s).index \in 0 .. Rate - 1
         /\ NextPlace(s) = Len(S!Ready(s).blocks) * Rate + S!Ready(s).index
<1>1. PICK b \in Nat : b = Len(s.blocks) /\ b * Rate \in Nat /\ (b + 1) * Rate = b * Rate + Rate
  <2>1. Len(s.blocks) \in Nat
    BY SeqDomain DEF SpongeOK
  <2> QED BY <2>1, Times
<1>2. /\ s = [blocks |-> s.blocks, mode |-> s.mode, open |-> s.open, index |-> s.index]
      /\ s.mode \in {"absorbing", "squeezing"} /\ s.index \in 0 .. Rate
      /\ IsSeq(s.blocks) /\ IsSeq(s.open) /\ Rate \in Nat /\ Rate > 0
  BY CallAssumption DEF SpongeOK
<1>3. CASE s.mode = "absorbing"
  <2>1. PICK more : more = Append(s.blocks, S!Padded(s.open))
    OBVIOUS
  <2>2. IsSeq(more) /\ Len(more) = b + 1
    BY <1>1, <1>2, <2>1, SeqAppend
  <2>3. S!Ready(s) = [blocks |-> more, mode |-> "squeezing", open |-> <<>>, index |-> 0]
    BY <1>3, <2>1 DEF S!Ready
  <2>4. NextPlace(s) = b * Rate + Rate
    BY <1>1, <1>3 DEF NextPlace
  <2>5. Len(S!Ready(s).blocks) * Rate + S!Ready(s).index = b * Rate + Rate
    BY <1>1, <1>2, <2>2, <2>3
  <2> QED BY <1>2, <2>2, <2>3, <2>4, <2>5, SeqEmpty DEF SpongeOK
<1>4. CASE s.mode = "squeezing" /\ s.index = Rate
  <2>1. PICK more : more = Append(s.blocks, S!Padded(<<>>))
    OBVIOUS
  <2>2. IsSeq(more) /\ Len(more) = b + 1
    BY <1>1, <1>2, <2>1, SeqAppend
  <2>3. S!Ready(s) = [blocks |-> more, mode |-> "squeezing", open |-> s.open, index |-> 0]
    <3>1. S!Ready(s) = [s EXCEPT !.blocks = more, !.index = 0]
      BY <1>4, <2>1 DEF S!Ready
    <3> QED BY <1>2, <1>4, <3>1
  <2>4. NextPlace(s) = b * Rate + Rate
    BY <1>1, <1>4 DEF NextPlace
  <2>5. Len(S!Ready(s).blocks) * Rate + S!Ready(s).index = b * Rate + Rate
    BY <1>1, <1>2, <2>2, <2>3
  <2> QED BY <1>2, <2>2, <2>3, <2>4, <2>5 DEF SpongeOK
<1>5. CASE s.mode = "squeezing" /\ s.index # Rate
  <2>1. S!Ready(s) = s
    BY <1>5 DEF S!Ready
  <2>2. NextPlace(s) = b * Rate + s.index
    BY <1>1, <1>5 DEF NextPlace
  <2>3. s.index \in 0 .. Rate - 1
    BY <1>2, <1>5
  <2> QED BY <1>1, <1>5, <2>1, <2>2, <2>3
<1> QED BY <1>2, <1>3, <1>4, <1>5

LEMMA PermutedOK ==
  ASSUME NEW r, SpongeOK(r), NEW n \in Nat
  PROVE  IsSeq(S!Permuted(r, n)) /\ Len(S!Permuted(r, n)) = Len(r.blocks) + n
<1>1. PICK more : more = [b \in 1 .. n |-> S!Padded(<<>>)]
  OBVIOUS
<1>2. more = [b \in 1 .. n |-> more[b]]
  BY <1>1
<1>3. IsSeq(more) /\ Len(more) = n
  BY <1>2, SeqOfFunction
<1>4. IsSeq(r.blocks)
  BY DEF SpongeOK
<1>5. IsSeq(r.blocks \o more) /\ Len(r.blocks \o more) = Len(r.blocks) + n
  BY <1>3, <1>4, SeqConcat
<1> QED BY <1>1, <1>5 DEF S!Permuted

\* What is squeezed are the next elements in order.
LEMMA SqueezedPlaces ==
  ASSUME NEW s, SpongeOK(s), NEW n \in Nat
  PROVE  /\ IsSeq(S!Squeezed(s, n)) /\ Len(S!Squeezed(s, n)) = n
         /\ \A k \in 1 .. n : Place(S!Squeezed(s, n)[k]) = NextPlace(s) + (k - 1)
<1>1. PICK r : r = S!Ready(s)
  OBVIOUS
<1>2. PICK b \in Nat, i \in Nat : b = Len(r.blocks) /\ i = r.index /\ NextPlace(s) = b * Rate + i
                                  /\ b * Rate \in Nat
  <2>1. Len(r.blocks) \in Nat
    BY <1>1, ReadyOK, SeqDomain DEF SpongeOK
  <2>2. r.index \in Nat
    BY <1>1, ReadyOK, CallAssumption
  <2> QED BY <1>1, <2>1, <2>2, ReadyOK, Times
<1>3. PICK out : out = [k \in 1 .. n |->
                          [state |-> S!Permuted(r, (r.index + k - 1) \div Rate),
                           lane |-> (r.index + k - 1) % Rate]]
  OBVIOUS
<1>4. S!Squeezed(s, n) = out
  BY <1>1, <1>3 DEF S!Squeezed
<1>5. IsSeq(out) /\ Len(out) = n
  <2>1. out = [k \in 1 .. n |-> out[k]]
    BY <1>3
  <2> QED BY <2>1, SeqOfFunction
<1>6. ASSUME NEW k \in 1 .. n PROVE Place(out[k]) = NextPlace(s) + (k - 1)
  <2>1. PICK a \in Nat : a = i + (k - 1) /\ a = r.index + k - 1
    <3>1. i + (k - 1) \in Nat /\ i + (k - 1) = i + k - 1
      OBVIOUS
    <3> QED BY <1>2, <3>1
  <2>2. PICK q \in Nat, m \in Nat : /\ q = a \div Rate /\ m = a % Rate
                                    /\ q * Rate \in Nat /\ a = q * Rate + m
    <3>1. a \div Rate \in Nat /\ a % Rate \in Nat
      BY Divided, CallAssumption
    <3> QED BY <3>1, Divided
  <2>3. out[k] = [state |-> S!Permuted(r, q), lane |-> m]
    BY <1>3, <2>1, <2>2
  <2>4. Len(S!Permuted(r, q)) = b + q
    BY <1>1, <1>2, ReadyOK, PermutedOK
  <2>5. Place(out[k]) = (b + q) * Rate + m
    BY <2>3, <2>4 DEF Place
  <2>6. PICK x \in Nat, y \in Nat : x = b * Rate /\ y = q * Rate /\ (b + q) * Rate = x + y
    <3>1. b * Rate \in Nat /\ q * Rate \in Nat /\ (b + q) * Rate = b * Rate + q * Rate
      BY Times
    <3> QED BY <3>1, Zenon
  <2>7. (x + y) + m = (x + i) + (k - 1)
    BY <2>1, <2>2, <2>6
  <2> QED BY <1>2, <2>5, <2>6, <2>7
<1> QED BY <1>4, <1>5, <1>6

LEMMA SqueezeOK ==
  ASSUME NEW s, SpongeOK(s), NEW n \in Nat
  PROVE  SpongeOK(S!Squeeze(s, n)) /\ NextPlace(S!Squeeze(s, n)) = NextPlace(s) + n
<1>1. PICK r : r = S!Ready(s)
  OBVIOUS
<1>2. PICK b \in Nat, i \in Nat : b = Len(r.blocks) /\ i = r.index /\ NextPlace(s) = b * Rate + i
                                  /\ b * Rate \in Nat /\ i <= Rate - 1
  <2>1. Len(r.blocks) \in Nat
    BY <1>1, ReadyOK, SeqDomain DEF SpongeOK
  <2>2. r.index \in Nat /\ r.index <= Rate - 1
    BY <1>1, ReadyOK, CallAssumption
  <2> QED BY <1>1, <2>1, <2>2, ReadyOK, Times
<1>3. /\ r = [blocks |-> r.blocks, mode |-> r.mode, open |-> r.open, index |-> r.index]
      /\ r.mode = "squeezing" /\ IsSeq(r.open) /\ SpongeOK(r)
  BY <1>1, ReadyOK DEF SpongeOK
<1>4. Rate \in Nat /\ Rate > 0
  BY CallAssumption
<1>5. PICK times \in Nat : /\ times = IF n = 0 THEN 0 ELSE (r.index + n - 1) \div Rate
                           /\ times * Rate \in Nat
                           /\ times * Rate <= i + n /\ i + n <= times * Rate + Rate
  <2>1. CASE n = 0
    <3>1. 0 * Rate = 0
      BY <1>4
    <3>2. 0 <= i + n /\ i + n <= 0 + Rate /\ 0 \in Nat
      BY <1>2, <1>4, <2>1
    <3> QED BY <2>1, <3>1, <3>2
  <2>2. CASE n # 0
    <3>1. PICK a \in Nat : a = r.index + n - 1 /\ i + n = a + 1
      <4>1. i + n - 1 \in Nat /\ i + n = (i + n - 1) + 1
        BY <2>2
      <4> QED BY <1>2, <4>1
    <3>2. PICK q \in Nat : q = a \div Rate /\ q * Rate \in Nat /\ q * Rate <= a /\ a < q * Rate + Rate
      <4>1. PICK q, m : q = a \div Rate /\ m = a % Rate
        OBVIOUS
      <4>2. q \in Nat /\ m \in 0 .. Rate - 1 /\ q * Rate \in Nat /\ a = q * Rate + m
        BY <4>1, Divided
      <4>3. PICK x \in Nat : x = q * Rate
        BY <4>2
      <4>4. x <= a /\ a < x + Rate
        BY <1>4, <4>2, <4>3
      <4> QED BY <4>1, <4>2, <4>3, <4>4
    <3>3. PICK x \in Nat : x = q * Rate
      BY <3>2
    <3>4. x <= i + n /\ i + n <= x + Rate
      BY <1>4, <3>1, <3>2, <3>3
    <3> QED BY <2>2, <3>1, <3>2, <3>3, <3>4
  <2> QED BY <2>1, <2>2
<1>6. PICK x \in Nat, rest \in 0 .. Rate :
        x = times * Rate /\ rest = r.index + n - times * Rate /\ i + n = x + rest
  <2>1. PICK x \in Nat : x = times * Rate /\ x <= i + n /\ i + n <= x + Rate
    BY <1>5
  <2>2. PICK rest \in Int : rest = i + n - x
    OBVIOUS
  <2>3. rest \in 0 .. Rate /\ i + n = x + rest
    BY <1>4, <2>1, <2>2
  <2> QED BY <1>2, <2>1, <2>2, <2>3
<1>7. S!Squeeze(s, n) = [r EXCEPT !.blocks = S!Permuted(r, times), !.index = rest]
  BY <1>1, <1>5, <1>6 DEF S!Squeeze
<1>8. S!Squeeze(s, n) = [blocks |-> S!Permuted(r, times), mode |-> "squeezing", open |-> r.open,
                         index |-> rest]
  BY <1>3, <1>7
<1>9. IsSeq(S!Permuted(r, times)) /\ Len(S!Permuted(r, times)) = b + times
  BY <1>2, <1>3, PermutedOK
<1>10. NextPlace(S!Squeeze(s, n)) = (b + times) * Rate + rest
  BY <1>8, <1>9 DEF NextPlace
<1>11. PICK y \in Nat : y = b * Rate /\ (b + times) * Rate = y + x
  BY <1>2, <1>6, Times
<1>12. (y + x) + rest = (y + i) + n
  BY <1>6, <1>11, <1>4
<1> QED BY <1>2, <1>3, <1>8, <1>9, <1>10, <1>11, <1>12 DEF SpongeOK

-----------------------------------------------------------------------------
(***************************************************************************)
(* Elements and bits that are taken                                        *)
(***************************************************************************)
IsTranscript(t) ==
  /\ t = [kind |-> t.kind, sponge |-> t.sponge, cached |-> t.cached]
  /\ t.kind \in {"hash", "recording", "replay", "panicked"}

\* The kinds that squeeze what they answer
Live == {"hash", "recording"}

\* The place of an element, or of the element that a bit is of
PlaceOf(x) == Place(IF "of" \in DOMAIN x THEN x.of ELSE x)

\* Different elements or bits, of places from low up to high
AnswerOK(answer, low, high) ==
  /\ IsSeq(answer)
  /\ \A i, j \in DOMAIN answer : answer[i] = answer[j] => i = j
  /\ \A i \in DOMAIN answer :
       PlaceOf(answer[i]) \in Int /\ low <= PlaceOf(answer[i]) /\ PlaceOf(answer[i]) < high

Sound(t) == IsTranscript(t) /\ (t.kind \in Live => SpongeOK(t.sponge))

\* Transcript w is transcript v after a call that has answered that
Follows(v, w, answer) ==
  /\ Sound(w)
  /\ w.kind \in Live =>
       /\ v.kind \in Live
       /\ NextPlace(v.sponge) <= NextPlace(w.sponge)
       /\ AnswerOK(answer, NextPlace(v.sponge), NextPlace(w.sponge))

LEMMA PlaceIsNumber == ASSUME NEW s, SpongeOK(s) PROVE NextPlace(s) \in Nat
<1>1. PICK b \in Nat, i \in Nat : /\ b = Len(s.blocks) /\ i = s.index
                                  /\ b * Rate \in Nat /\ Rate \in Nat
  <2>1. Len(s.blocks) \in Nat /\ s.index \in Nat /\ Rate \in Nat
    BY SeqDomain, CallAssumption DEF SpongeOK
  <2> QED BY <2>1, Times
<1> QED BY <1>1 DEF NextPlace

LEMMA NothingTaken == ASSUME NEW low, NEW high PROVE AnswerOK(<<>>, low, high)
  BY SeqEmpty DEF AnswerOK

LEMMA DividedBy ==
  ASSUME NEW a \in Nat, NEW d \in Nat \ {0}
  PROVE  a \div d \in Nat /\ a % d \in 0 .. d - 1 /\ a = d * (a \div d) + (a % d)
<1>1. PICK q, m : q = a \div d /\ m = a % d
  OBVIOUS
<1>2. q \in Int /\ m \in 0 .. d - 1 /\ a = d * q + m
  BY <1>1, SMT
<1>3. q \in Nat
  <2>1. CASE q <= -1
    <3>1. d * q <= -d
      BY <1>2, <2>1, SMT
    <3> QED BY <1>2, <3>1
  <2> QED BY <1>2, <2>1
<1> QED BY <1>1, <1>2, <1>3

LEMMA CeilIsNumber == ASSUME NEW a \in Nat, NEW d \in Nat \ {0} PROVE Ceil(a, d) \in Nat
<1>1. PICK n \in Nat : n = a + d - 1
  <2>1. a + d - 1 \in Nat
    OBVIOUS
  <2> QED BY <2>1
<1>2. n \div d \in Nat
  BY DividedBy
<1> QED BY <1>1, <1>2 DEF Ceil

\* Numbers with the same quotient and the same remainder are the same.
LEMMA SameDivided ==
  ASSUME NEW a \in Nat, NEW b \in Nat, NEW d \in Nat \ {0}, a \div d = b \div d, a % d = b % d
  PROVE  a = b
<1>1. PICK q, m : q = a \div d /\ m = a % d
  OBVIOUS
<1>2. a = d * q + m
  BY <1>1, DividedBy
<1>3. b = d * q + m
  BY <1>1, DividedBy, ZenonT(30)
<1> QED BY <1>2, <1>3

\* The element that a bit is of is one of those that are squeezed for it.
LEMMA SourceOf ==
  ASSUME NEW n \in Nat, NEW k \in 1 .. n
  PROVE  (k - 1) \div UsableBits + 1 \in 1 .. Sources(n)
<1>1. PICK u \in Nat \ {0} : u = UsableBits
  BY FieldAssumption
<1>2. PICK a \in Nat, q \in Nat, m \in 0 .. u - 1 :
        a = k - 1 /\ q = a \div u /\ m = a % u /\ a = u * q + m
  <2>1. PICK a \in Nat : a = k - 1
    <3>1. k - 1 \in Nat
      OBVIOUS
    <3> QED BY <3>1
  <2>2. a \div u \in Nat /\ a % u \in 0 .. u - 1 /\ a = u * (a \div u) + (a % u)
    BY DividedBy
  <2> QED BY <2>1, <2>2
<1>3. PICK e \in Nat, p \in Nat, r \in 0 .. u - 1 :
        e = n + u - 1 /\ p = e \div u /\ r = e % u /\ e = u * p + r
  <2>1. PICK e \in Nat : e = n + u - 1
    <3>1. n + u - 1 \in Nat
      OBVIOUS
    <3> QED BY <3>1
  <2>2. e \div u \in Nat /\ e % u \in 0 .. u - 1 /\ e = u * (e \div u) + (e % u)
    BY DividedBy
  <2> QED BY <2>1, <2>2
<1>4. Sources(n) = p
  BY <1>1, <1>3 DEF Sources, Ceil
<1>5. a + u <= e
  BY <1>2, <1>3
<1>6. q + 1 <= p
  <2> SUFFICES ASSUME p <= q PROVE FALSE
    BY SMT
  <2>1. PICK c \in Nat : q = p + c
    <3>1. q - p \in Nat /\ q = p + (q - p)
      BY SMT
    <3> QED BY <3>1
  <2>2. u * c \in Nat /\ u * (p + c) = u * p + u * c /\ u * p \in Nat
    BY SMT
  <2>3. PICK x \in Nat, y \in Nat : x = u * p /\ y = u * c /\ u * q = x + y
    BY <2>1, <2>2, Zenon
  <2>4. a = (x + y) + m /\ e = x + r
    BY <1>2, <1>3, <2>3
  <2> QED BY <1>5, <2>4
<1> QED BY <1>1, <1>2, <1>4, <1>6

-----------------------------------------------------------------------------
LEMMA ElementsTaken ==
  ASSUME NEW s, SpongeOK(s), NEW n \in Nat
  PROVE  /\ SpongeOK(S!Squeeze(s, n)) /\ NextPlace(s) <= NextPlace(S!Squeeze(s, n))
         /\ AnswerOK(S!Squeezed(s, n), NextPlace(s), NextPlace(S!Squeeze(s, n)))
<1>1. PICK p \in Nat : p = NextPlace(s) /\ NextPlace(S!Squeeze(s, n)) = p + n
  BY PlaceIsNumber, SqueezeOK
<1>2. PICK out : out = S!Squeezed(s, n) /\ IsSeq(out) /\ Len(out) = n /\ DOMAIN out = 1 .. n
  BY SqueezedPlaces, SeqDomain
<1>3. ASSUME NEW k \in 1 .. n PROVE PlaceOf(out[k]) = p + (k - 1)
  <2>1. Place(out[k]) = p + (k - 1)
    BY <1>1, <1>2, SqueezedPlaces
  <2>2. PICK state, lane : out[k] = [state |-> state, lane |-> lane]
    BY <1>2 DEF S!Squeezed
  <2>3. "of" \notin DOMAIN out[k]
    BY <2>2
  <2> QED BY <2>1, <2>3 DEF PlaceOf
<1>4. ASSUME NEW i \in 1 .. n, NEW j \in 1 .. n, out[i] = out[j] PROVE i = j
  <2>1. p + (i - 1) = p + (j - 1)
    BY <1>3, <1>4
  <2> QED BY <2>1
<1>5. ASSUME NEW k \in 1 .. n
      PROVE  PlaceOf(out[k]) \in Int /\ p <= PlaceOf(out[k]) /\ PlaceOf(out[k]) < p + n
  BY <1>3
<1>6. AnswerOK(out, p, p + n)
  BY <1>2, <1>4, <1>5 DEF AnswerOK
<1> QED BY <1>1, <1>2, <1>6, SqueezeOK

\* The bits of different elements are different bits.
LEMMA BitsTaken ==
  ASSUME NEW elements, NEW low, NEW high, AnswerOK(elements, low, high), NEW n \in Nat,
         Len(elements) = Sources(n), \A i \in DOMAIN elements : "of" \notin DOMAIN elements[i]
  PROVE  AnswerOK(ToBits(elements, n), low, high)
<1>1. PICK u \in Nat \ {0} : u = UsableBits
  BY FieldAssumption
<1>2. DOMAIN elements = 1 .. Sources(n)
  BY SeqDomain DEF AnswerOK
<1> DEFINE At(k) == (k - 1) \div u + 1
           Bit(k) == (k - 1) % u
<1>3. PICK bits : bits = [k \in 1 .. n |-> [of |-> elements[At(k)], bit |-> Bit(k)]]
  OBVIOUS
<1>4. ToBits(elements, n) = bits
  BY <1>1, <1>3 DEF ToBits
<1>5. IsSeq(bits) /\ DOMAIN bits = 1 .. n
  <2>1. bits = [k \in 1 .. n |-> bits[k]]
    BY <1>3
  <2> QED BY <2>1, SeqOfFunction
<1>6. ASSUME NEW k \in 1 .. n PROVE At(k) \in DOMAIN elements
  BY <1>1, <1>2, SourceOf
<1>7. ASSUME NEW k \in 1 .. n PROVE bits[k] = [of |-> elements[At(k)], bit |-> Bit(k)]
  BY <1>3
<1>8. ASSUME NEW i \in 1 .. n, NEW j \in 1 .. n, bits[i] = bits[j] PROVE i = j
  <2>1. elements[At(i)] = elements[At(j)] /\ Bit(i) = Bit(j)
    <3>1. [of |-> elements[At(i)], bit |-> Bit(i)] = [of |-> elements[At(j)], bit |-> Bit(j)]
      BY <1>7, <1>8, Zenon
    <3> HIDE DEF At, Bit
    <3> QED BY <3>1
  <2>2. At(i) = At(j)
    <3> HIDE DEF At
    <3> QED BY <1>6, <2>1 DEF AnswerOK
  <2>3. PICK a \in Nat, b \in Nat : a = i - 1 /\ b = j - 1
    <3>1. i - 1 \in Nat /\ j - 1 \in Nat
      OBVIOUS
    <3> QED BY <3>1
  <2>4. PICK q \in Nat, r \in Nat : q = a \div u /\ r = b \div u
    BY DividedBy
  <2>5. q + 1 = r + 1 /\ a % u = b % u
    BY <2>1, <2>2, <2>3, <2>4
  <2>6. a \div u = b \div u
    BY <2>4, <2>5
  <2>7. a = b
    BY <2>5, <2>6, SameDivided
  <2> QED BY <2>3, <2>7
<1>9. ASSUME NEW k \in 1 .. n
      PROVE  PlaceOf(bits[k]) \in Int /\ low <= PlaceOf(bits[k]) /\ PlaceOf(bits[k]) < high
  <2>1. PICK e : e = elements[At(k)] /\ "of" \notin DOMAIN e
                 /\ PlaceOf(e) \in Int /\ low <= PlaceOf(e) /\ PlaceOf(e) < high
    <3> HIDE DEF At
    <3> QED BY <1>6 DEF AnswerOK
  <2>2. PICK m : bits[k] = [of |-> e, bit |-> m]
    BY <1>7, <2>1
  <2>3. "of" \in DOMAIN bits[k] /\ bits[k].of = e
    BY <2>2
  <2>4. PlaceOf(bits[k]) = Place(e) /\ PlaceOf(e) = Place(e)
    BY <2>1, <2>3 DEF PlaceOf
  <2> QED BY <2>1, <2>4
<1>10. AnswerOK(bits, low, high)
  BY <1>5, <1>8, <1>9 DEF AnswerOK
<1> QED BY <1>4, <1>10

LEMMA SourcesAreNumber == ASSUME NEW n \in Nat PROVE Sources(n) \in Nat
<1>1. UsableBits \in Nat \ {0}
  BY FieldAssumption
<1> QED BY <1>1, CeilIsNumber DEF Sources

-----------------------------------------------------------------------------
(***************************************************************************)
(* What the calls do to a transcript                                       *)
(***************************************************************************)
LEMMA AddFollows ==
  ASSUME NEW v, Sound(v), NEW e, v.kind \in Live => IsSeq(e)
  PROVE  /\ Follows(v, AddElements(v, e), <<>>) /\ AddElements(v, e).kind = v.kind
         /\ v.kind \in Live => AddElements(v, e).sponge = S!Absorb(v.sponge, e)
<1>1. v = [kind |-> v.kind, sponge |-> v.sponge, cached |-> v.cached]
      /\ v.kind \in {"hash", "recording", "replay", "panicked"}
      /\ (v.kind \in Live => SpongeOK(v.sponge))
  BY DEF Sound, IsTranscript
<1>2. PICK w : w = AddElements(v, e)
  OBVIOUS
<1>3. CASE v.kind = "replay"
  <2>1. w = v
    BY <1>2, <1>3 DEF AddElements
  <2>2. ~(v.kind \in Live)
    BY <1>3 DEF Live
  <2> QED BY <1>2, <2>1, <2>2 DEF Follows
<1>4. CASE v.kind # "replay"
  <2>1. PICK s : s = S!Absorb(v.sponge, e)
    OBVIOUS
  <2>2. w = [v EXCEPT !.sponge = s]
    BY <1>2, <1>4, <2>1 DEF AddElements
  <2>3. w = [kind |-> v.kind, sponge |-> s, cached |-> v.cached]
    BY <1>1, <2>2
  <2>4. IsTranscript(w) /\ w.kind = v.kind /\ w.sponge = s
    BY <1>1, <2>3 DEF IsTranscript
  <2>5. ASSUME v.kind \in Live PROVE SpongeOK(s) /\ NextPlace(v.sponge) <= NextPlace(s)
    BY <1>1, <2>1, <2>5, AbsorbOK
  <2> QED BY <1>2, <2>1, <2>4, <2>5, NothingTaken DEF Follows, Sound
<1> QED BY <1>3, <1>4

LEMMA ElementsFollow ==
  ASSUME NEW v, Sound(v), v.kind # "panicked", NEW n \in Nat
  PROVE  /\ Follows(v, AfterElements(v, n), Elements(v, n)) /\ AfterElements(v, n).kind = v.kind
         /\ v.kind \in Live => /\ AfterElements(v, n).sponge = S!Squeeze(v.sponge, n)
                               /\ Elements(v, n) = S!Squeezed(v.sponge, n)
<1>1. v = [kind |-> v.kind, sponge |-> v.sponge, cached |-> v.cached]
      /\ v.kind \in {"hash", "recording", "replay"} /\ (v.kind \in Live => SpongeOK(v.sponge))
  BY DEF Sound, IsTranscript
<1>2. PICK w, s : w = AfterElements(v, n) /\ s = S!Squeeze(v.sponge, n)
  OBVIOUS
<1>3. CASE v.kind = "replay"
  <2>1. PICK c : c = SubSeq(v.cached, 1, Len(v.cached) - n)
    OBVIOUS
  <2>2. w = [v EXCEPT !.cached = c]
    BY <1>2, <1>3, <2>1 DEF AfterElements
  <2>3. w = [kind |-> v.kind, sponge |-> v.sponge, cached |-> c]
    BY <1>1, <2>2
  <2>4. ~(v.kind \in Live)
    BY <1>3 DEF Live
  <2> QED BY <1>1, <1>2, <2>3, <2>4 DEF Follows, Sound, IsTranscript
<1>4. ASSUME v.kind \in Live
      PROVE  IsTranscript(w) /\ w.kind = v.kind /\ w.sponge = s
  <2>1. CASE v.kind = "hash"
    <3>1. w = [v EXCEPT !.sponge = s]
      BY <1>2, <2>1 DEF AfterElements
    <3>2. w = [kind |-> v.kind, sponge |-> s, cached |-> v.cached]
      BY <1>1, <3>1
    <3> QED BY <1>1, <3>2 DEF IsTranscript
  <2>2. CASE v.kind = "recording"
    <3>1. PICK c : c = v.cached \o Elements(v, n)
      OBVIOUS
    <3>2. w = [v EXCEPT !.sponge = s, !.cached = c]
      BY <1>2, <2>2, <3>1 DEF AfterElements
    <3>3. w = [kind |-> v.kind, sponge |-> s, cached |-> c]
      BY <1>1, <3>2
    <3> QED BY <1>1, <3>3 DEF IsTranscript
  <2> QED BY <1>4, <2>1, <2>2 DEF Live
<1>5. ASSUME v.kind \in Live
      PROVE  Elements(v, n) = S!Squeezed(v.sponge, n)
  BY <1>5 DEF Elements, Live
<1>6. CASE v.kind \in Live
  <2>1. /\ SpongeOK(s) /\ NextPlace(v.sponge) <= NextPlace(s)
        /\ AnswerOK(Elements(v, n), NextPlace(v.sponge), NextPlace(s))
    BY <1>1, <1>2, <1>5, <1>6, ElementsTaken
  <2> QED BY <1>2, <1>4, <1>5, <1>6, <2>1 DEF Follows, Sound
<1> QED BY <1>1, <1>3, <1>6 DEF Live

LEMMA BitsFollow ==
  ASSUME NEW v, Sound(v), v.kind # "panicked", NEW n \in Nat
  PROVE  /\ Follows(v, AfterBits(v, n), GetBits(v, n)) /\ AfterBits(v, n).kind = v.kind
<1>1. PICK m \in Nat : m = Sources(n)
  BY SourcesAreNumber
<1>2. PICK w, e : w = AfterElements(v, m) /\ e = Elements(v, m)
  OBVIOUS
<1>3. Follows(v, w, e) /\ w.kind = v.kind
  BY <1>2, ElementsFollow
<1>4. ASSUME v.kind \in Live PROVE AnswerOK(ToBits(e, n), NextPlace(v.sponge), NextPlace(w.sponge))
  <2>1. SpongeOK(v.sponge)
    BY <1>4 DEF Sound
  <2>2. e = S!Squeezed(v.sponge, m)
    BY <1>2, <1>4, ElementsFollow
  <2>3. Len(e) = Sources(n) /\ DOMAIN e = 1 .. m
    BY <1>1, <2>1, <2>2, SqueezedPlaces, SeqDomain
  <2>4. ASSUME NEW i \in DOMAIN e PROVE "of" \notin DOMAIN e[i]
    <3>1. PICK state, lane : e[i] = [state |-> state, lane |-> lane]
      BY <2>2, <2>3 DEF S!Squeezed
    <3> QED BY <3>1
  <2>5. AnswerOK(e, NextPlace(v.sponge), NextPlace(w.sponge))
    BY <1>3, <1>4 DEF Follows
  <2> QED BY <2>3, <2>4, <2>5, BitsTaken
<1> QED BY <1>1, <1>2, <1>3, <1>4 DEF Follows, AfterBits, GetBits

\* To absorb again what was squeezed
LEMMA AbsorbedAgain ==
  ASSUME NEW v, Sound(v), v.kind # "panicked", NEW n \in Nat, NEW answer,
         Follows(v, AfterElements(v, n), answer)
  PROVE  Follows(v, AfterChallengeElements(v, n), answer)
<1>1. PICK w, e : w = AfterElements(v, n) /\ e = Elements(v, n)
  OBVIOUS
<1>2. Follows(v, w, answer) /\ Sound(w) /\ w.kind = v.kind
  BY <1>1, ElementsFollow DEF Follows
<1>3. v.kind \in Live => IsSeq(e)
  BY <1>1, ElementsFollow, SqueezedPlaces DEF Sound
<1>4. PICK x : x = AddElements(w, e) /\ Follows(w, x, <<>>) /\ x.kind = w.kind
  BY <1>2, <1>3, AddFollows
<1>5. Sound(x)
  BY <1>4 DEF Follows
<1>6. ASSUME x.kind \in Live
      PROVE  /\ NextPlace(v.sponge) <= NextPlace(x.sponge)
             /\ AnswerOK(answer, NextPlace(v.sponge), NextPlace(x.sponge))
  <2>1. PICK low \in Nat, high \in Nat, top \in Nat :
          low = NextPlace(v.sponge) /\ high = NextPlace(w.sponge) /\ top = NextPlace(x.sponge)
    BY <1>2, <1>4, <1>5, <1>6, PlaceIsNumber DEF Sound
  <2>2. low <= high /\ high <= top /\ AnswerOK(answer, low, high)
    BY <1>2, <1>4, <1>6, <2>1 DEF Follows
  <2>3. AnswerOK(answer, low, top)
    <3>1. ASSUME NEW p \in Int, p < high PROVE p < top
      BY <2>2, <3>1
    <3> QED BY <2>2, <3>1 DEF AnswerOK
  <2> QED BY <2>1, <2>2, <2>3
<1> QED BY <1>1, <1>2, <1>4, <1>5, <1>6 DEF Follows, AfterChallengeElements

-----------------------------------------------------------------------------
(***************************************************************************)
(* Histories                                                               *)
(***************************************************************************)
\* The answers so far are sound, all of earlier places than what comes next, and those of
\* a call of earlier places than those of later calls.
AnswersOK(v, history) ==
  v.kind \in Live =>
    /\ \A c \in DOMAIN history : AnswerOK(history[c].answer, 0, NextPlace(v.sponge))
    /\ \A c, d \in DOMAIN history : c < d =>
         \A i \in DOMAIN history[c].answer, j \in DOMAIN history[d].answer :
           PlaceOf(history[c].answer[i]) < PlaceOf(history[d].answer[j])

Good(pair, history) ==
  /\ IsSeq(history)
  /\ pair.variable = pair.value
  /\ \A c \in DOMAIN history : history[c].answerVar = history[c].answer
  /\ Sound(pair.value) /\ AnswersOK(pair.value, history)

HistoryInv ==
  /\ IsSeq(transcripts) /\ IsSeq(calls) /\ Len(calls) = Len(transcripts)
  /\ \A t \in DOMAIN transcripts : Good(transcripts[t], calls[t])

LEMMA Wider ==
  ASSUME NEW a, NEW low, NEW high, NEW low2 \in Int, NEW high2 \in Int,
         low \in Int, high \in Int, low2 <= low, high <= high2, AnswerOK(a, low, high)
  PROVE  AnswerOK(a, low2, high2)
<1>1. ASSUME NEW p \in Int, low <= p, p < high PROVE low2 <= p /\ p < high2
  BY <1>1
<1> QED BY <1>1 DEF AnswerOK

LEMMA AnswersOneMore ==
  ASSUME NEW v, NEW w, NEW history, Sound(v), AnswersOK(v, history), IsSeq(history),
         NEW call, Follows(v, w, call.answer)
  PROVE  AnswersOK(w, Append(history, call))
<1> SUFFICES ASSUME w.kind \in Live PROVE AnswersOK(w, Append(history, call))
  BY DEF AnswersOK
<1>1. v.kind \in Live /\ SpongeOK(v.sponge) /\ SpongeOK(w.sponge)
  BY DEF Follows, Sound
<1>2. PICK now \in Nat, next \in Nat :
        now = NextPlace(v.sponge) /\ next = NextPlace(w.sponge) /\ now <= next
  BY <1>1, PlaceIsNumber DEF Follows
<1>3. PICK n \in Nat : n = Len(history) /\ DOMAIN history = 1 .. n
  BY SeqDomain
<1>4. PICK h : h = Append(history, call) /\ DOMAIN h = 1 .. n + 1
               /\ h[n + 1] = call /\ \A c \in 1 .. n : h[c] = history[c]
  <2>1. PICK h : h = Append(history, call)
    OBVIOUS
  <2>2. IsSeq(h) /\ Len(h) = n + 1 /\ h[n + 1] = call /\ \A c \in 1 .. n : h[c] = history[c]
    BY <1>3, <2>1, SeqAppend
  <2>3. DOMAIN h = 1 .. n + 1
    BY <2>2, SeqDomain
  <2> QED BY <2>1, <2>2, <2>3
<1>5. AnswerOK(call.answer, now, next)
  BY <1>2 DEF Follows
<1>6. ASSUME NEW c \in 1 .. n + 1 PROVE AnswerOK(h[c].answer, 0, next)
  <2>1. CASE c \in 1 .. n
    <3>1. AnswerOK(history[c].answer, 0, now)
      BY <1>1, <1>2, <1>3, <2>1 DEF AnswersOK
    <3>2. AnswerOK(history[c].answer, 0, next)
      BY <1>2, <3>1, Wider
    <3> QED BY <1>4, <2>1, <3>2
  <2>2. CASE c = n + 1
    <3>1. AnswerOK(call.answer, 0, next)
      BY <1>2, <1>5, Wider
    <3> QED BY <1>4, <2>2, <3>1
  <2> QED BY <2>1, <2>2
<1>7. ASSUME NEW c \in 1 .. n + 1, NEW d \in 1 .. n + 1, c < d,
             NEW i \in DOMAIN h[c].answer, NEW j \in DOMAIN h[d].answer
      PROVE  PlaceOf(h[c].answer[i]) < PlaceOf(h[d].answer[j])
  <2>1. c \in 1 .. n /\ h[c] = history[c]
    <3>1. c \in 1 .. n
      BY <1>7
    <3> QED BY <1>4, <3>1
  <2>2. CASE d \in 1 .. n
    <3>1. h[d] = history[d]
      BY <1>4, <2>2
    <3> QED BY <1>1, <1>3, <1>7, <2>1, <2>2, <3>1 DEF AnswersOK
  <2>3. CASE d = n + 1
    <3>1. PICK x \in Int : x = PlaceOf(h[c].answer[i]) /\ x < now
      BY <1>1, <1>2, <1>3, <2>1 DEF AnswersOK, AnswerOK
    <3>2. PICK y \in Int : y = PlaceOf(h[d].answer[j]) /\ now <= y
      BY <1>4, <1>5, <2>3 DEF AnswerOK
    <3>3. x < y
      BY <3>1, <3>2
    <3> QED BY <3>1, <3>2, <3>3
  <2> QED BY <2>2, <2>3
<1> QED BY <1>2, <1>4, <1>6, <1>7 DEF AnswersOK

LEMMA GoodOneMore ==
  ASSUME NEW pair, NEW history, Good(pair, history),
         NEW w, NEW op, NEW size, NEW arg, NEW answer, Follows(pair.value, w, answer)
  PROVE  Good(Pair(w, w), Append(history, Call(op, size, arg, answer, answer)))
<1>1. PICK call : call = Call(op, size, arg, answer, answer)
  OBVIOUS
<1>2. call.answer = answer /\ call.answerVar = answer
  BY <1>1 DEF Call
<1>3. PICK n \in Nat : n = Len(history) /\ DOMAIN history = 1 .. n
  BY SeqDomain DEF Good
<1>4. PICK h : h = Append(history, call) /\ IsSeq(h) /\ DOMAIN h = 1 .. n + 1
               /\ h[n + 1] = call /\ \A c \in 1 .. n : h[c] = history[c]
  <2>1. PICK h : h = Append(history, call)
    OBVIOUS
  <2>2. IsSeq(h) /\ Len(h) = n + 1 /\ h[n + 1] = call /\ \A c \in 1 .. n : h[c] = history[c]
    BY <1>3, <2>1, SeqAppend DEF Good
  <2>3. DOMAIN h = 1 .. n + 1
    BY <2>2, SeqDomain
  <2> QED BY <2>1, <2>2, <2>3
<1>5. ASSUME NEW c \in DOMAIN h PROVE h[c].answerVar = h[c].answer
  <2>1. c \in 1 .. n \/ c = n + 1
    BY <1>4
  <2>2. CASE c \in 1 .. n
    BY <1>3, <1>4, <2>2 DEF Good
  <2>3. CASE c = n + 1
    BY <1>2, <1>4, <2>3
  <2> QED BY <2>1, <2>2, <2>3
<1>6. AnswersOK(w, h)
  <2>1. Follows(pair.value, w, call.answer)
    BY <1>2
  <2> QED BY <1>4, <2>1, AnswersOneMore DEF Good
<1>7. PICK q : q = Pair(w, w) /\ q.value = w /\ q.variable = w
  <2>1. Pair(w, w).value = w /\ Pair(w, w).variable = w
    BY DEF Pair
  <2> QED BY <2>1
<1>8. Good(q, h)
  BY <1>4, <1>5, <1>6, <1>7 DEF Good, Follows
<1> QED BY <1>1, <1>4, <1>7, <1>8

LEMMA CreateKeeps ==
  ASSUME HistoryInv, NEW pair, NEW history, Good(pair, history), Create(pair, history)
  PROVE  HistoryInv'
<1>1. PICK n \in Nat : n = Len(transcripts) /\ DOMAIN transcripts = 1 .. n /\ DOMAIN calls = 1 .. n
                       /\ n = Len(calls)
  BY SeqDomain DEF HistoryInv
<1>2. PICK ts, cs : ts = Append(transcripts, pair) /\ cs = Append(calls, history)
  OBVIOUS
<1>3. /\ IsSeq(ts) /\ Len(ts) = n + 1 /\ ts[n + 1] = pair
      /\ \A i \in 1 .. n : ts[i] = transcripts[i]
  BY <1>1, <1>2, SeqAppend DEF HistoryInv
<1>4. /\ IsSeq(cs) /\ Len(cs) = n + 1 /\ cs[n + 1] = history
      /\ \A i \in 1 .. n : cs[i] = calls[i]
  BY <1>1, <1>2, SeqAppend DEF HistoryInv
<1>5. DOMAIN ts = 1 .. n + 1
  BY <1>3, SeqDomain
<1>6. ASSUME NEW t \in 1 .. n + 1 PROVE Good(ts[t], cs[t])
  <2>1. t \in 1 .. n \/ t = n + 1
    OBVIOUS
  <2>2. CASE t \in 1 .. n
    BY <1>1, <1>3, <1>4, <2>2 DEF HistoryInv
  <2>3. CASE t = n + 1
    BY <1>3, <1>4, <2>3
  <2> QED BY <2>1, <2>2, <2>3
<1>7. transcripts' = ts /\ calls' = cs
  BY <1>2 DEF Create
<1> QED BY <1>3, <1>4, <1>5, <1>6, <1>7 DEF HistoryInv

LEMMA UpdateKeeps ==
  ASSUME HistoryInv, NEW t \in DOMAIN transcripts, NEW pair, NEW call,
         Good(pair, Append(calls[t], call)), Update(t, pair, call)
  PROVE  HistoryInv'
<1>1. DOMAIN transcripts = DOMAIN calls
  BY SeqDomain DEF HistoryInv
<1>2. PICK ts, cs : /\ ts = [transcripts EXCEPT ![t] = pair]
                    /\ cs = [calls EXCEPT ![t] = Append(calls[t], call)]
  OBVIOUS
<1>3. /\ IsSeq(ts) /\ Len(ts) = Len(transcripts) /\ DOMAIN ts = DOMAIN transcripts /\ ts[t] = pair
      /\ \A i \in DOMAIN transcripts \ {t} : ts[i] = transcripts[i]
  BY <1>2, SeqUpdate DEF HistoryInv
<1>4. PICK history : history = Append(calls[t], call)
  OBVIOUS
<1>5. /\ IsSeq(cs) /\ Len(cs) = Len(calls) /\ cs[t] = history
      /\ \A i \in DOMAIN calls \ {t} : cs[i] = calls[i]
  BY <1>1, <1>2, <1>4, SeqUpdate DEF HistoryInv
<1>6. ASSUME NEW u \in DOMAIN transcripts PROVE Good(ts[u], cs[u])
  <2>1. CASE u = t
    BY <1>3, <1>4, <1>5, <2>1
  <2>2. CASE u # t
    BY <1>1, <1>3, <1>5, <2>2 DEF HistoryInv
  <2> QED BY <2>1, <2>2
<1>7. transcripts' = ts /\ calls' = cs
  BY <1>2 DEF Update
<1>8. Len(cs) = Len(ts)
  BY <1>3, <1>5 DEF HistoryInv
<1> QED BY <1>3, <1>5, <1>6, <1>7, <1>8 DEF HistoryInv

-----------------------------------------------------------------------------
LEMMA InputsAreSeqs ==
  /\ \A message \in Messages : IsSeq(Absorbed(message))
  /\ \A h : IsSeq(<<Number(h)>>)
  /\ \A d \in Domains : IsSeq(Chunks(ToBytes(Len(d)) \o d))
<1>1. ASSUME NEW message \in Messages PROVE IsSeq(Absorbed(message))
  <2>1. PICK m : m = FlattenSeq(message) /\ IsSeq(m) /\ Len(m) \in Nat
    BY CallAssumption, Flattened, SeqDomain
  <2>2. PICK e : e = [j \in 1 .. Len(m) |-> Number(m[j])]
    OBVIOUS
  <2>3. e = [j \in 1 .. Len(m) |-> e[j]]
    BY <2>2
  <2> QED BY <2>1, <2>2, <2>3, SeqOfFunction DEF Absorbed
<1>2. ASSUME NEW h PROVE IsSeq(<<Number(h)>>)
  <2>1. PICK x : x = Number(h)
    OBVIOUS
  <2>2. <<x>> \in Seq({x})
    OBVIOUS
  <2> QED BY <2>1, <2>2 DEF IsSeq
<1>3. ASSUME NEW d \in Domains PROVE IsSeq(Chunks(ToBytes(Len(d)) \o d))
  <2>1. PICK bytes : bytes = ToBytes(Len(d))
    OBVIOUS
  <2>2. IsSeq(bytes)
    <3>1. LengthBytes \in Nat /\ bytes = [k \in 1 .. LengthBytes |-> bytes[k]]
      BY <2>1, FieldAssumption DEF ToBytes
    <3> QED BY <3>1, SeqOfFunction
  <2>3. IsSeq(d)
    BY DomainAssumption DEF IsSeq
  <2>4. PICK all : all = bytes \o d /\ IsSeq(all) /\ Len(all) \in Nat
    <3>1. PICK all : all = bytes \o d
      OBVIOUS
    <3>2. IsSeq(all)
      BY <2>2, <2>3, <3>1, SeqConcat
    <3> QED BY <3>1, <3>2, SeqDomain
  <2>5. PICK size \in Nat \ {0} : size = UsableBits \div ByteBits
    <3>1. PICK u, b, q : /\ u = UsableBits /\ u \in Nat /\ b = ByteBits /\ b \in Nat \ {0}
                        /\ b <= u /\ q = u \div b
      BY FieldAssumption
    <3>2. q \in Nat /\ u % b \in 0 .. b - 1 /\ u = b * q + (u % b)
      BY <3>1, DividedBy
    <3>3. q # 0
      <4>1. ASSUME q = 0 PROVE FALSE
        <5>1. b * q = 0
          BY <3>1, <4>1
        <5> QED BY <3>1, <3>2, <5>1
      <4> QED BY <4>1
    <3> QED BY <3>1, <3>2, <3>3
  <2>6. PICK n \in Nat : n = Ceil(Len(all), size)
    BY <2>4, CeilIsNumber
  <2>7. PICK c : c = ChunksOf(size, all)
    OBVIOUS
  <2>8. c = [k \in 1 .. n |-> c[k]]
    BY <2>6, <2>7 DEF ChunksOf
  <2>9. IsSeq(c)
    BY <2>8, SeqOfFunction
  <2> QED BY <2>1, <2>4, <2>5, <2>7, <2>9 DEF Chunks
<1> QED BY <1>1, <1>2, <1>3

\* A transcript that is made, and what is made of another
LEMMA NewIsGood ==
  ASSUME NEW h, NEW w, w = NewWithHash(h)
  PROVE  Good(Pair(w, w), <<Call("new", 1, <<h>>, <<>>, <<>>)>>)
<1>1. PICK v, s : s = S!NewSponge /\ v = [kind |-> "hash", sponge |-> s, cached |-> <<>>]
  OBVIOUS
<1>2. Sound(v) /\ v.kind = "hash"
  BY <1>1, NewSpongeOK DEF Sound, IsTranscript
<1>3. w = AddElements(v, <<Number(h)>>)
  BY <1>1 DEF NewWithHash
<1>4. PICK e : e = <<Number(h)>> /\ IsSeq(e)
  BY InputsAreSeqs
<1>5. Follows(v, w, <<>>)
  BY <1>2, <1>3, <1>4, AddFollows
<1>6. Good(Pair(v, v), <<>>)
  <2>1. DOMAIN <<>> = {}
    OBVIOUS
  <2>2. Pair(v, v).value = v /\ Pair(v, v).variable = v
    BY DEF Pair
  <2> QED BY <1>2, <2>1, <2>2, SeqEmpty DEF Good, AnswersOK
<1>7. Pair(v, v).value = v
  BY DEF Pair
<1>8. Good(Pair(w, w), Append(<<>>, Call("new", 1, <<h>>, <<>>, <<>>)))
  BY <1>5, <1>6, <1>7, GoodOneMore
<1>9. \A call : Append(<<>>, call) = <<call>>
  OBVIOUS
<1> QED BY <1>8, <1>9

LEMMA RecordingFollows ==
  ASSUME NEW v, Sound(v), v.kind = "hash" PROVE Follows(v, Recording(v), <<>>)
<1>1. PICK w : w = Recording(v) /\ w = [kind |-> "recording", sponge |-> v.sponge, cached |-> <<>>]
  BY DEF Recording
<1>2. SpongeOK(v.sponge) /\ v.kind \in Live
  BY DEF Sound, Live
<1>3. Sound(w) /\ w.sponge = v.sponge
  BY <1>1, <1>2 DEF Sound, IsTranscript
<1>4. NextPlace(v.sponge) <= NextPlace(v.sponge)
  <2>1. NextPlace(v.sponge) \in Nat
    BY <1>2, PlaceIsNumber
  <2> QED BY <2>1
<1> QED BY <1>1, <1>2, <1>3, <1>4, NothingTaken DEF Follows

LEMMA ReplayingFollows == ASSUME NEW v PROVE Follows(v, Replaying(v), <<>>)
<1>1. PICK w, c, s : w = Replaying(v) /\ w = [kind |-> "replay", sponge |-> s, cached |-> c]
  BY DEF Replaying
<1>2. Sound(w) /\ ~(w.kind \in Live)
  BY <1>1 DEF Sound, IsTranscript, Live
<1> QED BY <1>1, <1>2 DEF Follows

LEMMA PanickedFollows ==
  ASSUME NEW v, Sound(v) PROVE Follows(v, [v EXCEPT !.kind = "panicked"], <<>>)
<1>1. PICK w : w = [v EXCEPT !.kind = "panicked"]
  OBVIOUS
<1>2. w = [kind |-> "panicked", sponge |-> v.sponge, cached |-> v.cached]
  BY <1>1 DEF Sound, IsTranscript
<1>3. Sound(w) /\ ~(w.kind \in Live)
  BY <1>2 DEF Sound, IsTranscript, Live
<1> QED BY <1>1, <1>3 DEF Follows

-----------------------------------------------------------------------------
LEMMA HistoryInit == Init => HistoryInv
<1> SUFFICES ASSUME Init PROVE HistoryInv
  OBVIOUS
<1>1. DOMAIN <<>> = {}
  OBVIOUS
<1> QED BY <1>1, SeqEmpty DEF Init, HistoryInv

LEMMA UpdateFollows ==
  ASSUME HistoryInv, NEW t \in DOMAIN transcripts, NEW w, NEW op, NEW size, NEW arg, NEW answer,
         Follows(transcripts[t].value, w, answer),
         Update(t, Pair(w, w), Call(op, size, arg, answer, answer))
  PROVE  HistoryInv'
<1>1. PICK pair, history : pair = transcripts[t] /\ history = calls[t] /\ Good(pair, history)
  BY DEF HistoryInv
<1>2. Good(Pair(w, w), Append(history, Call(op, size, arg, answer, answer)))
  BY <1>1, GoodOneMore
<1> QED BY <1>1, <1>2, UpdateKeeps

LEMMA CreateFollows ==
  ASSUME HistoryInv, NEW t \in DOMAIN transcripts, NEW w, NEW op, NEW size, NEW arg,
         Follows(transcripts[t].value, w, <<>>),
         Create(Pair(w, w), Append(calls[t], Call(op, size, arg, <<>>, <<>>)))
  PROVE  HistoryInv'
<1>1. PICK pair, history : pair = transcripts[t] /\ history = calls[t] /\ Good(pair, history)
  BY DEF HistoryInv
<1>2. Good(Pair(w, w), Append(history, Call(op, size, arg, <<>>, <<>>)))
  BY <1>1, GoodOneMore
<1> QED BY <1>1, <1>2, CreateKeeps

LEMMA HistoryStep == HistoryInv /\ [Next]_vars => HistoryInv'
<1> SUFFICES ASSUME HistoryInv, [Next]_vars PROVE HistoryInv'
  OBVIOUS
<1>1. ASSUME NEW h \in Hashes, New(h) PROVE HistoryInv'
  <2>1. PICK w : w = NewWithHash(h)
    OBVIOUS
  <2>2. VarNewWithHash(h) = w
    BY <2>1 DEF VarNewWithHash, NewWithHash
  <2>3. PICK pair, history : /\ pair = Pair(w, w)
                             /\ history = <<Call("new", 1, <<h>>, <<>>, <<>>)>>
    OBVIOUS
  <2>4. Create(pair, history)
    BY <1>1, <2>1, <2>2, <2>3 DEF New
  <2>5. Good(pair, history)
    BY <2>1, <2>3, NewIsGood
  <2> QED BY <2>4, <2>5, CreateKeeps
<1>2. ASSUME NEW t \in Usable,
             \/ \E d \in Domains : Separate(t, d)
             \/ Record(t) \/ Replay(t)
             \/ \E message \in Messages : Add(t, message)
             \/ \E n \in Gets : GetFieldElements(t, n) \/ ChallengeFieldElements(t, n)
             \/ \E n \in Bits : GetTheBits(t, n) \/ ChallengeBits(t, n)
             \/ \E n \in Gets : Panic(t, "elements", n)
             \/ \E n \in Bits : Panic(t, "bits", n)
      PROVE  HistoryInv'
  <2>1. PICK v : /\ t \in DOMAIN transcripts
                 /\ v = transcripts[t].value /\ v = transcripts[t].variable
                 /\ Sound(v) /\ v.kind # "panicked"
    BY <1>2 DEF HistoryInv, Good, Usable
  <2>2. ASSUME NEW d \in Domains, Separate(t, d) PROVE HistoryInv'
    <3>1. PICK e, w : e = Chunks(ToBytes(Len(d)) \o d) /\ IsSeq(e) /\ w = AddElements(v, e)
      BY InputsAreSeqs
    <3>2. w = SeparateDomain(v, d) /\ w = VarSeparateDomain(v, d)
      BY <3>1 DEF SeparateDomain, VarSeparateDomain
    <3>3. Follows(v, w, <<>>)
      BY <2>1, <3>1, AddFollows
    <3>4. Create(Pair(w, w), Append(calls[t], Call("separate", Len(d), d, <<>>, <<>>)))
      BY <2>1, <2>2, <3>2 DEF Separate
    <3> QED BY <2>1, <3>3, <3>4, CreateFollows
  <2>3. ASSUME Record(t) PROVE HistoryInv'
    <3>1. PICK w : w = Recording(v)
      OBVIOUS
    <3>2. Follows(v, w, <<>>)
      BY <2>1, <2>3, <3>1, RecordingFollows DEF Record
    <3>3. Create(Pair(w, w), Append(calls[t], Call("record", 0, <<>>, <<>>, <<>>)))
      BY <2>1, <2>3, <3>1 DEF Record
    <3> QED BY <2>1, <3>2, <3>3, CreateFollows
  <2>4. ASSUME Replay(t) PROVE HistoryInv'
    <3>1. PICK w : w = Replaying(v)
      OBVIOUS
    <3>2. Follows(v, w, <<>>)
      BY <3>1, ReplayingFollows
    <3>3. Create(Pair(w, w), Append(calls[t], Call("replay", 0, <<>>, <<>>, <<>>)))
      BY <2>1, <2>4, <3>1 DEF Replay
    <3> QED BY <2>1, <3>2, <3>3, CreateFollows
  <2>5. ASSUME NEW message \in Messages, Add(t, message) PROVE HistoryInv'
    <3>1. PICK e, w : e = Absorbed(message) /\ IsSeq(e) /\ w = AddElements(v, e)
      BY InputsAreSeqs
    <3>2. Follows(v, w, <<>>)
      BY <2>1, <3>1, AddFollows
    <3>3. Update(t, Pair(w, w), Call("add", Len(e), e, <<>>, <<>>))
      BY <2>1, <2>5, <3>1 DEF Add
    <3> QED BY <2>1, <3>2, <3>3, UpdateFollows
  <2>6. ASSUME NEW n \in Gets, GetFieldElements(t, n) PROVE HistoryInv'
    <3>1. PICK w, answer : w = AfterElements(v, n) /\ answer = Elements(v, n)
      OBVIOUS
    <3>2. Follows(v, w, answer)
      BY <2>1, <3>1, ElementsFollow, CallAssumption
    <3>3. Update(t, Pair(w, w), Call("elements", n, <<>>, answer, answer))
      BY <2>1, <2>6, <3>1 DEF GetFieldElements
    <3> QED BY <2>1, <3>2, <3>3, UpdateFollows
  <2>7. ASSUME NEW n \in Gets, ChallengeFieldElements(t, n) PROVE HistoryInv'
    <3>1. PICK w, answer : w = AfterChallengeElements(v, n) /\ answer = Elements(v, n)
      OBVIOUS
    <3>2. VarAfterChallengeElements(v, n) = w
      BY <3>1 DEF AfterChallengeElements, VarAfterChallengeElements
    <3>3. Follows(v, AfterElements(v, n), answer)
      BY <2>1, <3>1, ElementsFollow, CallAssumption
    <3>4. Follows(v, w, answer)
      BY <2>1, <3>1, <3>3, AbsorbedAgain, CallAssumption
    <3>5. Update(t, Pair(w, w), Call("elements", n, <<>>, answer, answer))
      BY <2>1, <2>7, <3>1, <3>2 DEF ChallengeFieldElements
    <3> QED BY <2>1, <3>4, <3>5, UpdateFollows
  <2>8. ASSUME NEW n \in Bits, GetTheBits(t, n) PROVE HistoryInv'
    <3>1. PICK w, answer : w = AfterBits(v, n) /\ answer = GetBits(v, n)
      OBVIOUS
    <3>2. VarAfterBits(v, n) = w /\ VarGetBits(v, n) = answer
      BY <3>1 DEF AfterBits, VarAfterBits, GetBits, VarGetBits
    <3>3. Follows(v, w, answer)
      BY <2>1, <3>1, BitsFollow, CallAssumption
    <3>4. Update(t, Pair(w, w), Call("bits", n, <<>>, answer, answer))
      BY <2>1, <2>8, <3>1, <3>2 DEF GetTheBits
    <3> QED BY <2>1, <3>3, <3>4, UpdateFollows
  <2>9. ASSUME NEW n \in Bits, ChallengeBits(t, n) PROVE HistoryInv'
    <3>0. Sources(n) \in Nat
      BY SourcesAreNumber, CallAssumption
    <3>1. PICK w, answer, m : /\ w = AfterChallengeElements(v, m) /\ answer = GetBits(v, n)
                              /\ m = Sources(n) /\ m \in Nat
      BY <3>0
    <3>2. /\ AfterChallengeBits(v, n) = w /\ VarAfterChallengeBits(v, n) = w
          /\ VarGetBits(v, n) = answer
      BY <3>1 DEF AfterChallengeBits, VarAfterChallengeBits, AfterChallengeElements,
                  VarAfterChallengeElements, GetBits, VarGetBits
    <3>3. Follows(v, AfterElements(v, m), answer)
      BY <2>1, <3>1, BitsFollow, CallAssumption DEF AfterBits
    <3>4. Follows(v, w, answer)
      BY <2>1, <3>1, <3>3, AbsorbedAgain
    <3>5. Update(t, Pair(w, w), Call("bits", n, <<>>, answer, answer))
      BY <2>1, <2>9, <3>1, <3>2 DEF ChallengeBits
    <3> QED BY <2>1, <3>4, <3>5, UpdateFollows
  <2>10. ASSUME NEW op, NEW n, Panic(t, op, n) PROVE HistoryInv'
    <3>1. PICK w : w = [v EXCEPT !.kind = "panicked"]
      OBVIOUS
    <3>2. Follows(v, w, <<>>)
      BY <2>1, <3>1, PanickedFollows
    <3>3. Update(t, Pair(w, w), Call(op, n, <<>>, <<>>, <<>>))
      BY <2>1, <2>10, <3>1 DEF Panic
    <3> QED BY <2>1, <3>2, <3>3, UpdateFollows
  <2> QED BY <1>2, <2>2, <2>3, <2>4, <2>5, <2>6, <2>7, <2>8, <2>9, <2>10
<1>3. ASSUME UNCHANGED vars PROVE HistoryInv'
  BY <1>3 DEF vars, HistoryInv
<1> QED BY <1>1, <1>2, <1>3 DEF Next

LEMMA HistoryHolds == Spec => []HistoryInv
  BY HistoryInit, HistoryStep, PTL DEF Spec

\* Whatever is called, the in-circuit transcript is in the state of the transcript and has
\* answered the same.
THEOREM VariablesAgree == Spec => []VariableAgrees
<1>1. HistoryInv => VariableAgrees
  BY DEF HistoryInv, Good, VariableAgrees
<1> QED BY <1>1, HistoryHolds, PTL

\* In the history of a transcript that squeezes what it answers, no element and no bit is
\* answered twice, in one call or in two.
THEOREM AnswersAreFresh == Spec => []AnswersFresh
<1>1. HistoryInv => AnswersFresh
  <2> SUFFICES ASSUME HistoryInv, NEW t \in DOMAIN transcripts,
                      transcripts[t].value.kind \in {"hash", "recording"},
                      NEW c \in DOMAIN calls[t], NEW d \in DOMAIN calls[t], c < d
               PROVE  /\ ToSet(calls[t][c].answer) \cap ToSet(calls[t][d].answer) = {}
                      /\ IsInjective(calls[t][d].answer)
    BY DEF AnswersFresh
  <2>1. PICK v, history : /\ v = transcripts[t].value /\ history = calls[t]
                          /\ Good(transcripts[t], calls[t])
    BY DEF HistoryInv
  <2>2. v.kind \in Live /\ AnswersOK(v, history)
    BY <2>1 DEF Live, Good
  <2>3. PICK a, b : a = history[c].answer /\ b = history[d].answer
    OBVIOUS
  <2>4. ASSUME NEW i \in DOMAIN a, NEW j \in DOMAIN b PROVE a[i] # b[j]
    <3>1. PICK x \in Int, y \in Int : x = PlaceOf(a[i]) /\ y = PlaceOf(b[j]) /\ x < y
      BY <2>1, <2>2, <2>3 DEF AnswersOK, AnswerOK
    <3>2. x # y
      BY <3>1
    <3> QED BY <3>1, <3>2
  <2>5. \A i, j \in DOMAIN b : b[i] = b[j] => i = j
    BY <2>1, <2>2, <2>3 DEF AnswersOK, AnswerOK
  <2> QED BY <2>1, <2>3, <2>4, <2>5 DEF ToSet, IsInjective
<1> QED BY <1>1, HistoryHolds, PTL

-----------------------------------------------------------------------------
(***************************************************************************)
(* Replays                                                                 *)
(***************************************************************************)
\* A function on 0 .. n with values in V can be defined by its first value and by the next.
Steps(n, V) == [(1 .. n) \X V -> V]
IsDefined(n, V, base, next) ==
  \E f \in [0 .. n -> V] : f[0] = base /\ \A k \in 1 .. n : f[k] = next[<<k, f[k - 1]>>]

LEMMA Recursion ==
  ASSUME NEW n \in Nat, NEW V, NEW base \in V, NEW next \in Steps(n, V)
  PROVE  IsDefined(n, V, base, next)
<1>0. next \in [(1 .. n) \X V -> V]
  BY DEF Steps
<1> DEFINE T == {m \in 0 .. n : \E f \in [0 .. m -> V] :
                   f[0] = base /\ \A k \in 1 .. m : f[k] = next[<<k, f[k - 1]>>]}
<1>1. 0 \in T
  <2> DEFINE f == [k \in 0 .. 0 |-> base]
  <2>1. f \in [0 .. 0 -> V] /\ f[0] = base /\ 1 .. 0 = {} /\ 0 \in 0 .. n
    OBVIOUS
  <2> HIDE DEF f
  <2> QED BY <2>1
<1>2. ASSUME NEW m \in 1 .. n, m - 1 \in T PROVE m \in T
  <2>1. PICK f \in [0 .. m - 1 -> V] :
          f[0] = base /\ \A k \in 1 .. m - 1 : f[k] = next[<<k, f[k - 1]>>]
    BY <1>2
  <2>2. m - 1 \in 0 .. m - 1 /\ m \in 0 .. n
    OBVIOUS
  <2>3. PICK v \in V : v = next[<<m, f[m - 1]>>]
    <3>1. f[m - 1] \in V
      BY <2>1, <2>2
    <3>2. <<m, f[m - 1]>> \in (1 .. n) \X V
      BY <3>1
    <3> QED BY <1>0, <3>2
  <2>4. PICK g : g = [k \in 0 .. m |-> IF k = m THEN v ELSE f[k]]
    OBVIOUS
  <2>5. g \in [0 .. m -> V] /\ g[0] = base /\ g[m] = v /\ \A k \in 0 .. m - 1 : g[k] = f[k]
    <3>1. ASSUME NEW k \in 0 .. m, k # m PROVE k \in 0 .. m - 1
      BY <3>1
    <3>2. \A k \in 0 .. m - 1 : k \in 0 .. m /\ k # m
      OBVIOUS
    <3>3. 0 \in 0 .. m - 1 /\ m \in 0 .. m
      OBVIOUS
    <3>4. \A k \in 0 .. m - 1 : g[k] = f[k]
      BY <2>4, <3>2
    <3>5. g[m] = v
      BY <2>4, <3>3
    <3>6. \A k \in 0 .. m : (IF k = m THEN v ELSE f[k]) \in V
      BY <2>1, <2>3, <3>1
    <3>7. g \in [0 .. m -> V]
      BY <2>4, <3>6
    <3> QED BY <2>1, <3>3, <3>4, <3>5, <3>7
  <2>6. ASSUME NEW k \in 1 .. m PROVE g[k] = next[<<k, g[k - 1]>>]
    <3>1. k - 1 \in 0 .. m - 1
      OBVIOUS
    <3>2. CASE k = m
      BY <2>3, <2>5, <3>1, <3>2
    <3>3. CASE k # m
      <4>1. k \in 1 .. m - 1 /\ k \in 0 .. m - 1
        BY <3>3
      <4> QED BY <2>1, <2>5, <3>1, <4>1
    <3> QED BY <3>2, <3>3
  <2> QED BY <2>2, <2>5, <2>6
<1> HIDE DEF T
<1>3. 0 .. n \subseteq T
  BY <1>1, <1>2, UpTo, Zenon
<1>4. n \in T
  BY <1>3
<1> QED BY <1>4 DEF T, IsDefined

IsSqueeze(call) == call.op \in {"elements", "bits"}

\* f lists, for every n, the squeezes among the first n calls.
Lists(f, history) ==
  /\ f[0] = <<>>
  /\ \A n \in 1 .. Len(history) :
       f[n] = IF IsSqueeze(history[n]) THEN Append(f[n - 1], history[n]) ELSE f[n - 1]
  /\ \A n \in 0 .. Len(history) : IsSeq(f[n])

LEMMA SqueezesListed ==
  ASSUME NEW h, IsSeq(h) PROVE \E f : Lists(f, h) /\ Squeezes(h) = f[Len(h)]
<1>1. PICK T : h \in Seq(T)
  BY DEF IsSeq
<1>2. PICK n \in Nat : n = Len(h) /\ \A k \in 1 .. n : h[k] \in T
  BY <1>1
<1> DEFINE Step(k, s) == IF IsSqueeze(h[k]) THEN Append(s, h[k]) ELSE s
           next == [p \in (1 .. n) \X Seq(T) |-> Step(p[1], p[2])]
<1>3. next \in [(1 .. n) \X Seq(T) -> Seq(T)]
  <2>1. ASSUME NEW k \in 1 .. n, NEW s \in Seq(T) PROVE Step(k, s) \in Seq(T)
    BY <1>2
  <2> HIDE DEF Step
  <2> QED BY <2>1
<1>4. \A k \in 1 .. n, s \in Seq(T) : next[<<k, s>>] = Step(k, s)
  <2> HIDE DEF Step
  <2> QED OBVIOUS
<1> HIDE DEF next
<1>5. PICK f \in [0 .. n -> Seq(T)] : f[0] = <<>> /\ \A k \in 1 .. n : f[k] = next[<<k, f[k - 1]>>]
  <2>1. PICK V, none : V = Seq(T) /\ none = <<>> /\ none \in V
    <3>1. <<>> \in Seq(T)
      OBVIOUS
    <3> QED BY <3>1
  <2>2. PICK to : to = next /\ to \in Steps(n, V)
    BY <1>3, <2>1 DEF Steps
  <2>3. IsDefined(n, V, none, to)
    BY <2>1, <2>2, Recursion
  <2> QED BY <2>1, <2>2, <2>3 DEF IsDefined
<1>6. \A k \in 1 .. n : f[k] = Step(k, f[k - 1])
  <2>1. \A k \in 1 .. n : k - 1 \in 0 .. n
    OBVIOUS
  <2> HIDE DEF Step
  <2> QED BY <1>4, <1>5, <2>1
<1>7. \E g : g = [k \in 0 .. n |-> IF k = 0 THEN <<>> ELSE Step(k, g[k - 1])]
  <2>1. \A k \in 0 .. n : k # 0 => k \in 1 .. n
    OBVIOUS
  <2>2. f = [k \in 0 .. n |-> IF k = 0 THEN <<>> ELSE Step(k, f[k - 1])]
    <3> HIDE DEF Step
    <3>1. \A k \in 0 .. n : f[k] = IF k = 0 THEN <<>> ELSE Step(k, f[k - 1])
      BY <1>5, <1>6, <2>1
    <3> QED BY <3>1
  <2> HIDE DEF Step
  <2> QED BY <2>2
<1> DEFINE g == CHOOSE g : g = [k \in 0 .. n |-> IF k = 0 THEN <<>> ELSE Step(k, g[k - 1])]
<1>8. g = [k \in 0 .. n |-> IF k = 0 THEN <<>> ELSE Step(k, g[k - 1])]
  <2> HIDE DEF Step
  <2> QED BY <1>7
<1>9. Squeezes(h) = g[n]
  BY <1>2 DEF Squeezes, IsSqueeze
<1> HIDE DEF g
<1>10. g[0] = <<>> /\ \A k \in 1 .. n : g[k] = Step(k, g[k - 1])
  <2> HIDE DEF Step
  <2>1. \A k \in 1 .. n : k \in 0 .. n /\ k # 0
    OBVIOUS
  <2> QED BY <1>8, <2>1
<1>11. \A k \in 0 .. n : g[k] = f[k]
  <2> DEFINE U == {k \in 0 .. n : g[k] = f[k]}
  <2>1. 0 \in U
    BY <1>5, <1>10
  <2>2. ASSUME NEW k \in 1 .. n, k - 1 \in U PROVE k \in U
    <3> HIDE DEF Step
    <3>1. k \in 0 .. n
      OBVIOUS
    <3> QED BY <1>6, <1>10, <2>2, <3>1
  <2> HIDE DEF U
  <2>3. 0 .. n \subseteq U
    BY <2>1, <2>2, UpTo, Zenon
  <2> QED BY <2>3 DEF U
<1>12. \A k \in 0 .. n : IsSeq(g[k])
  BY <1>5, <1>11 DEF IsSeq
<1> QED BY <1>2, <1>9, <1>10, <1>12 DEF Lists

LEMMA SqueezesAreSeq == ASSUME NEW h, IsSeq(h) PROVE IsSeq(Squeezes(h))
<1>1. PICK f : Lists(f, h) /\ Squeezes(h) = f[Len(h)]
  BY SqueezesListed
<1>2. PICK n \in Nat : n = Len(h)
  BY SeqDomain
<1>3. n \in 0 .. n
  OBVIOUS
<1> QED BY <1>1, <1>2, <1>3 DEF Lists

LEMMA NothingSqueezed == Squeezes(<<>>) = <<>>
<1>1. PICK h, f : h = <<>> /\ Lists(f, h) /\ Squeezes(h) = f[Len(h)] /\ Len(h) = 0
  <2>1. \E f : Lists(f, <<>>) /\ Squeezes(<<>>) = f[Len(<<>>)]
    BY SeqEmpty, SqueezesListed
  <2> QED BY <2>1, SeqEmpty
<1> QED BY <1>1 DEF Lists

LEMMA SqueezesMore ==
  ASSUME NEW h, IsSeq(h), NEW call
  PROVE  Squeezes(Append(h, call)) = IF IsSqueeze(call) THEN Append(Squeezes(h), call) ELSE Squeezes(h)
<1>1. PICK f : Lists(f, h) /\ Squeezes(h) = f[Len(h)]
  BY SqueezesListed
<1>2. PICK n \in Nat : n = Len(h)
  BY SeqDomain
<1>3. PICK m : m = Append(h, call) /\ IsSeq(m) /\ Len(m) = n + 1 /\ m[n + 1] = call
               /\ \A i \in 1 .. n : m[i] = h[i]
  <2>1. PICK m : m = Append(h, call)
    OBVIOUS
  <2>2. IsSeq(m) /\ Len(m) = n + 1 /\ m[n + 1] = call /\ \A i \in 1 .. n : m[i] = h[i]
    BY <1>2, <2>1, SeqAppend
  <2> QED BY <2>1, <2>2
<1>4. PICK g : Lists(g, m) /\ Squeezes(m) = g[n + 1]
  BY <1>3, SqueezesListed
<1> DEFINE T == {k \in 0 .. n : g[k] = f[k]}
<1>5. 0 \in T
  BY <1>1, <1>4 DEF Lists
<1>6. ASSUME NEW k \in 1 .. n, k - 1 \in T PROVE k \in T
  <2>1. k \in 0 .. n /\ k \in 1 .. n + 1
    OBVIOUS
  <2>2. f[k] = IF IsSqueeze(h[k]) THEN Append(f[k - 1], h[k]) ELSE f[k - 1]
    BY <1>1, <1>2 DEF Lists
  <2>3. g[k] = IF IsSqueeze(m[k]) THEN Append(g[k - 1], m[k]) ELSE g[k - 1]
    BY <1>3, <1>4, <2>1 DEF Lists
  <2>4. m[k] = h[k] /\ g[k - 1] = f[k - 1]
    BY <1>3, <1>6
  <2>5. g[k] = f[k]
    <3>1. CASE IsSqueeze(h[k])
      BY <2>2, <2>3, <2>4, <3>1
    <3>2. CASE ~IsSqueeze(h[k])
      BY <2>2, <2>3, <2>4, <3>2
    <3> QED BY <3>1, <3>2
  <2> QED BY <2>1, <2>5
<1> HIDE DEF T
<1>7. n \in T
  <2>1. 0 .. n \subseteq T
    BY <1>5, <1>6, UpTo, Zenon
  <2> QED BY <2>1
<1>8. g[n] = f[n]
  BY <1>7 DEF T
<1>9. g[n + 1] = IF IsSqueeze(m[n + 1]) THEN Append(g[n], m[n + 1]) ELSE g[n]
  <2>1. n + 1 \in 1 .. n + 1 /\ n + 1 - 1 = n
    OBVIOUS
  <2> QED BY <1>3, <1>4, <2>1 DEF Lists
<1> QED BY <1>1, <1>2, <1>3, <1>4, <1>8, <1>9

\* The calls of a history that are op
Never(op, h) == \A c \in DOMAIN h : h[c].op # op
Once(op, h) == \E m \in DOMAIN h : h[m].op = op /\ \A c \in DOMAIN h : h[c].op = op => c = m

LEMMA NeverMore ==
  ASSUME NEW h, IsSeq(h), NEW op, NEW call
  PROVE  /\ Never(op, h) /\ call.op # op => Never(op, Append(h, call))
         /\ Never(op, h) /\ call.op = op =>
              /\ Once(op, Append(h, call)) /\ Since(op, Append(h, call)) = <<>>
              /\ Before(op, Append(h, call)) = h
         /\ Once(op, h) /\ call.op # op =>
              /\ Once(op, Append(h, call))
              /\ Since(op, Append(h, call)) = Append(Since(op, h), call)
              /\ Before(op, Append(h, call)) = Before(op, h)
         /\ Once(op, h) => IsSeq(Since(op, h)) /\ IsSeq(Before(op, h))
<1>1. PICK n \in Nat : n = Len(h) /\ DOMAIN h = 1 .. n
  BY SeqDomain
<1>2. PICK g : g = Append(h, call) /\ IsSeq(g) /\ Len(g) = n + 1 /\ g[n + 1] = call
               /\ (\A i \in 1 .. n : g[i] = h[i]) /\ DOMAIN g = 1 .. n + 1
  <2>1. PICK g : g = Append(h, call)
    OBVIOUS
  <2>2. IsSeq(g) /\ Len(g) = n + 1 /\ g[n + 1] = call /\ \A i \in 1 .. n : g[i] = h[i]
    BY <1>1, <2>1, SeqAppend
  <2>3. DOMAIN g = 1 .. n + 1
    BY <2>2, SeqDomain
  <2> QED BY <2>1, <2>2, <2>3
<1>3. \A c \in 1 .. n + 1 : c \in 1 .. n \/ c = n + 1
  OBVIOUS
<1>4. \A c \in 1 .. n : c \in 1 .. n + 1 /\ c # n + 1
  OBVIOUS
<1>5. n + 1 \in 1 .. n + 1
  OBVIOUS
<1>6. ASSUME Never(op, h), call.op # op PROVE Never(op, g)
  BY <1>1, <1>2, <1>3, <1>6 DEF Never
<1>7. ASSUME Never(op, h), call.op = op
      PROVE  Once(op, g) /\ Since(op, g) = <<>> /\ Before(op, g) = h
  <2>1. g[n + 1].op = op /\ \A c \in DOMAIN g : g[c].op = op => c = n + 1
    BY <1>1, <1>2, <1>3, <1>7 DEF Never
  <2>2. CallOf(op, g) = n + 1
    BY <1>2, <1>5, <2>1 DEF CallOf
  <2>3. Once(op, g)
    BY <1>2, <1>5, <2>1 DEF Once
  <2>4. Since(op, g) = <<>>
    <3>1. PICK s : s = SubSeq(g, n + 2, n + 1)
      OBVIOUS
    <3>2. IsSeq(s) /\ Len(s) = 0
      <4>1. PICK a \in Nat, b \in Nat : a = n + 2 /\ b = n + 1 /\ a >= 1 /\ b <= Len(g) /\ a <= b + 1
                                        /\ b - a + 1 = 0
        <5>1. n + 2 \in Nat /\ n + 1 \in Nat
          OBVIOUS
        <5> QED BY <1>2, <5>1
      <4> QED BY <1>2, <3>1, <4>1, SeqPart
    <3>3. s = <<>>
      <4>1. \A i \in 1 .. Len(s) : s[i] = <<>>[i]
        BY <3>2
      <4> QED BY <3>2, <4>1, SeqEmpty, OneSeq
    <3>4. n + 1 + 1 = n + 2
      OBVIOUS
    <3> QED BY <1>2, <2>2, <3>1, <3>3, <3>4 DEF Since
  <2>5. Before(op, g) = h
    <3>1. PICK s : s = SubSeq(g, 1, n)
      OBVIOUS
    <3>2. IsSeq(s) /\ Len(s) = n /\ \A i \in 1 .. n : s[i] = g[i]
      <4>1. n <= Len(g) /\ 1 <= n + 1 /\ 1 >= 1 /\ 1 \in Nat
        BY <1>2
      <4>2. IsSeq(s) /\ Len(s) = n - 1 + 1 /\ \A i \in 1 .. n - 1 + 1 : s[i] = g[1 + i - 1]
        BY <1>2, <3>1, <4>1, SeqPart
      <4>3. n - 1 + 1 = n /\ \A i \in 1 .. n : 1 + i - 1 = i
        OBVIOUS
      <4> QED BY <4>2, <4>3
    <3>3. s = h
      BY <1>1, <1>2, <3>2, OneSeq
    <3>4. n + 1 - 1 = n
      OBVIOUS
    <3> QED BY <2>2, <3>1, <3>3, <3>4 DEF Before
  <2> QED BY <2>3, <2>4, <2>5
<1>8. ASSUME Once(op, h)
      PROVE  /\ IsSeq(Since(op, h)) /\ IsSeq(Before(op, h))
             /\ call.op # op => /\ Once(op, g) /\ Since(op, g) = Append(Since(op, h), call)
                                /\ Before(op, g) = Before(op, h)
  <2>1. PICK m \in 1 .. n : h[m].op = op /\ \A c \in 1 .. n : h[c].op = op => c = m
    BY <1>1, <1>8 DEF Once
  <2>2. CallOf(op, h) = m
    BY <1>1, <2>1 DEF CallOf
  <2>3. PICK a \in Nat, b \in Nat : a = m + 1 /\ b = m - 1 /\ a >= 1 /\ a <= n + 1 /\ b <= n
    <3>1. m + 1 \in Nat /\ m - 1 \in Nat
      OBVIOUS
    <3> QED BY <3>1
  <2>4. PICK s, p : s = SubSeq(h, a, n) /\ p = SubSeq(h, 1, b)
    OBVIOUS
  <2>5. Since(op, h) = s /\ Before(op, h) = p
    BY <1>1, <2>2, <2>3, <2>4 DEF Since, Before
  <2>6. IsSeq(s) /\ Len(s) = n - a + 1 /\ \A i \in 1 .. n - a + 1 : s[i] = h[a + i - 1]
    <3>1. n <= Len(h)
      BY <1>1
    <3> QED BY <2>3, <2>4, <3>1, SeqPart
  <2>7. IsSeq(p) /\ Len(p) = b - 1 + 1 /\ \A i \in 1 .. b - 1 + 1 : p[i] = h[1 + i - 1]
    <3>1. b <= Len(h) /\ 1 <= b + 1 /\ 1 >= 1 /\ 1 \in Nat
      BY <1>1, <2>3
    <3> QED BY <2>4, <3>1, SeqPart
  <2>8. ASSUME call.op # op
        PROVE  Once(op, g) /\ Since(op, g) = Append(Since(op, h), call) /\ Before(op, g) = Before(op, h)
    <3>1. g[m].op = op /\ m \in 1 .. n + 1 /\ \A c \in 1 .. n + 1 : g[c].op = op => c = m
      BY <1>2, <1>3, <1>4, <2>1, <2>8
    <3>2. Once(op, g)
      BY <1>2, <3>1 DEF Once
    <3>3. CallOf(op, g) = m
      BY <1>2, <3>1 DEF CallOf
    <3>4. PICK t, q : t = SubSeq(g, a, n + 1) /\ q = SubSeq(g, 1, b)
      OBVIOUS
    <3>5. Since(op, g) = t /\ Before(op, g) = q
      BY <1>2, <2>3, <3>3, <3>4 DEF Since, Before
    <3>6. IsSeq(t) /\ Len(t) = n + 1 - a + 1 /\ \A i \in 1 .. n + 1 - a + 1 : t[i] = g[a + i - 1]
      <4>1. PICK k \in Nat : k = n + 1
        <5>1. n + 1 \in Nat
          OBVIOUS
        <5> QED BY <5>1
      <4>2. IsSeq(g) /\ a >= 1 /\ k <= Len(g) /\ a <= k + 1
        BY <1>2, <2>3, <4>1
      <4>3. IsSeq(SubSeq(g, a, k)) /\ Len(SubSeq(g, a, k)) = k - a + 1
            /\ \A i \in 1 .. k - a + 1 : SubSeq(g, a, k)[i] = g[a + i - 1]
        BY <4>2, SeqPart
      <4> QED BY <3>4, <4>1, <4>3
    <3>7. IsSeq(q) /\ Len(q) = b - 1 + 1 /\ \A i \in 1 .. b - 1 + 1 : q[i] = g[1 + i - 1]
      <4>1. b <= Len(g) /\ 1 <= b + 1 /\ 1 >= 1 /\ 1 \in Nat
        BY <1>2, <2>3
      <4> QED BY <1>2, <3>4, <4>1, SeqPart, ZenonT(30)
    <3>8. q = p
      <4>1. \A i \in 1 .. b - 1 + 1 : 1 + i - 1 \in 1 .. n
        BY <2>3
      <4>2. \A i \in 1 .. b - 1 + 1 : q[i] = p[i]
        BY <1>2, <2>7, <3>7, <4>1
      <4> QED BY <2>7, <3>7, <4>2, OneSeq
    <3>9. t = Append(s, call)
      <4>1. PICK k \in Nat : k = n - a + 1 /\ n + 1 - a + 1 = k + 1
        <5>1. n - a + 1 \in Nat /\ n + 1 - a + 1 = (n - a + 1) + 1
          BY <2>3
        <5> QED BY <5>1
      <4>2. PICK u : u = Append(s, call) /\ IsSeq(u) /\ Len(u) = k + 1 /\ u[k + 1] = call
                     /\ \A i \in 1 .. k : u[i] = s[i]
        <5>1. PICK u : u = Append(s, call)
          OBVIOUS
        <5>2. IsSeq(s) /\ Len(s) = k
          BY <2>6, <4>1
        <5>3. IsSeq(u) /\ Len(u) = k + 1 /\ u[k + 1] = call /\ \A i \in 1 .. k : u[i] = s[i]
          BY <5>1, <5>2, SeqAppend
        <5> QED BY <5>1, <5>3
      <4>3. ASSUME NEW i \in 1 .. k + 1 PROVE t[i] = u[i]
        <5>1. t[i] = g[a + i - 1]
          BY <3>6, <4>1
        <5>2. CASE i \in 1 .. k
          <6>1. a + i - 1 \in 1 .. n
            BY <2>3, <4>1, <5>2
          <6>2. u[i] = h[a + i - 1]
            BY <2>6, <4>1, <4>2, <5>2
          <6> QED BY <1>2, <5>1, <6>1, <6>2
        <5>3. CASE i = k + 1
          <6>1. a + i - 1 = n + 1
            BY <2>3, <4>1, <5>3
          <6> QED BY <1>2, <4>2, <5>1, <5>3, <6>1
        <5> QED BY <5>2, <5>3
      <4>4. IsSeq(t) /\ Len(t) = k + 1
        BY <3>6, <4>1
      <4> QED BY <4>2, <4>3, <4>4, OneSeq
    <3> QED BY <2>5, <3>2, <3>5, <3>8, <3>9
  <2> QED BY <2>5, <2>6, <2>7, <2>8
<1> QED BY <1>2, <1>6, <1>7, <1>8

\* How many elements a call takes, and what it answers when it takes those of a list from there
Count(call) == IF call.op = "bits" THEN Sources(call.size) ELSE call.size
Part(list, from, n) == [k \in 1 .. n |-> list[from + k]]
Piece(list, from, call) ==
  IF call.op = "bits" THEN ToBits(Part(list, from, Count(call)), call.size)
  ELSE Part(list, from, Count(call))

\* The calls answer with the elements of a list in order; taken has how many they have taken.
Taken(taken, list, history) ==
  /\ taken[0] = 0
  /\ \A k \in 0 .. Len(history) : taken[k] \in Nat /\ taken[k] <= Len(list)
  /\ \A k \in 1 .. Len(history) :
       /\ Count(history[k]) \in Nat /\ taken[k] = taken[k - 1] + Count(history[k])
       /\ history[k].answer = Piece(list, taken[k - 1], history[k])

Serves(list, history, n) == \E taken : Taken(taken, list, history) /\ taken[Len(history)] = n

LEMMA ServesNothing == ASSUME NEW list, IsSeq(list) PROVE Serves(list, <<>>, 0)
<1>1. PICK taken : taken = [k \in 0 .. 0 |-> 0]
  OBVIOUS
<1>2. taken[0] = 0 /\ Len(list) \in Nat
  BY <1>1, SeqDomain
<1>3. Taken(taken, list, <<>>)
  <2>1. \A k \in 0 .. 0 : k = 0
    OBVIOUS
  <2>2. 1 .. 0 = {}
    OBVIOUS
  <2>3. Len(<<>>) = 0
    OBVIOUS
  <2>4. \A k \in 0 .. 0 : taken[k] \in Nat /\ taken[k] <= Len(list)
    BY <1>2, <2>1
  <2> QED BY <1>2, <2>2, <2>3, <2>4 DEF Taken
<1>4. Len(<<>>) = 0
  OBVIOUS
<1> QED BY <1>2, <1>3, <1>4 DEF Serves

LEMMA ServesMore ==
  ASSUME NEW list, IsSeq(list), NEW history, IsSeq(history), NEW n \in Nat, Serves(list, history, n),
         NEW call, Count(call) \in Nat, n + Count(call) <= Len(list),
         call.answer = Piece(list, n, call)
  PROVE  Serves(list, Append(history, call), n + Count(call))
<1>1. PICK m \in Nat : m = Len(history)
  BY SeqDomain
<1>2. PICK old : Taken(old, list, history) /\ old[m] = n
  BY <1>1 DEF Serves
<1>3. PICK h : h = Append(history, call)
  OBVIOUS
<1>4. IsSeq(h) /\ Len(h) = m + 1 /\ h[m + 1] = call /\ \A i \in 1 .. m : h[i] = history[i]
  BY <1>1, <1>3, SeqAppend
<1>5. PICK t \in Nat : t = n + Count(call) /\ t <= Len(list)
  <2>1. n + Count(call) \in Nat
    OBVIOUS
  <2> QED BY <2>1
<1>6. PICK new : new = [k \in 0 .. m + 1 |-> IF k = m + 1 THEN t ELSE old[k]]
  OBVIOUS
<1>7. new[m + 1] = t /\ \A k \in 0 .. m : new[k] = old[k]
  <2>1. m + 1 \in 0 .. m + 1 /\ \A k \in 0 .. m : k \in 0 .. m + 1 /\ k # m + 1
    OBVIOUS
  <2> QED BY <1>6, <2>1
<1>8. \A k \in 0 .. m + 1 : new[k] \in Nat /\ new[k] <= Len(list)
  <2>1. \A k \in 0 .. m + 1 : k \in 0 .. m \/ k = m + 1
    OBVIOUS
  <2>2. \A k \in 0 .. m : old[k] \in Nat /\ old[k] <= Len(list)
    BY <1>1, <1>2 DEF Taken
  <2> QED BY <1>5, <1>7, <2>1, <2>2
<1>9. new[0] = 0
  BY <1>2, <1>7 DEF Taken
<1>10. ASSUME NEW k \in 1 .. m + 1
       PROVE  /\ Count(h[k]) \in Nat /\ new[k] = new[k - 1] + Count(h[k])
              /\ h[k].answer = Piece(list, new[k - 1], h[k])
  <2>1. CASE k \in 1 .. m
    <3>1. k - 1 \in 0 .. m /\ k \in 0 .. m
      BY <2>1
    <3>2. new[k] = old[k] /\ new[k - 1] = old[k - 1] /\ h[k] = history[k]
      BY <1>4, <1>7, <2>1, <3>1
    <3> QED BY <1>1, <1>2, <2>1, <3>2 DEF Taken
  <2>2. CASE k = m + 1
    <3>1. k - 1 \in 0 .. m /\ k - 1 = m
      BY <2>2
    <3> QED BY <1>2, <1>4, <1>5, <1>7, <2>2, <3>1
  <2> QED BY <2>1, <2>2
<1>11. Taken(new, list, h)
  BY <1>4, <1>8, <1>9, <1>10 DEF Taken
<1> QED BY <1>3, <1>4, <1>5, <1>7, <1>11 DEF Serves

LEMMA SamePiece ==
  ASSUME NEW list, IsSeq(list), NEW more, IsSeq(more), NEW from \in Nat, NEW call,
         Count(call) \in Nat, from + Count(call) <= Len(list)
  PROVE  Piece(list \o more, from, call) = Piece(list, from, call)
<1>1. PICK c \in Nat, n \in Nat : c = Count(call) /\ n = Len(list) /\ from + c <= n
  BY SeqDomain
<1>2. PICK all : all = list \o more
  OBVIOUS
<1>3. \A i \in 1 .. n : all[i] = list[i]
  BY <1>1, <1>2, SeqConcat
<1>4. \A k \in 1 .. c : all[from + k] = list[from + k]
  <2>1. \A k \in 1 .. c : from + k \in 1 .. n
    BY <1>1
  <2> QED BY <1>3, <2>1
<1>5. Part(all, from, c) = Part(list, from, c)
  BY <1>4 DEF Part
<1> QED BY <1>1, <1>2, <1>5 DEF Piece

LEMMA ServesLonger ==
  ASSUME NEW list, IsSeq(list), NEW more, IsSeq(more), NEW history, IsSeq(history), NEW n,
         Serves(list, history, n)
  PROVE  Serves(list \o more, history, n)
<1>1. PICK taken : Taken(taken, list, history) /\ taken[Len(history)] = n
  BY DEF Serves
<1>2. PICK m \in Nat : m = Len(history)
  BY SeqDomain
<1>3. PICK a \in Nat, b \in Nat, c \in Nat : a = Len(list) /\ b = Len(list \o more) /\ b = a + c
  <2>1. Len(list) \in Nat /\ Len(more) \in Nat /\ Len(list \o more) = Len(list) + Len(more)
    BY SeqDomain, SeqConcat
  <2>2. Len(list) + Len(more) \in Nat
    BY <2>1
  <2> QED BY <2>1, <2>2
<1>4. \A k \in 0 .. m : taken[k] \in Nat /\ taken[k] <= b
  <2>1. \A k \in 0 .. m : taken[k] \in Nat /\ taken[k] <= a
    BY <1>1, <1>2, <1>3 DEF Taken
  <2> QED BY <1>3, <2>1
<1>5. ASSUME NEW k \in 1 .. m
      PROVE  /\ Count(history[k]) \in Nat /\ taken[k] = taken[k - 1] + Count(history[k])
             /\ history[k].answer = Piece(list \o more, taken[k - 1], history[k])
  <2>1. k - 1 \in 0 .. m /\ k \in 0 .. m
    OBVIOUS
  <2>2. /\ Count(history[k]) \in Nat /\ taken[k] = taken[k - 1] + Count(history[k])
        /\ history[k].answer = Piece(list, taken[k - 1], history[k])
        /\ taken[k - 1] \in Nat /\ taken[k] <= a
    BY <1>1, <1>2, <1>3, <2>1 DEF Taken
  <2>3. PICK from, call : from \in Nat /\ from = taken[k - 1] /\ call = history[k]
    BY <2>2
  <2>4. Count(call) \in Nat /\ from + Count(call) <= Len(list)
    BY <1>3, <2>2, <2>3
  <2>5. Piece(list \o more, from, call) = Piece(list, from, call)
    BY <2>3, <2>4, SamePiece
  <2> QED BY <2>2, <2>3, <2>5
<1>6. taken[0] = 0
  BY <1>1 DEF Taken
<1>7. Taken(taken, list \o more, history)
  BY <1>2, <1>3, <1>4, <1>5, <1>6 DEF Taken
<1> QED BY <1>1, <1>7 DEF Serves

\* Histories of the same shape take and answer the same.
LEMMA SameServed ==
  ASSUME NEW list, NEW h, IsSeq(h), NEW g, IsSeq(g), NEW a, Taken(a, list, h),
         NEW b, Taken(b, list, g), Len(g) <= Len(h),
         \A k \in 1 .. Len(g) : g[k].op = h[k].op /\ g[k].size = h[k].size
  PROVE  /\ \A k \in 0 .. Len(g) : b[k] = a[k]
         /\ \A k \in 1 .. Len(g) : g[k].answer = h[k].answer
<1>1. PICK m \in Nat, n \in Nat : m = Len(g) /\ n = Len(h) /\ m <= n
  BY SeqDomain
<1>2. \A k \in 1 .. m : Count(g[k]) = Count(h[k])
  BY <1>1 DEF Count
<1>3. \A k \in 1 .. m : k - 1 \in 0 .. m /\ k \in 0 .. m /\ k \in 1 .. n
  BY <1>1
<1> DEFINE T == {k \in 0 .. m : b[k] = a[k]}
<1>4. 0 \in T
  BY DEF Taken
<1>5. ASSUME NEW k \in 1 .. m, k - 1 \in T PROVE k \in T
  <2>1. b[k] = b[k - 1] + Count(g[k])
    BY <1>1, <1>3 DEF Taken
  <2>2. a[k] = a[k - 1] + Count(h[k])
    BY <1>1, <1>3 DEF Taken
  <2>3. b[k] = a[k]
    BY <1>2, <1>5, <2>1, <2>2
  <2> QED BY <1>3, <2>3
<1> HIDE DEF T
<1>6. 0 .. m \subseteq T
  BY <1>4, <1>5, UpTo, Zenon
<1>7. \A k \in 0 .. m : b[k] = a[k]
  BY <1>6 DEF T
<1>8. ASSUME NEW k \in 1 .. m PROVE g[k].answer = h[k].answer
  <2>1. g[k].answer = Piece(list, b[k - 1], g[k])
    BY <1>1 DEF Taken
  <2>2. h[k].answer = Piece(list, a[k - 1], h[k])
    BY <1>1, <1>3 DEF Taken
  <2>3. b[k - 1] = a[k - 1]
    BY <1>3, <1>7
  <2>4. Piece(list, b[k - 1], g[k]) = Piece(list, a[k - 1], h[k])
    BY <1>1, <1>2, <2>3 DEF Piece
  <2> QED BY <2>1, <2>2, <2>4
<1> QED BY <1>1, <1>7, <1>8

Recorded(h) == Squeezes(Since("record", Before("replay", h)))
Replayed(h) == Squeezes(Since("replay", h))

\* The elements of a list that are left to a replay when n were taken, the next one last
Rest(list, n) == [k \in 1 .. Len(list) - n |-> list[Len(list) - k + 1]]

\* A list was recorded by the one part of a history, and n of it were taken by later calls.
Copies(list, n, h, later) ==
  /\ IsSeq(list) /\ n \in Nat /\ n <= Len(list) /\ IsSeq(later)
  /\ Serves(list, Recorded(h), Len(list)) /\ Serves(list, later, n)

\* What a transcript keeps is what the calls have recorded, or have left of it.
Kept(v, h) ==
  /\ v.kind = "hash" => Never("record", h) /\ Never("replay", h)
  /\ v.kind = "recording" =>
       /\ Once("record", h) /\ Never("replay", h)
       /\ IsSeq(v.cached) /\ Serves(v.cached, Squeezes(Since("record", h)), Len(v.cached))
  /\ v.kind \in {"replay", "panicked"} => Once("replay", h) /\ Once("record", Before("replay", h))
  /\ v.kind = "replay" => \E list, n : Copies(list, n, h, Replayed(h)) /\ v.cached = Rest(list, n)
  /\ v.kind = "panicked" =>
       \E list, n, past, call :
         /\ Copies(list, n, h, past) /\ Replayed(h) = Append(past, call)
         /\ Count(call) \in Nat /\ n + Count(call) > Len(list)

LEMMA SinceSqueezes ==
  ASSUME NEW h, IsSeq(h), NEW op, Once(op, h), NEW call, call.op # op
  PROVE  Squeezes(Since(op, Append(h, call)))
           = IF IsSqueeze(call) THEN Append(Squeezes(Since(op, h)), call) ELSE Squeezes(Since(op, h))
<1>1. PICK s : s = Since(op, h) /\ IsSeq(s) /\ Since(op, Append(h, call)) = Append(s, call)
  BY NeverMore
<1> QED BY <1>1, SqueezesMore

LEMMA KeptQuiet ==
  ASSUME NEW v, NEW w, NEW h, IsSeq(h), Kept(v, h), w.kind = v.kind, w.cached = v.cached,
         NEW call, call.op \notin {"elements", "bits", "record", "replay"}
  PROVE  Kept(w, Append(h, call))
<1>1. call.op # "record" /\ call.op # "replay" /\ ~IsSqueeze(call)
  BY DEF IsSqueeze
<1>2. PICK g : g = Append(h, call)
  OBVIOUS
<1>3. ASSUME v.kind = "hash" PROVE Never("record", g) /\ Never("replay", g)
  BY <1>1, <1>2, <1>3, NeverMore DEF Kept
<1>4. ASSUME v.kind = "recording"
      PROVE  /\ Once("record", g) /\ Never("replay", g)
             /\ Squeezes(Since("record", g)) = Squeezes(Since("record", h))
  <2>1. Once("record", h) /\ Never("replay", h)
    BY <1>4 DEF Kept
  <2>2. Once("record", g) /\ Never("replay", g)
    BY <1>1, <1>2, <2>1, NeverMore
  <2> QED BY <1>1, <1>2, <2>1, <2>2, SinceSqueezes
<1>5. ASSUME v.kind \in {"replay", "panicked"}
      PROVE  /\ Once("replay", g) /\ Once("record", Before("replay", g))
             /\ Recorded(g) = Recorded(h) /\ Replayed(g) = Replayed(h)
  <2>1. Once("replay", h) /\ Once("record", Before("replay", h))
    BY <1>5 DEF Kept
  <2>2. Once("replay", g) /\ Before("replay", g) = Before("replay", h)
    BY <1>1, <1>2, <2>1, NeverMore
  <2>3. Replayed(g) = Replayed(h)
    BY <1>1, <1>2, <2>1, SinceSqueezes DEF Replayed
  <2> QED BY <2>1, <2>2, <2>3 DEF Recorded
<1> QED BY <1>2, <1>3, <1>4, <1>5 DEF Kept, Copies

\* What is squeezed, as it is answered
Whole(elements, call) == IF call.op = "bits" THEN ToBits(elements, call.size) ELSE elements

LEMMA KeptHash ==
  ASSUME NEW v, NEW w, NEW h, IsSeq(h), Kept(v, h), v.kind = "hash", w.kind = "hash",
         NEW call, IsSqueeze(call)
  PROVE  Kept(w, Append(h, call))
<1>1. call.op # "record" /\ call.op # "replay"
  BY DEF IsSqueeze
<1>2. PICK g : g = Append(h, call)
  OBVIOUS
<1>3. Never("record", g) /\ Never("replay", g)
  BY <1>1, <1>2, NeverMore DEF Kept
<1> QED BY <1>2, <1>3 DEF Kept

LEMMA KeptRecording ==
  ASSUME NEW v, NEW w, NEW h, IsSeq(h), Kept(v, h), v.kind = "recording", w.kind = "recording",
         NEW call, IsSqueeze(call), Count(call) \in Nat,
         NEW elements, IsSeq(elements), Len(elements) = Count(call),
         call.answer = Whole(elements, call), w.cached = v.cached \o elements
  PROVE  Kept(w, Append(h, call))
<1>1. call.op # "record" /\ call.op # "replay"
  BY DEF IsSqueeze
<1>2. PICK g, s, old, list :
        /\ g = Append(h, call) /\ s = Squeezes(Since("record", h))
        /\ old = v.cached /\ list = old \o elements
  OBVIOUS
<1>3. Once("record", h) /\ Never("replay", h) /\ IsSeq(old) /\ Serves(old, s, Len(old))
  BY <1>2 DEF Kept
<1>4. Once("record", g) /\ Never("replay", g) /\ IsSeq(Since("record", h))
  BY <1>1, <1>2, <1>3, NeverMore
<1>5. IsSeq(s)
  BY <1>2, <1>4, SqueezesAreSeq
<1>6. Squeezes(Since("record", g)) = Append(s, call)
  BY <1>1, <1>2, <1>3, SinceSqueezes
<1>7. PICK n \in Nat, c \in Nat : n = Len(old) /\ c = Count(call)
  BY <1>3, SeqDomain
<1>8. /\ IsSeq(list) /\ Len(list) = n + c
      /\ \A k \in 1 .. c : list[n + k] = elements[k]
  <2>1. IsSeq(old)
    BY <1>3
  <2>2. /\ IsSeq(old \o elements) /\ Len(old \o elements) = Len(old) + Len(elements)
        /\ \A k \in 1 .. Len(elements) : (old \o elements)[Len(old) + k] = elements[k]
    BY <2>1, SeqConcat
  <2> QED BY <1>2, <1>7, <2>2
<1>9. Serves(list, s, n)
  BY <1>2, <1>3, <1>5, <1>7, ServesLonger
<1>10. Part(list, n, c) = elements
  <2>1. elements = [k \in 1 .. c |-> elements[k]]
    BY <1>7, SeqDomain
  <2>2. Part(list, n, c) = [k \in 1 .. c |-> elements[k]]
    BY <1>8 DEF Part
  <2> QED BY <2>1, <2>2
<1>11. call.answer = Piece(list, n, call)
  BY <1>7, <1>10 DEF Piece, Whole
<1>12. n + c <= Len(list)
  <2>1. n + c \in Nat
    OBVIOUS
  <2> QED BY <1>8, <2>1
<1>13. Serves(list, Append(s, call), n + c)
  BY <1>5, <1>7, <1>8, <1>9, <1>11, <1>12, ServesMore
<1> QED BY <1>2, <1>4, <1>6, <1>8, <1>13 DEF Kept

LEMMA KeptRecord ==
  ASSUME NEW v, NEW w, NEW h, IsSeq(h), Kept(v, h), v.kind = "hash",
         w.kind = "recording", w.cached = <<>>, NEW call, call.op = "record"
  PROVE  Kept(w, Append(h, call))
<1>1. PICK g : g = Append(h, call)
  OBVIOUS
<1>2. Once("record", g) /\ Since("record", g) = <<>> /\ Never("replay", g)
  <2>1. Never("record", h) /\ Never("replay", h) /\ call.op # "replay"
    BY DEF Kept
  <2> QED BY <1>1, <2>1, NeverMore
<1>3. Serves(<<>>, Squeezes(Since("record", g)), Len(<<>>))
  BY <1>2, NothingSqueezed, ServesNothing, SeqEmpty
<1> QED BY <1>1, <1>2, <1>3, SeqEmpty DEF Kept

LEMMA RestOfNothing ==
  ASSUME NEW list, IsSeq(list) PROVE Reverse(list) = Rest(list, 0)
<1>1. PICK n \in Nat : n = Len(list)
  BY SeqDomain
<1>2. n - 0 = n /\ \A k \in 1 .. n : (n - k) + 1 = n - k + 1
  OBVIOUS
<1> QED BY <1>1, <1>2 DEF Reverse, Rest

LEMMA KeptReplay ==
  ASSUME NEW v, NEW w, NEW h, IsSeq(h), Kept(v, h), v.kind = "recording",
         w.kind = "replay", w.cached = Reverse(v.cached), NEW call, call.op = "replay"
  PROVE  Kept(w, Append(h, call))
<1>1. PICK g, list : g = Append(h, call) /\ list = v.cached
  OBVIOUS
<1>2. /\ Once("record", h) /\ Never("replay", h)
      /\ IsSeq(list) /\ Serves(list, Squeezes(Since("record", h)), Len(list))
  BY <1>1 DEF Kept
<1>3. Once("replay", g) /\ Since("replay", g) = <<>> /\ Before("replay", g) = h
  BY <1>1, <1>2, NeverMore
<1>4. Replayed(g) = <<>> /\ Recorded(g) = Squeezes(Since("record", h))
  BY <1>3, NothingSqueezed DEF Replayed, Recorded
<1>5. Copies(list, 0, g, Replayed(g))
  <2>1. 0 \in Nat /\ 0 <= Len(list)
    BY <1>2, SeqDomain
  <2> QED BY <1>2, <1>4, <2>1, ServesNothing, SeqEmpty DEF Copies
<1>6. w.cached = Rest(list, 0)
  BY <1>1, <1>2, RestOfNothing
<1> QED BY <1>1, <1>2, <1>3, <1>5, <1>6 DEF Kept

LEMMA ReplayMore ==
  ASSUME NEW h, IsSeq(h), Once("replay", h), Once("record", Before("replay", h)),
         NEW call, IsSqueeze(call)
  PROVE  /\ Once("replay", Append(h, call)) /\ Once("record", Before("replay", Append(h, call)))
         /\ Recorded(Append(h, call)) = Recorded(h)
         /\ Replayed(Append(h, call)) = Append(Replayed(h), call)
<1>1. call.op # "replay"
  BY DEF IsSqueeze
<1>2. PICK g : g = Append(h, call) /\ Once("replay", g) /\ Before("replay", g) = Before("replay", h)
  BY <1>1, NeverMore
<1>3. Squeezes(Since("replay", g)) = Append(Squeezes(Since("replay", h)), call)
  BY <1>1, <1>2, SinceSqueezes
<1> QED BY <1>2, <1>3 DEF Recorded, Replayed

\* A replay takes the next elements of the list.
LEMMA NextOfRest ==
  ASSUME NEW list, IsSeq(list), NEW n \in Nat, n <= Len(list), NEW v, Sound(v),
         v.kind = "replay", v.cached = Rest(list, n), NEW c \in Nat
  PROVE  /\ RunsDry(v, c) <=> n + c > Len(list)
         /\ ~RunsDry(v, c) => /\ Elements(v, c) = Part(list, n, c)
                              /\ AfterElements(v, c).kind = v.kind
                              /\ AfterElements(v, c).cached = Rest(list, n + c)
<1>1. PICK total \in Nat, left \in Nat : total = Len(list) /\ left = total - n
  <2>1. Len(list) \in Nat
    BY SeqDomain
  <2>2. Len(list) - n \in Nat
    BY <2>1
  <2> QED BY <2>1, <2>2
<1>2. PICK cached : cached = v.cached
  OBVIOUS
<1>3. cached = [k \in 1 .. left |-> list[total - k + 1]]
  BY <1>1, <1>2 DEF Rest
<1>4. IsSeq(cached) /\ Len(cached) = left
  <2>1. cached = [k \in 1 .. left |-> cached[k]]
    BY <1>3
  <2> QED BY <2>1, SeqOfFunction
<1>5. RunsDry(v, c) <=> n + c > total
  BY <1>1, <1>2, <1>4 DEF RunsDry
<1>6. ASSUME n + c <= total PROVE Elements(v, c) = Part(list, n, c)
  <2>1. ASSUME NEW k \in 1 .. c PROVE cached[left - k + 1] = list[n + k]
    <3>1. left - k + 1 \in 1 .. left /\ total - (left - k + 1) + 1 = n + k
      BY <1>1, <1>6
    <3> QED BY <1>3, <3>1
  <2>2. Elements(v, c) = [k \in 1 .. c |-> cached[left - k + 1]]
    BY <1>2, <1>4 DEF Elements
  <2> QED BY <2>1, <2>2 DEF Part
<1>7. ASSUME n + c <= total
      PROVE  AfterElements(v, c).kind = v.kind /\ AfterElements(v, c).cached = Rest(list, n + c)
  <2>1. PICK m \in Nat : m = left - c /\ m = total - (n + c)
    <3>1. left - c \in Nat /\ left - c = total - (n + c)
      BY <1>1, <1>7
    <3> QED BY <3>1
  <2>2. PICK s : s = SubSeq(cached, 1, m)
    OBVIOUS
  <2>3. IsSeq(s) /\ Len(s) = m /\ \A i \in 1 .. m : s[i] = cached[i]
    <3>1. m <= Len(cached) /\ 1 <= m + 1 /\ 1 >= 1 /\ 1 \in Nat
      BY <1>4, <2>1
    <3>2. IsSeq(s) /\ Len(s) = m - 1 + 1 /\ \A i \in 1 .. m - 1 + 1 : s[i] = cached[1 + i - 1]
      BY <1>4, <2>2, <3>1, SeqPart
    <3>3. m - 1 + 1 = m /\ \A i \in 1 .. m : 1 + i - 1 = i
      OBVIOUS
    <3> QED BY <3>2, <3>3
  <2>4. PICK r : r = Rest(list, n + c) /\ r = [k \in 1 .. m |-> list[total - k + 1]]
    BY <1>1, <2>1 DEF Rest
  <2>5. IsSeq(r) /\ Len(r) = m
    <3>1. r = [k \in 1 .. m |-> r[k]]
      BY <2>4
    <3> QED BY <3>1, SeqOfFunction
  <2>6. \A i \in 1 .. m : s[i] = r[i]
    <3>1. \A i \in 1 .. m : i \in 1 .. left
      BY <2>1
    <3> QED BY <1>3, <2>3, <2>4, <3>1
  <2>7. s = r
    BY <2>3, <2>5, <2>6, OneSeq
  <2>8. AfterElements(v, c) = [v EXCEPT !.cached = s]
    BY <1>2, <1>4, <2>1, <2>2 DEF AfterElements
  <2>9. AfterElements(v, c) = [kind |-> v.kind, sponge |-> v.sponge, cached |-> s]
    BY <2>8 DEF Sound, IsTranscript
  <2>10. AfterElements(v, c).kind = v.kind /\ AfterElements(v, c).cached = s
    <3>1. PICK kind, sponge : kind = v.kind /\ sponge = v.sponge
                              /\ AfterElements(v, c) = [kind |-> kind, sponge |-> sponge, cached |-> s]
      BY <2>9
    <3> QED BY <3>1
  <2> QED BY <2>4, <2>7, <2>10
<1> QED BY <1>1, <1>5, <1>6, <1>7

LEMMA KeptReplaying ==
  ASSUME NEW v, Sound(v), NEW h, IsSeq(h), Kept(v, h), v.kind = "replay",
         NEW call, IsSqueeze(call), NEW c \in Nat, c = Count(call), ~RunsDry(v, c),
         call.answer = Whole(Elements(v, c), call),
         NEW w, w.kind = "replay", w.cached = AfterElements(v, c).cached
  PROVE  Kept(w, Append(h, call))
<1>1. PICK g, later : g = Append(h, call) /\ later = Replayed(h)
  OBVIOUS
<1>2. PICK list, n : Copies(list, n, h, later) /\ v.cached = Rest(list, n)
  BY <1>1 DEF Kept
<1>3. /\ IsSeq(list) /\ n \in Nat /\ n <= Len(list) /\ IsSeq(later)
      /\ Serves(list, Recorded(h), Len(list)) /\ Serves(list, later, n)
  BY <1>2 DEF Copies
<1>4. /\ ~(n + c > Len(list)) /\ Elements(v, c) = Part(list, n, c)
      /\ w.cached = Rest(list, n + c)
  BY <1>2, <1>3, NextOfRest
<1>5. n + c \in Nat /\ n + c <= Len(list)
  BY <1>3, <1>4, SeqDomain
<1>6. call.answer = Piece(list, n, call)
  BY <1>4 DEF Piece, Whole
<1>7. Serves(list, Append(later, call), n + c)
  BY <1>3, <1>5, <1>6, ServesMore
<1>8. Once("replay", h) /\ Once("record", Before("replay", h))
  BY DEF Kept
<1>9. /\ Once("replay", g) /\ Once("record", Before("replay", g))
      /\ Recorded(g) = Recorded(h) /\ Replayed(g) = Append(later, call)
  BY <1>1, <1>8, ReplayMore
<1>10. PICK m : m = n + c
  OBVIOUS
<1>11. Copies(list, m, g, Replayed(g))
  BY <1>3, <1>5, <1>7, <1>9, <1>10, SeqAppend DEF Copies
<1> QED BY <1>1, <1>4, <1>9, <1>10, <1>11 DEF Kept

LEMMA KeptPanicking ==
  ASSUME NEW v, Sound(v), NEW h, IsSeq(h), Kept(v, h), v.kind = "replay",
         NEW call, IsSqueeze(call), Count(call) \in Nat, RunsDry(v, Count(call)),
         NEW w, w.kind = "panicked"
  PROVE  Kept(w, Append(h, call))
<1>1. PICK g, later : g = Append(h, call) /\ later = Replayed(h)
  OBVIOUS
<1>2. PICK list, n : Copies(list, n, h, later) /\ v.cached = Rest(list, n)
  BY <1>1 DEF Kept
<1>3. IsSeq(list) /\ n \in Nat /\ n <= Len(list)
  BY <1>2 DEF Copies
<1>4. n + Count(call) > Len(list)
  BY <1>2, <1>3, NextOfRest
<1>5. Once("replay", h) /\ Once("record", Before("replay", h))
  BY DEF Kept
<1>6. /\ Once("replay", g) /\ Once("record", Before("replay", g))
      /\ Recorded(g) = Recorded(h) /\ Replayed(g) = Append(later, call)
  BY <1>1, <1>5, ReplayMore
<1>7. Copies(list, n, g, later)
  BY <1>2, <1>6 DEF Copies
<1> QED BY <1>1, <1>4, <1>6, <1>7 DEF Kept

\* What a call that squeezes does, whatever the kind of the transcript
LEMMA KeptSqueeze ==
  ASSUME NEW v, Sound(v), NEW h, IsSeq(h), Kept(v, h), v.kind # "panicked",
         NEW call, IsSqueeze(call), NEW c \in Nat, c = Count(call), ~RunsDry(v, c),
         call.answer = Whole(Elements(v, c), call),
         NEW w, w.kind = v.kind, w.cached = AfterElements(v, c).cached
  PROVE  Kept(w, Append(h, call))
<1>1. v.kind \in {"hash", "recording", "replay"}
      /\ v = [kind |-> v.kind, sponge |-> v.sponge, cached |-> v.cached]
  BY DEF Sound, IsTranscript
<1>2. CASE v.kind = "hash"
  BY <1>2, KeptHash
<1>3. CASE v.kind = "recording"
  <2>1. PICK elements : elements = Elements(v, c) /\ elements = S!Squeezed(v.sponge, c)
    BY <1>3 DEF Elements
  <2>2. IsSeq(elements) /\ Len(elements) = c
    <3>1. SpongeOK(v.sponge)
      BY <1>3 DEF Sound, Live
    <3> QED BY <2>1, <3>1, SqueezedPlaces
  <2>3. w.cached = v.cached \o elements
    <3>1. PICK s, more : s = S!Squeeze(v.sponge, c) /\ more = v.cached \o elements
      OBVIOUS
    <3>2. AfterElements(v, c) = [v EXCEPT !.sponge = s, !.cached = more]
      BY <1>3, <2>1, <3>1 DEF AfterElements
    <3>3. AfterElements(v, c) = [kind |-> v.kind, sponge |-> s, cached |-> more]
      BY <1>1, <3>2
    <3> QED BY <3>1, <3>3
  <2> QED BY <1>3, <2>1, <2>2, <2>3, KeptRecording
<1>4. CASE v.kind = "replay"
  BY <1>4, KeptReplaying
<1> QED BY <1>1, <1>2, <1>3, <1>4

ReplayInv == HistoryInv /\ \A t \in DOMAIN transcripts : Kept(transcripts[t].value, calls[t])

LEMMA CreateKept ==
  ASSUME ReplayInv, HistoryInv', NEW pair, NEW history, Kept(pair.value, history), Create(pair, history)
  PROVE  ReplayInv'
<1>1. PICK n \in Nat : n = Len(transcripts) /\ DOMAIN transcripts = 1 .. n /\ n = Len(calls)
  BY SeqDomain DEF HistoryInv, ReplayInv
<1>2. PICK ts, cs : ts = Append(transcripts, pair) /\ cs = Append(calls, history)
  OBVIOUS
<1>3. IsSeq(ts) /\ Len(ts) = n + 1 /\ ts[n + 1] = pair /\ \A i \in 1 .. n : ts[i] = transcripts[i]
  BY <1>1, <1>2, SeqAppend DEF HistoryInv, ReplayInv
<1>4. cs[n + 1] = history /\ \A i \in 1 .. n : cs[i] = calls[i]
  BY <1>1, <1>2, SeqAppend DEF HistoryInv, ReplayInv
<1>5. DOMAIN ts = 1 .. n + 1
  BY <1>3, SeqDomain
<1>6. ASSUME NEW t \in 1 .. n + 1 PROVE Kept(ts[t].value, cs[t])
  <2>1. t \in 1 .. n \/ t = n + 1
    OBVIOUS
  <2>2. CASE t \in 1 .. n
    BY <1>1, <1>3, <1>4, <2>2 DEF ReplayInv
  <2>3. CASE t = n + 1
    BY <1>3, <1>4, <2>3
  <2> QED BY <2>1, <2>2, <2>3
<1>7. transcripts' = ts /\ calls' = cs
  BY <1>2 DEF Create
<1> QED BY <1>5, <1>6, <1>7 DEF ReplayInv

LEMMA UpdateKept ==
  ASSUME ReplayInv, HistoryInv', NEW t \in DOMAIN transcripts, NEW pair, NEW call,
         Kept(pair.value, Append(calls[t], call)), Update(t, pair, call)
  PROVE  ReplayInv'
<1>1. DOMAIN transcripts = DOMAIN calls
  BY SeqDomain DEF HistoryInv, ReplayInv
<1>2. PICK ts, cs, history : /\ ts = [transcripts EXCEPT ![t] = pair]
                             /\ history = Append(calls[t], call)
                             /\ cs = [calls EXCEPT ![t] = history]
  OBVIOUS
<1>3. DOMAIN ts = DOMAIN transcripts /\ ts[t] = pair
      /\ \A i \in DOMAIN transcripts \ {t} : ts[i] = transcripts[i]
  BY <1>2, SeqUpdate DEF HistoryInv, ReplayInv
<1>4. cs[t] = history /\ \A i \in DOMAIN calls \ {t} : cs[i] = calls[i]
  BY <1>1, <1>2, SeqUpdate DEF HistoryInv, ReplayInv
<1>5. ASSUME NEW u \in DOMAIN transcripts PROVE Kept(ts[u].value, cs[u])
  <2>1. CASE u = t
    BY <1>2, <1>3, <1>4, <2>1
  <2>2. CASE u # t
    BY <1>1, <1>3, <1>4, <2>2 DEF ReplayInv
  <2> QED BY <2>1, <2>2
<1>6. transcripts' = ts /\ calls' = cs
  BY <1>2 DEF Update
<1> QED BY <1>3, <1>5, <1>6 DEF ReplayInv

LEMMA CallOfFields ==
  ASSUME NEW op, NEW size, NEW arg, NEW answer, NEW answerVar
  PROVE  /\ Call(op, size, arg, answer, answerVar).op = op
         /\ Call(op, size, arg, answer, answerVar).size = size
         /\ Call(op, size, arg, answer, answerVar).answer = answer
  BY DEF Call

LEMMA AddKeeps ==
  ASSUME NEW v, Sound(v), NEW e
  PROVE  AddElements(v, e).kind = v.kind /\ AddElements(v, e).cached = v.cached
<1>1. PICK w : w = AddElements(v, e)
  OBVIOUS
<1>2. CASE v.kind = "replay"
  BY <1>1, <1>2 DEF AddElements
<1>3. CASE v.kind # "replay"
  <2>1. PICK s : s = S!Absorb(v.sponge, e)
    OBVIOUS
  <2>2. w = [v EXCEPT !.sponge = s]
    BY <1>1, <1>3, <2>1 DEF AddElements
  <2>3. w = [kind |-> v.kind, sponge |-> s, cached |-> v.cached]
    BY <2>2 DEF Sound, IsTranscript
  <2>4. PICK kind, cached : kind = v.kind /\ cached = v.cached
                            /\ w = [kind |-> kind, sponge |-> s, cached |-> cached]
    BY <2>3
  <2> QED BY <1>1, <2>4
<1> QED BY <1>2, <1>3

LEMMA PairFields == ASSUME NEW v, NEW w PROVE Pair(v, w).value = v /\ Pair(v, w).variable = w
  BY DEF Pair

\* A call that answers n elements, or bits of as many
LEMMA ReplayUpdate ==
  ASSUME ReplayInv, HistoryInv', NEW t \in Usable, NEW w, NEW x, NEW call,
         Update(t, Pair(w, x), call), IsSqueeze(call), NEW c \in Nat, c = Count(call),
         ~RunsDry(transcripts[t].value, c),
         call.answer = Whole(Elements(transcripts[t].value, c), call),
         w.kind = transcripts[t].value.kind,
         w.cached = AfterElements(transcripts[t].value, c).cached
  PROVE  ReplayInv'
<1>1. PICK v, h : /\ v = transcripts[t].value /\ h = calls[t] /\ t \in DOMAIN transcripts
                  /\ Sound(v) /\ IsSeq(h) /\ Kept(v, h) /\ v.kind # "panicked"
  BY DEF ReplayInv, HistoryInv, Good, Usable
<1>2. Kept(w, Append(h, call))
  BY <1>1, KeptSqueeze
<1>3. Kept(Pair(w, x).value, Append(calls[t], call))
  BY <1>1, <1>2, PairFields
<1> QED BY <1>1, <1>3, UpdateKept

LEMMA ReplayInit == Init => ReplayInv
<1> SUFFICES ASSUME Init PROVE ReplayInv
  OBVIOUS
<1>1. DOMAIN <<>> = {}
  OBVIOUS
<1> QED BY <1>1, HistoryInit DEF Init, ReplayInv

LEMMA ReplayStep == ReplayInv /\ [Next]_vars => ReplayInv'
<1> SUFFICES ASSUME ReplayInv, [Next]_vars PROVE ReplayInv'
  OBVIOUS
<1>0. HistoryInv'
  BY HistoryStep DEF ReplayInv
<1>1. ASSUME NEW h \in Hashes, New(h) PROVE ReplayInv'
  <2>1. PICK v, e, pair, history :
          /\ v = [kind |-> "hash", sponge |-> S!NewSponge, cached |-> <<>>] /\ e = <<Number(h)>>
          /\ pair = Pair(NewWithHash(h), VarNewWithHash(h))
          /\ history = <<Call("new", 1, <<h>>, <<>>, <<>>)>>
    OBVIOUS
  <2>2. Create(pair, history)
    BY <1>1, <2>1 DEF New
  <2>3. Sound(v) /\ v.kind = "hash"
    BY <2>1, NewSpongeOK DEF Sound, IsTranscript
  <2>4. pair.value.kind = "hash"
    <3>1. pair.value = AddElements(v, e)
      BY <2>1, PairFields DEF NewWithHash
    <3> QED BY <2>3, <3>1, AddKeeps
  <2>5. Never("record", history) /\ Never("replay", history)
    <3>1. PICK call : call = Call("new", 1, <<h>>, <<>>, <<>>) /\ call.op = "new"
      <4>1. Call("new", 1, <<h>>, <<>>, <<>>).op = "new"
        BY CallOfFields
      <4> QED BY <4>1
    <3>2. history = <<call>>
      BY <2>1, <3>1
    <3>3. \A k \in DOMAIN history : history[k].op = "new"
      BY <3>1, <3>2
    <3> QED BY <3>3 DEF Never
  <2>6. Kept(pair.value, history)
    BY <2>4, <2>5 DEF Kept
  <2> QED BY <1>0, <2>2, <2>6, CreateKept
<1>2. ASSUME NEW t \in Usable,
             \/ \E d \in Domains : Separate(t, d)
             \/ Record(t) \/ Replay(t)
             \/ \E message \in Messages : Add(t, message)
             \/ \E n \in Gets : GetFieldElements(t, n) \/ ChallengeFieldElements(t, n)
             \/ \E n \in Bits : GetTheBits(t, n) \/ ChallengeBits(t, n)
             \/ \E n \in Gets : Panic(t, "elements", n)
             \/ \E n \in Bits : Panic(t, "bits", n)
      PROVE  ReplayInv'
  <2>1. PICK v, h : /\ t \in DOMAIN transcripts /\ v = transcripts[t].value /\ h = calls[t]
                    /\ Sound(v) /\ IsSeq(h) /\ Kept(v, h) /\ v.kind # "panicked"
    BY DEF ReplayInv, HistoryInv, Good, Usable
  <2>2. ASSUME NEW d \in Domains, Separate(t, d) PROVE ReplayInv'
    <3>1. PICK w, x, call : /\ w = SeparateDomain(v, d)
                            /\ x = VarSeparateDomain(transcripts[t].variable, d)
                            /\ call = Call("separate", Len(d), d, <<>>, <<>>)
      OBVIOUS
    <3>2. w.kind = v.kind /\ w.cached = v.cached /\ call.op = "separate"
      BY <2>1, <3>1, AddKeeps, CallOfFields DEF SeparateDomain
    <3>3. Kept(Pair(w, x).value, Append(h, call))
      BY <2>1, <3>2, KeptQuiet, PairFields
    <3>4. Create(Pair(w, x), Append(h, call))
      BY <2>1, <2>2, <3>1 DEF Separate
    <3> QED BY <1>0, <3>3, <3>4, CreateKept
  <2>3. ASSUME Record(t) PROVE ReplayInv'
    <3>1. PICK w, x, call : /\ w = Recording(v) /\ x = Recording(transcripts[t].variable)
                            /\ call = Call("record", 0, <<>>, <<>>, <<>>)
      OBVIOUS
    <3>2. w.kind = "recording" /\ w.cached = <<>> /\ call.op = "record"
      BY <3>1, CallOfFields DEF Recording
    <3>3. Kept(Pair(w, x).value, Append(h, call))
      <4>1. v.kind = "hash"
        BY <2>1, <2>3 DEF Record
      <4> QED BY <2>1, <3>2, <4>1, KeptRecord, PairFields
    <3>4. Create(Pair(w, x), Append(h, call))
      BY <2>1, <2>3, <3>1 DEF Record
    <3> QED BY <1>0, <3>3, <3>4, CreateKept
  <2>4. ASSUME Replay(t) PROVE ReplayInv'
    <3>1. PICK w, x, call : /\ w = Replaying(v) /\ x = Replaying(transcripts[t].variable)
                            /\ call = Call("replay", 0, <<>>, <<>>, <<>>)
      OBVIOUS
    <3>2. w.kind = "replay" /\ w.cached = Reverse(v.cached) /\ call.op = "replay"
      BY <3>1, CallOfFields DEF Replaying
    <3>3. Kept(Pair(w, x).value, Append(h, call))
      <4>1. v.kind = "recording"
        BY <2>1, <2>4 DEF Replay
      <4> QED BY <2>1, <3>2, <4>1, KeptReplay, PairFields
    <3>4. Create(Pair(w, x), Append(h, call))
      BY <2>1, <2>4, <3>1 DEF Replay
    <3> QED BY <1>0, <3>3, <3>4, CreateKept
  <2>5. ASSUME NEW message \in Messages, Add(t, message) PROVE ReplayInv'
    <3>1. PICK e, w, x, call : /\ e = Absorbed(message) /\ w = AddElements(v, e)
                               /\ x = AddElements(transcripts[t].variable, e)
                               /\ call = Call("add", Len(e), e, <<>>, <<>>)
      OBVIOUS
    <3>2. w.kind = v.kind /\ w.cached = v.cached /\ call.op = "add"
      BY <2>1, <3>1, AddKeeps, CallOfFields
    <3>3. Kept(Pair(w, x).value, Append(calls[t], call))
      BY <2>1, <3>2, KeptQuiet, PairFields
    <3>4. Update(t, Pair(w, x), call)
      BY <2>1, <2>5, <3>1 DEF Add
    <3> QED BY <1>0, <2>1, <3>3, <3>4, UpdateKept
  <2>6. ASSUME NEW n \in Gets, GetFieldElements(t, n) PROVE ReplayInv'
    <3>1. PICK w, x, call, answerVar :
            /\ w = AfterElements(v, n) /\ x = AfterElements(transcripts[t].variable, n)
            /\ call = Call("elements", n, <<>>, Elements(v, n), answerVar)
            /\ Update(t, Pair(w, x), call)
      BY <2>1, <2>6 DEF GetFieldElements
    <3>2. call.op = "elements" /\ call.size = n /\ call.answer = Elements(v, n)
      BY <3>1, CallOfFields
    <3>3. IsSqueeze(call) /\ n = Count(call) /\ call.answer = Whole(Elements(v, n), call) /\ n \in Nat
      BY <3>2, CallAssumption DEF IsSqueeze, Count, Whole
    <3>4. ~RunsDry(v, n)
      BY <2>1, <2>6 DEF GetFieldElements
    <3>5. w.kind = v.kind
      BY <2>1, <3>1, <3>3, ElementsFollow
    <3> QED BY <1>0, <2>1, <3>1, <3>3, <3>4, <3>5, ReplayUpdate
  <2>7. ASSUME NEW n \in Gets, ChallengeFieldElements(t, n) PROVE ReplayInv'
    <3>1. PICK w, x, call, answerVar :
            /\ w = AfterChallengeElements(v, n)
            /\ x = VarAfterChallengeElements(transcripts[t].variable, n)
            /\ call = Call("elements", n, <<>>, Elements(v, n), answerVar)
            /\ Update(t, Pair(w, x), call)
      BY <2>1, <2>7 DEF ChallengeFieldElements
    <3>2. call.op = "elements" /\ call.size = n /\ call.answer = Elements(v, n)
      BY <3>1, CallOfFields
    <3>3. IsSqueeze(call) /\ n = Count(call) /\ call.answer = Whole(Elements(v, n), call) /\ n \in Nat
      BY <3>2, CallAssumption DEF IsSqueeze, Count, Whole
    <3>4. ~RunsDry(v, n)
      BY <2>1, <2>7 DEF ChallengeFieldElements
    <3>5. PICK s : s = AfterElements(v, n) /\ Sound(s) /\ s.kind = v.kind
      BY <2>1, <3>3, ElementsFollow DEF Follows
    <3>6. w.kind = v.kind /\ w.cached = s.cached
      BY <3>1, <3>5, AddKeeps DEF AfterChallengeElements
    <3> QED BY <1>0, <2>1, <3>1, <3>3, <3>4, <3>5, <3>6, ReplayUpdate
  <2>8. ASSUME NEW n \in Bits, GetTheBits(t, n) PROVE ReplayInv'
    <3>0. n \in Nat /\ Sources(n) \in Nat
      BY SourcesAreNumber, CallAssumption
    <3>1. PICK w, x, call, answerVar, m :
            /\ m = Sources(n) /\ m \in Nat
            /\ w = AfterElements(v, m) /\ x = VarAfterBits(transcripts[t].variable, n)
            /\ call = Call("bits", n, <<>>, GetBits(v, n), answerVar)
            /\ Update(t, Pair(w, x), call)
      BY <2>1, <2>8, <3>0 DEF GetTheBits, AfterBits
    <3>2. call.op = "bits" /\ call.size = n /\ call.answer = ToBits(Elements(v, m), n)
      BY <3>1, CallOfFields DEF GetBits
    <3>3. IsSqueeze(call) /\ m = Count(call) /\ call.answer = Whole(Elements(v, m), call)
      BY <3>1, <3>2 DEF IsSqueeze, Count, Whole
    <3>4. ~RunsDry(v, m)
      BY <2>1, <2>8, <3>1 DEF GetTheBits
    <3>5. w.kind = v.kind
      BY <2>1, <3>1, ElementsFollow
    <3> QED BY <1>0, <2>1, <3>1, <3>3, <3>4, <3>5, ReplayUpdate
  <2>9. ASSUME NEW n \in Bits, ChallengeBits(t, n) PROVE ReplayInv'
    <3>0. n \in Nat /\ Sources(n) \in Nat
      BY SourcesAreNumber, CallAssumption
    <3>1. PICK w, x, call, answerVar, m :
            /\ m = Sources(n) /\ m \in Nat
            /\ w = AfterChallengeElements(v, m)
            /\ x = VarAfterChallengeBits(transcripts[t].variable, n)
            /\ call = Call("bits", n, <<>>, GetBits(v, n), answerVar)
            /\ Update(t, Pair(w, x), call)
      BY <2>1, <2>9, <3>0 DEF ChallengeBits, AfterChallengeBits
    <3>2. call.op = "bits" /\ call.size = n /\ call.answer = ToBits(Elements(v, m), n)
      BY <3>1, CallOfFields DEF GetBits
    <3>3. IsSqueeze(call) /\ m = Count(call) /\ call.answer = Whole(Elements(v, m), call)
      BY <3>1, <3>2 DEF IsSqueeze, Count, Whole
    <3>4. ~RunsDry(v, m)
      BY <2>1, <2>9, <3>1 DEF ChallengeBits
    <3>5. PICK s : s = AfterElements(v, m) /\ Sound(s) /\ s.kind = v.kind
      BY <2>1, <3>1, ElementsFollow DEF Follows
    <3>6. w.kind = v.kind /\ w.cached = s.cached
      BY <3>1, <3>5, AddKeeps DEF AfterChallengeElements
    <3> QED BY <1>0, <2>1, <3>1, <3>3, <3>4, <3>5, <3>6, ReplayUpdate
  <2>10. ASSUME NEW op \in {"elements", "bits"}, NEW n \in Nat, Panic(t, op, n) PROVE ReplayInv'
    <3>1. PICK w, call, c :
                /\ w = [v EXCEPT !.kind = "panicked"] /\ call = Call(op, n, <<>>, <<>>, <<>>)
                            /\ c = (IF op = "bits" THEN Sources(n) ELSE n)
                            /\ Update(t, Pair(w, w), call) /\ RunsDry(v, c)
      BY <2>1, <2>10 DEF Panic
    <3>2. call.op = op /\ call.size = n
      BY <3>1, CallOfFields
    <3>3. c \in Nat /\ c = Count(call) /\ IsSqueeze(call)
      BY <3>1, <3>2, SourcesAreNumber DEF Count, IsSqueeze
    <3>4. w.kind = "panicked" /\ v.kind = "replay"
      <4>1. w = [kind |-> "panicked", sponge |-> v.sponge, cached |-> v.cached]
        BY <2>1, <3>1 DEF Sound, IsTranscript
      <4> QED BY <3>1, <4>1 DEF RunsDry
    <3>5. Kept(w, Append(h, call))
      BY <2>1, <3>1, <3>3, <3>4, KeptPanicking
    <3>6. Kept(Pair(w, w).value, Append(calls[t], call))
      BY <2>1, <3>5, PairFields
    <3> QED BY <1>0, <2>1, <3>1, <3>6, UpdateKept
  <2> QED BY <1>2, <2>2, <2>3, <2>4, <2>5, <2>6, <2>7, <2>8, <2>9, <2>10, CallAssumption
<1>3. ASSUME UNCHANGED vars PROVE ReplayInv'
  BY <1>0, <1>3 DEF vars, ReplayInv
<1> QED BY <1>1, <1>2, <1>3 DEF Next

LEMMA PrefixShape ==
  ASSUME NEW g, IsSeq(g), NEW h, IsSeq(h), IsPrefix(Shape(g), Shape(h))
  PROVE  Len(g) <= Len(h) /\ \A k \in 1 .. Len(g) : g[k].op = h[k].op /\ g[k].size = h[k].size
<1>1. PICK m \in Nat, n \in Nat : m = Len(g) /\ n = Len(h) /\ DOMAIN g = 1 .. m /\ DOMAIN h = 1 .. n
  BY SeqDomain
<1>2. PICK s, t : /\ s = Shape(g) /\ s = [k \in 1 .. m |-> <<g[k].op, g[k].size>>]
                  /\ t = Shape(h) /\ t = [k \in 1 .. n |-> <<h[k].op, h[k].size>>]
  BY <1>1 DEF Shape
<1>3. IsSeq(s) /\ Len(s) = m
  <2>1. s = [k \in 1 .. m |-> s[k]]
    BY <1>2
  <2> QED BY <2>1, SeqOfFunction
<1>4. IsSeq(t) /\ Len(t) = n
  <2>1. t = [k \in 1 .. n |-> t[k]]
    BY <1>2
  <2> QED BY <2>1, SeqOfFunction
<1>5. m <= n /\ SubSeq(s, 1, m) = SubSeq(t, 1, m)
  <2>1. IsPrefix(s, t)
    BY <1>2
  <2> QED BY <1>3, <1>4, <2>1 DEF IsPrefix
<1>6. \A u : IsSeq(u) /\ m <= Len(u) => \A k \in 1 .. m : SubSeq(u, 1, m)[k] = u[k]
  <2> SUFFICES ASSUME NEW u, IsSeq(u), m <= Len(u), NEW k \in 1 .. m PROVE SubSeq(u, 1, m)[k] = u[k]
    OBVIOUS
  <2>1. 1 \in Nat /\ 1 >= 1 /\ 1 <= m + 1
    OBVIOUS
  <2>2. \A i \in 1 .. m - 1 + 1 : SubSeq(u, 1, m)[i] = u[1 + i - 1]
    BY <2>1, SeqPart
  <2>3. k \in 1 .. m - 1 + 1 /\ 1 + k - 1 = k
    OBVIOUS
  <2> QED BY <2>2, <2>3
<1>7. ASSUME NEW k \in 1 .. m PROVE g[k].op = h[k].op /\ g[k].size = h[k].size
  <2>1. s[k] = t[k]
    <3>1. m <= Len(s)
      BY <1>3
    <3>2. m <= Len(t)
      BY <1>4, <1>5
    <3>3. SubSeq(s, 1, m)[k] = s[k]
      BY <1>3, <1>6, <3>1
    <3>4. SubSeq(t, 1, m)[k] = t[k]
      BY <1>4, <1>6, <3>2
    <3> QED BY <1>5, <3>3, <3>4
  <2>2. k \in 1 .. n
    BY <1>5
  <2>3. <<g[k].op, g[k].size>> = <<h[k].op, h[k].size>>
    BY <1>2, <2>1, <2>2
  <2> QED BY <2>3
<1> QED BY <1>1, <1>5, <1>7

LEMMA CopiedAlike ==
  ASSUME NEW list, NEW n, NEW h, NEW later, Copies(list, n, h, later), IsSeq(Recorded(h)),
         Len(later) <= Len(Recorded(h)),
         \A k \in 1 .. Len(later) :
           later[k].op = Recorded(h)[k].op /\ later[k].size = Recorded(h)[k].size
  PROVE  /\ \A k \in 1 .. Len(later) : later[k].answer = Recorded(h)[k].answer
         /\ Len(later) < Len(Recorded(h)) =>
              LET next == Recorded(h)[Len(later) + 1]
              IN  Count(next) \in Nat /\ n + Count(next) <= Len(list)
<1>1. PICK r : r = Recorded(h) /\ IsSeq(r)
  OBVIOUS
<1>2. PICK m \in Nat, p \in Nat : m = Len(later) /\ p = Len(r) /\ m <= p
  BY <1>1, SeqDomain DEF Copies
<1>3. PICK a : Taken(a, list, r)
  BY <1>1 DEF Copies, Serves
<1>4. PICK b : Taken(b, list, later) /\ b[m] = n
  BY <1>2 DEF Copies, Serves
<1>5. /\ \A k \in 0 .. m : b[k] = a[k]
      /\ \A k \in 1 .. m : later[k].answer = r[k].answer
  <2>1. IsSeq(later) /\ IsSeq(r) /\ Len(later) <= Len(r)
    BY <1>1 DEF Copies
  <2>2. \A k \in 1 .. Len(later) : later[k].op = r[k].op /\ later[k].size = r[k].size
    BY <1>1
  <2>3. Taken(a, list, r) /\ Taken(b, list, later)
    BY <1>3, <1>4
  <2>4. /\ \A k \in 0 .. Len(later) : b[k] = a[k]
        /\ \A k \in 1 .. Len(later) : later[k].answer = r[k].answer
    BY <2>1, <2>2, <2>3, SameServed, Z3
  <2>5. m = Len(later)
    BY <1>2
  <2> QED BY <2>4, <2>5
<1>6. ASSUME m < p
      PROVE  Count(r[m + 1]) \in Nat /\ n + Count(r[m + 1]) <= Len(list)
  <2>1. PICK k \in 1 .. p : k = m + 1 /\ k - 1 = m /\ k \in 0 .. p
    <3>1. m + 1 \in 1 .. p /\ m + 1 - 1 = m /\ m + 1 \in 0 .. p
      BY <1>6
    <3> QED BY <3>1
  <2>2. Count(r[k]) \in Nat /\ a[k] = a[k - 1] + Count(r[k]) /\ a[k] <= Len(list)
    BY <1>2, <1>3, <2>1 DEF Taken
  <2>3. m \in 0 .. m
    OBVIOUS
  <2>4. a[m] = n
    BY <1>4, <1>5, <2>3
  <2> QED BY <2>1, <2>2, <2>4
<1> QED BY <1>1, <1>2, <1>5, <1>6

LEMMA ReplaysHold == Spec => []ReplayInv
  BY ReplayInit, ReplayStep, PTL DEF Spec

\* A replay answers what its recording has answered, as long as the calls are the same, and
\* does not run out of challenges before they differ.
THEOREM ReplaysRepeat == Spec => []ReplaysRecording
<1>1. ReplayInv => ReplaysRecording
  <2> SUFFICES ASSUME ReplayInv, NEW t \in DOMAIN transcripts,
                      transcripts[t].value.kind \in {"replay", "panicked"},
                      IsPrefix(Shape(Replayed(calls[t])), Shape(Recorded(calls[t])))
               PROVE  /\ transcripts[t].value.kind = "replay"
                      /\ \A c \in DOMAIN Replayed(calls[t]) :
                           Replayed(calls[t])[c].answer = Recorded(calls[t])[c].answer
    BY DEF ReplaysRecording, Recorded, Replayed
  <2>1. PICK v, h : /\ v = transcripts[t].value /\ h = calls[t] /\ IsSeq(h) /\ Kept(v, h)
    BY DEF ReplayInv, HistoryInv, Good
  <2>2. PICK r, q : r = Recorded(h) /\ q = Replayed(h) /\ IsSeq(r) /\ IsSeq(q)
    <3>1. Once("replay", h) /\ Once("record", Before("replay", h))
      BY <2>1 DEF Kept
    <3>2. IsSeq(Since("replay", h)) /\ IsSeq(Before("replay", h))
      BY <2>1, <3>1, NeverMore
    <3>3. IsSeq(Since("record", Before("replay", h)))
      BY <3>1, <3>2, NeverMore
    <3>4. IsSeq(Recorded(h)) /\ IsSeq(Replayed(h))
      BY <3>2, <3>3, SqueezesAreSeq DEF Recorded, Replayed
    <3> QED BY <3>4
  <2>3. Len(q) <= Len(r) /\ \A k \in 1 .. Len(q) : q[k].op = r[k].op /\ q[k].size = r[k].size
    BY <2>1, <2>2, PrefixShape
  <2>4. v.kind # "panicked"
    <3> SUFFICES ASSUME v.kind = "panicked" PROVE FALSE
      OBVIOUS
    <3>1. PICK list, n, past, call :
            /\ Copies(list, n, h, past) /\ q = Append(past, call)
            /\ Count(call) \in Nat /\ n + Count(call) > Len(list)
      BY <2>1, <2>2 DEF Kept
    <3>2. PICK m \in Nat, p \in Nat : m = Len(past) /\ p = Len(r) /\ IsSeq(past)
      BY <2>2, <3>1, SeqDomain DEF Copies
    <3>3. Len(q) = m + 1 /\ q[m + 1] = call /\ \A k \in 1 .. m : q[k] = past[k]
      BY <3>1, <3>2, SeqAppend
    <3>4. m + 1 <= p /\ m + 1 \in 1 .. m + 1 /\ \A k \in 1 .. m : k \in 1 .. m + 1
      BY <2>3, <3>2, <3>3
    <3>5. m < p /\ m <= p
      BY <3>4
    <3>6. \A k \in 1 .. m : past[k].op = r[k].op /\ past[k].size = r[k].size
      BY <2>3, <3>3, <3>4
    <3>7. call.op = r[m + 1].op /\ call.size = r[m + 1].size
      BY <2>3, <3>3, <3>4
    <3>8. n + Count(r[m + 1]) <= Len(list)
      BY <2>2, <3>1, <3>2, <3>5, <3>6, CopiedAlike
    <3>9. Count(call) = Count(r[m + 1])
      BY <3>7 DEF Count
    <3>10. n \in Nat /\ Len(list) \in Nat
      BY <3>1, SeqDomain DEF Copies
    <3> QED BY <3>1, <3>8, <3>9, <3>10
  <2>5. v.kind = "replay"
    BY <2>1, <2>4
  <2>6. PICK list, n : Copies(list, n, h, q)
    BY <2>1, <2>2, <2>5 DEF Kept
  <2>7. \A k \in 1 .. Len(q) : q[k].answer = r[k].answer
    BY <2>2, <2>3, <2>6, CopiedAlike
  <2>8. DOMAIN q = 1 .. Len(q)
    BY <2>2, SeqDomain
  <2> QED BY <2>1, <2>2, <2>5, <2>7, <2>8
<1> QED BY <1>1, ReplaysHold, PTL
-----------------------------------------------------------------------------
(***************************************************************************)
(* Bytes                                                                   *)
(***************************************************************************)
\* The powers of two, by the number of subsets of a set of one more element
LEMMA PowerDoubles ==
  ASSUME NEW k \in Nat
  PROVE  2 ^ k \in Nat /\ 2 ^ (k + 1) = 2 * 2 ^ k
<1> DEFINE A == 1 .. k
           B == 1 .. k + 1
           old == SUBSET A
           new == {X \cup {k + 1} : X \in old}
<1>1. IsFiniteSet(A) /\ Cardinality(A) = k /\ IsFiniteSet(B) /\ Cardinality(B) = k + 1
  <2>1. 1 \in Int /\ k \in Int /\ k + 1 \in Int /\ ~(1 > k + 1) /\ (1 > k => k = 0)
        /\ (k - 1) + 1 = k /\ (k + 1 - 1) + 1 = k + 1
    OBVIOUS
  <2> QED BY <2>1, FS_Interval
<1> HIDE DEF A, B
<1>2. /\ IsFiniteSet(SUBSET A) /\ Cardinality(SUBSET A) = 2 ^ k
      /\ IsFiniteSet(SUBSET B) /\ Cardinality(SUBSET B) = 2 ^ (k + 1)
  BY <1>1, FS_SUBSET, Zenon
<1>3. Cardinality(SUBSET A) \in Nat
  BY <1>2, FS_CardinalityType, Zenon
<1>4. SUBSET B = old \cup new
  <2>1. ASSUME NEW X \in SUBSET B, X \notin old PROVE X \in new
    <3>1. k + 1 \in X
      BY <2>1 DEF A, B
    <3>2. X \ {k + 1} \in old
      BY <2>1 DEF A, B
    <3>3. X = (X \ {k + 1}) \cup {k + 1}
      BY <3>1
    <3> QED BY <3>2, <3>3
  <2>2. ASSUME NEW X \in old PROVE X \in SUBSET B /\ X \cup {k + 1} \in SUBSET B
    BY DEF A, B
  <2> QED BY <2>1, <2>2
<1>5. old \cap new = {}
  BY DEF A
<1>6. ExistsBijection(old, new)
  <2>1. PICK f : f = [X \in old |-> X \cup {k + 1}]
    OBVIOUS
  <2>2. f \in [old -> new]
    BY <2>1
  <2>3. \A X, Y \in old : f[X] = f[Y] => X = Y
    <3> SUFFICES ASSUME NEW X \in old, NEW Y \in old, X \cup {k + 1} = Y \cup {k + 1} PROVE X = Y
      BY <2>1
    <3>1. k + 1 \notin X /\ k + 1 \notin Y
      BY DEF A
    <3> QED BY <3>1
  <2>4. \A Z \in new : \E X \in old : f[X] = Z
    BY <2>1
  <2> HIDE DEF old, new
  <2> QED BY <2>2, <2>3, <2>4 DEF ExistsBijection, Bijection, Injection, Surjection, IsInjective
<1> HIDE DEF old, new
<1>7. IsFiniteSet(old) /\ Cardinality(old) = 2 ^ k
  BY <1>2 DEF old
<1>8. IsFiniteSet(new) /\ Cardinality(new) = 2 ^ k
  BY <1>6, <1>7, FS_Bijection, Zenon
<1>9. Cardinality(old \cup new) = Cardinality(old) + Cardinality(new) - Cardinality(old \cap new)
  BY <1>7, <1>8, FS_Union, Zenon
<1>10. Cardinality(old \cap new) = 0
  BY <1>5, FS_EmptySet
<1>11. 2 ^ k \in Nat
  BY <1>2, <1>3
<1>12. PICK p \in Nat : p = 2 ^ k
  BY <1>11
<1>13. 2 ^ (k + 1) = p + p - 0
  BY <1>2, <1>4, <1>7, <1>8, <1>9, <1>10, <1>12
<1>14. p + p - 0 = 2 * p
  BY SMT
<1> QED BY <1>12, <1>13, <1>14

\* Adding exponents multiplies the powers.
LEMMA PowersOfTwo ==
  ASSUME NEW a \in Nat, NEW b \in Nat
  PROVE  2 ^ a \in Nat \ {0} /\ 2 ^ (a + b) = 2 ^ a * 2 ^ b
<1>1. \A n \in Nat : 2 ^ n \in Nat \ {0}
  <2> SUFFICES ASSUME NEW n \in Nat PROVE 2 ^ n \in Nat \ {0}
    OBVIOUS
  <2> DEFINE T == {k \in 0 .. n : 2 ^ k \in Nat \ {0}}
  <2>1. 0 \in T
    <3>1. 2 ^ 0 = 1
      OBVIOUS
    <3> QED BY <3>1
  <2>2. ASSUME NEW k \in 1 .. n, k - 1 \in T PROVE k \in T
    <3>1. k - 1 \in Nat /\ (k - 1) + 1 = k /\ k \in 0 .. n
      OBVIOUS
    <3>2. PICK p \in Nat \ {0} : p = 2 ^ (k - 1) /\ 2 ^ k = 2 * p
      <4>1. 2 ^ (k - 1 + 1) = 2 * 2 ^ (k - 1)
        BY <3>1, PowerDoubles
      <4> QED BY <2>2, <3>1, <4>1
    <3>3. 2 * p \in Nat \ {0}
      OBVIOUS
    <3> QED BY <3>1, <3>2, <3>3
  <2> HIDE DEF T
  <2>3. 0 .. n \subseteq T
    BY <2>1, <2>2, UpTo, Zenon
  <2>4. n \in T
    BY <2>3
  <2> QED BY <2>4 DEF T
<1> DEFINE T == {k \in 0 .. b : 2 ^ (a + k) = 2 ^ a * 2 ^ k}
<1>2. PICK p \in Nat : p = 2 ^ a
  BY <1>1
<1>3. 0 \in T
  <2>1. 2 ^ 0 = 1 /\ a + 0 = a /\ p * 1 = p
    OBVIOUS
  <2>2. 2 ^ (a + 0) = 2 ^ a * 2 ^ 0
    BY <1>2, <2>1
  <2> QED BY <2>2
<1>4. ASSUME NEW k \in 1 .. b, k - 1 \in T PROVE k \in T
  <2>1. /\ k - 1 \in Nat /\ (k - 1) + 1 = k /\ a + (k - 1) \in Nat
        /\ (a + (k - 1)) + 1 = a + k /\ k \in 0 .. b
    OBVIOUS
  <2>2. 2 ^ k = 2 * 2 ^ (k - 1) /\ 2 ^ (k - 1) \in Nat
    BY <2>1, PowerDoubles
  <2>3. 2 ^ (a + k) = 2 * 2 ^ (a + (k - 1))
    BY <2>1, PowerDoubles
  <2>4. PICK q \in Nat : q = 2 ^ (k - 1) /\ 2 ^ (a + (k - 1)) = p * q
    BY <1>2, <1>4, <2>2
  <2>5. 2 * (p * q) = p * (2 * q)
    OBVIOUS
  <2>6. 2 ^ (a + k) = 2 ^ a * 2 ^ k
    BY <1>2, <2>2, <2>3, <2>4, <2>5
  <2> QED BY <2>1, <2>6
<1> HIDE DEF T
<1>5. 0 .. b \subseteq T
  BY <1>3, <1>4, UpTo, Zenon
<1>6. b \in T
  BY <1>5
<1>7. 2 ^ (a + b) = 2 ^ a * 2 ^ b
  BY <1>6 DEF T
<1> QED BY <1>1, <1>7

\* A larger exponent gives no smaller power.
LEMMA PowersGrow ==
  ASSUME NEW a \in Nat, NEW b \in Nat, a <= b
  PROVE  2 ^ a <= 2 ^ b
<1>1. b - a \in Nat /\ a + (b - a) = b
  OBVIOUS
<1>2. PICK p \in Nat \ {0}, q \in Nat \ {0} : p = 2 ^ a /\ q = 2 ^ (b - a) /\ 2 ^ b = p * q
  <2>1. 2 ^ a \in Nat \ {0} /\ 2 ^ (b - a) \in Nat \ {0} /\ 2 ^ (a + (b - a)) = 2 ^ a * 2 ^ (b - a)
    BY <1>1, PowersOfTwo
  <2> QED BY <1>1, <2>1
<1>3. p <= p * q
  <2>1. p * 1 <= p * q
    BY SMT
  <2> QED BY <2>1
<1> QED BY <1>2, <1>3

\* What byte k of a number weighs
Weight(k) == 2 ^ (ByteBits * (k - 1))

\* f sums up the first bytes of a number.
Sums(f, bytes) ==
  /\ f \in [0 .. Len(bytes) -> Nat] /\ f[0] = 0
  /\ \A k \in 1 .. Len(bytes) : f[k] = f[k - 1] + bytes[k] * Weight(k)

\* The weight of a byte, and of the next one
LEMMA WeightIsNumber ==
  ASSUME NEW k \in Nat \ {0}
  PROVE  Weight(k) \in Nat \ {0} /\ Weight(k + 1) = 2 ^ ByteBits * Weight(k)
<1>1. PICK b \in Nat, j \in Nat : b = ByteBits /\ j = b * (k - 1) /\ b * ((k + 1) - 1) = b + j
  <2>1. PICK b \in Nat : b = ByteBits
    BY FieldAssumption
  <2>2. b * (k - 1) \in Nat /\ b * ((k + 1) - 1) = b + b * (k - 1)
    <3>1. k - 1 \in Nat
      OBVIOUS
    <3>2. PICK i \in Nat : i = k - 1 /\ k = i + 1
      BY <3>1
    <3>3. b * i \in Nat /\ b * ((k + 1) - 1) = b + b * i
      BY <3>2
    <3> QED BY <3>2, <3>3
  <2> QED BY <2>1, <2>2
<1>2. 2 ^ j \in Nat \ {0} /\ 2 ^ (b + j) = 2 ^ b * 2 ^ j
  BY PowersOfTwo
<1>3. Weight(k) = 2 ^ j /\ Weight(k + 1) = 2 ^ (b + j)
  BY <1>1 DEF Weight
<1> QED BY <1>1, <1>2, <1>3

\* What a field element is made of bytes from is their sum, modulo the modulus.
LEMMA NumberOfBytes ==
  ASSUME NEW bytes \in Seq(Nat)
  PROVE  \E f : Sums(f, bytes) /\ FromBytes(bytes) = f[Len(bytes)] % Modulus
<1>1. PICK n \in Nat : n = Len(bytes) /\ \A k \in 1 .. n : bytes[k] \in Nat
  OBVIOUS
<1> DEFINE term(k) == bytes[k] * 2 ^ (ByteBits * (k - 1))
           next == [p \in (1 .. n) \X Nat |-> p[2] + term(p[1])]
<1>2. \A k \in 1 .. n : term(k) \in Nat
  <2> SUFFICES ASSUME NEW k \in 1 .. n PROVE term(k) \in Nat
    OBVIOUS
  <2>1. PICK w \in Nat, x \in Nat : w = Weight(k) /\ x = bytes[k]
    <3>1. k \in Nat \ {0} /\ bytes[k] \in Nat
      BY <1>1
    <3>2. Weight(k) \in Nat
      BY <3>1, WeightIsNumber
    <3> QED BY <3>1, <3>2
  <2>2. x * w \in Nat
    OBVIOUS
  <2> QED BY <2>1, <2>2 DEF Weight
<1> HIDE DEF term
<1>3. next \in Steps(n, Nat) /\ \A k \in 1 .. n, s \in Nat : next[<<k, s>>] = s + term(k)
  <2>1. \A k \in 1 .. n, s \in Nat : s + term(k) \in Nat
    BY <1>2
  <2>2. next \in [(1 .. n) \X Nat -> Nat]
    BY <2>1
  <2> QED BY <2>2 DEF Steps
<1> HIDE DEF next
<1>4. PICK f \in [0 .. n -> Nat] : f[0] = 0 /\ \A k \in 1 .. n : f[k] = f[k - 1] + term(k)
  <2>1. PICK V : V = Nat
    OBVIOUS
  <2>2. IsDefined(n, V, 0, next)
    BY <1>3, <2>1, Recursion
  <2>3. PICK f \in [0 .. n -> Nat] : f[0] = 0 /\ \A k \in 1 .. n : f[k] = next[<<k, f[k - 1]>>]
    BY <2>1, <2>2 DEF IsDefined
  <2>4. \A k \in 1 .. n : k - 1 \in 0 .. n
    OBVIOUS
  <2> QED BY <1>3, <2>3, <2>4
<1> DEFINE Is(g) == g = [k \in 0 .. n |-> IF k = 0 THEN 0 ELSE g[k - 1] + term(k)]
<1>5. Is(f)
  <2>1. \A k \in 0 .. n : k # 0 => k \in 1 .. n
    OBVIOUS
  <2>2. \A k \in 0 .. n : f[k] = IF k = 0 THEN 0 ELSE f[k - 1] + term(k)
    BY <1>4, <2>1
  <2> QED BY <2>2
<1>6. PICK g : Is(g) /\ FromBytes(bytes) = g[n] % Modulus
  <2>1. FromBytes(bytes) = (CHOOSE g : Is(g))[n] % Modulus
    BY <1>1 DEF FromBytes, term
  <2>2. Is(CHOOSE g : Is(g))
    BY <1>5
  <2> QED BY <2>1, <2>2
<1>7. g[0] = 0 /\ \A k \in 1 .. n : g[k] = g[k - 1] + term(k)
  <2>1. \A k \in 1 .. n : k \in 0 .. n /\ k # 0
    OBVIOUS
  <2> QED BY <1>6, <2>1
<1>8. \A k \in 0 .. n : g[k] = f[k]
  <2> DEFINE U == {k \in 0 .. n : g[k] = f[k]}
  <2>1. 0 \in U
    BY <1>4, <1>7
  <2>2. ASSUME NEW k \in 1 .. n, k - 1 \in U PROVE k \in U
    <3>1. k \in 0 .. n
      OBVIOUS
    <3> QED BY <1>4, <1>7, <2>2, <3>1
  <2> HIDE DEF U
  <2>3. 0 .. n \subseteq U
    BY <2>1, <2>2, UpTo, Zenon
  <2> QED BY <2>3 DEF U
<1>9. Sums(f, bytes)
  BY <1>1, <1>4 DEF Sums, Weight, term
<1>10. FromBytes(bytes) = f[Len(bytes)] % Modulus
  BY <1>1, <1>6, <1>8
<1> QED BY <1>9, <1>10

\* The values of a byte
Byte == 0 .. 2 ^ ByteBits - 1

\* The first bytes sum up to less than the next byte weighs.
LEMMA SumsBounded ==
  ASSUME NEW bytes \in Seq(Byte), NEW f, Sums(f, bytes), NEW m \in 0 .. Len(bytes)
  PROVE  f[m] < Weight(m + 1)
<1>1. PICK n \in Nat, b \in Nat :
        /\ n = Len(bytes) /\ b = 2 ^ ByteBits
        /\ \A k \in 1 .. n : bytes[k] \in Nat /\ bytes[k] <= b - 1
  <2>1. 2 ^ ByteBits \in Nat
    BY FieldAssumption, PowersOfTwo
  <2> QED BY <2>1, SMTT(30) DEF Byte
<1> DEFINE T == {k \in 0 .. n : f[k] < Weight(k + 1)}
<1>2. 0 \in T
  <2>1. ByteBits \in Nat
    BY FieldAssumption
  <2>2. PICK e : e = ByteBits * (0 + 1 - 1) /\ e = 0
    BY <2>1
  <2>3. 2 ^ 0 = 1
    OBVIOUS
  <2>4. Weight(0 + 1) = 1
    <3>1. Weight(0 + 1) = 2 ^ e
      BY <2>2 DEF Weight
    <3> QED BY <2>2, <2>3, <3>1
  <2>5. f[0] = 0 /\ 0 < 1 /\ 0 \in 0 .. n
    BY DEF Sums
  <2> QED BY <2>4, <2>5
<1>3. ASSUME NEW k \in 1 .. n, k - 1 \in T PROVE k \in T
  <2>1. k \in Nat \ {0} /\ k - 1 + 1 = k /\ k - 1 \in 0 .. n /\ k \in 0 .. n
    OBVIOUS
  <2>2. PICK w \in Nat \ {0} : w = Weight(k) /\ Weight(k + 1) = b * w
    BY <1>1, <2>1, WeightIsNumber
  <2>3. PICK x \in Nat, y \in Nat : /\ x = bytes[k] /\ y = f[k - 1] /\ f[k] = y + x * w
                                    /\ x <= b - 1 /\ y < w
    BY <1>1, <1>3, <2>1, <2>2 DEF Sums
  <2>4. x * w <= (b - 1) * w
    <3>1. PICK z \in Nat : b - 1 = x + z
      <4>1. b - 1 - x \in Nat
        BY <2>3
      <4> QED BY <4>1
    <3>2. (x + z) * w = x * w + z * w /\ z * w \in Nat /\ x * w \in Nat
      OBVIOUS
    <3> QED BY <3>1, <3>2
  <2>5. (b - 1) * w = b * w - w
    OBVIOUS
  <2>6. f[k] < b * w
    <3>1. PICK p \in Int, q \in Int, r \in Int : p = x * w /\ q = (b - 1) * w /\ r = b * w
      OBVIOUS
    <3>2. p <= q /\ q = r - w /\ f[k] = y + p
      BY <2>3, <2>4, <2>5, <3>1
    <3>3. y + p < r
      BY <2>3, <3>2
    <3> QED BY <3>1, <3>2, <3>3
  <2> QED BY <2>1, <2>2, <2>6
<1> HIDE DEF T
<1>4. 0 .. n \subseteq T
  BY <1>2, <1>3, UpTo, Zenon
<1>5. m \in T
  BY <1>1, <1>4
<1> QED BY <1>5 DEF T

\* The bytes from the j-th on make a multiple of its weight.
LEMMA SumsAbove ==
  ASSUME NEW bytes \in Seq(Nat), NEW f, Sums(f, bytes), NEW j \in 0 .. Len(bytes)
  PROVE  \E r \in Nat : f[Len(bytes)] = f[j] + r * Weight(j + 1)
<1>1. PICK n \in Nat, d \in Nat : /\ n = Len(bytes) /\ d = n - j /\ j \in Nat /\ j <= n /\ j + d = n
                                  /\ \A k \in 1 .. n : bytes[k] \in Nat
  <2>1. Len(bytes) \in Nat /\ Len(bytes) - j \in Nat
    OBVIOUS
  <2> QED BY <2>1
<1>2. PICK w \in Nat : w = Weight(j + 1)
  <2>1. j + 1 \in Nat \ {0}
    BY <1>1
  <2> QED BY <2>1, WeightIsNumber
<1>3. \A i \in 0 .. d : j + i \in 0 .. n /\ f[j + i] \in Nat
  BY <1>1, SMTT(30) DEF Sums
<1> DEFINE T == {i \in 0 .. d : \E r \in Nat : f[j + i] = f[j] + r * w}
<1>4. 0 \in T
  <2>1. f[j + 0] = f[j] + 0 * w
    <3>1. PICK y \in Nat : y = f[j] /\ j + 0 = j
      BY <1>1 DEF Sums
    <3>2. y = y + 0 * w
      OBVIOUS
    <3> QED BY <3>1, <3>2
  <2> QED BY <1>1, <2>1
<1>5. ASSUME NEW i \in 1 .. d, i - 1 \in T PROVE i \in T
  <2>1. PICK r \in Nat : f[j + (i - 1)] = f[j] + r * w
    BY <1>5
  <2>2. j + i \in 1 .. n /\ j + i - 1 = j + (i - 1) /\ i \in 0 .. d /\ j + i - 1 = j + (i - 1)
    BY <1>1
  <2>3. f[j + i] = f[j + (i - 1)] + bytes[j + i] * Weight(j + i)
    <3>1. PICK k \in 1 .. n : k = j + i /\ k - 1 = j + (i - 1)
      BY <2>2
    <3> QED BY <1>1, <3>1 DEF Sums
  <2>4. PICK v \in Nat : Weight(j + i) = w * v
    <3>1. PICK b \in Nat : b = ByteBits
      BY FieldAssumption
    <3>2. PICK h \in Nat, l \in Nat : h = b * j /\ l = b * (i - 1) /\ b * (j + i - 1) = h + l
      <4>1. i - 1 \in Nat
        OBVIOUS
      <4>2. b * j \in Nat /\ b * (i - 1) \in Nat /\ b * (j + i - 1) = b * j + b * (i - 1)
        BY <1>1, <4>1
      <4> QED BY <4>2
    <3>3. 2 ^ (h + l) = 2 ^ h * 2 ^ l /\ 2 ^ l \in Nat
      BY PowersOfTwo
    <3>4. j + 1 - 1 = j
      BY <1>1
    <3>5. w = 2 ^ h
      BY <1>2, <3>1, <3>2, <3>4 DEF Weight
    <3>6. Weight(j + i) = 2 ^ (h + l)
      BY <3>1, <3>2 DEF Weight
    <3> QED BY <3>3, <3>5, <3>6
  <2>5. PICK x \in Nat, y \in Nat : x = bytes[j + i] /\ y = f[j]
    BY <1>1, <2>2 DEF Sums
  <2>6. (y + r * w) + x * (w * v) = y + (r + x * v) * w /\ r + x * v \in Nat
    BY SMT
  <2>7. f[j + i] = f[j] + (r + x * v) * w
    BY <2>1, <2>3, <2>4, <2>5, <2>6
  <2> QED BY <2>2, <2>6, <2>7
<1> HIDE DEF T
<1>6. 0 .. d \subseteq T
  BY <1>4, <1>5, UpTo, Zenon
<1>7. d \in T
  BY <1>6
<1>8. \E r \in Nat : f[j + d] = f[j] + r * w
  BY <1>7 DEF T
<1> QED BY <1>1, <1>2, <1>8

\* What is below w is the same if the sums with multiples of w are.
LEMMA SameBelow ==
  ASSUME NEW w \in Nat, NEW x \in Nat, NEW y \in Nat, x < w, y < w, NEW r \in Nat, NEW s \in Nat,
         x + r * w = y + s * w
  PROVE  x = y
<1>1. CASE r < s
  <2>1. PICK d \in Nat : s = r + 1 + d
    <3>1. s - r - 1 \in Nat
      BY <1>1
    <3> QED BY <3>1
  <2>2. (r + 1 + d) * w = r * w + w + d * w /\ d * w \in Nat
    OBVIOUS
  <2>3. PICK p \in Nat, q \in Nat : p = r * w /\ q = d * w
    OBVIOUS
  <2> QED BY <2>1, <2>2, <2>3
<1>2. CASE s < r
  <2>1. PICK d \in Nat : r = s + 1 + d
    <3>1. r - s - 1 \in Nat
      BY <1>2
    <3> QED BY <3>1
  <2>2. (s + 1 + d) * w = s * w + w + d * w /\ d * w \in Nat
    OBVIOUS
  <2>3. PICK p \in Nat, q \in Nat : p = s * w /\ q = d * w
    OBVIOUS
  <2> QED BY <2>1, <2>2, <2>3
<1>3. CASE r = s
  <2>1. PICK p \in Nat : p = r * w
    OBVIOUS
  <2> QED BY <1>3, <2>1
<1> QED BY <1>1, <1>2, <1>3

\* Bytes that fit an element are known by it: other bytes make another element.
LEMMA NumbersDiffer ==
  ASSUME NEW a \in Seq(Byte), NEW b \in Seq(Byte), ByteBits * Len(a) <= UsableBits,
         ByteBits * Len(b) <= UsableBits, NEW j \in 1 .. Len(a), j <= Len(b), a[j] # b[j]
  PROVE  FromBytes(a) # FromBytes(b)
<1>1. Byte \subseteq Nat /\ a \in Seq(Nat) /\ b \in Seq(Nat)
  <2>1. Byte \subseteq Nat
    BY DEF Byte
  <2>2. \A U, T : U \subseteq T => \A s \in Seq(U) : s \in Seq(T)
    OBVIOUS
  <2> QED BY <2>1, <2>2
<1>2. PICK f, g : /\ Sums(f, a) /\ FromBytes(a) = f[Len(a)] % Modulus
                  /\ Sums(g, b) /\ FromBytes(b) = g[Len(b)] % Modulus
  BY <1>1, NumberOfBytes
<1>3. ASSUME NEW c \in Seq(Byte), NEW h, Sums(h, c), ByteBits * Len(c) <= UsableBits
      PROVE  h[Len(c)] % Modulus = h[Len(c)]
  <2>1. PICK n \in Nat, k \in Nat : n = Len(c) /\ k = h[n] /\ n \in 0 .. Len(c)
    <3>1. Len(c) \in Nat /\ Len(c) \in 0 .. Len(c)
      OBVIOUS
    <3>2. h[Len(c)] \in Nat
      BY <1>3, <3>1 DEF Sums
    <3> QED BY <3>1, <3>2
  <2>2. k < Weight(n + 1)
    BY <1>3, <2>1, SumsBounded
  <2>3. n + 1 - 1 = n /\ ByteBits \in Nat /\ UsableBits \in Nat /\ Modulus \in Nat \ {0}
    BY <2>1, FieldAssumption
  <2>4. PICK e \in Nat : e = ByteBits * n
    BY <2>3
  <2>5. 2 ^ e <= 2 ^ UsableBits
    BY <1>3, <2>1, <2>3, <2>4, PowersGrow
  <2>6. Weight(n + 1) = 2 ^ e
    BY <2>3, <2>4 DEF Weight
  <2>7. 2 ^ UsableBits <= Modulus
    BY FieldAssumption
  <2>8. 2 ^ e \in Nat /\ 2 ^ UsableBits \in Nat
    BY <2>3, PowersOfTwo
  <2>9. k < Modulus
    BY <2>2, <2>3, <2>5, <2>6, <2>7, <2>8
  <2>10. k % Modulus = k
    BY <2>3, <2>9, SMTT(30)
  <2> QED BY <2>1, <2>10
<1> SUFFICES ASSUME FromBytes(a) = FromBytes(b) PROVE FALSE
  OBVIOUS
<1>4. f[Len(a)] = g[Len(b)]
  BY <1>2, <1>3
<1>5. PICK m \in Nat, n \in Nat : m = Len(a) /\ n = Len(b) /\ j \in 1 .. m /\ j \in 1 .. n
  OBVIOUS
<1>6. ASSUME NEW i \in 0 .. m, i \in 0 .. n PROVE f[i] = g[i]
  <2>1. PICK r \in Nat, s \in Nat : f[m] = f[i] + r * Weight(i + 1) /\ g[n] = g[i] + s * Weight(i + 1)
    BY <1>1, <1>2, <1>5, <1>6, SumsAbove
  <2>2. f[i] < Weight(i + 1) /\ g[i] < Weight(i + 1)
    BY <1>2, <1>5, <1>6, SumsBounded
  <2>3. PICK w \in Nat, x \in Nat, y \in Nat : w = Weight(i + 1) /\ x = f[i] /\ y = g[i]
    <3>1. i + 1 \in Nat \ {0}
      OBVIOUS
    <3>2. Weight(i + 1) \in Nat
      BY <3>1, WeightIsNumber
    <3> QED BY <1>2, <1>5, <1>6, <3>2 DEF Sums
  <2>4. x < w /\ y < w /\ x + r * w = y + s * w
    BY <1>4, <1>5, <2>1, <2>2, <2>3
  <2>5. x = y
    BY <2>4, SameBelow
  <2> QED BY <2>3, <2>5
<1>7. f[j] = g[j] /\ f[j - 1] = g[j - 1]
  <2>1. j \in 0 .. m /\ j \in 0 .. n /\ j - 1 \in 0 .. m /\ j - 1 \in 0 .. n
    BY <1>5
  <2> QED BY <1>6, <2>1
<1>8. PICK w \in Nat \ {0} : w = Weight(j)
  <2>1. j \in Nat \ {0}
    OBVIOUS
  <2> QED BY <2>1, WeightIsNumber
<1>9. PICK x \in Nat, y \in Nat, z \in Nat : x = a[j] /\ y = b[j] /\ z = f[j - 1]
  <2>1. a[j] \in Nat /\ b[j] \in Nat
    BY <1>1, <1>5
  <2>2. j - 1 \in 0 .. m
    BY <1>5
  <2>3. f[j - 1] \in Nat
    BY <1>2, <1>5, <2>2 DEF Sums
  <2> QED BY <2>1, <2>3
<1>10. f[j] = z + x * w /\ g[j] = z + y * w
  BY <1>2, <1>5, <1>7, <1>8, <1>9 DEF Sums
<1>11. x * w = y * w
  <2>1. PICK p \in Nat, q \in Nat : p = x * w /\ q = y * w
    OBVIOUS
  <2>2. z + p = z + q
    BY <1>7, <1>10, <2>1
  <2> QED BY <2>1, <2>2
<1>12. x = y
  BY <1>11
<1> QED BY <1>9, <1>12

\* A remainder by one digit more has that digit on top.
LEMMA NextDigit ==
  ASSUME NEW m \in Nat, NEW b \in Nat \ {0}, NEW w \in Nat \ {0}
  PROVE  m % (b * w) = (m % w) + ((m \div w) % b) * w
<1>1. PICK q \in Nat, r \in 0 .. w - 1 : q = m \div w /\ r = m % w /\ m = w * q + r
  BY DividedBy
<1>2. PICK p \in Nat, x \in 0 .. b - 1 : p = q \div b /\ x = q % b /\ q = b * p + x
  BY DividedBy
<1>3. PICK h \in Nat \ {0} : h = b * w
  <2>1. b * w \in Nat \ {0}
    OBVIOUS
  <2> QED BY <2>1
<1>4. PICK d \in Nat, e \in 0 .. h - 1 : d = m \div h /\ e = m % h /\ m = h * d + e
  BY DividedBy
<1>5. PICK l \in Nat : l = x * w + r /\ l < h
  <2>1. PICK s \in Nat, t \in Nat : s = x * w /\ t = (b - 1 - x) * w
    <3>1. b - 1 - x \in Nat
      OBVIOUS
    <3>2. x * w \in Nat
      OBVIOUS
    <3>3. \A i \in Nat : i * w \in Nat
      OBVIOUS
    <3> QED BY <3>1, <3>2, <3>3
  <2>2. h = (x + (b - 1 - x) + 1) * w
    BY <1>3
  <2>3. (x + (b - 1 - x) + 1) * w = x * w + (b - 1 - x) * w + w
    <3>1. PICK i \in Nat : i = b - 1 - x
      <4>1. b - 1 - x \in Nat
        OBVIOUS
      <4> QED BY <4>1
    <3>2. (x + i + 1) * w = x * w + i * w + w
      OBVIOUS
    <3> QED BY <3>1, <3>2
  <2>4. h = s + t + w
    BY <2>1, <2>2, <2>3
  <2> QED BY <2>1, <2>4
<1>6. m = h * p + l
  <2>1. w * (b * p + x) + r = (b * w) * p + (x * w + r)
    OBVIOUS
  <2> QED BY <1>1, <1>2, <1>3, <1>5, <2>1
<1>7. e + d * h = l + p * h
  <2>1. h * d = d * h /\ h * p = p * h /\ d * h \in Nat /\ p * h \in Nat
    OBVIOUS
  <2>2. PICK i \in Nat, j \in Nat : i = d * h /\ j = p * h /\ m = i + e /\ m = j + l
    BY <1>4, <1>6, <2>1
  <2> QED BY <2>2
<1>8. e = l
  <2>1. h \in Nat /\ e \in Nat /\ l \in Nat /\ e < h /\ l < h
    BY <1>4, <1>5
  <2> QED BY <1>7, <2>1, SameBelow
<1>9. (m % w) + ((m \div w) % b) * w = r + x * w
  BY <1>1, <1>2
<1>10. r + x * w = x * w + r
  <2>1. x * w \in Nat
    OBVIOUS
  <2> QED BY <2>1
<1> QED BY <1>3, <1>4, <1>5, <1>8, <1>9, <1>10

\* Numbers that fit the bytes of a length are known by them.
LEMMA LengthsDiffer ==
  ASSUME NEW m \in Nat, NEW n \in Nat, m # n,
         m < 2 ^ (ByteBits * LengthBytes), n < 2 ^ (ByteBits * LengthBytes)
  PROVE  \E k \in 1 .. LengthBytes : ToBytes(m)[k] # ToBytes(n)[k]
<1> SUFFICES ASSUME \A k \in 1 .. LengthBytes : ToBytes(m)[k] = ToBytes(n)[k] PROVE FALSE
  OBVIOUS
<1>1. PICK l \in Nat, b \in Nat \ {0} : l = LengthBytes /\ b = 2 ^ ByteBits
  BY FieldAssumption, PowersOfTwo
<1> DEFINE T == {k \in 0 .. l : m % Weight(k + 1) = n % Weight(k + 1)}
<1>2. 0 \in T
  <2>1. ByteBits \in Nat
    BY FieldAssumption
  <2>2. PICK e : e = ByteBits * (0 + 1 - 1) /\ e = 0
    BY <2>1
  <2>3. 2 ^ 0 = 1
    OBVIOUS
  <2>4. Weight(0 + 1) = 1
    <3>1. Weight(0 + 1) = 2 ^ e
      BY <2>2 DEF Weight
    <3> QED BY <2>2, <2>3, <3>1
  <2>5. m % 1 = 0 /\ n % 1 = 0
    OBVIOUS
  <2> QED BY <2>4, <2>5
<1>3. ASSUME NEW k \in 1 .. l, k - 1 \in T PROVE k \in T
  <2>1. k \in Nat \ {0} /\ k - 1 + 1 = k /\ k \in 0 .. l
    OBVIOUS
  <2>2. PICK w \in Nat \ {0} : w = Weight(k) /\ Weight(k + 1) = b * w
    BY <1>1, <2>1, WeightIsNumber
  <2>3. m % w = n % w
    BY <1>3, <2>1, <2>2
  <2>4. (m \div w) % b = (n \div w) % b
    <3>1. ToBytes(m)[k] = ToBytes(n)[k]
      BY <1>1
    <3>2. \A i : ToBytes(i)[k] = (i \div w) % b
      BY <1>1, <2>2 DEF ToBytes, Weight
    <3> QED BY <3>1, <3>2
  <2>5. m % (b * w) = n % (b * w)
    <3>1. /\ m % (b * w) = (m % w) + ((m \div w) % b) * w
          /\ n % (b * w) = (n % w) + ((n \div w) % b) * w
      BY NextDigit
    <3> QED BY <2>3, <2>4, <3>1, Zenon
  <2> QED BY <2>1, <2>2, <2>5
<1> HIDE DEF T
<1>4. 0 .. l \subseteq T
  BY <1>2, <1>3, UpTo, Zenon
<1>5. l \in T
  BY <1>4
<1>6. Weight(l + 1) = 2 ^ (ByteBits * LengthBytes)
  <2>1. l + 1 - 1 = l
    OBVIOUS
  <2> QED BY <1>1, <2>1 DEF Weight
<1>7. PICK w \in Nat \ {0} : w = Weight(l + 1)
  <2>1. l + 1 \in Nat \ {0}
    OBVIOUS
  <2> QED BY <2>1, WeightIsNumber
<1>8. m % w = n % w
  BY <1>5, <1>7 DEF T
<1>9. m % w = m /\ n % w = n
  BY <1>6, <1>7
<1> QED BY <1>8, <1>9

\* A domain as it is separated by: its length, then its bytes
Encoded(d) == ToBytes(Len(d)) \o d

\* Two domains are encoded with their lengths, so that neither is the beginning of the other.
LEMMA EncodingsDiffer ==
  ASSUME NEW d \in Domains, NEW e \in Domains, d # e
  PROVE  /\ Encoded(d) \in Seq(Byte) /\ Encoded(e) \in Seq(Byte)
         /\ \E k \in 1 .. Len(Encoded(d)) : k <= Len(Encoded(e)) /\ Encoded(d)[k] # Encoded(e)[k]
<1>1. PICK l \in Nat, b \in Nat \ {0} : l = LengthBytes /\ b = 2 ^ ByteBits /\ Byte = 0 .. b - 1
  BY FieldAssumption, PowersOfTwo DEF Byte
<1>2. ASSUME NEW n \in Nat PROVE ToBytes(n) \in Seq(Byte) /\ Len(ToBytes(n)) = l
  <2>1. ASSUME NEW k \in 1 .. l PROVE (n \div 2 ^ (ByteBits * (k - 1))) % 2 ^ ByteBits \in Byte
    <3>1. k \in Nat \ {0}
      OBVIOUS
    <3>2. PICK w \in Nat \ {0} : w = 2 ^ (ByteBits * (k - 1))
      BY <3>1, WeightIsNumber DEF Weight
    <3>3. n \div w \in Nat
      BY DividedBy
    <3>4. (n \div w) % b \in 0 .. b - 1
      BY <3>3, DividedBy
    <3> QED BY <1>1, <3>2, <3>4
  <2>2. PICK t : t = ToBytes(n) /\ t = [k \in 1 .. l |-> t[k]] /\ \A k \in 1 .. l : t[k] \in Byte
    <3>1. PICK t : t = ToBytes(n)
      OBVIOUS
    <3>2. t = [k \in 1 .. l |-> (n \div 2 ^ (ByteBits * (k - 1))) % 2 ^ ByteBits]
      BY <1>1, <3>1 DEF ToBytes
    <3>3. t = [k \in 1 .. l |-> t[k]]
      BY <3>2
    <3>4. ASSUME NEW k \in 1 .. l PROVE t[k] \in Byte
      BY <2>1, <3>2
    <3> QED BY <3>1, <3>3, <3>4
  <2>3. t \in [1 .. l -> Byte]
    BY <2>2
  <2>4. t \in Seq(Byte) /\ Len(t) = l
    BY <2>3
  <2> QED BY <2>2, <2>4
<1>3. ASSUME NEW x \in Domains
      PROVE  /\ x \in Seq(Byte) /\ Len(x) \in Nat /\ Len(x) < 2 ^ (ByteBits * LengthBytes)
             /\ Encoded(x) \in Seq(Byte) /\ Len(Encoded(x)) = l + Len(x)
             /\ \A k \in 1 .. l : Encoded(x)[k] = ToBytes(Len(x))[k]
             /\ \A k \in 1 .. Len(x) : Encoded(x)[l + k] = x[k]
  <2>1. x \in Seq(Byte) /\ Len(x) \in Nat /\ Len(x) < 2 ^ (ByteBits * LengthBytes)
    <3>1. x \in Seq(Byte)
      BY DomainAssumption DEF Byte
    <3> QED BY <3>1, DomainAssumption
  <2>2. PICK t : t = ToBytes(Len(x)) /\ t \in Seq(Byte) /\ Len(t) = l
    BY <1>2, <2>1
  <2>3. t \o x \in Seq(Byte) /\ Len(t \o x) = l + Len(x)
    BY <2>1, <2>2
  <2>4. (\A k \in 1 .. l : (t \o x)[k] = t[k]) /\ (\A k \in 1 .. Len(x) : (t \o x)[l + k] = x[k])
    <3>1. IsSeq(t) /\ IsSeq(x)
      BY <2>1, <2>2 DEF IsSeq
    <3> QED BY <2>2, <3>1, SeqConcat
  <2> QED BY <2>1, <2>2, <2>3, <2>4 DEF Encoded
<1>4. PICK m \in Nat, n \in Nat : m = Len(d) /\ n = Len(e)
  BY <1>3
<1>5. CASE m # n
  <2>1. PICK k \in 1 .. l : ToBytes(m)[k] # ToBytes(n)[k]
    BY <1>1, <1>3, <1>4, <1>5, LengthsDiffer
  <2>2. k \in 1 .. l + m /\ k <= l + n
    OBVIOUS
  <2> QED BY <1>3, <1>4, <2>1, <2>2
<1>6. CASE m = n
  <2>1. PICK k \in 1 .. m : d[k] # e[k]
    BY <1>3, <1>4, <1>6, SameElements
  <2>2. l + k \in 1 .. l + m /\ l + k <= l + n
    BY <1>6
  <2>3. Encoded(d)[l + k] # Encoded(e)[l + k]
    BY <1>3, <1>4, <1>6, <2>1
  <2>4. PICK i : i = l + k
    OBVIOUS
  <2>5. i \in 1 .. Len(Encoded(d)) /\ i <= Len(Encoded(e)) /\ Encoded(d)[i] # Encoded(e)[i]
    BY <1>3, <1>4, <2>2, <2>3, <2>4
  <2> QED BY <1>3, <2>5
<1> QED BY <1>5, <1>6

\* A chunk has a byte or more, and no more bits than a field element holds.
LEMMA ChunkSize ==
  UsableBits \div ByteBits \in Nat \ {0} /\ ByteBits * (UsableBits \div ByteBits) <= UsableBits
<1>1. PICK u, b, q : /\ u \in Nat /\ b \in Nat \ {0} /\ u = UsableBits /\ b = ByteBits
                      /\ b <= u /\ q = u \div b
  BY FieldAssumption
<1>2. q \in Nat /\ u % b \in 0 .. b - 1 /\ u = b * q + (u % b)
  BY <1>1, DividedBy
<1>3. q # 0
  <2>1. ASSUME q = 0 PROVE FALSE
    <3>1. b * q = 0
      BY <1>1, <2>1
    <3> QED BY <1>1, <1>2, <3>1
  <2> QED BY <2>1
<1>4. b * q <= u
  <2>1. b * q \in Nat
    BY <1>1, <1>2
  <2> QED BY <1>2, <2>1
<1> QED BY <1>1, <1>2, <1>3, <1>4

\* The chunk that holds the k-th byte: it is one of the chunks, short enough for an element,
\* and the byte is the j-th of it.
LEMMA ChunkOf ==
  ASSUME NEW a \in Seq(Byte), NEW size \in Nat \ {0}, ByteBits * size <= UsableBits,
         NEW k \in 1 .. Len(a), NEW q \in Nat, NEW j \in 1 .. size, k = q * size + j
  PROVE  /\ q + 1 \in 1 .. Len(ChunksOf(size, a))
         /\ \E part \in Seq(Byte) :
              /\ ChunksOf(size, a)[q + 1] = Number(FromBytes(part))
              /\ ByteBits * Len(part) <= UsableBits /\ j \in 1 .. Len(part) /\ part[j] = a[k]
<1>1. PICK n \in Nat, m \in Nat, c \in Nat \ {0} :
        n = Len(a) /\ m = Ceil(n, size) /\ c = q + 1 /\ (c - 1) * size = q * size
  <2>1. Len(a) \in Nat /\ q + 1 \in Nat \ {0} /\ q + 1 - 1 = q
    OBVIOUS
  <2> QED BY <2>1, CeilIsNumber
<1>2. PICK z \in Nat : z = q * size /\ c * size = z + size
  <2>1. q * size \in Nat /\ (q + 1) * size = q * size + size
    OBVIOUS
  <2> QED BY <1>1, <2>1
<1>3. c \in 1 .. m
  <2>1. PICK e \in Nat : e = n + size - 1
    <3>1. n + size - 1 \in Nat
      OBVIOUS
    <3> QED BY <3>1
  <2>2. PICK r \in 0 .. size - 1 : e = size * m + r
    <3>1. m = e \div size
      BY <1>1, <2>1 DEF Ceil
    <3> QED BY <3>1, DividedBy
  <2>3. c * size <= e
    <3>1. z + 1 <= n
      BY <1>1, <1>2
    <3> QED BY <1>2, <2>1, <3>1
  <2>4. c <= m
    <3> SUFFICES ASSUME m < c PROVE FALSE
      OBVIOUS
    <3>1. PICK d \in Nat : c = m + 1 + d
      <4>1. c - m - 1 \in Nat
        OBVIOUS
      <4> QED BY <4>1
    <3>2. (m + 1 + d) * size = size * m + size + d * size /\ d * size \in Nat
      OBVIOUS
    <3>3. PICK x \in Nat, y \in Nat : x = size * m /\ y = d * size
      OBVIOUS
    <3>4. c * size = x + size + y
      BY <3>1, <3>2, <3>3
    <3> QED BY <2>2, <2>3, <3>3, <3>4
  <2> QED BY <1>1, <2>4
<1>4. PICK last \in Nat : /\ last = IF c * size < Len(a) THEN c * size ELSE Len(a)
                          /\ last <= n /\ last <= z + size /\ z + j <= last
  <2>1. z + j <= n /\ j <= size
    BY <1>1, <1>2
  <2> QED BY <1>1, <1>2, <2>1
<1>5. PICK part : part = SubSeq(a, z + 1, last)
  OBVIOUS
<1>6. /\ part \in Seq(Byte) /\ Len(part) = last - z
      /\ \A i \in 1 .. last - z : part[i] = a[z + i]
  <2>1. /\ z + 1 \in Nat /\ z + 1 >= 1 /\ last <= Len(a) /\ z + 1 <= last + 1
        /\ last - (z + 1) + 1 = last - z /\ \A i \in Nat : z + 1 + i - 1 = z + i
    BY <1>1, <1>4
  <2>2. IsSeq(a)
    BY DEF IsSeq
  <2>3. PICK p \in Nat : p = z + 1
    BY <2>1
  <2>4. /\ Len(SubSeq(a, p, last)) = last - p + 1
        /\ \A i \in 1 .. last - p + 1 : SubSeq(a, p, last)[i] = a[p + i - 1]
    BY <2>1, <2>2, <2>3, SeqPart
  <2>5. \A i \in 1 .. last - z : part[i] = a[z + i]
    <3> SUFFICES ASSUME NEW i \in 1 .. last - z PROVE part[i] = a[z + i]
      OBVIOUS
    <3>1. i \in 1 .. last - p + 1 /\ p + i - 1 = z + i
      BY <2>1, <2>3
    <3> QED BY <1>5, <2>3, <2>4, <3>1
  <2>6. part \in Seq(Byte)
    BY <1>5, <2>1
  <2> QED BY <1>5, <2>1, <2>3, <2>4, <2>5, <2>6
<1>7. /\ Len(ChunksOf(size, a)) = m
      /\ ChunksOf(size, a)[c] = Number(FromBytes(part))
  <2>1. PICK f : /\ f = ChunksOf(size, a)
                 /\ f = [i \in 1 .. m |->
                      LET end == IF i * size < Len(a) THEN i * size ELSE Len(a)
                      IN  Number(FromBytes(SubSeq(a, (i - 1) * size + 1, end)))]
    BY <1>1 DEF ChunksOf
  <2>2. f = [i \in 1 .. m |-> f[i]]
    BY <2>1
  <2>3. Len(f) = m
    BY <2>2, SeqOfFunction
  <2>4. f[c] = Number(FromBytes(SubSeq(a, (c - 1) * size + 1, last)))
    BY <1>3, <1>4, <2>1
  <2> QED BY <1>1, <1>2, <1>5, <2>1, <2>3, <2>4
<1>8. j \in 1 .. Len(part) /\ part[j] = a[k]
  BY <1>2, <1>4, <1>6
<1>9. ByteBits * Len(part) <= UsableBits
  <2>1. PICK b \in Nat, l \in Nat, d \in Nat : b = ByteBits /\ l = Len(part) /\ size = l + d
    <3>1. last - z \in Nat /\ size - (last - z) \in Nat
      BY <1>4
    <3> QED BY <1>6, <3>1, FieldAssumption
  <2>2. b * (l + d) = b * l + b * d /\ b * l \in Nat /\ b * d \in Nat
    OBVIOUS
  <2>3. PICK x \in Nat, y \in Nat : x = b * l /\ y = b * d
    BY <2>2
  <2>4. x + y <= UsableBits /\ UsableBits \in Nat
    BY <2>1, <2>2, <2>3, FieldAssumption
  <2> QED BY <2>1, <2>3, <2>4
<1> QED BY <1>1, <1>3, <1>6, <1>7, <1>8, <1>9

\* Bytes that differ somewhere make chunks that differ somewhere.
LEMMA ChunksDiffer ==
  ASSUME NEW a \in Seq(Byte), NEW b \in Seq(Byte), NEW k \in 1 .. Len(a), k <= Len(b), a[k] # b[k]
  PROVE  \E c \in 1 .. Len(Chunks(a)) : c <= Len(Chunks(b)) /\ Chunks(a)[c] # Chunks(b)[c]
<1>1. PICK size \in Nat \ {0} : size = UsableBits \div ByteBits /\ ByteBits * size <= UsableBits
  BY ChunkSize
<1>2. PICK q \in Nat, j \in 1 .. size : k = q * size + j
  <2>1. k - 1 \in Nat
    OBVIOUS
  <2>2. PICK q \in Nat, r \in 0 .. size - 1 : k - 1 = size * q + r
    BY <2>1, DividedBy
  <2>3. size * q = q * size /\ q * size \in Nat
    OBVIOUS
  <2>4. k = q * size + (r + 1) /\ r + 1 \in 1 .. size
    BY <2>2, <2>3
  <2> QED BY <2>4
<1> DEFINE Has(x) ==
             /\ q + 1 \in 1 .. Len(ChunksOf(size, x))
             /\ \E part \in Seq(Byte) :
                  /\ ChunksOf(size, x)[q + 1] = Number(FromBytes(part))
                  /\ ByteBits * Len(part) <= UsableBits /\ j \in 1 .. Len(part) /\ part[j] = x[k]
<1>0. \A x \in Seq(Byte) : k \in 1 .. Len(x) => Has(x)
  <2> SUFFICES ASSUME NEW x \in Seq(Byte), k \in 1 .. Len(x) PROVE Has(x)
    BY Zenon
  <2>1. PICK n \in Nat : n = Len(x) /\ k \in 1 .. n
    OBVIOUS
  <2>2. ByteBits * size <= UsableBits /\ k = q * size + j
    BY <1>1, <1>2
  <2> QED BY <2>2, ChunkOf, Z3
<1>2a. Has(a) /\ Has(b)
  <2>1. k \in 1 .. Len(b)
    OBVIOUS
  <2> HIDE DEF Has
  <2> QED BY <1>0, <2>1
<1>3. PICK p \in Seq(Byte) : /\ ChunksOf(size, a)[q + 1] = Number(FromBytes(p))
                             /\ ByteBits * Len(p) <= UsableBits /\ j \in 1 .. Len(p) /\ p[j] = a[k]
  BY <1>2a
<1>4. PICK r \in Seq(Byte) : /\ ChunksOf(size, b)[q + 1] = Number(FromBytes(r))
                             /\ ByteBits * Len(r) <= UsableBits /\ j \in 1 .. Len(r) /\ r[j] = b[k]
  BY <1>2a
<1>5. FromBytes(p) # FromBytes(r)
  <2>1. j <= Len(r) /\ p[j] # r[j]
    BY <1>3, <1>4
  <2> QED BY <1>3, <1>4, <2>1, NumbersDiffer
<1>6. Number(FromBytes(p)) # Number(FromBytes(r))
  <2>1. \A x, y : Number(x) = Number(y) => x = y
    <3> SUFFICES ASSUME NEW x, NEW y, Number(x) = Number(y) PROVE x = y
      OBVIOUS
    <3>1. Number(x).number = x /\ Number(y).number = y
      BY DEF Number
    <3> QED BY <3>1
  <2> QED BY <1>5, <2>1
<1>7. q + 1 \in 1 .. Len(ChunksOf(size, a)) /\ q + 1 \in 1 .. Len(ChunksOf(size, b))
  BY <1>2a
<1>8. PICK c : c = q + 1 /\ c \in 1 .. Len(ChunksOf(size, a)) /\ c \in 1 .. Len(ChunksOf(size, b))
  BY <1>7
<1> QED BY <1>1, <1>3, <1>4, <1>6, <1>8 DEF Chunks

\* Two domains are never encoded by a prefix of one another.
LEMMA DomainsDiffer ==
  ASSUME NEW d \in Domains, NEW e \in Domains, d # e
  PROVE  \E c \in 1 .. Len(Chunks(Encoded(d))) :
           c <= Len(Chunks(Encoded(e))) /\ Chunks(Encoded(d))[c] # Chunks(Encoded(e))[c]
<1>1. /\ Encoded(d) \in Seq(Byte) /\ Encoded(e) \in Seq(Byte)
      /\ \E k \in 1 .. Len(Encoded(d)) : k <= Len(Encoded(e)) /\ Encoded(d)[k] # Encoded(e)[k]
  BY EncodingsDiffer
<1> QED BY <1>1, ChunksDiffer

-----------------------------------------------------------------------------
(***************************************************************************)
(* Sponges as they are laid out                                            *)
(***************************************************************************)
\* How a sponge is laid out: a block that is open holds no more than one permutation takes, and
\* none is open while it squeezes.
Laid(s) == SpongeOK(s) /\ Len(s.open) <= Rate /\ (s.mode = "squeezing" => s.open = <<>>)

\* Element j of block b was put in, and it is this one.
IsFixed(s, b, j) == b <= Len(s.blocks) \/ (b = Len(s.blocks) + 1 /\ j <= Len(s.open))
Content(s, b, j) == IF b <= Len(s.blocks) THEN s.blocks[b][j] ELSE s.open[j]

\* A number, or an element that is squeezed from a place on
Fresh(x, at) == "number" \notin DOMAIN x => Place(x) \in Int /\ at <= Place(x)

\* What element j of block b is or may become, when nothing squeezed before a place is put in
Allows(s, at, b, j, x) == IF IsFixed(s, b, j) THEN x = Content(s, b, j) ELSE Fresh(x, at)

\* The parts that are full and the one that is left, when elements are cut in blocks
LEMMA CutAt ==
  ASSUME NEW n \in Nat \ {0}
  PROVE  \E f \in Nat : /\ f = (n - 1) \div Rate /\ f * Rate \in Nat
                        /\ f * Rate < n /\ n <= f * Rate + Rate
<1>1. PICK a \in Nat : a = n - 1
  <2>1. n - 1 \in Nat
    OBVIOUS
  <2> QED BY <2>1
<1>2. PICK q, r : q = a \div Rate /\ r = a % Rate
  OBVIOUS
<1>3. q \in Nat /\ r \in 0 .. Rate - 1 /\ q * Rate \in Nat /\ a = q * Rate + r
  BY <1>2, Divided
<1>4. PICK p \in Nat : p = q * Rate
  BY <1>3
<1>5. p < n /\ n <= p + Rate
  BY <1>1, <1>3, <1>4, CallAssumption
<1> QED BY <1>1, <1>2, <1>3, <1>4, <1>5

\* Multiples of the rate are in the order of their factors.
LEMMA InOrder ==
  ASSUME NEW c \in Nat, NEW f \in Nat
  PROVE  /\ c <= f => c * Rate <= f * Rate
         /\ c * Rate \in Nat /\ f * Rate \in Nat
         /\ c < f => c * Rate + Rate <= f * Rate
<1>1. Rate \in Nat
  BY CallAssumption
<1>2. c * Rate \in Nat /\ f * Rate \in Nat /\ (c + 1) * Rate = c * Rate + Rate
  BY Times
<1>3. ASSUME NEW g \in Nat, NEW h \in Nat, g <= h PROVE g * Rate <= h * Rate
  <2>1. PICK d \in Nat : d = h - g /\ h = g + d
    <3>1. h - g \in Nat /\ h = g + (h - g)
      BY <1>3
    <3> QED BY <3>1
  <2>2. d * Rate \in Nat /\ g * Rate \in Nat /\ (g + d) * Rate = g * Rate + d * Rate
    BY Times
  <2>3. PICK x \in Nat, y \in Nat : x = g * Rate /\ y = d * Rate /\ h * Rate = x + y
    BY <2>1, <2>2
  <2>4. x <= x + y
    OBVIOUS
  <2> QED BY <2>3, <2>4
<1>4. c <= f => c * Rate <= f * Rate
  BY <1>3
<1>5. c < f => (c + 1) * Rate <= f * Rate
  <2>1. c < f => c + 1 <= f
    OBVIOUS
  <2>2. c + 1 \in Nat
    OBVIOUS
  <2> QED BY <1>3, <2>1, <2>2
<1> QED BY <1>2, <1>4, <1>5

\* All that was in the open block of s and was absorbed follows its blocks in sponge a.
Extends(a, s, all, old) ==
  /\ \A b \in 1 .. old, j \in 1 .. Rate : IsFixed(a, b, j) /\ Content(a, b, j) = s.blocks[b][j]
  /\ \A c \in Nat, j \in 1 .. Rate :
       /\ IsFixed(a, old + c + 1, j) <=> c * Rate + j <= Len(all)
       /\ IsFixed(a, old + c + 1, j) => Content(a, old + c + 1, j) = all[c * Rate + j]

\* Elements that are absorbed follow those of the open block one after the other.
LEMMA AbsorbLays ==
  ASSUME NEW s, Laid(s), NEW e, IsSeq(e), e # <<>>
  PROVE  Laid(S!Absorb(s, e)) /\ Extends(S!Absorb(s, e), s, s.open \o e, Len(s.blocks))
<1>1. PICK old \in Nat : old = Len(s.blocks) /\ IsSeq(s.blocks) /\ SpongeOK(s)
  BY SeqDomain DEF Laid, SpongeOK
<1>2. PICK all : all = s.open \o e
  OBVIOUS
<1>3. IsSeq(all) /\ Len(all) \in Nat \ {0}
  <2>1. IsSeq(s.open \o e) /\ Len(s.open \o e) = Len(s.open) + Len(e)
    BY <1>1, SeqConcat DEF SpongeOK
  <2>2. Len(s.open) \in Nat /\ Len(e) \in Nat
    BY <1>1, SeqDomain DEF SpongeOK
  <2>3. Len(e) # 0
    <3> SUFFICES ASSUME Len(e) = 0 PROVE e = <<>>
      OBVIOUS
    <3>1. \A j \in 1 .. Len(e) : e[j] = <<>>[j]
      OBVIOUS
    <3> QED BY <3>1, SeqEmpty, OneSeq
  <2> QED BY <1>2, <2>1, <2>2, <2>3
<1>4. PICK n \in Nat \ {0} : n = Len(all)
  BY <1>3
<1>5. PICK f \in Nat : /\ f = (Len(all) - 1) \div Rate /\ f * Rate \in Nat
                       /\ f * Rate < n /\ n <= f * Rate + Rate
  BY <1>4, CutAt
<1>6. PICK w \in Nat : w = f * Rate /\ w < n /\ n <= w + Rate
  BY <1>5
<1>7. PICK more, part :
        /\ more = [c \in 1 .. f |-> SubSeq(all, (c - 1) * Rate + 1, c * Rate)]
        /\ part = SubSeq(all, f * Rate + 1, Len(all))
  OBVIOUS
<1>8. IsSeq(more) /\ Len(more) = f
  <2>1. more = [c \in 1 .. f |-> more[c]]
    BY <1>7
  <2> QED BY <2>1, SeqOfFunction
<1>9. PICK m \in Nat : m = w + 1 /\ m >= 1 /\ m <= n + 1 /\ m <= n /\ n <= Len(all)
  <2>1. w + 1 \in Nat /\ w + 1 >= 1 /\ w + 1 <= n + 1 /\ w + 1 <= n /\ n <= Len(all)
    BY <1>4, <1>6
  <2> QED BY <2>1
<1>10. /\ IsSeq(SubSeq(all, m, n)) /\ Len(SubSeq(all, m, n)) = n - m + 1
       /\ \A i \in 1 .. n - m + 1 : SubSeq(all, m, n)[i] = all[m + i - 1]
  BY <1>3, <1>9, SeqPart
<1>11. PICK p \in Nat : p = n - w /\ p <= Rate /\ p = n - m + 1
  <2>1. n - w \in Nat /\ n - w <= Rate /\ n - w = n - m + 1
    BY <1>6, <1>9, CallAssumption
  <2> QED BY <2>1
<1>12. IsSeq(part) /\ Len(part) = p /\ \A i \in 1 .. p : part[i] = all[w + i]
  <2>1. part = SubSeq(all, m, n)
    BY <1>4, <1>6, <1>7, <1>9
  <2>2. \A i \in 1 .. p : m + i - 1 = w + i
    BY <1>9
  <2> QED BY <1>10, <1>11, <2>1, <2>2
<1>13. PICK blocks : blocks = s.blocks \o more
  OBVIOUS
<1>14. /\ IsSeq(blocks) /\ Len(blocks) = old + f
       /\ \A b \in 1 .. old : blocks[b] = s.blocks[b]
       /\ \A c \in 1 .. f : blocks[old + c] = more[c]
  BY <1>1, <1>8, <1>13, SeqConcat
<1>15. PICK a : /\ a = S!Absorb(s, e)
                /\ a = [blocks |-> blocks, mode |-> "absorbing", open |-> part, index |-> 0]
  <2>1. S!Absorb(s, e) = [blocks |-> blocks, mode |-> "absorbing", open |-> part, index |-> 0]
    BY <1>2, <1>5, <1>7, <1>13 DEF S!Absorb
  <2> QED BY <2>1
<1>16. Laid(a)
  <2>1. SpongeOK(a)
    BY <1>1, <1>15, AbsorbOK
  <2> QED BY <1>11, <1>12, <1>15, <2>1 DEF Laid
<1>17. ASSUME NEW b \in 1 .. old, NEW j \in 1 .. Rate
       PROVE  IsFixed(a, b, j) /\ Content(a, b, j) = s.blocks[b][j]
  <2>1. b <= old + f
    OBVIOUS
  <2>2. a.blocks = blocks
    BY <1>15
  <2> QED BY <1>14, <2>1, <2>2 DEF IsFixed, Content
<1>18. ASSUME NEW c \in Nat, NEW j \in 1 .. Rate
       PROVE  /\ IsFixed(a, old + c + 1, j) <=> c * Rate + j <= n
              /\ IsFixed(a, old + c + 1, j) => Content(a, old + c + 1, j) = all[c * Rate + j]
  <2>1. PICK x \in Nat : /\ x = c * Rate /\ (c <= f => x <= w) /\ (f <= c => w <= x)
                         /\ (c < f => x + Rate <= w) /\ (f < c => w + Rate <= x)
    BY <1>6, InOrder
  <2>2. a.blocks = blocks /\ a.open = part
    BY <1>15
  <2>3. CASE c < f
    <3>1. old + c + 1 <= old + f /\ c + 1 \in 1 .. f /\ x + j <= n
      BY <1>6, <2>1, <2>3, CallAssumption
    <3>2. IsFixed(a, old + c + 1, j)
      BY <1>14, <2>2, <3>1 DEF IsFixed
    <3>3. Content(a, old + c + 1, j) = blocks[old + c + 1][j]
      BY <1>14, <2>2, <3>1 DEF Content
    <3>4. PICK d \in 1 .. f : d = c + 1 /\ d - 1 = c /\ old + d = old + c + 1
      <4>1. c + 1 - 1 = c /\ old + (c + 1) = old + c + 1
        OBVIOUS
      <4> QED BY <3>1, <4>1
    <3>5. blocks[old + c + 1] = SubSeq(all, (d - 1) * Rate + 1, d * Rate)
      <4>1. blocks[old + d] = more[d]
        BY <1>14
      <4> QED BY <1>7, <3>4, <4>1
    <3>6. d * Rate = x + Rate
      BY <2>1, <3>4, Times
    <3>7. PICK lo \in Nat, hi \in Nat : /\ lo = x + 1 /\ hi = x + Rate /\ lo >= 1 /\ hi <= Len(all)
                                        /\ lo <= hi + 1 /\ hi - lo + 1 = Rate
      <4>1. x + 1 \in Nat /\ x + Rate \in Nat /\ x + 1 >= 1 /\ x + Rate <= n
            /\ x + 1 <= x + Rate + 1 /\ (x + Rate) - (x + 1) + 1 = Rate
        BY <1>6, <2>1, <2>3, CallAssumption
      <4> QED BY <1>4, <4>1
    <3>8. \A i \in 1 .. hi - lo + 1 : SubSeq(all, lo, hi)[i] = all[lo + i - 1]
      BY <1>3, <3>7, SeqPart
    <3>9. lo + j - 1 = x + j
      BY <3>7
    <3>10. blocks[old + c + 1] = SubSeq(all, lo, hi)
      BY <2>1, <3>4, <3>5, <3>6, <3>7
    <3>11. SubSeq(all, lo, hi)[j] = all[x + j]
      BY <3>7, <3>8, <3>9
    <3> QED BY <2>1, <3>1, <3>2, <3>3, <3>10, <3>11
  <2>4. CASE c = f
    <3>1. x = w /\ ~(old + c + 1 <= old + f) /\ old + c + 1 = (old + f) + 1
      BY <1>6, <2>1, <2>4
    <3>2. IsFixed(a, old + c + 1, j) <=> j <= p
      BY <1>12, <1>14, <2>2, <3>1 DEF IsFixed
    <3>3. j <= p <=> x + j <= n
      BY <1>11, <3>1
    <3>4. Content(a, old + c + 1, j) = part[j]
      BY <1>14, <2>2, <3>1 DEF Content
    <3>5. j <= p => part[j] = all[x + j]
      BY <1>12, <3>1
    <3> QED BY <2>1, <3>2, <3>3, <3>4, <3>5
  <2>5. CASE f < c
    <3>1. ~(old + c + 1 <= old + f) /\ old + c + 1 # (old + f) + 1
      BY <2>5
    <3>2. ~IsFixed(a, old + c + 1, j)
      BY <1>14, <2>2, <3>1 DEF IsFixed
    <3>3. ~(x + j <= n)
      BY <1>6, <2>1, <2>5, CallAssumption
    <3> QED BY <2>1, <3>2, <3>3
  <2> QED BY <2>3, <2>4, <2>5
<1>19. Extends(a, s, all, old)
  BY <1>4, <1>17, <1>18 DEF Extends
<1> QED BY <1>1, <1>2, <1>15, <1>16, <1>19

\* The places of an element in what a sponge has taken in: a block, and a lane in it
Blocks == Nat \ {0}
Lane == 1 .. Rate

\* Whatever sponge a allows, s allows as well.
Narrows(s, before, a, after) ==
  \A b \in Blocks, j \in Lane : \A x : Allows(a, after, b, j, x) => Allows(s, before, b, j, x)

\* From sponge to sponge less is allowed.
LEMMA NarrowsOn ==
  ASSUME NEW s, NEW p, NEW a, NEW q, NEW c, NEW r, Narrows(s, p, a, q), Narrows(a, q, c, r)
  PROVE  Narrows(s, p, c, r)
  BY DEF Narrows

\* What is fresh from a place on is fresh from every earlier one on.
LEMMA FreshLater ==
  ASSUME NEW p \in Int, NEW q \in Int, p <= q, NEW x, Fresh(x, q) PROVE Fresh(x, p)
<1>1. ASSUME "number" \notin DOMAIN x PROVE Place(x) \in Int /\ p <= Place(x)
  <2>1. PICK i \in Int : i = Place(x) /\ q <= i
    BY <1>1 DEF Fresh
  <2>2. p <= i
    BY <2>1
  <2> QED BY <2>1, <2>2
<1> QED BY <1>1 DEF Fresh

\* Less is allowed from a later place on.
LEMMA NarrowsEarlier ==
  ASSUME NEW s, NEW p \in Int, NEW q \in Int, p <= q PROVE Narrows(s, p, s, q)
  BY FreshLater DEF Narrows, Allows

\* A number is always fresh.
LEMMA NumbersFresh == ASSUME NEW n, NEW at PROVE Fresh(Number(n), at)
<1>1. "number" \in DOMAIN Number(n)
  BY DEF Number
<1> QED BY <1>1 DEF Fresh

\* To absorb what is fresh changes nothing that was put in.
LEMMA AbsorbNarrows ==
  ASSUME NEW s, Laid(s), NEW at, NEW e, IsSeq(e), \A i \in 1 .. Len(e) : Fresh(e[i], at)
  PROVE  Laid(S!Absorb(s, e)) /\ Narrows(s, at, S!Absorb(s, e), at)
<1>1. CASE e = <<>>
  <2>1. S!Absorb(s, e) = s
    BY <1>1 DEF S!Absorb
  <2> QED BY <2>1 DEF Narrows
<1>2. CASE e # <<>>
  <2>0. PICK a, all : a = S!Absorb(s, e) /\ all = s.open \o e
    OBVIOUS
  <2>1. PICK old \in Nat, l \in Nat : /\ old = Len(s.blocks) /\ l = Len(s.open)
                                      /\ IsSeq(s.open) /\ l <= Rate
    <3>1. Len(s.blocks) \in Nat /\ Len(s.open) \in Nat /\ IsSeq(s.open)
      BY SeqDomain DEF Laid, SpongeOK
    <3> QED BY <3>1 DEF Laid
  <2>2. Laid(a) /\ Extends(a, s, all, old)
    BY <1>2, <2>0, <2>1, AbsorbLays
  <2>3. PICK m \in Nat : m = Len(e)
    BY SeqDomain
  <2>4. /\ Len(all) = l + m /\ \A i \in 1 .. l : all[i] = s.open[i]
        /\ \A i \in 1 .. m : all[l + i] = e[i]
    BY <2>0, <2>1, <2>3, SeqConcat
  <2>5. ASSUME NEW b \in Blocks, NEW j \in Lane, NEW x, Allows(a, at, b, j, x)
        PROVE  Allows(s, at, b, j, x)
    <3>1. CASE b <= old
      <4>1. b \in 1 .. old
        BY <3>1 DEF Blocks
      <4>2. x = s.blocks[b][j]
        BY <2>2, <2>5, <4>1 DEF Allows, Lane, Extends
      <4>3. IsFixed(s, b, j) /\ Content(s, b, j) = s.blocks[b][j]
        BY <2>1, <3>1 DEF IsFixed, Content
      <4> QED BY <4>2, <4>3 DEF Allows
    <3>2. CASE b > old
      <4>1. PICK c \in Nat : b = old + c + 1 /\ (c = 0 <=> b = old + 1)
        <5>1. b - old - 1 \in Nat /\ b = old + (b - old - 1) + 1 /\ (b - old - 1 = 0 <=> b = old + 1)
          BY <3>2 DEF Blocks
        <5> QED BY <5>1
      <4>2. PICK y \in Nat : y = c * Rate /\ (c = 0 => y = 0) /\ (c > 0 => Rate <= y)
        <5>1. c * Rate \in Nat /\ (c = 0 => c * Rate = 0)
          BY Times, CallAssumption
        <5>2. c > 0 => Rate <= c * Rate
          <6>1. 0 < c => 0 * Rate + Rate <= c * Rate
            BY InOrder
          <6>2. 0 * Rate + Rate = Rate
            BY CallAssumption
          <6> QED BY <6>1, <6>2
        <5> QED BY <5>1, <5>2
      <4>3. j \in Nat /\ j >= 1 /\ j <= Rate
        BY CallAssumption DEF Lane
      <4>4. /\ IsFixed(a, b, j) <=> y + j <= l + m
            /\ IsFixed(a, b, j) => Content(a, b, j) = all[y + j]
        BY <2>2, <2>4, <4>1, <4>2 DEF Lane, Extends
      <4>5. IsFixed(s, b, j) <=> c = 0 /\ j <= l
        BY <2>1, <3>2, <4>1 DEF IsFixed
      <4>6. CASE c = 0 /\ j <= l
        <5>1. y + j = j /\ j \in 1 .. l /\ y + j <= l + m
          BY <4>2, <4>3, <4>6
        <5>2. x = all[j]
          BY <2>5, <4>4, <5>1 DEF Allows
        <5>3. Content(s, b, j) = s.open[j]
          <6>1. ~(b <= old)
            BY <3>2 DEF Blocks
          <6> QED BY <2>1, <6>1 DEF Content
        <5> QED BY <2>4, <4>5, <4>6, <5>1, <5>2, <5>3 DEF Allows
      <4>7. CASE ~(c = 0 /\ j <= l)
        <5>1. y + j > l
          <6>1. CASE c = 0
            BY <4>2, <4>3, <4>7, <6>1
          <6>2. CASE c > 0
            <7>1. Rate \in Nat /\ l <= Rate /\ Rate <= y
              BY <2>1, <4>2, <6>2, CallAssumption
            <7> QED BY <4>3, <7>1
          <6> QED BY <6>1, <6>2
        <5>2. Fresh(x, at)
          <6>1. CASE y + j <= l + m
            <7>1. PICK i \in 1 .. m : y + j = l + i
              <8>1. (y + j) - l \in 1 .. m /\ y + j = l + ((y + j) - l)
                BY <4>3, <5>1, <6>1
              <8> QED BY <8>1
            <7>2. x = e[i]
              BY <2>4, <2>5, <4>4, <6>1, <7>1 DEF Allows
            <7> QED BY <2>3, <7>2
          <6>2. CASE ~(y + j <= l + m)
            BY <2>5, <4>4, <6>2 DEF Allows
          <6> QED BY <6>1, <6>2
        <5> QED BY <4>5, <4>7, <5>2 DEF Allows
      <4> QED BY <4>6, <4>7
    <3> QED BY <2>1, <3>1, <3>2 DEF Blocks
  <2> QED BY <2>0, <2>2, <2>5 DEF Narrows
<1> QED BY <1>1, <1>2

\* Every element that is absorbed is put in somewhere, and where does not depend on what it is.
LEMMA AbsorbPuts ==
  ASSUME NEW s, Laid(s), NEW k \in Nat \ {0}
  PROVE  \E b \in Blocks, j \in Lane :
           /\ ~IsFixed(s, b, j)
           /\ s.open = <<>> /\ k = 1 => b = Len(s.blocks) + 1 /\ j = 1
           /\ \A e : IsSeq(e) /\ k <= Len(e) =>
                IsFixed(S!Absorb(s, e), b, j) /\ Content(S!Absorb(s, e), b, j) = e[k]
<1>1. PICK old \in Nat, l \in Nat : /\ old = Len(s.blocks) /\ l = Len(s.open)
                                    /\ IsSeq(s.open) /\ l <= Rate
  <2>1. Len(s.blocks) \in Nat /\ Len(s.open) \in Nat /\ IsSeq(s.open)
    BY SeqDomain DEF Laid, SpongeOK
  <2> QED BY <2>1 DEF Laid
<1>2. PICK n \in Nat : n = l + k - 1 /\ n + 1 = l + k
  <2>1. l + k - 1 \in Nat /\ (l + k - 1) + 1 = l + k
    OBVIOUS
  <2> QED BY <2>1
<1>3. PICK c, r : c = n \div Rate /\ r = n % Rate
  OBVIOUS
<1>4. c \in Nat /\ r \in 0 .. Rate - 1 /\ n = c * Rate + r
  BY <1>3, Divided
<1>5. PICK y \in Nat : y = c * Rate /\ (c = 0 => y = 0) /\ (c > 0 => Rate <= y)
  <2>1. c * Rate \in Nat /\ (c = 0 => c * Rate = 0)
    BY <1>4, Times, CallAssumption
  <2>2. c > 0 => Rate <= c * Rate
    <3>1. 0 < c => 0 * Rate + Rate <= c * Rate
      BY <1>4, InOrder
    <3>2. 0 * Rate + Rate = Rate
      BY CallAssumption
    <3> QED BY <1>4, <3>1, <3>2
  <2> QED BY <2>1, <2>2
<1>6. PICK j \in Nat, b \in Nat : j = r + 1 /\ b = old + c + 1 /\ j \in Lane /\ b \in Blocks
  <2>1. r + 1 \in Nat /\ old + c + 1 \in Nat /\ r + 1 \in Lane /\ old + c + 1 \in Blocks
    BY <1>4, CallAssumption DEF Lane, Blocks
  <2> QED BY <2>1
<1>7. y + j = l + k
  BY <1>2, <1>4, <1>5, <1>6
<1>8. ~IsFixed(s, b, j)
  <2>1. ~(b <= old)
    BY <1>4, <1>6
  <2>2. b = old + 1 => j > l
    <3> SUFFICES ASSUME b = old + 1 PROVE j > l
      OBVIOUS
    <3>1. c = 0
      BY <1>4, <1>6
    <3> QED BY <1>5, <1>7, <3>1
  <2>3. b = old + 1 => ~(j <= l)
    BY <2>2
  <2> QED BY <1>1, <2>1, <2>3 DEF IsFixed
<1>9. ASSUME s.open = <<>>, k = 1 PROVE b = Len(s.blocks) + 1 /\ j = 1
  <2>1. l = 0 /\ n = 0
    BY <1>1, <1>2, <1>9, SeqEmpty
  <2>2. c = 0
    <3> SUFFICES ASSUME c # 0 PROVE FALSE
      OBVIOUS
    <3>1. c > 0
      BY <1>4
    <3> QED BY <1>4, <1>5, <2>1, <3>1, CallAssumption
  <2>3. y = 0
    BY <1>5, <2>2
  <2> QED BY <1>1, <1>6, <1>7, <1>9, <2>1, <2>2, <2>3
<1>10. ASSUME NEW e, IsSeq(e), k <= Len(e)
       PROVE  IsFixed(S!Absorb(s, e), b, j) /\ Content(S!Absorb(s, e), b, j) = e[k]
  <2>1. PICK m \in Nat : m = Len(e) /\ k <= m
    BY <1>10, SeqDomain
  <2>2. e # <<>>
    <3>1. m # 0
      BY <2>1
    <3> QED BY <2>1, <3>1, SeqEmpty
  <2>3. PICK a, all : a = S!Absorb(s, e) /\ all = s.open \o e
    OBVIOUS
  <2>4. Extends(a, s, all, old)
    BY <1>1, <1>10, <2>2, <2>3, AbsorbLays
  <2>5. Len(all) = l + m /\ \A i \in 1 .. m : all[l + i] = e[i]
    BY <1>1, <1>10, <2>1, <2>3, SeqConcat, SMTT(30)
  <2>6. /\ IsFixed(a, b, j) <=> y + j <= Len(all)
        /\ IsFixed(a, b, j) => Content(a, b, j) = all[y + j]
    BY <1>4, <1>5, <1>6, <2>4 DEF Lane, Extends
  <2>7. k \in 1 .. m /\ l + k <= l + m
    BY <2>1
  <2> QED BY <1>7, <2>3, <2>5, <2>6, <2>7
<1> QED BY <1>6, <1>8, <1>9, <1>10

\* A permuted state has all that was put in, and nothing but what the sponge allows.
Spells(st, s, at) ==
  /\ IsSeq(st)
  /\ \A b \in Blocks, j \in Lane : IsFixed(s, b, j) => b <= Len(st)
  /\ \A b \in 1 .. Len(st), j \in Lane : Allows(s, at, b, j, st[b][j])

\* What a squeeze starts from has the blocks of the sponge, and the open one with zeros if
\* there is one.
LEMMA ReadyBlocks ==
  ASSUME NEW s, Laid(s)
  PROVE  \/ S!Ready(s).blocks = Append(s.blocks, S!Padded(s.open))
         \/ S!Ready(s).blocks = s.blocks /\ s.open = <<>>
<1>1. s = [blocks |-> s.blocks, mode |-> s.mode, open |-> s.open, index |-> s.index]
      /\ s.mode \in {"absorbing", "squeezing"}
  BY DEF Laid, SpongeOK
<1>2. PICK more : more = Append(s.blocks, S!Padded(s.open))
  OBVIOUS
<1>3. CASE s.mode = "absorbing"
  <2>1. S!Ready(s) = [blocks |-> more, mode |-> "squeezing", open |-> <<>>, index |-> 0]
    BY <1>2, <1>3 DEF S!Ready
  <2> QED BY <1>2, <2>1
<1>4. CASE s.mode = "squeezing" /\ s.index = Rate
  <2>1. s.open = <<>>
    BY <1>4 DEF Laid
  <2>2. S!Ready(s) = [s EXCEPT !.blocks = more, !.index = 0]
    BY <1>2, <1>4, <2>1 DEF S!Ready
  <2>3. S!Ready(s) = [blocks |-> more, mode |-> s.mode, open |-> s.open, index |-> 0]
    BY <1>1, <2>2
  <2> QED BY <1>2, <2>3
<1>5. CASE s.mode = "squeezing" /\ s.index # Rate
  <2>1. S!Ready(s) = s /\ s.open = <<>>
    BY <1>5 DEF S!Ready, Laid
  <2> QED BY <2>1
<1> QED BY <1>1, <1>3, <1>4, <1>5

\* A permuted state spells what the sponge has taken in.
LEMMA StateSpells ==
  ASSUME NEW s, Laid(s), NEW at, NEW m \in Nat
  PROVE  Spells(S!Permuted(S!Ready(s), m), s, at)
<1>1. PICK r, pads, st : /\ r = S!Ready(s) /\ pads = [b \in 1 .. m |-> S!Padded(<<>>)]
                         /\ st = r.blocks \o pads /\ st = S!Permuted(r, m)
  BY DEF S!Permuted
<1>2. IsSeq(r.blocks) /\ IsSeq(s.blocks) /\ IsSeq(s.open) /\ Len(s.open) <= Rate
  BY <1>1, ReadyOK DEF Laid, SpongeOK
<1>3. PICK old \in Nat, l \in Nat, n \in Nat :
        old = Len(s.blocks) /\ l = Len(s.open) /\ n = Len(r.blocks)
  BY <1>2, SeqDomain
<1>4. IsSeq(pads) /\ Len(pads) = m
  <2>1. pads = [b \in 1 .. m |-> pads[b]]
    BY <1>1
  <2> QED BY <2>1, SeqOfFunction
<1>5. /\ IsSeq(st) /\ Len(st) = n + m
      /\ \A b \in 1 .. n : st[b] = r.blocks[b]
      /\ \A c \in 1 .. m : st[n + c] = pads[c]
  BY <1>1, <1>2, <1>3, <1>4, SeqConcat
<1>6. ASSUME NEW part, NEW j \in Lane
      PROVE  S!Padded(part)[j] = IF j <= Len(part) THEN part[j] ELSE Number(0)
  BY DEF S!Padded, Lane
<1>7. ASSUME NEW c \in 1 .. m, NEW j \in Lane PROVE st[n + c][j] = Number(0)
  <2>0. PICK none : none = <<>> /\ Len(none) = 0
    BY SeqEmpty
  <2>1. st[n + c] = S!Padded(none)
    BY <1>1, <1>5, <2>0
  <2>2. ~(j <= Len(none))
    BY <2>0, CallAssumption DEF Lane
  <2> QED BY <1>6, <2>1, <2>2, Zenon
<1>8. \/ n = old + 1 /\ r.blocks = Append(s.blocks, S!Padded(s.open))
      \/ n = old /\ r.blocks = s.blocks /\ l = 0
  <2>1. Len(Append(s.blocks, S!Padded(s.open))) = old + 1
    BY <1>2, <1>3, SeqAppend
  <2> QED BY <1>1, <1>3, <2>1, ReadyBlocks, SeqEmpty
<1>9. \A b \in 1 .. old : r.blocks[b] = s.blocks[b]
  BY <1>2, <1>3, <1>8, SeqAppend
<1>10. n = old + 1 => r.blocks[old + 1] = S!Padded(s.open)
  BY <1>2, <1>3, <1>8, SeqAppend
<1>11. ASSUME NEW b \in Blocks, NEW j \in Lane, IsFixed(s, b, j) PROVE b <= n + m
  <2>1. j >= 1 /\ (b <= old \/ (b = old + 1 /\ j <= l))
    BY <1>3, <1>11, CallAssumption DEF IsFixed, Lane
  <2>2. l = 0 => ~(j <= l)
    BY <2>1, CallAssumption DEF Lane
  <2> QED BY <1>8, <2>1, <2>2 DEF Blocks
<1>12. ASSUME NEW b \in 1 .. n + m, NEW j \in Lane PROVE Allows(s, at, b, j, st[b][j])
  <2>1. CASE b <= old
    <3>1. b \in 1 .. old /\ b \in 1 .. n
      BY <1>8, <2>1
    <3>2. st[b][j] = s.blocks[b][j]
      BY <1>5, <1>9, <3>1
    <3> QED BY <1>3, <2>1, <3>2 DEF Allows, IsFixed, Content
  <2>2. CASE b = old + 1 /\ n = old + 1
    <3>1. b \in 1 .. n /\ ~(b <= old)
      BY <2>2
    <3>2. st[b][j] = S!Padded(s.open)[j]
      BY <1>5, <1>10, <2>2, <3>1
    <3>3. st[b][j] = IF j <= l THEN s.open[j] ELSE Number(0)
      <4>1. S!Padded(s.open)[j] = IF j <= Len(s.open) THEN s.open[j] ELSE Number(0)
        BY <1>6
      <4> QED BY <1>3, <3>2, <4>1, Zenon
    <3>4. Fresh(Number(0), at)
      BY NumbersFresh
    <3> QED BY <1>3, <2>2, <3>1, <3>3, <3>4 DEF Allows, IsFixed, Content
  <2>3. CASE b > n
    <3>1. PICK c \in 1 .. m : b = n + c
      <4>1. b - n \in 1 .. m /\ b = n + (b - n)
        BY <2>3
      <4> QED BY <4>1
    <3>2. st[b][j] = Number(0)
      BY <1>7, <3>1
    <3>3. ~IsFixed(s, b, j)
      <4>1. ~(b <= old)
        BY <1>8, <2>3
      <4>2. b = old + 1 => ~(j <= l)
        BY <1>8, <2>3, CallAssumption DEF Lane
      <4> QED BY <1>3, <4>1, <4>2 DEF IsFixed
    <3> QED BY <3>2, <3>3, NumbersFresh DEF Allows
  <2>4. b <= old \/ (b = old + 1 /\ n = old + 1) \/ b > n
    BY <1>8
  <2> QED BY <2>1, <2>2, <2>3, <2>4
<1> QED BY <1>1, <1>5, <1>11, <1>12 DEF Spells

\* To squeeze changes nothing that was put in.
LEMMA SqueezeNarrows ==
  ASSUME NEW s, Laid(s), NEW at, NEW n \in Nat
  PROVE  Laid(S!Squeeze(s, n)) /\ S!Squeeze(s, n).open = <<>> /\ Narrows(s, at, S!Squeeze(s, n), at)
<1>0. SpongeOK(s)
  BY DEF Laid
<1>1. PICK r : r = S!Ready(s)
  OBVIOUS
<1>2. /\ r = [blocks |-> r.blocks, mode |-> r.mode, open |-> r.open, index |-> r.index]
      /\ r.mode = "squeezing" /\ r.index \in Nat
  BY <1>0, <1>1, ReadyOK, CallAssumption DEF SpongeOK
<1>3. r.open = <<>>
  <2>1. CASE s.mode = "absorbing"
    BY <1>1, <2>1 DEF S!Ready
  <2>2. CASE s.mode # "absorbing"
    <3>1. /\ s.open = <<>>
          /\ s = [blocks |-> s.blocks, mode |-> s.mode, open |-> s.open, index |-> s.index]
      BY <2>2 DEF Laid, SpongeOK
    <3>2. PICK more : more = Append(s.blocks, S!Padded(<<>>))
      OBVIOUS
    <3>3. r = s \/ r = [s EXCEPT !.blocks = more, !.index = 0]
      BY <1>1, <2>2, <3>2 DEF S!Ready
    <3>4. [s EXCEPT !.blocks = more, !.index = 0].open = s.open
      BY <3>1
    <3> QED BY <3>1, <3>3, <3>4
  <2> QED BY <2>1, <2>2
<1>4. PICK times \in Nat : times = IF n = 0 THEN 0 ELSE (r.index + n - 1) \div Rate
  <2>1. n # 0 => r.index + n - 1 \in Nat
    BY <1>2
  <2>2. n # 0 => (r.index + n - 1) \div Rate \in Nat
    BY <2>1, Divided
  <2> QED BY <2>2
<1>5. PICK st, last : st = S!Permuted(r, times) /\ last = r.index + n - times * Rate
  OBVIOUS
<1>6. PICK a : /\ a = S!Squeeze(s, n)
               /\ a = [blocks |-> st, mode |-> "squeezing", open |-> <<>>, index |-> last]
  <2>1. S!Squeeze(s, n) = [r EXCEPT !.blocks = st, !.index = last]
    BY <1>1, <1>4, <1>5 DEF S!Squeeze
  <2>2. PICK w : w = [r EXCEPT !.blocks = st, !.index = last]
    OBVIOUS
  <2>3. w = [blocks |-> st, mode |-> r.mode, open |-> r.open, index |-> last]
    BY <1>2, <2>2
  <2> QED BY <1>2, <1>3, <2>1, <2>2, <2>3
<1>7. Spells(st, s, at)
  BY <1>1, <1>5, StateSpells
<1>8. Laid(a)
  <2>1. SpongeOK(a)
    BY <1>0, <1>6, SqueezeOK
  <2> QED BY <1>6, <2>1, SeqEmpty, CallAssumption DEF Laid
<1>9. ASSUME NEW b \in Blocks, NEW j \in Lane, NEW x, Allows(a, at, b, j, x)
      PROVE  Allows(s, at, b, j, x)
  <2>1. a.blocks = st /\ a.open = <<>>
    BY <1>6
  <2>2. PICK k \in Nat : k = Len(st)
    BY <1>7, SeqDomain DEF Spells
  <2>3. IsFixed(a, b, j) <=> b <= k
    <3>1. ~(j <= Len(<<>>))
      BY SeqEmpty, CallAssumption DEF Lane
    <3> QED BY <2>1, <2>2, <3>1 DEF IsFixed
  <2>4. CASE b <= k
    <3>1. x = st[b][j]
      BY <1>9, <2>1, <2>2, <2>3, <2>4 DEF Allows, Content
    <3>2. b \in 1 .. k
      BY <2>4 DEF Blocks
    <3> QED BY <1>7, <2>2, <3>1, <3>2 DEF Spells
  <2>5. CASE ~(b <= k)
    <3>1. Fresh(x, at)
      BY <1>9, <2>3, <2>5 DEF Allows
    <3>2. ~IsFixed(s, b, j)
      BY <1>7, <2>2, <2>5 DEF Spells
    <3> QED BY <3>1, <3>2 DEF Allows
  <2> QED BY <2>4, <2>5
<1> QED BY <1>6, <1>8, <1>9 DEF Narrows

\* What is squeezed is known by a state that has all that was put in, and is fresh.
LEMMA SqueezedSpell ==
  ASSUME NEW s, Laid(s), NEW at, NEW n \in Nat, NEW k \in 1 .. n
  PROVE  /\ Spells(S!Squeezed(s, n)[k].state, s, at)
         /\ "number" \notin DOMAIN S!Squeezed(s, n)[k] /\ "of" \notin DOMAIN S!Squeezed(s, n)[k]
         /\ Place(S!Squeezed(s, n)[k]) = NextPlace(s) + (k - 1)
         /\ Fresh(S!Squeezed(s, n)[k], NextPlace(s))
<1>0. SpongeOK(s)
  BY DEF Laid
<1>1. PICK r : r = S!Ready(s) /\ r.index \in Nat
  BY <1>0, ReadyOK, CallAssumption
<1>2. PICK a \in Nat : a = r.index + k - 1
  <2>1. r.index + k - 1 \in Nat
    BY <1>1
  <2> QED BY <2>1
<1>3. PICK q : q = a \div Rate /\ q \in Nat
  BY Divided
<1>4. PICK lane : lane = a % Rate
  OBVIOUS
<1>5. PICK x : x = S!Squeezed(s, n)[k] /\ x = [state |-> S!Permuted(r, q), lane |-> lane]
  <2>1. S!Squeezed(s, n)[k] = [state |-> S!Permuted(r, q), lane |-> lane]
    BY <1>1, <1>2, <1>3, <1>4 DEF S!Squeezed
  <2> QED BY <2>1
<1>6. "number" \notin DOMAIN x /\ "of" \notin DOMAIN x
  BY <1>5
<1>7. Spells(x.state, s, at)
  <2>1. Spells(S!Permuted(r, q), s, at)
    BY <1>1, <1>3, StateSpells
  <2> QED BY <1>5, <2>1
<1>8. Place(x) = NextPlace(s) + (k - 1)
  BY <1>0, <1>5, SqueezedPlaces
<1>9. Fresh(x, NextPlace(s))
  <2>1. PICK p \in Nat : p = NextPlace(s)
    BY <1>0, PlaceIsNumber
  <2>2. p + (k - 1) \in Int /\ p <= p + (k - 1)
    OBVIOUS
  <2> QED BY <1>8, <2>1, <2>2 DEF Fresh
<1> QED BY <1>5, <1>6, <1>7, <1>8, <1>9

-----------------------------------------------------------------------------
(***************************************************************************)
(* Sponges that are apart                                                  *)
(***************************************************************************)
\* Nothing that is or may be put in one sponge at some place may be there in the other.
Apart(s, u) ==
  \E b \in Blocks, j \in Lane : \A x :
    ~(Allows(s, NextPlace(s), b, j, x) /\ Allows(u, NextPlace(u), b, j, x))

\* Sponge a has all that s has, and allows no more.
Grown(s, a) == Narrows(s, NextPlace(s), a, NextPlace(a))

\* No sponge is apart from itself.
LEMMA ApartFromItself == ASSUME NEW s PROVE ~Apart(s, s)
<1> SUFFICES ASSUME NEW b \in Blocks, NEW j \in Lane PROVE \E x : Allows(s, NextPlace(s), b, j, x)
  BY DEF Apart
<1>1. CASE IsFixed(s, b, j)
  BY <1>1 DEF Allows
<1>2. CASE ~IsFixed(s, b, j)
  BY <1>2, NumbersFresh DEF Allows
<1> QED BY <1>1, <1>2

\* Being apart goes both ways.
LEMMA ApartEitherWay == ASSUME NEW s, NEW u, Apart(s, u) PROVE Apart(u, s)
  BY DEF Apart

\* Sponges that are apart stay apart, whatever is put in later.
LEMMA StayApart ==
  ASSUME NEW s, NEW u, Apart(s, u), NEW a, NEW w, Grown(s, a), Grown(u, w) PROVE Apart(a, w)
<1>1. PICK b \in Blocks, j \in Lane :
        \A x : ~(Allows(s, NextPlace(s), b, j, x) /\ Allows(u, NextPlace(u), b, j, x))
  BY DEF Apart
<1>2. \A x : ~(Allows(a, NextPlace(a), b, j, x) /\ Allows(w, NextPlace(w), b, j, x))
  BY <1>1 DEF Grown, Narrows
<1> QED BY <1>2 DEF Apart

\* From sponge to sponge it only grows.
LEMMA GrowsOn == ASSUME NEW s, NEW a, NEW c, Grown(s, a), Grown(a, c) PROVE Grown(s, c)
  BY NarrowsOn DEF Grown

\* A sponge that is left alone has grown by nothing.
LEMMA GrowsNot == ASSUME NEW s PROVE Grown(s, s)
  BY DEF Grown, Narrows

\* Absorbing numbers grows a sponge.
LEMMA NumbersGrow ==
  ASSUME NEW s, Laid(s), NEW e, IsSeq(e), \A i \in 1 .. Len(e) : "number" \in DOMAIN e[i]
  PROVE  Laid(S!Absorb(s, e)) /\ Grown(s, S!Absorb(s, e))
<1>1. PICK a, p : a = S!Absorb(s, e) /\ p = NextPlace(s)
  OBVIOUS
<1>2. \A i \in 1 .. Len(e) : Fresh(e[i], p)
  BY DEF Fresh
<1>3. Laid(a) /\ Narrows(s, p, a, p)
  BY <1>1, <1>2, AbsorbNarrows
<1>4. NextPlace(s) <= NextPlace(a) /\ NextPlace(s) \in Nat /\ NextPlace(a) \in Nat
  BY <1>1, <1>3, AbsorbOK, PlaceIsNumber DEF Laid
<1>5. Narrows(a, p, a, NextPlace(a))
  BY <1>1, <1>4, NarrowsEarlier
<1>6. Narrows(s, p, a, NextPlace(a))
  BY <1>3, <1>5, NarrowsOn
<1> QED BY <1>1, <1>3, <1>6 DEF Grown

\* So does squeezing it.
LEMMA SqueezeGrows ==
  ASSUME NEW s, Laid(s), NEW n \in Nat
  PROVE  Laid(S!Squeeze(s, n)) /\ Grown(s, S!Squeeze(s, n))
<1>1. PICK a, p : a = S!Squeeze(s, n) /\ p = NextPlace(s)
  OBVIOUS
<1>2. Laid(a) /\ Narrows(s, p, a, p)
  BY <1>1, SqueezeNarrows
<1>3. NextPlace(a) = p + n /\ p \in Nat /\ p <= p + n
  BY <1>1, SqueezeOK, PlaceIsNumber DEF Laid
<1>4. p + n \in Int
  BY <1>3
<1>5. Narrows(a, p, a, p + n)
  BY <1>3, <1>4, NarrowsEarlier
<1>6. Narrows(s, p, a, p + n)
  BY <1>2, <1>5, NarrowsOn
<1> QED BY <1>1, <1>2, <1>3, <1>6 DEF Grown

\* What a sponge has answered may be absorbed again: it is fresh as seen from before.
LEMMA ChallengeGrows ==
  ASSUME NEW s, Laid(s), NEW n \in Nat
  PROVE  LET a == S!Absorb(S!Squeeze(s, n), S!Squeezed(s, n)) IN Laid(a) /\ Grown(s, a)
<1>1. PICK q, e, p, a : /\ q = S!Squeeze(s, n) /\ e = S!Squeezed(s, n) /\ p = NextPlace(s)
                        /\ a = S!Absorb(q, e)
  OBVIOUS
<1>2. Laid(q) /\ Narrows(s, p, q, p)
  BY <1>1, SqueezeNarrows
<1>3. IsSeq(e) /\ Len(e) = n
  BY <1>1, SqueezedPlaces DEF Laid
<1>4. \A i \in 1 .. Len(e) : Fresh(e[i], p)
  BY <1>1, <1>3, SqueezedSpell
<1>5. Laid(a) /\ Narrows(q, p, a, p)
  BY <1>1, <1>2, <1>3, <1>4, AbsorbNarrows
<1>6. p \in Int /\ NextPlace(a) \in Int /\ p <= NextPlace(a)
  <2>1. p \in Nat /\ NextPlace(q) = p + n
    BY <1>1, SqueezeOK, PlaceIsNumber DEF Laid
  <2>2. NextPlace(q) <= NextPlace(a)
    BY <1>1, <1>2, <1>3, AbsorbOK DEF Laid
  <2>3. PICK z \in Nat : z = NextPlace(a)
    BY <1>5, PlaceIsNumber DEF Laid
  <2>4. p <= z
    BY <2>1, <2>2, <2>3
  <2> QED BY <2>1, <2>3, <2>4
<1>7. Narrows(a, p, a, NextPlace(a))
  BY <1>6, NarrowsEarlier
<1>8. Narrows(s, p, a, NextPlace(a))
  BY <1>2, <1>5, <1>7, NarrowsOn
<1> QED BY <1>1, <1>5, <1>8 DEF Grown

\* Once two sponges have absorbed something different, they are apart.
LEMMA InputsPartThem ==
  ASSUME NEW s, Laid(s), NEW e, IsSeq(e), NEW g, IsSeq(g),
         NEW i \in Nat \ {0}, i <= Len(e), i <= Len(g), e[i] # g[i]
  PROVE  Apart(S!Absorb(s, e), S!Absorb(s, g))
<1>1. PICK b \in Blocks, j \in Lane :
         \A f : IsSeq(f) /\ i <= Len(f) =>
                IsFixed(S!Absorb(s, f), b, j) /\ Content(S!Absorb(s, f), b, j) = f[i]
  BY AbsorbPuts
<1>2. IsFixed(S!Absorb(s, e), b, j) /\ Content(S!Absorb(s, e), b, j) = e[i]
  BY <1>1
<1>3. IsFixed(S!Absorb(s, g), b, j) /\ Content(S!Absorb(s, g), b, j) = g[i]
  BY <1>1
<1>4. ASSUME NEW x, NEW p, NEW q, Allows(S!Absorb(s, e), p, b, j, x), Allows(S!Absorb(s, g), q, b, j, x)
      PROVE  FALSE
  BY <1>2, <1>3, <1>4 DEF Allows
<1> QED BY <1>4 DEF Apart

\* So they are once one of them, but not the other, has absorbed what both have answered.
LEMMA ChallengePartsThem ==
  ASSUME NEW s, Laid(s), NEW n \in Nat \ {0}
  PROVE  Apart(S!Squeeze(s, n), S!Absorb(S!Squeeze(s, n), S!Squeezed(s, n)))
<1>1. PICK q, e, a : q = S!Squeeze(s, n) /\ e = S!Squeezed(s, n) /\ a = S!Absorb(q, e)
  OBVIOUS
<1>2. Laid(q)
  BY <1>1, SqueezeNarrows
<1>3. IsSeq(e) /\ Len(e) = n
  BY <1>1, SqueezedPlaces DEF Laid
<1>4. 1 \in Nat \ {0} /\ 1 <= n /\ 1 \in 1 .. n
  OBVIOUS
<1>5. PICK b \in Blocks, j \in Lane : /\ ~IsFixed(q, b, j)
                                      /\ IsFixed(a, b, j) /\ Content(a, b, j) = e[1]
  <2>1. \E b \in Blocks, j \in Lane :
           /\ ~IsFixed(q, b, j)
           /\ \A f : IsSeq(f) /\ 1 <= Len(f) =>
                IsFixed(S!Absorb(q, f), b, j) /\ Content(S!Absorb(q, f), b, j) = f[1]
    BY <1>2, <1>4, AbsorbPuts
  <2> QED BY <1>1, <1>3, <1>4, <2>1
<1>6. PICK p \in Nat : p = NextPlace(s) /\ NextPlace(q) = p + n
  BY <1>1, SqueezeOK, PlaceIsNumber DEF Laid
<1>7. "number" \notin DOMAIN e[1] /\ Place(e[1]) = p
  <2>1. Place(e[1]) = p + (1 - 1) /\ "number" \notin DOMAIN e[1]
    BY <1>1, <1>4, <1>6, SqueezedSpell
  <2> QED BY <2>1
<1>8. ~Fresh(e[1], p + n)
  <2>1. ~(p + n <= p)
    OBVIOUS
  <2> QED BY <1>7, <2>1 DEF Fresh
<1>9. ASSUME NEW x, Allows(q, NextPlace(q), b, j, x), Allows(a, NextPlace(a), b, j, x) PROVE FALSE
  <2>1. Fresh(x, p + n)
    BY <1>5, <1>6, <1>9 DEF Allows
  <2>2. x = e[1]
    BY <1>5, <1>9 DEF Allows
  <2> QED BY <1>8, <2>1, <2>2
<1> QED BY <1>1, <1>9 DEF Apart

\* Sponges that are apart never come to the same state.
LEMMA StatesDiffer ==
  ASSUME NEW s, NEW u, Apart(s, u), NEW x, Spells(x, s, NextPlace(s)), Spells(x, u, NextPlace(u))
  PROVE  FALSE
<1>1. PICK b \in Blocks, j \in Lane :
        \A y : ~(Allows(s, NextPlace(s), b, j, y) /\ Allows(u, NextPlace(u), b, j, y))
  BY DEF Apart
<1>2. IsFixed(s, b, j) \/ IsFixed(u, b, j)
  BY <1>1, NumbersFresh DEF Allows
<1>3. b \in 1 .. Len(x)
  <2>1. b <= Len(x) /\ Len(x) \in Nat
    BY <1>2, SeqDomain DEF Spells
  <2> QED BY <2>1 DEF Blocks
<1> QED BY <1>1, <1>3 DEF Spells

\* Sponges that are apart squeeze no element in common.
LEMMA ElementsDiffer ==
  ASSUME NEW s, Laid(s), NEW u, Laid(u), Apart(s, u), NEW m \in Nat, NEW n \in Nat,
         NEW i \in 1 .. m, NEW k \in 1 .. n
  PROVE  S!Squeezed(s, m)[i] # S!Squeezed(u, n)[k]
<1> SUFFICES ASSUME S!Squeezed(s, m)[i] = S!Squeezed(u, n)[k] PROVE FALSE
  OBVIOUS
<1>1. PICK x : x = S!Squeezed(s, m)[i] /\ x = S!Squeezed(u, n)[k]
  OBVIOUS
<1>2. Spells(x.state, s, NextPlace(s))
  BY <1>1, SqueezedSpell
<1>3. Spells(x.state, u, NextPlace(u))
  BY <1>1, SqueezedSpell
<1> QED BY <1>2, <1>3, StatesDiffer

\* Nor do they give an answer in common, in elements or in bits.
LEMMA AnswersDiffer ==
  ASSUME NEW s, Laid(s), NEW u, Laid(u), Apart(s, u), NEW x, NEW y,
         x.size \in Nat, y.size \in Nat,
         NEW i \in DOMAIN Whole(S!Squeezed(s, Count(x)), x),
         NEW k \in DOMAIN Whole(S!Squeezed(u, Count(y)), y)
  PROVE  Whole(S!Squeezed(s, Count(x)), x)[i] # Whole(S!Squeezed(u, Count(y)), y)[k]
<1> DEFINE From(v, z, g, c) == IF z.op = "bits" THEN "of" \in DOMAIN v /\ v.of = g[c]
                               ELSE "of" \notin DOMAIN v /\ v = g[c]
<1>1. ASSUME NEW r, Laid(r), NEW z, z.size \in Nat, NEW d \in DOMAIN Whole(S!Squeezed(r, Count(z)), z)
      PROVE  /\ Count(z) \in Nat
             /\ \E c \in 1 .. Count(z) :
                  From(Whole(S!Squeezed(r, Count(z)), z)[d], z, S!Squeezed(r, Count(z)), c)
  <2>0. PICK size \in Nat, n \in Nat : size = z.size /\ n = Count(z)
    BY <1>1, SourcesAreNumber DEF Count
  <2>1. PICK g, w : g = S!Squeezed(r, n) /\ w = Whole(g, z) /\ IsSeq(g) /\ Len(g) = n
    BY <1>1, SqueezedPlaces DEF Laid
  <2>2. DOMAIN g = 1 .. n
    BY <2>1, SeqDomain
  <2>3. CASE z.op = "bits"
    <3>1. n = Sources(size)
      BY <2>0, <2>3 DEF Count
    <3>2. w = [k2 \in 1 .. size |->
                  [of |-> g[(k2 - 1) \div UsableBits + 1], bit |-> (k2 - 1) % UsableBits]]
      BY <2>0, <2>1, <2>3 DEF Whole, ToBits
    <3>3. d \in 1 .. size
      BY <1>1, <2>0, <2>1, <3>2
    <3>4. PICK c : c = (d - 1) \div UsableBits + 1 /\ c \in 1 .. n
      BY <3>1, <3>3, SourceOf
    <3>5. PICK bit : w[d] = [of |-> g[c], bit |-> bit]
      BY <3>2, <3>3, <3>4
    <3>6. From(w[d], z, g, c)
      BY <2>3, <3>5
    <3> HIDE DEF From
    <3> QED BY <2>0, <2>1, <3>4, <3>6
  <2>4. CASE z.op # "bits"
    <3>1. w = g
      BY <2>1, <2>4 DEF Whole
    <3>2. d \in 1 .. n
      BY <1>1, <2>0, <2>1, <2>2, <3>1
    <3>3. "of" \notin DOMAIN g[d]
      BY <1>1, <2>1, <3>2, SqueezedSpell
    <3>4. From(w[d], z, g, d)
      BY <2>4, <3>1, <3>3
    <3> HIDE DEF From
    <3> QED BY <2>0, <2>1, <3>2, <3>4
  <2> QED BY <2>3, <2>4
<1>2. PICK m \in Nat, n \in Nat : m = Count(x) /\ n = Count(y)
  BY <1>1
<1>3. PICK v, z, g, h : /\ v = Whole(S!Squeezed(s, Count(x)), x)[i]
                        /\ z = Whole(S!Squeezed(u, Count(y)), y)[k]
                        /\ g = S!Squeezed(s, m) /\ h = S!Squeezed(u, n)
  OBVIOUS
<1>4. PICK c \in 1 .. m : From(v, x, g, c)
  <2> HIDE DEF From
  <2> QED BY <1>1, <1>2, <1>3
<1>5. PICK d \in 1 .. n : From(z, y, h, d)
  <2> HIDE DEF From
  <2> QED BY <1>1, <1>2, <1>3
<1>6. g[c] # h[d]
  BY <1>2, <1>3, ElementsDiffer
<1>7. v # z
  BY <1>4, <1>5, <1>6
<1> QED BY <1>3, <1>7

-----------------------------------------------------------------------------
(***************************************************************************)
(* What a call does to the sponge                                          *)
(***************************************************************************)
\* A call that puts something in, and what that is
Puts(call) ==
  \/ \E h : call = Call("new", 1, <<h>>, <<>>, <<>>)
  \/ \E d \in Domains : call = Call("separate", Len(d), d, <<>>, <<>>)
  \/ call = Call("record", 0, <<>>, <<>>, <<>>)
  \/ \E message \in Messages :
       call = Call("add", Len(Absorbed(message)), Absorbed(message), <<>>, <<>>)

\* The elements that a call puts in
Input(call) ==
  CASE call.op = "new" -> <<Number(call.arg[1])>>
    [] call.op = "separate" -> Chunks(Encoded(call.arg))
    [] call.op = "add" -> call.arg
    [] OTHER -> <<>>

\* A call that is answered by the sponge
Takes(call, s) ==
  /\ IsSqueeze(call) /\ call.size \in Nat
  /\ LET answer == Whole(S!Squeezed(s, Count(call)), call)
     IN  call = Call(call.op, call.size, <<>>, answer, answer)

\* The sponge after a challenge, which absorbs what it has squeezed
Challenged(s, n) == S!Absorb(S!Squeeze(s, n), S!Squeezed(s, n))

\* The sponge after a call
Leads(s, call, a) ==
  \/ Puts(call) /\ a = S!Absorb(s, Input(call))
  \/ Takes(call, s) /\ a \in {S!Squeeze(s, Count(call)), Challenged(s, Count(call))}

\* What a call was given
LEMMA CallArg ==
  ASSUME NEW op, NEW size, NEW arg, NEW answer, NEW answerVar
  PROVE  Call(op, size, arg, answer, answerVar).arg = arg
  BY DEF Call

\* What a call that puts something in is like, by its operation
LEMMA PutsAre ==
  ASSUME NEW call, Puts(call)
  PROVE  /\ call.answer = <<>> /\ ~IsSqueeze(call) /\ call.op # "replay"
         /\ call.op = "new" => \E h : call = Call("new", 1, <<h>>, <<>>, <<>>)
         /\ call.op = "separate" => \E d \in Domains : call = Call("separate", Len(d), d, <<>>, <<>>)
         /\ call.op = "add" => \E message \in Messages :
              call = Call("add", Len(Absorbed(message)), Absorbed(message), <<>>, <<>>)
         /\ call.op \in {"new", "separate", "add"} \/ call = Call("record", 0, <<>>, <<>>, <<>>)
<1>1. CASE \E h : call = Call("new", 1, <<h>>, <<>>, <<>>)
  <2>1. call.op = "new" /\ call.answer = <<>>
    BY <1>1, CallOfFields
  <2> QED BY <1>1, <2>1 DEF IsSqueeze
<1>2. CASE \E d \in Domains : call = Call("separate", Len(d), d, <<>>, <<>>)
  <2>1. call.op = "separate" /\ call.answer = <<>>
    BY <1>2, CallOfFields
  <2> QED BY <1>2, <2>1 DEF IsSqueeze
<1>3. CASE call = Call("record", 0, <<>>, <<>>, <<>>)
  <2>1. call.op = "record" /\ call.answer = <<>>
    BY <1>3, CallOfFields
  <2> QED BY <1>3, <2>1 DEF IsSqueeze
<1>4. CASE \E message \in Messages :
             call = Call("add", Len(Absorbed(message)), Absorbed(message), <<>>, <<>>)
  <2>1. call.op = "add" /\ call.answer = <<>>
    BY <1>4, CallOfFields
  <2> QED BY <1>4, <2>1 DEF IsSqueeze
<1> QED BY <1>1, <1>2, <1>3, <1>4 DEF Puts

\* Numbers are told from squeezed elements.
LEMMA NumberHas == ASSUME NEW n PROVE "number" \in DOMAIN Number(n)
  BY DEF Number

\* What a call puts in are numbers.
LEMMA InputNumbers ==
  ASSUME NEW call, Puts(call)
  PROVE  IsSeq(Input(call)) /\ \A i \in 1 .. Len(Input(call)) : "number" \in DOMAIN Input(call)[i]
<1>1. CASE call.op = "new"
  <2>1. PICK h : call.arg[1] = h
    OBVIOUS
  <2>2. PICK e : e = <<Number(h)>> /\ Input(call) = e
    BY <1>1, <2>1 DEF Input
  <2>3. Len(e) = 1 /\ e[1] = Number(h)
    BY <2>2
  <2>4. \A i \in 1 .. 1 : e[i] = Number(h)
    BY <2>3
  <2> QED BY <2>2, <2>3, <2>4, InputsAreSeqs, NumberHas
<1>2. CASE call.op = "separate"
  <2>1. PICK d \in Domains : call.arg = d
    BY <1>2, PutsAre, CallArg
  <2>2. PICK e, x : x = Encoded(d) /\ e = Chunks(x) /\ Input(call) = e
    BY <1>2, <2>1 DEF Input
  <2>3. IsSeq(e)
    BY <2>2, InputsAreSeqs DEF Encoded
  <2>4. \E n : DOMAIN e = 1 .. n /\ \A i \in 1 .. n : "number" \in DOMAIN e[i]
    <3>1. PICK size, n : size = UsableBits \div ByteBits /\ n = Ceil(Len(x), size)
      OBVIOUS
    <3> DEFINE to(i) == FromBytes(SubSeq(x, (i - 1) * size + 1,
                                         IF i * size < Len(x) THEN i * size ELSE Len(x)))
    <3>2. e = [i \in 1 .. n |-> Number(to(i))]
      BY <2>2, <3>1 DEF Chunks, ChunksOf
    <3> HIDE DEF to
    <3>3. DOMAIN e = 1 .. n /\ \A i \in 1 .. n : e[i] = Number(to(i))
      BY <3>2
    <3> QED BY <3>3, NumberHas
  <2>5. \A i \in DOMAIN e : "number" \in DOMAIN e[i]
    BY <2>4
  <2>6. DOMAIN e = 1 .. Len(e)
    BY <2>3, SeqDomain
  <2> QED BY <2>2, <2>3, <2>5, <2>6
<1>3. CASE call.op = "add"
  <2>1. PICK message \in Messages : call.arg = Absorbed(message)
    BY <1>3, PutsAre, CallArg
  <2>2. PICK e : e = Absorbed(message) /\ Input(call) = e /\ IsSeq(e)
    BY <1>3, <2>1, InputsAreSeqs DEF Input
  <2>3. PICK flat : flat = FlattenSeq(message) /\ e = [j \in 1 .. Len(flat) |-> Number(flat[j])]
    BY <2>2 DEF Absorbed
  <2>4. \A i \in DOMAIN e : e[i] = Number(flat[i])
    BY <2>3
  <2>5. DOMAIN e = 1 .. Len(e)
    BY <2>2, SeqDomain
  <2> QED BY <2>2, <2>4, <2>5, NumberHas
<1>4. CASE call.op \notin {"new", "separate", "add"}
  <2>1. Input(call) = <<>>
    BY <1>4 DEF Input
  <2>2. 1 .. 0 = {}
    OBVIOUS
  <2> QED BY <2>1, <2>2, SeqEmpty
<1> QED BY <1>1, <1>2, <1>3, <1>4

\* Two calls of the same kind that put in as much, or that separate, either are the same call
\* or put in something different at some place.
LEMMA InputsDiffer ==
  ASSUME NEW x, Puts(x), NEW y, Puts(y), x.op = y.op, x.size = y.size \/ x.op = "separate", x # y
  PROVE  \E i \in Nat \ {0} : i <= Len(Input(x)) /\ i <= Len(Input(y)) /\ Input(x)[i] # Input(y)[i]
<1>0. \A a, b : Number(a) = Number(b) => a = b
  <2> SUFFICES ASSUME NEW a, NEW b, Number(a) = Number(b) PROVE a = b
    OBVIOUS
  <2>1. Number(a).number = a /\ Number(b).number = b
    BY DEF Number
  <2> QED BY <2>1
<1>1. CASE x.op = "new"
  <2>0. PICK g : x = Call("new", 1, <<g>>, <<>>, <<>>)
    BY <1>1, PutsAre
  <2>1. PICK h : y = Call("new", 1, <<h>>, <<>>, <<>>)
    BY <1>1, PutsAre
  <2>2. g # h
    BY <2>0, <2>1
  <2>3. x.arg[1] = g /\ y.arg[1] = h
    <3>1. x.arg = <<g>>
      BY <2>0, CallArg
    <3>2. y.arg = <<h>>
      BY <2>1, CallArg
    <3> QED BY <3>1, <3>2
  <2>4. Input(x) = <<Number(g)>> /\ Input(y) = <<Number(h)>>
    BY <1>1, <2>3 DEF Input
  <2>5. Number(g) # Number(h)
    BY <1>0, <2>2
  <2>6. \A n : Len(<<n>>) = 1 /\ <<n>>[1] = n
    OBVIOUS
  <2>7. 1 \in Nat \ {0} /\ 1 <= 1
    OBVIOUS
  <2> QED BY <2>4, <2>5, <2>6, <2>7
<1>2. CASE x.op = "separate"
  <2>1. PICK d \in Domains : x = Call("separate", Len(d), d, <<>>, <<>>)
    BY <1>2, PutsAre
  <2>2. PICK e \in Domains : y = Call("separate", Len(e), e, <<>>, <<>>)
    BY <1>2, PutsAre
  <2>3. d # e
    BY <2>1, <2>2
  <2>4. x.arg = d /\ y.arg = e
    BY <2>1, <2>2, CallArg
  <2>5. PICK u, v : u = Chunks(Encoded(d)) /\ v = Chunks(Encoded(e)) /\ Input(x) = u /\ Input(y) = v
    BY <1>2, <2>4 DEF Input
  <2>6. PICK i \in 1 .. Len(u) : i <= Len(v) /\ u[i] # v[i]
    BY <2>3, <2>5, DomainsDiffer
  <2>7. i \in Nat \ {0} /\ i <= Len(u)
    <3>1. Len(u) \in Nat
      BY <2>5, InputNumbers, SeqDomain
    <3> QED BY <3>1
  <2> QED BY <2>5, <2>6, <2>7
<1>3. CASE x.op = "add"
  <2>1. PICK m \in Messages : x = Call("add", Len(Absorbed(m)), Absorbed(m), <<>>, <<>>)
    BY <1>3, PutsAre
  <2>2. PICK n \in Messages : y = Call("add", Len(Absorbed(n)), Absorbed(n), <<>>, <<>>)
    BY <1>3, PutsAre
  <2>3. PICK u, v : u = Absorbed(m) /\ v = Absorbed(n) /\ Input(x) = u /\ Input(y) = v
                    /\ IsSeq(u) /\ IsSeq(v)
    BY <1>3, <2>1, <2>2, CallArg, InputsAreSeqs DEF Input
  <2>4. u # v
    BY <2>1, <2>2, <2>3
  <2>5. x.size = Len(u) /\ y.size = Len(v) /\ x.size = y.size
    BY <1>3, <2>1, <2>2, <2>3, CallOfFields
  <2>6. PICK l \in Nat : l = Len(u) /\ l = Len(v)
    BY <2>3, <2>5, SeqDomain
  <2>7. PICK i \in 1 .. l : u[i] # v[i]
    BY <2>3, <2>4, <2>6, OneSeq
  <2>8. i \in Nat \ {0} /\ i <= l
    OBVIOUS
  <2> QED BY <2>3, <2>6, <2>7, <2>8
<1>4. CASE x.op \notin {"new", "separate", "add"}
  <2>1. x = Call("record", 0, <<>>, <<>>, <<>>) /\ y = Call("record", 0, <<>>, <<>>, <<>>)
    BY <1>4, PutsAre
  <2> QED BY <2>1
<1> QED BY <1>1, <1>2, <1>3, <1>4

\* A call takes a number of elements.
LEMMA CountIsNumber ==
  ASSUME NEW s, NEW call, Takes(call, s) PROVE Count(call) \in Nat
  BY SourcesAreNumber DEF Takes, Count

\* Every call grows the sponge.
LEMMA LeadsOn ==
  ASSUME NEW s, Laid(s), NEW call, NEW a, Leads(s, call, a) PROVE Laid(a) /\ Grown(s, a)
<1>1. CASE Puts(call) /\ a = S!Absorb(s, Input(call))
  BY <1>1, InputNumbers, NumbersGrow
<1>2. CASE Takes(call, s) /\ a \in {S!Squeeze(s, Count(call)), Challenged(s, Count(call))}
  <2>1. PICK n \in Nat : n = Count(call)
    BY <1>2, CountIsNumber
  <2>2. CASE a = S!Squeeze(s, n)
    BY <2>2, SqueezeGrows
  <2>3. CASE a = Challenged(s, n)
    BY <2>3, ChallengeGrows DEF Challenged
  <2> QED BY <1>2, <2>1, <2>2, <2>3
<1> QED BY <1>1, <1>2 DEF Leads

\* The same sponge answers the same.
LEMMA TakenAlike ==
  ASSUME NEW s, NEW x, Takes(x, s), NEW y, Takes(y, s), x.op = y.op, x.size = y.size
  PROVE  x = y
<1>1. Count(x) = Count(y) /\ \A g : Whole(g, x) = Whole(g, y)
  BY DEF Count, Whole
<1>2. PICK answer : /\ answer = Whole(S!Squeezed(s, Count(x)), x)
                    /\ answer = Whole(S!Squeezed(s, Count(y)), y)
  BY <1>1
<1>3. x = Call(x.op, x.size, <<>>, answer, answer)
  BY <1>2 DEF Takes
<1>4. y = Call(y.op, y.size, <<>>, answer, answer)
  BY <1>2 DEF Takes
<1> QED BY <1>3, <1>4

\* The same call from the same sponge leads to the same sponge or to two that are apart;
\* different calls of one kind lead to two that are apart.
LEMMA LeadsApart ==
  ASSUME NEW s, Laid(s), NEW x, NEW a, Leads(s, x, a), NEW y, NEW w, Leads(s, y, w),
         x.op = y.op, x.size = y.size \/ x.op = "separate"
  PROVE  (x = y /\ a = w) \/ Apart(a, w)
<1>1. CASE IsSqueeze(x)
  <2>1. IsSqueeze(y)
    BY <1>1 DEF IsSqueeze
  <2>2. Takes(x, s) /\ Takes(y, s)
    BY <1>1, <2>1, PutsAre DEF Leads
  <2>3. x.size = y.size
    BY <1>1 DEF IsSqueeze
  <2>4. x = y
    BY <2>2, <2>3, TakenAlike
  <2>5. PICK n \in Nat : n = Count(x) /\ n = Count(y)
    BY <2>2, <2>4, CountIsNumber
  <2>6. a \in {S!Squeeze(s, n), Challenged(s, n)} /\ w \in {S!Squeeze(s, n), Challenged(s, n)}
    BY <1>1, <2>1, <2>5, PutsAre DEF Leads
  <2>7. CASE n = 0
    <3>1. S!Squeezed(s, n) = <<>>
      <4>1. IsSeq(S!Squeezed(s, n)) /\ Len(S!Squeezed(s, n)) = 0
        BY <2>7, SqueezedPlaces DEF Laid
      <4>2. \A i \in 1 .. 0 : S!Squeezed(s, n)[i] = <<>>[i]
        OBVIOUS
      <4> QED BY <4>1, <4>2, SeqEmpty, OneSeq
    <3>2. Challenged(s, n) = S!Squeeze(s, n)
      BY <3>1 DEF Challenged, S!Absorb
    <3> QED BY <2>4, <2>6, <3>2
  <2>8. CASE n # 0
    <3>1. Apart(S!Squeeze(s, n), Challenged(s, n))
      BY <2>8, ChallengePartsThem DEF Challenged
    <3>2. Apart(Challenged(s, n), S!Squeeze(s, n))
      BY <3>1, ApartEitherWay
    <3> QED BY <2>4, <2>6, <3>1, <3>2
  <2> QED BY <2>7, <2>8
<1>2. CASE ~IsSqueeze(x)
  <2>1. ~IsSqueeze(y)
    BY <1>2 DEF IsSqueeze
  <2>2. Puts(x) /\ Puts(y) /\ a = S!Absorb(s, Input(x)) /\ w = S!Absorb(s, Input(y))
    BY <1>2, <2>1 DEF Leads, Takes
  <2>3. CASE x = y
    BY <2>2, <2>3
  <2>4. CASE x # y
    <3>1. PICK i \in Nat \ {0} :
            i <= Len(Input(x)) /\ i <= Len(Input(y)) /\ Input(x)[i] # Input(y)[i]
      BY <2>2, <2>4, InputsDiffer
    <3> QED BY <2>2, <3>1, InputNumbers, InputsPartThem
  <2> QED BY <2>3, <2>4
<1> QED BY <1>1, <1>2

\* No replay among the first calls
Quiet(h, k) == \A e \in 1 .. k : h[e].op # "replay"

\* The sponges that the calls lead to one after the other, up to a replay
Path(f, h) ==
  f[0] = S!NewSponge /\ \A k \in 1 .. Len(h) : Quiet(h, k) => Leads(f[k - 1], h[k], f[k])

\* A transcript has the sponge that its calls lead to.
Led(v, h) ==
  /\ v.kind \in Live <=> Quiet(h, Len(h))
  /\ \E f : Path(f, h) /\ (v.kind \in Live => f[Len(h)] = v.sponge)

\* A call that leads on from the sponge of a transcript leaves it led by its calls.
LEMMA LedMore ==
  ASSUME NEW v, NEW h, IsSeq(h), Led(v, h), NEW w, NEW call,
         \/ v.kind \in Live /\ w.kind \in Live /\ call.op # "replay" /\ Leads(v.sponge, call, w.sponge)
         \/ ~(w.kind \in Live) /\ (~(v.kind \in Live) \/ call.op = "replay")
  PROVE  Led(w, Append(h, call))
<1>1. PICK g : g = Append(h, call)
  OBVIOUS
<1>2. PICK n \in Nat : n = Len(h)
  BY SeqDomain
<1>3. Len(g) = n + 1 /\ g[n + 1] = call /\ \A i \in 1 .. n : g[i] = h[i]
  BY <1>1, <1>2, SeqAppend
<1>4. PICK f : Path(f, h) /\ (v.kind \in Live => f[n] = v.sponge)
  BY <1>2 DEF Led
<1>5. PICK p : p = [k \in 0 .. n + 1 |-> IF k = n + 1 THEN w.sponge ELSE f[k]]
  OBVIOUS
<1>6. ASSUME NEW k \in 1 .. n PROVE Quiet(g, k) <=> Quiet(h, k)
  <2>1. \A e \in 1 .. k : e \in 1 .. n
    OBVIOUS
  <2> QED BY <1>3, <2>1 DEF Quiet
<1>7. Quiet(g, n + 1) <=> Quiet(h, n) /\ call.op # "replay"
  <2>1. \A e \in 1 .. n + 1 : e \in 1 .. n \/ e = n + 1
    OBVIOUS
  <2>2. n + 1 \in 1 .. n + 1 /\ \A e \in 1 .. n : e \in 1 .. n + 1
    OBVIOUS
  <2> QED BY <1>3, <2>1, <2>2 DEF Quiet
<1>8. v.kind \in Live <=> Quiet(h, n)
  BY <1>2 DEF Led
<1>9. ASSUME NEW k \in 1 .. n + 1, Quiet(g, k) PROVE Leads(p[k - 1], g[k], p[k])
  <2>1. CASE k \in 1 .. n
    <3>1. Leads(f[k - 1], h[k], f[k])
      BY <1>2, <1>4, <1>6, <1>9, <2>1 DEF Path
    <3>2. k - 1 \in 0 .. n + 1 /\ k \in 0 .. n + 1 /\ k - 1 # n + 1 /\ k # n + 1
      BY <2>1
    <3>3. p[k - 1] = f[k - 1] /\ p[k] = f[k]
      BY <1>5, <3>2
    <3> QED BY <1>3, <2>1, <3>1, <3>3
  <2>2. CASE k = n + 1
    <3>1. v.kind \in Live /\ call.op # "replay"
      BY <1>7, <1>8, <1>9, <2>2
    <3>2. Leads(v.sponge, call, w.sponge)
      BY <3>1
    <3>3. k - 1 = n /\ n \in 0 .. n + 1 /\ n # n + 1 /\ k \in 0 .. n + 1
      BY <2>2
    <3>4. p[k - 1] = f[n] /\ p[k] = w.sponge
      BY <1>5, <2>2, <3>3
    <3> QED BY <1>3, <1>4, <2>2, <3>1, <3>2, <3>4
  <2> QED BY <2>1, <2>2
<1>10. p[0] = S!NewSponge /\ p[n + 1] = w.sponge
  <2>1. 0 \in 0 .. n + 1 /\ 0 # n + 1 /\ n + 1 \in 0 .. n + 1
    OBVIOUS
  <2> QED BY <1>4, <1>5, <2>1 DEF Path
<1>11. Path(p, g)
  BY <1>3, <1>9, <1>10 DEF Path
<1>12. w.kind \in Live <=> Quiet(g, n + 1)
  BY <1>7, <1>8
<1> QED BY <1>1, <1>3, <1>10, <1>11, <1>12 DEF Led

\* Adding elements leads on to the sponge that absorbed them.
LEMMA AddLeads ==
  ASSUME NEW v, Sound(v), NEW h, IsSeq(h), Led(v, h), v.kind # "panicked", NEW call, Puts(call)
  PROVE  Led(AddElements(v, Input(call)), Append(h, call))
<1>1. PICK w, e : w = AddElements(v, e) /\ e = Input(call)
  OBVIOUS
<1>2. IsSeq(e) /\ call.op # "replay"
  BY <1>1, InputNumbers, PutsAre
<1>3. w.kind = v.kind /\ (v.kind \in Live => w.sponge = S!Absorb(v.sponge, e))
  BY <1>1, <1>2, AddFollows
<1>4. v.kind \in Live => Leads(v.sponge, call, w.sponge)
  BY <1>1, <1>3 DEF Leads
<1>5. Led(w, Append(h, call))
  BY <1>2, <1>3, <1>4, LedMore
<1> QED BY <1>1, <1>5

\* An answer leads on to the sponge it was squeezed from.
LEMMA SqueezeLeads ==
  ASSUME NEW v, Sound(v), NEW h, IsSeq(h), Led(v, h), v.kind # "panicked",
         NEW op \in {"elements", "bits"}, NEW size \in Nat, NEW n \in Nat,
         n = IF op = "bits" THEN Sources(size) ELSE size,
         NEW answer, answer = IF op = "bits" THEN ToBits(Elements(v, n), size) ELSE Elements(v, n),
         NEW w, w = AfterElements(v, n) \/ w = AfterChallengeElements(v, n)
  PROVE  Led(w, Append(h, Call(op, size, <<>>, answer, answer)))
<1>1. PICK call : call = Call(op, size, <<>>, answer, answer) /\ call.op = op /\ call.size = size
  <2>1. Call(op, size, <<>>, answer, answer).op = op /\ Call(op, size, <<>>, answer, answer).size = size
    BY CallOfFields
  <2> QED BY <2>1
<1>2. n = Count(call) /\ IsSqueeze(call) /\ answer = Whole(Elements(v, n), call) /\ call.op # "replay"
  BY <1>1 DEF Count, IsSqueeze, Whole
<1>3. PICK q, e : q = AfterElements(v, n) /\ e = Elements(v, n)
  OBVIOUS
<1>4. /\ Sound(q) /\ q.kind = v.kind
      /\ v.kind \in Live => q.sponge = S!Squeeze(v.sponge, n) /\ e = S!Squeezed(v.sponge, n)
  BY <1>3, ElementsFollow DEF Follows
<1>5. v.kind \in Live => IsSeq(e)
  <2>1. v.kind \in Live => SpongeOK(v.sponge)
    BY DEF Sound
  <2> QED BY <1>4, <2>1, SqueezedPlaces
<1>6. /\ w.kind = v.kind
      /\ (v.kind \in Live => w.sponge \in {S!Squeeze(v.sponge, n), Challenged(v.sponge, n)})
  <2>1. CASE w = q
    BY <1>4, <2>1
  <2>2. CASE w = AddElements(q, e)
    <3>1. w.kind = q.kind /\ (q.kind \in Live => w.sponge = S!Absorb(q.sponge, e))
      BY <1>4, <1>5, <2>2, AddFollows
    <3> QED BY <1>4, <3>1 DEF Challenged
  <2> QED BY <1>3, <2>1, <2>2 DEF AfterChallengeElements
<1>7. ASSUME v.kind \in Live PROVE Takes(call, v.sponge)
  <2>1. answer = Whole(S!Squeezed(v.sponge, n), call)
    BY <1>2, <1>3, <1>4, <1>7
  <2>2. call = Call(call.op, call.size, <<>>, answer, answer)
    BY <1>1
  <2> QED BY <1>1, <1>2, <2>1, <2>2 DEF Takes
<1>8. v.kind \in Live => Leads(v.sponge, call, w.sponge)
  BY <1>2, <1>6, <1>7 DEF Leads
<1>9. Led(w, Append(h, call))
  BY <1>2, <1>6, <1>8, LedMore
<1> QED BY <1>1, <1>9

\* The first call of every transcript
LEMMA NewLeads ==
  ASSUME NEW h
  PROVE  Led(NewWithHash(h), <<Call("new", 1, <<h>>, <<>>, <<>>)>>)
<1>1. PICK v : v = [kind |-> "hash", sponge |-> S!NewSponge, cached |-> <<>>]
  OBVIOUS
<1>2. Sound(v) /\ v.kind = "hash" /\ v.kind \in Live /\ v.sponge = S!NewSponge
  BY <1>1, NewSpongeOK DEF Sound, IsTranscript, Live
<1>3. Led(v, <<>>)
  <2>1. PICK f : f = [k \in 0 .. 0 |-> S!NewSponge]
    OBVIOUS
  <2>2. f[0] = S!NewSponge /\ 1 .. 0 = {}
    BY <2>1
  <2>3. PICK none : none = <<>> /\ IsSeq(none) /\ Len(none) = 0
    BY SeqEmpty
  <2>4. Path(f, none) /\ Quiet(none, 0)
    BY <2>2, <2>3 DEF Path, Quiet
  <2> QED BY <1>2, <2>2, <2>3, <2>4 DEF Led
<1>4. PICK call : call = Call("new", 1, <<h>>, <<>>, <<>>) /\ Puts(call)
  BY DEF Puts
<1>5. Input(call) = <<Number(h)>>
  <2>1. call.op = "new"
    BY <1>4, CallOfFields
  <2>2. call.arg = <<h>>
    BY <1>4, CallArg
  <2>3. <<h>>[1] = h
    OBVIOUS
  <2> QED BY <2>1, <2>2, <2>3 DEF Input
<1>6. NewWithHash(h) = AddElements(v, Input(call))
  BY <1>1, <1>5 DEF NewWithHash
<1>7. Led(AddElements(v, Input(call)), Append(<<>>, call))
  BY <1>2, <1>3, <1>4, SeqEmpty, AddLeads
<1>8. Append(<<>>, call) = <<call>>
  OBVIOUS
<1> QED BY <1>4, <1>6, <1>7, <1>8

\* Recording starts from the same sponge.
LEMMA RecordLeads ==
  ASSUME NEW v, Sound(v), v.kind = "hash", NEW h, IsSeq(h), Led(v, h)
  PROVE  Led(Recording(v), Append(h, Call("record", 0, <<>>, <<>>, <<>>)))
<1>1. PICK call : call = Call("record", 0, <<>>, <<>>, <<>>) /\ Puts(call)
  BY DEF Puts
<1>2. call.op = "record" /\ call.op # "replay"
  BY <1>1, CallOfFields
<1>3. PICK w, s : /\ s = v.sponge /\ w = Recording(v)
                  /\ w = [kind |-> "recording", sponge |-> s, cached |-> <<>>]
  BY DEF Recording
<1>4. S!Absorb(v.sponge, Input(call)) = v.sponge
  BY <1>2 DEF Input, S!Absorb
<1>5. Leads(v.sponge, call, w.sponge)
  BY <1>1, <1>3, <1>4 DEF Leads
<1>6. v.kind \in Live /\ w.kind \in Live
  BY <1>3 DEF Live
<1>7. Led(w, Append(h, call))
  BY <1>2, <1>5, <1>6, LedMore
<1> QED BY <1>1, <1>3, <1>7

-----------------------------------------------------------------------------
(***************************************************************************)
(* Every transcript has the sponge that its calls lead to                  *)
(***************************************************************************)
\* Every transcript has the sponge that its calls lead to.
LeadInv == HistoryInv /\ \A t \in DOMAIN transcripts : Led(transcripts[t].value, calls[t])

\* A new transcript is led by its calls.
LEMMA CreateLed ==
  ASSUME LeadInv, HistoryInv', NEW pair, NEW history, Led(pair.value, history), Create(pair, history)
  PROVE  LeadInv'
<1>1. PICK n \in Nat : n = Len(transcripts) /\ DOMAIN transcripts = 1 .. n /\ n = Len(calls)
  BY SeqDomain DEF HistoryInv, LeadInv
<1>2. PICK ts, cs : ts = Append(transcripts, pair) /\ cs = Append(calls, history)
  OBVIOUS
<1>3. IsSeq(ts) /\ Len(ts) = n + 1 /\ ts[n + 1] = pair /\ \A i \in 1 .. n : ts[i] = transcripts[i]
  BY <1>1, <1>2, SeqAppend DEF HistoryInv, LeadInv
<1>4. cs[n + 1] = history /\ \A i \in 1 .. n : cs[i] = calls[i]
  BY <1>1, <1>2, SeqAppend DEF HistoryInv, LeadInv
<1>5. DOMAIN ts = 1 .. n + 1
  BY <1>3, SeqDomain
<1>6. ASSUME NEW t \in 1 .. n + 1 PROVE Led(ts[t].value, cs[t])
  <2>1. t \in 1 .. n \/ t = n + 1
    OBVIOUS
  <2>2. CASE t \in 1 .. n
    BY <1>1, <1>3, <1>4, <2>2 DEF LeadInv
  <2>3. CASE t = n + 1
    BY <1>3, <1>4, <2>3
  <2> QED BY <2>1, <2>2, <2>3
<1>7. transcripts' = ts /\ calls' = cs
  BY <1>2 DEF Create
<1> QED BY <1>5, <1>6, <1>7 DEF LeadInv

\* So is one that was called.
LEMMA UpdateLed ==
  ASSUME LeadInv, HistoryInv', NEW t \in DOMAIN transcripts, NEW pair, NEW call,
         Led(pair.value, Append(calls[t], call)), Update(t, pair, call)
  PROVE  LeadInv'
<1>1. DOMAIN transcripts = DOMAIN calls
  BY SeqDomain DEF HistoryInv, LeadInv
<1>2. PICK ts, cs, history : /\ ts = [transcripts EXCEPT ![t] = pair]
                             /\ history = Append(calls[t], call)
                             /\ cs = [calls EXCEPT ![t] = history]
  OBVIOUS
<1>3. DOMAIN ts = DOMAIN transcripts /\ ts[t] = pair
      /\ \A i \in DOMAIN transcripts \ {t} : ts[i] = transcripts[i]
  BY <1>2, SeqUpdate DEF HistoryInv, LeadInv
<1>4. cs[t] = history /\ \A i \in DOMAIN calls \ {t} : cs[i] = calls[i]
  BY <1>1, <1>2, SeqUpdate DEF HistoryInv, LeadInv
<1>5. ASSUME NEW u \in DOMAIN transcripts PROVE Led(ts[u].value, cs[u])
  <2>1. CASE u = t
    BY <1>2, <1>3, <1>4, <2>1
  <2>2. CASE u # t
    BY <1>1, <1>3, <1>4, <2>2 DEF LeadInv
  <2> QED BY <2>1, <2>2
<1>6. transcripts' = ts /\ calls' = cs
  BY <1>2 DEF Update
<1> QED BY <1>3, <1>5, <1>6 DEF LeadInv

\* At first no transcript is there.
LEMMA LeadInit == Init => LeadInv
<1> SUFFICES ASSUME Init PROVE LeadInv
  OBVIOUS
<1>1. DOMAIN <<>> = {}
  OBVIOUS
<1> QED BY <1>1, HistoryInit DEF Init, LeadInv

\* Every step keeps the transcripts led by their calls.
LEMMA LeadStep == LeadInv /\ [Next]_vars => LeadInv'
<1> SUFFICES ASSUME LeadInv, [Next]_vars PROVE LeadInv'
  OBVIOUS
<1>0. HistoryInv'
  BY HistoryStep DEF LeadInv
<1>1. ASSUME NEW h \in Hashes, New(h) PROVE LeadInv'
  <2>1. PICK w, x, history : /\ w = NewWithHash(h) /\ x = VarNewWithHash(h)
                             /\ history = <<Call("new", 1, <<h>>, <<>>, <<>>)>>
    OBVIOUS
  <2>2. Create(Pair(w, x), history)
    BY <1>1, <2>1 DEF New
  <2>3. Led(Pair(w, x).value, history)
    BY <2>1, NewLeads, PairFields
  <2> QED BY <1>0, <2>2, <2>3, CreateLed
<1>2. ASSUME NEW t \in Usable,
             \/ \E d \in Domains : Separate(t, d)
             \/ Record(t) \/ Replay(t)
             \/ \E message \in Messages : Add(t, message)
             \/ \E n \in Gets : GetFieldElements(t, n) \/ ChallengeFieldElements(t, n)
             \/ \E n \in Bits : GetTheBits(t, n) \/ ChallengeBits(t, n)
             \/ \E n \in Gets : Panic(t, "elements", n)
             \/ \E n \in Bits : Panic(t, "bits", n)
      PROVE  LeadInv'
  <2>1. PICK v, h : /\ t \in DOMAIN transcripts /\ h = calls[t]
                    /\ v = transcripts[t].value /\ v = transcripts[t].variable
                    /\ Sound(v) /\ IsSeq(h) /\ Led(v, h) /\ v.kind # "panicked"
    BY DEF LeadInv, HistoryInv, Good, Usable
  <2>2. ASSUME NEW w, NEW x, NEW call, Create(Pair(w, x), Append(h, call)), Led(w, Append(h, call))
        PROVE  LeadInv'
    <3>1. Led(Pair(w, x).value, Append(h, call))
      BY <2>2, PairFields
    <3> QED BY <1>0, <2>2, <3>1, CreateLed
  <2>3. ASSUME NEW w, NEW x, NEW call, Update(t, Pair(w, x), call), Led(w, Append(h, call))
        PROVE  LeadInv'
    <3>1. Led(Pair(w, x).value, Append(calls[t], call))
      BY <2>1, <2>3, PairFields
    <3> QED BY <1>0, <2>1, <2>3, <3>1, UpdateLed
  <2>4. ASSUME NEW d \in Domains, Separate(t, d) PROVE LeadInv'
    <3>1. PICK w, x, call : /\ w = SeparateDomain(v, d) /\ x = VarSeparateDomain(v, d)
                            /\ call = Call("separate", Len(d), d, <<>>, <<>>) /\ Puts(call)
      BY DEF Puts
    <3>2. call.op = "separate" /\ call.arg = d
      BY <3>1, CallOfFields, CallArg
    <3>3. w = AddElements(v, Input(call))
      BY <3>1, <3>2 DEF SeparateDomain, Input, Encoded
    <3>4. Create(Pair(w, x), Append(h, call))
      BY <2>1, <2>4, <3>1 DEF Separate
    <3>5. Led(w, Append(h, call))
      BY <2>1, <3>1, <3>3, AddLeads
    <3> QED BY <2>2, <3>4, <3>5
  <2>5. ASSUME Record(t) PROVE LeadInv'
    <3>1. PICK w, call : w = Recording(v) /\ call = Call("record", 0, <<>>, <<>>, <<>>)
      OBVIOUS
    <3>2. v.kind = "hash" /\ Create(Pair(w, w), Append(h, call))
      BY <2>1, <2>5, <3>1 DEF Record
    <3>3. Led(w, Append(h, call))
      BY <2>1, <3>1, <3>2, RecordLeads
    <3> QED BY <2>2, <3>2, <3>3
  <2>6. ASSUME Replay(t) PROVE LeadInv'
    <3>1. PICK w, call : w = Replaying(v) /\ call = Call("replay", 0, <<>>, <<>>, <<>>)
      OBVIOUS
    <3>2. Create(Pair(w, w), Append(h, call))
      BY <2>1, <2>6, <3>1 DEF Replay
    <3>3. ~(w.kind \in Live)
      <4>1. PICK c, s : w = [kind |-> "replay", sponge |-> s, cached |-> c]
        BY <3>1 DEF Replaying
      <4> QED BY <4>1 DEF Live
    <3>4. call.op = "replay"
      BY <3>1, CallOfFields
    <3>5. Led(w, Append(h, call))
      BY <2>1, <3>3, <3>4, LedMore
    <3> QED BY <2>2, <3>2, <3>5
  <2>7. ASSUME NEW message \in Messages, Add(t, message) PROVE LeadInv'
    <3>1. PICK e, w, call : /\ e = Absorbed(message) /\ w = AddElements(v, e)
                            /\ call = Call("add", Len(e), e, <<>>, <<>>) /\ Puts(call)
      BY DEF Puts
    <3>2. call.op = "add" /\ call.arg = e
      BY <3>1, CallOfFields, CallArg
    <3>3. w = AddElements(v, Input(call))
      BY <3>1, <3>2 DEF Input
    <3>4. Update(t, Pair(w, w), call)
      BY <2>1, <2>7, <3>1 DEF Add
    <3>5. Led(w, Append(h, call))
      BY <2>1, <3>1, <3>3, AddLeads
    <3> QED BY <2>3, <3>4, <3>5
  <2>8. ASSUME NEW n \in Gets, GetFieldElements(t, n) PROVE LeadInv'
    <3>1. PICK w, answer, call : /\ w = AfterElements(v, n) /\ answer = Elements(v, n)
                                 /\ call = Call("elements", n, <<>>, answer, answer)
      OBVIOUS
    <3>2. Update(t, Pair(w, w), call)
      BY <2>1, <2>8, <3>1 DEF GetFieldElements
    <3>3. n \in Nat
      BY CallAssumption
    <3>4. Led(w, Append(h, call))
      BY <2>1, <3>1, <3>3, SqueezeLeads
    <3> QED BY <2>3, <3>2, <3>4
  <2>9. ASSUME NEW n \in Gets, ChallengeFieldElements(t, n) PROVE LeadInv'
    <3>1. PICK w, x, answer, call : /\ w = AfterChallengeElements(v, n) /\ answer = Elements(v, n)
                                    /\ x = VarAfterChallengeElements(v, n)
                                    /\ call = Call("elements", n, <<>>, answer, answer)
      OBVIOUS
    <3>2. Update(t, Pair(w, x), call)
      BY <2>1, <2>9, <3>1 DEF ChallengeFieldElements
    <3>3. n \in Nat
      BY CallAssumption
    <3>4. Led(w, Append(h, call))
      BY <2>1, <3>1, <3>3, SqueezeLeads
    <3> QED BY <2>3, <3>2, <3>4
  <2>10. ASSUME NEW n \in Bits, GetTheBits(t, n) PROVE LeadInv'
    <3>0. n \in Nat /\ Sources(n) \in Nat
      BY SourcesAreNumber, CallAssumption
    <3>1. PICK w, x, answer, call, m :
            /\ m = Sources(n) /\ w = AfterElements(v, m) /\ answer = ToBits(Elements(v, m), n)
            /\ x = VarAfterBits(v, n) /\ call = Call("bits", n, <<>>, answer, answer)
      OBVIOUS
    <3>2. Update(t, Pair(w, x), call)
      BY <2>1, <2>10, <3>1 DEF GetTheBits, AfterBits, GetBits, VarGetBits
    <3>3. Led(w, Append(h, call))
      BY <2>1, <3>0, <3>1, SqueezeLeads
    <3> QED BY <2>3, <3>2, <3>3
  <2>11. ASSUME NEW n \in Bits, ChallengeBits(t, n) PROVE LeadInv'
    <3>0. n \in Nat /\ Sources(n) \in Nat
      BY SourcesAreNumber, CallAssumption
    <3>1. PICK w, x, answer, call, m :
            /\ m = Sources(n) /\ w = AfterChallengeElements(v, m)
            /\ answer = ToBits(Elements(v, m), n) /\ x = VarAfterChallengeBits(v, n)
            /\ call = Call("bits", n, <<>>, answer, answer)
      OBVIOUS
    <3>2. Update(t, Pair(w, x), call)
      BY <2>1, <2>11, <3>1 DEF ChallengeBits, AfterChallengeBits, GetBits, VarGetBits
    <3>3. Led(w, Append(h, call))
      BY <2>1, <3>0, <3>1, SqueezeLeads
    <3> QED BY <2>3, <3>2, <3>3
  <2>12. ASSUME NEW op, NEW n, Panic(t, op, n) PROVE LeadInv'
    <3>1. PICK w, call, c : /\ w = [v EXCEPT !.kind = "panicked"]
                            /\ call = Call(op, n, <<>>, <<>>, <<>>)
                            /\ Update(t, Pair(w, w), call) /\ RunsDry(v, c)
      BY <2>1, <2>12 DEF Panic
    <3>2. w.kind = "panicked" /\ v.kind = "replay"
      <4>1. w = [kind |-> "panicked", sponge |-> v.sponge, cached |-> v.cached]
        BY <2>1, <3>1 DEF Sound, IsTranscript
      <4> QED BY <3>1, <4>1 DEF RunsDry
    <3>3. Led(w, Append(h, call))
      <4>1. ~(w.kind \in Live) /\ ~(v.kind \in Live)
        BY <3>2 DEF Live
      <4> QED BY <2>1, <4>1, LedMore
    <3> QED BY <2>3, <3>1, <3>3
  <2> QED BY <1>2, <2>4, <2>5, <2>6, <2>7, <2>8, <2>9, <2>10, <2>11, <2>12
<1>3. ASSUME UNCHANGED vars PROVE LeadInv'
  BY <1>0, <1>3 DEF vars, LeadInv
<1> QED BY <1>1, <1>2, <1>3 DEF Next

\* Every transcript has the sponge that its calls lead to.
LEMMA LeadHolds == Spec => []LeadInv
  BY LeadInit, LeadStep, PTL DEF Spec

-----------------------------------------------------------------------------
(***************************************************************************)
(* Transcripts along their calls                                           *)
(***************************************************************************)
\* Along a path every sponge is laid out, and allows no more than those before it.
LEMMA PathGrows ==
  ASSUME NEW h, IsSeq(h), NEW f, Path(f, h), NEW n \in 0 .. Len(h), Quiet(h, n), NEW i \in 0 .. n
  PROVE  \A k \in i .. n : Laid(f[k]) /\ Grown(f[i], f[k])
<1>0. PICK l \in Nat : l = Len(h) /\ n \in 0 .. l /\ n \in Nat
  BY SeqDomain
<1>1. ASSUME NEW k \in 1 .. n PROVE Leads(f[k - 1], h[k], f[k])
  <2>1. k \in 1 .. l /\ \A e \in 1 .. k : e \in 1 .. n
    BY <1>0
  <2>2. Quiet(h, k)
    BY <2>1 DEF Quiet
  <2> QED BY <1>0, <2>1, <2>2 DEF Path
<1>2. ASSUME NEW k \in 0 .. n PROVE Laid(f[k])
  <2> DEFINE T == {m \in 0 .. n : Laid(f[m])}
  <2>1. 0 \in T
    <3>1. Laid(f[0])
      <4>1. SpongeOK(f[0]) /\ f[0] = S!NewSponge
        BY NewSpongeOK DEF Path
      <4>2. f[0].open = <<>> /\ Len(<<>>) = 0
        BY <4>1, SeqEmpty DEF S!NewSponge
      <4> QED BY <4>1, <4>2, CallAssumption DEF Laid
    <3> QED BY <1>0, <3>1
  <2>2. ASSUME NEW m \in 1 .. n, m - 1 \in T PROVE m \in T
    BY <1>1, <2>2, LeadsOn
  <2> HIDE DEF T
  <2>3. 0 .. n \subseteq T
    BY <1>0, <2>1, <2>2, UpTo
  <2> QED BY <2>3 DEF T
<1>3. ASSUME NEW k \in 0 .. n PROVE k >= i => Grown(f[i], f[k])
  <2> DEFINE T == {m \in 0 .. n : m >= i => Grown(f[i], f[m])}
  <2>1. 0 \in T
    <3>1. 0 >= i => i = 0
      BY <1>0
    <3> QED BY <1>0, <3>1, GrowsNot
  <2>2. ASSUME NEW m \in 1 .. n, m - 1 \in T PROVE m \in T
    <3> SUFFICES ASSUME m >= i PROVE Grown(f[i], f[m])
      BY <1>0
    <3>1. CASE m = i
      BY <3>1, GrowsNot
    <3>2. CASE m > i
      <4>1. m - 1 >= i /\ m - 1 \in 0 .. n
        BY <3>2
      <4>2. Grown(f[i], f[m - 1])
        BY <2>2, <4>1
      <4>3. Grown(f[m - 1], f[m])
        BY <1>1, <1>2, <4>1, LeadsOn
      <4> QED BY <4>2, <4>3, GrowsOn
    <3> QED BY <1>0, <3>1, <3>2
  <2> HIDE DEF T
  <2>3. 0 .. n \subseteq T
    BY <1>0, <2>1, <2>2, UpTo
  <2> QED BY <2>3 DEF T
<1>4. \A k \in i .. n : k \in 0 .. n /\ k >= i
  BY <1>0
<1> QED BY <1>2, <1>3, <1>4

\* As long as two histories have the same kinds of calls, either they are the same and have
\* led to the same sponge, or the sponges are apart.
LEMMA PathsPart ==
  ASSUME NEW g, IsSeq(g), NEW f, Path(f, g), NEW h, IsSeq(h), NEW p, Path(p, h),
         NEW n \in Nat, n <= Len(g), n <= Len(h), Quiet(g, n), Quiet(h, n),
         \A k \in 1 .. n : g[k].op = h[k].op /\ g[k].size = h[k].size
  PROVE  (f[n] = p[n] /\ \A k \in 1 .. n : g[k] = h[k]) \/ Apart(f[n], p[n])
<1>0. PICK l \in Nat, m \in Nat : l = Len(g) /\ m = Len(h) /\ n \in 0 .. l /\ n \in 0 .. m
  BY SeqDomain
<1>1. ASSUME NEW k \in 1 .. n
      PROVE  /\ Leads(f[k - 1], g[k], f[k]) /\ Leads(p[k - 1], h[k], p[k])
             /\ Laid(f[k - 1]) /\ Laid(p[k - 1])
  <2>1. k \in 1 .. l /\ k \in 1 .. m /\ \A e \in 1 .. k : e \in 1 .. n
    BY <1>0
  <2>2. Quiet(g, k) /\ Quiet(h, k)
    BY <2>1 DEF Quiet
  <2>3. 0 \in 0 .. n /\ k - 1 \in 0 .. n
    OBVIOUS
  <2>4. Laid(f[k - 1])
    BY <1>0, <2>3, PathGrows
  <2>5. Laid(p[k - 1])
    BY <1>0, <2>3, PathGrows
  <2> QED BY <1>0, <2>1, <2>2, <2>4, <2>5 DEF Path
<1> DEFINE Alike(k) == f[k] = p[k] /\ \A e \in 1 .. k : g[e] = h[e]
           T == {k \in 0 .. n : Alike(k) \/ Apart(f[k], p[k])}
<1>2. 0 \in T
  <2>1. f[0] = p[0] /\ 1 .. 0 = {} /\ 0 \in 0 .. n
    BY DEF Path
  <2> QED BY <2>1
<1>3. ASSUME NEW k \in 1 .. n, k - 1 \in T PROVE k \in T
  <2>1. k \in 0 .. n /\ k - 1 \in 0 .. n
    OBVIOUS
  <2>2. CASE Apart(f[k - 1], p[k - 1])
    <3>1. Grown(f[k - 1], f[k])
      BY <1>1, LeadsOn
    <3>2. Grown(p[k - 1], p[k])
      BY <1>1, LeadsOn
    <3>3. Apart(f[k], p[k])
      BY <2>2, <3>1, <3>2, StayApart
    <3> HIDE DEF Alike
    <3> QED BY <2>1, <3>3
  <2>3. CASE Alike(k - 1)
    <3>1. PICK s : s = f[k - 1] /\ s = p[k - 1]
      BY <2>3
    <3>2. Laid(s) /\ Leads(s, g[k], f[k]) /\ Leads(s, h[k], p[k])
      BY <1>1, <3>1
    <3>3. g[k].op = h[k].op /\ g[k].size = h[k].size
      OBVIOUS
    <3>4. (g[k] = h[k] /\ f[k] = p[k]) \/ Apart(f[k], p[k])
      <4> HIDE DEF Alike, T
      <4> QED BY <3>2, <3>3, LeadsApart
    <3>5. \A e \in 1 .. k : e \in 1 .. k - 1 \/ e = k
      OBVIOUS
    <3>6. g[k] = h[k] => \A e \in 1 .. k : g[e] = h[e]
      BY <2>3, <3>5
    <3>7. Alike(k) \/ Apart(f[k], p[k])
      BY <3>4, <3>6
    <3> HIDE DEF Alike
    <3> QED BY <2>1, <3>7
  <2> HIDE DEF Alike
  <2> QED BY <1>3, <2>2, <2>3
<1> HIDE DEF T
<1>4. n \in 0 .. n
  OBVIOUS
<1>5. 0 .. n \subseteq T
  BY <1>2, <1>3, UpTo
<1>6. n \in T
  BY <1>4, <1>5
<1> QED BY <1>6 DEF T

\* What a call has answered that has answered something
LEMMA Answering ==
  ASSUME NEW s, Laid(s), NEW call, NEW a, Leads(s, call, a), call.answer # <<>>
  PROVE  /\ Takes(call, s) /\ call.answer = Whole(S!Squeezed(s, Count(call)), call)
         /\ IsSeq(call.answer)
<1>1. Takes(call, s)
  BY PutsAre DEF Leads
<1>2. PICK n \in Nat : n = Count(call)
  BY <1>1, CountIsNumber
<1>3. PICK answer : /\ answer = Whole(S!Squeezed(s, n), call)
                    /\ call = Call(call.op, call.size, <<>>, answer, answer)
  BY <1>1, <1>2 DEF Takes
<1>4. call.answer = answer
  BY <1>3, CallOfFields
<1>5. IsSeq(answer)
  <2>1. PICK g : g = S!Squeezed(s, n) /\ IsSeq(g)
    BY SqueezedPlaces DEF Laid
  <2>2. CASE call.op = "bits"
    <3>1. answer = [k \in 1 .. call.size |-> [of |-> g[(k - 1) \div UsableBits + 1],
                                             bit |-> (k - 1) % UsableBits]]
      BY <1>3, <2>1, <2>2 DEF Whole, ToBits
    <3>2. answer = [k \in 1 .. call.size |-> answer[k]] /\ call.size \in Nat
      BY <1>1, <3>1 DEF Takes
    <3> QED BY <3>2, SeqOfFunction
  <2>3. CASE call.op # "bits"
    BY <1>3, <2>1, <2>3 DEF Whole
  <2> QED BY <2>2, <2>3
<1> QED BY <1>1, <1>2, <1>3, <1>4, <1>5

\* Two sponges that are apart do not give a common answer.
LEMMA NothingInCommon ==
  ASSUME NEW s, Laid(s), NEW x, NEW a, Leads(s, x, a), NEW i \in DOMAIN x.answer,
         NEW u, Laid(u), NEW y, NEW w, Leads(u, y, w), NEW k \in DOMAIN y.answer,
         Apart(s, u)
  PROVE  x.answer[i] # y.answer[k]
<1>1. DOMAIN <<>> = {}
  OBVIOUS
<1>2. Takes(x, s) /\ x.answer = Whole(S!Squeezed(s, Count(x)), x)
  BY <1>1, Answering
<1>3. Takes(y, u) /\ y.answer = Whole(S!Squeezed(u, Count(y)), y)
  BY <1>1, Answering
<1>4. x.size \in Nat /\ y.size \in Nat
  BY <1>2, <1>3 DEF Takes
<1>5. /\ i \in DOMAIN Whole(S!Squeezed(s, Count(x)), x)
      /\ k \in DOMAIN Whole(S!Squeezed(u, Count(y)), y)
  BY <1>2, <1>3
<1>6. Whole(S!Squeezed(s, Count(x)), x)[i] # Whole(S!Squeezed(u, Count(y)), y)[k]
  BY <1>4, <1>5, AnswersDiffer
<1> QED BY <1>2, <1>3, <1>6

\* The first calls of a history
LEMMA Beginning ==
  ASSUME NEW h, IsSeq(h), NEW n \in Nat, n <= Len(h)
  PROVE  /\ IsSeq(SubSeq(h, 1, n)) /\ Len(SubSeq(h, 1, n)) = n
         /\ \A k \in 1 .. n : SubSeq(h, 1, n)[k] = h[k]
<1>1. 1 \in Nat /\ 1 >= 1 /\ 1 <= n + 1 /\ n - 1 + 1 = n
  OBVIOUS
<1>2. /\ IsSeq(SubSeq(h, 1, n)) /\ Len(SubSeq(h, 1, n)) = n - 1 + 1
      /\ \A i \in 1 .. n - 1 + 1 : SubSeq(h, 1, n)[i] = h[1 + i - 1]
  BY <1>1, SeqPart
<1>3. \A i \in 1 .. n : 1 + i - 1 = i
  OBVIOUS
<1> QED BY <1>1, <1>2, <1>3

\* Histories that begin with the same calls
LEMMA SameBeginning ==
  ASSUME NEW g, IsSeq(g), NEW h, IsSeq(h), NEW n \in Nat, n <= Len(g), n <= Len(h),
         SubSeq(g, 1, n) = SubSeq(h, 1, n)
  PROVE  \A k \in 1 .. n : g[k] = h[k]
<1>1. \A k \in 1 .. n : SubSeq(g, 1, n)[k] = g[k]
  BY Beginning
<1>2. \A k \in 1 .. n : SubSeq(h, 1, n)[k] = h[k]
  BY Beginning
<1> QED BY <1>1, <1>2

\* Histories that begin with calls of the same shape
LEMMA SameShape ==
  ASSUME NEW g, IsSeq(g), NEW h, IsSeq(h), NEW n \in Nat, n <= Len(g), n <= Len(h),
         Shape(SubSeq(g, 1, n)) = Shape(SubSeq(h, 1, n))
  PROVE  \A k \in 1 .. n : g[k].op = h[k].op /\ g[k].size = h[k].size
<1> SUFFICES ASSUME NEW k \in 1 .. n PROVE g[k].op = h[k].op /\ g[k].size = h[k].size
  OBVIOUS
<1>1. PICK a, b : a = SubSeq(g, 1, n) /\ b = SubSeq(h, 1, n)
  OBVIOUS
<1>2. DOMAIN a = 1 .. n /\ a[k] = g[k]
  BY <1>1, Beginning, SeqDomain
<1>3. DOMAIN b = 1 .. n /\ b[k] = h[k]
  BY <1>1, Beginning, SeqDomain
<1>4. Shape(a)[k] = <<g[k].op, g[k].size>>
  BY <1>2 DEF Shape
<1>5. Shape(b)[k] = <<h[k].op, h[k].size>>
  BY <1>3 DEF Shape
<1>6. <<g[k].op, g[k].size>> = <<h[k].op, h[k].size>>
  BY <1>1, <1>4, <1>5
<1> QED BY <1>6

\* A step of a path, as long as nothing was replayed
LEMMA PathStep ==
  ASSUME NEW h, IsSeq(h), NEW f, Path(f, h), NEW n \in 1 .. Len(h), Quiet(h, n)
  PROVE  Leads(f[n - 1], h[n], f[n]) /\ Laid(f[n - 1]) /\ Quiet(h, n - 1)
<1>1. PICK l \in Nat : l = Len(h) /\ n \in 1 .. l
  BY SeqDomain
<1>2. n \in 0 .. l /\ 0 \in 0 .. n /\ n - 1 \in 0 .. n /\ \A e \in 1 .. n - 1 : e \in 1 .. n
  BY <1>1
<1>3. Laid(f[n - 1])
  BY <1>1, <1>2, PathGrows
<1>4. Leads(f[n - 1], h[n], f[n])
  BY <1>1 DEF Path
<1> QED BY <1>2, <1>3, <1>4 DEF Quiet

\* Two transcripts that were called in the same way, and have given the same answer to the
\* same call, were called with the same arguments.
THEOREM AnswersBindInputs == Spec => []AnswersBind
<1>1. LeadInv => AnswersBind
  <2> SUFFICES ASSUME LeadInv, NEW t \in DOMAIN transcripts, NEW u \in DOMAIN transcripts,
                      NEW c \in DOMAIN calls[t] \cap DOMAIN calls[u],
                      Shape(SubSeq(calls[t], 1, c)) = Shape(SubSeq(calls[u], 1, c)),
                      calls[t][c].answer = calls[u][c].answer, calls[t][c].answer # <<>>,
                      Quiet(calls[t], c)
               PROVE  SubSeq(calls[t], 1, c) = SubSeq(calls[u], 1, c)
    BY DEF AnswersBind, Quiet
  <2>1. PICK g, h : g = calls[t] /\ h = calls[u] /\ IsSeq(g) /\ IsSeq(h)
    BY DEF LeadInv, HistoryInv, Good
  <2>2. PICK f : Path(f, g)
    BY <2>1 DEF LeadInv, Led
  <2>3. PICK p : Path(p, h)
    BY <2>1 DEF LeadInv, Led
  <2>4. PICK n \in Nat \ {0} : /\ n = c /\ n <= Len(g) /\ n <= Len(h)
                               /\ n \in 1 .. Len(g) /\ n \in 1 .. Len(h)
    <3>1. DOMAIN g = 1 .. Len(g) /\ DOMAIN h = 1 .. Len(h)
      BY <2>1, SeqDomain
    <3>2. c \in 1 .. Len(g) /\ c \in 1 .. Len(h)
      BY <2>1, <3>1
    <3> QED BY <3>2
  <2>5. \A k \in 1 .. n : g[k].op = h[k].op /\ g[k].size = h[k].size
    BY <2>1, <2>4, SameShape
  <2>6. Quiet(g, n) /\ Quiet(h, n)
    BY <2>1, <2>4, <2>5 DEF Quiet
  <2>7. PICK s, a : s = f[n - 1] /\ Leads(s, g[n], a) /\ Laid(s) /\ Quiet(g, n - 1)
    BY <2>1, <2>2, <2>4, <2>6, PathStep
  <2>8. PICK v, w : v = p[n - 1] /\ Leads(v, h[n], w) /\ Laid(v) /\ Quiet(h, n - 1)
    BY <2>1, <2>3, <2>4, <2>6, PathStep
  <2>9. (s = v /\ \A k \in 1 .. n - 1 : g[k] = h[k]) \/ Apart(s, v)
    <3>1. PICK m \in Nat : m = n - 1 /\ m <= Len(g) /\ m <= Len(h) /\ \A k \in 1 .. m : k \in 1 .. n
      <4>1. n - 1 \in Nat /\ n - 1 <= Len(g) /\ n - 1 <= Len(h) /\ \A k \in 1 .. n - 1 : k \in 1 .. n
        BY <2>1, <2>4, SeqDomain
      <4> QED BY <4>1
    <3>2. \A k \in 1 .. m : g[k].op = h[k].op /\ g[k].size = h[k].size
      BY <2>5, <3>1
    <3>3. (f[m] = p[m] /\ \A k \in 1 .. m : g[k] = h[k]) \/ Apart(f[m], p[m])
      BY <2>1, <2>2, <2>3, <2>7, <2>8, <3>1, <3>2, PathsPart
    <3> QED BY <2>7, <2>8, <3>1, <3>3
  <2>10. PICK answer : answer = g[n].answer /\ answer = h[n].answer /\ answer # <<>> /\ IsSeq(answer)
    BY <2>1, <2>4, <2>7, Answering
  <2>11. ~Apart(s, v)
    <3> SUFFICES ASSUME Apart(s, v) PROVE FALSE
      OBVIOUS
    <3>1. 1 \in DOMAIN answer
      <4>1. Len(answer) \in Nat /\ DOMAIN answer = 1 .. Len(answer)
        BY <2>10, SeqDomain
      <4>2. Len(answer) # 0
        <5> SUFFICES ASSUME Len(answer) = 0 PROVE answer = <<>>
          BY <2>10
        <5>1. \A i \in 1 .. 0 : answer[i] = <<>>[i]
          OBVIOUS
        <5> QED BY <2>10, <5>1, SeqEmpty, OneSeq
      <4> QED BY <4>1, <4>2
    <3>2. 1 \in DOMAIN g[n].answer /\ 1 \in DOMAIN h[n].answer
      BY <2>10, <3>1
    <3>3. g[n].answer[1] # h[n].answer[1]
      BY <2>7, <2>8, <3>2, NothingInCommon
    <3> QED BY <2>10, <3>3
  <2>12. g[n] = h[n]
    <3>1. Takes(g[n], s)
      BY <2>7, <2>10, Answering
    <3>2. Takes(h[n], v)
      BY <2>8, <2>10, Answering
    <3>3. n \in 1 .. n
      OBVIOUS
    <3>4. g[n].op = h[n].op /\ g[n].size = h[n].size
      BY <2>5, <3>3
    <3> QED BY <2>9, <2>11, <3>1, <3>2, <3>4, TakenAlike
  <2>13. \A k \in 1 .. n : g[k] = h[k]
    <3>1. \A k \in 1 .. n : k \in 1 .. n - 1 \/ k = n
      OBVIOUS
    <3> QED BY <2>9, <2>11, <2>12, <3>1
  <2>14. SubSeq(g, 1, n) = SubSeq(h, 1, n)
    <3>1. PICK a2, b2 : a2 = SubSeq(g, 1, n) /\ b2 = SubSeq(h, 1, n)
      OBVIOUS
    <3>2. IsSeq(a2) /\ Len(a2) = n /\ \A k \in 1 .. n : a2[k] = g[k]
      BY <2>1, <2>4, <3>1, Beginning
    <3>3. IsSeq(b2) /\ Len(b2) = n /\ \A k \in 1 .. n : b2[k] = h[k]
      BY <2>1, <2>4, <3>1, Beginning
    <3>4. \A k \in 1 .. Len(a2) : a2[k] = b2[k]
      BY <2>13, <3>2, <3>3
    <3> QED BY <3>1, <3>2, <3>3, <3>4, OneSeq
  <2> QED BY <2>1, <2>4, <2>14
<1> QED BY <1>1, LeadHolds, PTL

\* After two transcripts were separated from the same one by different domains, they never
\* come to the same state and never give an answer in common.
THEOREM DomainsStayApart == Spec => []DomainsApart
<1>1. LeadInv => DomainsApart
  <2> SUFFICES ASSUME LeadInv, NEW t \in DOMAIN transcripts, NEW u \in DOMAIN transcripts,
                      NEW c \in DOMAIN calls[t] \cap DOMAIN calls[u],
                      SubSeq(calls[t], 1, c - 1) = SubSeq(calls[u], 1, c - 1),
                      calls[t][c] # calls[u][c],
                      calls[t][c].op = "separate", calls[u][c].op = "separate",
                      \A x \in {t, u} : \A e \in DOMAIN calls[x] : calls[x][e].op # "replay"
               PROVE  /\ transcripts[t].value.sponge # transcripts[u].value.sponge
                      /\ AnsweredFrom(c, calls[t]) \cap AnsweredFrom(c, calls[u]) = {}
    BY DEF DomainsApart
  <2>1. PICK g, h : g = calls[t] /\ h = calls[u] /\ IsSeq(g) /\ IsSeq(h)
    BY DEF LeadInv, HistoryInv, Good
  <2>2. PICK l \in Nat, m \in Nat : /\ l = Len(g) /\ m = Len(h)
                                    /\ DOMAIN g = 1 .. l /\ DOMAIN h = 1 .. m
    BY <2>1, SeqDomain
  <2>3. Quiet(g, l) /\ Quiet(h, m)
    BY <2>1, <2>2 DEF Quiet
  <2>4. PICK f : Path(f, g) /\ f[l] = transcripts[t].value.sponge
    BY <2>1, <2>2, <2>3 DEF LeadInv, Led
  <2>5. PICK p : Path(p, h) /\ p[m] = transcripts[u].value.sponge
    BY <2>1, <2>2, <2>3 DEF LeadInv, Led
  <2>6. PICK n \in Nat \ {0} : n = c /\ n <= l /\ n <= m
    <3>1. c \in 1 .. l /\ c \in 1 .. m
      BY <2>1, <2>2
    <3> QED BY <3>1
  <2>7. \A k \in 1 .. l : Leads(f[k - 1], g[k], f[k]) /\ Laid(f[k - 1]) /\ Quiet(g, k)
    <3> SUFFICES ASSUME NEW k \in 1 .. l
                 PROVE  Leads(f[k - 1], g[k], f[k]) /\ Laid(f[k - 1]) /\ Quiet(g, k)
      OBVIOUS
    <3>1. \A e \in 1 .. k : e \in 1 .. l
      OBVIOUS
    <3>2. Quiet(g, k) /\ k \in 1 .. Len(g)
      BY <2>2, <2>3, <3>1 DEF Quiet
    <3> QED BY <2>1, <2>4, <3>2, PathStep
  <2>8. \A k \in 1 .. m : Leads(p[k - 1], h[k], p[k]) /\ Laid(p[k - 1]) /\ Quiet(h, k)
    <3> SUFFICES ASSUME NEW k \in 1 .. m
                 PROVE  Leads(p[k - 1], h[k], p[k]) /\ Laid(p[k - 1]) /\ Quiet(h, k)
      OBVIOUS
    <3>1. \A e \in 1 .. k : e \in 1 .. m
      OBVIOUS
    <3>2. Quiet(h, k) /\ k \in 1 .. Len(h)
      BY <2>2, <2>3, <3>1 DEF Quiet
    <3> QED BY <2>1, <2>5, <3>2, PathStep
  <2>9. Apart(f[n], p[n])
    <3>1. PICK o \in Nat : /\ o = n - 1 /\ o <= Len(g) /\ o <= Len(h) /\ n \in 1 .. l /\ n \in 1 .. m
                           /\ \A k \in 1 .. o : k \in 1 .. n
      <4>1. n - 1 \in Nat /\ n - 1 <= Len(g) /\ n - 1 <= Len(h) /\ n \in 1 .. l /\ n \in 1 .. m
            /\ \A k \in 1 .. n - 1 : k \in 1 .. n
        BY <2>2, <2>6
      <4> QED BY <4>1
    <3>2. \A k \in 1 .. o : g[k] = h[k]
      <4>1. SubSeq(g, 1, o) = SubSeq(h, 1, o)
        BY <2>1, <2>6, <3>1
      <4> QED BY <2>1, <3>1, <4>1, SameBeginning
    <3>3. Quiet(g, o) /\ Quiet(h, o)
      <4>1. Quiet(g, n) /\ Quiet(h, n)
        BY <2>7, <2>8, <3>1
      <4> QED BY <3>1, <4>1 DEF Quiet
    <3>4. f[o] = p[o] \/ Apart(f[o], p[o])
      <4>1. \A k \in 1 .. o : g[k].op = h[k].op /\ g[k].size = h[k].size
        BY <3>2
      <4> QED BY <2>1, <2>4, <2>5, <3>1, <3>3, <4>1, PathsPart
    <3>5. PICK s, v : s = f[o] /\ v = p[o] /\ Leads(s, g[n], f[n]) /\ Leads(v, h[n], p[n])
                      /\ Laid(s) /\ Laid(v)
      BY <2>7, <2>8, <3>1
    <3>6. CASE s = v
      <4>1. g[n].op = h[n].op /\ g[n].op = "separate" /\ g[n] # h[n]
        BY <2>1, <2>6
      <4>2. Leads(s, h[n], p[n])
        BY <3>5, <3>6
      <4> QED BY <3>5, <4>1, <4>2, LeadsApart
    <3>7. CASE Apart(s, v)
      <4>1. Grown(s, f[n]) /\ Grown(v, p[n])
        BY <3>5, LeadsOn
      <4> QED BY <3>7, <4>1, StayApart
    <3> QED BY <3>4, <3>5, <3>6, <3>7
  <2>10. ASSUME NEW e \in n .. l, NEW d \in n .. m PROVE Apart(f[e], p[d])
    <3>1. l \in 0 .. Len(g) /\ m \in 0 .. Len(h) /\ n \in 0 .. l /\ n \in 0 .. m
      BY <2>2, <2>6
    <3>2. Grown(f[n], f[e])
      BY <2>1, <2>3, <2>4, <3>1, PathGrows
    <3>3. Grown(p[n], p[d])
      BY <2>1, <2>3, <2>5, <3>1, PathGrows
    <3> QED BY <2>9, <3>2, <3>3, StayApart
  <2>11. transcripts[t].value.sponge # transcripts[u].value.sponge
    <3>1. l \in n .. l /\ m \in n .. m
      BY <2>6
    <3>2. Apart(f[l], p[m])
      BY <2>10, <3>1
    <3> QED BY <2>4, <2>5, <3>2, ApartFromItself
  <2>12. DOMAIN g[n].answer = {} /\ DOMAIN h[n].answer = {}
    <3>1. n \in 1 .. l /\ n \in 1 .. m /\ g[n].op = "separate" /\ h[n].op = "separate"
      BY <2>1, <2>6
    <3>2. g[n].answer = <<>>
      BY <2>7, <3>1, PutsAre DEF Leads, Takes, IsSqueeze
    <3>3. h[n].answer = <<>>
      BY <2>8, <3>1, PutsAre DEF Leads, Takes, IsSqueeze
    <3>4. DOMAIN <<>> = {}
      OBVIOUS
    <3> QED BY <3>2, <3>3, <3>4
  <2>13. ASSUME NEW e \in n .. l, NEW d \in n .. m, NEW i \in DOMAIN g[e].answer,
                NEW k \in DOMAIN h[d].answer
         PROVE  g[e].answer[i] # h[d].answer[k]
    <3>1. e # n /\ d # n
      BY <2>12, <2>13
    <3>2. e \in 1 .. l /\ d \in 1 .. m /\ e - 1 \in n .. l /\ d - 1 \in n .. m
      BY <2>6, <3>1
    <3>3. Apart(f[e - 1], p[d - 1])
      BY <2>10, <3>2
    <3>4. PICK s, a : s = f[e - 1] /\ Leads(s, g[e], a) /\ Laid(s)
      BY <2>7, <3>2
    <3>5. PICK v, w : v = p[d - 1] /\ Leads(v, h[d], w) /\ Laid(v)
      BY <2>8, <3>2
    <3> QED BY <3>3, <3>4, <3>5, NothingInCommon
  <2>14. AnsweredFrom(n, g) \cap AnsweredFrom(n, h) = {}
    <3> SUFFICES ASSUME NEW x \in AnsweredFrom(n, g), x \in AnsweredFrom(n, h) PROVE FALSE
      OBVIOUS
    <3>1. PICK e \in n .. l : x \in ToSet(g[e].answer)
      BY <2>2 DEF AnsweredFrom
    <3>2. PICK d \in n .. m : x \in ToSet(h[d].answer)
      BY <2>2 DEF AnsweredFrom
    <3>3. PICK i \in DOMAIN g[e].answer, k \in DOMAIN h[d].answer :
            x = g[e].answer[i] /\ x = h[d].answer[k]
      BY <3>1, <3>2 DEF ToSet
    <3> QED BY <2>13, <3>3
  <2> QED BY <2>1, <2>6, <2>11, <2>14
<1> QED BY <1>1, LeadHolds, PTL
================================================================================
