------------------------------ MODULE DuplexCalls ------------------------------
(***************************************************************************)
(* A duplex sponge as its callers see it: add_field_elements and           *)
(* get_field_elements of a Transcript, each one step.  Transcripts are     *)
(* built from these two operators; SpongeAtomic shows that the loops of    *)
(* GriffinSponge implement them.                                           *)
(*                                                                         *)
(* The permutation is free: a permuted state is known by the rate parts    *)
(* that went into it, one block per permutation.                           *)
(***************************************************************************)
EXTENDS Integers, Sequences

CONSTANTS
  Rate,      \* length of the rate part
  Zero       \* the element zero

\* open: what was added since the last permutation; index: how many elements of the
\* permuted state were squeezed
NewSponge == [blocks |-> <<>>, mode |-> "absorbing", open |-> <<>>, index |-> 0]

Padded(part) == [j \in 1 .. Rate |-> IF j <= Len(part) THEN part[j] ELSE Zero]

\* The last block is permuted only when an element or a squeeze is still to come.
Absorb(s, elements) ==
  LET all == s.open \o elements
      full == (Len(all) - 1) \div Rate
  IN  IF elements = <<>>
      THEN s
      ELSE [blocks |-> s.blocks \o [b \in 1 .. full |-> SubSeq(all, (b - 1) * Rate + 1, b * Rate)],
            mode |-> "absorbing",
            open |-> SubSeq(all, full * Rate + 1, Len(all)),
            index |-> 0]

\* The state that a squeeze of n elements starts from
Ready(s) ==
  IF s.mode = "absorbing"
  THEN [blocks |-> Append(s.blocks, Padded(s.open)), mode |-> "squeezing",
        open |-> <<>>, index |-> 0]
  ELSE IF s.index = Rate
       THEN [s EXCEPT !.blocks = Append(@, Padded(<<>>)), !.index = 0]
       ELSE s

Permuted(s, times) == s.blocks \o [b \in 1 .. times |-> Padded(<<>>)]

\* Mutant: the next call starts at the same lane
MutSqueezeAgain(s, n) == Ready(s)

Squeeze(s, n) ==
  LET r == Ready(s)
      times == IF n = 0 THEN 0 ELSE (r.index + n - 1) \div Rate
  IN  [r EXCEPT !.blocks = Permuted(r, times), !.index = r.index + n - times * Rate]

\* The n elements that Squeeze(s, n) returns, each known by its state and its lane
Squeezed(s, n) ==
  LET r == Ready(s)
  IN  [k \in 1 .. n |->
         LET at == r.index + k - 1
         IN  [state |-> Permuted(r, at \div Rate), lane |-> at % Rate]]
=============================================================================
