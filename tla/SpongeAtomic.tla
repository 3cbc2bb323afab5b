----------------------------- MODULE SpongeAtomic -----------------------------
(***************************************************************************)
(* The loops of GriffinSponge implement the calls of SpongeCalls: a call   *)
(* takes effect when it starts, and every iteration brings the state to    *)
(* where the call will leave it.                                           *)
(***************************************************************************)
EXTENDS Sponge

D == INSTANCE DuplexCalls

Standing(kind, at) ==
  [blocks |-> blocks, mode |-> kind,
   open |-> IF kind = "absorbing" THEN SubSeq(lanes, 1, at) ELSE <<>>,
   index |-> IF kind = "squeezing" THEN at ELSE 0]

\* The state once the loop that runs has ended
Ended ==
  CASE doing = "absorbing" -> D!Absorb(Standing("absorbing", start), rest)
    [] doing = "squeezing" -> D!Squeeze(Standing("squeezing", start), wanted)
    [] doing = "nothing" -> Standing(mode, index)

Atomic == INSTANCE SpongeCalls WITH s <- Ended

\* Every step of the loops is a call of the duplex sponge, which takes effect at once, or
\* changes nothing that a later call can see.
CallsAreAtomic == Atomic!Spec
=============================================================================
