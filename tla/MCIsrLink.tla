----------------------------- MODULE MCIsrLink -----------------------------
(***************************************************************************)
(* The interrupt-driven link on short messages, in coarse units of time:   *)
(* a dot is 4 units in the runs where a duration's limits matter, 2 units  *)
(* in the runs about the queue and the interrupt.                          *)
(***************************************************************************)
EXTENDS IsrLinkInv

M(s, r) == [message |-> s, repetitions |-> r]

\* A character without a code, a space, a repetition.
Short == {M(<<"e", "!", "a", " ", "t">>, 1), M(<<"n">>, 2)}
Eat == {M(<<"e", "a", "t">>, 1)}
\* Sent by two launches, with any pause between them.
Words == {M(<<"e", " ", "e">>, 1), M(<<"i">>, 1)}
Spaced == {M(<<" ", "e">>, 1), M(<<"t">>, 1)}
=============================================================================
