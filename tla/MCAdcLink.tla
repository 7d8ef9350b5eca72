----------------------------- MODULE MCAdcLink -----------------------------
(* The polling link on short messages.  One unit of time is 25 ms.         *)
EXTENDS AdcLinkInv

M(s, r) == [message |-> s, repetitions |-> r]
Tiny == {M(<<"e", "!", "a">>, 1), M(<<"t", " ", "i">>, 1), M(<<"n">>, 2)}

\* The durations of this instance fit, as the theorems about the link assume.
ASSUME DurationsFit == TimingFits
=============================================================================
