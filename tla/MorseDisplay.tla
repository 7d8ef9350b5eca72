---------------------------- MODULE MorseDisplay ----------------------------
(***************************************************************************)
(* What a Morse link promises, with no light, clock, edge or interrupt in  *)
(* it: letters are keyed, and each is displayed once, in order, followed   *)
(* by a separator that fits the gap before the next one.  A letter whose   *)
(* successor has not been keyed yet can only be displayed as the end of    *)
(* the message.                                                            *)
(***************************************************************************)
EXTENDS MorseCode, Naturals

VARIABLES sent, shown

displayVars == <<sent, shown>>

Init == sent = <<>> /\ shown = <<>>

Fits(n, separator) ==
  IF n < Len(sent) THEN separator \in SeparatorFor(sent[n + 1].brk)
                   ELSE separator = "\n"

\* The sender starts another letter.
Key ==
  /\ Len(sent') = Len(sent) + 1 /\ IsPrefix(sent, sent')
  /\ shown # <<>> /\ Len(shown) = Len(sent)
       => Last(shown).sep \in SeparatorFor(Last(sent').brk)
  /\ UNCHANGED shown

\* The receiver displays the next letter.
Show ==
  LET n == Len(shown) + 1
  IN  /\ n <= Len(sent)
      /\ \E separator \in Separator :
           /\ Fits(n, separator)
           /\ shown' = Append(shown, [char |-> sent[n].char, sep |-> separator])
      /\ UNCHANGED sent

Next == Key \/ Show

Spec == Init /\ [][Next]_displayVars

\* A display that does not keep a letter to itself.
FairSpec == Spec /\ WF_displayVars(Show)
=============================================================================
