----------------------------- MODULE AdcLinkInv -----------------------------
(***************************************************************************)
(* The inductive invariant behind the refinement of the abstract display   *)
(* by AdcLink.  The idea: a change of the light is seen at most a sample   *)
(* late, so the receiver's two times are the sender's up to Slack, and     *)
(* between two letters the last one is either printed as the end of a      *)
(* message or complete in the buffer, at a known distance from the edge    *)
(* that comes next.                                                        *)
(***************************************************************************)
EXTENDS AdcLink

-----------------------------------------------------------------------------
(* The samples                                                             *)

\* The longest that a change of the light can go unseen.
Slack == SAMPLE_RATE_MS + SampleLate

\* The receiver's task samples on time, and the buffer is looked at in time.
SampleInv ==
  /\ sampled <= now /\ now <= sampled + Slack
  /\ morse_buffer # <<>> =>
       /\ last_activity_time > 0 /\ last_activity_time <= sampled
       /\ sampled <= last_activity_time + TIMEOUT_MS

-----------------------------------------------------------------------------
(* The letter that is keyed                                                *)

Code(n) == sent[n].code

InLetter == control \in {"on", "off"}

SenderInv ==
  /\ light <=> control = "on"
  /\ IF control = "exited" THEN now >= wake ELSE now <= wake + OverSleep
  /\ InLetter => /\ sent # <<>>
                 /\ ci <= Len(message) /\ IsLetter(message[ci])
                 /\ Code(Len(sent)) = Morse
                 /\ si \in 1 .. Len(Morse)
                 /\ brk = "letter"
  /\ ~InLetter /\ brk = "letter" => control \in {"gap", "next", "exited"}
  /\ sent = <<>> => brk # "letter"
  /\ \A n \in 1 .. Len(sent) : /\ Len(Code(n)) \in 1 .. 5
                               /\ decode_morse(Code(n)) = sent[n].char

\* When the light changed last, during a letter.
Began == wake - (IF control = "on" THEN Duration(Morse[si]) ELSE symbol_gap_us)

\* All letters before the one that is keyed are printed, k of its symbols stored.
Stored(k) ==
  Len(out) = Len(sent) - 1 /\ morse_buffer = SubSeq(Code(Len(sent)), 1, k)

\* Letter n is complete and the next edge is at this time, late for its kind of
\* gap by so much: letter n is printed already, or about to be.
Pause(n, break, edge, late) ==
  \/ Len(out) = n /\ morse_buffer = <<>> /\ break # "letter"
  \/ /\ n > 0 /\ Len(out) = n - 1 /\ morse_buffer = Code(n)
     /\ gap_start_time > 0 /\ last_activity_time = gap_start_time
     /\ edge - gap_start_time >= letter_gap_us - Slack
     /\ break = "letter" => edge - gap_start_time <= letter_gap_us + late
     /\ break = "word" => edge - gap_start_time >= word_gap_us - Slack

\* What the next letter's break will be: a new process knows of no letter before.
NextBreak == IF control = "exited" /\ brk = "letter" THEN "idle" ELSE brk

-----------------------------------------------------------------------------
(* The changes of the light and the receiver's view of them                *)

LightInv ==
  control = "on" =>
    /\ Began <= now
    /\ light_on =>
         /\ Began <= light_start_time /\ light_start_time <= Began + Slack
         /\ last_activity_time = light_start_time /\ Stored(si - 1)
    /\ ~light_on =>
         /\ sampled <= Began
         /\ si = 1 => Pause(Len(sent) - 1, sent[Len(sent)].brk, Began, 2 * OverSleep)
         /\ si > 1 => /\ Stored(si - 1) /\ Began - gap_start_time <= symbol_gap_us + OverSleep
                      /\ last_activity_time = gap_start_time

DarkInv ==
  control = "off" =>
    /\ Began <= now
    /\ light_on =>
         /\ sampled <= Began /\ Stored(si - 1)
         /\ last_activity_time = light_start_time
         /\ Began - light_start_time >= Duration(Morse[si]) - Slack
         /\ Began - light_start_time <= Duration(Morse[si]) + OverSleep
    /\ ~light_on =>
         /\ Began <= gap_start_time /\ gap_start_time <= Began + Slack
         /\ gap_start_time > 0 /\ last_activity_time = gap_start_time /\ Stored(si)

BetweenInv == ~InLetter => ~light_on /\ Pause(Len(sent), NextBreak, wake, OverSleep)

\* What has been printed fits what was keyed; the end of a message ends a line.
Printed(k) ==
  /\ out[k].char = sent[k].char
  /\ IF k < Len(sent) THEN out[k].sep \in SeparatorFor(sent[k + 1].brk) ELSE out[k].sep = "\n"

PrintedInv == Len(out) <= Len(sent) /\ \A k \in 1 .. Len(out) : Printed(k)

LinkInv ==
  /\ TypeOK /\ SampleInv /\ SenderInv
  /\ LightInv /\ DarkInv /\ BetweenInv /\ PrintedInv
=============================================================================
