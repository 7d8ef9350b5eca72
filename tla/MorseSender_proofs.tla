------------------------- MODULE MorseSender_proofs -------------------------
(***************************************************************************)
(* Facts about the codebook and the sender that the proofs about the two   *)
(* links rest on.                                                          *)
(***************************************************************************)
EXTENDS MorseSender, SequenceTheorems, TLAPS

-----------------------------------------------------------------------------
(* The codebook                                                            *)

LEMMA AlphabetDomain == DOMAIN Alphabet = 1 .. 36
BY DEF Alphabet

(* A pattern has at most one entry in the table, so decode_morse's search  *)
(* for the first one finds it.                                             *)
LEMMA DecodeEntry ==
  ASSUME NEW i \in DOMAIN Alphabet
  PROVE  decode_morse(morse_table[i]) = Alphabet[i]
<1> DEFINE matches == {j \in DOMAIN morse_table : morse_table[j] = morse_table[i]}
<1>1. matches = {i}
  BY TableAssumption
<1>2. \A k \in matches : (\A j \in matches : k <= j) <=> k = i
  BY <1>1, AlphabetDomain
<1>3. (CHOOSE k \in matches : \A j \in matches : k <= j) = i
  BY <1>1, <1>2
<1> QED
  BY <1>1, <1>3 DEF decode_morse

(* decode_morse returns a letter, a digit or "?", whatever the buffer has. *)
LEMMA DecodeType ==
  ASSUME NEW pattern
  PROVE  decode_morse(pattern) \in Letters \cup {Unknown}
<1> DEFINE matches == {i \in DOMAIN morse_table : morse_table[i] = pattern}
<1>1. CASE matches = {}
  BY <1>1 DEF decode_morse
<1>2. CASE matches # {}
  <2>1. PICK i \in DOMAIN Alphabet : pattern = morse_table[i]
    BY <1>2, TableAssumption
  <2> QED
    BY <2>1, DecodeEntry DEF Letters, ToSet
<1> QED
  BY <1>1, <1>2

(* What the sender keys for a character decodes to that character in upper *)
(* case.                                                                   *)
THEOREM Codebook ==
  ASSUME NEW c, IsLetter(c)
  PROVE  /\ toupper(c) \in Letters
         /\ get_morse_code(c) \in Seq(Symbol)
         /\ Len(get_morse_code(c)) \in 1 .. 5
         /\ decode_morse(get_morse_code(c)) = toupper(c)
<1>1. toupper(c) \in Letters
  BY DEF IsLetter, get_morse_code
<1>2. PICK i \in DOMAIN Alphabet :
        Alphabet[i] = toupper(c) /\ get_morse_code(c) = morse_table[i]
  BY <1>1 DEF get_morse_code, Letters, ToSet
<1> QED
  BY <1>1, <1>2, DecodeEntry, TableAssumption

LEMMA SomeSymbols ==
  ASSUME NEW c, Len(c) \in 1 .. 5
  PROVE  c # <<>>
<1>1. Len(<<>>) = 0 /\ ~(0 \in 1 .. 5)
  OBVIOUS
<1> QED
  BY <1>1

\* The symbols of a letter up to one more.
LEMMA OneMoreSymbol ==
  ASSUME NEW c \in Seq(Symbol), NEW j \in 1 .. Len(c), Len(c) \in 1 .. 5
  PROVE  /\ SubSeq(c, 1, j) = SubSeq(c, 1, j - 1) \o <<c[j]>>
         /\ Len(SubSeq(c, 1, j - 1)) = j - 1
         /\ Len(SubSeq(c, 1, j - 1)) < 5
         /\ c[j] \in Symbol
<1>1. Len(c) \in Nat /\ 1 \in 1 .. Len(c) /\ j \in Nat /\ j >= 1 /\ j <= 5
  <2> PICK len : len = Len(c)
    OBVIOUS
  <2>1. len \in 1 .. 5 /\ j \in 1 .. len
    OBVIOUS
  <2>2. len \in Nat /\ 1 \in 1 .. len /\ j \in Nat /\ j >= 1 /\ j <= 5
    BY ONLY <2>1
  <2> QED
    BY ONLY <2>2, len = Len(c)
<1>2. SubSeq(c, 1, j) = SubSeq(c, 1, j - 1) \o <<c[j]>>
  BY <1>1, SubSeqRecursiveSecond
<1>3. c[j] \in Symbol
  BY ElementOfSeq
<1>4. Len(SubSeq(c, 1, j - 1)) = j - 1
  BY <1>1
<1>5. j - 1 < 5
  BY <1>1
<1> QED
  BY <1>2, <1>3, <1>4, <1>5

-----------------------------------------------------------------------------
(* The sender                                                              *)

USE SenderAssumption

LEMMA CommandType ==
  ASSUME NEW c \in Commands
  PROVE  /\ c.message \in Seq(STRING)
         /\ c.repetitions \in Nat \ {0}
  OBVIOUS

LEMMA DurationType ==
  ASSUME NEW s
  PROVE  Duration(s) \in Nat /\ Duration(s) >= dot_duration_us
BY DEF Duration, dash_duration_us

\* A key stroke appends a well-formed letter.
LEMMA SentType ==
  ASSUME LineTypeOK, SenderTypeOK, StartLetter
  PROVE  sent' \in Seq(SentLetter)
<1>1. [char |-> toupper(message[ci]), code |-> Morse, brk |-> brk] \in SentLetter
  BY Codebook DEF StartLetter, Morse, SentLetter, SenderTypeOK
<1> QED
  BY <1>1 DEF StartLetter, LineTypeOK

\* The letter that a key stroke appends, and the letters that were there.
LEMMA KeyedLetter ==
  ASSUME LineTypeOK, SenderTypeOK, StartLetter,
         \A n \in 1 .. Len(sent) : /\ Len(sent[n].code) \in 1 .. 5
                                   /\ decode_morse(sent[n].code) = sent[n].char
  PROVE  /\ Len(sent') = Len(sent) + 1
         /\ \A n \in 1 .. Len(sent) : sent'[n] = sent[n]
         /\ sent'[Len(sent')] = [char |-> toupper(message[ci]), code |-> Morse, brk |-> brk]
         /\ Len(Morse) \in 1 .. 5
         /\ \A n \in 1 .. Len(sent') : /\ Len(sent'[n].code) \in 1 .. 5
                                      /\ decode_morse(sent'[n].code) = sent'[n].char
<1> DEFINE new == [char |-> toupper(message[ci]), code |-> Morse, brk |-> brk]
<1>1. /\ new \in SentLetter /\ Len(Morse) \in 1 .. 5
      /\ decode_morse(Morse) = toupper(message[ci])
  BY Codebook DEF StartLetter, Morse, SentLetter, SenderTypeOK
<1>2. sent' = Append(sent, new) /\ sent \in Seq(SentLetter)
  BY DEF StartLetter, LineTypeOK
<1>3. /\ Len(sent') = Len(sent) + 1 /\ Len(sent) \in Nat
      /\ \A n \in 1 .. Len(sent) : sent'[n] = sent[n]
      /\ sent'[Len(sent')] = new
  <2> HIDE DEF new
  <2> QED
    BY <1>1, <1>2
<1>4. new.code = Morse /\ new.char = toupper(message[ci])
  OBVIOUS
<1>5. ASSUME NEW n \in 1 .. Len(sent')
      PROVE  Len(sent'[n].code) \in 1 .. 5 /\ decode_morse(sent'[n].code) = sent'[n].char
  <2> HIDE DEF new
  <2>1. CASE n \in 1 .. Len(sent)
    BY <1>3, <2>1
  <2>2. CASE n = Len(sent')
    BY <1>1, <1>3, <1>4, <2>2
  <2> QED
    BY <1>3, <2>1, <2>2
<1> QED
  BY <1>1, <1>3, <1>5

LEMMA SenderType ==
  ASSUME LineTypeOK, SenderTypeOK, SenderNext
  PROVE  LineTypeOK' /\ SenderTypeOK'
<1> USE DEF LineTypeOK, SenderTypeOK
<1>1. now' \in Nat \ {0}
  BY DEF SenderNext
<1>2. light' \in BOOLEAN
  BY DEF SenderNext, SenderRuns, Launch, LaunchFails, SkipCharacter, SendSpace,
         StartLetter, EndSymbol, StartSymbol, EndLetter, NextCharacter, Repeat,
         NextRepetition, Exit
<1> USE <1>1, <1>2
<1>3. CASE Launch
  BY <1>3 DEF Launch, Break
<1>4. CASE LaunchFails
  BY <1>4 DEF LaunchFails
<1>5. CASE SkipCharacter
  BY <1>5 DEF SkipCharacter
<1>6. CASE SendSpace
  BY <1>6 DEF SendSpace, Sleep, Break, word_gap_us, letter_gap_us
<1>7. CASE StartLetter
  BY <1>7, SentType, DurationType DEF StartLetter, Sleep, Break
<1>8. CASE EndSymbol
  BY <1>8 DEF EndSymbol, Sleep, symbol_gap_us
<1>9. CASE StartSymbol
  BY <1>9, DurationType DEF StartSymbol, Sleep
<1>10. CASE EndLetter
  BY <1>10 DEF EndLetter, Sleep, letter_gap_us, symbol_gap_us
<1>11. CASE NextCharacter
  BY <1>11 DEF NextCharacter
<1>12. CASE Repeat
  BY <1>12 DEF Repeat, Sleep, Break
<1>13. CASE NextRepetition
  BY <1>13 DEF NextRepetition
<1>14. CASE Exit
  BY <1>14 DEF Exit
<1> QED
  BY <1>3, <1>4, <1>5, <1>6, <1>7, <1>8, <1>9, <1>10, <1>11, <1>12, <1>13, <1>14
     DEF SenderNext, SenderRuns
=============================================================================
