----------------------------- MODULE MorseCode -----------------------------
(***************************************************************************)
(* The Morse alphabet every lab 5 program carries a copy of, the sender's  *)
(* lookup (get_morse_code) and the receivers' lookup (decode_morse).       *)
(*                                                                         *)
(* A character is a one-letter string, a pattern is a sequence of "." and  *)
(* "-".  The C string "/" that stands for a space is the model value       *)
(* WordSeparator, a NULL result is NoCode.                                 *)
(***************************************************************************)
EXTENDS Naturals, Sequences, SequencesExt

Dot == "."
Dash == "-"
Symbol == {Dot, Dash}

Alphabet == << "A", "B", "C", "D", "E", "F", "G", "H", "I", "J", "K", "L", "M",
               "N", "O", "P", "Q", "R", "S", "T", "U", "V", "W", "X", "Y", "Z",
               "0", "1", "2", "3", "4", "5", "6", "7", "8", "9" >>

LowerCase == << "a", "b", "c", "d", "e", "f", "g", "h", "i", "j", "k", "l", "m",
                "n", "o", "p", "q", "r", "s", "t", "u", "v", "w", "x", "y", "z" >>

morse_table ==
  << <<Dot, Dash>>,                    <<Dash, Dot, Dot, Dot>>,
     <<Dash, Dot, Dash, Dot>>,         <<Dash, Dot, Dot>>,
     <<Dot>>,                          <<Dot, Dot, Dash, Dot>>,
     <<Dash, Dash, Dot>>,              <<Dot, Dot, Dot, Dot>>,
     <<Dot, Dot>>,                     <<Dot, Dash, Dash, Dash>>,
     <<Dash, Dot, Dash>>,              <<Dot, Dash, Dot, Dot>>,
     <<Dash, Dash>>,                   <<Dash, Dot>>,
     <<Dash, Dash, Dash>>,             <<Dot, Dash, Dash, Dot>>,
     <<Dash, Dash, Dot, Dash>>,        <<Dot, Dash, Dot>>,
     <<Dot, Dot, Dot>>,                <<Dash>>,
     <<Dot, Dot, Dash>>,               <<Dot, Dot, Dot, Dash>>,
     <<Dot, Dash, Dash>>,              <<Dash, Dot, Dot, Dash>>,
     <<Dash, Dot, Dash, Dash>>,        <<Dash, Dash, Dot, Dot>>,
     <<Dash, Dash, Dash, Dash, Dash>>, <<Dot, Dash, Dash, Dash, Dash>>,
     <<Dot, Dot, Dash, Dash, Dash>>,   <<Dot, Dot, Dot, Dash, Dash>>,
     <<Dot, Dot, Dot, Dot, Dash>>,     <<Dot, Dot, Dot, Dot, Dot>>,
     <<Dash, Dot, Dot, Dot, Dot>>,     <<Dash, Dash, Dot, Dot, Dot>>,
     <<Dash, Dash, Dash, Dot, Dot>>,   <<Dash, Dash, Dash, Dash, Dot>> >>

Letters == ToSet(Alphabet)

\* The table gives every character a pattern of its own, of at most five symbols.
ASSUME TableAssumption ==
  /\ DOMAIN morse_table = DOMAIN Alphabet
  /\ \A i \in DOMAIN Alphabet :
       /\ morse_table[i] \in Seq(Symbol)
       /\ Len(morse_table[i]) \in 1 .. 5
       /\ \A j \in DOMAIN Alphabet : morse_table[i] = morse_table[j] => i = j

NoCode == <<>>              \* get_morse_code returned NULL
WordSeparator == << "/" >>  \* get_morse_code returned "/"
Unknown == "?"              \* decode_morse: no entry matches

toupper(c) ==
  IF c \in ToSet(LowerCase)
  THEN Alphabet[CHOOSE i \in DOMAIN LowerCase : LowerCase[i] = c]
  ELSE c

\* The sender's lookup.
get_morse_code(c) ==
  LET u == toupper(c)
  IN  IF u \in Letters
      THEN morse_table[CHOOSE i \in DOMAIN Alphabet : Alphabet[i] = u]
      ELSE IF u = " " THEN WordSeparator ELSE NoCode

\* The receiver's lookup: the first entry that matches, "?" when none does.
\* It is never called with an empty pattern.
decode_morse(pattern) ==
  LET matches == {i \in DOMAIN morse_table : morse_table[i] = pattern}
  IN  IF matches = {} THEN Unknown
      ELSE Alphabet[CHOOSE i \in matches : \A j \in matches : i <= j]

IsLetter(c) == get_morse_code(c) \notin {NoCode, WordSeparator}

-----------------------------------------------------------------------------
(* The vocabulary of the two ends of a transmission.                       *)

(* The gap before a letter: the one inside a word, one of at least seven   *)
(* dots, or whatever passed between two runs of the program.               *)
Break == {"letter", "word", "idle"}

SentLetter == [char : Letters, code : Seq(Symbol), brk : Break]

\* A receiver prints a letter followed by "", " " or "\n".
Separator == {"", " ", "\n"}

(* The separators that fit the gap between a printed letter and the next.  *)
SeparatorFor(brk) ==
  CASE brk = "letter" -> {""}
    [] brk = "word"   -> {" ", "\n"}
    [] brk = "idle"   -> Separator
=============================================================================
