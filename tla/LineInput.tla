----------------------------- MODULE LineInput ------------------------------
(***************************************************************************)
(* What the console promises of its input: characters typed are edited on  *)
(* a line of their own, and become readable, in the order typed, when the  *)
(* line ends or the buffer is full; what is readable cannot be edited.     *)
(***************************************************************************)
EXTENDS Naturals, Sequences

CONSTANTS Size,        \* characters the console holds
          Ends(_)      \* does this character end a line?

VARIABLES ready,   \* characters that read() can take
          line     \* characters that can still be edited

vars == <<ready, line>>
Room == Size - Len(ready) - Len(line)

\* A character is typed; it ends the line, or fills the buffer, or neither.
Type(c) ==
  /\ Room > 0
  /\ IF Ends(c) \/ Room = 1
     THEN ready' = ready \o Append(line, c) /\ line' = <<>>
     ELSE line' = Append(line, c) /\ UNCHANGED ready

\* The last character, or the line, is erased.
Erase == line # <<>> /\ line' = SubSeq(line, 1, Len(line) - 1) /\ UNCHANGED ready
EraseLine == line' = <<>> /\ UNCHANGED ready

\* A reader takes the oldest readable character.
Take == ready # <<>> /\ ready' = Tail(ready) /\ UNCHANGED line

Init == ready = <<>> /\ line = <<>>
Next == (\E c \in {"x", "newline", "eof"} : Type(c)) \/ Erase \/ EraseLine \/ Take
Spec == Init /\ [][Next]_vars
=============================================================================
