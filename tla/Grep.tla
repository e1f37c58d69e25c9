-------------------------------- MODULE Grep --------------------------------
(***************************************************************************)
(* user/grep.c: the regular expression matcher, and the loop that reads its *)
(* input in pieces of any length and prints the lines that match.           *)
(***************************************************************************)
EXTENDS Integers, Sequences, FiniteSets, SequencesExt

CONSTANTS
  BufSize,        \* sizeof(buf)
  Patterns, Inputs

VARIABLES
  re, input,      \* the pattern, and all of the input
  rest,           \* the input that read() has still to return
  buf, out,       \* buf[0..m-1]; what was written
  done

vars == <<re, input, rest, buf, out, done>>
NL == "n"
End(s) == s = <<>>                 \* *s == '\0'
-----------------------------------------------------------------------------
RECURSIVE matchhere(_, _), matchstar(_, _, _)
matchhere(r, text) ==
  IF End(r) THEN TRUE
  ELSE IF Len(r) > 1 /\ r[2] = "*" THEN matchstar(r[1], SubSeq(r, 3, Len(r)), text)
  ELSE IF r = <<"$">> THEN End(text)
  ELSE ~End(text) /\ r[1] \in {".", text[1]} /\ matchhere(Tail(r), Tail(text))

Mut_matchstar(c, r, text) ==
  ~End(text) /\ c \in {".", text[1]} /\ (matchhere(r, Tail(text)) \/ matchstar(c, r, Tail(text)))
matchstar(c, r, text) ==
  \/ matchhere(r, text)
  \/ ~End(text) /\ c \in {".", text[1]} /\ matchstar(c, r, Tail(text))

match(r, text) ==
  IF ~End(r) /\ r[1] = "^" THEN matchhere(Tail(r), text)
  ELSE \E i \in 1 .. Len(text) + 1 : matchhere(r, SubSeq(text, i, Len(text)))
-----------------------------------------------------------------------------
Init ==
  /\ re \in Patterns /\ input \in Inputs
  /\ rest = input /\ buf = <<>> /\ out = <<>> /\ done = FALSE

(* The inner loop: the complete lines of b are matched and taken out.      *)
RECURSIVE TakeLines(_, _)
TakeLines(b, written) ==
  LET ends == {i \in 1 .. Len(b) : b[i] = NL}
      q == CHOOSE i \in ends : \A j \in ends : i <= j
      text == SubSeq(b, 1, q - 1)
  IN IF ends = {} THEN [buf |-> b, out |-> written]
     ELSE TakeLines(SubSeq(b, q + 1, Len(b)),
                    IF match(re, text) THEN written \o SubSeq(b, 1, q) ELSE written)

(* How much the next read() asks for.                                      *)
Room(b) == BufSize - Len(b) - 1

(* One turn of the loop: read() returns a piece that fits, of any length.  *)
Read == \E n \in 1 .. Room(buf) :
  LET r == TakeLines(buf \o SubSeq(rest, 1, n), out)
  IN /\ ~done /\ n <= Len(rest)
     /\ rest' = SubSeq(rest, n + 1, Len(rest))
     /\ buf' = r.buf /\ out' = r.out
     /\ UNCHANGED <<re, input, done>>

(* read() returns 0: there is no more input, or no room left in buf.       *)
ReadNothing ==
  /\ ~done /\ (End(rest) \/ Room(buf) = 0)
  /\ done' = TRUE
  /\ UNCHANGED <<re, input, rest, buf, out>>

Next == Read \/ ReadNothing \/ (done /\ UNCHANGED vars)
Spec == Init /\ [][Next]_vars
-----------------------------------------------------------------------------
(* The reference matcher: a pattern is a sequence of items, a character    *)
(* and whether it is starred; Reach is the set of positions in the text    *)
(* that the items can have matched up to.                                  *)
RECURSIVE Items(_)
Items(r) ==
  IF End(r) THEN <<>>
  ELSE IF Len(r) > 1 /\ r[2] = "*" THEN <<[c |-> r[1], star |-> TRUE]>> \o Items(SubSeq(r, 3, Len(r)))
  ELSE <<[c |-> r[1], star |-> FALSE]>> \o Items(Tail(r))

Reach(items, text, from) ==
  FoldLeft(LAMBDA S, it :
    {j \in 0 .. Len(text) : \E i \in S :
       /\ IF it.star THEN i <= j ELSE j = i + 1
       /\ \A k \in i + 1 .. j : it.c \in {".", text[k]}}, from, items)

RefMatch(r, text) ==
  LET body == IF ~End(r) /\ r[1] = "^" THEN Tail(r) ELSE r
      all == Items(body)
      atEnd == all # <<>> /\ all[Len(all)] = [c |-> "$", star |-> FALSE]
      items == IF atEnd THEN SubSeq(all, 1, Len(all) - 1) ELSE all
      reach == Reach(items, text, IF body = r THEN 0 .. Len(text) ELSE {0})
  IN IF atEnd THEN Len(text) \in reach ELSE reach # {}

(* Whatever pieces the input arrives in, grep prints the lines that match  *)
(* and no others, whole and in their order: those that end in a newline    *)
(* and fit in the buffer.                                                  *)
PrintsMatchingLines ==
  LET ends == {i \in 1 .. Len(input) : input[i] = NL}
      start(q) == CHOOSE i \in 1 .. q : (i = 1 \/ i - 1 \in ends) /\ \A k \in i .. q - 1 : k \notin ends
      fits == \A i \in 1 .. Len(input) - BufSize + 2 : \E k \in i .. i + BufSize - 2 : k \in ends
      expected == FoldLeft(LAMBDA s, q :
                    IF q \in ends /\ RefMatch(re, SubSeq(input, start(q), q - 1))
                    THEN s \o SubSeq(input, start(q), q) ELSE s, <<>>, [i \in 1 .. Len(input) |-> i])
  IN done /\ fits => out = expected
=============================================================================
