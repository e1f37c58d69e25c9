----------------------------- MODULE ShellParse -----------------------------
(***************************************************************************)
(* The shell's parser, user/sh.c: gettoken(), peek(), the recursive descent *)
(* parse*() functions and nulterminate(), for every line that can be typed  *)
(* up to a length.                                                          *)
(*                                                                          *)
(* A line is a sequence of characters; "a" stands for any character of a    *)
(* word, "_" for white space.  A parsing function is given the position it  *)
(* has reached and returns [i, c, ok]: the position after it, the command   *)
(* it built, and FALSE for ok if it called panic().  A word is the pair of  *)
(* positions q, eq that gettoken() hands back.                              *)
(***************************************************************************)
EXTENDS Integers, Sequences, FiniteSets, SequencesExt

CONSTANTS MAXARGS, MaxLen
VARIABLES
  line, read,     \* what has been typed; has the shell read it?
  parsed          \* what parsecmd() made of it

NUL == "0"
symbols == {"<", "|", ">", "&", ";", "(", ")"}
Chars == symbols \cup {"a", "_"}

At(s, i) == IF i > Len(s) THEN NUL ELSE s[i]
SkipWhile(s, i, set) ==
  CHOOSE j \in i .. Len(s) + 1 : At(s, j) \notin set /\ \A k \in i .. j - 1 : s[k] \in set
Skip(s, i) == SkipWhile(s, i, {"_"})

(* gettoken(): the kind of token, where it starts and ends, what is next.  *)
TokenEnd(s, q) ==
  IF At(s, q) = ">" /\ At(s, q + 1) = ">" THEN q + 2
  ELSE IF At(s, q) \in symbols THEN q + 1
  ELSE SkipWhile(s, q, {"a"})
gettoken(s, i) ==
  LET token(q, eq) == [tok |-> IF At(s, q) = ">" /\ eq = q + 2 THEN "+" ELSE At(s, q),
                       q |-> q, eq |-> eq, i |-> Skip(s, eq)]
      from(q) == token(q, TokenEnd(s, q))
  IN from(Skip(s, i))

peek(s, i, toks) == At(s, Skip(s, i)) \in toks

(* execcmd(), redircmd(), pipecmd(), listcmd(), backcmd().                  *)
execcmd(argv) == [type |-> "EXEC", argv |-> argv]
redircmd(cmd, t, mode) == [type |-> "REDIR", cmd |-> cmd, file |-> <<t.q, t.eq>>, mode |-> mode]
pipecmd(l, r) == [type |-> "PIPE", left |-> l, right |-> r]
listcmd(l, r) == [type |-> "LIST", left |-> l, right |-> r]
backcmd(cmd) == [type |-> "BACK", cmd |-> cmd]

Got(i, c) == [i |-> i, c |-> c, ok |-> TRUE]
Panic(i) == [i |-> i, c |-> execcmd(<<>>), ok |-> FALSE]

RECURSIVE parseline(_, _), parsepipe(_, _), parseredirs(_, _, _), parseexec(_, _)

(* parseredirs(): each redirection wraps the ones before it.               *)
parseredirs(c, s, i) ==
  LET wrapped(op, file) == IF file.tok # "a" THEN Panic(i)
                           ELSE parseredirs(redircmd(c, file, op.tok), s, file.i)
      redir(op) == wrapped(op, gettoken(s, op.i))
  IN IF ~peek(s, i, {"<", ">"}) THEN Got(Skip(s, i), c) ELSE redir(gettoken(s, i))

(* parseblock().                                                           *)
parseblock(s, i) ==
  LET closed(body) == IF ~body.ok \/ ~peek(s, body.i, {")"}) THEN Panic(i)
                      ELSE parseredirs(body.c, s, gettoken(s, body.i).i)
  IN closed(parseline(s, gettoken(s, i).i))

(* The arguments go into the execcmd at the bottom of the redirections.    *)
RECURSIVE AddArg(_, _)
AddArg(c, w) ==
  IF c.type = "EXEC" THEN execcmd(Append(c.argv, w)) ELSE [c EXCEPT !.cmd = AddArg(c.cmd, w)]

(* The loop of parseexec().                                                *)
RECURSIVE ParseArgs(_, _, _)
ParseArgs(r, s, argc) ==
  LET arg(t) == IF t.tok = NUL THEN r
                ELSE IF t.tok # "a" \/ argc + 1 >= MAXARGS THEN Panic(r.i)
                ELSE ParseArgs(parseredirs(AddArg(r.c, <<t.q, t.eq>>), s, t.i), s, argc + 1)
  IN IF ~r.ok \/ peek(s, r.i, {"|", ")", "&", ";"}) THEN r ELSE arg(gettoken(s, r.i))

parseexec(s, i) ==
  IF peek(s, i, {"("}) THEN parseblock(s, i)
  ELSE ParseArgs(parseredirs(execcmd(<<>>), s, i), s, 0)

parsepipe(s, i) ==
  LET piped(l, r) == [r EXCEPT !.c = pipecmd(l.c, r.c)]
      rest(l) == IF ~l.ok \/ ~peek(s, l.i, {"|"}) THEN l
                 ELSE piped(l, parsepipe(s, gettoken(s, l.i).i))
  IN rest(parseexec(s, i))

RECURSIVE Backs(_, _)
Backs(r, s) == IF r.ok /\ peek(s, r.i, {"&"})
               THEN Backs(Got(gettoken(s, r.i).i, backcmd(r.c)), s) ELSE r

Mut_parseline(s, i) == Backs(parsepipe(s, i), s)
parseline(s, i) ==
  LET listed(l, r) == [r EXCEPT !.c = listcmd(l.c, r.c)]
      rest(l) == IF ~l.ok \/ ~peek(s, l.i, {";"}) THEN l
                 ELSE listed(l, parseline(s, gettoken(s, l.i).i))
  IN rest(Backs(parsepipe(s, i), s))

(* nulterminate(): the positions that get a NUL.                           *)
RECURSIVE nulterminate(_)
nulterminate(c) ==
  CASE c.type = "EXEC" -> {w[2] : w \in Range(c.argv)}
    [] c.type = "REDIR" -> nulterminate(c.cmd) \cup {c.file[2]}
    [] c.type = "BACK" -> nulterminate(c.cmd)
    [] OTHER -> nulterminate(c.left) \cup nulterminate(c.right)

(* parsecmd(): nothing may be left over.                                   *)
parsecmd(s) ==
  LET all(r) == [r EXCEPT !.ok = r.ok /\ Skip(s, r.i) = Len(s) + 1]
  IN all(parseline(s, 1))
-----------------------------------------------------------------------------
Init == line = <<>> /\ read = FALSE /\ parsed = Panic(1)
Type ==
  /\ ~read /\ Len(line) < MaxLen
  /\ \E c \in Chars : line' = Append(line, c)
  /\ UNCHANGED <<read, parsed>>
Enter == ~read /\ read' = TRUE /\ parsed' = parsecmd(line) /\ UNCHANGED line
Next == Type \/ Enter
Spec == Init /\ [][Next]_<<line, read, parsed>>
-----------------------------------------------------------------------------
(* The reference: the tokens of a line, and the grammar                     *)
(*   line -> pipe "&"* [";" line]      pipe -> exec ["|" pipe]               *)
(*   exec -> "(" line ")" redir*  |  (redir | word)*                         *)
Tokens(s) ==
  FoldLeft(LAMBDA ts, i :
    IF s[i] = "_" THEN ts
    ELSE IF s[i] = "a" /\ i > 1 /\ s[i - 1] = "a" THEN ts
    ELSE IF s[i] = ">" /\ i > 1 /\ s[i - 1] = ">" /\ ts[Len(ts)] = ">"
    THEN [ts EXCEPT ![Len(ts)] = "+"]
    ELSE Append(ts, s[i]), <<>>, [i \in 1 .. Len(s) |-> i])

IsRedirs(t) == Len(t) % 2 = 0 /\ \A i \in 1 .. Len(t) :
  t[i] \in IF i % 2 = 1 THEN {"<", ">", "+"} ELSE {"a"}
IsSimple(t) ==
  /\ \A i \in 1 .. Len(t) : /\ t[i] \in {"<", ">", "+", "a"}
                            /\ t[i] # "a" => i < Len(t) /\ t[i + 1] = "a"
  /\ Cardinality({i \in 1 .. Len(t) : t[i] = "a"}) < MAXARGS
       + Cardinality({i \in 1 .. Len(t) : t[i] # "a"})

RECURSIVE IsLine(_), IsPipe(_)
IsExec(t) ==
  \/ IsSimple(t)
  \/ \E i \in 2 .. Len(t) : /\ t[1] = "(" /\ t[i] = ")"
                            /\ IsLine(SubSeq(t, 2, i - 1))
                            /\ IsRedirs(SubSeq(t, i + 1, Len(t)))
IsPipe(t) ==
  \/ IsExec(t)
  \/ \E i \in 1 .. Len(t) : /\ t[i] = "|" /\ IsExec(SubSeq(t, 1, i - 1))
                            /\ IsPipe(SubSeq(t, i + 1, Len(t)))
IsLine(t) == \E i \in 0 .. Len(t) : \E j \in i .. Len(t) :
  /\ IsPipe(SubSeq(t, 1, i))
  /\ \A k \in i + 1 .. j : t[k] = "&"
  /\ j = Len(t) \/ (t[j + 1] = ";" /\ IsLine(SubSeq(t, j + 2, Len(t))))

(* The parser accepts the lines of the grammar and no others: neither the  *)
(* order of the peek()s nor a greedy loop loses a command.                 *)
ParsesTheGrammar == read => (parsed.ok <=> IsLine(Tokens(line)))

RECURSIVE Words(_)
Words(c) ==
  CASE c.type = "EXEC" -> Range(c.argv)
    [] c.type = "REDIR" -> Words(c.cmd) \cup {c.file}
    [] c.type = "BACK" -> Words(c.cmd)
    [] OTHER -> Words(c.left) \cup Words(c.right)

(* Every word of the line is an argument or a file name of the command,    *)
(* and after nulterminate() the string that starts at it is the word: a    *)
(* NUL stands right behind it and none inside it or any other word.        *)
WordsIntact ==
  LET nuls == nulterminate(parsed.c) \cup {Len(line) + 1}
      starts == {i \in 1 .. Len(line) : line[i] = "a" /\ (i = 1 \/ line[i - 1] # "a")}
      string(q) == q .. (CHOOSE e \in nuls : e >= q /\ \A d \in nuls : d >= q => e <= d) - 1
  IN read /\ parsed.ok =>
       /\ {w[1] : w \in Words(parsed.c)} = starts
       /\ \A q \in starts : string(q) = q .. SkipWhile(line, q, {"a"}) - 1

(* parsecmd() as a whole: the grammar, and the words it leaves behind.     *)
ParsesLines == ParsesTheGrammar /\ WordsIntact
=============================================================================
