------------------------------ MODULE Console -------------------------------
(***************************************************************************)
(* kernel/console.c, input: the interrupt handler consoleintr() edits the  *)
(* line being typed in a ring with three indices, and consoleread() takes  *)
(* whole lines from it.  consoleread() holds cons.lock from acquire() to   *)
(* sleep() or release(); each character it copies is a step, the handler   *)
(* runs in one.  The indices are unsigned and wrap at UINT.  Echoing is    *)
(* uartputc_sync() of Uart.                                                *)
(***************************************************************************)
EXTENDS Integers, Sequences, FiniteSets

CONSTANTS Readers,          \* processes that read() the console
          Nobody,           \* nobody holds cons.lock
          INPUT_BUF_SIZE,
          UINT,             \* 2^32
          MaxN              \* largest n a reader asks for

Keys == {"x", "newline", "return", "eof", "kill", "backspace"}

VARIABLES
  buf, r, w, e,     \* struct cons
  lock,             \* holder of cons.lock
  at, n, target,    \* each reader's place and locals
  killed            \* p->killed

ring == <<buf, r, w, e>>
vars == <<buf, r, w, e, lock, at, n, target, killed>>

Distance(i, j) == (j - i) % UINT
Slot(i) == i % INPUT_BUF_SIZE
Wake == [p \in Readers |-> IF at[p] = "asleep" THEN "acquire" ELSE at[p]]
Ends(c) == c \in {"newline", "eof"}

----------------------------------------------------------------------------
\* consoleintr(c)

\* C('U'): erase back to the start of the line.
KillLine ==
  /\ lock = Nobody
  /\ e' = CHOOSE i \in 0..(UINT - 1) :
            /\ Distance(w, i) <= Distance(w, e)
            /\ i = w \/ buf[Slot((i - 1) % UINT)] = "newline"
            /\ \A j \in 0..(UINT - 1) :
                 Distance(w, i) < Distance(w, j) /\ Distance(w, j) <= Distance(w, e) =>
                   buf[Slot((j - 1) % UINT)] # "newline"
  /\ UNCHANGED <<buf, r, w, lock, at, n, target, killed>>

Mut_Backspace ==
  /\ lock = Nobody /\ e # r
  /\ e' = (e - 1) % UINT
  /\ UNCHANGED <<buf, r, w, lock, at, n, target, killed>>

\* C('H') and delete
Backspace ==
  /\ lock = Nobody /\ e # w
  /\ e' = (e - 1) % UINT
  /\ UNCHANGED <<buf, r, w, lock, at, n, target, killed>>

\* Any other character, if there is room: store it, and publish the line and
\* wake the readers if it ends here or the ring is full.
Type(key) ==
  /\ lock = Nobody /\ Distance(r, e) < INPUT_BUF_SIZE
  /\ LET c == IF key = "return" THEN "newline" ELSE key IN
       /\ buf' = [buf EXCEPT ![Slot(e)] = c]
       /\ e' = (e + 1) % UINT
       /\ IF Ends(c) \/ Distance(r, e') = INPUT_BUF_SIZE
          THEN w' = e' /\ at' = Wake
          ELSE UNCHANGED <<w, at>>
  /\ UNCHANGED <<r, lock, n, target, killed>>

ConsoleIntr(key) ==
  CASE key = "kill" -> KillLine
    [] key = "backspace" -> Backspace
    [] OTHER -> Type(key)

----------------------------------------------------------------------------
\* consoleread(n)

\* release() and return; the locals are dead.
Return(p) ==
  /\ lock' = Nobody /\ at' = [at EXCEPT ![p] = "user"]
  /\ n' = [n EXCEPT ![p] = 0] /\ target' = [target EXCEPT ![p] = 0]

Read(p, k) ==
  /\ at[p] = "user" /\ ~killed[p]
  /\ n' = [n EXCEPT ![p] = k] /\ target' = [target EXCEPT ![p] = k]
  /\ at' = [at EXCEPT ![p] = "acquire"]
  /\ UNCHANGED <<ring, lock, killed>>

Acquire(p) ==
  /\ at[p] = "acquire" /\ lock = Nobody
  /\ lock' = p
  /\ at' = [at EXCEPT ![p] = "loop"]
  /\ UNCHANGED <<ring, n, target, killed>>

\* Nothing to read and killed: return -1.  All n bytes copied: return them.
ReadEnds(p) ==
  /\ at[p] = "loop" /\ (n[p] = 0 \/ (r = w /\ killed[p]))
  /\ Return(p)
  /\ UNCHANGED <<ring, killed>>

\* Nothing to read: killed(p) is false now, but may become true before
\* sleep() has taken p->lock.
ReadWaits(p) ==
  /\ at[p] = "loop" /\ n[p] > 0 /\ r = w /\ ~killed[p]
  /\ at' = [at EXCEPT ![p] = "presleep"]
  /\ UNCHANGED <<ring, lock, n, target, killed>>

ReadSleeps(p) ==
  /\ at[p] = "presleep"
  /\ lock' = Nobody
  /\ at' = [at EXCEPT ![p] = "asleep"]
  /\ UNCHANGED <<ring, n, target, killed>>

\* ^D ends the call; if it has copied something, ^D stays for the next one.
ReadEof(p) ==
  /\ at[p] = "loop" /\ n[p] > 0 /\ r # w /\ buf[Slot(r)] = "eof"
  /\ r' = IF n[p] < target[p] THEN r ELSE (r + 1) % UINT
  /\ Return(p)
  /\ UNCHANGED <<buf, w, e, killed>>

\* Copy a character out; a newline ends the call.
ReadChar(p) ==
  /\ at[p] = "loop" /\ n[p] > 0 /\ r # w /\ buf[Slot(r)] # "eof"
  /\ r' = (r + 1) % UINT
  /\ IF buf[Slot(r)] = "newline"
     THEN Return(p)
     ELSE n' = [n EXCEPT ![p] = @ - 1] /\ UNCHANGED <<lock, at, target>>
  /\ UNCHANGED <<buf, w, e, killed>>

\* either_copyout() fails: the character is consumed but not counted.
ReadFault(p) ==
  /\ at[p] = "loop" /\ n[p] > 0 /\ r # w /\ buf[Slot(r)] # "eof"
  /\ r' = (r + 1) % UINT
  /\ Return(p)
  /\ UNCHANGED <<buf, w, e, killed>>

Kill(p) ==
  /\ ~killed[p]
  /\ killed' = [killed EXCEPT ![p] = TRUE]
  /\ at' = [at EXCEPT ![p] = IF @ = "asleep" THEN "acquire" ELSE @]
  /\ UNCHANGED <<ring, lock, n, target>>

Init ==
  /\ buf = [i \in 0..(INPUT_BUF_SIZE - 1) |-> "x"]
  /\ r = 0 /\ w = 0 /\ e = 0 /\ lock = Nobody
  /\ at = [p \in Readers |-> "user"]
  /\ n = [p \in Readers |-> 0] /\ target = [p \in Readers |-> 0]
  /\ killed = [p \in Readers |-> FALSE]

ConsoleRead(p) ==
  Acquire(p) \/ ReadEnds(p) \/ ReadWaits(p) \/ ReadSleeps(p) \/ ReadEof(p) \/ ReadChar(p) \/ ReadFault(p)
Next ==
  \/ \E key \in Keys : ConsoleIntr(key)
  \/ \E p \in Readers : ConsoleRead(p) \/ Kill(p) \/ \E k \in 1..MaxN : Read(p, k)
Spec == Init /\ [][Next]_vars

----------------------------------------------------------------------------
Places == {"user", "acquire", "loop", "presleep", "asleep"}
TypeOK ==
  /\ buf \in [0..(INPUT_BUF_SIZE - 1) -> {"x", "newline", "eof"}]
  /\ {r, w, e} \subseteq 0..(UINT - 1) /\ lock \in Readers \union {Nobody}
  /\ at \in [Readers -> Places] /\ n \in [Readers -> 0..MaxN] /\ killed \in [Readers -> BOOLEAN]

\* The contents of the ring between two indices.
Between(i, j) == [k \in 1..Distance(i, j) |-> buf[Slot(i + k - 1)]]

\* The ring of consoleintr() and consoleread() implements line input: edits
\* reach only the line being typed, readers get what was typed in order, and
\* nothing is lost or repeated when the indices wrap or the ring is full.
Input == INSTANCE LineInput WITH Size <- INPUT_BUF_SIZE, ready <- Between(r, w), line <- Between(w, e)
ImplementsLineInput == Input!Spec

\* A reader sleeps only while there is nothing to read, so it has not missed
\* a wakeup; and a full ring, which accepts no more keys, always has
\* something to read, so keyboard and reader never wait for each other.
NoInputStuck ==
  /\ \A p \in Readers : at[p] = "asleep" => r = w
  /\ Distance(r, e) = INPUT_BUF_SIZE => r # w

(* The console as a whole: it implements line input, and keyboard and      *)
(* reader never wait for each other.                                       *)
ConsoleCorrect == ImplementsLineInput /\ [](TypeOK /\ NoInputStuck)
=============================================================================
