------------------------------- MODULE Printf -------------------------------
(***************************************************************************)
(* Kernel messages: printf() and panic() (kernel/printf.c) of several      *)
(* harts, down to the bytes that consputc() and uartputc_sync() send.      *)
(*                                                                         *)
(* pr.lock keeps concurrent messages apart; panic() must get its message   *)
(* out whoever holds that lock, itself included, so it turns the locking   *)
(* off, and then freezes the output of the other harts.  A message is its  *)
(* length; formatting is left out.                                         *)
(***************************************************************************)
EXTENDS Integers, Sequences, FiniteSets

CONSTANTS
  Harts,
  Nobody,
  MsgLen,       \* bytes of a message
  MaxMessages   \* bound: messages that printf() prints in all

VARIABLES
  locking,    \* pr.locking
  lock,       \* the holder of pr.lock, or Nobody
  panicked,
  pc,         \* hart -> where it is
  took,       \* hart -> printf()'s local variable locking
  left,       \* hart -> bytes of the message still to send
  dying,      \* hart -> it is in panic()
  messages,   \* messages begun by printf()
  out,        \* the bytes on the wire, as <<hart, bytes that were left>>
  frozenAt    \* how many bytes were out when panicked was set

vars == <<locking, lock, panicked, pc, took, left, dying, messages, out, frozenAt>>

Idle ==
  /\ lock = Nobody
  /\ panicked = FALSE
  /\ pc = [h \in Harts |-> "idle"]
  /\ took = [h \in Harts |-> FALSE]
  /\ left = [h \in Harts |-> 0]
  /\ dying = [h \in Harts |-> FALSE]
  /\ messages = 0
  /\ out = <<>>
  /\ frozenAt = 0

\* After printfinit(), before which only hart 0 runs.
Init == Idle /\ locking = TRUE

Goto(h, at) == pc' = [pc EXCEPT ![h] = at]

---------------------------------------------------------------------------
(* printf() up to the acquire; panic() calls it too. *)

Enter(h, lk) ==
  /\ took' = [took EXCEPT ![h] = lk]
  /\ left' = [left EXCEPT ![h] = MsgLen]
  /\ Goto(h, IF lk THEN "acquire" ELSE "check")

Printf(h) ==
  /\ pc[h] = "idle" /\ messages < MaxMessages
  /\ messages' = messages + 1
  /\ Enter(h, locking)
  /\ UNCHANGED <<locking, lock, panicked, dying, out, frozenAt>>

Acquire(h) ==
  /\ pc[h] = "acquire" /\ lock = Nobody
  /\ lock' = h
  /\ Goto(h, "check")
  /\ UNCHANGED <<locking, panicked, took, left, dying, messages, out, frozenAt>>

\* uartputc_sync(): if(panicked) for(;;);
Check(h) ==
  /\ pc[h] = "check"
  /\ Goto(h, IF panicked THEN "frozen" ELSE "send")
  /\ UNCHANGED <<locking, lock, panicked, took, left, dying, messages, out, frozenAt>>

\* The rest of uartputc_sync(), and printf()'s loop to the next byte.
Send(h) ==
  /\ pc[h] = "send"
  /\ out' = Append(out, <<h, left[h]>>)
  /\ left' = [left EXCEPT ![h] = @ - 1]
  /\ Goto(h, IF left[h] = 1 THEN "end" ELSE "check")
  /\ UNCHANGED <<locking, lock, panicked, took, dying, messages, frozenAt>>

\* if(locking) release(&pr.lock); and the return, to panic() if it called.
End(h) ==
  /\ pc[h] = "end"
  /\ lock' = IF took[h] THEN Nobody ELSE lock
  /\ Goto(h, IF dying[h] THEN "dead" ELSE "idle")
  /\ panicked' = (panicked \/ dying[h])
  /\ frozenAt' = IF dying[h] /\ ~panicked THEN Len(out) ELSE frozenAt
  /\ UNCHANGED <<locking, took, left, dying, messages, out>>

---------------------------------------------------------------------------
(* panic(), called between messages or by a trap in the middle of one. *)

PanicWith(h, lk) ==
  /\ pc[h] \in {"idle", "check"} /\ ~dying[h]
  /\ dying' = [dying EXCEPT ![h] = TRUE]
  /\ locking' = lk
  /\ Enter(h, lk)
  /\ UNCHANGED <<lock, panicked, messages, out, frozenAt>>

Mut_Panic(h) == PanicWith(h, locking)

\* pr.locking = 0; then the message, as one printf(): nothing sets pr.locking again.
Panic(h) == PanicWith(h, FALSE)

HartStep(h) == Acquire(h) \/ Check(h) \/ Send(h) \/ End(h)

Next == \E h \in Harts : Printf(h) \/ HartStep(h) \/ Panic(h)

Spec == Init /\ [][Next]_vars

\* A hart keeps executing; it waits only for pr.lock, or spins for ever frozen.
FairSpec == Spec /\ \A h \in Harts : WF_vars(HartStep(h))

---------------------------------------------------------------------------
\* "lock to avoid interleaving concurrent printf's": until a hart panics, the
\* output is a sequence of whole messages, each by one hart.
MessagesStayWhole ==
  (\A h \in Harts : ~dying[h]) =>
    /\ out # <<>> => out[1][2] = MsgLen
    /\ \A i \in 1..(Len(out) - 1) :
         IF out[i][2] = 1 THEN out[i + 1][2] = MsgLen ELSE out[i + 1] = <<out[i][1], out[i][2] - 1>>

\* "freeze uart output from other CPUs": once panicked is set, another hart can
\* still send the one byte it had already checked for, and nothing more.
OutputFreezes == panicked => Len(out) - frozenAt < Cardinality(Harts)

\* When a hart panics, some panicking hart gets its whole message out and sets
\* panicked, even if a hart that will never release it holds pr.lock.
PanicIsReported == (\E h \in Harts : dying[h]) ~> (panicked /\ \E h \in Harts : pc[h] = "dead")

(* printf() and panic(): messages stay apart, and output freezes after a   *)
(* panic.                                                                  *)
PrintfSafe == MessagesStayWhole /\ OutputFreezes
=============================================================================
