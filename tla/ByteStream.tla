----------------------------- MODULE ByteStream -----------------------------
(***************************************************************************)
(* What a pipe promises about the bytes that go through it: they come out  *)
(* in the order in which they went in, none twice, at most Capacity of     *)
(* them waiting, and none disappears while a pipe lives except by being    *)
(* taken from the front.  A new pipe is empty.                             *)
(***************************************************************************)
EXTENDS Naturals, Sequences

CONSTANTS Bytes, Capacity

VARIABLES q,     \* the bytes written and not yet taken, oldest first
          gone   \* the pipe has been freed

BInit == q = <<>> /\ gone = FALSE

Put(c) == ~gone /\ Len(q) < Capacity /\ q' = Append(q, c) /\ UNCHANGED gone
Take == ~gone /\ q # <<>> /\ q' = Tail(q) /\ UNCHANGED gone
Free == ~gone /\ gone' = TRUE /\ UNCHANGED q
Fresh == gone /\ gone' = FALSE /\ q' = <<>>

BNext == (\E c \in Bytes : Put(c)) \/ Take \/ Free \/ Fresh

BSpec == BInit /\ [][BNext]_<<q, gone>>
=============================================================================
