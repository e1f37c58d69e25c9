------------------------------- MODULE MCProc -------------------------------
(* Small instances of Proc for TLC. *)
EXTENDS Proc

\* kill() of any process but init, whose exit() is a panic by design.
ChildPids == 2..MaxPid

\* kill() of any of those, and kill(0).
ChildPidsAndZero == {0} \union ChildPids
=============================================================================
