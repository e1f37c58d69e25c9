----------------------------- MODULE AtomicDisk -----------------------------
(***************************************************************************)
(* What the logging layer (kernel/log.c) promises the file system: a disk  *)
(* whose updates reach stable storage all together, and only at moments at *)
(* which no file-system call is between its begin_op() and its end_op().   *)
(* After a crash the disk holds exactly the updates of the calls that had  *)
(* ended by the last such moment.  There is no log here, no cache and no   *)
(* recovery: those are how Log.tla implements this specification.          *)
(***************************************************************************)
CONSTANTS Procs,    \* the processes that make file-system calls
          Blocks,   \* the home blocks of the disk
          Vals      \* the contents a block may have

VARIABLES stable,   \* what a crash would leave: the committed contents
          current,  \* what file-system calls read and write
          active    \* the processes between begin_op() and end_op()

avars == <<stable, current, active>>

AInit ==
  /\ stable \in [Blocks -> Vals]
  /\ current = stable
  /\ active = {}

ABegin(p) ==
  /\ p \notin active
  /\ active' = active \union {p}
  /\ UNCHANGED <<stable, current>>

AWrite(p, b, v) ==
  /\ p \in active
  /\ current' = [current EXCEPT ![b] = v]
  /\ UNCHANGED <<stable, active>>

AEnd(p) ==
  /\ p \in active
  /\ active' = active \ {p}
  /\ UNCHANGED <<stable, current>>

\* Everything written so far becomes durable in one step; no call is half-way.
ACommit ==
  /\ active = {}
  /\ stable' = current
  /\ UNCHANGED <<current, active>>

\* Power fails: the calls in progress and every uncommitted update are gone.
ACrash ==
  /\ current' = stable
  /\ active' = {}
  /\ UNCHANGED stable

ANext ==
  \/ \E p \in Procs : ABegin(p) \/ AEnd(p)
  \/ \E p \in Procs, b \in Blocks, v \in Vals : AWrite(p, b, v)
  \/ ACommit
  \/ ACrash

ASpec == AInit /\ [][ANext]_avars
=============================================================================
