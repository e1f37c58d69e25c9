----------------------------- MODULE ProcProofs -----------------------------
(***************************************************************************)
(* Proofs about Proc: a slot of proc[] is freed off its stack, wait()      *)
(* misses no exit(), no child is left without a parent, and a slot that is *)
(* used again carries neither a pid nor a killed mark over, for any number *)
(* of slots.                                                               *)
(***************************************************************************)
EXTENDS Proc, TLAPS

\* Where a process can be in each of its states.
InFork == {"fork_parent", "fork_run"}
InExit == {"exit", "reparent", "exit_wakeup", "exit_zombie"}
UnderLock == {"reparent", "exit_wakeup", "exit_zombie", "scan", "scanned", "sleep"}

PlaceInv ==
  \A p \in Procs :
    /\ state[p] \in {"UNUSED", "USED"} => pc[p] = "none"
    /\ state[p] = "RUNNABLE" => pc[p] \notin {"none", "exit_sched"}
    /\ state[p] = "SLEEPING" => pc[p] = "wait"
    /\ state[p] = "ZOMBIE" => pc[p] \in {"exit_sched", "none"}

\* wait_lock is held by the one process that is working under it.
LockInv ==
  /\ \A p \in Procs : pc[p] \in UnderLock => wait_lock = p
  /\ wait_lock # NoProc => pc[wait_lock] \in UnderLock

\* The slot that fork() is filling is its caller's alone.
ForkInv ==
  /\ \A p \in Procs : pc[p] \in InFork =>
       /\ np[p] \in Procs /\ state[np[p]] = "USED"
       /\ parent[np[p]] = IF pc[p] = "fork_run" THEN p ELSE NoProc
  /\ \A p, q \in Procs : p # q /\ pc[p] \in InFork /\ pc[q] \in InFork => np[p] # np[q]

\* init never exits and has no parent; every other process that runs has one.
InitInv ==
  /\ state[initproc] \in {"RUNNABLE", "SLEEPING"}
  /\ \A p \in Procs : pc[p] \in InExit => p # initproc
  /\ \A p \in Procs \ {initproc} :
       state[p] \in {"RUNNABLE", "SLEEPING", "ZOMBIE"} => parent[p] # NoProc

\* reparent() leaves no child of p behind it.
ReparentInv ==
  \A p, c \in Procs :
    /\ pc[p] = "reparent" /\ c < k[p] => parent[c] # p
    /\ pc[p] \in {"exit_wakeup", "exit_zombie"} => parent[c] # p

\* wait() has seen no zombie among the children it has passed, and the one it
\* counted is there.
ScanInv ==
  \A p, c \in Procs : parent[c] = p =>
    /\ pc[p] = "scan" /\ c < k[p] => state[c] # "ZOMBIE"
    /\ pc[p] \in {"scanned", "sleep"} => state[c] # "ZOMBIE"
    /\ state[p] = "SLEEPING" => state[c] # "ZOMBIE"

ChildInv ==
  \A p \in Procs :
    \/ pc[p] \in {"scan", "scanned"} /\ havekids[p]
    \/ pc[p] = "sleep"
    \/ state[p] = "SLEEPING"
    => \E c \in Procs : parent[c] = p

\* exit() has woken its parent, which cannot go to sleep again before it is done.
WokenInv ==
  \A p \in Procs : pc[p] = "exit_zombie" => state[parent[p]] # "SLEEPING"

\* A slot has a pid while it is in use, and never one that was given before.
PidInv ==
  /\ nextpid \in Nat /\ nextpid > 0
  /\ \A p \in Procs : pid[p] < nextpid /\ (state[p] = "UNUSED" <=> pid[p] = 0)
  /\ PidsUnique

\* A killed mark is asked for, and does not outlive the process.
KilledInv == KilledOnlyIfAsked /\ \A p \in Procs : state[p] = "UNUSED" => ~killed[p]

IInv ==
  /\ TypeOK /\ PlaceInv /\ LockInv /\ ForkInv
  /\ InitInv /\ ParentIsAlive /\ ReparentInv /\ ScanInv /\ ChildInv /\ WokenInv
  /\ PidInv

----------------------------------------------------------------------------
\* The indices of proc[].
LEMMA Indices ==
  /\ Procs \subseteq Nat /\ NoProc \notin Procs /\ initproc \in Procs /\ 1 \in Procs
  /\ \A p \in Procs : p # NPROC => p + 1 \in Procs
  /\ \A p \in Procs : 1 =< p /\ p =< NPROC
  BY ProcConstants DEF Procs, NoProc, initproc

LEMMA TypeInit == Init => TypeOK
<1> SUFFICES ASSUME Init PROVE TypeOK
  OBVIOUS
<1> QED
  BY Indices DEF Init, TypeOK, Places

\* The loops over proc[] stay within it.
LEMMA AdvanceType ==
  ASSUME NEW p \in Procs, NEW s \in Places, Advance(p, s),
         k \in [Procs -> Procs], pc \in [Procs -> Places]
  PROVE  k' \in [Procs -> Procs] /\ pc' \in [Procs -> Places]
<1>1. CASE k[p] = NPROC
  BY <1>1, Indices DEF Advance, Goto
<1>2. CASE k[p] # NPROC
  BY <1>2, Indices DEF Advance
<1> QED
  BY <1>1, <1>2

\* Every step keeps the types.
LEMMA TypeStep ==
  ASSUME TypeOK, ForkInv, InitInv, [Next]_vars
  PROVE  TypeOK'
<1>1. CASE UNCHANGED vars
  BY <1>1 DEF vars, Places, TypeOK
<1>2. ASSUME NEW p \in Procs, ForkParent(p) PROVE TypeOK'
  BY <1>2, Indices DEF ForkParent, At, Goto, locals, TypeOK, Places, ForkInv, InFork
<1>3. ASSUME NEW p \in Procs, ForkRun(p) PROVE TypeOK'
  BY <1>3, Indices DEF ForkRun, At, TypeOK, Places, ForkInv, InFork
<1>4. ASSUME NEW p \in Procs, ExitLock(p) PROVE TypeOK'
  BY <1>4, Indices DEF ExitLock, At, Goto, table, TypeOK, Places
<1>5. ASSUME NEW p \in Procs, Reparent(p) PROVE TypeOK'
  <2>1. k \in [Procs -> Procs] /\ pc \in [Procs -> Places]
    BY DEF TypeOK
  <2>2. k' \in [Procs -> Procs] /\ pc' \in [Procs -> Places]
    BY <1>5, <2>1, AdvanceType DEF Reparent, Places
  <2>3. /\ parent' \in [Procs -> Procs \union {NoProc}]
        /\ state' \in [Procs -> {"UNUSED", "USED", "RUNNABLE", "SLEEPING", "ZOMBIE"}]
    BY <1>5, Indices DEF Reparent, Woken, TypeOK
  <2> QED
    BY <1>5, <2>2, <2>3 DEF Reparent, TypeOK
<1>6. ASSUME NEW p \in Procs, ExitWakeup(p) PROVE TypeOK'
  BY <1>6, Indices DEF ExitWakeup, At, Goto, Woken, locals, TypeOK, Places
<1>7. ASSUME NEW p \in Procs, ExitZombie(p) PROVE TypeOK'
  BY <1>7, Indices DEF ExitZombie, At, Goto, locals, TypeOK, Places
<1>8. ASSUME NEW p \in Procs, ExitSched(p) PROVE TypeOK'
  BY <1>8, Indices DEF ExitSched, Goto, table, locals, TypeOK, Places
<1>9. ASSUME NEW p \in Procs, WaitLock(p) PROVE TypeOK'
  BY <1>9, Indices DEF WaitLock, At, Goto, table, TypeOK, Places
<1>10. ASSUME NEW p \in Procs, Reap(p) PROVE TypeOK'
  BY <1>10, Indices DEF Reap, At, Goto, WaitReturns, WaitUnlock, TypeOK, Places
<1>11. ASSUME NEW p \in Procs, WaitCopyoutFails(p) PROVE TypeOK'
  BY <1>11, Indices DEF WaitCopyoutFails, At, Goto, WaitReturns, WaitUnlock, table, TypeOK, Places
<1>12. ASSUME NEW p \in Procs, WaitScan(p) PROVE TypeOK'
  <2>1. k \in [Procs -> Procs] /\ pc \in [Procs -> Places]
    BY DEF TypeOK
  <2>2. k' \in [Procs -> Procs] /\ pc' \in [Procs -> Places]
    BY <1>12, <2>1, AdvanceType DEF WaitScan, Places
  <2>3. havekids' \in [Procs -> BOOLEAN]
    BY <1>12 DEF WaitScan, TypeOK
  <2> QED
    BY <1>12, <2>2, <2>3 DEF WaitScan, table, TypeOK
<1>13. ASSUME NEW p \in Procs, WaitGivesUp(p) PROVE TypeOK'
  BY <1>13, Indices DEF WaitGivesUp, At, Goto, WaitReturns, WaitUnlock, table, TypeOK, Places
<1>14. ASSUME NEW p \in Procs, WaitContinues(p) PROVE TypeOK'
  BY <1>14, Indices DEF WaitContinues, At, Goto, table, locals, TypeOK, Places
<1>15. ASSUME NEW p \in Procs, WaitSleep(p) PROVE TypeOK'
  BY <1>15, Indices DEF WaitSleep, At, Goto, WaitUnlock, TypeOK, Places
<1>16. ASSUME NEW p \in Procs, Exit(p) PROVE TypeOK'
  BY <1>16, Indices DEF Exit, At, Goto, table, locals, TypeOK, Places
<1>17. ASSUME NEW p \in Procs, Wait(p) PROVE TypeOK'
  BY <1>17, Indices DEF Wait, Enters, At, Goto, table, locals, TypeOK, Places
<1>18. ASSUME NEW p \in Procs, NEW c \in Procs, Fork(p, c) PROVE TypeOK'
  BY <1>18, Indices DEF Fork, Enters, At, Goto, TypeOK, Places
<1>19. ASSUME NEW p \in Procs, NEW c \in Procs, ForkFails(p, c) PROVE TypeOK'
  BY <1>19, Indices DEF ForkFails, Enters, At, locals, TypeOK, Places
<1>20. ASSUME NEW p \in Procs, NEW n \in KillPids, NEW q \in Procs, Kill(p, n, q) PROVE TypeOK'
  BY <1>20, Indices, ProcConstants DEF Kill, Enters, At, Woken, locals, TypeOK, Places
<1> QED
  BY <1>1, <1>2, <1>3, <1>4, <1>5, <1>6, <1>7, <1>8, <1>9, <1>10, <1>11, <1>12, <1>13, <1>14, <1>15, <1>16, <1>17, <1>18, <1>19, <1>20 DEF Next, Step

\* What each step does to the place and the state of a process.
LEMMA PlaceStep ==
  ASSUME TypeOK, PlaceInv, ForkInv, [Next]_vars
  PROVE  PlaceInv'
<1>1. CASE UNCHANGED vars
  BY <1>1 DEF vars, PlaceInv
<1>2. ASSUME NEW p \in Procs, ForkParent(p) PROVE PlaceInv'
  BY <1>2 DEF ForkParent, At, Goto, locals, TypeOK, PlaceInv
<1>3. ASSUME NEW p \in Procs, ForkRun(p) PROVE PlaceInv'
  BY <1>3 DEF ForkRun, At, TypeOK, PlaceInv, ForkInv, InFork
<1>4. ASSUME NEW p \in Procs, ExitLock(p) PROVE PlaceInv'
  BY <1>4 DEF ExitLock, At, Goto, table, TypeOK, PlaceInv
<1>5. ASSUME NEW p \in Procs, Reparent(p) PROVE PlaceInv'
  BY <1>5 DEF Reparent, At, Goto, Advance, Woken, TypeOK, PlaceInv
<1>6. ASSUME NEW p \in Procs, ExitWakeup(p) PROVE PlaceInv'
  BY <1>6 DEF ExitWakeup, At, Goto, Woken, locals, TypeOK, PlaceInv
<1>7. ASSUME NEW p \in Procs, ExitZombie(p) PROVE PlaceInv'
  BY <1>7 DEF ExitZombie, At, Goto, locals, TypeOK, PlaceInv
<1>8. ASSUME NEW p \in Procs, ExitSched(p) PROVE PlaceInv'
  BY <1>8 DEF ExitSched, Goto, table, locals, TypeOK, PlaceInv
<1>9. ASSUME NEW p \in Procs, WaitLock(p) PROVE PlaceInv'
  BY <1>9 DEF WaitLock, At, Goto, table, TypeOK, PlaceInv
<1>10. ASSUME NEW p \in Procs, Reap(p) PROVE PlaceInv'
  BY <1>10 DEF Reap, At, Goto, WaitReturns, WaitUnlock, TypeOK, PlaceInv, Unlocked
<1>11. ASSUME NEW p \in Procs, WaitCopyoutFails(p) PROVE PlaceInv'
  BY <1>11 DEF WaitCopyoutFails, At, Goto, WaitReturns, WaitUnlock, table, TypeOK, PlaceInv
<1>12. ASSUME NEW p \in Procs, WaitScan(p) PROVE PlaceInv'
  BY <1>12 DEF WaitScan, At, Goto, Advance, table, TypeOK, PlaceInv
<1>13. ASSUME NEW p \in Procs, WaitGivesUp(p) PROVE PlaceInv'
  BY <1>13 DEF WaitGivesUp, At, Goto, WaitReturns, WaitUnlock, table, TypeOK, PlaceInv
<1>14. ASSUME NEW p \in Procs, WaitContinues(p) PROVE PlaceInv'
  BY <1>14 DEF WaitContinues, At, Goto, table, locals, TypeOK, PlaceInv
<1>15. ASSUME NEW p \in Procs, WaitSleep(p) PROVE PlaceInv'
  BY <1>15 DEF WaitSleep, At, Goto, WaitUnlock, TypeOK, PlaceInv
<1>16. ASSUME NEW p \in Procs, Exit(p) PROVE PlaceInv'
  BY <1>16 DEF Exit, At, Goto, table, locals, TypeOK, PlaceInv
<1>17. ASSUME NEW p \in Procs, Wait(p) PROVE PlaceInv'
  BY <1>17 DEF Wait, Enters, At, Goto, table, locals, TypeOK, PlaceInv
<1>18. ASSUME NEW p \in Procs, NEW c \in Procs, Fork(p, c) PROVE PlaceInv'
  BY <1>18 DEF Fork, Enters, At, Goto, TypeOK, PlaceInv
<1>19. ASSUME NEW p \in Procs, NEW c \in Procs, ForkFails(p, c) PROVE PlaceInv'
  BY <1>19 DEF ForkFails, Enters, At, locals, TypeOK, PlaceInv
<1>20. ASSUME NEW p \in Procs, NEW n \in KillPids, NEW q \in Procs, Kill(p, n, q) PROVE PlaceInv'
  BY <1>20 DEF Kill, Enters, At, Woken, locals, TypeOK, PlaceInv
<1> QED
  BY <1>1, <1>2, <1>3, <1>4, <1>5, <1>6, <1>7, <1>8, <1>9, <1>10, <1>11, <1>12, <1>13, <1>14, <1>15, <1>16, <1>17, <1>18, <1>19, <1>20 DEF Next, Step

\* wait_lock is taken when it is free, and given up by its holder.
LEMMA LockStep ==
  ASSUME TypeOK, PlaceInv, ForkInv, LockInv, [Next]_vars
  PROVE  LockInv'
<1>1. CASE UNCHANGED vars
  BY <1>1 DEF vars, LockInv, UnderLock
<1>2. ASSUME NEW p \in Procs, ForkParent(p) PROVE LockInv'
  BY <1>2, Indices DEF ForkParent, At, Goto, locals, TypeOK, LockInv, UnderLock
<1>3. ASSUME NEW p \in Procs, ForkRun(p) PROVE LockInv'
  BY <1>3, Indices DEF ForkRun, At, TypeOK, LockInv, UnderLock, ForkInv, InFork, PlaceInv
<1>4. ASSUME NEW p \in Procs, ExitLock(p) PROVE LockInv'
  BY <1>4, Indices DEF ExitLock, At, Goto, table, TypeOK, LockInv, UnderLock
<1>5. ASSUME NEW p \in Procs, Reparent(p) PROVE LockInv'
  BY <1>5, Indices DEF Reparent, At, Goto, Advance, Woken, TypeOK, LockInv, UnderLock
<1>6. ASSUME NEW p \in Procs, ExitWakeup(p) PROVE LockInv'
  BY <1>6, Indices DEF ExitWakeup, At, Goto, Woken, locals, TypeOK, LockInv, UnderLock
<1>7. ASSUME NEW p \in Procs, ExitZombie(p) PROVE LockInv'
  BY <1>7, Indices DEF ExitZombie, At, Goto, locals, TypeOK, LockInv, UnderLock
<1>8. ASSUME NEW p \in Procs, ExitSched(p) PROVE LockInv'
  BY <1>8, Indices DEF ExitSched, Goto, table, locals, TypeOK, LockInv, UnderLock
<1>9. ASSUME NEW p \in Procs, WaitLock(p) PROVE LockInv'
  BY <1>9, Indices DEF WaitLock, At, Goto, table, TypeOK, LockInv, UnderLock
<1>10. ASSUME NEW p \in Procs, Reap(p) PROVE LockInv'
  BY <1>10, Indices DEF Reap, At, Goto, WaitReturns, WaitUnlock, TypeOK, LockInv, UnderLock
<1>11. ASSUME NEW p \in Procs, WaitCopyoutFails(p) PROVE LockInv'
  BY <1>11, Indices DEF WaitCopyoutFails, At, Goto, WaitReturns, WaitUnlock, table, TypeOK, LockInv, UnderLock
<1>12. ASSUME NEW p \in Procs, WaitScan(p) PROVE LockInv'
  BY <1>12, Indices DEF WaitScan, At, Goto, Advance, table, TypeOK, LockInv, UnderLock
<1>13. ASSUME NEW p \in Procs, WaitGivesUp(p) PROVE LockInv'
  BY <1>13, Indices DEF WaitGivesUp, At, Goto, WaitReturns, WaitUnlock, table, TypeOK, LockInv, UnderLock
<1>14. ASSUME NEW p \in Procs, WaitContinues(p) PROVE LockInv'
  BY <1>14, Indices DEF WaitContinues, At, Goto, table, locals, TypeOK, LockInv, UnderLock
<1>15. ASSUME NEW p \in Procs, WaitSleep(p) PROVE LockInv'
  BY <1>15, Indices DEF WaitSleep, At, Goto, WaitUnlock, TypeOK, LockInv, UnderLock
<1>16. ASSUME NEW p \in Procs, Exit(p) PROVE LockInv'
  BY <1>16, Indices DEF Exit, At, Goto, table, locals, TypeOK, LockInv, UnderLock
<1>17. ASSUME NEW p \in Procs, Wait(p) PROVE LockInv'
  BY <1>17, Indices DEF Wait, Enters, At, Goto, table, locals, TypeOK, LockInv, UnderLock
<1>18. ASSUME NEW p \in Procs, NEW c \in Procs, Fork(p, c) PROVE LockInv'
  BY <1>18, Indices DEF Fork, Enters, At, Goto, TypeOK, LockInv, UnderLock
<1>19. ASSUME NEW p \in Procs, NEW c \in Procs, ForkFails(p, c) PROVE LockInv'
  BY <1>19, Indices DEF ForkFails, Enters, At, locals, TypeOK, LockInv, UnderLock
<1>20. ASSUME NEW p \in Procs, NEW n \in KillPids, NEW q \in Procs, Kill(p, n, q) PROVE LockInv'
  BY <1>20, Indices DEF Kill, Enters, At, Woken, locals, TypeOK, LockInv, UnderLock
<1> QED
  BY <1>1, <1>2, <1>3, <1>4, <1>5, <1>6, <1>7, <1>8, <1>9, <1>10, <1>11, <1>12, <1>13, <1>14, <1>15, <1>16, <1>17, <1>18, <1>19, <1>20 DEF Next, Step

\* Nobody else is working under wait_lock.
LEMMA LockAlone ==
  ASSUME LockInv, NEW p \in Procs, pc[p] \in UnderLock
  PROVE  \A q \in Procs \ {p} : pc[q] \notin UnderLock
  BY DEF LockInv

\* fork() keeps its slot to itself.
LEMMA ForkStep ==
  ASSUME TypeOK, PlaceInv, ForkInv, ParentIsAlive, [Next]_vars
  PROVE  ForkInv'
<1>1. CASE UNCHANGED vars
  BY <1>1 DEF vars, ForkInv, InFork, PlaceInv
<1>2. ASSUME NEW p \in Procs, ForkParent(p) PROVE ForkInv'
  BY <1>2, Indices DEF ForkParent, At, Goto, locals, TypeOK, ForkInv, InFork, PlaceInv
<1>3. ASSUME NEW p \in Procs, ForkRun(p) PROVE ForkInv'
  BY <1>3, Indices DEF ForkRun, At, TypeOK, ForkInv, InFork, PlaceInv
<1>4. ASSUME NEW p \in Procs, ExitLock(p) PROVE ForkInv'
  BY <1>4, Indices DEF ExitLock, At, Goto, table, TypeOK, ForkInv, InFork, PlaceInv
<1>5. ASSUME NEW p \in Procs, Reparent(p) PROVE ForkInv'
  <2>1. UNCHANGED np /\ \A q \in Procs : pc'[q] \in InFork => pc[q] = pc'[q] /\ q # p
    BY <1>5 DEF Reparent, At, Advance, Goto, InFork, TypeOK
  <2>2. \A q \in Procs : state[q] = "USED" => state'[q] = "USED"
    BY <1>5 DEF Reparent, Woken, TypeOK
  <2>3. \A q \in Procs : parent[q] # p => parent'[q] = parent[q]
    BY <1>5 DEF Reparent, TypeOK
  <2> QED
    <3>1. \A q \in Procs : pc'[q] \in InFork => parent'[np[q]] = parent[np[q]]
      <4> SUFFICES ASSUME NEW q \in Procs, pc'[q] \in InFork PROVE parent'[np[q]] = parent[np[q]]
        OBVIOUS
      <4>1. pc[q] \in InFork /\ q # p
        BY <2>1
      <4>2. np[q] \in Procs /\ parent[np[q]] # p
        BY <4>1, Indices DEF ForkInv
      <4> QED
        BY <2>3, <4>2
    <3> QED
      BY <2>1, <2>2, <3>1 DEF ForkInv
<1>6. ASSUME NEW p \in Procs, ExitWakeup(p) PROVE ForkInv'
  BY <1>6, Indices DEF ExitWakeup, At, Goto, Woken, locals, TypeOK, ForkInv, InFork, PlaceInv
<1>7. ASSUME NEW p \in Procs, ExitZombie(p) PROVE ForkInv'
  BY <1>7, Indices DEF ExitZombie, At, Goto, locals, TypeOK, ForkInv, InFork, PlaceInv
<1>8. ASSUME NEW p \in Procs, ExitSched(p) PROVE ForkInv'
  BY <1>8, Indices DEF ExitSched, Goto, table, locals, TypeOK, ForkInv, InFork, PlaceInv
<1>9. ASSUME NEW p \in Procs, WaitLock(p) PROVE ForkInv'
  BY <1>9, Indices DEF WaitLock, At, Goto, table, TypeOK, ForkInv, InFork, PlaceInv
<1>10. ASSUME NEW p \in Procs, Reap(p) PROVE ForkInv'
  BY <1>10, Indices DEF Reap, At, Goto, WaitReturns, WaitUnlock, TypeOK, ForkInv, InFork, PlaceInv
<1>11. ASSUME NEW p \in Procs, WaitCopyoutFails(p) PROVE ForkInv'
  BY <1>11, Indices DEF WaitCopyoutFails, At, Goto, WaitReturns, WaitUnlock, table, TypeOK, ForkInv, InFork, PlaceInv
<1>12. ASSUME NEW p \in Procs, WaitScan(p) PROVE ForkInv'
  BY <1>12, Indices DEF WaitScan, At, Goto, Advance, table, TypeOK, ForkInv, InFork, PlaceInv
<1>13. ASSUME NEW p \in Procs, WaitGivesUp(p) PROVE ForkInv'
  BY <1>13, Indices DEF WaitGivesUp, At, Goto, WaitReturns, WaitUnlock, table, TypeOK, ForkInv, InFork, PlaceInv
<1>14. ASSUME NEW p \in Procs, WaitContinues(p) PROVE ForkInv'
  BY <1>14, Indices DEF WaitContinues, At, Goto, table, locals, TypeOK, ForkInv, InFork, PlaceInv
<1>15. ASSUME NEW p \in Procs, WaitSleep(p) PROVE ForkInv'
  BY <1>15, Indices DEF WaitSleep, At, Goto, WaitUnlock, TypeOK, ForkInv, InFork, PlaceInv
<1>16. ASSUME NEW p \in Procs, Exit(p) PROVE ForkInv'
  BY <1>16, Indices DEF Exit, At, Goto, table, locals, TypeOK, ForkInv, InFork, PlaceInv
<1>17. ASSUME NEW p \in Procs, Wait(p) PROVE ForkInv'
  BY <1>17, Indices DEF Wait, Enters, At, Goto, table, locals, TypeOK, ForkInv, InFork, PlaceInv
<1>18. ASSUME NEW p \in Procs, NEW c \in Procs, Fork(p, c) PROVE ForkInv'
  BY <1>18, Indices DEF Fork, Enters, At, Goto, TypeOK, ForkInv, InFork, PlaceInv, ParentIsAlive
<1>19. ASSUME NEW p \in Procs, NEW c \in Procs, ForkFails(p, c) PROVE ForkInv'
  BY <1>19, Indices DEF ForkFails, Enters, At, locals, TypeOK, ForkInv, InFork, PlaceInv
<1>20. ASSUME NEW p \in Procs, NEW n \in KillPids, NEW q \in Procs, Kill(p, n, q) PROVE ForkInv'
  BY <1>20, Indices DEF Kill, Enters, At, Woken, locals, TypeOK, ForkInv, InFork, PlaceInv
<1> QED
  BY <1>1, <1>2, <1>3, <1>4, <1>5, <1>6, <1>7, <1>8, <1>9, <1>10, <1>11, <1>12, <1>13, <1>14, <1>15, <1>16, <1>17, <1>18, <1>19, <1>20 DEF Next, Step

\* init stays; a process gets its parent before it runs.
LEMMA InitStep ==
  ASSUME TypeOK, PlaceInv, ForkInv, InitInv, [Next]_vars
  PROVE  InitInv'
<1>1. CASE UNCHANGED vars
  BY <1>1 DEF vars, InitInv, InExit
<1>2. ASSUME NEW p \in Procs, ForkParent(p) PROVE InitInv'
  BY <1>2, Indices DEF ForkParent, At, Goto, locals, TypeOK, InitInv, InExit
<1>3. ASSUME NEW p \in Procs, ForkRun(p) PROVE InitInv'
  BY <1>3, Indices DEF ForkRun, At, TypeOK, InitInv, InExit, ForkInv, InFork
<1>4. ASSUME NEW p \in Procs, ExitLock(p) PROVE InitInv'
  BY <1>4, Indices DEF ExitLock, At, Goto, table, TypeOK, InitInv, InExit
<1>5. ASSUME NEW p \in Procs, Reparent(p) PROVE InitInv'
  BY <1>5, Indices DEF Reparent, At, Goto, Advance, Woken, TypeOK, InitInv, InExit
<1>6. ASSUME NEW p \in Procs, ExitWakeup(p) PROVE InitInv'
  BY <1>6, Indices DEF ExitWakeup, At, Goto, Woken, locals, TypeOK, InitInv, InExit
<1>7. ASSUME NEW p \in Procs, ExitZombie(p) PROVE InitInv'
  BY <1>7, Indices DEF ExitZombie, At, Goto, locals, TypeOK, InitInv, InExit
<1>8. ASSUME NEW p \in Procs, ExitSched(p) PROVE InitInv'
  BY <1>8, Indices DEF ExitSched, Goto, table, locals, TypeOK, InitInv, InExit
<1>9. ASSUME NEW p \in Procs, WaitLock(p) PROVE InitInv'
  BY <1>9, Indices DEF WaitLock, At, Goto, table, TypeOK, InitInv, InExit
<1>10. ASSUME NEW p \in Procs, Reap(p) PROVE InitInv'
  BY <1>10, Indices DEF Reap, At, Goto, WaitReturns, WaitUnlock, TypeOK, InitInv, InExit
<1>11. ASSUME NEW p \in Procs, WaitCopyoutFails(p) PROVE InitInv'
  BY <1>11, Indices DEF WaitCopyoutFails, At, Goto, WaitReturns, WaitUnlock, table, TypeOK, InitInv, InExit
<1>12. ASSUME NEW p \in Procs, WaitScan(p) PROVE InitInv'
  BY <1>12, Indices DEF WaitScan, At, Goto, Advance, table, TypeOK, InitInv, InExit
<1>13. ASSUME NEW p \in Procs, WaitGivesUp(p) PROVE InitInv'
  BY <1>13, Indices DEF WaitGivesUp, At, Goto, WaitReturns, WaitUnlock, table, TypeOK, InitInv, InExit
<1>14. ASSUME NEW p \in Procs, WaitContinues(p) PROVE InitInv'
  BY <1>14, Indices DEF WaitContinues, At, Goto, table, locals, TypeOK, InitInv, InExit
<1>15. ASSUME NEW p \in Procs, WaitSleep(p) PROVE InitInv'
  BY <1>15, Indices DEF WaitSleep, At, Goto, WaitUnlock, TypeOK, InitInv, InExit
<1>16. ASSUME NEW p \in Procs, Exit(p) PROVE InitInv'
  BY <1>16, Indices DEF Exit, At, Goto, table, locals, TypeOK, InitInv, InExit
<1>17. ASSUME NEW p \in Procs, Wait(p) PROVE InitInv'
  BY <1>17, Indices DEF Wait, Enters, At, Goto, table, locals, TypeOK, InitInv, InExit
<1>18. ASSUME NEW p \in Procs, NEW c \in Procs, Fork(p, c) PROVE InitInv'
  BY <1>18, Indices DEF Fork, Enters, At, Goto, TypeOK, InitInv, InExit
<1>19. ASSUME NEW p \in Procs, NEW c \in Procs, ForkFails(p, c) PROVE InitInv'
  BY <1>19, Indices DEF ForkFails, Enters, At, locals, TypeOK, InitInv, InExit
<1>20. ASSUME NEW p \in Procs, NEW n \in KillPids, NEW q \in Procs, Kill(p, n, q) PROVE InitInv'
  BY <1>20, Indices DEF Kill, Enters, At, Woken, locals, TypeOK, InitInv, InExit
<1> QED
  BY <1>1, <1>2, <1>3, <1>4, <1>5, <1>6, <1>7, <1>8, <1>9, <1>10, <1>11, <1>12, <1>13, <1>14, <1>15, <1>16, <1>17, <1>18, <1>19, <1>20 DEF Next, Step

\* Parents are alive.
LEMMA AliveStep ==
  ASSUME TypeOK, PlaceInv, ForkInv, InitInv, ReparentInv, ParentIsAlive, [Next]_vars
  PROVE  ParentIsAlive'
<1>1. CASE UNCHANGED vars
  BY <1>1 DEF vars, ParentIsAlive
<1>2. ASSUME NEW p \in Procs, ForkParent(p) PROVE ParentIsAlive'
  BY <1>2, Indices DEF ForkParent, At, Goto, locals, TypeOK, ParentIsAlive, ForkInv, InFork
<1>3. ASSUME NEW p \in Procs, ForkRun(p) PROVE ParentIsAlive'
  BY <1>3, Indices DEF ForkRun, At, TypeOK, ParentIsAlive, ForkInv, InFork
<1>4. ASSUME NEW p \in Procs, ExitLock(p) PROVE ParentIsAlive'
  BY <1>4, Indices DEF ExitLock, At, Goto, table, TypeOK, ParentIsAlive
<1>5. ASSUME NEW p \in Procs, Reparent(p) PROVE ParentIsAlive'
  <2>1. \A q \in Procs : /\ state[q] \in {"RUNNABLE", "SLEEPING"} => state'[q] \in {"RUNNABLE", "SLEEPING"}
                         /\ state[q] # "UNUSED" => state'[q] # "UNUSED"
    BY <1>5 DEF Reparent, Woken, TypeOK
  <2>2. \A q \in Procs : parent'[q] = parent[q] \/ (parent[q] = p /\ parent'[q] = initproc)
    BY <1>5 DEF Reparent, TypeOK
  <2>3. \A q \in Procs : parent[q] \in Procs \union {NoProc}
    BY DEF TypeOK
  <2> QED
    BY <2>1, <2>2, <2>3, Indices DEF InitInv, ParentIsAlive
<1>6. ASSUME NEW p \in Procs, ExitWakeup(p) PROVE ParentIsAlive'
  BY <1>6, Indices DEF ExitWakeup, At, Goto, Woken, locals, TypeOK, ParentIsAlive
<1>7. ASSUME NEW p \in Procs, ExitZombie(p) PROVE ParentIsAlive'
  BY <1>7, Indices DEF ExitZombie, At, Goto, locals, TypeOK, ParentIsAlive, ReparentInv
<1>8. ASSUME NEW p \in Procs, ExitSched(p) PROVE ParentIsAlive'
  BY <1>8, Indices DEF ExitSched, Goto, table, locals, TypeOK, ParentIsAlive
<1>9. ASSUME NEW p \in Procs, WaitLock(p) PROVE ParentIsAlive'
  BY <1>9, Indices DEF WaitLock, At, Goto, table, TypeOK, ParentIsAlive
<1>10. ASSUME NEW p \in Procs, Reap(p) PROVE ParentIsAlive'
  BY <1>10, Indices DEF Reap, At, Goto, WaitReturns, WaitUnlock, TypeOK, ParentIsAlive
<1>11. ASSUME NEW p \in Procs, WaitCopyoutFails(p) PROVE ParentIsAlive'
  BY <1>11, Indices DEF WaitCopyoutFails, At, Goto, WaitReturns, WaitUnlock, table, TypeOK, ParentIsAlive
<1>12. ASSUME NEW p \in Procs, WaitScan(p) PROVE ParentIsAlive'
  BY <1>12, Indices DEF WaitScan, At, Goto, Advance, table, TypeOK, ParentIsAlive
<1>13. ASSUME NEW p \in Procs, WaitGivesUp(p) PROVE ParentIsAlive'
  BY <1>13, Indices DEF WaitGivesUp, At, Goto, WaitReturns, WaitUnlock, table, TypeOK, ParentIsAlive
<1>14. ASSUME NEW p \in Procs, WaitContinues(p) PROVE ParentIsAlive'
  BY <1>14, Indices DEF WaitContinues, At, Goto, table, locals, TypeOK, ParentIsAlive
<1>15. ASSUME NEW p \in Procs, WaitSleep(p) PROVE ParentIsAlive'
  BY <1>15, Indices DEF WaitSleep, At, Goto, WaitUnlock, TypeOK, ParentIsAlive
<1>16. ASSUME NEW p \in Procs, Exit(p) PROVE ParentIsAlive'
  BY <1>16, Indices DEF Exit, At, Goto, table, locals, TypeOK, ParentIsAlive
<1>17. ASSUME NEW p \in Procs, Wait(p) PROVE ParentIsAlive'
  BY <1>17, Indices DEF Wait, Enters, At, Goto, table, locals, TypeOK, ParentIsAlive
<1>18. ASSUME NEW p \in Procs, NEW c \in Procs, Fork(p, c) PROVE ParentIsAlive'
  BY <1>18, Indices DEF Fork, Enters, At, Goto, TypeOK, ParentIsAlive
<1>19. ASSUME NEW p \in Procs, NEW c \in Procs, ForkFails(p, c) PROVE ParentIsAlive'
  BY <1>19, Indices DEF ForkFails, Enters, At, locals, TypeOK, ParentIsAlive
<1>20. ASSUME NEW p \in Procs, NEW n \in KillPids, NEW q \in Procs, Kill(p, n, q) PROVE ParentIsAlive'
  BY <1>20, Indices DEF Kill, Enters, At, Woken, locals, TypeOK, ParentIsAlive
<1> QED
  BY <1>1, <1>2, <1>3, <1>4, <1>5, <1>6, <1>7, <1>8, <1>9, <1>10, <1>11, <1>12, <1>13, <1>14, <1>15, <1>16, <1>17, <1>18, <1>19, <1>20 DEF Next, Step

\* reparent() passes no child of p, and p gets no new one.
LEMMA ReparentStep ==
  ASSUME TypeOK, LockInv, InitInv, ReparentInv, [Next]_vars
  PROVE  ReparentInv'
<1>1. CASE UNCHANGED vars
  BY <1>1 DEF vars, ReparentInv
<1>2. ASSUME NEW p \in Procs, ForkParent(p) PROVE ReparentInv'
  BY <1>2, Indices DEF ForkParent, At, Goto, locals, TypeOK, ReparentInv
<1>3. ASSUME NEW p \in Procs, ForkRun(p) PROVE ReparentInv'
  BY <1>3, Indices DEF ForkRun, At, TypeOK, ReparentInv
<1>4. ASSUME NEW p \in Procs, ExitLock(p) PROVE ReparentInv'
  BY <1>4, Indices DEF ExitLock, At, Goto, table, TypeOK, ReparentInv
<1>5. ASSUME NEW p \in Procs, Reparent(p) PROVE ReparentInv'
  <2>1. pc[p] = "reparent" /\ p # initproc /\ k[p] \in Procs
    BY <1>5 DEF Reparent, At, InitInv, InExit, TypeOK
  <2>2. parent'[k[p]] # p /\ \A c \in Procs : parent[c] # p => parent'[c] # p
    BY <1>5, <2>1 DEF Reparent, TypeOK
  <2>3. \A q \in Procs \ {p} : pc'[q] = pc[q] /\ pc[q] \notin UnderLock
    BY <1>5, <2>1, LockAlone DEF Reparent, Advance, Goto, TypeOK, UnderLock
  <2>4. CASE k[p] = NPROC
    <3>1. pc'[p] = "exit_wakeup"
      BY <1>5, <2>4 DEF Reparent, Advance, Goto, TypeOK
    <3>2. \A c \in Procs : c < k[p] \/ c = k[p]
      BY <2>1, <2>4, ProcConstants DEF Procs
    <3>3. \A c \in Procs : parent'[c] # p
      BY <2>1, <2>2, <3>2 DEF ReparentInv
    <3> QED
      BY <2>3, <3>1, <3>3 DEF ReparentInv, UnderLock
  <2>5. CASE k[p] # NPROC
    <3>1. pc'[p] = "reparent" /\ k'[p] = k[p] + 1
      BY <1>5, <2>1, <2>5 DEF Reparent, Advance, TypeOK
    <3>2. \A c \in Procs : c < k'[p] => c < k[p] \/ c = k[p]
      BY <2>1, <3>1, ProcConstants DEF Procs
    <3>3. \A c \in Procs : c < k'[p] => parent'[c] # p
      BY <2>1, <2>2, <3>2 DEF ReparentInv
    <3> QED
      BY <2>3, <3>1, <3>3 DEF ReparentInv, UnderLock
  <2> QED
    BY <2>4, <2>5
<1>6. ASSUME NEW p \in Procs, ExitWakeup(p) PROVE ReparentInv'
  BY <1>6, Indices DEF ExitWakeup, At, Goto, Woken, locals, TypeOK, ReparentInv
<1>7. ASSUME NEW p \in Procs, ExitZombie(p) PROVE ReparentInv'
  BY <1>7, Indices DEF ExitZombie, At, Goto, locals, TypeOK, ReparentInv
<1>8. ASSUME NEW p \in Procs, ExitSched(p) PROVE ReparentInv'
  BY <1>8, Indices DEF ExitSched, Goto, table, locals, TypeOK, ReparentInv
<1>9. ASSUME NEW p \in Procs, WaitLock(p) PROVE ReparentInv'
  BY <1>9, Indices DEF WaitLock, At, Goto, table, TypeOK, ReparentInv
<1>10. ASSUME NEW p \in Procs, Reap(p) PROVE ReparentInv'
  BY <1>10, Indices DEF Reap, At, Goto, WaitReturns, WaitUnlock, TypeOK, ReparentInv
<1>11. ASSUME NEW p \in Procs, WaitCopyoutFails(p) PROVE ReparentInv'
  BY <1>11, Indices DEF WaitCopyoutFails, At, Goto, WaitReturns, WaitUnlock, table, TypeOK, ReparentInv
<1>12. ASSUME NEW p \in Procs, WaitScan(p) PROVE ReparentInv'
  BY <1>12, Indices DEF WaitScan, At, Goto, Advance, table, TypeOK, ReparentInv
<1>13. ASSUME NEW p \in Procs, WaitGivesUp(p) PROVE ReparentInv'
  BY <1>13, Indices DEF WaitGivesUp, At, Goto, WaitReturns, WaitUnlock, table, TypeOK, ReparentInv
<1>14. ASSUME NEW p \in Procs, WaitContinues(p) PROVE ReparentInv'
  BY <1>14, Indices DEF WaitContinues, At, Goto, table, locals, TypeOK, ReparentInv
<1>15. ASSUME NEW p \in Procs, WaitSleep(p) PROVE ReparentInv'
  BY <1>15, Indices DEF WaitSleep, At, Goto, WaitUnlock, TypeOK, ReparentInv
<1>16. ASSUME NEW p \in Procs, Exit(p) PROVE ReparentInv'
  BY <1>16, Indices DEF Exit, At, Goto, table, locals, TypeOK, ReparentInv
<1>17. ASSUME NEW p \in Procs, Wait(p) PROVE ReparentInv'
  BY <1>17, Indices DEF Wait, Enters, At, Goto, table, locals, TypeOK, ReparentInv
<1>18. ASSUME NEW p \in Procs, NEW c \in Procs, Fork(p, c) PROVE ReparentInv'
  BY <1>18, Indices DEF Fork, Enters, At, Goto, TypeOK, ReparentInv
<1>19. ASSUME NEW p \in Procs, NEW c \in Procs, ForkFails(p, c) PROVE ReparentInv'
  BY <1>19, Indices DEF ForkFails, Enters, At, locals, TypeOK, ReparentInv
<1>20. ASSUME NEW p \in Procs, NEW n \in KillPids, NEW q \in Procs, Kill(p, n, q) PROVE ReparentInv'
  BY <1>20, Indices DEF Kill, Enters, At, Woken, locals, TypeOK, ReparentInv
<1> QED
  BY <1>1, <1>2, <1>3, <1>4, <1>5, <1>6, <1>7, <1>8, <1>9, <1>10, <1>11, <1>12, <1>13, <1>14, <1>15, <1>16, <1>17, <1>18, <1>19, <1>20 DEF Next, Step

\* wait() passes no zombie.
LEMMA ScanStep ==
  ASSUME TypeOK, PlaceInv, LockInv, InitInv, ForkInv, ParentIsAlive, WokenInv, ScanInv, [Next]_vars
  PROVE  ScanInv'
<1>1. CASE UNCHANGED vars
  BY <1>1 DEF vars, ScanInv
<1>2. ASSUME NEW p \in Procs, ForkParent(p) PROVE ScanInv'
  BY <1>2, Indices DEF ForkParent, At, Goto, locals, TypeOK, ScanInv
<1>3. ASSUME NEW p \in Procs, ForkRun(p) PROVE ScanInv'
  BY <1>3, Indices DEF ForkRun, At, TypeOK, ScanInv
<1>4. ASSUME NEW p \in Procs, ExitLock(p) PROVE ScanInv'
  BY <1>4, Indices DEF ExitLock, At, Goto, table, TypeOK, ScanInv
<1>5. ASSUME NEW p \in Procs, Reparent(p) PROVE ScanInv'
  <2>1. pc[p] = "reparent" /\ \A q \in Procs : q # p => pc'[q] = pc[q] /\ pc[q] \notin UnderLock
    BY <1>5, LockAlone DEF Reparent, At, Advance, Goto, TypeOK, UnderLock
  <2>2. pc'[p] \in {"reparent", "exit_wakeup"}
    BY <1>5, <2>1 DEF Reparent, Advance, Goto, TypeOK
  <2>3. \A q \in Procs : /\ state'[q] = "SLEEPING" => state[q] = "SLEEPING"
                         /\ state'[q] = "ZOMBIE" => state[q] = "ZOMBIE"
    BY <1>5 DEF Reparent, Woken, TypeOK
  <2>4. \A c \in Procs : parent'[c] = parent[c] \/ (parent'[c] = initproc /\ state'[initproc] # "SLEEPING")
    BY <1>5, Indices DEF Reparent, Woken, TypeOK
  <2> QED
    BY <2>1, <2>2, <2>3, <2>4 DEF ScanInv, UnderLock
<1>6. ASSUME NEW p \in Procs, ExitWakeup(p) PROVE ScanInv'
  BY <1>6, Indices DEF ExitWakeup, At, Goto, Woken, locals, TypeOK, ScanInv
<1>7. ASSUME NEW p \in Procs, ExitZombie(p) PROVE ScanInv'
  <2>1. pc[p] = "exit_zombie" /\ \A q \in Procs : q # p => pc'[q] = pc[q] /\ pc[q] \notin UnderLock
    BY <1>7, LockAlone DEF ExitZombie, At, Goto, TypeOK, UnderLock
  <2>2. pc'[p] = "exit_sched" /\ UNCHANGED parent
    BY <1>7, <2>1 DEF ExitZombie, Goto, TypeOK
  <2>3. \A q \in Procs : /\ state'[q] = "SLEEPING" => state[q] = "SLEEPING"
                         /\ state'[q] = "ZOMBIE" => state[q] = "ZOMBIE" \/ q = p
    BY <1>7 DEF ExitZombie, TypeOK
  <2>4. state[parent[p]] # "SLEEPING"
    BY <2>1 DEF WokenInv
  <2> QED
    BY <2>1, <2>2, <2>3, <2>4 DEF ScanInv, UnderLock
<1>8. ASSUME NEW p \in Procs, ExitSched(p) PROVE ScanInv'
  BY <1>8, Indices DEF ExitSched, Goto, table, locals, TypeOK, ScanInv
<1>9. ASSUME NEW p \in Procs, WaitLock(p) PROVE ScanInv'
  BY <1>9, Indices DEF WaitLock, At, Goto, table, TypeOK, ScanInv
<1>10. ASSUME NEW p \in Procs, Reap(p) PROVE ScanInv'
  BY <1>10, Indices DEF Reap, At, Goto, WaitReturns, WaitUnlock, TypeOK, ScanInv
<1>11. ASSUME NEW p \in Procs, WaitCopyoutFails(p) PROVE ScanInv'
  BY <1>11, Indices DEF WaitCopyoutFails, At, Goto, WaitReturns, WaitUnlock, table, TypeOK, ScanInv
<1>12. ASSUME NEW p \in Procs, WaitScan(p) PROVE ScanInv'
  <2>1. /\ pc[p] = "scan" /\ k[p] \in Procs /\ UNCHANGED <<state, parent>>
        /\ parent[k[p]] = p => state[k[p]] # "ZOMBIE"
    BY <1>12 DEF WaitScan, At, table, TypeOK
  <2>2. \A q \in Procs \ {p} : pc'[q] = pc[q] /\ k'[q] = k[q]
    BY <1>12 DEF WaitScan, Advance, Goto, TypeOK
  <2>3. CASE k[p] = NPROC
    <3>1. pc'[p] = "scanned"
      BY <1>12, <2>3 DEF WaitScan, Advance, Goto, TypeOK
    <3>2. \A c \in Procs : c < k[p] \/ c = k[p]
      BY <2>1, <2>3, ProcConstants DEF Procs
    <3>3. \A c \in Procs : parent[c] = p => state[c] # "ZOMBIE"
      BY <2>1, <3>2 DEF ScanInv
    <3> QED
      BY <2>1, <2>2, <3>1, <3>3 DEF ScanInv
  <2>4. CASE k[p] # NPROC
    <3>1. pc'[p] = "scan" /\ k'[p] = k[p] + 1
      BY <1>12, <2>1, <2>4 DEF WaitScan, Advance, TypeOK
    <3>2. \A c \in Procs : c < k'[p] => c < k[p] \/ c = k[p]
      BY <2>1, <3>1, ProcConstants DEF Procs
    <3>3. \A c \in Procs : c < k'[p] /\ parent[c] = p => state[c] # "ZOMBIE"
      BY <2>1, <3>2 DEF ScanInv
    <3> QED
      BY <2>1, <2>2, <3>1, <3>3, SMTT(60) DEF ScanInv
  <2> QED
    BY <2>3, <2>4
<1>13. ASSUME NEW p \in Procs, WaitGivesUp(p) PROVE ScanInv'
  BY <1>13, Indices DEF WaitGivesUp, At, Goto, WaitReturns, WaitUnlock, table, TypeOK, ScanInv
<1>14. ASSUME NEW p \in Procs, WaitContinues(p) PROVE ScanInv'
  BY <1>14, Indices DEF WaitContinues, At, Goto, table, locals, TypeOK, ScanInv
<1>15. ASSUME NEW p \in Procs, WaitSleep(p) PROVE ScanInv'
  BY <1>15, Indices DEF WaitSleep, At, Goto, WaitUnlock, TypeOK, ScanInv
<1>16. ASSUME NEW p \in Procs, Exit(p) PROVE ScanInv'
  BY <1>16, Indices DEF Exit, At, Goto, table, locals, TypeOK, ScanInv
<1>17. ASSUME NEW p \in Procs, Wait(p) PROVE ScanInv'
  BY <1>17, Indices DEF Wait, Enters, At, Goto, table, locals, TypeOK, ScanInv
<1>18. ASSUME NEW p \in Procs, NEW c \in Procs, Fork(p, c) PROVE ScanInv'
  BY <1>18, Indices, SMTT(60) DEF Fork, Enters, At, Goto, TypeOK, ScanInv
<1>19. ASSUME NEW p \in Procs, NEW c \in Procs, ForkFails(p, c) PROVE ScanInv'
  BY <1>19, Indices DEF ForkFails, Enters, At, locals, TypeOK, ScanInv
<1>20. ASSUME NEW p \in Procs, NEW n \in KillPids, NEW q \in Procs, Kill(p, n, q) PROVE ScanInv'
  BY <1>20, Indices DEF Kill, Enters, At, Woken, locals, TypeOK, ScanInv
<1> QED
  BY <1>1, <1>2, <1>3, <1>4, <1>5, <1>6, <1>7, <1>8, <1>9, <1>10, <1>11, <1>12, <1>13, <1>14, <1>15, <1>16, <1>17, <1>18, <1>19, <1>20 DEF Next, Step

\* The children wait() counted stay until it returns.
LEMMA ChildStep ==
  ASSUME TypeOK, PlaceInv, ForkInv, LockInv, ChildInv, [Next]_vars
  PROVE  ChildInv'
<1>1. CASE UNCHANGED vars
  BY <1>1 DEF vars, ChildInv
<1>2. ASSUME NEW p \in Procs, ForkParent(p) PROVE ChildInv'
  <2>1. pc[p] = "fork_parent" /\ parent[np[p]] = NoProc
    BY <1>2 DEF ForkParent, At, ForkInv, InFork
  <2>2. \A q, c \in Procs : parent[c] = q => parent'[c] = q
    BY <1>2, <2>1, Indices DEF ForkParent, TypeOK
  <2> QED
    BY <1>2, <2>2 DEF ForkParent, Goto, locals, TypeOK, ChildInv
<1>3. ASSUME NEW p \in Procs, ForkRun(p) PROVE ChildInv'
  BY <1>3, Indices DEF ForkRun, At, TypeOK, ChildInv
<1>4. ASSUME NEW p \in Procs, ExitLock(p) PROVE ChildInv'
  BY <1>4, Indices DEF ExitLock, At, Goto, table, TypeOK, ChildInv
<1>5. ASSUME NEW p \in Procs, Reparent(p) PROVE ChildInv'
  BY <1>5, Indices DEF Reparent, At, Goto, Advance, Woken, TypeOK, ChildInv
<1>6. ASSUME NEW p \in Procs, ExitWakeup(p) PROVE ChildInv'
  BY <1>6, Indices DEF ExitWakeup, At, Goto, Woken, locals, TypeOK, ChildInv
<1>7. ASSUME NEW p \in Procs, ExitZombie(p) PROVE ChildInv'
  BY <1>7, Indices DEF ExitZombie, At, Goto, locals, TypeOK, ChildInv
<1>8. ASSUME NEW p \in Procs, ExitSched(p) PROVE ChildInv'
  BY <1>8, Indices DEF ExitSched, Goto, table, locals, TypeOK, ChildInv
<1>9. ASSUME NEW p \in Procs, WaitLock(p) PROVE ChildInv'
  BY <1>9, Indices DEF WaitLock, At, Goto, table, TypeOK, ChildInv
<1>10. ASSUME NEW p \in Procs, Reap(p) PROVE ChildInv'
  BY <1>10, Indices, SMTT(60) DEF Reap, At, Goto, WaitReturns, WaitUnlock, TypeOK, ChildInv
<1>11. ASSUME NEW p \in Procs, WaitCopyoutFails(p) PROVE ChildInv'
  BY <1>11, Indices DEF WaitCopyoutFails, At, Goto, WaitReturns, WaitUnlock, table, TypeOK, ChildInv
<1>12. ASSUME NEW p \in Procs, WaitScan(p) PROVE ChildInv'
  <2>1. pc[p] = "scan" /\ k[p] \in Procs /\ UNCHANGED <<state, parent>>
    BY <1>12 DEF WaitScan, At, table, TypeOK
  <2>2. pc'[p] \in {"scan", "scanned"} /\ \A q \in Procs \ {p} : pc'[q] = pc[q] /\ havekids'[q] = havekids[q]
    BY <1>12, <2>1 DEF WaitScan, Advance, Goto, TypeOK
  <2>3. havekids'[p] => havekids[p] \/ parent[k[p]] = p
    BY <1>12 DEF WaitScan, TypeOK
  <2> QED
    BY <2>1, <2>2, <2>3 DEF ChildInv
<1>13. ASSUME NEW p \in Procs, WaitGivesUp(p) PROVE ChildInv'
  BY <1>13, Indices DEF WaitGivesUp, At, Goto, WaitReturns, WaitUnlock, table, TypeOK, ChildInv
<1>14. ASSUME NEW p \in Procs, WaitContinues(p) PROVE ChildInv'
  BY <1>14, Indices DEF WaitContinues, At, Goto, table, locals, TypeOK, ChildInv
<1>15. ASSUME NEW p \in Procs, WaitSleep(p) PROVE ChildInv'
  BY <1>15, Indices DEF WaitSleep, At, Goto, WaitUnlock, TypeOK, ChildInv
<1>16. ASSUME NEW p \in Procs, Exit(p) PROVE ChildInv'
  BY <1>16, Indices DEF Exit, At, Goto, table, locals, TypeOK, ChildInv
<1>17. ASSUME NEW p \in Procs, Wait(p) PROVE ChildInv'
  BY <1>17, Indices DEF Wait, Enters, At, Goto, table, locals, TypeOK, ChildInv
<1>18. ASSUME NEW p \in Procs, NEW c \in Procs, Fork(p, c) PROVE ChildInv'
  BY <1>18, Indices DEF Fork, Enters, At, Goto, TypeOK, ChildInv
<1>19. ASSUME NEW p \in Procs, NEW c \in Procs, ForkFails(p, c) PROVE ChildInv'
  BY <1>19, Indices DEF ForkFails, Enters, At, locals, TypeOK, ChildInv
<1>20. ASSUME NEW p \in Procs, NEW n \in KillPids, NEW q \in Procs, Kill(p, n, q) PROVE ChildInv'
  BY <1>20, Indices DEF Kill, Enters, At, Woken, locals, TypeOK, ChildInv
<1> QED
  BY <1>1, <1>2, <1>3, <1>4, <1>5, <1>6, <1>7, <1>8, <1>9, <1>10, <1>11, <1>12, <1>13, <1>14, <1>15, <1>16, <1>17, <1>18, <1>19, <1>20 DEF Next, Step

\* The parent of an exiting process stays awake.
LEMMA WokenStep ==
  ASSUME TypeOK, PlaceInv, LockInv, InitInv, WokenInv, [Next]_vars
  PROVE  WokenInv'
<1>1. CASE UNCHANGED vars
  BY <1>1 DEF vars, WokenInv
<1>2. ASSUME NEW p \in Procs, ForkParent(p) PROVE WokenInv'
  BY <1>2, Indices DEF ForkParent, At, Goto, locals, TypeOK, WokenInv
<1>3. ASSUME NEW p \in Procs, ForkRun(p) PROVE WokenInv'
  BY <1>3, Indices DEF ForkRun, At, TypeOK, WokenInv
<1>4. ASSUME NEW p \in Procs, ExitLock(p) PROVE WokenInv'
  BY <1>4, Indices DEF ExitLock, At, Goto, table, TypeOK, WokenInv
<1>5. ASSUME NEW p \in Procs, Reparent(p) PROVE WokenInv'
  <2>1. pc[p] = "reparent" /\ \A q \in Procs : q # p => pc'[q] = pc[q] /\ pc[q] \notin UnderLock
    BY <1>5, LockAlone DEF Reparent, At, Advance, Goto, TypeOK, UnderLock
  <2>2. pc'[p] \in {"reparent", "exit_wakeup"}
    BY <1>5, <2>1 DEF Reparent, Advance, Goto, TypeOK
  <2> QED
    BY <2>1, <2>2 DEF WokenInv, UnderLock
<1>6. ASSUME NEW p \in Procs, ExitWakeup(p) PROVE WokenInv'
  <2>1. pc[p] = "exit_wakeup" /\ \A q \in Procs : q # p => pc'[q] = pc[q] /\ pc[q] \notin UnderLock
    BY <1>6, LockAlone DEF ExitWakeup, At, Goto, TypeOK, UnderLock
  <2>2. state'[parent[p]] # "SLEEPING" /\ UNCHANGED parent
    <3>1. parent[p] \in Procs
      BY <1>6, <2>1 DEF ExitWakeup, At, InitInv, InExit, TypeOK
    <3> QED
      BY <1>6, <3>1 DEF ExitWakeup, Woken, TypeOK
  <2> QED
    BY <2>1, <2>2 DEF WokenInv, UnderLock
<1>7. ASSUME NEW p \in Procs, ExitZombie(p) PROVE WokenInv'
  BY <1>7, Indices DEF ExitZombie, At, Goto, locals, TypeOK, WokenInv
<1>8. ASSUME NEW p \in Procs, ExitSched(p) PROVE WokenInv'
  BY <1>8, Indices DEF ExitSched, Goto, table, locals, TypeOK, WokenInv
<1>9. ASSUME NEW p \in Procs, WaitLock(p) PROVE WokenInv'
  BY <1>9, Indices DEF WaitLock, At, Goto, table, TypeOK, WokenInv
<1>10. ASSUME NEW p \in Procs, Reap(p) PROVE WokenInv'
  <2>1. \A q \in Procs : pc'[q] # "exit_zombie"
    BY <1>10, LockAlone DEF Reap, At, WaitReturns, Goto, TypeOK, UnderLock
  <2> QED
    BY <2>1 DEF WokenInv
<1>11. ASSUME NEW p \in Procs, WaitCopyoutFails(p) PROVE WokenInv'
  BY <1>11, Indices DEF WaitCopyoutFails, At, Goto, WaitReturns, WaitUnlock, table, TypeOK, WokenInv
<1>12. ASSUME NEW p \in Procs, WaitScan(p) PROVE WokenInv'
  BY <1>12, Indices DEF WaitScan, At, Goto, Advance, table, TypeOK, WokenInv
<1>13. ASSUME NEW p \in Procs, WaitGivesUp(p) PROVE WokenInv'
  BY <1>13, Indices DEF WaitGivesUp, At, Goto, WaitReturns, WaitUnlock, table, TypeOK, WokenInv
<1>14. ASSUME NEW p \in Procs, WaitContinues(p) PROVE WokenInv'
  BY <1>14, Indices DEF WaitContinues, At, Goto, table, locals, TypeOK, WokenInv
<1>15. ASSUME NEW p \in Procs, WaitSleep(p) PROVE WokenInv'
  <2>1. \A q \in Procs : pc'[q] # "exit_zombie"
    BY <1>15, LockAlone DEF WaitSleep, At, Goto, TypeOK, UnderLock
  <2> QED
    BY <2>1 DEF WokenInv
<1>16. ASSUME NEW p \in Procs, Exit(p) PROVE WokenInv'
  BY <1>16, Indices DEF Exit, At, Goto, table, locals, TypeOK, WokenInv
<1>17. ASSUME NEW p \in Procs, Wait(p) PROVE WokenInv'
  BY <1>17, Indices DEF Wait, Enters, At, Goto, table, locals, TypeOK, WokenInv
<1>18. ASSUME NEW p \in Procs, NEW c \in Procs, Fork(p, c) PROVE WokenInv'
  BY <1>18, Indices DEF Fork, Enters, At, Goto, TypeOK, WokenInv
<1>19. ASSUME NEW p \in Procs, NEW c \in Procs, ForkFails(p, c) PROVE WokenInv'
  BY <1>19, Indices DEF ForkFails, Enters, At, locals, TypeOK, WokenInv
<1>20. ASSUME NEW p \in Procs, NEW n \in KillPids, NEW q \in Procs, Kill(p, n, q) PROVE WokenInv'
  BY <1>20, Indices, SMTT(60) DEF Kill, Enters, At, Woken, locals, TypeOK, WokenInv
<1> QED
  BY <1>1, <1>2, <1>3, <1>4, <1>5, <1>6, <1>7, <1>8, <1>9, <1>10, <1>11, <1>12, <1>13, <1>14, <1>15, <1>16, <1>17, <1>18, <1>19, <1>20 DEF Next, Step

\* pids are given once.
LEMMA PidStep ==
  ASSUME TypeOK, PlaceInv, ForkInv, PidInv, [Next]_vars
  PROVE  PidInv'
<1>1. CASE UNCHANGED vars
  BY <1>1 DEF vars, PidInv, PidsUnique
<1>2. ASSUME NEW p \in Procs, ForkParent(p) PROVE PidInv'
  BY <1>2, Indices DEF ForkParent, At, Goto, locals, TypeOK, PidInv, PidsUnique
<1>3. ASSUME NEW p \in Procs, ForkRun(p) PROVE PidInv'
  BY <1>3, Indices DEF ForkRun, At, TypeOK, PidInv, PidsUnique, ForkInv, InFork
<1>4. ASSUME NEW p \in Procs, ExitLock(p) PROVE PidInv'
  BY <1>4, Indices DEF ExitLock, At, Goto, table, TypeOK, PidInv, PidsUnique
<1>5. ASSUME NEW p \in Procs, Reparent(p) PROVE PidInv'
  BY <1>5, Indices DEF Reparent, At, Goto, Advance, Woken, TypeOK, PidInv, PidsUnique
<1>6. ASSUME NEW p \in Procs, ExitWakeup(p) PROVE PidInv'
  BY <1>6, Indices DEF ExitWakeup, At, Goto, Woken, locals, TypeOK, PidInv, PidsUnique
<1>7. ASSUME NEW p \in Procs, ExitZombie(p) PROVE PidInv'
  BY <1>7, Indices DEF ExitZombie, At, Goto, locals, TypeOK, PidInv, PidsUnique
<1>8. ASSUME NEW p \in Procs, ExitSched(p) PROVE PidInv'
  BY <1>8, Indices DEF ExitSched, Goto, table, locals, TypeOK, PidInv, PidsUnique
<1>9. ASSUME NEW p \in Procs, WaitLock(p) PROVE PidInv'
  BY <1>9, Indices DEF WaitLock, At, Goto, table, TypeOK, PidInv, PidsUnique
<1>10. ASSUME NEW p \in Procs, Reap(p) PROVE PidInv'
  BY <1>10, Indices DEF Reap, At, Goto, WaitReturns, WaitUnlock, TypeOK, PidInv, PidsUnique
<1>11. ASSUME NEW p \in Procs, WaitCopyoutFails(p) PROVE PidInv'
  BY <1>11, Indices DEF WaitCopyoutFails, At, Goto, WaitReturns, WaitUnlock, table, TypeOK, PidInv, PidsUnique
<1>12. ASSUME NEW p \in Procs, WaitScan(p) PROVE PidInv'
  BY <1>12, Indices DEF WaitScan, At, Goto, Advance, table, TypeOK, PidInv, PidsUnique
<1>13. ASSUME NEW p \in Procs, WaitGivesUp(p) PROVE PidInv'
  BY <1>13, Indices DEF WaitGivesUp, At, Goto, WaitReturns, WaitUnlock, table, TypeOK, PidInv, PidsUnique
<1>14. ASSUME NEW p \in Procs, WaitContinues(p) PROVE PidInv'
  BY <1>14, Indices DEF WaitContinues, At, Goto, table, locals, TypeOK, PidInv, PidsUnique
<1>15. ASSUME NEW p \in Procs, WaitSleep(p) PROVE PidInv'
  BY <1>15, Indices DEF WaitSleep, At, Goto, WaitUnlock, TypeOK, PidInv, PidsUnique
<1>16. ASSUME NEW p \in Procs, Exit(p) PROVE PidInv'
  BY <1>16, Indices DEF Exit, At, Goto, table, locals, TypeOK, PidInv, PidsUnique
<1>17. ASSUME NEW p \in Procs, Wait(p) PROVE PidInv'
  BY <1>17, Indices DEF Wait, Enters, At, Goto, table, locals, TypeOK, PidInv, PidsUnique
<1>18. ASSUME NEW p \in Procs, NEW c \in Procs, Fork(p, c) PROVE PidInv'
  BY <1>18, Indices DEF Fork, Enters, At, Goto, TypeOK, PidInv, PidsUnique
<1>19. ASSUME NEW p \in Procs, NEW c \in Procs, ForkFails(p, c) PROVE PidInv'
  BY <1>19, Indices DEF ForkFails, Enters, At, locals, TypeOK, PidInv, PidsUnique
<1>20. ASSUME NEW p \in Procs, NEW n \in KillPids, NEW q \in Procs, Kill(p, n, q) PROVE PidInv'
  BY <1>20, Indices DEF Kill, Enters, At, Woken, locals, TypeOK, PidInv, PidsUnique
<1> QED
  BY <1>1, <1>2, <1>3, <1>4, <1>5, <1>6, <1>7, <1>8, <1>9, <1>10, <1>11, <1>12, <1>13, <1>14, <1>15, <1>16, <1>17, <1>18, <1>19, <1>20 DEF Next, Step

\* A killed mark is made by kill() of a process, and freeproc() clears it.
LEMMA KilledStep ==
  ASSUME 0 \notin KillPids, TypeOK, PlaceInv, ForkInv, PidInv, KilledInv, [Next]_vars
  PROVE  KilledInv'
<1>1. CASE UNCHANGED vars
  BY <1>1 DEF vars, KilledInv, KilledOnlyIfAsked
<1>2. ASSUME NEW p \in Procs, ForkParent(p) PROVE KilledInv'
  BY <1>2 DEF ForkParent, At, Goto, locals, TypeOK, KilledInv, KilledOnlyIfAsked
<1>3. ASSUME NEW p \in Procs, ForkRun(p) PROVE KilledInv'
  BY <1>3 DEF ForkRun, At, TypeOK, KilledInv, KilledOnlyIfAsked, ForkInv, InFork
<1>4. ASSUME NEW p \in Procs, ExitLock(p) PROVE KilledInv'
  BY <1>4 DEF ExitLock, At, Goto, table, TypeOK, KilledInv, KilledOnlyIfAsked
<1>5. ASSUME NEW p \in Procs, Reparent(p) PROVE KilledInv'
  BY <1>5 DEF Reparent, At, Goto, Advance, Woken, TypeOK, KilledInv, KilledOnlyIfAsked
<1>6. ASSUME NEW p \in Procs, ExitWakeup(p) PROVE KilledInv'
  BY <1>6 DEF ExitWakeup, At, Goto, Woken, locals, TypeOK, KilledInv, KilledOnlyIfAsked
<1>7. ASSUME NEW p \in Procs, ExitZombie(p) PROVE KilledInv'
  BY <1>7 DEF ExitZombie, At, Goto, locals, TypeOK, KilledInv, KilledOnlyIfAsked
<1>8. ASSUME NEW p \in Procs, ExitSched(p) PROVE KilledInv'
  BY <1>8 DEF ExitSched, Goto, table, locals, TypeOK, KilledInv, KilledOnlyIfAsked
<1>9. ASSUME NEW p \in Procs, WaitLock(p) PROVE KilledInv'
  BY <1>9 DEF WaitLock, At, Goto, table, TypeOK, KilledInv, KilledOnlyIfAsked
<1>10. ASSUME NEW p \in Procs, Reap(p) PROVE KilledInv'
  BY <1>10 DEF Reap, At, Goto, WaitReturns, WaitUnlock, TypeOK, KilledInv, KilledOnlyIfAsked
<1>11. ASSUME NEW p \in Procs, WaitCopyoutFails(p) PROVE KilledInv'
  BY <1>11 DEF WaitCopyoutFails, At, Goto, WaitReturns, WaitUnlock, table, TypeOK, KilledInv, KilledOnlyIfAsked
<1>12. ASSUME NEW p \in Procs, WaitScan(p) PROVE KilledInv'
  BY <1>12 DEF WaitScan, At, Goto, Advance, table, TypeOK, KilledInv, KilledOnlyIfAsked
<1>13. ASSUME NEW p \in Procs, WaitGivesUp(p) PROVE KilledInv'
  BY <1>13 DEF WaitGivesUp, At, Goto, WaitReturns, WaitUnlock, table, TypeOK, KilledInv, KilledOnlyIfAsked
<1>14. ASSUME NEW p \in Procs, WaitContinues(p) PROVE KilledInv'
  BY <1>14 DEF WaitContinues, At, Goto, table, locals, TypeOK, KilledInv, KilledOnlyIfAsked
<1>15. ASSUME NEW p \in Procs, WaitSleep(p) PROVE KilledInv'
  BY <1>15 DEF WaitSleep, At, Goto, WaitUnlock, TypeOK, KilledInv, KilledOnlyIfAsked
<1>16. ASSUME NEW p \in Procs, Exit(p) PROVE KilledInv'
  BY <1>16 DEF Exit, At, Goto, table, locals, TypeOK, KilledInv, KilledOnlyIfAsked
<1>17. ASSUME NEW p \in Procs, Wait(p) PROVE KilledInv'
  BY <1>17 DEF Wait, Enters, At, Goto, table, locals, TypeOK, KilledInv, KilledOnlyIfAsked
<1>18. ASSUME NEW p \in Procs, NEW c \in Procs, Fork(p, c) PROVE KilledInv'
  BY <1>18 DEF Fork, Enters, At, Goto, TypeOK, KilledInv, KilledOnlyIfAsked, PidInv
<1>19. ASSUME NEW p \in Procs, NEW c \in Procs, ForkFails(p, c) PROVE KilledInv'
  BY <1>19 DEF ForkFails, Enters, At, locals, TypeOK, KilledInv, KilledOnlyIfAsked
<1>20. ASSUME NEW p \in Procs, NEW n \in KillPids, NEW q \in Procs, Kill(p, n, q) PROVE KilledInv'
  BY <1>20 DEF Kill, Enters, At, Woken, locals, TypeOK, KilledInv, KilledOnlyIfAsked, PidInv
<1> QED
  BY <1>1, <1>2, <1>3, <1>4, <1>5, <1>6, <1>7, <1>8, <1>9, <1>10, <1>11, <1>12, <1>13, <1>14, <1>15, <1>16, <1>17, <1>18, <1>19, <1>20 DEF Next, Step

LEMMA InitIInv == Init => IInv /\ KilledInv
<1> SUFFICES ASSUME Init PROVE IInv /\ KilledInv
  OBVIOUS
<1>1. TypeOK
  BY TypeInit
<1>2. PlaceInv /\ LockInv /\ ForkInv
  BY Indices DEF Init, PlaceInv, LockInv, ForkInv, InFork, UnderLock
<1>3. InitInv /\ ParentIsAlive /\ ReparentInv
  BY Indices DEF Init, InitInv, InExit, ParentIsAlive, ReparentInv
<1>4. ScanInv /\ ChildInv /\ WokenInv
  BY Indices DEF Init, ScanInv, ChildInv, WokenInv
<1>5. PidInv
  BY Indices DEF Init, PidInv, PidsUnique
<1>6. KilledInv
  BY Indices DEF Init, KilledInv, KilledOnlyIfAsked
<1> QED
  BY <1>1, <1>2, <1>3, <1>4, <1>5, <1>6 DEF IInv

\* IInv is an inductive invariant of proc.c.
THEOREM Invariance == Spec => []IInv
<1>1. IInv /\ [Next]_vars => IInv'
  BY TypeStep, PlaceStep, LockStep, ForkStep, InitStep, AliveStep, ReparentStep, ScanStep,
     ChildStep, WokenStep, PidStep DEF IInv
<1> QED
  BY <1>1, InitIInv, PTL DEF Spec

\* freeproc() is only reached when the scheduler is off the stack of the process:
\* a slot is UNUSED, and so can be given away by allocproc(), only then.
THEOREM StacksFreed == Spec => []FreedOffStack
<1>1. IInv => FreedOffStack
  BY DEF IInv, PlaceInv, FreedOffStack
<1> QED
  BY <1>1, Invariance, PTL

\* exit(), reparent() and wait() together: nobody sleeps in wait() beside a zombie
\* child or without a child, and every child has a parent that has not exited.
THEOREM WaitersAreServed == Spec => []WaitersServed
<1>1. IInv => NoZombieOverlooked
  BY DEF IInv, ScanInv, NoZombieOverlooked
<1>2. IInv => SleeperHasChild
  BY DEF IInv, ChildInv, SleeperHasChild
<1>3. IInv => WaitersServed
  BY <1>1, <1>2 DEF IInv, WaitersServed
<1> QED
  BY <1>3, Invariance, PTL

\* As long as nobody calls kill(0), a slot that allocproc() hands out again carries
\* nothing over: a live process is marked killed only after kill() of its own pid,
\* and no two processes share a pid.
THEOREM SlotsCarryNothing ==
  ASSUME 0 \notin KillPids
  PROVE  Spec => []SlotsClean
<1>1. IInv /\ KilledInv /\ [Next]_vars => KilledInv'
  BY KilledStep DEF IInv
<1>2. IInv /\ KilledInv => SlotsClean
  BY DEF IInv, PidInv, KilledInv, SlotsClean
<1> QED
  BY <1>1, <1>2, InitIInv, Invariance, PTL DEF Spec
=============================================================================
