-------------------------------- MODULE Proc --------------------------------
(***************************************************************************)
(* The life of a process in kernel/proc.c: fork() with allocproc() and     *)
(* freeproc(), exit() with reparent(), wait(), kill() and the check of     *)
(* p->killed on the way in and out of the kernel (trap.c).                 *)
(*                                                                         *)
(* wait_lock is explicit, with the steps taken under it.  What is done     *)
(* under one p->lock is one step; only exit() keeps p->lock across steps,  *)
(* until the scheduler is off p's stack.  RUNNING and RUNNABLE are one     *)
(* state here, and sleep() releases wait_lock in one step: see Sched.      *)
(***************************************************************************)
EXTENDS Integers, FiniteSets

CONSTANTS NPROC,      \* size of proc[]
          MaxPid,     \* bound on nextpid, which the code does not bound
          KillPids    \* what programs pass to kill()

ASSUME ProcConstants == NPROC \in Nat \ {0} /\ MaxPid \in Nat /\ KillPids \subseteq 0..MaxPid

Procs == 1..NPROC
NoProc == 0
initproc == 1

VARIABLES
  state, parent, pid, killed,  \* struct proc
  nextpid,
  wait_lock,                   \* the process that holds it
  pc, k, havekids, np,         \* each process's place and locals
  asked                        \* the pids kill() has been called with

table == <<state, parent, pid, killed, nextpid>>
locals == <<k, havekids, np>>
vars == <<state, parent, pid, killed, nextpid, wait_lock, pc, k, havekids, np, asked>>

At(p, s) == pc[p] = s /\ state[p] = "RUNNABLE"
Goto(p, s) == pc' = [pc EXCEPT ![p] = s]

\* exit() holds p->lock from ZOMBIE until the scheduler has left p's stack.
Unlocked(p) == pc[p] # "exit_sched"

\* p enters a system call: usertrap() has found it not killed.
Enters(p) == At(p, "user") /\ ~killed[p]

\* wakeup() on the channel the process q waits on in wait().
Woken(q) == IF state[q] = "SLEEPING" THEN [state EXCEPT ![q] = "RUNNABLE"] ELSE state

----------------------------------------------------------------------------
\* fork()

\* allocproc() finds the slot c; the copies fork() makes are of c's own data.
Fork(p, c) ==
  /\ Enters(p) /\ state[c] = "UNUSED" /\ nextpid <= MaxPid
  /\ pid' = [pid EXCEPT ![c] = nextpid]
  /\ nextpid' = nextpid + 1
  /\ state' = [state EXCEPT ![c] = "USED"]
  /\ np' = [np EXCEPT ![p] = c]
  /\ Goto(p, "fork_parent")
  /\ UNCHANGED <<parent, killed, wait_lock, k, havekids, asked>>

\* Memory runs out in allocproc() or uvmcopy(): freeproc(), a pid is used up.
ForkFails(p, c) ==
  /\ Enters(p) /\ state[c] = "UNUSED" /\ nextpid <= MaxPid
  /\ nextpid' = nextpid + 1
  /\ killed' = [killed EXCEPT ![c] = FALSE]
  /\ UNCHANGED <<state, parent, pid, wait_lock, pc, locals, asked>>

\* np->parent = p under wait_lock.
ForkParent(p) ==
  /\ At(p, "fork_parent") /\ wait_lock = NoProc
  /\ parent' = [parent EXCEPT ![np[p]] = p]
  /\ Goto(p, "fork_run")
  /\ UNCHANGED <<state, pid, killed, nextpid, wait_lock, locals, asked>>

\* np->state = RUNNABLE; the child starts in forkret() and goes to user space.
ForkRun(p) ==
  /\ At(p, "fork_run")
  /\ state' = [state EXCEPT ![np[p]] = "RUNNABLE"]
  /\ pc' = [pc EXCEPT ![p] = "user", ![np[p]] = "user"]
  /\ np' = [np EXCEPT ![p] = NoProc]
  /\ UNCHANGED <<parent, pid, killed, nextpid, wait_lock, k, havekids, asked>>

----------------------------------------------------------------------------
\* exit()

\* exit() by the program, or by usertrap() because p is killed.
Exit(p) ==
  /\ At(p, "user") /\ p # initproc
  /\ Goto(p, "exit")
  /\ UNCHANGED <<table, wait_lock, locals, asked>>

ExitLock(p) ==
  /\ At(p, "exit") /\ wait_lock = NoProc
  /\ wait_lock' = p
  /\ k' = [k EXCEPT ![p] = 1]
  /\ Goto(p, "reparent")
  /\ UNCHANGED <<table, havekids, np, asked>>

Advance(p, s) ==
  IF k[p] = NPROC
  THEN Goto(p, s) /\ k' = [k EXCEPT ![p] = 1]
  ELSE k' = [k EXCEPT ![p] = k[p] + 1] /\ UNCHANGED pc

Mut_ReparentNoWakeup(p) ==
  /\ At(p, "reparent")
  /\ parent' = IF parent[k[p]] = p THEN [parent EXCEPT ![k[p]] = initproc] ELSE parent
  /\ Advance(p, "exit_wakeup")
  /\ UNCHANGED <<state, pid, killed, nextpid, wait_lock, havekids, np, asked>>

\* One iteration of reparent().
Reparent(p) ==
  /\ At(p, "reparent")
  /\ IF parent[k[p]] = p
     THEN /\ parent' = [parent EXCEPT ![k[p]] = initproc]
          /\ state' = Woken(initproc)
     ELSE UNCHANGED <<parent, state>>
  /\ Advance(p, "exit_wakeup")
  /\ UNCHANGED <<pid, killed, nextpid, wait_lock, havekids, np, asked>>

\* wakeup(p->parent)
ExitWakeup(p) ==
  /\ At(p, "exit_wakeup")
  /\ state' = Woken(parent[p])
  /\ Goto(p, "exit_zombie")
  /\ UNCHANGED <<parent, pid, killed, nextpid, wait_lock, locals, asked>>

\* acquire(&p->lock), p->state = ZOMBIE, release(&wait_lock)
ExitZombie(p) ==
  /\ At(p, "exit_zombie")
  /\ state' = [state EXCEPT ![p] = "ZOMBIE"]
  /\ wait_lock' = NoProc
  /\ Goto(p, "exit_sched")
  /\ UNCHANGED <<parent, pid, killed, nextpid, locals, asked>>

\* sched(): the CPU leaves p's stack and the scheduler releases p->lock.
ExitSched(p) ==
  /\ pc[p] = "exit_sched"
  /\ Goto(p, "none")
  /\ UNCHANGED <<table, wait_lock, locals, asked>>

----------------------------------------------------------------------------
\* wait()

Wait(p) ==
  /\ Enters(p)
  /\ Goto(p, "wait")
  /\ UNCHANGED <<table, wait_lock, locals, asked>>

\* acquire(&wait_lock), also on return from sleep(); havekids = 0.
WaitLock(p) ==
  /\ At(p, "wait") /\ wait_lock = NoProc
  /\ wait_lock' = p
  /\ k' = [k EXCEPT ![p] = 1]
  /\ havekids' = [havekids EXCEPT ![p] = FALSE]
  /\ Goto(p, "scan")
  /\ UNCHANGED <<table, np, asked>>

\* k and havekids are dead once wait_lock is given up.
WaitUnlock(p) ==
  /\ wait_lock' = NoProc
  /\ k' = [k EXCEPT ![p] = 1]
  /\ havekids' = [havekids EXCEPT ![p] = FALSE]

WaitReturns(p) == WaitUnlock(p) /\ Goto(p, "user")

Mut_Reap(p) ==
  /\ At(p, "scan") /\ parent[k[p]] = p /\ state[k[p]] = "ZOMBIE"
  /\ state' = [state EXCEPT ![k[p]] = "UNUSED"]
  /\ parent' = [parent EXCEPT ![k[p]] = NoProc]
  /\ pid' = [pid EXCEPT ![k[p]] = 0]
  /\ killed' = [killed EXCEPT ![k[p]] = FALSE]
  /\ WaitReturns(p)
  /\ UNCHANGED <<nextpid, np, asked>>

Mut_ReapKeepsKilled(p) ==
  /\ At(p, "scan") /\ parent[k[p]] = p /\ Unlocked(k[p]) /\ state[k[p]] = "ZOMBIE"
  /\ state' = [state EXCEPT ![k[p]] = "UNUSED"]
  /\ parent' = [parent EXCEPT ![k[p]] = NoProc]
  /\ pid' = [pid EXCEPT ![k[p]] = 0]
  /\ WaitReturns(p)
  /\ UNCHANGED <<killed, nextpid, np, asked>>

\* The child k has exited: freeproc(), return its pid.
Reap(p) ==
  /\ At(p, "scan") /\ parent[k[p]] = p /\ Unlocked(k[p]) /\ state[k[p]] = "ZOMBIE"
  /\ state' = [state EXCEPT ![k[p]] = "UNUSED"]
  /\ parent' = [parent EXCEPT ![k[p]] = NoProc]
  /\ pid' = [pid EXCEPT ![k[p]] = 0]
  /\ killed' = [killed EXCEPT ![k[p]] = FALSE]
  /\ WaitReturns(p)
  /\ UNCHANGED <<nextpid, np, asked>>

\* copyout() of the exit status fails (init passes 0 and wants no status).
WaitCopyoutFails(p) ==
  /\ At(p, "scan") /\ parent[k[p]] = p /\ Unlocked(k[p]) /\ state[k[p]] = "ZOMBIE"
  /\ p # initproc
  /\ WaitReturns(p)
  /\ UNCHANGED <<table, np, asked>>

Mut_WaitScan(p) ==
  /\ At(p, "scan")
  /\ parent[k[p]] = p => Unlocked(k[p]) /\ state[k[p]] # "ZOMBIE"
  /\ havekids' = [havekids EXCEPT ![p] = @ \/ parent[k[p]] = p]
  /\ IF k[p] = NPROC - 1
     THEN Goto(p, "scanned") /\ k' = [k EXCEPT ![p] = 1]
     ELSE k' = [k EXCEPT ![p] = k[p] + 1] /\ UNCHANGED pc
  /\ UNCHANGED <<table, wait_lock, np, asked>>

\* Any other slot: not a child, or a child that has not exited.
WaitScan(p) ==
  /\ At(p, "scan")
  /\ parent[k[p]] = p => Unlocked(k[p]) /\ state[k[p]] # "ZOMBIE"
  /\ havekids' = [havekids EXCEPT ![p] = @ \/ parent[k[p]] = p]
  /\ Advance(p, "scanned")
  /\ UNCHANGED <<table, wait_lock, np, asked>>

\* No children, or killed(p): return -1.
WaitGivesUp(p) ==
  /\ At(p, "scanned") /\ (~havekids[p] \/ killed[p])
  /\ WaitReturns(p)
  /\ UNCHANGED <<table, np, asked>>

WaitContinues(p) ==
  /\ At(p, "scanned") /\ havekids[p] /\ ~killed[p]
  /\ Goto(p, "sleep")
  /\ UNCHANGED <<table, wait_lock, locals, asked>>

\* sleep(p, &wait_lock)
WaitSleep(p) ==
  /\ At(p, "sleep")
  /\ state' = [state EXCEPT ![p] = "SLEEPING"]
  /\ WaitUnlock(p)
  /\ Goto(p, "wait")
  /\ UNCHANGED <<parent, pid, killed, nextpid, np, asked>>

----------------------------------------------------------------------------
\* kill(n) reaches the first slot whose pid is n.
Kill(p, n, q) ==
  /\ Enters(p) /\ Unlocked(q)
  /\ pid[q] = n /\ \A r \in 1..(q - 1) : pid[r] # n
  /\ killed' = [killed EXCEPT ![q] = TRUE]
  /\ state' = Woken(q)
  /\ asked' = asked \union {n}
  /\ UNCHANGED <<parent, pid, nextpid, wait_lock, pc, locals>>

----------------------------------------------------------------------------
\* After userinit(): init alone.
Init ==
  /\ state = [p \in Procs |-> IF p = initproc THEN "RUNNABLE" ELSE "UNUSED"]
  /\ parent = [p \in Procs |-> NoProc]
  /\ pid = [p \in Procs |-> IF p = initproc THEN 1 ELSE 0]
  /\ killed = [p \in Procs |-> FALSE]
  /\ nextpid = 2
  /\ wait_lock = NoProc
  /\ pc = [p \in Procs |-> IF p = initproc THEN "user" ELSE "none"]
  /\ k = [p \in Procs |-> 1]
  /\ havekids = [p \in Procs |-> FALSE]
  /\ np = [p \in Procs |-> NoProc]
  /\ asked = {}

\* What p does once it is inside a call.
Step(p) ==
  \/ ForkParent(p) \/ ForkRun(p)
  \/ ExitLock(p) \/ Reparent(p) \/ ExitWakeup(p) \/ ExitZombie(p) \/ ExitSched(p)
  \/ WaitLock(p) \/ Reap(p) \/ WaitCopyoutFails(p) \/ WaitScan(p)
  \/ WaitGivesUp(p) \/ WaitContinues(p) \/ WaitSleep(p)

Next ==
  \E p \in Procs :
    \/ Step(p) \/ Exit(p) \/ Wait(p)
    \/ \E c \in Procs : Fork(p, c) \/ ForkFails(p, c)
    \/ \E n \in KillPids, q \in Procs : Kill(p, n, q)

Spec == Init /\ [][Next]_vars

\* A process inside a call gets on with it and wins wait_lock if that keeps being
\* free; init's program (user/init.c) calls wait() for ever.
Fairness ==
  /\ \A p \in Procs : SF_vars(Step(p))
  /\ SF_vars(Wait(initproc))

FairSpec == Spec /\ Fairness

----------------------------------------------------------------------------
Places == {"none", "user", "fork_parent", "fork_run", "exit", "reparent", "exit_wakeup",
           "exit_zombie", "exit_sched", "wait", "scan", "scanned", "sleep"}

\* Types of the variables.
TypeOK ==
  /\ state \in [Procs -> {"UNUSED", "USED", "RUNNABLE", "SLEEPING", "ZOMBIE"}]
  /\ parent \in [Procs -> Procs \union {NoProc}]
  /\ pid \in [Procs -> Nat]
  /\ killed \in [Procs -> BOOLEAN]
  /\ nextpid \in Nat
  /\ wait_lock \in Procs \union {NoProc}
  /\ pc \in [Procs -> Places]
  /\ k \in [Procs -> Procs]
  /\ havekids \in [Procs -> BOOLEAN]
  /\ np \in [Procs -> Procs \union {NoProc}]
  /\ asked \subseteq Nat

\* A slot is only freed, and so only given to a new process, when no CPU is on
\* its stack any more: wait() has to take pp->lock before it looks at the state.
FreedOffStack == \A p \in Procs : state[p] = "UNUSED" => pc[p] = "none"

\* wait() misses no exit(): nobody sleeps in wait() with a zombie child, unless
\* a process is still working under wait_lock.
NoZombieOverlooked ==
  wait_lock = NoProc =>
    \A p, c \in Procs : state[p] = "SLEEPING" /\ parent[c] = p => state[c] # "ZOMBIE"

\* Whoever sleeps in wait() has a child to wait for.
SleeperHasChild ==
  \A p \in Procs : state[p] = "SLEEPING" => \E c \in Procs : parent[c] = p

\* reparent() leaves no orphan: the parent of a process has not exited.
ParentIsAlive ==
  \A c \in Procs : parent[c] # NoProc =>
    state[c] # "UNUSED" /\ state[parent[c]] \in {"RUNNABLE", "SLEEPING"}

\* A live process is marked killed only after kill() was called with its pid
\* (comment on kill(), proc.c:594).
KilledOnlyIfAsked ==
  \A p \in Procs : state[p] # "UNUSED" /\ killed[p] => pid[p] \in asked

\* No two processes share a pid.
PidsUnique ==
  \A p, q \in Procs : p # q /\ state[p] # "UNUSED" => pid[p] # pid[q]

\* A zombie that belongs to init, by birth or through reparent(), is reaped.
InitReaps ==
  \A p \in Procs : state[p] = "ZOMBIE" /\ parent[p] = initproc ~> state[p] = "UNUSED"

(* exit(), wait() and reparent() as a whole: nobody sleeps in wait()       *)
(* beside a zombie child or without children, and no child is left without *)
(* a parent.                                                               *)
WaitersServed == TypeOK /\ NoZombieOverlooked /\ SleeperHasChild /\ ParentIsAlive

(* A slot of proc[] that is used again carries nothing over: not the pid,  *)
(* and not the killed mark.                                                *)
SlotsClean == KilledOnlyIfAsked /\ PidsUnique
=============================================================================
