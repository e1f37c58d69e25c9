------------------------------- MODULE Sched -------------------------------
(***************************************************************************)
(* Processes and CPUs: scheduler(), sched(), swtch(), yield() from a timer *)
(* interrupt, sleep(), wakeup() and kill() of kernel/proc.c, with the      *)
(* sleep-locks of kernel/sleeplock.c as the code that sleeps and wakes.    *)
(*                                                                         *)
(* A CPU executes on its scheduler's stack or on a process's kernel stack. *)
(* swtch() saves the place of one in memory and then takes up the other,   *)
(* two steps between which the old stack is still in use.  Spinlocks are   *)
(* taken in one step (see Spinlock), with their effect on noff, intena and *)
(* the interrupt flag; what is done under a lock to data only that lock    *)
(* guards is one step with taking it.  A local variable that is dead goes  *)
(* back to its initial value.                                              *)
(***************************************************************************)
EXTENDS Integers, FiniteSets

CONSTANTS CPUs,     \* the harts
          NoCpu,    \* a spinlock nobody holds
          NPROC     \* size of proc[]

ASSUME SchedConstants == NPROC \in Nat \ {0} /\ NoCpu \notin CPUs

Procs == 1..NPROC
NoProc == 0

VARIABLES
  state, chan,      \* struct proc
  context,          \* p->context: where swtch() will resume p
  frame,            \* p's stack: the place a timer interrupt will return to
  saved,            \* p's stack: the local variable intena of sched()
  next,             \* p's stack: the loop variable of wakeup()
  plock,            \* the CPU that holds p->lock
  on, at, idx,      \* per CPU: whose stack it is on, its place, scheduler()'s loop variable
  proc,             \* struct cpu: c->proc
  noff, intena,     \* struct cpu
  intr,             \* sstatus.SIE
  lk, locked, pid,  \* the sleep-lock: holder of lk->lk, lk->locked, lk->pid
  holders           \* the processes between acquiresleep() and releasesleep()

proct == <<state, chan, plock>>
stack == <<context, frame, saved, next>>
regs == <<on, at, idx, proc>>
irq == <<noff, intena, intr>>
slock == <<lk, locked, pid, holders>>
vars == <<state, chan, context, frame, saved, next, plock, on, at, idx, proc,
          noff, intena, intr, lk, locked, pid, holders>>

Goto(c, s) == at' = [at EXCEPT ![c] = s]
Set(f, x, v) == [f EXCEPT ![x] = v]

\* The interrupt accounting of acquire() and of release().
PushOff(c) ==
  /\ noff' = Set(noff, c, noff[c] + 1)
  /\ intena' = IF noff[c] = 0 THEN Set(intena, c, intr[c]) ELSE intena
  /\ intr' = Set(intr, c, FALSE)

PopOff(c) ==
  /\ noff' = Set(noff, c, noff[c] - 1)
  /\ intr' = Set(intr, c, noff[c] = 1 /\ intena[c])
  /\ UNCHANGED intena

AcquireP(c, p) == plock[p] = NoCpu /\ plock' = Set(plock, p, c) /\ PushOff(c)
ReleaseP(c, p) == plock' = Set(plock, p, NoCpu) /\ PopOff(c)

----------------------------------------------------------------------------
\* scheduler()

InScheduler(c, s) == on[c] = NoProc /\ at[c] = s

\* intr_on(), and the scan of proc[] starts again (after wfi, if it found nothing).
SchedLoop(c) ==
  /\ InScheduler(c, "loop")
  /\ intr' = Set(intr, c, TRUE)
  /\ idx' = Set(idx, c, 1)
  /\ Goto(c, "look")
  /\ UNCHANGED <<proct, stack, on, proc, noff, intena, slock>>

Mut_SchedLook(c) ==
  /\ InScheduler(c, "look") /\ AcquireP(c, idx[c])
  /\ IF state[idx[c]] = "RUNNABLE"
     THEN /\ proc' = Set(proc, c, idx[c])
          /\ Goto(c, "swtch")
     ELSE Goto(c, "unlock") /\ UNCHANGED proc
  /\ UNCHANGED <<state, chan, stack, on, idx, slock>>

\* acquire(&p->lock), and claim p if it is RUNNABLE.
SchedLook(c) ==
  /\ InScheduler(c, "look") /\ AcquireP(c, idx[c])
  /\ IF state[idx[c]] = "RUNNABLE"
     THEN /\ state' = Set(state, idx[c], "RUNNING")
          /\ proc' = Set(proc, c, idx[c])
          /\ Goto(c, "swtch")
     ELSE Goto(c, "unlock") /\ UNCHANGED <<state, proc>>
  /\ UNCHANGED <<chan, stack, on, idx, slock>>

\* swtch(&c->context, &p->context)
SwtchToProc(c) ==
  /\ InScheduler(c, "swtch")
  /\ on' = Set(on, c, idx[c])
  /\ Goto(c, context[idx[c]])
  /\ UNCHANGED <<proct, stack, idx, proc, irq, slock>>

\* Back from p, or p was not RUNNABLE: c->proc = 0, release(&p->lock), next p.
SchedUnlock(c) ==
  /\ InScheduler(c, "unlock")
  /\ ReleaseP(c, idx[c])
  /\ proc' = Set(proc, c, NoProc)
  /\ IF idx[c] = NPROC
     THEN Goto(c, "loop") /\ UNCHANGED idx
     ELSE Goto(c, "look") /\ idx' = Set(idx, c, idx[c] + 1)
  /\ UNCHANGED <<state, chan, stack, on, slock>>

----------------------------------------------------------------------------
\* A process's kernel thread: sched(), yield(), forkret()

InProc(c, p, s) == on[c] = p /\ at[c] = s

\* sched(): its tests, intena = mycpu()->intena, and swtch() saves p->context.
Sched(c, p) ==
  /\ \/ InProc(c, p, "sched_sleep") /\ context' = Set(context, p, "sleep_woken")
     \/ InProc(c, p, "sched_yield") /\ context' = Set(context, p, "yield_resumed")
  /\ plock[p] = c /\ noff[c] = 1 /\ state[p] # "RUNNING" /\ ~intr[c]
  /\ saved' = Set(saved, p, intena[c])
  /\ Goto(c, "swtch")
  /\ UNCHANGED <<proct, frame, next, on, idx, proc, irq, slock>>

\* swtch() takes up c->context: the scheduler goes on after its own swtch().
SwtchToScheduler(c, p) ==
  /\ InProc(c, p, "swtch")
  /\ on' = Set(on, c, NoProc)
  /\ Goto(c, "unlock")
  /\ UNCHANGED <<proct, stack, idx, proc, irq, slock>>

\* A timer interrupt: kerneltrap() or usertrap() runs with interrupts off and
\* calls yield().  In the scheduler (myproc() = 0) it does not.
Timer(c, p) ==
  /\ on[c] = p /\ intr[c]
  /\ intr' = Set(intr, c, FALSE)
  /\ frame' = Set(frame, p, at[c])
  /\ Goto(c, "yield")
  /\ UNCHANGED <<proct, context, saved, next, on, idx, proc, noff, intena, slock>>

Yield(c, p) ==
  /\ InProc(c, p, "yield") /\ AcquireP(c, p)
  /\ state' = Set(state, p, "RUNNABLE")
  /\ Goto(c, "sched_yield")
  /\ UNCHANGED <<chan, stack, on, idx, proc, slock>>

Mut_YieldResumed(c, p) ==
  /\ InProc(c, p, "yield_resumed")
  /\ ReleaseP(c, p)
  /\ Goto(c, "trap_return")
  /\ UNCHANGED <<state, chan, stack, on, idx, proc, slock>>

\* The end of sched(), mycpu()->intena = intena, and release(&p->lock).
RestoreAndRelease(c, p) ==
  /\ plock' = Set(plock, p, NoCpu)
  /\ noff' = Set(noff, c, noff[c] - 1)
  /\ intena' = Set(intena, c, saved[p])
  /\ intr' = Set(intr, c, noff[c] = 1 /\ saved[p])
  /\ saved' = Set(saved, p, FALSE)

YieldResumed(c, p) ==
  /\ InProc(c, p, "yield_resumed")
  /\ RestoreAndRelease(c, p)
  /\ Goto(c, "trap_return")
  /\ UNCHANGED <<state, chan, context, frame, next, on, idx, proc, slock>>

\* sret: interrupts are on again, as they were when the timer fired.
TrapReturn(c, p) ==
  /\ InProc(c, p, "trap_return")
  /\ intr' = Set(intr, c, TRUE)
  /\ Goto(c, frame[p]) /\ frame' = Set(frame, p, "outside")
  /\ UNCHANGED <<proct, context, saved, next, on, idx, proc, noff, intena, slock>>

\* forkret(): release(&p->lock), then usertrapret() goes to user space.
Forkret(c, p) ==
  /\ InProc(c, p, "forkret")
  /\ plock' = Set(plock, p, NoCpu)
  /\ noff' = Set(noff, c, noff[c] - 1)
  /\ intr' = Set(intr, c, TRUE)
  /\ Goto(c, "outside")
  /\ UNCHANGED <<state, chan, stack, on, idx, proc, intena, slock>>

----------------------------------------------------------------------------
\* acquiresleep() and sleep()

CallAcquireSleep(c, p) ==
  /\ InProc(c, p, "outside") /\ intr[c]
  /\ Goto(c, "acquiresleep")
  /\ UNCHANGED <<proct, stack, on, idx, proc, irq, slock>>

\* acquire(&lk->lk) and the test of lk->locked, also after each sleep().
AcquireSleep(c, p) ==
  /\ InProc(c, p, "acquiresleep") /\ lk = NoCpu
  /\ lk' = c /\ PushOff(c)
  /\ IF locked
     THEN Goto(c, "sleep") /\ UNCHANGED <<locked, pid, holders>>
     ELSE /\ locked' = TRUE /\ pid' = p /\ holders' = holders \union {p}
          /\ Goto(c, "acquired")
  /\ UNCHANGED <<proct, stack, on, idx, proc>>

AcquireSleepReturns(c, p) ==
  /\ InProc(c, p, "acquired")
  /\ lk' = NoCpu /\ PopOff(c)
  /\ Goto(c, "inside")
  /\ UNCHANGED <<proct, stack, on, idx, proc, locked, pid, holders>>

\* sleep(lk, &lk->lk): acquire(&p->lock) ...
Sleep(c, p) ==
  /\ InProc(c, p, "sleep") /\ AcquireP(c, p)
  /\ Goto(c, "sleep_release")
  /\ UNCHANGED <<state, chan, stack, on, idx, proc, slock>>

\* ... release(&lk->lk) ...
SleepRelease(c, p) ==
  /\ InProc(c, p, "sleep_release")
  /\ lk' = NoCpu /\ PopOff(c)
  /\ Goto(c, "sleep_set")
  /\ UNCHANGED <<proct, stack, on, idx, proc, locked, pid, holders>>

\* ... p->chan = chan, p->state = SLEEPING.
SleepSet(c, p) ==
  /\ InProc(c, p, "sleep_set")
  /\ chan' = Set(chan, p, "lk")
  /\ state' = Set(state, p, "SLEEPING")
  /\ Goto(c, "sched_sleep")
  /\ UNCHANGED <<plock, stack, on, idx, proc, irq, slock>>

\* After sched(): p->chan = 0, release(&p->lock); then lk->lk is taken again.
SleepWoken(c, p) ==
  /\ InProc(c, p, "sleep_woken")
  /\ chan' = Set(chan, p, "none")
  /\ RestoreAndRelease(c, p)
  /\ Goto(c, "acquiresleep")
  /\ UNCHANGED <<state, context, frame, next, on, idx, proc, slock>>

----------------------------------------------------------------------------
\* releasesleep(), wakeup() and kill()

CallReleaseSleep(c, p) ==
  /\ InProc(c, p, "inside") /\ intr[c]
  /\ Goto(c, "releasesleep")
  /\ UNCHANGED <<proct, stack, on, idx, proc, irq, slock>>

ReleaseSleep(c, p) ==
  /\ InProc(c, p, "releasesleep") /\ lk = NoCpu
  /\ lk' = c /\ PushOff(c)
  /\ locked' = FALSE /\ pid' = NoProc /\ holders' = holders \ {p}
  /\ next' = Set(next, p, 1)
  /\ Goto(c, "wakeup")
  /\ UNCHANGED <<proct, context, frame, saved, on, idx, proc>>

Mut_Wakeup(c, p) ==
  /\ InProc(c, p, "wakeup")
  /\ state' = IF state[next[p]] = "SLEEPING" /\ chan[next[p]] = "lk"
              THEN Set(state, next[p], "RUNNABLE") ELSE state
  /\ IF next[p] = NPROC
     THEN Goto(c, "released") /\ next' = Set(next, p, 1)
     ELSE next' = Set(next, p, next[p] + 1) /\ UNCHANGED at
  /\ UNCHANGED <<chan, plock, context, frame, saved, on, idx, proc, irq, slock>>

Mut_WakeupSkipsLast(c, p) ==
  /\ InProc(c, p, "wakeup")
  /\ next[p] # proc[c] => plock[next[p]] = NoCpu
  /\ state' = IF next[p] # proc[c] /\ state[next[p]] = "SLEEPING" /\ chan[next[p]] = "lk"
              THEN Set(state, next[p], "RUNNABLE") ELSE state
  /\ IF next[p] = NPROC - 1
     THEN Goto(c, "released") /\ next' = Set(next, p, 1)
     ELSE next' = Set(next, p, next[p] + 1) /\ UNCHANGED at
  /\ UNCHANGED <<chan, plock, context, frame, saved, on, idx, proc, irq, slock>>

\* One iteration of wakeup(): the lock of any process but p itself.
Wakeup(c, p) ==
  /\ InProc(c, p, "wakeup")
  /\ next[p] # proc[c] => plock[next[p]] = NoCpu
  /\ state' = IF next[p] # proc[c] /\ state[next[p]] = "SLEEPING" /\ chan[next[p]] = "lk"
              THEN Set(state, next[p], "RUNNABLE") ELSE state
  /\ IF next[p] = NPROC
     THEN Goto(c, "released") /\ next' = Set(next, p, 1)
     ELSE next' = Set(next, p, next[p] + 1) /\ UNCHANGED at
  /\ UNCHANGED <<chan, plock, context, frame, saved, on, idx, proc, irq, slock>>

ReleaseSleepReturns(c, p) ==
  /\ InProc(c, p, "released")
  /\ lk' = NoCpu /\ PopOff(c)
  /\ Goto(c, "outside")
  /\ UNCHANGED <<proct, stack, on, idx, proc, locked, pid, holders>>

\* kill(q) wakes q whatever it sleeps for.
Kill(c, p, q) ==
  /\ InProc(c, p, "outside") /\ intr[c] /\ plock[q] = NoCpu
  /\ state[q] = "SLEEPING"
  /\ state' = Set(state, q, "RUNNABLE")
  /\ UNCHANGED <<chan, plock, stack, regs, irq, slock>>

----------------------------------------------------------------------------
\* After userinit() and some fork()s: every process waits for its first turn.
Init ==
  /\ state = [p \in Procs |-> "RUNNABLE"]
  /\ chan = [p \in Procs |-> "none"]
  /\ context = [p \in Procs |-> "forkret"]
  /\ frame = [p \in Procs |-> "outside"]
  /\ saved = [p \in Procs |-> FALSE]
  /\ next = [p \in Procs |-> 1]
  /\ plock = [p \in Procs |-> NoCpu]
  /\ on = [c \in CPUs |-> NoProc]
  /\ at = [c \in CPUs |-> "loop"]
  /\ idx = [c \in CPUs |-> 1]
  /\ proc = [c \in CPUs |-> NoProc]
  /\ noff = [c \in CPUs |-> 0]
  /\ intena = [c \in CPUs |-> FALSE]
  /\ intr = [c \in CPUs |-> FALSE]
  /\ lk = NoCpu /\ locked = FALSE /\ pid = NoProc
  /\ holders = {}

Scheduler(c) == SchedLoop(c) \/ SchedLook(c) \/ SwtchToProc(c) \/ SchedUnlock(c)

\* The switches of p's thread, and what it does of itself once it runs.
Switch(c, p) ==
  \/ Sched(c, p) \/ SwtchToScheduler(c, p) \/ Yield(c, p) \/ YieldResumed(c, p)
  \/ TrapReturn(c, p) \/ Forkret(c, p)

Call(c, p) ==
  \/ AcquireSleep(c, p) \/ AcquireSleepReturns(c, p)
  \/ Sleep(c, p) \/ SleepRelease(c, p) \/ SleepSet(c, p) \/ SleepWoken(c, p)
  \/ CallReleaseSleep(c, p) \/ ReleaseSleep(c, p) \/ Wakeup(c, p)
  \/ ReleaseSleepReturns(c, p)

Next ==
  \E c \in CPUs :
    \/ Scheduler(c)
    \/ \E p \in Procs : Switch(c, p) \/ Call(c, p) \/ Timer(c, p) \/ CallAcquireSleep(c, p)
    \/ \E p, q \in Procs : Kill(c, p, q)

Spec == Init /\ [][Next]_vars

\* CPUs do not stop, a CPU wins a spinlock that keeps being free, a time slice
\* is long enough for a process to get on, and the timer ends it: an interrupt
\* that is pending while SIE is off is taken when it is on again.
Fairness ==
  /\ \A c \in CPUs : SF_vars(Scheduler(c)) /\ SF_vars(\E p \in Procs : Timer(c, p))
  /\ \A p \in Procs : SF_vars(\E c \in CPUs : Switch(c, p)) /\ SF_vars(\E c \in CPUs : Call(c, p))

FairSpec == Spec /\ Fairness

----------------------------------------------------------------------------
Places ==
  {"loop", "look", "swtch", "unlock", "sched_sleep", "sched_yield", "yield",
   "yield_resumed", "trap_return", "forkret", "outside", "acquiresleep", "acquired", "inside",
   "sleep", "sleep_release", "sleep_set", "sleep_woken", "releasesleep", "wakeup", "released"}

\* Types of the variables.
TypeOK ==
  /\ state \in [Procs -> {"RUNNABLE", "RUNNING", "SLEEPING"}]
  /\ chan \in [Procs -> {"none", "lk"}]
  /\ context \in [Procs -> {"forkret", "yield_resumed", "sleep_woken"}]
  /\ frame \in [Procs -> {"outside", "inside", "acquiresleep", "releasesleep"}]
  /\ saved \in [Procs -> BOOLEAN]
  /\ next \in [Procs -> Procs]
  /\ plock \in [Procs -> CPUs \union {NoCpu}]
  /\ on \in [CPUs -> Procs \union {NoProc}]
  /\ at \in [CPUs -> Places]
  /\ idx \in [CPUs -> Procs]
  /\ proc \in [CPUs -> Procs \union {NoProc}]
  /\ noff \in [CPUs -> Nat]
  /\ intena \in [CPUs -> BOOLEAN]
  /\ intr \in [CPUs -> BOOLEAN]
  /\ lk \in CPUs \union {NoCpu}
  /\ locked \in BOOLEAN
  /\ pid \in Procs \union {NoProc}
  /\ holders \subseteq Procs

\* No two CPUs are ever on the same kernel stack, even while swtch() is leaving
\* it, and the CPU on p's stack has c->proc = p, so myproc() is right.
OneCpuPerStack ==
  /\ \A c, d \in CPUs : c # d /\ on[c] = on[d] => on[c] = NoProc
  /\ \A c \in CPUs : on[c] # NoProc => proc[c] = on[c]

\* sched() never panics: it is entered with p->lock and no other lock, the
\* state changed and interrupts off.
SchedNeverPanics ==
  \A c \in CPUs, p \in Procs :
    on[c] = p /\ at[c] \in {"sched_sleep", "sched_yield"} =>
      plock[p] = c /\ noff[c] = 1 /\ state[p] # "RUNNING" /\ ~intr[c]

\* sleep() and wakeup() lose no wakeup: nobody sleeps for a sleep-lock that is
\* free, unless its releaser is still inside releasesleep().
NoLostWakeup ==
  \A p \in Procs : state[p] = "SLEEPING" /\ chan[p] = "lk" => locked \/ lk # NoCpu

\* Interrupts belong to the thread, not the CPU: wherever it was moved in between,
\* a thread finds them on in its own code and off in the trap handler.
InterruptsFollowThread ==
  \A c \in CPUs :
    /\ at[c] \in {"outside", "inside", "acquiresleep", "releasesleep"} => intr[c]
    /\ at[c] = "trap_return" => ~intr[c]

\* A sleep-lock has one holder, and holdingsleep() knows it.
SleepLockExclusion ==
  \A p \in holders : locked /\ pid = p

\* A process that is ready to run gets a CPU.
RunnableRuns == \A p \in Procs : state[p] = "RUNNABLE" ~> state[p] = "RUNNING"

\* A process asleep for a sleep-lock is woken.
SleeperIsWoken == \A p \in Procs : state[p] = "SLEEPING" ~> state[p] # "SLEEPING"

(* Whatever CPU a thread is switched to: sched() is entered as it must be, *)
(* and the thread finds its own interrupt state.                           *)
SwitchSafe == TypeOK /\ SchedNeverPanics /\ InterruptsFollowThread

(* A sleep-lock has one holder, and nobody sleeps for one that is free.    *)
SleepLockSafe == SleepLockExclusion /\ NoLostWakeup
=============================================================================
