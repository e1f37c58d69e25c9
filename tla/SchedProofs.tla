---------------------------- MODULE SchedProofs ----------------------------
(***************************************************************************)
(* Proofs about Sched, for any set of CPUs and any number of processes: a  *)
(* kernel stack is never in use on two CPUs, sched() never panics, the     *)
(* interrupt state follows the thread, a sleep-lock has one holder, and    *)
(* sleep() and wakeup() lose no wakeup.                                    *)
(***************************************************************************)
EXTENDS Sched, TLAPS

\* Where a thread runs its own code with interrupts on ...
Open == {"outside", "inside", "acquiresleep", "releasesleep"}

\* ... holds lk->lk and no other lock ...
UnderLk == {"acquired", "sleep", "wakeup", "released"}

\* ... is inside a timer interrupt, or sched() has just returned to it.
InTrap == {"yield", "sched_yield", "yield_resumed", "trap_return"}
Resumed == {"yield_resumed", "sleep_woken", "forkret"}

\* CPU c on its scheduler's stack.
SchedulerOK(c) ==
  /\ at[c] \in {"loop", "look", "swtch", "unlock"}
  /\ at[c] \in {"loop", "look"} => noff[c] = 0
  /\ at[c] \in {"swtch", "unlock"} => plock[idx[c]] = c /\ noff[c] = 1 /\ ~intr[c]
  /\ at[c] = "swtch" => state[idx[c]] = "RUNNING" /\ proc[c] = idx[c]

\* The locks c holds on p's stack, and the interrupt state they leave it in.
LocksOK(c, p) ==
  /\ at[c] \in Open => noff[c] = 0 /\ intr[c]
  /\ at[c] \in {"yield", "trap_return"} => noff[c] = 0 /\ ~intr[c]
  /\ at[c] \in UnderLk => lk = c /\ noff[c] = 1 /\ ~intr[c] /\ intena[c]
  /\ at[c] = "sleep_release" => lk = c /\ plock[p] = c /\ noff[c] = 2 /\ ~intr[c] /\ intena[c]
  /\ at[c] \in {"sleep_set", "sched_sleep", "sched_yield", "swtch"} \union Resumed =>
       plock[p] = c /\ noff[c] = 1 /\ ~intr[c]
  /\ at[c] \in {"sleep_set", "sched_sleep"} => intena[c]
  /\ at[c] = "sched_yield" => ~intena[c]

\* CPU c on p's stack.
ThreadOK(c, p) ==
  /\ at[c] \notin {"loop", "look", "unlock"}
  /\ proc[c] = p /\ idx[c] = p
  /\ state[p] = "RUNNING" <=> at[c] \notin {"sched_sleep", "sched_yield", "swtch"}
  /\ at[c] = "sleep_woken" => saved[p]
  /\ at[c] = "yield_resumed" => ~saved[p]
  /\ at[c] \notin InTrap \union {"swtch"} => frame[p] = "outside"

CpuOK(c) ==
  /\ on[c] = NoProc => SchedulerOK(c)
  /\ on[c] # NoProc => LocksOK(c, on[c]) /\ ThreadOK(c, on[c])

CpuInv == \A c \in CPUs : CpuOK(c)

\* c has taken p: its thread runs there, or scheduler() is about to switch to it.
Claims(c, p) == on[c] = p \/ (on[c] = NoProc /\ at[c] = "swtch" /\ idx[c] = p)

ClaimInv == \A c, d \in CPUs, p \in Procs : Claims(c, p) /\ Claims(d, p) => c = d

\* What swtch() saved for a thread that is not running, or no longer.
SavedInv ==
  \A p \in Procs : (\A c \in CPUs : on[c] = p => at[c] = "swtch") =>
    /\ context[p] = "sleep_woken" => saved[p]
    /\ context[p] = "yield_resumed" => ~saved[p]
    /\ context[p] # "yield_resumed" => frame[p] = "outside"

\* The sleep-lock is held between acquiresleep() and releasesleep(), through
\* any timer interrupt in between.
HolderInv ==
  /\ \A p \in Procs : frame[p] \in {"inside", "releasesleep"} => p \in holders
  /\ \A c \in CPUs : at[c] \in {"acquired", "inside", "releasesleep"} => on[c] \in holders

\* A releaser that has yet to look at p.
WakerAhead(p) == \E c \in CPUs : on[c] # NoProc /\ at[c] = "wakeup" /\ next[on[c]] =< p

\* Whoever sleeps, or can no longer be kept from it, is owed a wakeup.
WakeupInv ==
  /\ \A p \in Procs : state[p] = "SLEEPING" /\ chan[p] = "lk" => locked \/ WakerAhead(p)
  /\ \A c \in CPUs : at[c] = "sleep_set" => locked \/ WakerAhead(on[c])
  /\ \A c \in CPUs : at[c] \in {"sleep", "sleep_release"} => locked

IInv ==
  TypeOK /\ CpuInv /\ ClaimInv /\ SavedInv /\ SleepLockExclusion /\ HolderInv /\ WakeupInv

\* Indices into proc[].
LEMMA Indices ==
  /\ 1 \in Procs /\ NoProc \notin Procs
  /\ \A p \in Procs : p \in Int /\ 1 =< p /\ p =< NPROC /\ (p # NPROC => p + 1 \in Procs)
  BY SchedConstants DEF Procs, NoProc

LEMMA TypeInit == Init => TypeOK
<1> SUFFICES ASSUME Init PROVE TypeOK
  OBVIOUS
<1>1. next \in [Procs -> Procs] /\ idx \in [CPUs -> Procs]
  BY Indices DEF Init
<1> QED
  BY <1>1 DEF Init, TypeOK, Places

\* The scheduler's steps keep the types.
LEMMA SchedulerType ==
  ASSUME TypeOK, CpuInv, NEW c \in CPUs, Scheduler(c)
  PROVE  TypeOK'
<1> USE SchedConstants, Indices DEF TypeOK, Places, InScheduler, Set, Goto,
        proct, stack, slock, irq
<1>1. CASE SchedLoop(c)
  BY <1>1 DEF SchedLoop
<1>2. CASE SchedLook(c)
  BY <1>2 DEF SchedLook, AcquireP, PushOff
<1>3. CASE SwtchToProc(c)
  BY <1>3 DEF SwtchToProc
<1>4. CASE SchedUnlock(c)
  <2>1. noff[c] = 1
    BY <1>4 DEF SchedUnlock, CpuInv, CpuOK, SchedulerOK
  <2> QED
    BY <1>4, <2>1 DEF SchedUnlock, ReleaseP, PopOff
<1> QED
  BY <1>1, <1>2, <1>3, <1>4 DEF Scheduler

\* What is known of a CPU on p's stack.
LEMMA CpuFact ==
  ASSUME CpuInv, NEW c \in CPUs, NEW p \in Procs, on[c] = p
  PROVE  LocksOK(c, p) /\ ThreadOK(c, p)
  BY Indices DEF CpuInv, CpuOK

\* So do the switches of a thread ...
LEMMA SwitchType ==
  ASSUME TypeOK, CpuInv, NEW c \in CPUs, NEW p \in Procs, Switch(c, p)
  PROVE  TypeOK'
<1> USE SchedConstants, Indices DEF TypeOK, Places, InProc, Set, Goto, proct, stack, slock, irq
<1>1. CASE Sched(c, p)
  <2>1. context' \in [Procs -> {"forkret", "yield_resumed", "sleep_woken"}]
    BY <1>1 DEF Sched
  <2> QED
    BY <1>1, <2>1 DEF Sched
<1>2. CASE SwtchToScheduler(c, p)
  BY <1>2 DEF SwtchToScheduler
<1>3. CASE Yield(c, p)
  BY <1>3 DEF Yield, AcquireP, PushOff
<1>4. CASE YieldResumed(c, p)
  <2>1. noff[c] - 1 \in Nat
    BY <1>4, CpuFact DEF YieldResumed, InProc, LocksOK, UnderLk, Resumed
  <2> QED
    BY <1>4, <2>1 DEF YieldResumed, RestoreAndRelease
<1>5. CASE TrapReturn(c, p)
  BY <1>5 DEF TrapReturn
<1>6. CASE Forkret(c, p)
  <2>1. noff[c] - 1 \in Nat
    BY <1>6, CpuFact DEF Forkret, InProc, LocksOK, UnderLk, Resumed
  <2> QED
    BY <1>6, <2>1 DEF Forkret
<1> QED
  BY <1>1, <1>2, <1>3, <1>4, <1>5, <1>6 DEF Switch

\* ... and its calls of sleep-locks ...
LEMMA CallType ==
  ASSUME TypeOK, CpuInv, NEW c \in CPUs, NEW p \in Procs, Call(c, p)
  PROVE  TypeOK'
<1> USE SchedConstants, Indices DEF TypeOK, Places, InProc, Set, Goto, proct, stack, slock, irq
<1>1. CASE AcquireSleep(c, p)
  <2>1. /\ holders' \subseteq Procs /\ locked' \in BOOLEAN
        /\ pid' \in Procs \union {NoProc} /\ at' \in [CPUs -> Places]
    <3>1. CASE locked
      BY <1>1, <3>1 DEF AcquireSleep
    <3>2. CASE ~locked
      BY <1>1, <3>2 DEF AcquireSleep
    <3> QED
      BY <3>1, <3>2
  <2>2. /\ noff' \in [CPUs -> Nat] /\ lk' \in CPUs \union {NoCpu}
        /\ intena' \in [CPUs -> BOOLEAN] /\ intr' \in [CPUs -> BOOLEAN]
    BY <1>1 DEF AcquireSleep, PushOff
  <2>3. UNCHANGED <<proct, stack, on, idx, proc>>
    BY <1>1 DEF AcquireSleep
  <2> QED
    BY <2>1, <2>2, <2>3
<1>2. CASE AcquireSleepReturns(c, p)
  <2>1. noff[c] - 1 \in Nat
    BY <1>2, CpuFact DEF AcquireSleepReturns, InProc, LocksOK, UnderLk, Resumed
  <2> QED
    BY <1>2, <2>1 DEF AcquireSleepReturns, PopOff
<1>3. CASE Sleep(c, p)
  BY <1>3 DEF Sleep, AcquireP, PushOff
<1>4. CASE SleepRelease(c, p)
  <2>1. noff[c] - 1 \in Nat
    BY <1>4, CpuFact DEF SleepRelease, InProc, LocksOK, UnderLk, Resumed
  <2> QED
    BY <1>4, <2>1 DEF SleepRelease, PopOff
<1>5. CASE SleepSet(c, p)
  BY <1>5 DEF SleepSet
<1>6. CASE SleepWoken(c, p)
  <2>1. noff[c] - 1 \in Nat
    BY <1>6, CpuFact DEF SleepWoken, InProc, LocksOK, UnderLk, Resumed
  <2> QED
    BY <1>6, <2>1 DEF SleepWoken, RestoreAndRelease
<1>7. CASE CallReleaseSleep(c, p)
  BY <1>7 DEF CallReleaseSleep
<1>8. CASE ReleaseSleep(c, p)
  <2>1. holders' \subseteq Procs /\ pid' \in Procs \union {NoProc} /\ locked' \in BOOLEAN
    BY <1>8 DEF ReleaseSleep
  <2>2. /\ noff' \in [CPUs -> Nat] /\ lk' \in CPUs \union {NoCpu}
        /\ intena' \in [CPUs -> BOOLEAN] /\ intr' \in [CPUs -> BOOLEAN]
    BY <1>8 DEF ReleaseSleep, PushOff
  <2>3. next' \in [Procs -> Procs] /\ at' \in [CPUs -> Places]
    BY <1>8 DEF ReleaseSleep
  <2>4. UNCHANGED <<proct, context, frame, saved, on, idx, proc>>
    BY <1>8 DEF ReleaseSleep
  <2> QED
    BY <2>1, <2>2, <2>3, <2>4
<1>9. CASE Wakeup(c, p)
  BY <1>9 DEF Wakeup
<1>10. CASE ReleaseSleepReturns(c, p)
  <2>1. noff[c] - 1 \in Nat
    BY <1>10, CpuFact DEF ReleaseSleepReturns, InProc, LocksOK, UnderLk, Resumed
  <2> QED
    BY <1>10, <2>1 DEF ReleaseSleepReturns, PopOff
<1> QED
  BY <1>1, <1>2, <1>3, <1>4, <1>5, <1>6, <1>7, <1>8, <1>9, <1>10 DEF Call

\* ... and every other step.
LEMMA TypeStep ==
  ASSUME TypeOK, CpuInv, [Next]_vars
  PROVE  TypeOK'
<1>1. CASE UNCHANGED vars
  BY <1>1 DEF vars, TypeOK
<1>2. ASSUME NEW c \in CPUs, Scheduler(c) PROVE TypeOK'
  BY <1>2, SchedulerType
<1>3. ASSUME NEW c \in CPUs, NEW p \in Procs,
             Switch(c, p) \/ Call(c, p) \/ Timer(c, p) \/ CallAcquireSleep(c, p)
      PROVE  TypeOK'
  <2>1. CASE Switch(c, p) \/ Call(c, p)
    BY <2>1, SwitchType, CallType
  <2>2. CASE Timer(c, p)
    <3>1. at[c] \in {"outside", "inside", "acquiresleep", "releasesleep"}
      BY <2>2, CpuFact DEF Timer, TypeOK, Places, LocksOK, ThreadOK, UnderLk, Resumed
    <3> QED
      BY <2>2, <3>1 DEF Timer, TypeOK, Places, Set, Goto, proct, slock
  <2>3. CASE CallAcquireSleep(c, p)
    BY <2>3 DEF CallAcquireSleep, TypeOK, Places, Set, Goto, proct, stack, irq, slock
  <2> QED
    BY <1>3, <2>1, <2>2, <2>3
<1>4. ASSUME NEW c \in CPUs, NEW p \in Procs, NEW q \in Procs, Kill(c, p, q) PROVE TypeOK'
  BY <1>4 DEF Kill, TypeOK, Set, stack, regs, irq, slock
<1> QED
  BY <1>1, <1>2, <1>3, <1>4 DEF Next

----------------------------------------------------------------------------
\* A step of CPU c leaves the others' registers, locks and threads alone.
RegistersKept(c) ==
  \A d \in CPUs \ {c} :
    /\ on'[d] = on[d] /\ at'[d] = at[d] /\ idx'[d] = idx[d] /\ proc'[d] = proc[d]
    /\ noff'[d] = noff[d] /\ intena'[d] = intena[d] /\ intr'[d] = intr[d]
    /\ lk = d => lk' = d

ThreadsKept(c) ==
  \A d \in CPUs \ {c}, p \in Procs :
    /\ plock[p] = d => plock'[p] = d
    /\ Claims(d, p) => state'[p] = state[p] /\ saved'[p] = saved[p] /\ frame'[p] = frame[p]

Untouched(c) == RegistersKept(c) /\ ThreadsKept(c)

LEMMA OthersKeep ==
  ASSUME TypeOK, CpuInv, NEW c \in CPUs, Untouched(c), NEW d \in CPUs \ {c}
  PROVE  CpuOK(d)'
<1>1. CpuOK(d) /\ idx[d] \in Procs /\ on[d] \in Procs \union {NoProc}
  BY DEF CpuInv, TypeOK
<1>2. /\ on'[d] = on[d] /\ at'[d] = at[d] /\ idx'[d] = idx[d] /\ proc'[d] = proc[d]
      /\ noff'[d] = noff[d] /\ intena'[d] = intena[d] /\ intr'[d] = intr[d]
      /\ lk = d => lk' = d
  BY DEF Untouched, RegistersKept
<1>3. \A p \in Procs :
        /\ plock[p] = d => plock'[p] = d
        /\ Claims(d, p) => state'[p] = state[p] /\ saved'[p] = saved[p] /\ frame'[p] = frame[p]
  BY DEF Untouched, ThreadsKept
<1>4. CASE on[d] = NoProc
  <2>1. SchedulerOK(d)
    BY <1>1, <1>4 DEF CpuOK
  <2>2. plock[idx[d]] = d => plock'[idx[d]] = d
    BY <1>1, <1>3
  <2>3. at[d] = "swtch" => state'[idx[d]] = state[idx[d]]
    BY <1>1, <1>3, <1>4 DEF Claims
  <2>4. SchedulerOK(d)'
    BY <1>2, <2>1, <2>2, <2>3 DEF SchedulerOK
  <2> QED
    BY <1>2, <1>4, <2>4 DEF CpuOK
<1>5. CASE on[d] # NoProc
  <2> DEFINE p == on[d]
  <2>1. p \in Procs /\ LocksOK(d, p) /\ ThreadOK(d, p)
    BY <1>1, <1>5 DEF CpuOK
  <2>2. /\ plock[p] = d => plock'[p] = d
        /\ state'[p] = state[p] /\ saved'[p] = saved[p] /\ frame'[p] = frame[p]
    BY <1>3, <2>1 DEF Claims
  <2> HIDE DEF p
  <2>3. /\ at'[d] \in Open => noff'[d] = 0 /\ intr'[d]
        /\ at'[d] \in {"yield", "trap_return"} => noff'[d] = 0 /\ ~intr'[d]
        /\ at'[d] \in UnderLk => lk' = d /\ noff'[d] = 1 /\ ~intr'[d] /\ intena'[d]
        /\ at'[d] = "sleep_release" =>
             lk' = d /\ plock'[p] = d /\ noff'[d] = 2 /\ ~intr'[d] /\ intena'[d]
    BY <1>2, <2>1, <2>2 DEF LocksOK
  <2>4. /\ at'[d] \in {"sleep_set", "sched_sleep", "sched_yield", "swtch"} \union Resumed =>
             plock'[p] = d /\ noff'[d] = 1 /\ ~intr'[d]
        /\ at'[d] \in {"sleep_set", "sched_sleep"} => intena'[d]
        /\ at'[d] = "sched_yield" => ~intena'[d]
    BY <1>2, <2>1, <2>2 DEF LocksOK
  <2>5. /\ at'[d] \notin {"loop", "look", "unlock"} /\ proc'[d] = p /\ idx'[d] = p
        /\ state'[p] = "RUNNING" <=> at'[d] \notin {"sched_sleep", "sched_yield", "swtch"}
        /\ at'[d] = "sleep_woken" => saved'[p]
        /\ at'[d] = "yield_resumed" => ~saved'[p]
        /\ at'[d] \notin InTrap \union {"swtch"} => frame'[p] = "outside"
    BY <1>2, <2>1, <2>2 DEF ThreadOK
  <2>6. on'[d] = p /\ p # NoProc
    BY <1>2, <1>5 DEF p
  <2> QED
    BY <2>3, <2>4, <2>5, <2>6 DEF CpuOK, LocksOK, ThreadOK
<1> QED
  BY <1>4, <1>5

\* Off the scheduler's own steps, a CPU is on some process's stack.
LEMMA OnStack ==
  ASSUME TypeOK, CpuInv, NEW d \in CPUs, at[d] \notin {"loop", "look", "swtch", "unlock"}
  PROVE  on[d] \in Procs /\ LocksOK(d, on[d]) /\ ThreadOK(d, on[d])
<1>1. on[d] \in Procs \union {NoProc} /\ CpuOK(d)
  BY DEF TypeOK, CpuInv
<1>2. on[d] # NoProc
  BY <1>1 DEF CpuOK, SchedulerOK
<1> QED
  BY <1>1, <1>2 DEF CpuOK

\* A CPU on p's stack shares p with no other CPU.
LEMMA Alone ==
  ASSUME ClaimInv, NEW c \in CPUs, NEW p \in Procs, on[c] = p, NEW d \in CPUs \ {c}
  PROVE  ~Claims(d, p)
  BY DEF ClaimInv, Claims

\* A process that some CPU has taken is RUNNING unless that CPU holds its lock.
LEMMA ClaimedRuns ==
  ASSUME CpuInv, NEW d \in CPUs, NEW p \in Procs, Claims(d, p), plock[p] # d
  PROVE  state[p] = "RUNNING"
<1>1. CASE on[d] = p
  <2>1. LocksOK(d, p) /\ ThreadOK(d, p)
    BY <1>1, CpuFact
  <2>2. at[d] \notin {"sched_sleep", "sched_yield", "swtch"}
    BY <2>1 DEF LocksOK
  <2> QED
    BY <2>1, <2>2 DEF ThreadOK
<1>2. CASE on[d] = NoProc /\ at[d] = "swtch" /\ idx[d] = p
  BY <1>2 DEF CpuInv, CpuOK, SchedulerOK
<1> QED
  BY <1>1, <1>2 DEF Claims

\* The shapes of the functions that a CPU indexes, and that a process indexes.
CpuTypes ==
  /\ on \in [CPUs -> Procs \union {NoProc}] /\ at \in [CPUs -> Places]
  /\ idx \in [CPUs -> Procs] /\ proc \in [CPUs -> Procs \union {NoProc}]
  /\ noff \in [CPUs -> Nat] /\ intena \in [CPUs -> BOOLEAN] /\ intr \in [CPUs -> BOOLEAN]

ProcTypes ==
  /\ state \in [Procs -> {"RUNNABLE", "RUNNING", "SLEEPING"}]
  /\ frame \in [Procs -> Open] /\ saved \in [Procs -> BOOLEAN]
  /\ plock \in [Procs -> CPUs \union {NoCpu}]

LEMMA Types == TypeOK => CpuTypes /\ ProcTypes
  BY DEF TypeOK, CpuTypes, ProcTypes, Open

LEMMA SchedulerUntouched ==
  ASSUME TypeOK, CpuInv, NEW c \in CPUs, Scheduler(c)
  PROVE  Untouched(c)
<1> USE SchedConstants DEF InScheduler, Set, Goto, proct, stack, slock, irq
<1>t. CpuTypes /\ ProcTypes
  BY Types
<1>i. idx[c] \in Procs
  BY <1>t DEF CpuTypes
<1>1. CASE SchedLoop(c)
  BY <1>t, <1>1 DEF SchedLoop, CpuTypes, Untouched, RegistersKept, ThreadsKept
<1>2. CASE SchedLook(c)
  <2>1. plock[idx[c]] = NoCpu
    BY <1>2 DEF SchedLook, AcquireP
  <2>2. state[idx[c]] = "RUNNABLE" => \A d \in CPUs : ~Claims(d, idx[c])
    BY <1>i, <2>1, ClaimedRuns
  <2>3. RegistersKept(c)
    BY <1>t, <1>2 DEF SchedLook, AcquireP, PushOff, CpuTypes, RegistersKept
  <2>4. ThreadsKept(c)
    BY <1>t, <1>i, <1>2, <2>1, <2>2 DEF SchedLook, AcquireP, ProcTypes, ThreadsKept
  <2> QED
    BY <2>3, <2>4 DEF Untouched
<1>3. CASE SwtchToProc(c)
  BY <1>t, <1>3 DEF SwtchToProc, CpuTypes, Untouched, RegistersKept, ThreadsKept
<1>4. CASE SchedUnlock(c)
  <2>1. plock[idx[c]] = c
    BY <1>4 DEF SchedUnlock, CpuInv, CpuOK, SchedulerOK
  <2>2. RegistersKept(c)
    BY <1>t, <1>4 DEF SchedUnlock, ReleaseP, PopOff, CpuTypes, RegistersKept
  <2>3. ThreadsKept(c)
    BY <1>t, <1>i, <1>4, <2>1 DEF SchedUnlock, ReleaseP, ProcTypes, ThreadsKept
  <2> QED
    BY <2>2, <2>3 DEF Untouched
<1> QED
  BY <1>1, <1>2, <1>3, <1>4 DEF Scheduler

\* A switch of p leaves the other CPUs alone ...
LEMMA SwitchUntouched ==
  ASSUME TypeOK, CpuInv, ClaimInv, NEW c \in CPUs, NEW p \in Procs, Switch(c, p)
  PROVE  Untouched(c)
<1> USE SchedConstants DEF InProc, Set, Goto, proct, stack, slock, irq
<1>t. CpuTypes /\ ProcTypes
  BY Types
<1>a. on[c] = p => LocksOK(c, p) /\ ThreadOK(c, p) /\ \A d \in CPUs \ {c} : ~Claims(d, p)
  BY CpuFact, Alone
<1>1. CASE Sched(c, p)
  <2>1. RegistersKept(c)
    BY <1>t, <1>1 DEF Sched, CpuTypes, RegistersKept
  <2>2. ThreadsKept(c)
    BY <1>t, <1>a, <1>1 DEF Sched, ProcTypes, ThreadsKept
  <2> QED
    BY <2>1, <2>2 DEF Untouched
<1>2. CASE SwtchToScheduler(c, p)
  <2>1. RegistersKept(c)
    BY <1>t, <1>2 DEF SwtchToScheduler, CpuTypes, RegistersKept
  <2>2. ThreadsKept(c)
    BY <1>t, <1>a, <1>2 DEF SwtchToScheduler, ProcTypes, ThreadsKept
  <2> QED
    BY <2>1, <2>2 DEF Untouched
<1>3. CASE Yield(c, p)
  <2>1. RegistersKept(c)
    BY <1>t, <1>3 DEF Yield, AcquireP, PushOff, CpuTypes, RegistersKept
  <2>2. ThreadsKept(c)
    BY <1>t, <1>a, <1>3 DEF Yield, AcquireP, ProcTypes, ThreadsKept
  <2> QED
    BY <2>1, <2>2 DEF Untouched
<1>4. CASE YieldResumed(c, p)
  <2>1. plock[p] = c
    BY <1>a, <1>4 DEF YieldResumed, LocksOK, Resumed
  <2>2. RegistersKept(c)
    BY <1>t, <1>4 DEF YieldResumed, RestoreAndRelease, CpuTypes, RegistersKept
  <2>3. ThreadsKept(c)
    BY <1>t, <1>a, <1>4, <2>1 DEF YieldResumed, RestoreAndRelease, ProcTypes, ThreadsKept
  <2> QED
    BY <2>2, <2>3 DEF Untouched
<1>5. CASE TrapReturn(c, p)
  <2>1. RegistersKept(c)
    BY <1>t, <1>5 DEF TrapReturn, CpuTypes, RegistersKept
  <2>2. ThreadsKept(c)
    BY <1>t, <1>a, <1>5 DEF TrapReturn, ProcTypes, ThreadsKept
  <2> QED
    BY <2>1, <2>2 DEF Untouched
<1>6. CASE Forkret(c, p)
  <2>1. plock[p] = c
    BY <1>a, <1>6 DEF Forkret, LocksOK, Resumed
  <2>2. RegistersKept(c)
    BY <1>t, <1>6 DEF Forkret, CpuTypes, RegistersKept
  <2>3. ThreadsKept(c)
    BY <1>t, <1>a, <1>6, <2>1 DEF Forkret, ProcTypes, ThreadsKept
  <2> QED
    BY <2>2, <2>3 DEF Untouched
<1> QED
  BY <1>1, <1>2, <1>3, <1>4, <1>5, <1>6 DEF Switch

\* ... and so do its calls.
LEMMA CallUntouched ==
  ASSUME TypeOK, CpuInv, ClaimInv, NEW c \in CPUs, NEW p \in Procs, Call(c, p)
  PROVE  Untouched(c)
<1> USE SchedConstants DEF InProc, Set, Goto, proct, stack, slock, irq
<1>t. CpuTypes /\ ProcTypes
  BY Types
<1>a. on[c] = p => LocksOK(c, p) /\ ThreadOK(c, p) /\ \A d \in CPUs \ {c} : ~Claims(d, p)
  BY CpuFact, Alone
<1>1. CASE AcquireSleep(c, p)
  <2>1. RegistersKept(c)
    BY <1>t, <1>1 DEF AcquireSleep, PushOff, CpuTypes, RegistersKept
  <2>2. ThreadsKept(c)
    BY <1>t, <1>a, <1>1 DEF AcquireSleep, ProcTypes, ThreadsKept
  <2> QED
    BY <2>1, <2>2 DEF Untouched
<1>2. CASE AcquireSleepReturns(c, p)
  <2>1. lk = c
    BY <1>a, <1>2 DEF AcquireSleepReturns, LocksOK, UnderLk
  <2>2. RegistersKept(c)
    BY <1>t, <1>2, <2>1 DEF AcquireSleepReturns, PopOff, CpuTypes, RegistersKept
  <2>3. ThreadsKept(c)
    BY <1>t, <1>a, <1>2 DEF AcquireSleepReturns, ProcTypes, ThreadsKept
  <2> QED
    BY <2>2, <2>3 DEF Untouched
<1>3. CASE Sleep(c, p)
  <2>1. RegistersKept(c)
    BY <1>t, <1>3 DEF Sleep, AcquireP, PushOff, CpuTypes, RegistersKept
  <2>2. ThreadsKept(c)
    BY <1>t, <1>a, <1>3 DEF Sleep, AcquireP, ProcTypes, ThreadsKept
  <2> QED
    BY <2>1, <2>2 DEF Untouched
<1>4. CASE SleepRelease(c, p)
  <2>1. lk = c
    BY <1>a, <1>4 DEF SleepRelease, LocksOK, UnderLk
  <2>2. RegistersKept(c)
    BY <1>t, <1>4, <2>1 DEF SleepRelease, PopOff, CpuTypes, RegistersKept
  <2>3. ThreadsKept(c)
    BY <1>t, <1>a, <1>4 DEF SleepRelease, ProcTypes, ThreadsKept
  <2> QED
    BY <2>2, <2>3 DEF Untouched
<1>5. CASE SleepSet(c, p)
  <2>1. RegistersKept(c)
    BY <1>t, <1>5 DEF SleepSet, CpuTypes, RegistersKept
  <2>2. ThreadsKept(c)
    BY <1>t, <1>a, <1>5 DEF SleepSet, ProcTypes, ThreadsKept
  <2> QED
    BY <2>1, <2>2 DEF Untouched
<1>6. CASE SleepWoken(c, p)
  <2>1. plock[p] = c
    BY <1>a, <1>6 DEF SleepWoken, LocksOK, Resumed
  <2>2. RegistersKept(c)
    BY <1>t, <1>6 DEF SleepWoken, RestoreAndRelease, CpuTypes, RegistersKept
  <2>3. ThreadsKept(c)
    BY <1>t, <1>a, <1>6, <2>1 DEF SleepWoken, RestoreAndRelease, ProcTypes, ThreadsKept
  <2> QED
    BY <2>2, <2>3 DEF Untouched
<1>7. CASE CallReleaseSleep(c, p)
  <2>1. RegistersKept(c)
    BY <1>t, <1>7 DEF CallReleaseSleep, CpuTypes, RegistersKept
  <2>2. ThreadsKept(c)
    BY <1>t, <1>a, <1>7 DEF CallReleaseSleep, ProcTypes, ThreadsKept
  <2> QED
    BY <2>1, <2>2 DEF Untouched
<1>8. CASE ReleaseSleep(c, p)
  <2>1. RegistersKept(c)
    BY <1>t, <1>8 DEF ReleaseSleep, PushOff, CpuTypes, RegistersKept
  <2>2. ThreadsKept(c)
    BY <1>t, <1>a, <1>8 DEF ReleaseSleep, ProcTypes, ThreadsKept
  <2> QED
    BY <2>1, <2>2 DEF Untouched
<1>9. CASE Wakeup(c, p)
  <2>1. next[p] \in Procs /\ proc[c] = p
    BY <1>a, <1>9 DEF Wakeup, ThreadOK, TypeOK
  <2>2. state[next[p]] = "SLEEPING" /\ next[p] # p => \A d \in CPUs : ~Claims(d, next[p])
    BY <1>9, <2>1, ClaimedRuns DEF Wakeup
  <2>3. RegistersKept(c)
    BY <1>t, <1>9 DEF Wakeup, CpuTypes, RegistersKept
  <2>4. ThreadsKept(c)
    BY <1>t, <1>a, <1>9, <2>1, <2>2 DEF Wakeup, ProcTypes, ThreadsKept
  <2> QED
    BY <2>3, <2>4 DEF Untouched
<1>10. CASE ReleaseSleepReturns(c, p)
  <2>1. lk = c
    BY <1>a, <1>10 DEF ReleaseSleepReturns, LocksOK, UnderLk
  <2>2. RegistersKept(c)
    BY <1>t, <1>10, <2>1 DEF ReleaseSleepReturns, PopOff, CpuTypes, RegistersKept
  <2>3. ThreadsKept(c)
    BY <1>t, <1>a, <1>10 DEF ReleaseSleepReturns, ProcTypes, ThreadsKept
  <2> QED
    BY <2>2, <2>3 DEF Untouched
<1> QED
  BY <1>1, <1>2, <1>3, <1>4, <1>5, <1>6, <1>7, <1>8, <1>9, <1>10 DEF Call

----------------------------------------------------------------------------
\* The CPU that steps keeps its own side of CpuInv: scheduler() ...
LEMMA SchedulerCpu ==
  ASSUME TypeOK, CpuInv, ClaimInv, SavedInv, NEW c \in CPUs, Scheduler(c)
  PROVE  CpuOK(c)'
<1> USE SchedConstants, Indices DEF InScheduler, Set, Goto, proct, stack, slock, irq
<1>t. CpuTypes /\ ProcTypes
  BY Types
<1>1. CASE SchedLoop(c)
  <2>1. noff[c] = 0
    BY <1>1 DEF SchedLoop, CpuInv, CpuOK, SchedulerOK
  <2>2. on'[c] = NoProc /\ at'[c] = "look" /\ noff'[c] = 0
    BY <1>t, <1>1, <2>1 DEF SchedLoop, CpuTypes
  <2> QED
    BY <2>2 DEF CpuOK, SchedulerOK
<1>2. CASE SchedLook(c)
  <2>1. on[c] = NoProc /\ noff[c] = 0 /\ idx[c] \in Procs
    <3>1. on[c] = NoProc /\ at[c] = "look" /\ idx[c] \in Procs /\ CpuOK(c)
      BY <1>t, <1>2 DEF SchedLook, CpuInv, CpuTypes
    <3> QED
      BY <3>1 DEF CpuOK, SchedulerOK
  <2>2. on'[c] = NoProc /\ idx'[c] = idx[c]
    BY <1>2, <2>1 DEF SchedLook
  <2>3. noff'[c] = 1 /\ ~intr'[c] /\ plock'[idx[c]] = c
    BY <1>t, <1>2, <2>1 DEF SchedLook, AcquireP, PushOff, CpuTypes, ProcTypes
  <2>4. \/ at'[c] = "unlock"
        \/ at'[c] = "swtch" /\ state'[idx[c]] = "RUNNING" /\ proc'[c] = idx[c]
    BY <1>t, <1>2, <2>1 DEF SchedLook, CpuTypes, ProcTypes
  <2> QED
    BY <2>2, <2>3, <2>4 DEF CpuOK, SchedulerOK
<1>3. CASE SwtchToProc(c)
  <2> DEFINE p == idx[c]
  <2>1. /\ p \in Procs /\ idx'[c] = p /\ on'[c] = p
        /\ at'[c] = context[p] /\ context[p] \in Resumed
    BY <1>3 DEF SwtchToProc, TypeOK, Resumed
  <2>2. SchedulerOK(c)
    BY <1>3 DEF SwtchToProc, CpuInv, CpuOK
  <2>3. \A d \in CPUs : on[d] # p
    BY <1>3, <2>1 DEF SwtchToProc, ClaimInv, Claims
  <2>4. /\ context[p] = "sleep_woken" => saved[p]
        /\ context[p] = "yield_resumed" => ~saved[p]
        /\ context[p] # "yield_resumed" => frame[p] = "outside"
    BY <2>1, <2>3 DEF SavedInv
  <2>5. LocksOK(c, p)'
    BY <1>3, <2>1, <2>2 DEF SwtchToProc, SchedulerOK, LocksOK, Open, UnderLk, Resumed
  <2>6. ThreadOK(c, p)'
    BY <1>3, <2>1, <2>2, <2>4 DEF SwtchToProc, SchedulerOK, ThreadOK, InTrap, Resumed
  <2> QED
    BY <2>1, <2>5, <2>6 DEF CpuOK
<1>4. CASE SchedUnlock(c)
  <2>1. on[c] = NoProc /\ noff[c] = 1 /\ at[c] = "unlock"
    BY <1>4 DEF SchedUnlock, CpuInv, CpuOK, SchedulerOK
  <2>2. on'[c] = NoProc /\ at'[c] \in {"loop", "look"} /\ noff'[c] = 0
    BY <1>4, <2>1, Types DEF SchedUnlock, ReleaseP, PopOff, CpuTypes
  <2> QED
    BY <2>2 DEF CpuOK, SchedulerOK
<1> QED
  BY <1>1, <1>2, <1>3, <1>4 DEF Scheduler

\* The cases of CpuOK for a CPU on p's stack.
LEMMA OwnCpu ==
  ASSUME NEW c \in CPUs, NEW p \in Procs, on'[c] = p, proc'[c] = p, idx'[c] = p,
         \/ /\ at'[c] \in Open /\ noff'[c] = 0 /\ intr'[c]
            /\ state'[p] = "RUNNING" /\ frame'[p] = "outside"
         \/ at'[c] \in {"yield", "trap_return"} /\ noff'[c] = 0 /\ ~intr'[c] /\ state'[p] = "RUNNING"
         \/ /\ at'[c] \in UnderLk /\ lk' = c /\ noff'[c] = 1 /\ ~intr'[c] /\ intena'[c]
            /\ state'[p] = "RUNNING" /\ frame'[p] = "outside"
         \/ /\ at'[c] = "sleep_release" /\ lk' = c /\ plock'[p] = c
            /\ noff'[c] = 2 /\ ~intr'[c] /\ intena'[c]
            /\ state'[p] = "RUNNING" /\ frame'[p] = "outside"
         \/ /\ at'[c] = "sleep_set" /\ plock'[p] = c /\ noff'[c] = 1 /\ ~intr'[c] /\ intena'[c]
            /\ state'[p] = "RUNNING" /\ frame'[p] = "outside"
         \/ /\ at'[c] = "sched_sleep" /\ plock'[p] = c /\ noff'[c] = 1 /\ ~intr'[c] /\ intena'[c]
            /\ state'[p] # "RUNNING" /\ frame'[p] = "outside"
         \/ /\ at'[c] = "sched_yield" /\ plock'[p] = c /\ noff'[c] = 1 /\ ~intr'[c] /\ ~intena'[c]
            /\ state'[p] # "RUNNING"
         \/ /\ at'[c] = "swtch" /\ plock'[p] = c /\ noff'[c] = 1 /\ ~intr'[c]
            /\ state'[p] # "RUNNING"
  PROVE  CpuOK(c)'
<1>1. p # NoProc
  BY Indices
<1>2. LocksOK(c, p)'
  BY DEF LocksOK, Open, UnderLk, Resumed
<1>3. ThreadOK(c, p)'
  BY DEF ThreadOK, Open, UnderLk, InTrap
<1> QED
  BY <1>1, <1>2, <1>3 DEF CpuOK

\* ... a thread that is switched ...
LEMMA SwitchCpu ==
  ASSUME TypeOK, CpuInv, NEW c \in CPUs, NEW p \in Procs, Switch(c, p)
  PROVE  CpuOK(c)'
<1> USE SchedConstants DEF InProc, Set, Goto, proct, stack, slock, irq
<1>t. CpuTypes /\ ProcTypes
  BY Types
<1>a. on[c] = p => LocksOK(c, p) /\ ThreadOK(c, p)
  BY CpuFact
<1>1. CASE Sched(c, p)
  <2>1. at'[c] = "swtch" /\ noff'[c] = 1 /\ ~intr'[c] /\ plock'[p] = c
    BY <1>t, <1>a, <1>1 DEF Sched, CpuTypes, ProcTypes, LocksOK
  <2>2. on'[c] = p /\ proc'[c] = p /\ idx'[c] = p /\ state'[p] # "RUNNING"
    BY <1>t, <1>a, <1>1 DEF Sched, ProcTypes, ThreadOK
  <2> QED
    BY <2>1, <2>2, OwnCpu DEF Open, UnderLk
<1>2. CASE SwtchToScheduler(c, p)
  BY <1>t, <1>a, <1>2 DEF SwtchToScheduler, CpuTypes, CpuOK, LocksOK, ThreadOK, SchedulerOK
<1>3. CASE Yield(c, p)
  <2>1. at'[c] = "sched_yield" /\ noff'[c] = 1 /\ ~intr'[c] /\ ~intena'[c] /\ plock'[p] = c
    BY <1>t, <1>a, <1>3, SMTT(60) DEF Yield, AcquireP, PushOff, CpuTypes, ProcTypes, LocksOK
  <2>2. on'[c] = p /\ proc'[c] = p /\ idx'[c] = p /\ state'[p] = "RUNNABLE"
    BY <1>t, <1>a, <1>3 DEF Yield, ProcTypes, ThreadOK
  <2> QED
    BY <2>1, <2>2, OwnCpu DEF Open, UnderLk
<1>4. CASE YieldResumed(c, p)
  <2>0. noff[c] = 1 /\ ~saved[p]
    BY <1>a, <1>4 DEF YieldResumed, LocksOK, ThreadOK, Resumed
  <2>1. at'[c] = "trap_return" /\ noff'[c] = 0 /\ ~intr'[c]
    <3>1. (noff[c] = 1 /\ saved[p]) = FALSE
      BY <2>0
    <3>2. intr' = [intr EXCEPT ![c] = FALSE] /\ c \in DOMAIN intr
      BY <1>t, <1>4, <3>1 DEF YieldResumed, RestoreAndRelease, CpuTypes
    <3>3. at'[c] = "trap_return" /\ noff'[c] = 0
      BY <1>t, <1>4, <2>0 DEF YieldResumed, RestoreAndRelease, CpuTypes
    <3> QED
      BY <3>2, <3>3
  <2>2. on'[c] = p /\ proc'[c] = p /\ idx'[c] = p /\ state'[p] = "RUNNING"
    BY <1>t, <1>a, <1>4 DEF YieldResumed, ProcTypes, ThreadOK
  <2> QED
    BY <2>1, <2>2, OwnCpu DEF Open, UnderLk
<1>5. CASE TrapReturn(c, p)
  <2>1. at'[c] \in Open /\ noff'[c] = 0 /\ intr'[c]
    BY <1>t, <1>a, <1>5 DEF TrapReturn, CpuTypes, ProcTypes, LocksOK, Open
  <2>2. on'[c] = p /\ proc'[c] = p /\ idx'[c] = p /\ state'[p] = "RUNNING" /\ frame'[p] = "outside"
    BY <1>t, <1>a, <1>5 DEF TrapReturn, ProcTypes, ThreadOK, InTrap
  <2> QED
    BY <2>1, <2>2, OwnCpu DEF Open, UnderLk
<1>6. CASE Forkret(c, p)
  <2>1. at'[c] = "outside" /\ noff'[c] = 0 /\ intr'[c]
    BY <1>t, <1>a, <1>6, SMTT(60) DEF Forkret, CpuTypes, ProcTypes, LocksOK, Resumed
  <2>2. on'[c] = p /\ proc'[c] = p /\ idx'[c] = p /\ state'[p] = "RUNNING" /\ frame'[p] = "outside"
    BY <1>t, <1>a, <1>6 DEF Forkret, ProcTypes, ThreadOK, InTrap
  <2> QED
    BY <2>1, <2>2, OwnCpu DEF Open, UnderLk
<1> QED
  BY <1>1, <1>2, <1>3, <1>4, <1>5, <1>6 DEF Switch

\* ... and one that uses the sleep-lock.
LEMMA CallCpu ==
  ASSUME TypeOK, CpuInv, NEW c \in CPUs, NEW p \in Procs, Call(c, p)
  PROVE  CpuOK(c)'
<1> USE SchedConstants DEF InProc, Set, Goto, proct, stack, slock, irq
<1>t. CpuTypes /\ ProcTypes
  BY Types
<1>a. on[c] = p => LocksOK(c, p) /\ ThreadOK(c, p)
  BY CpuFact
<1>1. CASE AcquireSleep(c, p)
  <2>0. noff[c] = 0 /\ intr[c]
    BY <1>a, <1>1 DEF AcquireSleep, LocksOK, Open
  <2>1. at'[c] \in {"sleep", "acquired"} /\ lk' = c /\ noff'[c] = 1 /\ ~intr'[c] /\ intena'[c]
    BY <1>t, <1>1, <2>0 DEF AcquireSleep, PushOff, CpuTypes
  <2>2. on'[c] = p /\ proc'[c] = p /\ idx'[c] = p /\ state'[p] = "RUNNING" /\ frame'[p] = "outside"
    BY <1>t, <1>a, <1>1 DEF AcquireSleep, ProcTypes, ThreadOK, InTrap
  <2> QED
    BY <2>1, <2>2, OwnCpu DEF Open, UnderLk
<1>2. CASE AcquireSleepReturns(c, p)
  <2>0. lk = c /\ noff[c] = 1 /\ intena[c]
    BY <1>a, <1>2 DEF AcquireSleepReturns, LocksOK, UnderLk
  <2>1. at'[c] = "inside" /\ noff'[c] = 0 /\ intr'[c]
    BY <1>t, <1>2, <2>0 DEF AcquireSleepReturns, PopOff, CpuTypes
  <2>2. on'[c] = p /\ proc'[c] = p /\ idx'[c] = p /\ state'[p] = "RUNNING" /\ frame'[p] = "outside"
    BY <1>t, <1>a, <1>2 DEF AcquireSleepReturns, ProcTypes, ThreadOK, InTrap
  <2> QED
    BY <2>1, <2>2, OwnCpu DEF Open, UnderLk
<1>3. CASE Sleep(c, p)
  <2>0. lk = c /\ noff[c] = 1 /\ intena[c]
    BY <1>a, <1>3 DEF Sleep, LocksOK, UnderLk
  <2>1. at'[c] = "sleep_release" /\ lk' = c /\ plock'[p] = c /\ noff'[c] = 2 /\ ~intr'[c] /\ intena'[c]
    BY <1>t, <1>3, <2>0 DEF Sleep, AcquireP, PushOff, CpuTypes, ProcTypes
  <2>2. on'[c] = p /\ proc'[c] = p /\ idx'[c] = p /\ state'[p] = "RUNNING" /\ frame'[p] = "outside"
    BY <1>t, <1>a, <1>3 DEF Sleep, ProcTypes, ThreadOK, InTrap
  <2> QED
    BY <2>1, <2>2, OwnCpu DEF Open, UnderLk
<1>4. CASE SleepRelease(c, p)
  <2>0. lk = c /\ plock[p] = c /\ noff[c] = 2 /\ intena[c]
    BY <1>a, <1>4 DEF SleepRelease, LocksOK
  <2>1. at'[c] = "sleep_set" /\ plock'[p] = c /\ noff'[c] = 1 /\ ~intr'[c] /\ intena'[c]
    <3>1. (noff[c] = 1 /\ intena[c]) = FALSE
      BY <2>0
    <3>2. intr' = [intr EXCEPT ![c] = FALSE] /\ c \in DOMAIN intr
      BY <1>t, <1>4, <3>1 DEF SleepRelease, PopOff, CpuTypes
    <3>3. at'[c] = "sleep_set" /\ plock'[p] = c /\ noff'[c] = 1 /\ intena'[c]
      BY <1>t, <1>4, <2>0 DEF SleepRelease, PopOff, CpuTypes
    <3> QED
      BY <3>2, <3>3
  <2>2. on'[c] = p /\ proc'[c] = p /\ idx'[c] = p /\ state'[p] = "RUNNING" /\ frame'[p] = "outside"
    BY <1>t, <1>a, <1>4 DEF SleepRelease, ProcTypes, ThreadOK, InTrap
  <2> QED
    BY <2>1, <2>2, OwnCpu DEF Open, UnderLk
<1>5. CASE SleepSet(c, p)
  <2>1. at'[c] = "sched_sleep" /\ plock'[p] = c /\ noff'[c] = 1 /\ ~intr'[c] /\ intena'[c]
    BY <1>t, <1>a, <1>5 DEF SleepSet, CpuTypes, ProcTypes, LocksOK
  <2>2. on'[c] = p /\ proc'[c] = p /\ idx'[c] = p /\ state'[p] = "SLEEPING" /\ frame'[p] = "outside"
    BY <1>t, <1>a, <1>5 DEF SleepSet, ProcTypes, ThreadOK, InTrap
  <2> QED
    BY <2>1, <2>2, OwnCpu DEF Open, UnderLk
<1>6. CASE SleepWoken(c, p)
  <2>0. noff[c] = 1 /\ saved[p]
    BY <1>a, <1>6 DEF SleepWoken, LocksOK, ThreadOK, Resumed
  <2>1. at'[c] = "acquiresleep" /\ noff'[c] = 0
    BY <1>t, <1>6, <2>0 DEF SleepWoken, RestoreAndRelease, CpuTypes
  <2>3. intr'[c]
    <3>1. (noff[c] = 1 /\ saved[p]) = TRUE
      BY <2>0
    <3>2. intr' = [intr EXCEPT ![c] = TRUE] /\ c \in DOMAIN intr
      BY <1>t, <1>6, <3>1 DEF SleepWoken, RestoreAndRelease, CpuTypes
    <3> QED
      BY <3>2
  <2>2. on'[c] = p /\ proc'[c] = p /\ idx'[c] = p /\ state'[p] = "RUNNING" /\ frame'[p] = "outside"
    BY <1>t, <1>a, <1>6 DEF SleepWoken, ProcTypes, ThreadOK, InTrap
  <2> QED
    BY <2>1, <2>2, <2>3, OwnCpu DEF Open, UnderLk
<1>7. CASE CallReleaseSleep(c, p)
  <2>1. at'[c] = "releasesleep" /\ noff'[c] = 0 /\ intr'[c]
    BY <1>t, <1>a, <1>7 DEF CallReleaseSleep, CpuTypes, ProcTypes, LocksOK, Open
  <2>2. on'[c] = p /\ proc'[c] = p /\ idx'[c] = p /\ state'[p] = "RUNNING" /\ frame'[p] = "outside"
    BY <1>t, <1>a, <1>7 DEF CallReleaseSleep, ProcTypes, ThreadOK, InTrap
  <2> QED
    BY <2>1, <2>2, OwnCpu DEF Open, UnderLk
<1>8. CASE ReleaseSleep(c, p)
  <2>0. noff[c] = 0 /\ intr[c]
    BY <1>a, <1>8 DEF ReleaseSleep, LocksOK, Open
  <2>1. at'[c] = "wakeup" /\ lk' = c /\ noff'[c] = 1 /\ ~intr'[c] /\ intena'[c]
    BY <1>t, <1>8, <2>0 DEF ReleaseSleep, PushOff, CpuTypes
  <2>2. on'[c] = p /\ proc'[c] = p /\ idx'[c] = p /\ state'[p] = "RUNNING" /\ frame'[p] = "outside"
    BY <1>t, <1>a, <1>8 DEF ReleaseSleep, ProcTypes, ThreadOK, InTrap
  <2> QED
    BY <2>1, <2>2, OwnCpu DEF Open, UnderLk
<1>9. CASE Wakeup(c, p)
  <2>0. lk = c /\ noff[c] = 1 /\ ~intr[c] /\ intena[c]
    BY <1>a, <1>9 DEF Wakeup, LocksOK, UnderLk
  <2>1. at'[c] \in {"wakeup", "released"} /\ lk' = c /\ noff'[c] = 1 /\ ~intr'[c] /\ intena'[c]
    BY <1>t, <1>9, <2>0 DEF Wakeup, CpuTypes, UnderLk
  <2>2. on'[c] = p /\ proc'[c] = p /\ idx'[c] = p /\ state'[p] = "RUNNING" /\ frame'[p] = "outside"
    BY <1>t, <1>a, <1>9 DEF Wakeup, ProcTypes, ThreadOK, InTrap
  <2> QED
    BY <2>1, <2>2, OwnCpu DEF Open, UnderLk
<1>10. CASE ReleaseSleepReturns(c, p)
  <2>0. lk = c /\ noff[c] = 1 /\ intena[c]
    BY <1>a, <1>10 DEF ReleaseSleepReturns, LocksOK, UnderLk
  <2>1. at'[c] = "outside" /\ noff'[c] = 0 /\ intr'[c]
    BY <1>t, <1>10, <2>0 DEF ReleaseSleepReturns, PopOff, CpuTypes
  <2>2. on'[c] = p /\ proc'[c] = p /\ idx'[c] = p /\ state'[p] = "RUNNING" /\ frame'[p] = "outside"
    BY <1>t, <1>a, <1>10 DEF ReleaseSleepReturns, ProcTypes, ThreadOK, InTrap
  <2> QED
    BY <2>1, <2>2, OwnCpu DEF Open, UnderLk
<1> QED
  BY <1>1, <1>2, <1>3, <1>4, <1>5, <1>6, <1>7, <1>8, <1>9, <1>10 DEF Call

\* Every step keeps CpuInv.
LEMMA CpuStep ==
  ASSUME TypeOK, CpuInv, ClaimInv, SavedInv, [Next]_vars
  PROVE  CpuInv'
<1>1. CASE UNCHANGED vars
  <2> SUFFICES ASSUME NEW d \in CPUs PROVE CpuOK(d)'
    BY DEF CpuInv
  <2>1. CpuOK(d)
    BY DEF CpuInv
  <2>2. CASE on[d] = NoProc
    BY <1>1, <2>1, <2>2 DEF vars, CpuOK, SchedulerOK
  <2>3. CASE on[d] # NoProc
    BY <1>1, <2>1, <2>3 DEF vars, CpuOK, LocksOK, ThreadOK
  <2> QED
    BY <2>2, <2>3
<1>2. ASSUME NEW c \in CPUs, Scheduler(c) PROVE CpuInv'
  BY <1>2, SchedulerCpu, SchedulerUntouched, OthersKeep DEF CpuInv
<1>3. ASSUME NEW c \in CPUs, NEW p \in Procs, Switch(c, p) \/ Call(c, p) PROVE CpuInv'
  <2>1. CpuOK(c)' /\ Untouched(c)
    BY <1>3, SwitchCpu, SwitchUntouched, CallCpu, CallUntouched
  <2> QED
    BY <2>1, OthersKeep DEF CpuInv
<1>4. ASSUME NEW c \in CPUs, NEW p \in Procs, Timer(c, p) PROVE CpuInv'
  <2> USE SchedConstants, Indices DEF Timer, Set, Goto, proct, slock
  <2>1. LocksOK(c, p) /\ ThreadOK(c, p)
    BY <1>4, CpuFact
  <2>2. Untouched(c)
    <3>1. CpuTypes /\ ProcTypes /\ \A d \in CPUs \ {c} : ~Claims(d, p)
      BY <1>4, Alone, Types
    <3>2. RegistersKept(c)
      BY <1>4, <3>1 DEF CpuTypes, RegistersKept
    <3>3. ThreadsKept(c)
      BY <1>4, <3>1 DEF ProcTypes, ThreadsKept
    <3> QED
      BY <3>2, <3>3 DEF Untouched
  <2>3. at[c] \in Open
    BY <1>4, <2>1 DEF TypeOK, Places, LocksOK, ThreadOK, Open, UnderLk, Resumed
  <2>4. LocksOK(c, p)'
    BY <1>4, <2>1, <2>3 DEF TypeOK, LocksOK, Open, UnderLk, Resumed
  <2>5. ThreadOK(c, p)'
    BY <1>4, <2>1, <2>3 DEF TypeOK, ThreadOK, Open, InTrap
  <2> QED
    BY <1>4, <2>2, <2>4, <2>5, OthersKeep DEF CpuInv, CpuOK
<1>5. ASSUME NEW c \in CPUs, NEW p \in Procs, CallAcquireSleep(c, p) PROVE CpuInv'
  <2> USE SchedConstants, Indices DEF CallAcquireSleep, InProc, Set, Goto, proct, stack, irq, slock
  <2>1. LocksOK(c, p) /\ ThreadOK(c, p)
    BY <1>5, CpuFact
  <2>2. Untouched(c)
    BY <1>5, Types DEF CpuTypes, Untouched, RegistersKept, ThreadsKept
  <2>3. LocksOK(c, p)'
    BY <1>5, <2>1 DEF TypeOK, LocksOK, Open, UnderLk, Resumed
  <2>4. ThreadOK(c, p)'
    BY <1>5, <2>1 DEF TypeOK, ThreadOK, InTrap
  <2> QED
    BY <1>5, <2>2, <2>3, <2>4, OthersKeep DEF CpuInv, CpuOK
<1>6. ASSUME NEW c \in CPUs, NEW p \in Procs, NEW q \in Procs, Kill(c, p, q) PROVE CpuInv'
  <2>1. \A d \in CPUs : ~Claims(d, q)
    BY <1>6, ClaimedRuns, SchedConstants DEF Kill
  <2>2. \A d \in CPUs, r \in Procs : Claims(d, r) => state'[r] = state[r]
    BY <1>6, <2>1 DEF Kill, Set, TypeOK
  <2>3. UNCHANGED <<chan, plock, stack, regs, irq, slock>>
    BY <1>6 DEF Kill
  <2>4. ASSUME NEW d \in CPUs PROVE CpuOK(d)'
    <3>1. idx[d] \in Procs /\ on[d] \in Procs \union {NoProc} /\ CpuOK(d)
      BY DEF TypeOK, CpuInv
    <3>2. CASE on[d] = NoProc
      BY <2>2, <2>3, <3>1, <3>2 DEF Claims, CpuOK, SchedulerOK, regs, irq
    <3>3. CASE on[d] # NoProc
      BY <2>2, <2>3, <3>1, <3>3 DEF Claims, CpuOK, LocksOK, ThreadOK, regs, irq, stack, slock
    <3> QED
      BY <3>2, <3>3
  <2> QED
    BY <2>4 DEF CpuInv
<1> QED
  BY <1>1, <1>2, <1>3, <1>4, <1>5, <1>6 DEF Next

----------------------------------------------------------------------------
\* A step of p's thread on CPU c.
Thread(c, p) == Switch(c, p) \/ Call(c, p) \/ Timer(c, p) \/ CallAcquireSleep(c, p)

\* What a thread keeps on its stack.
StackTypes ==
  /\ context \in [Procs -> {"forkret", "sleep_woken", "yield_resumed"}]
  /\ saved \in [Procs -> BOOLEAN] /\ frame \in [Procs -> Open] /\ next \in [Procs -> Procs]

\* It leaves the stacks of other threads and the scheduler's registers alone,
\* and stays on its own stack until swtch() is through.
LEMMA ThreadStack ==
  ASSUME TypeOK, NEW c \in CPUs, NEW p \in Procs, Thread(c, p)
  PROVE  /\ on[c] = p
         /\ \A q \in Procs \ {p} : /\ context'[q] = context[q] /\ saved'[q] = saved[q]
                                  /\ frame'[q] = frame[q] /\ next'[q] = next[q]
         /\ \A d \in CPUs \ {c} : on'[d] = on[d] /\ at'[d] = at[d] /\ idx'[d] = idx[d]
         /\ \/ on'[c] = p /\ at'[c] # "swtch"
            \/ on'[c] = p /\ Sched(c, p)
            \/ on'[c] = NoProc /\ at'[c] = "unlock" /\ SwtchToScheduler(c, p)
<1>t. CpuTypes /\ StackTypes
  BY Types DEF TypeOK, StackTypes, Open
<1> USE <1>t DEF CpuTypes, StackTypes, InProc, Set, Goto, proct, stack, slock, irq
<1>1. CASE Sched(c, p)
  BY <1>1 DEF Sched
<1>2. CASE SwtchToScheduler(c, p)
  BY <1>2 DEF SwtchToScheduler
<1>3. CASE Yield(c, p)
  BY <1>3 DEF Yield
<1>4. CASE YieldResumed(c, p)
  BY <1>4 DEF YieldResumed, RestoreAndRelease
<1>5. CASE TrapReturn(c, p)
  BY <1>5 DEF TrapReturn, Open
<1>6. CASE Forkret(c, p)
  BY <1>6 DEF Forkret
<1>7. CASE AcquireSleep(c, p)
  BY <1>7 DEF AcquireSleep
<1>8. CASE AcquireSleepReturns(c, p)
  BY <1>8 DEF AcquireSleepReturns
<1>9. CASE Sleep(c, p)
  BY <1>9 DEF Sleep
<1>10. CASE SleepRelease(c, p)
  BY <1>10 DEF SleepRelease
<1>11. CASE SleepSet(c, p)
  BY <1>11 DEF SleepSet
<1>12. CASE SleepWoken(c, p)
  BY <1>12 DEF SleepWoken, RestoreAndRelease
<1>13. CASE CallReleaseSleep(c, p)
  BY <1>13 DEF CallReleaseSleep
<1>14. CASE ReleaseSleep(c, p)
  BY <1>14 DEF ReleaseSleep
<1>15. CASE Wakeup(c, p)
  BY <1>15 DEF Wakeup
<1>16. CASE ReleaseSleepReturns(c, p)
  BY <1>16 DEF ReleaseSleepReturns
<1>17. CASE Timer(c, p)
  BY <1>17 DEF Timer
<1>18. CASE CallAcquireSleep(c, p)
  BY <1>18 DEF CallAcquireSleep
<1> QED
  BY <1>1, <1>2, <1>3, <1>4, <1>5, <1>6, <1>7, <1>8, <1>9, <1>10, <1>11, <1>12, <1>13, <1>14, <1>15, <1>16, <1>17, <1>18 DEF Thread, Switch, Call

\* A step of scheduler() leaves the stacks and the other CPUs' registers alone,
\* and its CPU is nowhere in a thread's code but where that thread left it.
LEMMA SchedulerStack ==
  ASSUME TypeOK, NEW c \in CPUs, Scheduler(c)
  PROVE  /\ on[c] = NoProc /\ UNCHANGED <<chan, stack, slock>>
         /\ \A d \in CPUs \ {c} : on'[d] = on[d] /\ at'[d] = at[d] /\ idx'[d] = idx[d]
         /\ at'[c] \in {"loop", "look", "swtch", "unlock"} \union Resumed
<1>t. CpuTypes /\ context \in [Procs -> Resumed]
  BY Types DEF TypeOK, Resumed
<1> USE <1>t DEF CpuTypes, InScheduler, Set, Goto, proct, stack, slock
<1>1. CASE SchedLoop(c)
  BY <1>1 DEF SchedLoop
<1>2. CASE SchedLook(c)
  BY <1>2 DEF SchedLook
<1>3. CASE SwtchToProc(c)
  BY <1>3 DEF SwtchToProc
<1>4. CASE SchedUnlock(c)
  BY <1>4 DEF SchedUnlock
<1> QED
  BY <1>1, <1>2, <1>3, <1>4 DEF Scheduler

\* Nor does the process that the other CPUs have taken change.
LEMMA ClaimsKept ==
  ASSUME NEW d \in CPUs, NEW p \in Procs, on'[d] = on[d], at'[d] = at[d], idx'[d] = idx[d]
  PROVE  Claims(d, p)' = Claims(d, p)
  BY DEF Claims

\* No process is ever taken by two CPUs.
LEMMA ClaimStep ==
  ASSUME TypeOK, CpuInv, ClaimInv, [Next]_vars
  PROVE  ClaimInv'
<1>1. CASE UNCHANGED vars
  BY <1>1 DEF vars, ClaimInv, Claims
<1>2. ASSUME NEW c \in CPUs, Scheduler(c) PROVE ClaimInv'
  <2>t. CpuTypes /\ ProcTypes
    BY Types
  <2>1. \A d \in CPUs \ {c}, p \in Procs : Claims(d, p)' = Claims(d, p)
    BY <1>2, SchedulerStack, ClaimsKept
  <2>2. ASSUME \A p \in Procs : Claims(c, p)' => Claims(c, p) PROVE ClaimInv'
    <3>1. \A d \in CPUs, p \in Procs : Claims(d, p)' => Claims(d, p)
      BY <2>1, <2>2
    <3> QED
      BY <3>1 DEF ClaimInv
  <2>3. CASE SchedLoop(c)
    <3>1. on'[c] = NoProc /\ at'[c] = "look"
      BY <2>t, <2>3 DEF SchedLoop, InScheduler, Goto, CpuTypes
    <3> QED
      BY <2>2, <3>1, Indices DEF Claims
  <2>4. CASE SchedUnlock(c)
    <3>1. on'[c] = NoProc /\ at'[c] # "swtch"
      BY <2>t, <2>4 DEF SchedUnlock, InScheduler, Goto, CpuTypes
    <3> QED
      BY <2>2, <3>1, Indices DEF Claims
  <2>5. CASE SwtchToProc(c)
    <3>1. /\ on[c] = NoProc /\ at[c] = "swtch" /\ idx[c] \in Procs
          /\ on'[c] = idx[c] /\ idx'[c] = idx[c]
      BY <2>t, <2>5 DEF SwtchToProc, InScheduler, Set, CpuTypes
    <3> QED
      BY <2>2, <3>1, Indices DEF Claims
  <2>6. CASE SchedLook(c)
    <3>1. idx[c] \in Procs /\ plock[idx[c]] = NoCpu
      BY <2>t, <2>6 DEF SchedLook, AcquireP, CpuTypes
    <3>2. /\ on'[c] = NoProc /\ idx'[c] = idx[c]
          /\ at'[c] = "swtch" => state[idx[c]] = "RUNNABLE"
      BY <2>t, <2>6 DEF SchedLook, InScheduler, Goto, CpuTypes
    <3>3. CASE state[idx[c]] = "RUNNABLE"
      <4>1. \A d \in CPUs : ~Claims(d, idx[c])
        BY <3>1, <3>3, ClaimedRuns, SchedConstants
      <4>2. \A p \in Procs : Claims(c, p)' => p = idx[c]
        BY <3>2, Indices DEF Claims
      <4> QED
        BY <2>1, <4>1, <4>2 DEF ClaimInv
    <3>4. CASE state[idx[c]] # "RUNNABLE"
      BY <2>2, <3>2, <3>4, Indices DEF Claims
    <3> QED
      BY <3>3, <3>4
  <2> QED
    BY <1>2, <2>3, <2>4, <2>5, <2>6 DEF Scheduler
<1>3. ASSUME NEW c \in CPUs, NEW p \in Procs, Thread(c, p) PROVE ClaimInv'
  <2>1. /\ on[c] = p
        /\ on'[c] = p \/ (on'[c] = NoProc /\ at'[c] = "unlock")
        /\ \A d \in CPUs \ {c} : on'[d] = on[d] /\ at'[d] = at[d] /\ idx'[d] = idx[d]
    BY <1>3, ThreadStack
  <2>2. \A d \in CPUs \ {c}, q \in Procs : Claims(d, q)' = Claims(d, q)
    BY <2>1, ClaimsKept
  <2>3. \A q \in Procs : Claims(c, q)' => Claims(c, q)
    BY <2>1, Indices DEF Claims
  <2>4. \A d \in CPUs, q \in Procs : Claims(d, q)' => Claims(d, q)
    BY <2>2, <2>3
  <2> QED
    BY <2>4 DEF ClaimInv
<1>4. ASSUME NEW c \in CPUs, NEW p \in Procs, NEW q \in Procs, Kill(c, p, q) PROVE ClaimInv'
  <2>1. \A d \in CPUs, r \in Procs : Claims(d, r)' = Claims(d, r)
    BY <1>4 DEF Kill, regs, Claims
  <2> QED
    BY <2>1 DEF ClaimInv
<1> QED
  BY <1>1, <1>2, <1>3, <1>4 DEF Next, Thread

\* What swtch() saved stays valid until the thread is resumed.
LEMMA SavedStep ==
  ASSUME TypeOK, CpuInv, SavedInv, [Next]_vars
  PROVE  SavedInv'
<1>1. CASE UNCHANGED vars
  BY <1>1 DEF vars, SavedInv
<1>2. ASSUME NEW c \in CPUs, Scheduler(c) PROVE SavedInv'
  <2>1. UNCHANGED stack
    BY <1>2, SchedulerStack
  <2>2. on[c] = NoProc /\ \A d \in CPUs \ {c} : on'[d] = on[d] /\ at'[d] = at[d]
    BY <1>2, SchedulerStack
  <2> QED
    <3> SUFFICES ASSUME NEW q \in Procs, \A d \in CPUs : on'[d] = q => at'[d] = "swtch"
                 PROVE  \A d \in CPUs : on[d] = q => at[d] = "swtch"
      BY <2>1 DEF SavedInv, stack
    <3> QED
      BY <2>2, Indices
<1>3. ASSUME NEW c \in CPUs, NEW p \in Procs, Thread(c, p) PROVE SavedInv'
  <2> SUFFICES ASSUME NEW q \in Procs, \A d \in CPUs : on'[d] = q => at'[d] = "swtch"
               PROVE  /\ context'[q] = "sleep_woken" => saved'[q]
                      /\ context'[q] = "yield_resumed" => ~saved'[q]
                      /\ context'[q] # "yield_resumed" => frame'[q] = "outside"
    BY DEF SavedInv
  <2>1. CASE q # p
    <3>1. /\ context'[q] = context[q] /\ saved'[q] = saved[q] /\ frame'[q] = frame[q] /\ on[c] = p
          /\ \A d \in CPUs \ {c} : on'[d] = on[d] /\ at'[d] = at[d]
      <4>1. /\ on[c] = p /\ \A d \in CPUs \ {c} : on'[d] = on[d] /\ at'[d] = at[d]
            /\ \A r \in Procs \ {p} :
                 context'[r] = context[r] /\ saved'[r] = saved[r] /\ frame'[r] = frame[r]
        BY <1>3, ThreadStack, SMTT(60)
      <4> QED
        BY <2>1, <4>1
    <3>2. \A d \in CPUs : on[d] = q => at[d] = "swtch"
      BY <2>1, <3>1
    <3>3. /\ context[q] = "sleep_woken" => saved[q]
          /\ context[q] = "yield_resumed" => ~saved[q]
          /\ context[q] # "yield_resumed" => frame[q] = "outside"
      BY <3>2 DEF SavedInv
    <3> QED
      BY <3>1, <3>3
  <2>2. CASE q = p /\ Sched(c, p)
    <3>t. StackTypes
      BY DEF TypeOK, StackTypes, Open
    <3>1. LocksOK(c, p) /\ ThreadOK(c, p)
      BY <2>2, CpuFact DEF Sched, InProc
    <3>2. saved'[p] = intena[c] /\ frame'[p] = frame[p]
      BY <2>2, <3>t DEF Sched, Set, StackTypes
    <3>3. CASE at[c] = "sched_sleep"
      <4>1. context'[p] = "sleep_woken"
        BY <2>2, <3>t, <3>3 DEF Sched, InProc, Set, StackTypes
      <4>2. intena[c] /\ frame[p] = "outside"
        BY <3>1, <3>3 DEF LocksOK, ThreadOK, InTrap
      <4> QED
        BY <2>2, <3>2, <4>1, <4>2
    <3>4. CASE at[c] = "sched_yield"
      <4>1. context'[p] = "yield_resumed"
        BY <2>2, <3>t, <3>4 DEF Sched, InProc, Set, StackTypes
      <4>2. ~intena[c]
        BY <3>1, <3>4 DEF LocksOK
      <4> QED
        BY <2>2, <3>2, <4>1, <4>2
    <3> QED
      BY <2>2, <3>3, <3>4 DEF Sched, InProc
  <2>3. CASE q = p /\ SwtchToScheduler(c, p)
    <3>1. \A d \in CPUs : on[d] = p => at[d] = "swtch"
      <4>1. \A d \in CPUs \ {c} : on'[d] = on[d] /\ at'[d] = at[d]
        BY <1>3, ThreadStack
      <4>2. at[c] = "swtch"
        BY <2>3 DEF SwtchToScheduler, InProc
      <4> QED
        BY <2>3, <4>1, <4>2
    <3> QED
      BY <2>3, <3>1 DEF SavedInv, SwtchToScheduler, stack
  <2> QED
    BY <1>3, <2>1, <2>2, <2>3, ThreadStack
<1>4. ASSUME NEW c \in CPUs, NEW p \in Procs, NEW q \in Procs, Kill(c, p, q) PROVE SavedInv'
  BY <1>4 DEF Kill, regs, stack, SavedInv
<1> QED
  BY <1>1, <1>2, <1>3, <1>4 DEF Next, Thread

----------------------------------------------------------------------------
\* Only acquiresleep() and releasesleep() change the sleep-lock.
LEMMA SlockKept ==
  ASSUME NEW c \in CPUs, NEW p \in Procs, Thread(c, p), ~AcquireSleep(c, p), ~ReleaseSleep(c, p)
  PROVE  UNCHANGED <<locked, pid, holders>>
<1> USE DEF slock
<1>1. CASE Switch(c, p)
  BY <1>1 DEF Switch, Sched, SwtchToScheduler, Yield, YieldResumed, TrapReturn, Forkret
<1>2. CASE AcquireSleepReturns(c, p) \/ Sleep(c, p) \/ SleepRelease(c, p) \/ SleepSet(c, p)
  BY <1>2 DEF AcquireSleepReturns, Sleep, SleepRelease, SleepSet
<1>3. CASE SleepWoken(c, p) \/ CallReleaseSleep(c, p) \/ Wakeup(c, p) \/ ReleaseSleepReturns(c, p)
  BY <1>3 DEF SleepWoken, CallReleaseSleep, Wakeup, ReleaseSleepReturns
<1>4. CASE Timer(c, p) \/ CallAcquireSleep(c, p)
  BY <1>4 DEF Timer, CallAcquireSleep
<1> QED
  BY <1>1, <1>2, <1>3, <1>4 DEF Thread, Call

\* The sleep-lock keeps its holder until that process itself releases it.
LEMMA ExclusionStep ==
  ASSUME SleepLockExclusion, HolderInv, [Next]_vars
  PROVE  SleepLockExclusion'
<1>1. ASSUME NEW c \in CPUs, NEW p \in Procs, AcquireSleep(c, p) PROVE SleepLockExclusion'
  <2>1. CASE locked
    BY <1>1, <2>1 DEF AcquireSleep, SleepLockExclusion
  <2>2. CASE ~locked
    BY <1>1, <2>2 DEF AcquireSleep, SleepLockExclusion
  <2> QED
    BY <2>1, <2>2
<1>2. ASSUME NEW c \in CPUs, NEW p \in Procs, ReleaseSleep(c, p) PROVE SleepLockExclusion'
  <2>1. p \in holders
    BY <1>2 DEF ReleaseSleep, InProc, HolderInv
  <2>2. holders' = {}
    BY <1>2, <2>1 DEF ReleaseSleep, SleepLockExclusion
  <2> QED
    BY <2>2 DEF SleepLockExclusion
<1>3. CASE UNCHANGED <<locked, pid, holders>>
  BY <1>3 DEF SleepLockExclusion
<1>4. ASSUME NEW c \in CPUs, NEW p \in Procs, Thread(c, p), ~AcquireSleep(c, p), ~ReleaseSleep(c, p)
      PROVE  UNCHANGED <<locked, pid, holders>>
  BY <1>4, SlockKept
<1>5. ASSUME NEW c \in CPUs, Scheduler(c) PROVE UNCHANGED <<locked, pid, holders>>
  BY <1>5 DEF Scheduler, SchedLoop, SchedLook, SwtchToProc, SchedUnlock, slock
<1>6. ASSUME NEW c \in CPUs, NEW p \in Procs, NEW q \in Procs, Kill(c, p, q)
      PROVE  UNCHANGED <<locked, pid, holders>>
  BY <1>6 DEF Kill, slock
<1> QED
  BY <1>1, <1>2, <1>3, <1>4, <1>5, <1>6 DEF Next, Thread, vars

\* Holding the sleep-lock is a matter of where the thread is, and of where it
\* will return to.
LEMMA HolderStep ==
  ASSUME TypeOK, CpuInv, ClaimInv, HolderInv, [Next]_vars
  PROVE  HolderInv'
<1>1. CASE UNCHANGED vars
  BY <1>1 DEF vars, HolderInv
<1>2. ASSUME NEW c \in CPUs, Scheduler(c) PROVE HolderInv'
  <2>1. UNCHANGED <<stack, slock>>
    BY <1>2, SchedulerStack
  <2>2. \A d \in CPUs \ {c} : on'[d] = on[d] /\ at'[d] = at[d]
    BY <1>2, SchedulerStack
  <2>3. at'[c] \notin {"acquired", "inside", "releasesleep"}
    BY <1>2, SchedulerStack DEF Resumed
  <2> QED
    BY <2>1, <2>2, <2>3 DEF HolderInv, stack, slock
<1>3. ASSUME NEW c \in CPUs, NEW p \in Procs, Thread(c, p) PROVE HolderInv'
  <2> USE DEF InProc, Set, Goto, stack, slock
  <2>1. /\ on[c] = p /\ ThreadOK(c, p)
        /\ \A q \in Procs \ {p} : frame'[q] = frame[q]
        /\ \A d \in CPUs \ {c} : on'[d] = on[d] /\ at'[d] = at[d] /\ on[d] # p
    <3>1. /\ on[c] = p
          /\ \A q \in Procs \ {p} : frame'[q] = frame[q]
          /\ \A d \in CPUs \ {c} : on'[d] = on[d] /\ at'[d] = at[d]
      BY <1>3, ThreadStack
    <3>2. ThreadOK(c, p)
      BY <3>1, CpuFact
    <3>3. \A d \in CPUs \ {c} : on[d] # p
      BY <3>1, Alone DEF Claims
    <3> QED
      BY <3>1, <3>2, <3>3
  <2>2. SUFFICES
          /\ \A q \in Procs \ {p} : q \in holders => q \in holders'
          /\ frame'[p] \in {"inside", "releasesleep"} => p \in holders'
          /\ at'[c] \in {"acquired", "inside", "releasesleep"} => on'[c] \in holders'
    BY <2>1, <2>2 DEF HolderInv, TypeOK
  <2>t. CpuTypes /\ StackTypes
    BY Types DEF TypeOK, StackTypes, Open
  <2>h. /\ frame[p] \in {"inside", "releasesleep"} => p \in holders
        /\ at[c] \in {"acquired", "inside", "releasesleep"} => p \in holders
    BY <2>1 DEF HolderInv
  <2>3. CASE Sched(c, p)
    <3>1. at'[c] = "swtch" /\ frame'[p] = frame[p] /\ holders' = holders
      BY <2>t, <2>3 DEF Sched, CpuTypes
    <3> QED
      BY <2>h, <3>1
  <2>4. CASE SwtchToScheduler(c, p)
    BY <2>1, <2>4 DEF SwtchToScheduler, TypeOK, HolderInv
  <2>5. CASE Yield(c, p)
    BY <2>1, <2>5 DEF Yield, TypeOK, HolderInv
  <2>6. CASE YieldResumed(c, p)
    BY <2>1, <2>6 DEF YieldResumed, TypeOK, HolderInv
  <2>7. CASE TrapReturn(c, p)
    <3>1. on'[c] = p /\ at'[c] = frame[p] /\ frame'[p] = "outside" /\ holders' = holders
      BY <2>1, <2>t, <2>7 DEF TrapReturn, CpuTypes, StackTypes
    <3>2. frame[p] # "acquired"
      BY <2>t DEF StackTypes, Open
    <3> QED
      BY <2>h, <3>1, <3>2
  <2>8. CASE Forkret(c, p)
    BY <2>1, <2>8 DEF Forkret, TypeOK, HolderInv
  <2>9. CASE AcquireSleep(c, p)
    BY <2>1, <2>9 DEF AcquireSleep, TypeOK, HolderInv
  <2>10. CASE AcquireSleepReturns(c, p)
    BY <2>1, <2>10 DEF AcquireSleepReturns, TypeOK, HolderInv
  <2>11. CASE Sleep(c, p)
    BY <2>1, <2>11 DEF Sleep, TypeOK, HolderInv
  <2>12. CASE SleepRelease(c, p)
    BY <2>1, <2>12 DEF SleepRelease, TypeOK, HolderInv
  <2>13. CASE SleepSet(c, p)
    BY <2>1, <2>13 DEF SleepSet, TypeOK, HolderInv
  <2>14. CASE SleepWoken(c, p)
    BY <2>1, <2>14 DEF SleepWoken, TypeOK, HolderInv
  <2>15. CASE CallReleaseSleep(c, p)
    BY <2>1, <2>15 DEF CallReleaseSleep, TypeOK, HolderInv
  <2>16. CASE ReleaseSleep(c, p)
    BY <2>1, <2>16 DEF ReleaseSleep, TypeOK, HolderInv, ThreadOK, InTrap
  <2>17. CASE Wakeup(c, p)
    <3>1. at'[c] \in {"wakeup", "released"} /\ frame'[p] = frame[p] /\ holders' = holders
      BY <2>1, <2>t, <2>17 DEF Wakeup, CpuTypes, StackTypes
    <3> QED
      BY <2>h, <3>1
  <2>18. CASE ReleaseSleepReturns(c, p)
    BY <2>1, <2>18 DEF ReleaseSleepReturns, TypeOK, HolderInv
  <2>19. CASE Timer(c, p)
    <3>1. at'[c] = "yield" /\ frame'[p] = at[c] /\ holders' = holders
      BY <2>1, <2>t, <2>19 DEF Timer, CpuTypes, StackTypes
    <3> QED
      BY <2>h, <3>1
  <2>20. CASE CallAcquireSleep(c, p)
    BY <2>1, <2>20 DEF CallAcquireSleep, TypeOK, HolderInv
  <2> QED
    BY <1>3, <2>3, <2>4, <2>5, <2>6, <2>7, <2>8, <2>9, <2>10, <2>11, <2>12, <2>13, <2>14, <2>15, <2>16, <2>17, <2>18, <2>19, <2>20 DEF Thread, Switch, Call
<1>4. ASSUME NEW c \in CPUs, NEW p \in Procs, NEW q \in Procs, Kill(c, p, q) PROVE HolderInv'
  BY <1>4 DEF Kill, regs, stack, slock, HolderInv
<1> QED
  BY <1>1, <1>2, <1>3, <1>4 DEF Next, Thread

----------------------------------------------------------------------------
\* The wakeup owed to a sleeper.

Sleeps(p) == state[p] = "SLEEPING" /\ chan[p] = "lk"

\* The steps of a thread that can matter to it.
LEMMA SleepSteps ==
  ASSUME TypeOK, CpuInv, NEW c \in CPUs, NEW p \in Procs, Thread(c, p),
         ~AcquireSleep(c, p), ~ReleaseSleep(c, p), ~Wakeup(c, p)
  PROVE  /\ at[c] # "wakeup"
         /\ at'[c] # "sleep"
         /\ at'[c] = "sleep_release" => at[c] = "sleep"
         /\ at'[c] = "sleep_set" => at[c] = "sleep_release"
         /\ \A q \in Procs : Sleeps(q)' => Sleeps(q) \/ (at[c] = "sleep_set" /\ q = p)
<1> USE DEF TypeOK, InProc, Set, Goto, proct, Sleeps
<1>1. CASE Sched(c, p)
  BY <1>1 DEF Sched
<1>2. CASE SwtchToScheduler(c, p)
  BY <1>2 DEF SwtchToScheduler
<1>3. CASE Yield(c, p)
  BY <1>3 DEF Yield
<1>4. CASE YieldResumed(c, p)
  BY <1>4 DEF YieldResumed
<1>5. CASE TrapReturn(c, p)
  BY <1>5 DEF TrapReturn
<1>6. CASE Forkret(c, p)
  BY <1>6 DEF Forkret
<1>7. CASE AcquireSleepReturns(c, p)
  BY <1>7 DEF AcquireSleepReturns
<1>8. CASE Sleep(c, p)
  BY <1>8 DEF Sleep
<1>9. CASE SleepRelease(c, p)
  BY <1>9 DEF SleepRelease
<1>10. CASE SleepSet(c, p)
  BY <1>10 DEF SleepSet
<1>11. CASE SleepWoken(c, p)
  BY <1>11 DEF SleepWoken
<1>12. CASE CallReleaseSleep(c, p)
  BY <1>12 DEF CallReleaseSleep
<1>13. CASE ReleaseSleepReturns(c, p)
  BY <1>13 DEF ReleaseSleepReturns
<1>14. CASE Timer(c, p)
  <2>1. at[c] # "wakeup"
    BY <1>14, CpuFact DEF Timer, LocksOK, UnderLk
  <2> QED
    BY <1>14, <2>1 DEF Timer
<1>15. CASE CallAcquireSleep(c, p)
  BY <1>15 DEF CallAcquireSleep
<1> QED
  BY <1>1, <1>2, <1>3, <1>4, <1>5, <1>6, <1>7, <1>8, <1>9, <1>10, <1>11, <1>12, <1>13, <1>14, <1>15 DEF Thread, Switch, Call

\* A step that is not part of a wakeup() leaves every waker where it is.
LEMMA WakerStays ==
  ASSUME TypeOK, NEW c \in CPUs, on[c] = NoProc \/ at[c] # "wakeup",
         \A d \in CPUs \ {c} :
           /\ on'[d] = on[d] /\ at'[d] = at[d]
           /\ on[d] # NoProc => next'[on[d]] = next[on[d]],
         NEW q \in Procs, WakerAhead(q)
  PROVE  WakerAhead(q)'
<1>1. PICK d \in CPUs : on[d] # NoProc /\ at[d] = "wakeup" /\ next[on[d]] =< q
  BY DEF WakerAhead
<1>2. d # c
  BY <1>1
<1> QED
  BY <1>1, <1>2 DEF WakerAhead

\* The other CPUs during a step of p's thread.
LEMMA OtherThreads ==
  ASSUME TypeOK, ClaimInv, NEW c \in CPUs, NEW p \in Procs, Thread(c, p), NEW d \in CPUs \ {c}
  PROVE  /\ on'[d] = on[d] /\ at'[d] = at[d] /\ on[d] # p
         /\ on[d] # NoProc => next'[on[d]] = next[on[d]]
<1>1. on[c] = p /\ on'[d] = on[d] /\ at'[d] = at[d]
  BY ThreadStack
<1>2. on[d] # p
  BY <1>1, Alone DEF Claims
<1>3. on[d] # NoProc => on[d] \in Procs \ {p}
  BY <1>2, Types DEF CpuTypes
<1>4. \A q \in Procs \ {p} : next'[q] = next[q]
  BY ThreadStack
<1> QED
  BY <1>1, <1>2, <1>3, <1>4

\* releasesleep() starts a wakeup() that has every process ahead of it.
LEMMA ReleaseWakes ==
  ASSUME TypeOK, CpuInv, ClaimInv, WakeupInv, NEW c \in CPUs, NEW p \in Procs, ReleaseSleep(c, p)
  PROVE  WakeupInv'
<1>1. on'[c] = p /\ at'[c] = "wakeup" /\ next'[p] = 1
  BY DEF ReleaseSleep, InProc, Set, Goto, TypeOK
<1>2. \A q \in Procs : WakerAhead(q)'
  BY <1>1, Indices DEF WakerAhead
<1>3. ASSUME NEW d \in CPUs, at'[d] \in {"sleep_set", "sleep", "sleep_release"}
      PROVE  at'[d] = "sleep_set" /\ on'[d] \in Procs
  <2>1. d # c
    BY <1>1, <1>3
  <2>2. on'[d] = on[d] /\ at'[d] = at[d]
    BY <2>1 DEF ReleaseSleep, Goto
  <2>3. on[d] \in Procs /\ LocksOK(d, on[d])
    BY <1>3, <2>2, OnStack
  <2>4. lk # d
    BY SchedConstants DEF ReleaseSleep
  <2> QED
    BY <1>3, <2>2, <2>3, <2>4 DEF LocksOK, UnderLk
<1> QED
  BY <1>2, <1>3 DEF WakeupInv

\* One iteration of wakeup() passes nobody who sleeps or is about to.
LEMMA WakeupPasses ==
  ASSUME TypeOK, CpuInv, ClaimInv, WakeupInv, NEW c \in CPUs, NEW p \in Procs, Wakeup(c, p)
  PROVE  WakeupInv'
<1> DEFINE n == next[p]
<1>1. /\ Thread(c, p) /\ on[c] = p /\ at[c] = "wakeup" /\ proc[c] = p /\ state[p] = "RUNNING"
      /\ lk = c /\ n \in Procs
  <2>1. Thread(c, p) /\ on[c] = p /\ at[c] = "wakeup" /\ n \in Procs
    BY DEF Thread, Call, Wakeup, InProc, TypeOK
  <2>2. LocksOK(c, p) /\ ThreadOK(c, p)
    BY <2>1, CpuFact
  <2> QED
    BY <2>1, <2>2 DEF LocksOK, ThreadOK, UnderLk
<1>t. CpuTypes /\ ProcTypes /\ StackTypes
  BY Types DEF TypeOK, StackTypes, Open
<1>2. \A d \in CPUs \ {c} : at[d] # "wakeup" \/ on[d] = NoProc
  <2> SUFFICES ASSUME NEW d \in CPUs \ {c}, at[d] = "wakeup", on[d] # NoProc PROVE FALSE
    OBVIOUS
  <2>1. LocksOK(d, on[d])
    BY DEF CpuInv, CpuOK
  <2> QED
    BY <1>1, <2>1 DEF LocksOK, UnderLk
<1>3. ASSUME NEW q \in Procs \ {n}, WakerAhead(q) PROVE WakerAhead(q)'
  <2>1. n =< q
    BY <1>1, <1>2, <1>3 DEF WakerAhead
  <2>2. n # NPROC /\ n + 1 =< q
    BY <1>1, <2>1, Indices
  <2>3. on'[c] = p /\ at'[c] = "wakeup" /\ next'[p] = n + 1
    BY <1>1, <2>2, <1>t DEF Wakeup, Set, StackTypes
  <2> QED
    BY <2>2, <2>3, Indices DEF WakerAhead
<1>4. ASSUME NEW q \in Procs, Sleeps(q)' PROVE Sleeps(q) /\ q # n
  <2>1. Sleeps(q)
    BY <1>1, <1>4, <1>t DEF Sleeps, Wakeup, Set, ProcTypes
  <2>2. q # p
    BY <1>1, <2>1 DEF Sleeps
  <2>3. CASE q = n
    <3>1. state'[n] = "RUNNABLE"
      BY <1>1, <2>1, <2>2, <2>3, <1>t DEF Sleeps, Wakeup, Set, ProcTypes
    <3> QED
      BY <1>4, <2>3, <3>1 DEF Sleeps
  <2> QED
    BY <2>1, <2>3
<1>5. at'[c] \in {"wakeup", "released"} /\ UNCHANGED locked
  BY <1>1, <1>t DEF Wakeup, Goto, CpuTypes, slock
<1>6. ASSUME NEW d \in CPUs, at'[d] \in {"sleep_set", "sleep", "sleep_release"}
      PROVE  at'[d] = "sleep_set" /\ at[d] = "sleep_set" /\ on'[d] = on[d] /\ on[d] \in Procs \ {n}
  <2>1. d # c
    BY <1>5, <1>6
  <2>2. on'[d] = on[d] /\ at'[d] = at[d] /\ on[d] # p
    <3>1. Thread(c, p)
      BY <1>1
    <3>2. \A e \in CPUs \ {c} : on'[e] = on[e] /\ at'[e] = at[e]
      BY <3>1, ThreadStack
    <3>3. \A e \in CPUs \ {c} : on[e] # p
      BY <1>1, Alone DEF Claims
    <3> QED
      BY <2>1, <3>2, <3>3
  <2>3. on[d] \in Procs /\ LocksOK(d, on[d])
    BY <1>6, <2>2, OnStack
  <2>4. at[d] = "sleep_set" /\ plock[on[d]] = d
    BY <1>1, <1>6, <2>1, <2>2, <2>3 DEF LocksOK, UnderLk
  <2>5. on[d] # n
    BY <1>1, <2>2, <2>4, SchedConstants DEF Wakeup
  <2> QED
    BY <2>2, <2>3, <2>4, <2>5
<1>7. ASSUME NEW q \in Procs, Sleeps(q)' PROVE (locked \/ WakerAhead(q))'
  BY <1>3, <1>4, <1>5, <1>7 DEF WakeupInv, Sleeps
<1>8. ASSUME NEW d \in CPUs, at'[d] = "sleep_set" PROVE (locked \/ WakerAhead(on[d]))'
  BY <1>3, <1>5, <1>6, <1>8 DEF WakeupInv
<1> QED
  BY <1>6, <1>7, <1>8 DEF WakeupInv, Sleeps

LEMMA WakeupStep ==
  ASSUME TypeOK, CpuInv, ClaimInv, WakeupInv, [Next]_vars
  PROVE  WakeupInv'
<1>1. CASE UNCHANGED vars
  BY <1>1 DEF vars, WakeupInv, WakerAhead
<1>2. ASSUME NEW c \in CPUs, Scheduler(c) PROVE WakeupInv'
  <2>1. on[c] = NoProc /\ UNCHANGED <<chan, stack, slock>>
    BY <1>2, SchedulerStack
  <2>2. \A d \in CPUs \ {c} : on'[d] = on[d] /\ at'[d] = at[d]
    BY <1>2, SchedulerStack
  <2>3. \A q \in Procs : WakerAhead(q) => WakerAhead(q)'
    BY <2>1, <2>2, WakerStays DEF stack
  <2>4. \A q \in Procs : Sleeps(q)' => Sleeps(q)
    <3>1. UNCHANGED chan
      BY <2>1
    <3>2. \A q \in Procs : state'[q] = "SLEEPING" => state[q] = "SLEEPING"
      <4>t. ProcTypes
        BY Types
      <4>1. CASE SchedLook(c)
        BY <4>t, <4>1 DEF SchedLook, Set, ProcTypes
      <4>2. CASE SchedLoop(c) \/ SwtchToProc(c) \/ SchedUnlock(c)
        BY <4>2 DEF SchedLoop, SwtchToProc, SchedUnlock, proct
      <4> QED
        BY <1>2, <4>1, <4>2 DEF Scheduler
    <3> QED
      BY <3>1, <3>2 DEF Sleeps
  <2>5. at'[c] \notin {"sleep_set", "sleep", "sleep_release"}
    BY <1>2, SchedulerStack DEF Resumed
  <2>6. \A d \in CPUs : at'[d] = "sleep_set" => on'[d] = on[d] /\ on[d] \in Procs /\ at[d] = "sleep_set"
    BY <2>2, <2>5, OnStack
  <2> QED
    BY <2>1, <2>2, <2>3, <2>4, <2>5, <2>6 DEF WakeupInv, Sleeps, slock
<1>3. ASSUME NEW c \in CPUs, NEW p \in Procs, Thread(c, p) PROVE WakeupInv'
  <2>1. CASE ReleaseSleep(c, p) \/ Wakeup(c, p)
    BY <2>1, ReleaseWakes, WakeupPasses
  <2>2. CASE AcquireSleep(c, p)
    BY <2>2 DEF AcquireSleep, WakeupInv
  <2>3. CASE ~ReleaseSleep(c, p) /\ ~Wakeup(c, p) /\ ~AcquireSleep(c, p)
    <3>1. UNCHANGED locked
      BY <1>3, <2>3, SlockKept
    <3>2. on[c] = p /\ \A d \in CPUs \ {c} :
            /\ on'[d] = on[d] /\ at'[d] = at[d]
            /\ on[d] # NoProc => next'[on[d]] = next[on[d]]
      <4>1. on[c] = p
        BY <1>3, ThreadStack
      <4> QED
        BY <1>3, <4>1, OtherThreads
    <3>3. /\ at[c] # "wakeup" /\ at'[c] # "sleep"
          /\ at'[c] = "sleep_release" => at[c] = "sleep"
          /\ at'[c] = "sleep_set" => at[c] = "sleep_release"
          /\ \A q \in Procs : Sleeps(q)' => Sleeps(q) \/ (at[c] = "sleep_set" /\ q = p)
      BY <1>3, <2>3, SleepSteps
    <3>4. \A q \in Procs : WakerAhead(q) => WakerAhead(q)'
      BY <3>2, <3>3, WakerStays
    <3>5. \A q \in Procs : Sleeps(q)' => (locked \/ WakerAhead(q))'
      BY <3>1, <3>2, <3>3, <3>4 DEF WakeupInv, Sleeps
    <3>6. ASSUME NEW d \in CPUs PROVE at'[d] = "sleep_set" => (locked \/ WakerAhead(on[d]))'
      <4>1. CASE d = c
        BY <3>1, <3>3, <4>1 DEF WakeupInv
      <4>2. CASE d # c /\ at[d] = "sleep_set"
        <5>1. on[d] \in Procs
          BY <4>2, OnStack
        <5> QED
          BY <3>1, <3>2, <3>4, <4>2, <5>1 DEF WakeupInv
      <4> QED
        BY <3>2, <4>1, <4>2
    <3>7. \A d \in CPUs : at'[d] \in {"sleep", "sleep_release"} => locked'
      BY <3>1, <3>2, <3>3 DEF WakeupInv
    <3> QED
      BY <3>5, <3>6, <3>7 DEF WakeupInv, Sleeps
  <2> QED
    BY <2>1, <2>2, <2>3
<1>4. ASSUME NEW c \in CPUs, NEW p \in Procs, NEW q \in Procs, Kill(c, p, q) PROVE WakeupInv'
  <2>1. UNCHANGED <<on, at, next, chan, locked>>
    BY <1>4 DEF Kill, regs, stack, slock
  <2>2. \A r \in Procs : state'[r] = "SLEEPING" => state[r] = "SLEEPING"
    BY <1>4 DEF Kill, Set, TypeOK
  <2>3. \A r : WakerAhead(r)' <=> WakerAhead(r)
    BY <2>1 DEF WakerAhead
  <2> QED
    BY <2>1, <2>2, <2>3 DEF WakeupInv
<1> QED
  BY <1>1, <1>2, <1>3, <1>4 DEF Next, Thread

----------------------------------------------------------------------------
LEMMA InitIInv == Init => IInv
<1> SUFFICES ASSUME Init PROVE IInv
  OBVIOUS
<1>1. TypeOK
  BY TypeInit
<1>2. CpuInv /\ ClaimInv
  BY <1>1, Indices DEF Init, CpuInv, CpuOK, SchedulerOK, ClaimInv, Claims
<1>3. SavedInv /\ SleepLockExclusion /\ HolderInv /\ WakeupInv
  BY <1>1 DEF Init, SavedInv, SleepLockExclusion, HolderInv, WakeupInv
<1> QED
  BY <1>1, <1>2, <1>3 DEF IInv

\* IInv is an inductive invariant.
THEOREM Invariance == Spec => []IInv
<1>1. IInv /\ [Next]_vars => IInv'
  BY TypeStep, CpuStep, ClaimStep, SavedStep, ExclusionStep, HolderStep, WakeupStep DEF IInv
<1> QED
  BY <1>1, InitIInv, PTL DEF Spec

\* The variables of scheduler(), sched(), sleep() and wakeup() keep their types.
THEOREM TypeCorrect == Spec => []TypeOK
<1>1. IInv => TypeOK
  BY DEF IInv
<1> QED
  BY <1>1, Invariance, PTL

\* A kernel stack is in use on one CPU at a time, also while swtch() is leaving
\* it, and c->proc names the process whose stack CPU c is on.
THEOREM StacksExclusive == Spec => []OneCpuPerStack
<1>1. IInv => OneCpuPerStack
  <2> SUFFICES ASSUME IInv PROVE OneCpuPerStack
    OBVIOUS
  <2>1. \A c \in CPUs : on[c] # NoProc => on[c] \in Procs /\ proc[c] = on[c]
    BY DEF IInv, TypeOK, CpuInv, CpuOK, ThreadOK
  <2> QED
    BY <2>1 DEF IInv, ClaimInv, Claims, OneCpuPerStack
<1> QED
  BY <1>1, Invariance, PTL

\* None of the four panics of sched() can happen.
THEOREM NoSchedPanic == Spec => []SchedNeverPanics
<1>1. IInv => SchedNeverPanics
  BY CpuFact DEF IInv, LocksOK, ThreadOK, SchedNeverPanics
<1> QED
  BY <1>1, Invariance, PTL

\* sleep() and wakeup() lose no wakeup: nobody sleeps for a free sleep-lock
\* once releasesleep() has returned.
THEOREM WakeupsArrive == Spec => []NoLostWakeup
<1>1. IInv => NoLostWakeup
  <2> SUFFICES ASSUME IInv, NEW p \in Procs, state[p] = "SLEEPING", chan[p] = "lk", ~locked
               PROVE  lk # NoCpu
    BY DEF NoLostWakeup
  <2>1. PICK c \in CPUs : on[c] # NoProc /\ at[c] = "wakeup"
    BY DEF IInv, WakeupInv, WakerAhead
  <2>2. lk = c
    BY <2>1 DEF IInv, CpuInv, CpuOK, LocksOK, UnderLk
  <2> QED
    BY <2>2, SchedConstants
<1> QED
  BY <1>1, Invariance, PTL

\* The interrupt state belongs to the thread: sched() saves intena and restores
\* it on whatever CPU the thread continues.
THEOREM InterruptsMoveWithThread == Spec => []InterruptsFollowThread
<1>1. IInv => InterruptsFollowThread
  BY DEF IInv, CpuInv, CpuOK, SchedulerOK, LocksOK, Open, InterruptsFollowThread
<1> QED
  BY <1>1, Invariance, PTL

\* acquiresleep() gives the sleep-lock to one process at a time, across sleeps,
\* timer interrupts and moves to other CPUs.
THEOREM SleepLocksExclude == Spec => []SleepLockExclusion
<1>1. IInv => SleepLockExclusion
  BY DEF IInv
<1> QED
  BY <1>1, Invariance, PTL

\* Wherever scheduler() continues a thread, sched() was entered as it must be,
\* and the thread finds its own interrupt state.
THEOREM SwitchSafety == Spec => []SwitchSafe
  BY TypeCorrect, NoSchedPanic, InterruptsMoveWithThread, PTL DEF SwitchSafe

\* acquiresleep() and releasesleep() as a whole: one holder at a time, and
\* nobody asleep for a lock that is free.
THEOREM SleepLockSafety == Spec => []SleepLockSafe
  BY SleepLocksExclude, WakeupsArrive, PTL DEF SleepLockSafe
=============================================================================
