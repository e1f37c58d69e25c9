------------------------------ MODULE Spinlock ------------------------------
(***************************************************************************)
(* kernel/spinlock.c on several CPUs with interrupts: acquire(), release() *)
(* and the push_off()/pop_off() nesting that keeps an interrupt handler    *)
(* from spinning on a lock its own CPU holds.  Every access to lk->locked  *)
(* and to lk->cpu is a step; sstatus.SIE, noff and intena are per CPU and  *)
(* only their CPU touches them.                                            *)
(*                                                                         *)
(* A context is the code running on a CPU, or the handler that interrupted *)
(* it (trap.c: kerneltrap() runs with interrupts off).  Contexts take any  *)
(* locks, in ascending order when nested, and release them in any order.   *)
(***************************************************************************)
EXTENDS Integers, FiniteSets

CONSTANTS CPUs,     \* the harts
          NoCpu,    \* lk->cpu = 0
          NLocks    \* how many spinlocks there are

ASSUME SpinlockConstants == NLocks \in Nat \ {0} /\ NoCpu \notin CPUs

Locks == 1..NLocks
Levels == {"thread", "handler"}
Contexts == CPUs \X Levels

VARIABLES
  locked, cpu,          \* struct spinlock, per lock
  noff, intena,         \* struct cpu
  intr,                 \* sstatus.SIE of each CPU
  level,                \* whose turn it is on each CPU: thread or handler
  pc, lk, old,          \* each context's place and its locals
  holds,                \* the locks each context has won and not given up
  base                  \* the interrupt state a context's own code has chosen

spin == <<locked, cpu>>
percpu == <<noff, intena, intr, level>>
vars == <<locked, cpu, noff, intena, intr, level, pc, lk, old, holds, base>>

Places == {"run", "push_off", "holding", "holding_cpu", "test_and_set", "set_cpu",
           "clear_cpu", "unlock", "pop_off"}

\* The context t is the one its CPU executes.
Runs(t) == level[t[1]] = t[2]
Goto(t, s) == pc' = [pc EXCEPT ![t] = s]

----------------------------------------------------------------------------
\* acquire()

\* Entry of acquire() and of push_off(): old = intr_get().
Acquire(t, l) ==
  /\ Runs(t) /\ pc[t] = "run" /\ \A h \in holds[t] : h < l
  /\ lk' = [lk EXCEPT ![t] = l]
  /\ old' = [old EXCEPT ![t] = intr[t[1]]]
  /\ Goto(t, "push_off")
  /\ UNCHANGED <<spin, percpu, holds, base>>

Mut_PushOffLeavesOn(t) ==
  /\ Runs(t) /\ pc[t] = "push_off"
  /\ intena' = [intena EXCEPT ![t[1]] = IF noff[t[1]] = 0 THEN old[t] ELSE @]
  /\ noff' = [noff EXCEPT ![t[1]] = @ + 1]
  /\ Goto(t, "holding")
  /\ UNCHANGED <<spin, intr, level, lk, old, holds, base>>

\* intr_off(), then the accounting; from here on nothing interrupts.
PushOff(t) ==
  /\ Runs(t) /\ pc[t] = "push_off"
  /\ intr' = [intr EXCEPT ![t[1]] = FALSE]
  /\ intena' = [intena EXCEPT ![t[1]] = IF noff[t[1]] = 0 THEN old[t] ELSE @]
  /\ noff' = [noff EXCEPT ![t[1]] = @ + 1]
  /\ Goto(t, "holding")
  /\ UNCHANGED <<spin, level, lk, old, holds, base>>

\* holding() reads lk->locked and, if it is set, lk->cpu.
HoldingLocked(t) ==
  /\ Runs(t) /\ pc[t] = "holding"
  /\ Goto(t, IF locked[lk[t]] THEN "holding_cpu" ELSE "test_and_set")
  /\ UNCHANGED <<spin, percpu, lk, old, holds, base>>

HoldingCpu(t) ==
  /\ Runs(t) /\ pc[t] = "holding_cpu" /\ cpu[lk[t]] # t[1]
  /\ Goto(t, "test_and_set")
  /\ UNCHANGED <<spin, percpu, lk, old, holds, base>>

Mut_TestAndSet(t) ==
  /\ Runs(t) /\ pc[t] = "test_and_set" /\ cpu[lk[t]] = NoCpu
  /\ locked' = [locked EXCEPT ![lk[t]] = TRUE]
  /\ holds' = [holds EXCEPT ![t] = @ \union {lk[t]}]
  /\ Goto(t, "set_cpu")
  /\ UNCHANGED <<cpu, percpu, lk, old, base>>

\* The amoswap that finds the lock free.
TestAndSet(t) ==
  /\ Runs(t) /\ pc[t] = "test_and_set" /\ ~locked[lk[t]]
  /\ locked' = [locked EXCEPT ![lk[t]] = TRUE]
  /\ holds' = [holds EXCEPT ![t] = @ \union {lk[t]}]
  /\ Goto(t, "set_cpu")
  /\ UNCHANGED <<cpu, percpu, lk, old, base>>

SetCpu(t) ==
  /\ Runs(t) /\ pc[t] = "set_cpu"
  /\ cpu' = [cpu EXCEPT ![lk[t]] = t[1]]
  /\ Goto(t, "run")
  /\ UNCHANGED <<locked, percpu, lk, old, holds, base>>

----------------------------------------------------------------------------
\* release()

Holding(c, l) == locked[l] /\ cpu[l] = c

Release(t, l) ==
  /\ Runs(t) /\ pc[t] = "run" /\ l \in holds[t]
  /\ lk' = [lk EXCEPT ![t] = l]
  /\ Goto(t, "clear_cpu")
  /\ UNCHANGED <<spin, percpu, old, holds, base>>

Mut_ClearCpu(t) ==
  /\ Runs(t) /\ pc[t] = "clear_cpu" /\ Holding(t[1], lk[t])
  /\ Goto(t, "unlock")
  /\ UNCHANGED <<locked, cpu, percpu, lk, old, holds, base>>

\* release() passes its test of holding() and clears lk->cpu.
ClearCpu(t) ==
  /\ Runs(t) /\ pc[t] = "clear_cpu" /\ Holding(t[1], lk[t])
  /\ cpu' = [cpu EXCEPT ![lk[t]] = NoCpu]
  /\ Goto(t, "unlock")
  /\ UNCHANGED <<locked, percpu, lk, old, holds, base>>

Unlock(t) ==
  /\ Runs(t) /\ pc[t] = "unlock"
  /\ locked' = [locked EXCEPT ![lk[t]] = FALSE]
  /\ holds' = [holds EXCEPT ![t] = @ \ {lk[t]}]
  /\ Goto(t, "pop_off")
  /\ UNCHANGED <<cpu, percpu, lk, old, base>>

Mut_PopOff(t) ==
  /\ Runs(t) /\ pc[t] = "pop_off" /\ ~intr[t[1]] /\ noff[t[1]] >= 1
  /\ noff' = [noff EXCEPT ![t[1]] = @ - 1]
  /\ intr' = [intr EXCEPT ![t[1]] = intena[t[1]]]
  /\ Goto(t, "run")
  /\ UNCHANGED <<spin, intena, level, lk, old, holds, base>>

PopOff(t) ==
  /\ Runs(t) /\ pc[t] = "pop_off" /\ ~intr[t[1]] /\ noff[t[1]] >= 1
  /\ noff' = [noff EXCEPT ![t[1]] = @ - 1]
  /\ intr' = [intr EXCEPT ![t[1]] = noff[t[1]] = 1 /\ intena[t[1]]]
  /\ Goto(t, "run")
  /\ UNCHANGED <<spin, intena, level, lk, old, holds, base>>

----------------------------------------------------------------------------
\* Interrupts

\* The hardware takes an interrupt: SIE is cleared and kerneltrap() runs.
Interrupt(c) ==
  /\ intr[c]
  /\ intr' = [intr EXCEPT ![c] = FALSE]
  /\ level' = [level EXCEPT ![c] = "handler"]
  /\ UNCHANGED <<spin, noff, intena, pc, lk, old, holds, base>>

\* kerneltrap() returns with sret, which sets SIE as it was.
ReturnFromInterrupt(c) ==
  /\ level[c] = "handler" /\ pc[<<c, "handler">>] = "run" /\ holds[<<c, "handler">>] = {}
  /\ intr' = [intr EXCEPT ![c] = TRUE]
  /\ level' = [level EXCEPT ![c] = "thread"]
  /\ UNCHANGED <<spin, noff, intena, pc, lk, old, holds, base>>

\* intr_on() in usertrap() and scheduler(), intr_off() in usertrapret(): code
\* that holds no lock changes the interrupt state for itself.
SetInterrupts(c, b) ==
  /\ level[c] = "thread" /\ pc[<<c, "thread">>] = "run" /\ holds[<<c, "thread">>] = {}
  /\ base[<<c, "thread">>] # b
  /\ base' = [base EXCEPT ![<<c, "thread">>] = b]
  /\ intr' = [intr EXCEPT ![c] = b]
  /\ UNCHANGED <<spin, noff, intena, level, pc, lk, old, holds>>

----------------------------------------------------------------------------
Init ==
  /\ locked = [l \in Locks |-> FALSE]
  /\ cpu = [l \in Locks |-> NoCpu]
  /\ noff = [c \in CPUs |-> 0]
  /\ intena = [c \in CPUs |-> FALSE]
  /\ intr = [c \in CPUs |-> FALSE]
  /\ level = [c \in CPUs |-> "thread"]
  /\ pc = [t \in Contexts |-> "run"]
  /\ lk = [t \in Contexts |-> 1]
  /\ old = [t \in Contexts |-> FALSE]
  /\ holds = [t \in Contexts |-> {}]
  /\ base = [t \in Contexts |-> FALSE]

Step(t) ==
  \/ PushOff(t) \/ HoldingLocked(t) \/ HoldingCpu(t) \/ TestAndSet(t) \/ SetCpu(t)
  \/ ClearCpu(t) \/ Unlock(t) \/ PopOff(t)

Next ==
  \/ \E t \in Contexts, l \in Locks : Acquire(t, l) \/ Release(t, l)
  \/ \E t \in Contexts : Step(t)
  \/ \E c \in CPUs : Interrupt(c) \/ ReturnFromInterrupt(c)
  \/ \E c \in CPUs, b \in BOOLEAN : SetInterrupts(c, b)

Spec == Init /\ [][Next]_vars

\* A CPU does not stop inside acquire() or release(), and critical sections and
\* handlers end.  Nothing is assumed about who wins a contended amoswap.
Fairness ==
  /\ \A t \in Contexts : WF_vars(Step(t)) /\ WF_vars(\E l \in Locks : Release(t, l))
  /\ \A c \in CPUs : WF_vars(ReturnFromInterrupt(c))

FairSpec == Spec /\ Fairness

----------------------------------------------------------------------------
\* Types of the variables.
TypeOK ==
  /\ locked \in [Locks -> BOOLEAN]
  /\ cpu \in [Locks -> CPUs \union {NoCpu}]
  /\ noff \in [CPUs -> Nat]
  /\ intena \in [CPUs -> BOOLEAN]
  /\ intr \in [CPUs -> BOOLEAN]
  /\ level \in [CPUs -> Levels]
  /\ pc \in [Contexts -> Places]
  /\ lk \in [Contexts -> Locks]
  /\ old \in [Contexts -> BOOLEAN]
  /\ holds \in [Contexts -> SUBSET Locks]
  /\ base \in [Contexts -> BOOLEAN]

\* acquire() gives a lock to one context at a time, on any CPU, handlers and
\* the code they interrupt included.
MutualExclusion == \A t, u \in Contexts : t # u => holds[t] \cap holds[u] = {}

\* None of the panics of spinlock.c is met: holding() says of a CPU that it
\* holds a lock exactly when the code running there does, even while another
\* CPU is half-way through taking or releasing it, and pop_off() matches.
NeverPanics ==
  \A t \in Contexts : Runs(t) =>
    /\ pc[t] = "holding_cpu" => cpu[lk[t]] # t[1]
    /\ pc[t] = "clear_cpu" => Holding(t[1], lk[t])
    /\ pc[t] = "pop_off" => ~intr[t[1]] /\ noff[t[1]] >= 1

\* While a CPU holds a lock or spins for one no interrupt is taken there, so a
\* handler never waits for the code it interrupted.
LockedMeansUninterruptible ==
  \A t \in Contexts :
    holds[t] # {} \/ pc[t] \notin {"run", "push_off"} => ~intr[t[1]] /\ Runs(t)

\* spinlock.c:84: push_off() and pop_off() are matched.  When a context has
\* released all it took, interrupts are as its own code had left them, however
\* the releases were ordered and whatever interrupted in between.
InterruptsRestored ==
  \A t \in Contexts : Runs(t) /\ pc[t] = "run" /\ holds[t] = {} => intr[t[1]] = base[t]

\* acquire() cannot deadlock: a lock somebody keeps spinning for keeps being
\* granted, unless the holder is itself passed over for a later lock that keeps
\* being granted.  (The code makes no promise to an individual spinner.)
Wanted(l) == \E t \in Contexts : pc[t] = "test_and_set" /\ lk[t] = l
Granted(l) == \E t \in Contexts : pc[t] = "set_cpu" /\ lk[t] = l
LocksKeepMoving ==
  \A l \in Locks : []<>Wanted(l) => \E m \in l..NLocks : []<>Granted(m)

(* push_off() and pop_off(): interrupts are off while a lock is held and   *)
(* as before when none is.                                                 *)
InterruptsFollowLocks == TypeOK /\ LockedMeansUninterruptible /\ InterruptsRestored
=============================================================================
