-------------------------------- MODULE Boot --------------------------------
(***************************************************************************)
(* Booting a multiprocessor: kernel/entry.S, start() in machine mode,      *)
(* main() on every hart (kernel/main.c), and the first processes, whose    *)
(* first scheduling ends in forkret() (kernel/proc.c), which brings up the *)
(* file system.                                                            *)
(*                                                                         *)
(* RISC-V memory is weakly ordered, which is why main() and forkret() have *)
(* fences.  A store is invisible to other harts until it leaves its hart's *)
(* set of pending stores, in any order; a load of a waiting hart may be    *)
(* satisfied early, from what memory held before the flag it waits for was *)
(* seen.  A fence drains the hart's stores and makes its later loads       *)
(* fresh, and so does acquiring or releasing a spinlock.  A "store" is the *)
(* whole initialisation that the call of that name performs.               *)
(***************************************************************************)
EXTENDS Integers, Sequences, FiniteSets

CONSTANTS
  NCPU,       \* harts, numbered from 0
  NProcs      \* processes that are ever created, numbered from 1

HartIds == 0..(NCPU - 1)
Procs == 1..NProcs
NoProc == 0

VARIABLES
  hart,       \* hart -> the registers that booting sets
  todo,       \* hart -> the calls that main() still has to make on it
  memory,     \* what is initialised, as memory shows it
  pending,    \* hart -> its stores that have not reached memory
  view,       \* hart -> what its loads find, beyond its own pending stores
  proc,       \* process -> state and where it is in its life
  running,    \* hart -> the process it runs, or NoProc (c->proc)
  fsinits     \* how many times fsinit() has been entered

vars == <<hart, todo, memory, pending, view, proc, running, fsinits>>

---------------------------------------------------------------------------
(* main(): the calls it makes, in order, and what each of them reads. *)

\* if(cpuid() == 0)
BootCalls ==
  <<"consoleinit", "printfinit", "printf", "kinit", "kvminit", "kvminithart", "procinit",
    "trapinit", "trapinithart", "plicinit", "plicinithart", "binit", "iinit", "fileinit",
    "virtio_disk_init", "userinit", "fence", "started", "scheduler">>

Mut_OtherCalls == <<"wait", "printf", "kvminithart", "trapinithart", "plicinithart", "scheduler">>

\* else
OtherCalls ==
  <<"wait", "fence", "printf", "kvminithart", "trapinithart", "plicinithart", "scheduler">>

MainCalls(h) == IF h = 0 THEN BootCalls ELSE OtherCalls

\* What must be initialised for a call to work.
Uses(call) ==
  CASE call = "printf" -> {"consoleinit", "printfinit"}
    [] call \in {"kvminit", "virtio_disk_init"} -> {"kinit"}
    [] call = "kvminithart" -> {"kvminit"}
    [] call = "userinit" -> {"kinit", "procinit", "iinit"}
    [] call = "scheduler" -> {"procinit", "trapinit", "consoleinit", "virtio_disk_init"}
    [] call = "fsinit" -> {"binit", "virtio_disk_init"}
    [] call = "user" -> {"fileinit", "iinit", "fsinit"}
    [] OTHER -> {}

\* The calls that set registers of the hart and store nothing.
HartCalls == {"kvminithart", "trapinithart", "plicinithart", "printf", "scheduler"}

\* The calls that allocate, and so take a lock after the stores of the earlier
\* calls; kinit() and userinit() release it after their own stores too.
LockingCalls == {"printf", "kinit", "kvminit", "virtio_disk_init", "userinit"}
ReleaseLast == {"kinit", "userinit"}

Init ==
  /\ hart = [h \in HartIds |-> [at |-> "entry", sp |-> 0, tp |-> NCPU, satp |-> FALSE, stvec |-> FALSE,
                              deleg |-> FALSE, plic |-> FALSE, intr |-> FALSE]]
  /\ todo = [h \in HartIds |-> <<>>]
  /\ memory = {}
  /\ pending = [h \in HartIds |-> {}]
  /\ view = [h \in HartIds |-> {}]
  /\ proc = [p \in Procs |-> "unused"]
  /\ running = [h \in HartIds |-> NoProc]
  /\ fsinits = 0

---------------------------------------------------------------------------
(* Memory. *)

\* What a load of hart h finds.
Sees(h) == view[h] \union pending[h]

\* A store of hart h becomes visible.
Commit(h) ==
  /\ \E s \in pending[h] :
       /\ memory' = memory \union {s}
       /\ pending' = [pending EXCEPT ![h] = @ \ {s}]
       /\ view' = [view EXCEPT ![h] = @ \union {s}]
  /\ UNCHANGED <<hart, todo, proc, running, fsinits>>

\* A fence by hart h, with the stores that follow it.
FenceThen(h, stores) ==
  /\ memory' = memory \union pending[h]
  /\ pending' = [pending EXCEPT ![h] = stores]
  /\ view' = [view EXCEPT ![h] = memory \union pending[h]]

---------------------------------------------------------------------------
(* The harts. *)

\* entry.S gives each hart a page of stack0, counted from its top.
Entry(h) ==
  /\ hart[h].at = "entry"
  /\ hart' = [hart EXCEPT ![h].at = "start", ![h].sp = h + 1]
  /\ UNCHANGED <<todo, memory, pending, view, proc, running, fsinits>>

\* start() and timerinit(): delegate traps, ask for timer interrupts, leave
\* machine mode for main() with paging and interrupts off.
Start(h) ==
  /\ hart[h].at = "start"
  /\ hart' = [hart EXCEPT ![h].at = "main", ![h].deleg = TRUE, ![h].tp = h,
                          ![h].satp = FALSE, ![h].intr = FALSE]
  /\ todo' = [todo EXCEPT ![h] = MainCalls(h)]
  /\ UNCHANGED <<memory, pending, view, proc, running, fsinits>>

Called(h, call) ==
  /\ hart[h].at = "main" /\ todo[h] # <<>>
  /\ Head(todo[h]) = call
  /\ todo' = [todo EXCEPT ![h] = Tail(@)]

\* kvminithart(), trapinithart(), plicinithart(), and scheduler()'s intr_on().
SetRegisters(h, call) ==
  hart' = [hart EXCEPT ![h].satp = @ \/ call = "kvminithart",
                       ![h].stvec = @ \/ call = "trapinithart",
                       ![h].plic = @ \/ call = "plicinithart",
                       ![h].intr = @ \/ call = "scheduler"]

\* One initialisation call of main().
Call(h) ==
  \E call \in {MainCalls(h)[i] : i \in DOMAIN MainCalls(h)} \ {"wait", "fence", "userinit"} :
    /\ Called(h, call)
    /\ SetRegisters(h, call)
    /\ LET stores == {call} \ (HartCalls \union ReleaseLast)
       IN  IF call \in LockingCalls
           THEN /\ memory' = memory \union pending[h] \union ({call} \intersect ReleaseLast)
                /\ pending' = [pending EXCEPT ![h] = stores]
                /\ view' = [view EXCEPT ![h] = memory']
           ELSE /\ pending' = [pending EXCEPT ![h] = @ \union stores]
                /\ UNCHANGED <<memory, view>>
    /\ UNCHANGED <<proc, running, fsinits>>

\* userinit(): the first process; its stores precede the release of p->lock.
Userinit(h) ==
  /\ Called(h, "userinit")
  /\ proc' = [proc EXCEPT ![1] = "forkret"]
  /\ FenceThen(h, {})
  /\ UNCHANGED <<hart, running, fsinits>>

Fence(h) ==
  /\ Called(h, "fence")
  /\ FenceThen(h, {})
  /\ UNCHANGED <<hart, proc, running, fsinits>>

\* A load after the waiting loop is satisfied early.
LoadEarly(h) ==
  /\ hart[h].at = "main" /\ todo[h] # <<>> /\ Head(todo[h]) = "wait"
  /\ view[h] # memory
  /\ view' = [view EXCEPT ![h] = memory]
  /\ UNCHANGED <<hart, todo, memory, pending, proc, running, fsinits>>

\* while(started == 0): the loop's own load finds the flag.
Wait(h) ==
  /\ "started" \in memory
  /\ Called(h, "wait")
  /\ UNCHANGED <<hart, memory, pending, view, proc, running, fsinits>>

---------------------------------------------------------------------------
(* The first processes.  proc[p] is "unused", "asleep", or where p goes on *)
(* when a hart runs it.                                                    *)

Runnable == {p \in Procs : proc[p] \notin {"unused", "asleep"} /\ \A h \in HartIds : running[h] # p}

\* scheduler(), once main() has called it, picks a process (acquire(&p->lock)).
Schedule(h) ==
  /\ hart[h].intr /\ running[h] = NoProc
  /\ \E p \in Runnable : running' = [running EXCEPT ![h] = p]
  /\ FenceThen(h, {})
  /\ UNCHANGED <<hart, todo, proc, fsinits>>

\* The running process goes from one place to another.
Goes(h, from, to) ==
  /\ running[h] # NoProc
  /\ proc[running[h]] = from
  /\ proc' = [proc EXCEPT ![running[h]] = to]

\* What forkret() finds in its static variable first, after releasing p->lock.
FirstDone(h) == "first" \in (memory \union pending[h])

Forkret(h) ==
  /\ IF FirstDone(h)
     THEN Goes(h, "forkret", "user") /\ UNCHANGED fsinits
     ELSE Goes(h, "forkret", "fsinit") /\ fsinits' = fsinits + 1
  /\ FenceThen(h, {})
  /\ UNCHANGED <<hart, todo, running>>

\* fsinit() waits for the disk, with the hart back in its scheduler.
FsinitSleep(h) ==
  /\ Goes(h, "fsinit", "asleep")
  /\ running' = [running EXCEPT ![h] = NoProc]
  /\ FenceThen(h, {})
  /\ UNCHANGED <<hart, todo, fsinits>>

\* The disk's interrupt, on any hart that takes interrupts, wakes the sleeper.
DiskIntr(h) ==
  /\ hart[h].intr /\ hart[h].plic
  /\ \E p \in Procs : proc[p] = "asleep" /\ proc' = [proc EXCEPT ![p] = "woken"]
  /\ FenceThen(h, {})
  /\ UNCHANGED <<hart, todo, running, fsinits>>

\* fsinit() returns and forkret() clears first.
FsinitDone(h) ==
  /\ Goes(h, "woken", "fence")
  /\ pending' = [pending EXCEPT ![h] = @ \union {"fsinit", "first"}]
  /\ UNCHANGED <<hart, todo, memory, view, running, fsinits>>

ForkretFence(h) ==
  /\ Goes(h, "fence", "user")
  /\ FenceThen(h, {})
  /\ UNCHANGED <<hart, todo, running, fsinits>>

\* A process in user space forks the next one.
Fork(h) ==
  /\ running[h] # NoProc /\ proc[running[h]] = "user"
  /\ \E p \in Procs :
       /\ proc[p] = "unused" /\ \A q \in 1..(p - 1) : proc[q] # "unused"
       /\ proc' = [proc EXCEPT ![p] = "forkret"]
  /\ FenceThen(h, {})
  /\ UNCHANGED <<hart, todo, running, fsinits>>

\* A timer interrupt takes the hart from the process (yield()).
Yield(h) ==
  /\ running[h] # NoProc /\ proc[running[h]] # "forkret"
  /\ running' = [running EXCEPT ![h] = NoProc]
  /\ FenceThen(h, {})
  /\ UNCHANGED <<hart, todo, proc, fsinits>>

HartStep(h) == Entry(h) \/ Start(h) \/ Call(h) \/ Userinit(h) \/ Fence(h) \/ Wait(h)

ProcStep(h) == Forkret(h) \/ FsinitSleep(h) \/ FsinitDone(h) \/ ForkretFence(h)

Next ==
  \E h \in HartIds :
    \/ HartStep(h) \/ Commit(h) \/ LoadEarly(h)
    \/ Schedule(h) \/ ProcStep(h) \/ DiskIntr(h) \/ Fork(h) \/ Yield(h)

Spec == Init /\ [][Next]_vars

\* Every hart keeps executing, stores reach memory, the disk answers, and a
\* process is not preempted for ever at the same instruction.
Fairness ==
  /\ \A h \in HartIds : WF_vars(HartStep(h)) /\ WF_vars(Commit(h)) /\ WF_vars(Schedule(h)) /\ WF_vars(DiskIntr(h))
  /\ SF_vars(\E h \in HartIds : ProcStep(h))

FairSpec == Spec /\ Fairness

---------------------------------------------------------------------------
\* No call of main(), and no step of the first processes, meets a part of the
\* kernel that this hart cannot yet see initialised: the order of main(), its
\* two fences and the ones in the locks suffice for every reordering of stores
\* and early load that the memory may do.
InitBeforeUse ==
  \A h \in HartIds :
    /\ todo[h] # <<>> => Uses(Head(todo[h])) \subseteq Sees(h)
    /\ running[h] # NoProc => Uses(proc[running[h]]) \subseteq Sees(h)

\* When a hart turns interrupts on, which only scheduler() does, it can take
\* them: traps are delegated to it, its vector is installed, it is paging, the
\* PLIC forwards to it, its tp names it, and it has a boot stack of its own.
InterruptsAreExpected ==
  \A h \in HartIds :
    hart[h].intr =>
      /\ hart[h].deleg /\ hart[h].stvec /\ hart[h].satp /\ hart[h].plic
      /\ hart[h].tp = h
      /\ hart[h].sp \in 1..NCPU /\ \A g \in HartIds \ {h} : hart[g].sp # hart[h].sp

\* forkret() runs fsinit(), and with it the log's recovery, once: no later
\* process on any hart finds first still set.
RecoversOnce == fsinits <= 1

\* Every hart ends up scheduling, and the first process reaches user space with
\* the file system up.
BootCompletes == <>((\A h \in HartIds : hart[h].intr) /\ proc[1] = "user")

(* Booting as a whole: nothing used before it is initialised, no interrupt *)
(* before it can be taken, one recovery.                                   *)
BootSafe == InitBeforeUse /\ InterruptsAreExpected /\ RecoversOnce
=============================================================================
