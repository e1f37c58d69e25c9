------------------------------- MODULE MCLive -------------------------------
(***************************************************************************)
(* What must eventually happen when the kernel boots, schedules and        *)
(* panics.  A behaviour is a behaviour of one of these, "part", chosen     *)
(* initially; the variables of the others keep their initial values.       *)
(***************************************************************************)
EXTENDS Sched

CONSTANTS Harts, Nobody

VARIABLE part

VARIABLES boot_hart, boot_todo, boot_memory, boot_pending, boot_view, boot_proc,
  boot_running, boot_fsinits
B == INSTANCE Boot WITH NCPU <- 2, NProcs <- 2, hart <- boot_hart, todo <- boot_todo,
  memory <- boot_memory, pending <- boot_pending, view <- boot_view, proc <- boot_proc,
  running <- boot_running, fsinits <- boot_fsinits
BVars == <<boot_hart, boot_todo, boot_memory, boot_pending, boot_view, boot_proc,
  boot_running, boot_fsinits>>

VARIABLES printf_locking, printf_lock, printf_panicked, printf_pc, printf_took,
  printf_left, printf_dying, printf_messages, printf_out, printf_frozenAt
M == INSTANCE Printf WITH MsgLen <- 2, MaxMessages <- 2, locking <- printf_locking,
  lock <- printf_lock, panicked <- printf_panicked, pc <- printf_pc,
  took <- printf_took, left <- printf_left, dying <- printf_dying,
  messages <- printf_messages, out <- printf_out, frozenAt <- printf_frozenAt
MVars == <<printf_locking, printf_lock, printf_panicked, printf_pc, printf_took,
  printf_left, printf_dying, printf_messages, printf_out, printf_frozenAt>>

---------------------------------------------------------------------------
LiveInit ==
  /\ part \in {"sched", "boot", "printf"}
  /\ Init /\ B!Init /\ M!Init

\* The variables of the parts other than p stay as they are.
In(p) ==
  /\ part = p /\ UNCHANGED part
  /\ p # "sched" => UNCHANGED vars
  /\ p # "boot" => UNCHANGED BVars
  /\ p # "printf" => UNCHANGED MVars

allVars == <<part, vars, BVars, MVars>>

\* The harts stop after a panic.
Stopped == part = "printf" /\ UNCHANGED allVars

LiveNext ==
  \/ In("sched") /\ Next
  \/ In("boot") /\ B!Next
  \/ In("printf") /\ M!Next
  \/ Stopped

\* Each part's Fairness, of its own steps.
LiveFairness ==
  /\ \A c \in CPUs : /\ SF_vars(part = "sched" /\ Scheduler(c))
                     /\ SF_vars(part = "sched" /\ \E p \in Procs : Timer(c, p))
  /\ \A p \in Procs : /\ SF_vars(part = "sched" /\ \E c \in CPUs : Switch(c, p))
                      /\ SF_vars(part = "sched" /\ \E c \in CPUs : Call(c, p))
  /\ \A h \in B!HartIds : /\ WF_BVars(part = "boot" /\ B!HartStep(h))
                          /\ WF_BVars(part = "boot" /\ B!Commit(h))
                          /\ WF_BVars(part = "boot" /\ B!Schedule(h))
                          /\ WF_BVars(part = "boot" /\ B!DiskIntr(h))
  /\ SF_BVars(part = "boot" /\ \E h \in B!HartIds : B!ProcStep(h))
  /\ \A h \in Harts : WF_MVars(part = "printf" /\ M!HartStep(h))

LiveSpec == LiveInit /\ [][LiveNext]_allVars /\ LiveFairness

---------------------------------------------------------------------------
(* The properties of the parts, stated and explained in their modules. *)

\* scheduler() and wakeup(): a runnable process runs, and a sleeper is woken.
SchedProgress == (part = "sched" => RunnableRuns) /\ (part = "sched" => SleeperIsWoken)

\* main(), scheduler(), forkret(): initialised before use, and user space is reached.
BootCorrect == part = "boot" => []B!BootSafe /\ B!BootCompletes

\* printf() and panic(): messages stay whole, and a panic is reported.
PrintfCorrect == part = "printf" => []M!PrintfSafe /\ M!PanicIsReported
=============================================================================
