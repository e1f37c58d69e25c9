-------------------------------- MODULE Trap --------------------------------
(***************************************************************************)
(* Traps: kernel/trap.c, trampoline.S, kernelvec.S, swtch.S and plic.c.     *)
(* Every hart runs a process or its own scheduler; a trap may arrive at any *)
(* instant at which the hart's privilege and SIE bit allow it, and a        *)
(* process that yields inside a trap may be resumed on another hart.        *)
(*                                                                          *)
(* A pc is a pair <<context, n>>: n is the user instruction a process is    *)
(* at, and -1 stands for "where this context was in the kernel".  Of the    *)
(* registers only tp is kept apart: in the kernel it holds the hart's id,   *)
(* in user mode a value of the process.                                     *)
(***************************************************************************)
EXTENDS Integers

CONSTANTS Harts, Procs, IRQs, None, MaxPc

VARIABLES
  hart,      \* per hart: context it runs, privilege, CSRs, pc and tp
  cpuProc,   \* cpus[i].proc
  at,        \* per process: where it is in usertrap() and usertrapret()
  which,     \* per process: which_dev of its usertrap()
  tf,        \* per process: the trapframe's epc, kernel_hartid and user tp
  kt,        \* per context: kerneltrap()'s frame, or None
  intena,    \* per process: interrupt state its sched() restores
  killed,
  level,     \* per irq: the device wants service
  pending,   \* per irq: the PLIC offers the interrupt
  served,    \* per hart: devintr()'s progress and its irq
  expect,    \* history: the user pc a process must come back to
  doomed     \* history: killed when its latest trap began

vars == <<hart, cpuProc, at, which, tf, kt, intena, killed, level, pending,
          served, expect, doomed>>

Contexts == Procs \cup Harts      \* a hart is the context of its scheduler
Kernel(c) == <<c, -1>>
Idle == [step |-> "idle", irq |-> None]
myproc(h) == IF hart[h].tp \in Harts THEN cpuProc[hart[h].tp] ELSE None

Init ==
  /\ hart = [h \in Harts |-> [run |-> h, priv |-> "S", sie |-> TRUE, spp |-> "S",
                              spie |-> TRUE, sepc |-> None, pc |-> Kernel(h),
                              cause |-> "none", stvec |-> "kernelvec", tp |-> h]]
  /\ cpuProc = [h \in Harts |-> None]
  /\ at = [p \in Procs |-> "return"]             \* context.ra = forkret
  /\ which = [p \in Procs |-> 0]
  /\ tf = [p \in Procs |-> [epc |-> <<p, 0>>, hartid |-> None, tp |-> p]]
  /\ kt = [c \in Contexts |-> None]
  /\ intena = [p \in Procs |-> TRUE]
  /\ killed = [p \in Procs |-> FALSE]
  /\ level = [i \in IRQs |-> FALSE] /\ pending = [i \in IRQs |-> FALSE]
  /\ served = [h \in Harts |-> Idle]
  /\ expect = [p \in Procs |-> 0] /\ doomed = [p \in Procs |-> FALSE]

Runs(h, p) == hart[h].run = p /\ kt[p] = None /\ served[h] = Idle
-----------------------------------------------------------------------------
(* The hardware's part of a trap: save the state in the CSRs, mask.        *)
Trapped(r, cause) ==
  [r EXCEPT !.priv = "S", !.spp = r.priv, !.spie = r.sie, !.sie = FALSE,
            !.sepc = r.pc, !.pc = Kernel(r.run), !.cause = cause]

(* The trap CSRs once nobody reads them any more: whatever other traps     *)
(* leave there.                                                            *)
Clobbered(r) == [r EXCEPT !.spp = "S", !.spie = TRUE, !.sepc = None, !.cause = "none"]

(* The hardware's part of sret.                                            *)
Sret(r) == Clobbered([r EXCEPT !.priv = r.spp, !.sie = r.spie, !.pc = r.sepc])

(* Where devintr() starts for a cause: clockintr() is one step of Ticks.   *)
DevStart(cause) ==
  [step |-> IF cause = "external" THEN "claim" ELSE "done", irq |-> None]

Deliverable(cause) == cause = "external" => \E i \in IRQs : pending[i]

(* uservec: the registers into the trapframe, the hart id out of it.       *)
Uservec(h, p, cause) ==
  /\ Runs(h, p) /\ hart[h].priv = "U" /\ hart[h].stvec = "uservec"
  /\ Deliverable(cause)
  /\ tf' = [tf EXCEPT ![p].tp = hart[h].tp, ![p].hartid = None]
  /\ hart' = [hart EXCEPT ![h] = [Trapped(@, cause) EXCEPT !.tp = tf[p].hartid]]
  /\ at' = [at EXCEPT ![p] = "usertrap"]
  /\ expect' = [expect EXCEPT ![p] = IF cause = "syscall" THEN (@ + 1) % MaxPc ELSE @]
  /\ doomed' = [doomed EXCEPT ![p] = killed[p]]
  /\ UNCHANGED <<cpuProc, which, kt, intena, killed, level, pending, served>>

(* swtch() to the scheduler, which turns interrupts on again;  *)
(* r is the state of the hart that calls it.                               *)
SwitchAway(h, r) ==
  /\ hart' = [hart EXCEPT ![h] = [Clobbered(r) EXCEPT !.run = h, !.sie = TRUE,
                                                      !.pc = Kernel(h)]]
  /\ cpuProc' = [cpuProc EXCEPT ![h] = None]

Exit(h, p, r) == at' = [at EXCEPT ![p] = "gone"] /\ SwitchAway(h, r)

(* usertrap() up to syscall(), devintr() or setkilled().                   *)
Usertrap(h) == LET p == myproc(h) IN
  /\ p \in Procs /\ Runs(h, p) /\ at[p] = "usertrap"
  /\ which' = [which EXCEPT ![p] = 0]
  /\ LET r == [hart[h] EXCEPT !.stvec = "kernelvec"]
         saved == [tf EXCEPT ![p].epc = r.sepc]
     IN CASE r.cause = "syscall" /\ killed[p] ->
               /\ tf' = saved /\ Exit(h, p, r)
               /\ UNCHANGED <<killed, served>>
          [] r.cause = "syscall" /\ ~killed[p] ->
               /\ tf' = [tf EXCEPT ![p].epc = <<r.sepc[1], (r.sepc[2] + 1) % MaxPc>>]
               /\ hart' = [hart EXCEPT ![h] = [r EXCEPT !.sie = TRUE]]
               /\ at' = [at EXCEPT ![p] = "syscall"]
               /\ UNCHANGED <<cpuProc, killed, served>>
          [] r.cause \in {"timer", "external"} ->
               /\ tf' = saved /\ hart' = [hart EXCEPT ![h] = r]
               /\ at' = [at EXCEPT ![p] = "devintr"]
               /\ served' = [served EXCEPT ![h] = DevStart(r.cause)]
               /\ UNCHANGED <<cpuProc, killed>>
          [] r.cause = "fault" ->
               /\ tf' = saved /\ hart' = [hart EXCEPT ![h] = r]
               /\ killed' = [killed EXCEPT ![p] = TRUE]
               /\ at' = [at EXCEPT ![p] = "checkKilled"]
               /\ UNCHANGED <<cpuProc, served>>
  /\ UNCHANGED <<kt, intena, level, pending, expect, doomed>>

Syscall(h, p) ==
  /\ Runs(h, p) /\ at[p] = "syscall"
  /\ at' = [at EXCEPT ![p] = "checkKilled"]
  /\ UNCHANGED <<hart, cpuProc, which, tf, kt, intena, killed, level, pending,
                 served, expect, doomed>>

(* sched() out of a system call that sleeps.                               *)
SyscallSleeps(h, p) ==
  /\ Runs(h, p) /\ at[p] = "syscall"
  /\ intena' = [intena EXCEPT ![p] = hart[h].sie]
  /\ SwitchAway(h, hart[h])
  /\ UNCHANGED <<at, which, tf, kt, killed, level, pending, served, expect, doomed>>

(* usertrap()'s devintr() has returned.                                    *)
UserDevDone(h, p) ==
  /\ hart[h].run = p /\ kt[p] = None /\ at[p] = "devintr" /\ served[h].step = "done"
  /\ which' = [which EXCEPT ![p] = IF hart[h].cause = "timer" THEN 2 ELSE 1]
  /\ served' = [served EXCEPT ![h] = Idle]
  /\ at' = [at EXCEPT ![p] = "checkKilled"]
  /\ UNCHANGED <<hart, cpuProc, tf, kt, intena, killed, level, pending, expect, doomed>>

(* The tail of usertrap(): exit if killed, yield() after a timer.          *)
CheckKilled(h, p) ==
  /\ Runs(h, p) /\ at[p] = "checkKilled"
  /\ IF killed[p] THEN Exit(h, p, hart[h]) /\ UNCHANGED intena
     ELSE /\ at' = [at EXCEPT ![p] = "return"]
          /\ IF which[p] = 2
             THEN SwitchAway(h, hart[h]) /\ intena' = [intena EXCEPT ![p] = hart[h].sie]
             ELSE UNCHANGED <<hart, cpuProc, intena>>
  /\ which' = [which EXCEPT ![p] = 0]
  /\ UNCHANGED <<tf, kt, killed, level, pending, served, expect, doomed>>

(* usertrapret(): interrupts go off before the vector changes.             *)
IntrOff(h, p) ==
  /\ Runs(h, p) /\ at[p] = "return"
  /\ hart' = [hart EXCEPT ![h].sie = FALSE]
  /\ at' = [at EXCEPT ![p] = "usertrapret"]
  /\ UNCHANGED <<cpuProc, which, tf, kt, intena, killed, level, pending, served,
                 expect, doomed>>

(* userret: the user's registers out of the trapframe, sret.               *)
Userret(r, p) == Sret([r EXCEPT !.tp = tf[p].tp])

(* The rest of usertrapret(), and userret.                                 *)
Usertrapret(h) == LET p == myproc(h) IN
  /\ p \in Procs /\ Runs(h, p) /\ at[p] = "usertrapret"
  /\ tf' = [tf EXCEPT ![p].hartid = hart[h].tp]
  /\ hart' = [hart EXCEPT ![h] =
                Userret([@ EXCEPT !.stvec = "uservec", !.spp = "U", !.spie = TRUE,
                                  !.sepc = tf[p].epc], p)]
  /\ at' = [at EXCEPT ![p] = "user"]
  /\ UNCHANGED <<cpuProc, which, kt, intena, killed, level, pending, served,
                 expect, doomed>>
-----------------------------------------------------------------------------
(* kernelvec keeps the registers on the kernel stack, of which only tp     *)
(* matters here, and the head of kerneltrap() keeps sepc and sstatus.      *)
Kerneltrap(r) == [tp |-> r.tp, sepc |-> r.sepc, spp |-> r.spp, spie |-> r.spie,
                  yielded |-> FALSE]

Kernelvec(h, cause) == LET c == hart[h].run
                           r == Trapped(hart[h], cause) IN
  /\ hart[h].priv = "S" /\ hart[h].sie /\ hart[h].stvec = "kernelvec"
  /\ Deliverable(cause)
  /\ hart' = [hart EXCEPT ![h] = r]
  /\ kt' = [kt EXCEPT ![c] = Kerneltrap(r)]
  /\ served' = [served EXCEPT ![h] = DevStart(cause)]
  /\ UNCHANGED <<cpuProc, at, which, tf, intena, killed, level, pending, expect, doomed>>

(* A timer interrupt makes kerneltrap() yield, unless the scheduler runs.  *)
KernelYield(h) == LET p == myproc(h) IN
  /\ served[h].step = "done" /\ hart[h].cause = "timer"
  /\ p \in Procs /\ hart[h].run = p /\ kt[p] # None
  /\ kt' = [kt EXCEPT ![p].yielded = TRUE]
  /\ served' = [served EXCEPT ![h] = Idle]
  /\ intena' = [intena EXCEPT ![p] = hart[h].sie]
  /\ SwitchAway(h, hart[h])
  /\ UNCHANGED <<at, which, tf, killed, level, pending, expect, doomed>>

KernelTrapMayReturn(h) == LET c == hart[h].run IN
  /\ kt[c] # None
  /\ \/ served[h].step = "done" /\ ~(hart[h].cause = "timer" /\ myproc(h) # None)
     \/ served[h] = Idle /\ kt[c].yielded

(* The tail of kernelvec, "not tp (contains hartid), in case we moved CPUs". *)
KernelvecReturn(r, frame) == Sret(r)

Mut_KernelTrapRet(h) == LET c == hart[h].run IN
  /\ KernelTrapMayReturn(h)
  /\ hart' = [hart EXCEPT ![h] = KernelvecReturn(@, kt[c])]
  /\ kt' = [kt EXCEPT ![c] = None] /\ served' = [served EXCEPT ![h] = Idle]
  /\ UNCHANGED <<cpuProc, at, which, tf, intena, killed, level, pending, expect, doomed>>
(* The end of kerneltrap(): w_sepc(), w_sstatus(), return to kernelvec.    *)
KernelTrapRet(h) == LET c == hart[h].run IN
  /\ KernelTrapMayReturn(h)
  /\ hart' = [hart EXCEPT ![h] = KernelvecReturn([@ EXCEPT !.sepc = kt[c].sepc,
                                         !.spp = kt[c].spp, !.spie = kt[c].spie], kt[c])]
  /\ kt' = [kt EXCEPT ![c] = None] /\ served' = [served EXCEPT ![h] = Idle]
  /\ UNCHANGED <<cpuProc, at, which, tf, intena, killed, level, pending, expect, doomed>>

(* scheduler() picks a process and swtch()es to it.                        *)
Resume(h, p) ==
  /\ Runs(h, h) /\ at[p] # "gone" /\ \A g \in Harts : hart[g].run # p
  /\ hart' = [hart EXCEPT ![h] = [@ EXCEPT !.run = p, !.sie = intena[p], !.pc = Kernel(p)]]
  /\ cpuProc' = [cpuProc EXCEPT ![hart[h].tp] = p]
  /\ intena' = [intena EXCEPT ![p] = TRUE]
  /\ UNCHANGED <<at, which, tf, kt, killed, level, pending, served, expect, doomed>>
-----------------------------------------------------------------------------
(* The PLIC passes on at most one interrupt of a source until it is told   *)
(* that the source has been served (external).                             *)
InService(i) == \E h \in Harts : served[h].irq = i

(* A device asserts its interrupt line (external).                         *)
DeviceRaises(i) ==
  /\ ~level[i]
  /\ level' = [level EXCEPT ![i] = TRUE]
  /\ pending' = [pending EXCEPT ![i] = ~InService(i)]
  /\ UNCHANGED <<hart, cpuProc, at, which, tf, kt, intena, killed, served, expect, doomed>>

(* plic_claim(): another hart may have been faster, and the answer is 0.   *)
PlicClaim(h) ==
  /\ served[h].step = "claim"
  /\ IF \E i \in IRQs : pending[i]
     THEN \E i \in IRQs :
            /\ pending[i]
            /\ pending' = [pending EXCEPT ![i] = FALSE]
            /\ served' = [served EXCEPT ![h] = [step |-> "serve", irq |-> i]]
     ELSE served' = [served EXCEPT ![h].step = "done"] /\ UNCHANGED pending
  /\ UNCHANGED <<hart, cpuProc, at, which, tf, kt, intena, killed, level, expect, doomed>>

(* uartintr() or virtio_disk_intr(): the device's request is acknowledged. *)
Serve(h) ==
  /\ served[h].step = "serve"
  /\ level' = [level EXCEPT ![served[h].irq] = FALSE]
  /\ served' = [served EXCEPT ![h].step = "complete"]
  /\ UNCHANGED <<hart, cpuProc, at, which, tf, kt, intena, killed, pending, expect, doomed>>

(* plic_complete(): the line is sampled again.                             *)
PlicComplete(h) ==
  /\ served[h].step = "complete"
  /\ pending' = [pending EXCEPT ![served[h].irq] = level[served[h].irq]]
  /\ served' = [served EXCEPT ![h] = [step |-> "done", irq |-> None]]
  /\ UNCHANGED <<hart, cpuProc, at, which, tf, kt, intena, killed, level, expect, doomed>>

Kill(p) ==
  /\ at[p] # "gone" /\ ~killed[p]
  /\ killed' = [killed EXCEPT ![p] = TRUE]
  /\ UNCHANGED <<hart, cpuProc, at, which, tf, kt, intena, level, pending, served,
                 expect, doomed>>

Next ==
  \/ \E h \in Harts, p \in Procs :
       \/ \E cause \in {"syscall", "timer", "external", "fault"} : Uservec(h, p, cause)
       \/ Syscall(h, p) \/ SyscallSleeps(h, p) \/ UserDevDone(h, p)
       \/ CheckKilled(h, p) \/ IntrOff(h, p) \/ Resume(h, p)
  \/ \E h \in Harts :
       \/ Usertrap(h) \/ Usertrapret(h) \/ KernelYield(h) \/ KernelTrapRet(h)
       \/ \E cause \in {"timer", "external"} : Kernelvec(h, cause)
       \/ PlicClaim(h) \/ Serve(h) \/ PlicComplete(h)
  \/ \E i \in IRQs : DeviceRaises(i)
  \/ \E p \in Procs : Kill(p)

Spec == Init /\ [][Next]_vars
-----------------------------------------------------------------------------
(* Whenever a trap can be taken, stvec points at the code that can take    *)
(* it: uservec in user mode, kernelvec in the kernel with interrupts on.   *)
(* usertrapret() and usertrap() change stvec only with interrupts off.     *)
TrapsReachTheirVector ==
  \A h \in Harts :
    /\ hart[h].priv = "U" => hart[h].stvec = "uservec"
    /\ hart[h].priv = "S" /\ hart[h].sie => hart[h].stvec = "kernelvec"

(* A context continues where it was interrupted: a process in user mode is *)
(* at the instruction it trapped at (the next one after a system call), a  *)
(* context in the kernel at its own kernel pc, although other contexts     *)
(* trap on the hart between the trap and its sret (kerneltrap() saves sepc *)
(* and sstatus across yield()).                                            *)
ResumesWhereTrapped ==
  \A h \in Harts : LET c == hart[h].run IN
    IF hart[h].priv = "U"
    THEN c \in Procs /\ at[c] = "user" /\ hart[h].pc = <<c, expect[c]>> /\ hart[h].tp = c
    ELSE hart[h].pc = Kernel(c)

(* In the kernel tp is the id of the hart that executes and myproc() is    *)
(* the process that executes, also after it has moved to another hart      *)
(* inside a trap (kernelvec does not restore tp, usertrapret() stores it). *)
MyprocIsRunning ==
  \A h \in Harts :
    hart[h].priv = "S" =>
      /\ hart[h].tp = h
      /\ cpuProc[h] = IF hart[h].run \in Procs THEN hart[h].run ELSE None

(* No device interrupt is lost: a device that wants service is offered by  *)
(* the PLIC or is being served by devintr() on some hart.                  *)
NoInterruptLost ==
  \A i \in IRQs : level[i] => pending[i] \/ InService(i)

(* A process that was killed before it trapped is never back in user mode. *)
KilledNeverReturns ==
  \A p \in Procs : at[p] = "user" => ~doomed[p]

(* The way into and out of the kernel as a whole: the right vector, the    *)
(* right place, the right process, no interrupt lost and no killed process *)
(* let go.                                                                 *)
TrapsSafe ==
  /\ TrapsReachTheirVector
  /\ ResumesWhereTrapped
  /\ MyprocIsRunning
  /\ NoInterruptLost
  /\ KilledNeverReturns
=============================================================================
