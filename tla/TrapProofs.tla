----------------------------- MODULE TrapProofs -----------------------------
(***************************************************************************)
(* Proofs about Trap: the way into and out of the kernel is right for any  *)
(* number of harts, processes and interrupt sources.                       *)
(***************************************************************************)
EXTENDS Trap, TLAPS

\* usertrap() and usertrapret() with interrupts off; where a process can be
\* interrupted, or wait for a hart.
Masked == {"usertrap", "devintr", "usertrapret"}
Parked == {"syscall", "checkKilled", "return"}

HartType ==
  [run : Contexts, priv : {"U", "S"}, sie : BOOLEAN, spp : {"U", "S"}, spie : BOOLEAN,
   sepc : (Contexts \X Int) \union {None}, pc : Contexts \X Int,
   cause : {"none", "syscall", "timer", "external", "fault"},
   stvec : {"uservec", "kernelvec"}, tp : Contexts]

FrameType ==
  [tp : Contexts, sepc : Contexts \X Int, spp : {"U", "S"}, spie : BOOLEAN, yielded : BOOLEAN]

\* The names of the model are apart.
TrapConstants ==
  /\ Harts \cap Procs = {} /\ None \notin Harts \union Procs \union IRQs /\ None \notin FrameType
  /\ MaxPc \in Nat \ {0}

ServedType ==
  [step : {"idle", "claim", "serve", "complete", "done"}, irq : IRQs \union {None}]

TfType == [epc : Contexts \X Int, hartid : Harts \union {None}, tp : Contexts]

TypeInv ==
  /\ hart \in [Harts -> HartType]
  /\ cpuProc \in [Harts -> Procs \union {None}]
  /\ at \in [Procs -> Masked \union Parked \union {"user", "gone"}]
  /\ which \in [Procs -> 0..2]
  /\ tf \in [Procs -> TfType]
  /\ kt \in [Contexts -> FrameType \union {None}]
  /\ intena \in [Procs -> BOOLEAN] /\ killed \in [Procs -> BOOLEAN]
  /\ level \in [IRQs -> BOOLEAN] /\ pending \in [IRQs -> BOOLEAN]
  /\ served \in [Harts -> ServedType]
  /\ expect \in [Procs -> Int] /\ doomed \in [Procs -> BOOLEAN]

\* In user mode everything is set for the next trap.
UserOK(h) == LET c == hart[h].run IN
  hart[h].priv = "U" =>
    /\ c \in Procs /\ at[c] = "user" /\ kt[c] = None
    /\ hart[h].stvec = "uservec" /\ hart[h].pc = <<c, expect[c]>> /\ hart[h].tp = c
    /\ tf[c].hartid = h /\ cpuProc[h] = c /\ served[h] = Idle

\* In the kernel the vector is kernelvec, except at the start of usertrap().
KernelOK(h) == LET c == hart[h].run IN
  hart[h].priv = "S" =>
    /\ hart[h].tp = h /\ hart[h].pc = Kernel(c)
    /\ cpuProc[h] = IF c \in Procs THEN c ELSE None
    /\ hart[h].stvec = "kernelvec" \/ (c \in Procs /\ at[c] = "usertrap")
    /\ c \in Procs => at[c] \notin {"user", "gone"}
    /\ c \in Procs /\ at[c] \in Masked => ~hart[h].sie
    /\ kt[c] # None => ~hart[h].sie /\ (kt[c].yielded <=> served[h] = Idle)
    /\ kt[c] = None /\ (c \in Procs => at[c] # "devintr") => served[h] = Idle

\* uservec has left in the CSRs what usertrap() reads.
CauseOK(h) == LET c == hart[h].run IN
  c \in Procs /\ at[c] = "usertrap" =>
    /\ hart[h].cause # "none"
    /\ \E n \in Int : /\ hart[h].sepc = <<c, n>>
                      /\ expect[c] = IF hart[h].cause = "syscall" THEN (n + 1) % MaxPc ELSE n

\* A process runs on h only while h's scheduler is outside any trap.
SchedulerOK(h) == hart[h].run # h => kt[h] = None

RunOK ==
  /\ \A h \in Harts : hart[h].run \in Procs \union {h}
  /\ \A g, h \in Harts : hart[g].run = hart[h].run => g = h

ProcOK(p) ==
  /\ tf[p].tp = p
  /\ at[p] \in Parked \union {"devintr", "usertrapret"} => tf[p].epc = <<p, expect[p]>>
  /\ at[p] \in {"usertrap", "devintr", "checkKilled"} /\ doomed[p] => killed[p]
  /\ at[p] \in {"syscall", "return", "usertrapret", "user"} => ~doomed[p]
  /\ kt[p] # None => at[p] \in Parked
  /\ (\A h \in Harts : hart[h].run # p) =>
       at[p] \in Parked \union {"gone"} /\ (kt[p] # None => kt[p].yielded /\ ~intena[p])

\* kerneltrap() goes back to where its context was, in the kernel.
FrameOK(c) ==
  kt[c] # None => kt[c].sepc = Kernel(c) /\ kt[c].spp = "S" /\ kt[c].spie

ServedOK(h) == served[h].irq # None <=> served[h].step \in {"serve", "complete"}

IInv ==
  /\ TypeInv /\ RunOK
  /\ \A h \in Harts : UserOK(h) /\ KernelOK(h) /\ CauseOK(h) /\ SchedulerOK(h) /\ ServedOK(h)
  /\ \A p \in Procs : ProcOK(p)
  /\ \A c \in Contexts : FrameOK(c)
  /\ NoInterruptLost

-----------------------------------------------------------------------------
\* A context is either a process or a hart, and None is neither.
LEMMA Distinct ==
  ASSUME TrapConstants
  PROVE  /\ \A h \in Harts : h \in Contexts /\ h \notin Procs /\ h # None
         /\ \A p \in Procs : p \in Contexts /\ p \notin Harts /\ p # None
         /\ \A i \in IRQs : i # None
         /\ None \notin Contexts
  BY DEF TrapConstants, Contexts

\* Where a context is in the kernel.
LEMMA KernelPc ==
  ASSUME NEW c \in Contexts
  PROVE  Kernel(c) \in Contexts \X Int
  BY DEF Kernel

\* The fields of a hart.
LEMMA HartFields ==
  ASSUME NEW r \in HartType
  PROVE  /\ r.run \in Contexts /\ r.priv \in {"U", "S"} /\ r.sie \in BOOLEAN
         /\ r.spp \in {"U", "S"} /\ r.spie \in BOOLEAN
         /\ r.sepc \in (Contexts \X Int) \union {None} /\ r.pc \in Contexts \X Int
         /\ r.cause \in {"none", "syscall", "timer", "external", "fault"}
         /\ r.stvec \in {"uservec", "kernelvec"} /\ r.tp \in Contexts
  BY DEF HartType

\* What the hardware leaves on a hart at a trap ...
LEMMA TrappedFields ==
  ASSUME NEW r \in HartType, NEW cause \in {"syscall", "timer", "external", "fault"}
  PROVE  /\ Trapped(r, cause) \in HartType
         /\ Trapped(r, cause).run = r.run /\ Trapped(r, cause).priv = "S" /\ ~Trapped(r, cause).sie
         /\ Trapped(r, cause).spp = r.priv /\ Trapped(r, cause).spie = r.sie
         /\ Trapped(r, cause).sepc = r.pc /\ Trapped(r, cause).pc = Kernel(r.run)
         /\ Trapped(r, cause).cause = cause
         /\ Trapped(r, cause).stvec = r.stvec /\ Trapped(r, cause).tp = r.tp
<1>1. r.run \in Contexts /\ r.pc \in Contexts \X Int /\ Kernel(r.run) \in Contexts \X Int
  BY HartFields, KernelPc
<1> QED
  BY <1>1, ZenonT(30) DEF HartType, Trapped

\* ... when the trap CSRs are of no use any more ...
LEMMA ClobberedFields ==
  ASSUME NEW r \in HartType
  PROVE  /\ Clobbered(r) \in HartType
         /\ Clobbered(r).run = r.run /\ Clobbered(r).priv = r.priv /\ Clobbered(r).sie = r.sie
         /\ Clobbered(r).pc = r.pc
         /\ Clobbered(r).cause = "none" /\ Clobbered(r).stvec = r.stvec /\ Clobbered(r).tp = r.tp
  BY DEF HartType, Clobbered

\* ... and after sret.
LEMMA SretFields ==
  ASSUME NEW r \in HartType, r.sepc \in Contexts \X Int
  PROVE  /\ Sret(r) \in HartType
         /\ Sret(r).run = r.run /\ Sret(r).priv = r.spp /\ Sret(r).sie = r.spie
         /\ Sret(r).pc = r.sepc
         /\ Sret(r).cause = "none" /\ Sret(r).stvec = r.stvec /\ Sret(r).tp = r.tp
<1> DEFINE u == [r EXCEPT !.priv = r.spp, !.sie = r.spie, !.pc = r.sepc]
<1>1. /\ u \in HartType
      /\ u.run = r.run /\ u.priv = r.spp /\ u.sie = r.spie /\ u.pc = r.sepc
      /\ u.stvec = r.stvec /\ u.tp = r.tp
  BY DEF HartType
<1>2. Sret(r) = Clobbered(u)
  BY DEF Sret
<1> HIDE DEF u
<1> QED
  BY <1>1, <1>2, ClobberedFields

\* What swtch() to the scheduler leaves on a hart.
Switched(h, r) == [Clobbered(r) EXCEPT !.run = h, !.sie = TRUE, !.pc = Kernel(h)]

\* A hart that is back in its scheduler.
LEMMA SwitchedFields ==
  ASSUME NEW r \in HartType, NEW h \in Harts
  PROVE  /\ Switched(h, r) \in HartType
         /\ Switched(h, r).run = h /\ Switched(h, r).priv = r.priv /\ Switched(h, r).sie
         /\ Switched(h, r).pc = Kernel(h)
         /\ Switched(h, r).cause = "none" /\ Switched(h, r).stvec = r.stvec /\ Switched(h, r).tp = r.tp
<1> DEFINE u == Clobbered(r)
<1>1. /\ u \in HartType /\ u.priv = r.priv
      /\ u.cause = "none" /\ u.stvec = r.stvec /\ u.tp = r.tp
  BY ClobberedFields
<1>2. h \in Contexts /\ Kernel(h) \in Contexts \X Int
  BY KernelPc DEF Contexts
<1>3. Switched(h, r) = [u EXCEPT !.run = h, !.sie = TRUE, !.pc = Kernel(h)]
  BY DEF Switched
<1> HIDE DEF u
<1> QED
  BY <1>1, <1>2, <1>3, ZenonT(30) DEF HartType

\* devintr() at its start, and when it is not running.
LEMMA ServedTypes ==
  /\ Idle \in ServedType /\ Idle.irq = None /\ Idle.step = "idle"
  /\ \A cause \in {"timer", "external"} :
       /\ DevStart(cause) \in ServedType
       /\ DevStart(cause).irq = None /\ DevStart(cause).step \in {"claim", "done"}
  BY DEF Idle, DevStart, ServedType

\* The machine as scheduler() starts on every hart.
LEMMA TypeInit == ASSUME TrapConstants, Init PROVE TypeInv
<1>1. hart \in [Harts -> HartType]
  <2> SUFFICES ASSUME NEW h \in Harts PROVE hart[h] \in HartType
    BY DEF Init
  <2>1. h \in Contexts /\ Kernel(h) \in Contexts \X Int
    BY KernelPc DEF Contexts
  <2> QED
    BY <2>1 DEF Init, HartType
<1>2. tf \in [Procs -> TfType]
  BY DEF Init, TfType, Contexts
<1>3. served \in [Harts -> ServedType]
  BY ServedTypes DEF Init
<1> QED
  BY <1>1, <1>2, <1>3 DEF Init, TypeInv, Masked, Parked

-----------------------------------------------------------------------------
\* A step of hart h, which touches only the context it ran and the one it runs.
Local(h) ==
  /\ \A g \in Harts \ {h} :
       hart'[g] = hart[g] /\ cpuProc'[g] = cpuProc[g] /\ served'[g] = served[g] /\ kt'[g] = kt[g]
  /\ \A p \in Procs \ {hart[h].run, hart'[h].run} :
       /\ at'[p] = at[p] /\ tf'[p] = tf[p] /\ kt'[p] = kt[p] /\ intena'[p] = intena[p]
       /\ expect'[p] = expect[p] /\ doomed'[p] = doomed[p] /\ (killed[p] => killed'[p])
  /\ \/ hart'[h].run \in {hart[h].run, h}
     \/ hart'[h].run \in Procs /\ \A g \in Harts : hart[g].run # hart'[h].run

Here(h) == UserOK(h) /\ KernelOK(h) /\ CauseOK(h) /\ SchedulerOK(h) /\ ServedOK(h)
ContextOK(c) == FrameOK(c) /\ (c \in Procs => ProcOK(c))

\* A local step keeps every context on at most one hart.
LEMMA LocalRun ==
  ASSUME TrapConstants, RunOK, NEW h \in Harts, Local(h)
  PROVE  RunOK'
<1>1. \A g \in Harts \ {h} : hart'[g].run = hart[g].run
  BY DEF Local
<1>2. \A g \in Harts : hart[g].run \in Procs \union {g}
  BY DEF RunOK
<1>3. hart'[h].run \in Procs \union {h}
  BY <1>2 DEF Local
<1>4. \A g \in Harts \ {h} : hart'[h].run # hart[g].run
  BY <1>2, Distinct DEF Local, RunOK
<1> QED
  BY <1>1, <1>2, <1>3, <1>4 DEF RunOK

\* So only the hart that steps and the contexts it leaves and enters need a look.
LEMMA LocalStep ==
  ASSUME TrapConstants, IInv, NEW h \in Harts, TypeInv', Local(h), Here(h)',
         NEW old \in Contexts, NEW new \in Contexts, hart[h].run = old, hart'[h].run = new,
         ContextOK(old)', ContextOK(new)', FrameOK(h)', NoInterruptLost'
  PROVE  IInv'
<1>1. RunOK'
  BY LocalRun DEF IInv
<1>2. ASSUME NEW g \in Harts \ {h} PROVE Here(g)'
  <2>0. Here(g)
    BY DEF IInv, Here
  <2>1. hart'[g] = hart[g] /\ cpuProc'[g] = cpuProc[g] /\ served'[g] = served[g]
    BY DEF Local
  <2> DEFINE c == hart[g].run
  <2>2. c # hart[h].run /\ c # hart'[h].run
    <3>1. c # hart[h].run
      BY DEF IInv, RunOK
    <3>2. hart'[g].run # hart'[h].run
      BY <1>1 DEF RunOK
    <3> QED
      BY <2>1, <3>1, <3>2
  <2>3. c \in Procs => at'[c] = at[c] /\ tf'[c] = tf[c] /\ expect'[c] = expect[c]
    BY <2>2 DEF Local
  <2>4. kt'[c] = kt[c]
    <3>1. c \in Procs \/ c = g
      BY DEF IInv, RunOK
    <3> QED
      BY <2>2, <3>1 DEF Local
  <2>5. hart'[g].run = c
    BY <2>1
  <2>6. c = hart[g].run
    OBVIOUS
  <2> HIDE DEF c
  <2>7. UserOK(g)'
    BY <2>0, <2>1, <2>3, <2>4, <2>5, <2>6 DEF Here, UserOK
  <2>8. KernelOK(g)'
    BY <2>0, <2>1, <2>3, <2>4, <2>5, <2>6 DEF Here, KernelOK
  <2>9. CauseOK(g)'
    BY <2>0, <2>1, <2>3, <2>5, <2>6 DEF Here, CauseOK
  <2>10. ServedOK(g)'
    BY <2>0, <2>1 DEF Here, ServedOK
  <2>11. SchedulerOK(g)'
    BY <2>0, <2>1 DEF Here, SchedulerOK, Local
  <2> QED
    BY <2>7, <2>8, <2>9, <2>10, <2>11 DEF Here
<1>3. ASSUME NEW p \in Procs PROVE ProcOK(p)'
  <2>1. CASE p \in {old, new}
    BY <2>1 DEF ContextOK
  <2>2. CASE p \notin {old, new}
    <3>1. ProcOK(p)
      BY DEF IInv
    <3>2. /\ at'[p] = at[p] /\ tf'[p] = tf[p] /\ kt'[p] = kt[p] /\ intena'[p] = intena[p]
          /\ expect'[p] = expect[p] /\ doomed'[p] = doomed[p] /\ (killed[p] => killed'[p])
      BY <2>2 DEF Local
    <3>3. (\A g \in Harts : hart'[g].run # p) => (\A g \in Harts : hart[g].run # p)
      BY <2>2 DEF Local
    <3> QED
      BY <3>1, <3>2, <3>3 DEF ProcOK
  <2> QED
    BY <2>1, <2>2
<1>4. ASSUME NEW c \in Contexts PROVE FrameOK(c)'
  <2>1. CASE c \in {old, new, h}
    BY <2>1 DEF ContextOK
  <2>2. CASE c \notin {old, new, h}
    <3>1. FrameOK(c)
      BY DEF IInv
    <3>2. kt'[c] = kt[c]
      BY <2>2 DEF Local, Contexts
    <3> QED
      BY <3>1, <3>2 DEF FrameOK
  <2> QED
    BY <2>1, <2>2
<1>5. \A g \in Harts : Here(g)'
  BY <1>2
<1> QED
  BY <1>1, <1>3, <1>4, <1>5 DEF IInv, Here

\* An interrupt in service stays so.
LEMMA LinesKept ==
  ASSUME NoInterruptLost, TrapConstants, NEW h \in Harts, level' = level, pending' = pending,
         served[h].irq = None, \A g \in Harts \ {h} : served'[g] = served[g]
  PROVE  NoInterruptLost'
<1>1. \A i \in IRQs : InService(i) => InService(i)'
  BY Distinct DEF InService
<1> QED
  BY <1>1 DEF NoInterruptLost

\* A step of process p on hart h: the rest of the machine is as it was.
OthersSame(h, p) ==
  /\ \A g \in Harts \ {h} : hart'[g] = hart[g] /\ cpuProc'[g] = cpuProc[g] /\ served'[g] = served[g]
  /\ \A g \in Harts : kt'[g] = kt[g]
  /\ \A q \in Procs \ {p} :
       /\ at'[q] = at[q] /\ tf'[q] = tf[q] /\ kt'[q] = kt[q] /\ intena'[q] = intena[q]
       /\ expect'[q] = expect[q] /\ doomed'[q] = doomed[q] /\ (killed[q] => killed'[q])

\* What the invariant says about one hart.
LEMMA Before ==
  ASSUME IInv, NEW h \in Harts
  PROVE  TypeInv /\ hart[h] \in HartType /\ Here(h) /\ FrameOK(h) /\ NoInterruptLost
  BY DEF IInv, TypeInv, Here, Contexts

\* p goes on on h ...
LEMMA Stays ==
  ASSUME TrapConstants, IInv, NEW h \in Harts, NEW p \in Procs, hart[h].run = p, hart'[h].run = p,
         TypeInv', OthersSame(h, p), UserOK(h)', KernelOK(h)', CauseOK(h)', ServedOK(h)',
         ProcOK(p)', FrameOK(p)', NoInterruptLost'
  PROVE  IInv'
<1>1. Local(h)
  BY DEF OthersSame, Local
<1>2. p \in Contexts /\ ContextOK(p)'
  BY DEF Contexts, ContextOK
<1>3. FrameOK(h)' /\ SchedulerOK(h)'
  <2>1. kt'[h] = kt[h] /\ p # h
    BY Distinct DEF OthersSame
  <2> QED
    BY <2>1, Before DEF FrameOK, SchedulerOK, Here
<1>4. Here(h)'
  BY <1>3 DEF Here
<1> QED
  BY <1>1, <1>2, <1>3, <1>4, LocalStep

\* ... or leaves it to the scheduler.
LEMMA Leaves ==
  ASSUME TrapConstants, IInv, NEW h \in Harts, NEW p \in Procs, hart[h].run = p,
         NEW r \in HartType, r.priv = "S", r.tp = h, r.stvec = "kernelvec", SwitchAway(h, r),
         TypeInv', OthersSame(h, p), served'[h] = Idle, ProcOK(p)', FrameOK(p)', NoInterruptLost'
  PROVE  IInv'
<1>1. /\ hart'[h] = Switched(h, r) /\ cpuProc'[h] = None
  BY Before DEF SwitchAway, Switched, TypeInv
<1>2. /\ hart'[h].run = h /\ hart'[h].priv = "S" /\ hart'[h].sie /\ hart'[h].pc = Kernel(h)
      /\ hart'[h].stvec = "kernelvec" /\ hart'[h].tp = h
  <2>1. /\ Switched(h, r).run = h /\ Switched(h, r).priv = r.priv /\ Switched(h, r).sie
        /\ Switched(h, r).pc = Kernel(h) /\ Switched(h, r).stvec = r.stvec /\ Switched(h, r).tp = r.tp
    BY SwitchedFields
  <2> QED
    BY <1>1, <2>1
<1>3. kt'[h] = None /\ h \notin Procs /\ p # h
  BY Before, Distinct, SMTT(60) DEF OthersSame, Here, SchedulerOK
<1>4. UserOK(h)' /\ CauseOK(h)' /\ SchedulerOK(h)'
  BY <1>2, <1>3 DEF UserOK, CauseOK, SchedulerOK
<1>5. KernelOK(h)'
  BY <1>1, <1>2, <1>3 DEF KernelOK
<1>6. ServedOK(h)'
  BY ServedTypes DEF ServedOK
<1>7. Here(h)'
  BY <1>4, <1>5, <1>6 DEF Here
<1>8. p \in Contexts /\ ContextOK(p)' /\ h \in Contexts /\ FrameOK(h)' /\ ContextOK(h)'
  BY <1>3 DEF Contexts, ContextOK, FrameOK
<1>9. Local(h)
  BY <1>2 DEF OthersSame, Local
<1> QED
  BY <1>2, <1>7, <1>8, <1>9, LocalStep

\* SwitchAway() keeps the types.
LEMMA LeavesType ==
  ASSUME TypeInv, NEW h \in Harts, NEW r \in HartType, SwitchAway(h, r)
  PROVE  /\ hart' \in [Harts -> HartType] /\ cpuProc' \in [Harts -> Procs \union {None}]
         /\ \A g \in Harts \ {h} : hart'[g] = hart[g] /\ cpuProc'[g] = cpuProc[g]
<1>1. Switched(h, r) \in HartType /\ hart' = [hart EXCEPT ![h] = Switched(h, r)]
  BY SwitchedFields DEF SwitchAway, Switched
<1> QED
  BY <1>1 DEF TypeInv, SwitchAway

-----------------------------------------------------------------------------
\* A trap from user mode.
LEMMA UservecStep ==
  ASSUME TrapConstants, IInv, NEW h \in Harts, NEW p \in Procs,
         NEW cause \in {"syscall", "timer", "external", "fault"}, Uservec(h, p, cause)
  PROVE  IInv'
<1>1. /\ hart[h].run = p /\ hart[h].priv = "U" /\ hart[h].stvec = "uservec" /\ at[p] = "user"
      /\ kt[p] = None /\ served[h] = Idle /\ hart[h].pc = <<p, expect[p]>> /\ hart[h].tp = p
      /\ tf[p].hartid = h /\ cpuProc[h] = p
  BY Before DEF Uservec, Runs, Here, UserOK
<1> DEFINE t == Trapped(hart[h], cause)
           u == [t EXCEPT !.tp = h]
<1>2. /\ t \in HartType /\ t.run = p /\ t.priv = "S" /\ ~t.sie /\ t.pc = Kernel(p)
      /\ t.sepc = <<p, expect[p]>> /\ t.cause = cause /\ t.stvec = "uservec"
  <2>1. hart[h] \in HartType
    BY Before
  <2>2. /\ t \in HartType /\ t.run = hart[h].run /\ t.priv = "S" /\ ~t.sie
        /\ t.pc = Kernel(hart[h].run) /\ t.sepc = hart[h].pc /\ t.cause = cause
        /\ t.stvec = hart[h].stvec
    BY <2>1, TrappedFields
  <2> QED
    BY <1>1, <2>2
<1>3. hart' = [hart EXCEPT ![h] = u]
  BY <1>1 DEF Uservec
<1> HIDE DEF t
<1>4. /\ u \in HartType /\ u.run = p /\ u.priv = "S" /\ ~u.sie /\ u.pc = Kernel(p)
      /\ u.sepc = <<p, expect[p]>> /\ u.cause = cause /\ u.stvec = "uservec" /\ u.tp = h
  BY <1>2 DEF HartType, Contexts
<1> HIDE DEF u
<1>5. hart' \in [Harts -> HartType] /\ hart'[h] = u /\ \A g \in Harts \ {h} : hart'[g] = hart[g]
  BY <1>3, <1>4, Before DEF TypeInv
<1>6. /\ tf' \in [Procs -> TfType] /\ tf'[p].tp = p
      /\ \A q \in Procs \ {p} : tf'[q] = tf[q]
  <2>1. tf \in [Procs -> TfType] /\ tf[p] \in TfType
    BY Before DEF TypeInv
  <2>2. tf' = [tf EXCEPT ![p] = [@ EXCEPT !.tp = p, !.hartid = None]]
    BY <1>1, <2>1 DEF Uservec, TfType
  <2>3. [tf[p] EXCEPT !.tp = p, !.hartid = None] \in TfType
    BY <2>1 DEF TfType, Contexts
  <2>4. [tf[p] EXCEPT !.tp = p, !.hartid = None].tp = p
    BY <2>1 DEF TfType
  <2> QED
    BY <2>1, <2>2, <2>3, <2>4
<1>7. /\ at' \in [Procs -> Masked \union Parked \union {"user", "gone"}] /\ at'[p] = "usertrap"
      /\ doomed' \in [Procs -> BOOLEAN] /\ doomed'[p] = killed[p]
      /\ \A q \in Procs \ {p} : at'[q] = at[q] /\ doomed'[q] = doomed[q] /\ expect'[q] = expect[q]
  BY Before DEF Uservec, TypeInv, Masked
<1>8. /\ expect' \in [Procs -> Int] /\ expect[p] \in Int
      /\ expect'[p] = IF cause = "syscall" THEN (expect[p] + 1) % MaxPc ELSE expect[p]
  BY Before DEF Uservec, TypeInv, TrapConstants
<1>9. UNCHANGED <<cpuProc, which, kt, intena, killed, level, pending, served>>
  BY DEF Uservec
<1>t. TypeInv'
  BY <1>5, <1>6, <1>7, <1>8, <1>9, Before DEF TypeInv
<1>o. OthersSame(h, p)
  BY <1>5, <1>6, <1>7, <1>9 DEF OthersSame
<1>u. UserOK(h)'
  BY <1>4, <1>5 DEF UserOK
<1>k. KernelOK(h)'
  BY <1>1, <1>4, <1>5, <1>7, <1>9 DEF KernelOK, Masked
<1>c. CauseOK(h)'
  BY <1>4, <1>5, <1>7, <1>8 DEF CauseOK
<1>s. ServedOK(h)'
  BY <1>9, Before DEF Here, ServedOK
<1>p. ProcOK(p)'
  BY <1>1, <1>4, <1>5, <1>6, <1>7, <1>9 DEF ProcOK, Parked
<1>f. FrameOK(p)' /\ NoInterruptLost'
  BY <1>1, <1>9, Before DEF FrameOK, NoInterruptLost, InService
<1>r. hart'[h].run = p
  BY <1>4, <1>5
<1> QED
  BY <1>1, <1>r, <1>t, <1>o, <1>u, <1>k, <1>c, <1>s, <1>p, <1>f, Stays

\* A process that is not in user mode.
LEMMA InKernel ==
  ASSUME TrapConstants, IInv, NEW h \in Harts, NEW p \in Procs, hart[h].run = p, at[p] # "user"
  PROVE  /\ hart[h] \in HartType /\ KernelOK(h) /\ hart[h].priv = "S"
         /\ hart[h].tp = h /\ hart[h].pc = Kernel(p) /\ cpuProc[h] = p /\ myproc(h) = p
         /\ at[p] # "usertrap" => hart[h].stvec = "kernelvec"
<1>1. UserOK(h) /\ KernelOK(h) /\ hart[h] \in HartType /\ hart[h].priv \in {"U", "S"}
  BY Before, HartFields DEF Here
<1>2. hart[h].priv = "S" /\ h \in Harts
  BY <1>1 DEF UserOK
<1>3. /\ hart[h].tp = h /\ hart[h].pc = Kernel(p) /\ cpuProc[h] = p
      /\ at[p] # "usertrap" => hart[h].stvec = "kernelvec"
  BY <1>1, <1>2 DEF KernelOK
<1> QED
  BY <1>1, <1>2, <1>3 DEF myproc

\* What the invariant says about one process.
LEMMA ProcBefore ==
  ASSUME IInv, NEW p \in Procs
  PROVE  /\ ProcOK(p) /\ FrameOK(p) /\ tf[p] \in TfType /\ p \in Contexts
         /\ at[p] \in Masked \union Parked \union {"user", "gone"}
  BY DEF IInv, TypeInv, Contexts

\* A system call that returns.
LEMMA SyscallStep ==
  ASSUME TrapConstants, IInv, NEW h \in Harts, NEW p \in Procs, Syscall(h, p)
  PROVE  IInv'
<1>1. hart[h].run = p /\ kt[p] = None /\ served[h] = Idle /\ at[p] = "syscall"
  BY DEF Syscall, Runs
<1>2. /\ KernelOK(h) /\ hart[h].priv = "S" /\ hart[h].tp = h /\ hart[h].pc = Kernel(p)
      /\ cpuProc[h] = p /\ ProcOK(p) /\ FrameOK(p) /\ ServedOK(h) /\ TypeInv /\ NoInterruptLost
  BY <1>1, InKernel, ProcBefore, Before, SMTT(60) DEF Here
<1>3. /\ at' \in [Procs -> Masked \union Parked \union {"user", "gone"}] /\ at'[p] = "checkKilled"
      /\ \A q \in Procs \ {p} : at'[q] = at[q]
  BY <1>2 DEF Syscall, TypeInv, Parked
<1>4. UNCHANGED <<hart, cpuProc, which, tf, kt, intena, killed, level, pending,
                  served, expect, doomed>>
  BY DEF Syscall
<1>t. TypeInv'
  BY <1>2, <1>3, <1>4 DEF TypeInv
<1>i. NoInterruptLost'
  BY <1>2, <1>4 DEF NoInterruptLost, InService
<1>o. OthersSame(h, p)
  BY <1>3, <1>4 DEF OthersSame
<1>u. UserOK(h)' /\ CauseOK(h)'
  BY <1>1, <1>2, <1>3, <1>4 DEF UserOK, CauseOK
<1>k. KernelOK(h)'
  BY <1>1, <1>2, <1>3, <1>4 DEF KernelOK, Masked
<1>s. ServedOK(h)'
  BY <1>2, <1>3, <1>4, ServedTypes DEF ServedOK
<1>p. ProcOK(p)'
  BY <1>1, <1>2, <1>3, <1>4 DEF ProcOK, Parked, Masked
<1>f. FrameOK(p)'
  BY <1>1, <1>2, <1>4 DEF FrameOK
<1> QED
  BY <1>1, <1>3, <1>4, <1>t, <1>o, <1>u, <1>k, <1>s, <1>p, <1>f, <1>i, Stays

\* The end of usertrap()'s devintr().
LEMMA UserDevDoneStep ==
  ASSUME TrapConstants, IInv, NEW h \in Harts, NEW p \in Procs, UserDevDone(h, p)
  PROVE  IInv'
<1>1. hart[h].run = p /\ kt[p] = None /\ served[h].step = "done" /\ at[p] = "devintr"
  BY DEF UserDevDone, Runs
<1>2. /\ KernelOK(h) /\ hart[h].priv = "S" /\ hart[h].tp = h /\ hart[h].pc = Kernel(p)
      /\ cpuProc[h] = p /\ ProcOK(p) /\ FrameOK(p) /\ ServedOK(h) /\ TypeInv /\ NoInterruptLost
  BY <1>1, InKernel, ProcBefore, Before DEF Here
<1>3. /\ at' \in [Procs -> Masked \union Parked \union {"user", "gone"}] /\ at'[p] = "checkKilled"
      /\ \A q \in Procs \ {p} : at'[q] = at[q]
      /\ served' \in [Harts -> ServedType] /\ served'[h] = Idle
      /\ \A g \in Harts \ {h} : served'[g] = served[g]
  BY <1>2, ServedTypes DEF UserDevDone, TypeInv, Parked
<1>4. UNCHANGED <<hart, cpuProc, tf, kt, intena, killed, level, pending, expect, doomed>>
  BY DEF UserDevDone
<1>t. TypeInv'
  <2>1. which' \in [Procs -> 0..2]
    BY <1>2 DEF UserDevDone, TypeInv
  <2> QED
    BY <1>2, <1>3, <1>4, <2>1 DEF TypeInv
<1>i. NoInterruptLost'
  BY <1>1, <1>2, <1>3, <1>4, LinesKept DEF ServedOK
<1>o. OthersSame(h, p)
  BY <1>3, <1>4 DEF OthersSame
<1>u. UserOK(h)' /\ CauseOK(h)'
  BY <1>1, <1>2, <1>3, <1>4 DEF UserOK, CauseOK
<1>k. KernelOK(h)'
  BY <1>1, <1>2, <1>3, <1>4 DEF KernelOK, Masked
<1>s. ServedOK(h)'
  BY <1>2, <1>3, <1>4, ServedTypes DEF ServedOK
<1>p. ProcOK(p)'
  BY <1>1, <1>2, <1>3, <1>4 DEF ProcOK, Parked, Masked
<1>f. FrameOK(p)'
  BY <1>1, <1>2, <1>4 DEF FrameOK
<1> QED
  BY <1>1, <1>3, <1>4, <1>t, <1>o, <1>u, <1>k, <1>s, <1>p, <1>f, <1>i, Stays

\* usertrapret() turns interrupts off.
LEMMA IntrOffStep ==
  ASSUME TrapConstants, IInv, NEW h \in Harts, NEW p \in Procs, IntrOff(h, p)
  PROVE  IInv'
<1>1. hart[h].run = p /\ kt[p] = None /\ served[h] = Idle /\ at[p] = "return"
  BY DEF IntrOff, Runs
<1>2. /\ hart[h] \in HartType /\ KernelOK(h) /\ hart[h].priv = "S" /\ hart[h].tp = h
      /\ hart[h].pc = Kernel(p) /\ hart[h].stvec = "kernelvec"
      /\ cpuProc[h] = p /\ ProcOK(p) /\ FrameOK(p) /\ ServedOK(h) /\ TypeInv /\ NoInterruptLost
  BY <1>1, InKernel, ProcBefore, Before, SMTT(60) DEF Here
<1> DEFINE u == [hart[h] EXCEPT !.sie = FALSE]
<1>3. hart' = [hart EXCEPT ![h] = u]
  BY <1>2 DEF IntrOff, HartType
<1>4. /\ u \in HartType /\ u.run = p /\ u.priv = "S" /\ ~u.sie /\ u.tp = h
      /\ u.pc = Kernel(p) /\ u.stvec = "kernelvec"
  BY <1>1, <1>2 DEF HartType
<1> HIDE DEF u
<1>5. hart' \in [Harts -> HartType] /\ hart'[h] = u /\ \A g \in Harts \ {h} : hart'[g] = hart[g]
  BY <1>2, <1>3, <1>4 DEF TypeInv
<1>6. /\ at' \in [Procs -> Masked \union Parked \union {"user", "gone"}] /\ at'[p] = "usertrapret"
      /\ \A q \in Procs \ {p} : at'[q] = at[q]
  BY <1>2 DEF IntrOff, TypeInv, Masked
<1>7. UNCHANGED <<cpuProc, which, tf, kt, intena, killed, level, pending, served,
                  expect, doomed>>
  BY DEF IntrOff
<1>t. TypeInv'
  BY <1>2, <1>5, <1>6, <1>7 DEF TypeInv
<1>o. OthersSame(h, p)
  BY <1>5, <1>6, <1>7 DEF OthersSame
<1>u. UserOK(h)' /\ CauseOK(h)'
  BY <1>4, <1>5, <1>6 DEF UserOK, CauseOK
<1>k. KernelOK(h)'
  BY <1>1, <1>2, <1>4, <1>5, <1>6, <1>7, SMTT(60) DEF KernelOK
<1>s. ServedOK(h)' /\ FrameOK(p)' /\ NoInterruptLost'
  BY <1>2, <1>7 DEF ServedOK, FrameOK, NoInterruptLost, InService
<1>p. ProcOK(p)'
  BY <1>1, <1>2, <1>4, <1>5, <1>6, <1>7 DEF ProcOK, Parked
<1>r. hart'[h].run = p
  BY <1>4, <1>5
<1> QED
  BY <1>1, <1>r, <1>t, <1>o, <1>u, <1>k, <1>s, <1>p, Stays

\* usertrapret() and userret: back to user mode.
LEMMA UsertrapretStep ==
  ASSUME TrapConstants, IInv, NEW h \in Harts, NEW p \in Procs, hart[h].run = p, Usertrapret(h)
  PROVE  IInv'
<1>0. at[hart[h].run] = "usertrapret"
  BY DEF Usertrapret, Runs
<1>1. hart[h].run = p /\ kt[p] = None /\ served[h] = Idle /\ at[p] = "usertrapret" /\ myproc(h) = p
  BY <1>0, InKernel DEF Usertrapret, Runs
<1>2. /\ hart[h] \in HartType /\ hart[h].priv = "S" /\ hart[h].tp = h /\ cpuProc[h] = p
      /\ ProcOK(p) /\ FrameOK(p) /\ ServedOK(h) /\ TypeInv /\ NoInterruptLost /\ tf[p] \in TfType
  BY <1>1, InKernel, ProcBefore, Before, SMTT(60) DEF Here
<1>3. tf[p].epc = <<p, expect[p]>> /\ tf[p].epc \in Contexts \X Int /\ tf[p].tp = p /\ p \in Contexts
  BY <1>1, <1>2, ProcBefore DEF ProcOK, TfType
<1> DEFINE w == [hart[h] EXCEPT !.stvec = "uservec", !.spp = "U", !.spie = TRUE,
                                !.sepc = tf[p].epc]
           v == [w EXCEPT !.tp = p]
           u == Sret(v)
<1>4. hart' = [hart EXCEPT ![h] = u]
  BY <1>1, <1>2, <1>3 DEF Usertrapret, Userret, TypeInv
<1>5. /\ w \in HartType /\ w.run = p /\ w.spp = "U" /\ w.sepc = <<p, expect[p]>> /\ w.stvec = "uservec"
  BY <1>1, <1>2, <1>3 DEF HartType
<1> HIDE DEF w
<1>6. /\ v \in HartType /\ v.run = p /\ v.spp = "U" /\ v.sepc = <<p, expect[p]>> /\ v.stvec = "uservec"
      /\ v.tp = p
  BY <1>3, <1>5 DEF HartType
<1> HIDE DEF v
<1>7. /\ u \in HartType /\ u.run = p /\ u.priv = "U" /\ u.pc = <<p, expect[p]>>
      /\ u.stvec = "uservec" /\ u.tp = p
  <2>1. v.sepc \in Contexts \X Int
    BY <1>3, <1>6
  <2>2. /\ u \in HartType /\ u.run = v.run /\ u.priv = v.spp /\ u.pc = v.sepc
        /\ u.stvec = v.stvec /\ u.tp = v.tp
    BY <1>6, <2>1, SretFields
  <2> QED
    BY <1>6, <2>2
<1> HIDE DEF u
<1>8. hart' \in [Harts -> HartType] /\ hart'[h] = u /\ \A g \in Harts \ {h} : hart'[g] = hart[g]
  BY <1>2, <1>4, <1>7 DEF TypeInv
<1>9. /\ tf' \in [Procs -> TfType] /\ tf'[p].tp = p /\ tf'[p].hartid = h
      /\ \A q \in Procs \ {p} : tf'[q] = tf[q]
  <2>1. tf' = [tf EXCEPT ![p] = [@ EXCEPT !.hartid = h]]
    BY <1>1, <1>2 DEF Usertrapret, TypeInv
  <2>2. [tf[p] EXCEPT !.hartid = h] \in TfType
    BY <1>2 DEF TfType
  <2>3. [tf[p] EXCEPT !.hartid = h].tp = p /\ [tf[p] EXCEPT !.hartid = h].hartid = h
    BY <1>2, <1>3 DEF TfType
  <2> QED
    BY <1>2, <2>1, <2>2, <2>3 DEF TypeInv
<1>10. /\ at' \in [Procs -> Masked \union Parked \union {"user", "gone"}] /\ at'[p] = "user"
       /\ \A q \in Procs \ {p} : at'[q] = at[q]
  BY <1>1, <1>2 DEF Usertrapret, TypeInv
<1>11. UNCHANGED <<cpuProc, which, kt, intena, killed, level, pending, served,
                   expect, doomed>>
  BY DEF Usertrapret
<1>t. TypeInv'
  BY <1>2, <1>8, <1>9, <1>10, <1>11 DEF TypeInv
<1>s. ServedOK(h)' /\ FrameOK(p)' /\ NoInterruptLost'
  BY <1>2, <1>11 DEF ServedOK, FrameOK, NoInterruptLost, InService
<1>o. OthersSame(h, p)
  BY <1>8, <1>9, <1>10, <1>11 DEF OthersSame
<1>u. UserOK(h)' /\ CauseOK(h)'
  BY <1>1, <1>2, <1>7, <1>8, <1>9, <1>10, <1>11 DEF UserOK, CauseOK
<1>k. KernelOK(h)'
  BY <1>7, <1>8 DEF KernelOK, Masked
<1>p. ProcOK(p)'
  BY <1>1, <1>2, <1>7, <1>8, <1>9, <1>10, <1>11 DEF ProcOK, Parked, Masked
<1>r. hart'[h].run = p
  BY <1>7, <1>8
<1> QED
  BY <1>1, <1>r, <1>t, <1>o, <1>u, <1>k, <1>s, <1>p, Stays

\* What usertrap() finds.
LEMMA UsertrapBefore ==
  ASSUME TrapConstants, IInv, NEW h \in Harts, NEW p \in Procs, hart[h].run = p, Usertrap(h)
  PROVE  /\ kt[p] = None /\ served[h] = Idle /\ at[p] = "usertrap" /\ myproc(h) = p
         /\ cpuProc[h] = p /\ hart[h].cause \in {"syscall", "timer", "external", "fault"}
<1>0. at[hart[h].run] = "usertrap"
  BY DEF Usertrap, Runs
<1>1. kt[p] = None /\ served[h] = Idle /\ at[p] = "usertrap" /\ myproc(h) = p
  BY <1>0, InKernel DEF Usertrap, Runs
<1>2. hart[h] \in HartType /\ cpuProc[h] = p /\ CauseOK(h)
  BY <1>1, InKernel, Before, SMTT(60) DEF Here
<1>3. hart[h].cause \in {"syscall", "timer", "external", "fault"}
  BY <1>1, <1>2, HartFields DEF CauseOK
<1> QED
  BY <1>1, <1>2, <1>3

\* The pc that uservec left in sepc.
LEMMA UsertrapPc ==
  ASSUME TrapConstants, IInv, NEW h \in Harts, NEW p \in Procs, hart[h].run = p, Usertrap(h)
  PROVE  /\ hart[h].sepc \in Contexts \X Int
         /\ hart[h].cause # "syscall" => hart[h].sepc = <<p, expect[p]>>
         /\ hart[h].cause = "syscall" =>
              <<hart[h].sepc[1], (hart[h].sepc[2] + 1) % MaxPc>> = <<p, expect[p]>>
<1>1. at[p] = "usertrap" /\ CauseOK(h)
  BY UsertrapBefore, Before DEF Here
<1>2. PICK n \in Int : /\ hart[h].sepc = <<p, n>>
                       /\ expect[p] = IF hart[h].cause = "syscall" THEN (n + 1) % MaxPc ELSE n
  BY <1>1 DEF CauseOK
<1> QED
  BY <1>2 DEF Contexts

\* w_stvec((uint64)kernelvec)
Vectored(r) == [r EXCEPT !.stvec = "kernelvec"]

\* Hart h once usertrap() has set stvec to kernelvec.
LEMMA UsertrapHart ==
  ASSUME TrapConstants, IInv, NEW h \in Harts, NEW p \in Procs, hart[h].run = p, Usertrap(h)
  PROVE  \E r \in HartType :
           /\ r = Vectored(hart[h]) /\ r.run = p /\ r.priv = "S" /\ ~r.sie /\ r.pc = Kernel(p)
           /\ r.tp = h /\ r.stvec = "kernelvec" /\ r.cause = hart[h].cause /\ r.sepc = hart[h].sepc
<1>1. at[p] = "usertrap"
  BY UsertrapBefore
<1>2. /\ hart[h] \in HartType /\ KernelOK(h) /\ hart[h].priv = "S" /\ hart[h].tp = h
      /\ hart[h].pc = Kernel(p)
  BY <1>1, InKernel
<1>3. ~hart[h].sie
  BY <1>1, <1>2 DEF KernelOK, Masked
<1>4. hart[h].run = p
  OBVIOUS
<1> DEFINE r == Vectored(hart[h])
<1>5. /\ r \in HartType /\ r.run = p /\ r.priv = "S" /\ ~r.sie /\ r.pc = Kernel(p)
      /\ r.tp = h /\ r.stvec = "kernelvec" /\ r.cause = hart[h].cause /\ r.sepc = hart[h].sepc
  BY <1>2, <1>3, <1>4 DEF HartType, Vectored
<1>6. r = Vectored(hart[h])
  OBVIOUS
<1> HIDE DEF r
<1> QED
  BY <1>5, <1>6

\* p->trapframe->epc = r_sepc() touches p's trapframe only.
LEMMA SetEpc ==
  ASSUME TypeInv, NEW p \in Procs, NEW e \in Contexts \X Int, tf' = [tf EXCEPT ![p].epc = e]
  PROVE  /\ tf' \in [Procs -> TfType] /\ tf'[p].epc = e /\ tf'[p].tp = tf[p].tp
         /\ \A q \in Procs \ {p} : tf'[q] = tf[q]
<1>1. tf \in [Procs -> TfType] /\ tf[p] \in TfType
  BY DEF TypeInv
<1>2. tf' = [tf EXCEPT ![p] = [@ EXCEPT !.epc = e]]
  BY <1>1
<1>3. [tf[p] EXCEPT !.epc = e] \in TfType
  BY <1>1 DEF TfType
<1>4. [tf[p] EXCEPT !.epc = e].epc = e /\ [tf[p] EXCEPT !.epc = e].tp = tf[p].tp
  BY <1>1 DEF TfType
<1> QED
  BY <1>1, <1>2, <1>3, <1>4

\* usertrap() of a killed process that makes a system call ...
LEMMA UsertrapExits ==
  ASSUME TrapConstants, IInv, NEW h \in Harts, NEW p \in Procs, hart[h].run = p,
         Usertrap(h), hart[h].cause = "syscall", killed[p]
  PROVE  IInv'
<1> DEFINE r == [hart[h] EXCEPT !.stvec = "kernelvec"]
<1>1. /\ hart[h].run = p /\ kt[p] = None /\ served[h] = Idle /\ at[p] = "usertrap" /\ myproc(h) = p
      /\ cpuProc[h] = p /\ hart[h].sepc \in Contexts \X Int
  BY UsertrapBefore, UsertrapPc, SMTT(60)
<1>2. /\ r \in HartType /\ r.run = p /\ r.priv = "S" /\ ~r.sie /\ r.pc = Kernel(p) /\ r.tp = h
      /\ r.stvec = "kernelvec" /\ r.cause = hart[h].cause /\ r.sepc = hart[h].sepc
  <2>1. r = Vectored(hart[h])
    BY DEF Vectored
  <2> HIDE DEF r
  <2> QED
    BY <2>1, UsertrapHart, SMTT(60)
<1>3. ProcOK(p) /\ FrameOK(p) /\ ServedOK(h) /\ TypeInv /\ NoInterruptLost
  BY ProcBefore, Before DEF Here
<1>4. /\ tf' = [tf EXCEPT ![p].epc = hart[h].sepc] /\ at' = [at EXCEPT ![p] = "gone"]
      /\ SwitchAway(h, r) /\ UNCHANGED <<killed, served>>
  BY <1>1, <1>2 DEF Usertrap, Exit
<1>u0. UNCHANGED <<kt, intena, level, pending, expect, doomed>> /\ which' \in [Procs -> 0..2]
  BY <1>1, <1>3 DEF Usertrap, TypeInv
<1>5. /\ tf' \in [Procs -> TfType] /\ tf'[p].tp = tf[p].tp
      /\ \A q \in Procs \ {p} : tf'[q] = tf[q]
  BY <1>1, <1>3, <1>4, SetEpc
<1>6. /\ at' \in [Procs -> Masked \union Parked \union {"user", "gone"}] /\ at'[p] = "gone"
      /\ \A q \in Procs \ {p} : at'[q] = at[q]
  BY <1>3, <1>4 DEF TypeInv
<1> HIDE DEF r
<1>7. /\ hart' \in [Harts -> HartType] /\ cpuProc' \in [Harts -> Procs \union {None}]
      /\ \A g \in Harts \ {h} : hart'[g] = hart[g] /\ cpuProc'[g] = cpuProc[g]
  BY <1>2, <1>3, <1>4, LeavesType
<1>t. TypeInv'
  BY <1>3, <1>4, <1>u0, <1>5, <1>6, <1>7 DEF TypeInv
<1>o. OthersSame(h, p)
  BY <1>4, <1>u0, <1>5, <1>6, <1>7 DEF OthersSame
<1>p. ProcOK(p)'
  BY <1>1, <1>3, <1>4, <1>u0, <1>5, <1>6 DEF ProcOK, Parked
<1>s. served'[h] = Idle /\ FrameOK(p)' /\ NoInterruptLost'
  BY <1>1, <1>3, <1>4, <1>u0 DEF FrameOK, NoInterruptLost, InService
<1> QED
  BY <1>1, <1>2, <1>4, <1>t, <1>o, <1>p, <1>s, Leaves

\* ... of one that is not killed ...
LEMMA UsertrapCalls ==
  ASSUME TrapConstants, IInv, NEW h \in Harts, NEW p \in Procs, hart[h].run = p,
         Usertrap(h), hart[h].cause = "syscall", ~killed[p]
  PROVE  IInv'
<1> DEFINE r == [hart[h] EXCEPT !.stvec = "kernelvec"]
<1>1. /\ hart[h].run = p /\ kt[p] = None /\ served[h] = Idle /\ at[p] = "usertrap" /\ myproc(h) = p
      /\ cpuProc[h] = p /\ hart[h].sepc \in Contexts \X Int
  BY UsertrapBefore, UsertrapPc, SMTT(60)
<1>2. /\ r \in HartType /\ r.run = p /\ r.priv = "S" /\ ~r.sie /\ r.pc = Kernel(p) /\ r.tp = h
      /\ r.stvec = "kernelvec" /\ r.cause = hart[h].cause /\ r.sepc = hart[h].sepc
  <2>1. r = Vectored(hart[h])
    BY DEF Vectored
  <2> HIDE DEF r
  <2> QED
    BY <2>1, UsertrapHart
<1>3. ProcOK(p) /\ FrameOK(p) /\ ServedOK(h) /\ TypeInv /\ NoInterruptLost
  BY ProcBefore, Before DEF Here
<1> DEFINE e == <<hart[h].sepc[1], (hart[h].sepc[2] + 1) % MaxPc>>
           u == [r EXCEPT !.sie = TRUE]
<1>4. /\ tf' = [tf EXCEPT ![p].epc = e] /\ at' = [at EXCEPT ![p] = "syscall"]
      /\ hart' = [hart EXCEPT ![h] = u] /\ UNCHANGED <<cpuProc, killed, served>>
  BY <1>1, <1>2 DEF Usertrap
<1>e. e = <<p, expect[p]>>
  BY UsertrapPc
<1>u0. UNCHANGED <<kt, intena, level, pending, expect, doomed>> /\ which' \in [Procs -> 0..2]
  BY <1>1, <1>3 DEF Usertrap, TypeInv
<1>5. /\ tf' \in [Procs -> TfType] /\ tf'[p].tp = tf[p].tp /\ tf'[p].epc = <<p, expect[p]>>
      /\ \A q \in Procs \ {p} : tf'[q] = tf[q]
  <2>1. e \in Contexts \X Int
    BY <1>3, <1>e DEF TypeInv, Contexts
  <2> HIDE DEF e
  <2>2. /\ tf' \in [Procs -> TfType] /\ tf'[p].tp = tf[p].tp /\ tf'[p].epc = e
        /\ \A q \in Procs \ {p} : tf'[q] = tf[q]
    <3>1. tf \in [Procs -> TfType] /\ tf[p] \in TfType
      BY <1>3 DEF TypeInv
    <3>2. tf' = [tf EXCEPT ![p] = [@ EXCEPT !.epc = e]]
      BY <1>4, <3>1
    <3>3. [tf[p] EXCEPT !.epc = e] \in TfType
      BY <2>1, <3>1 DEF TfType
    <3>4. [tf[p] EXCEPT !.epc = e].epc = e /\ [tf[p] EXCEPT !.epc = e].tp = tf[p].tp
      BY <3>1 DEF TfType
    <3> QED
      BY <3>1, <3>2, <3>3, <3>4
  <2> QED
    BY <1>e, <2>2
<1>6. /\ at' \in [Procs -> Masked \union Parked \union {"user", "gone"}] /\ at'[p] = "syscall"
      /\ \A q \in Procs \ {p} : at'[q] = at[q]
  BY <1>3, <1>4 DEF TypeInv, Parked
<1>v. /\ u \in HartType /\ u.run = p /\ u.priv = "S" /\ u.pc = Kernel(p) /\ u.tp = h
      /\ u.stvec = "kernelvec"
  <2> HIDE DEF r
  <2> QED
    BY <1>2 DEF HartType
<1> HIDE DEF u, r
<1>7. /\ hart' \in [Harts -> HartType] /\ hart'[h] = u
      /\ \A g \in Harts \ {h} : hart'[g] = hart[g]
  BY <1>v, <1>3, <1>4 DEF TypeInv
<1>8. UNCHANGED <<cpuProc, killed, served>>
  BY <1>4
<1>s. ServedOK(h)' /\ NoInterruptLost'
  BY <1>3, <1>8, <1>u0 DEF ServedOK, NoInterruptLost, InService
<1>t. TypeInv'
  BY <1>3, <1>u0, <1>5, <1>6, <1>7, <1>8 DEF TypeInv
<1>o. OthersSame(h, p)
  BY <1>u0, <1>5, <1>6, <1>7, <1>8 DEF OthersSame
<1>u. UserOK(h)' /\ CauseOK(h)'
  BY <1>v, <1>6, <1>7 DEF UserOK, CauseOK
<1>k. KernelOK(h)'
  BY <1>1, <1>v, <1>u0, <1>6, <1>7, <1>8 DEF KernelOK, Masked
<1>p. ProcOK(p)'
  BY <1>1, <1>v, <1>3, <1>u0, <1>5, <1>6, <1>7, <1>8 DEF ProcOK, Parked
<1>f. FrameOK(p)'
  BY <1>3, <1>u0 DEF FrameOK
<1>r. hart'[h].run = p
  BY <1>v, <1>7
<1> QED
  BY <1>1, <1>r, <1>t, <1>o, <1>u, <1>k, <1>s, <1>p, <1>f, Stays

\* ... at a device interrupt ...
LEMMA UsertrapDevice ==
  ASSUME TrapConstants, IInv, NEW h \in Harts, NEW p \in Procs, hart[h].run = p,
         Usertrap(h), hart[h].cause \in {"timer", "external"}
  PROVE  IInv'
<1> DEFINE r == [hart[h] EXCEPT !.stvec = "kernelvec"]
<1>1. /\ hart[h].run = p /\ kt[p] = None /\ served[h] = Idle /\ at[p] = "usertrap" /\ myproc(h) = p
      /\ cpuProc[h] = p /\ hart[h].sepc \in Contexts \X Int
  BY UsertrapBefore, UsertrapPc
<1>2. /\ r \in HartType /\ r.run = p /\ r.priv = "S" /\ ~r.sie /\ r.pc = Kernel(p) /\ r.tp = h
      /\ r.stvec = "kernelvec" /\ r.cause = hart[h].cause /\ r.sepc = hart[h].sepc
  <2>1. r = Vectored(hart[h])
    BY DEF Vectored
  <2> HIDE DEF r
  <2> QED
    BY <2>1, UsertrapHart
<1>3. ProcOK(p) /\ FrameOK(p) /\ ServedOK(h) /\ TypeInv /\ NoInterruptLost
  BY ProcBefore, Before DEF Here
<1>4. /\ tf' = [tf EXCEPT ![p].epc = hart[h].sepc] /\ at' = [at EXCEPT ![p] = "devintr"]
      /\ hart' = [hart EXCEPT ![h] = r] /\ UNCHANGED <<cpuProc, killed>>
      /\ served' = [served EXCEPT ![h] = DevStart(hart[h].cause)]
  BY <1>1, <1>2 DEF Usertrap
<1>u0. UNCHANGED <<kt, intena, level, pending, expect, doomed>> /\ which' \in [Procs -> 0..2]
  BY <1>1, <1>3 DEF Usertrap, TypeInv
<1>5. /\ tf' \in [Procs -> TfType] /\ tf'[p].tp = tf[p].tp /\ tf'[p].epc = <<p, expect[p]>>
      /\ \A q \in Procs \ {p} : tf'[q] = tf[q]
  <2>1. hart[h].sepc = <<p, expect[p]>>
    BY UsertrapPc
  <2> QED
    BY <1>1, <1>3, <1>4, <2>1, SetEpc
<1>6. /\ at' \in [Procs -> Masked \union Parked \union {"user", "gone"}] /\ at'[p] = "devintr"
      /\ \A q \in Procs \ {p} : at'[q] = at[q]
  BY <1>3, <1>4 DEF TypeInv, Masked
<1> HIDE DEF r
<1>7. /\ hart' \in [Harts -> HartType] /\ hart'[h] = r
      /\ \A g \in Harts \ {h} : hart'[g] = hart[g]
  BY <1>2, <1>3, <1>4 DEF TypeInv
<1>8. /\ served' \in [Harts -> ServedType] /\ served'[h].irq = None
      /\ served'[h].step \in {"claim", "done"} /\ \A g \in Harts \ {h} : served'[g] = served[g]
  BY <1>3, <1>4, ServedTypes DEF TypeInv
<1>s. ServedOK(h)' /\ NoInterruptLost'
  <2>1. served[h].irq = None
    BY <1>1, ServedTypes
  <2> QED
    BY <1>3, <1>8, <1>u0, <2>1, LinesKept DEF ServedOK
<1>t. TypeInv'
  BY <1>3, <1>4, <1>u0, <1>5, <1>6, <1>7, <1>8 DEF TypeInv
<1>o. OthersSame(h, p)
  BY <1>4, <1>u0, <1>5, <1>6, <1>7, <1>8 DEF OthersSame
<1>u. UserOK(h)' /\ CauseOK(h)'
  BY <1>2, <1>6, <1>7 DEF UserOK, CauseOK
<1>k. KernelOK(h)'
  BY <1>1, <1>2, <1>4, <1>u0, <1>6, <1>7, <1>8 DEF KernelOK, Masked
<1>p. ProcOK(p)'
  BY <1>1, <1>2, <1>3, <1>4, <1>u0, <1>5, <1>6, <1>7, <1>8 DEF ProcOK, Parked
<1>f. FrameOK(p)'
  BY <1>3, <1>u0 DEF FrameOK
<1>r. hart'[h].run = p
  BY <1>2, <1>7
<1> QED
  BY <1>1, <1>r, <1>t, <1>o, <1>u, <1>k, <1>s, <1>p, <1>f, Stays

\* ... and at a fault.
LEMMA UsertrapFaults ==
  ASSUME TrapConstants, IInv, NEW h \in Harts, NEW p \in Procs, hart[h].run = p,
         Usertrap(h), hart[h].cause = "fault"
  PROVE  IInv'
<1> DEFINE r == [hart[h] EXCEPT !.stvec = "kernelvec"]
<1>1. /\ hart[h].run = p /\ kt[p] = None /\ served[h] = Idle /\ at[p] = "usertrap" /\ myproc(h) = p
      /\ cpuProc[h] = p /\ hart[h].sepc \in Contexts \X Int
  BY UsertrapBefore, UsertrapPc
<1>2. /\ r \in HartType /\ r.run = p /\ r.priv = "S" /\ ~r.sie /\ r.pc = Kernel(p) /\ r.tp = h
      /\ r.stvec = "kernelvec" /\ r.cause = hart[h].cause /\ r.sepc = hart[h].sepc
  <2>1. r = Vectored(hart[h])
    BY DEF Vectored
  <2> HIDE DEF r
  <2> QED
    BY <2>1, UsertrapHart
<1>3. ProcOK(p) /\ FrameOK(p) /\ ServedOK(h) /\ TypeInv /\ NoInterruptLost
  BY ProcBefore, Before DEF Here
<1>4. /\ tf' = [tf EXCEPT ![p].epc = hart[h].sepc] /\ at' = [at EXCEPT ![p] = "checkKilled"]
      /\ hart' = [hart EXCEPT ![h] = r] /\ UNCHANGED <<cpuProc, served>>
      /\ killed' = [killed EXCEPT ![p] = TRUE]
  BY <1>1, <1>2 DEF Usertrap
<1>u0. UNCHANGED <<kt, intena, level, pending, expect, doomed>> /\ which' \in [Procs -> 0..2]
  BY <1>1, <1>3 DEF Usertrap, TypeInv
<1>5. /\ tf' \in [Procs -> TfType] /\ tf'[p].tp = tf[p].tp /\ tf'[p].epc = <<p, expect[p]>>
      /\ \A q \in Procs \ {p} : tf'[q] = tf[q]
  <2>1. hart[h].sepc = <<p, expect[p]>>
    BY UsertrapPc
  <2> QED
    BY <1>1, <1>3, <1>4, <2>1, SetEpc
<1>6. /\ at' \in [Procs -> Masked \union Parked \union {"user", "gone"}] /\ at'[p] = "checkKilled"
      /\ \A q \in Procs \ {p} : at'[q] = at[q]
  BY <1>3, <1>4 DEF TypeInv, Parked
<1> HIDE DEF r
<1>7. /\ hart' \in [Harts -> HartType] /\ hart'[h] = r
      /\ \A g \in Harts \ {h} : hart'[g] = hart[g]
  BY <1>2, <1>3, <1>4 DEF TypeInv
<1>8. /\ killed' \in [Procs -> BOOLEAN] /\ killed'[p] /\ \A q \in Procs \ {p} : killed'[q] = killed[q]
  BY <1>3, <1>4 DEF TypeInv
<1>s. ServedOK(h)' /\ NoInterruptLost'
  BY <1>3, <1>4, <1>u0 DEF ServedOK, NoInterruptLost, InService
<1>t. TypeInv'
  BY <1>3, <1>4, <1>u0, <1>5, <1>6, <1>7, <1>8 DEF TypeInv
<1>o. OthersSame(h, p)
  BY <1>4, <1>u0, <1>5, <1>6, <1>7, <1>8 DEF OthersSame
<1>u. UserOK(h)' /\ CauseOK(h)'
  BY <1>2, <1>6, <1>7 DEF UserOK, CauseOK
<1>k. KernelOK(h)'
  BY <1>1, <1>2, <1>4, <1>u0, <1>6, <1>7, <1>8 DEF KernelOK, Masked
<1>p. ProcOK(p)'
  BY <1>1, <1>2, <1>3, <1>4, <1>u0, <1>5, <1>6, <1>7, <1>8 DEF ProcOK, Parked
<1>f. FrameOK(p)'
  BY <1>3, <1>u0 DEF FrameOK
<1>r. hart'[h].run = p
  BY <1>2, <1>7
<1> QED
  BY <1>1, <1>r, <1>t, <1>o, <1>u, <1>k, <1>s, <1>p, <1>f, Stays

\* usertrap() up to syscall(), devintr() or setkilled().
LEMMA UsertrapStep ==
  ASSUME TrapConstants, IInv, NEW h \in Harts, Usertrap(h)
  PROVE  IInv'
<1>1. PICK p \in Procs : hart[h].run = p
  BY DEF Usertrap, Runs
<1>2. hart[h].cause \in {"syscall", "timer", "external", "fault"}
  BY <1>1, UsertrapBefore
<1>3. CASE hart[h].cause = "syscall" /\ killed[p]
  BY <1>1, <1>3, UsertrapExits
<1>4. CASE hart[h].cause = "syscall" /\ ~killed[p]
  BY <1>1, <1>4, UsertrapCalls
<1>5. CASE hart[h].cause \in {"timer", "external"}
  BY <1>1, <1>5, UsertrapDevice
<1>6. CASE hart[h].cause = "fault"
  BY <1>1, <1>6, UsertrapFaults
<1> QED
  BY <1>2, <1>3, <1>4, <1>5, <1>6

\* A system call that sleeps.
LEMMA SyscallSleepsStep ==
  ASSUME TrapConstants, IInv, NEW h \in Harts, NEW p \in Procs, SyscallSleeps(h, p)
  PROVE  IInv'
<1>1. hart[h].run = p /\ kt[p] = None /\ served[h] = Idle /\ at[p] = "syscall"
  BY DEF SyscallSleeps, Runs
<1>2. /\ hart[h] \in HartType /\ hart[h].priv = "S" /\ hart[h].tp = h /\ hart[h].stvec = "kernelvec"
      /\ ProcOK(p) /\ FrameOK(p) /\ ServedOK(h) /\ KernelOK(h) /\ TypeInv /\ NoInterruptLost
  BY <1>1, InKernel, ProcBefore, Before DEF Here
<1>3. /\ intena' \in [Procs -> BOOLEAN] /\ intena'[p] = hart[h].sie
      /\ \A q \in Procs \ {p} : intena'[q] = intena[q]
  BY <1>2, HartFields DEF SyscallSleeps, TypeInv
<1>4. /\ SwitchAway(h, hart[h])
      /\ UNCHANGED <<at, which, tf, kt, killed, level, pending, served, expect, doomed>>
  BY DEF SyscallSleeps
<1>l. /\ hart' \in [Harts -> HartType] /\ cpuProc' \in [Harts -> Procs \union {None}]
      /\ \A g \in Harts \ {h} : hart'[g] = hart[g] /\ cpuProc'[g] = cpuProc[g]
  BY <1>2, <1>4, LeavesType
<1>t. TypeInv'
  BY <1>2, <1>3, <1>4, <1>l DEF TypeInv
<1>o. OthersSame(h, p)
  BY <1>3, <1>4, <1>l DEF OthersSame
<1>p. ProcOK(p)'
  BY <1>1, <1>2, <1>3, <1>4 DEF ProcOK, Parked
<1>s. served'[h] = Idle /\ FrameOK(p)' /\ NoInterruptLost'
  BY <1>1, <1>2, <1>4 DEF FrameOK, NoInterruptLost, InService
<1> QED
  BY <1>1, <1>2, <1>4, <1>t, <1>o, <1>p, <1>s, Leaves

\* The tail of usertrap().
LEMMA CheckKilledStep ==
  ASSUME TrapConstants, IInv, NEW h \in Harts, NEW p \in Procs, CheckKilled(h, p)
  PROVE  IInv'
<1>1. hart[h].run = p /\ kt[p] = None /\ served[h] = Idle /\ at[p] = "checkKilled"
  BY DEF CheckKilled, Runs
<1>2. /\ hart[h] \in HartType /\ hart[h].priv = "S" /\ hart[h].tp = h /\ hart[h].stvec = "kernelvec"
      /\ ProcOK(p) /\ FrameOK(p) /\ ServedOK(h) /\ KernelOK(h) /\ TypeInv /\ NoInterruptLost
  BY <1>1, InKernel, ProcBefore, Before DEF Here
<1>3. which' \in [Procs -> 0..2] /\ UNCHANGED <<tf, kt, killed, level, pending, served, expect, doomed>>
  BY <1>2 DEF CheckKilled, TypeInv
<1>f. served'[h] = Idle /\ ServedOK(h)' /\ FrameOK(p)' /\ NoInterruptLost'
  BY <1>1, <1>2, <1>3 DEF ServedOK, FrameOK, NoInterruptLost, InService
<1>5. CASE killed[p]
  <2>1. at' = [at EXCEPT ![p] = "gone"] /\ SwitchAway(h, hart[h]) /\ UNCHANGED intena
    BY <1>5 DEF CheckKilled, Exit
  <2>2. /\ at' \in [Procs -> Masked \union Parked \union {"user", "gone"}] /\ at'[p] = "gone"
        /\ \A q \in Procs \ {p} : at'[q] = at[q]
    BY <1>2, <2>1 DEF TypeInv
  <2>l. /\ hart' \in [Harts -> HartType] /\ cpuProc' \in [Harts -> Procs \union {None}]
        /\ \A g \in Harts \ {h} : hart'[g] = hart[g] /\ cpuProc'[g] = cpuProc[g]
    BY <1>2, <2>1, LeavesType
  <2>t. TypeInv'
    BY <1>2, <1>3, <2>1, <2>2, <2>l DEF TypeInv
  <2>o. OthersSame(h, p)
    BY <1>3, <2>1, <2>2, <2>l DEF OthersSame
  <2>p. ProcOK(p)'
    BY <1>1, <1>2, <1>3, <2>2 DEF ProcOK, Parked
  <2> QED
    BY <1>1, <1>2, <1>f, <2>1, <2>t, <2>o, <2>p, Leaves
<1>6. CASE ~killed[p] /\ which[p] = 2
  <2>1. /\ at' = [at EXCEPT ![p] = "return"] /\ SwitchAway(h, hart[h])
        /\ intena' = [intena EXCEPT ![p] = hart[h].sie]
    BY <1>6 DEF CheckKilled
  <2>2. /\ at' \in [Procs -> Masked \union Parked \union {"user", "gone"}] /\ at'[p] = "return"
        /\ \A q \in Procs \ {p} : at'[q] = at[q]
    BY <1>2, <2>1 DEF TypeInv, Parked
  <2>3. intena' \in [Procs -> BOOLEAN] /\ \A q \in Procs \ {p} : intena'[q] = intena[q]
    BY <1>2, <2>1, HartFields DEF TypeInv
  <2>l. /\ hart' \in [Harts -> HartType] /\ cpuProc' \in [Harts -> Procs \union {None}]
        /\ \A g \in Harts \ {h} : hart'[g] = hart[g] /\ cpuProc'[g] = cpuProc[g]
    BY <1>2, <2>1, LeavesType
  <2>t. TypeInv'
    BY <1>2, <1>3, <2>2, <2>3, <2>l DEF TypeInv
  <2>o. OthersSame(h, p)
    BY <1>3, <2>2, <2>3, <2>l DEF OthersSame
  <2>p. ProcOK(p)'
    BY <1>1, <1>2, <1>3, <1>6, <2>2 DEF ProcOK, Parked
  <2> QED
    BY <1>1, <1>2, <1>f, <2>1, <2>t, <2>o, <2>p, Leaves
<1>7. CASE ~killed[p] /\ which[p] # 2
  <2>1. at' = [at EXCEPT ![p] = "return"] /\ UNCHANGED <<hart, cpuProc, intena>>
    BY <1>7 DEF CheckKilled
  <2>2. /\ at' \in [Procs -> Masked \union Parked \union {"user", "gone"}] /\ at'[p] = "return"
        /\ \A q \in Procs \ {p} : at'[q] = at[q]
    BY <1>2, <2>1 DEF TypeInv, Parked
  <2>t. TypeInv'
    BY <1>2, <1>3, <2>1, <2>2 DEF TypeInv
  <2>o. OthersSame(h, p)
    BY <1>3, <2>1, <2>2 DEF OthersSame
  <2>u. UserOK(h)' /\ CauseOK(h)'
    BY <1>1, <1>2, <2>1, <2>2 DEF UserOK, CauseOK
  <2>k. KernelOK(h)'
    BY <1>1, <1>2, <1>3, <2>1, <2>2 DEF KernelOK, Masked
  <2>p. ProcOK(p)'
    BY <1>1, <1>2, <1>3, <1>7, <2>1, <2>2 DEF ProcOK, Parked
  <2> QED
    BY <1>1, <1>f, <2>1, <2>t, <2>o, <2>u, <2>k, <2>p, Stays
<1> QED
  BY <1>5, <1>6, <1>7

\* kerneltrap() yields.
LEMMA KernelYieldStep ==
  ASSUME TrapConstants, IInv, NEW h \in Harts, KernelYield(h)
  PROVE  IInv'
<1>0. PICK p \in Procs : hart[h].run = p
  BY DEF KernelYield
<1>k. kt[p] # None
  BY <1>0 DEF KernelYield
<1>1. hart[h].run = p /\ at[p] \in Parked /\ at[p] # "user" /\ at[p] # "usertrap"
  BY <1>0, <1>k, ProcBefore DEF ProcOK, Parked
<1>m. myproc(h) = p
  BY <1>1, InKernel
<1>2. /\ hart[h] \in HartType /\ hart[h].priv = "S" /\ hart[h].tp = h /\ hart[h].stvec = "kernelvec"
      /\ ProcOK(p) /\ FrameOK(p) /\ ServedOK(h) /\ KernelOK(h) /\ TypeInv /\ NoInterruptLost
  BY <1>1, InKernel, ProcBefore, Before DEF Here
<1>3. ~hart[h].sie /\ served[h].step = "done" /\ kt[p] \in FrameType
  BY <1>0, <1>2, <1>k DEF KernelYield, KernelOK, TypeInv, Contexts
<1>4. /\ SwitchAway(h, hart[h])
      /\ UNCHANGED <<at, which, tf, killed, level, pending, expect, doomed>>
  BY DEF KernelYield
<1>l. /\ hart' \in [Harts -> HartType] /\ cpuProc' \in [Harts -> Procs \union {None}]
      /\ \A g \in Harts \ {h} : hart'[g] = hart[g] /\ cpuProc'[g] = cpuProc[g]
  BY <1>2, <1>4, LeavesType
<1>5. intena' = [intena EXCEPT ![p] = hart[h].sie] /\ served' = [served EXCEPT ![h] = Idle]
  BY <1>m DEF KernelYield
<1>6. /\ intena' \in [Procs -> BOOLEAN] /\ ~intena'[p]
      /\ \A q \in Procs \ {p} : intena'[q] = intena[q]
  BY <1>2, <1>3, <1>5, HartFields DEF TypeInv
<1>7. /\ served' \in [Harts -> ServedType] /\ served'[h] = Idle
      /\ \A g \in Harts \ {h} : served'[g] = served[g]
  BY <1>2, <1>5, ServedTypes DEF TypeInv
<1>8. /\ kt' \in [Contexts -> FrameType \union {None}]
      /\ kt'[p].sepc = kt[p].sepc /\ kt'[p].spp = kt[p].spp /\ kt'[p].spie = kt[p].spie /\ kt'[p].yielded
      /\ \A c \in Contexts \ {p} : kt'[c] = kt[c]
  <2> DEFINE f == [kt[p] EXCEPT !.yielded = TRUE]
  <2>1. kt' = [kt EXCEPT ![p] = f] /\ kt \in [Contexts -> FrameType \union {None}] /\ p \in Contexts
    BY <1>m, <1>2 DEF KernelYield, TypeInv, Contexts
  <2>2. /\ f \in FrameType /\ f.sepc = kt[p].sepc /\ f.spp = kt[p].spp /\ f.spie = kt[p].spie
        /\ f.yielded
    BY <1>3 DEF FrameType
  <2> HIDE DEF f
  <2> QED
    BY <2>1, <2>2
<1>t. TypeInv'
  BY <1>2, <1>4, <1>l, <1>6, <1>7, <1>8 DEF TypeInv
<1>o. OthersSame(h, p)
  BY <1>4, <1>l, <1>6, <1>7, <1>8, Distinct DEF OthersSame, Contexts
<1>p. ProcOK(p)'
  BY <1>1, <1>2, <1>4, <1>6, <1>8 DEF ProcOK, Parked
<1>f. FrameOK(p)'
  BY <1>2, <1>k, <1>8 DEF FrameOK
<1>i. NoInterruptLost'
  BY <1>2, <1>3, <1>4, <1>7, LinesKept DEF ServedOK
<1> QED
  BY <1>1, <1>2, <1>4, <1>7, <1>t, <1>o, <1>p, <1>f, <1>i, Leaves

\* A trap from the kernel ...
LEMMA KernelvecStep ==
  ASSUME TrapConstants, IInv, NEW h \in Harts, NEW cause \in {"timer", "external"},
         Kernelvec(h, cause)
  PROVE  IInv'
<1>c. PICK c \in Contexts : c = hart[h].run
  BY DEF IInv, RunOK, Contexts
<1> DEFINE t == Trapped(hart[h], cause)
<1>1. /\ hart[h] \in HartType /\ Here(h) /\ FrameOK(h) /\ TypeInv /\ NoInterruptLost
      /\ hart[h].priv = "S" /\ hart[h].sie /\ hart[h].stvec = "kernelvec"
  BY Before DEF Kernelvec
<1>2. c \in Procs \union {h} /\ c \in Contexts
  BY <1>c DEF IInv, RunOK
<1>3. /\ kt[c] = None /\ served[h] = Idle /\ hart[h].tp = h /\ hart[h].pc = Kernel(c)
      /\ cpuProc[h] = IF c \in Procs THEN c ELSE None
      /\ c \in Procs => at[c] \notin Masked \union {"user", "gone"}
  BY <1>c, <1>1 DEF Here, KernelOK, Masked
<1>4. c \in Procs => at[c] \in Parked /\ ProcOK(c)
  BY <1>3, ProcBefore
<1>5. /\ hart' = [hart EXCEPT ![h] = t] /\ kt' = [kt EXCEPT ![c] = Kerneltrap(t)]
      /\ served' = [served EXCEPT ![h] = DevStart(cause)]
      /\ UNCHANGED <<cpuProc, at, which, tf, intena, killed, level, pending, expect, doomed>>
  BY <1>c DEF Kernelvec
<1>6. /\ t \in HartType /\ t.run = c /\ t.priv = "S" /\ ~t.sie /\ t.pc = Kernel(c) /\ t.tp = h
      /\ t.stvec = "kernelvec" /\ t.sepc = Kernel(c) /\ t.spp = "S" /\ t.spie
  <2>0. cause \in {"syscall", "timer", "external", "fault"}
    OBVIOUS
  <2>1. PICK r \in HartType : r = hart[h]
    BY <1>1
  <2>2. /\ Trapped(r, cause) \in HartType
        /\ Trapped(r, cause).run = r.run /\ Trapped(r, cause).priv = "S" /\ ~Trapped(r, cause).sie
        /\ Trapped(r, cause).pc = Kernel(r.run) /\ Trapped(r, cause).tp = r.tp
    BY <2>0, TrappedFields, ZenonT(60)
  <2>3. /\ Trapped(r, cause).stvec = r.stvec /\ Trapped(r, cause).sepc = r.pc
        /\ Trapped(r, cause).spp = r.priv /\ Trapped(r, cause).spie = r.sie
    BY <2>0, TrappedFields, ZenonT(60)
  <2>4. r.run = c /\ r.tp = h /\ r.pc = Kernel(c) /\ r.priv = "S" /\ r.sie /\ r.stvec = "kernelvec"
    BY <1>c, <1>1, <1>3, <2>1, ZenonT(60)
  <2>5. t = Trapped(r, cause)
    BY <2>1
  <2> HIDE DEF t
  <2> QED
    BY <2>2, <2>3, <2>4, <2>5, ZenonT(60)
<1> HIDE DEF t
<1> DEFINE f == Kerneltrap(t)
<1>7. f \in FrameType /\ f.sepc = Kernel(c) /\ f.spp = "S" /\ f.spie /\ ~f.yielded
  BY <1>2, <1>6, HartFields, KernelPc DEF Kerneltrap, FrameType
<1>n. f # None
  BY <1>7 DEF TrapConstants
<1> HIDE DEF f
<1>8. hart' \in [Harts -> HartType] /\ hart'[h] = t /\ \A g \in Harts \ {h} : hart'[g] = hart[g]
  BY <1>1, <1>5, <1>6 DEF TypeInv
<1>9. /\ kt' \in [Contexts -> FrameType \union {None}] /\ kt'[c] = f
      /\ \A d \in Contexts \ {c} : kt'[d] = kt[d]
  BY <1>1, <1>2, <1>5, <1>7 DEF TypeInv, f
<1>10. /\ served' \in [Harts -> ServedType] /\ served'[h].irq = None
       /\ served'[h].step \in {"claim", "done"} /\ served'[h] # Idle
       /\ \A g \in Harts \ {h} : served'[g] = served[g]
  BY <1>1, <1>5, ServedTypes DEF TypeInv
<1>t. TypeInv'
  BY <1>1, <1>5, <1>8, <1>9, <1>10 DEF TypeInv
<1>l. Local(h)
  <2>1. \A g \in Harts \ {h} : g \in Contexts \ {c}
    BY <1>2, Distinct
  <2>2. \A q \in Procs \ {c} : kt'[q] = kt[q]
    BY <1>9, Distinct
  <2> QED
    BY <1>c, <1>5, <1>6, <1>8, <1>9, <1>10, <2>1, <2>2 DEF Local
<1>u. UserOK(h)' /\ CauseOK(h)'
  BY <1>3, <1>5, <1>6, <1>8 DEF UserOK, CauseOK, Masked
<1>k. KernelOK(h)'
  BY <1>3, <1>5, <1>6, <1>7, <1>n, <1>8, <1>9, <1>10 DEF KernelOK, Masked
<1>s. SchedulerOK(h)' /\ ServedOK(h)'
  <2>1. h # c => kt'[h] = kt[h]
    BY <1>9, Distinct
  <2>2. SchedulerOK(h)'
    BY <1>c, <1>1, <1>6, <1>8, <2>1 DEF Here, SchedulerOK
  <2>3. ServedOK(h)'
    BY <1>10 DEF ServedOK
  <2> QED
    BY <2>2, <2>3
<1>h. Here(h)'
  BY <1>u, <1>k, <1>s DEF Here
<1>f. FrameOK(c)'
  BY <1>7, <1>9 DEF FrameOK
<1>g. FrameOK(h)'
  BY <1>1, <1>f, <1>9, Distinct DEF FrameOK
<1>p. ContextOK(c)'
  <2>1. ASSUME c \in Procs PROVE ProcOK(c)'
    BY <1>4, <1>5, <1>6, <1>8, <2>1 DEF ProcOK, Parked
  <2> QED
    BY <1>f, <2>1 DEF ContextOK
<1>i. NoInterruptLost'
  BY <1>1, <1>3, <1>5, <1>10, ServedTypes, LinesKept
<1>r. hart'[h].run = c
  BY <1>6, <1>8
<1> QED
  BY <1>c, <1>r, <1>2, <1>t, <1>l, <1>h, <1>p, <1>g, <1>i, LocalStep

\* ... and its return, on whichever hart.
LEMMA KernelTrapRetStep ==
  ASSUME TrapConstants, IInv, NEW h \in Harts, KernelTrapRet(h)
  PROVE  IInv'
<1>c. PICK c \in Contexts : c = hart[h].run
  BY DEF IInv, RunOK, Contexts
<1> DEFINE v == [hart[h] EXCEPT !.sepc = kt[c].sepc, !.spp = kt[c].spp, !.spie = kt[c].spie]
           t == Sret(v)
<1>1. hart[h] \in HartType /\ Here(h) /\ FrameOK(h) /\ TypeInv /\ NoInterruptLost
  BY Before
<1>2. c \in Procs \union {h} /\ c \in Contexts
  BY <1>c DEF IInv, RunOK
<1>3. kt[c] # None /\ (served[h].step = "done" \/ served[h] = Idle)
  BY <1>c DEF KernelTrapRet, KernelTrapMayReturn
<1>4. c \in Procs => at[c] \in Parked /\ ProcOK(c)
  BY <1>3, ProcBefore DEF ProcOK
<1>5. FrameOK(c) /\ kt[c] \in FrameType
  BY <1>1, <1>2, <1>3 DEF IInv, TypeInv
<1>6. kt[c].sepc = Kernel(c) /\ kt[c].spp = "S" /\ kt[c].spie
  BY <1>3, <1>5 DEF FrameOK
<1>7. hart[h].priv = "S"
  BY <1>c, <1>1, <1>3, HartFields DEF Here, UserOK
<1>8. /\ hart[h].tp = h /\ hart[h].stvec = "kernelvec"
      /\ cpuProc[h] = IF c \in Procs THEN c ELSE None
  BY <1>c, <1>1, <1>4, <1>7 DEF Here, KernelOK, Parked
<1>9. /\ hart' = [hart EXCEPT ![h] = t] /\ kt' = [kt EXCEPT ![c] = None]
      /\ served' = [served EXCEPT ![h] = Idle]
      /\ UNCHANGED <<cpuProc, at, which, tf, intena, killed, level, pending, expect, doomed>>
  BY <1>c, <1>1 DEF KernelTrapRet, KernelvecReturn, TypeInv
<1>v. /\ v \in HartType /\ v.run = c /\ v.spp = "S" /\ v.spie /\ v.sepc = Kernel(c)
      /\ v.tp = h /\ v.stvec = "kernelvec"
  <2>1. Kernel(c) \in Contexts \X Int /\ kt[c].spie \in BOOLEAN
    BY <1>2, <1>5, KernelPc DEF FrameType
  <2> QED
    BY <1>c, <1>1, <1>6, <1>8, <2>1, ZenonT(30) DEF HartType
<1> HIDE DEF v
<1>10. /\ t \in HartType /\ t.run = c /\ t.priv = "S" /\ t.pc = Kernel(c) /\ t.tp = h
       /\ t.stvec = "kernelvec"
  <2>1. v.sepc \in Contexts \X Int
    BY <1>2, <1>v, KernelPc
  <2>2. /\ t \in HartType /\ t.run = v.run /\ t.priv = v.spp /\ t.pc = v.sepc
        /\ t.stvec = v.stvec /\ t.tp = v.tp
    BY <1>v, <2>1, SretFields
  <2> QED
    BY <1>v, <2>2
<1> HIDE DEF t
<1>11. hart' \in [Harts -> HartType] /\ hart'[h] = t /\ \A g \in Harts \ {h} : hart'[g] = hart[g]
  BY <1>1, <1>9, <1>10 DEF TypeInv
<1>12. /\ kt' \in [Contexts -> FrameType \union {None}] /\ kt'[c] = None
       /\ \A d \in Contexts \ {c} : kt'[d] = kt[d]
  BY <1>1, <1>2, <1>9 DEF TypeInv
<1>13. /\ served' \in [Harts -> ServedType] /\ served'[h] = Idle
       /\ \A g \in Harts \ {h} : served'[g] = served[g]
  BY <1>1, <1>9, ServedTypes DEF TypeInv
<1>t. TypeInv'
  BY <1>1, <1>9, <1>11, <1>12, <1>13 DEF TypeInv
<1>l. Local(h)
  <2>1. \A g \in Harts \ {h} : g \in Contexts \ {c}
    BY <1>2, Distinct
  <2>2. \A q \in Procs \ {c} : kt'[q] = kt[q]
    BY <1>12, Distinct
  <2> QED
    BY <1>c, <1>9, <1>10, <1>11, <1>12, <1>13, <2>1, <2>2 DEF Local
<1>u. UserOK(h)' /\ CauseOK(h)'
  BY <1>4, <1>9, <1>10, <1>11 DEF UserOK, CauseOK, Parked
<1>k. KernelOK(h)'
  BY <1>4, <1>8, <1>9, <1>10, <1>11, <1>12, <1>13 DEF KernelOK, Masked, Parked
<1>s. SchedulerOK(h)' /\ ServedOK(h)'
  BY <1>c, <1>1, <1>10, <1>11, <1>12, <1>13, Distinct, ServedTypes DEF Here, SchedulerOK, ServedOK
<1>h. Here(h)'
  BY <1>u, <1>k, <1>s DEF Here
<1>f. FrameOK(c)'
  BY <1>12 DEF FrameOK
<1>g. FrameOK(h)'
  BY <1>1, <1>f, <1>12, Distinct DEF FrameOK
<1>p. ContextOK(c)'
  <2>1. ASSUME c \in Procs PROVE ProcOK(c)'
    BY <1>4, <1>9, <1>10, <1>11, <1>12, <2>1 DEF ProcOK, Parked
  <2> QED
    BY <1>f, <2>1 DEF ContextOK
<1>i. NoInterruptLost'
  <2>1. served[h].irq = None
    BY <1>1, <1>3, ServedTypes DEF Here, ServedOK
  <2> QED
    BY <1>1, <1>9, <1>13, <2>1, LinesKept
<1>r. hart'[h].run = c
  BY <1>10, <1>11
<1> QED
  BY <1>c, <1>r, <1>2, <1>t, <1>l, <1>h, <1>p, <1>g, <1>i, LocalStep

\* The scheduler resumes p, maybe on another hart than the one it left.
LEMMA ResumeStep ==
  ASSUME TrapConstants, IInv, NEW h \in Harts, NEW p \in Procs, Resume(h, p)
  PROVE  IInv'
<1>1. /\ hart[h].run = h /\ kt[h] = None /\ served[h] = Idle /\ at[p] # "gone"
      /\ \A g \in Harts : hart[g].run # p
  BY DEF Resume, Runs
<1>2. /\ hart[h] \in HartType /\ Here(h) /\ FrameOK(h) /\ TypeInv /\ NoInterruptLost
      /\ ProcOK(p) /\ FrameOK(p) /\ h \in Contexts /\ p \in Contexts /\ h \notin Procs
  BY Before, ProcBefore, Distinct
<1>3. hart[h].priv = "S" /\ hart[h].tp = h /\ hart[h].stvec = "kernelvec"
  BY <1>1, <1>2, HartFields DEF Here, UserOK, KernelOK
<1>4. at[p] \in Parked /\ (kt[p] # None => kt[p].yielded /\ ~intena[p])
  BY <1>1, <1>2 DEF ProcOK
<1> DEFINE u == [hart[h] EXCEPT !.run = p, !.sie = intena[p], !.pc = Kernel(p)]
<1>5. /\ hart' = [hart EXCEPT ![h] = u] /\ cpuProc' = [cpuProc EXCEPT ![h] = p]
      /\ intena' = [intena EXCEPT ![p] = TRUE]
      /\ UNCHANGED <<at, which, tf, kt, killed, level, pending, served, expect, doomed>>
  BY <1>3 DEF Resume
<1>6. /\ u \in HartType /\ u.run = p /\ u.priv = "S" /\ u.sie = intena[p] /\ u.pc = Kernel(p)
      /\ u.tp = h /\ u.stvec = "kernelvec"
  <2>1. intena[p] \in BOOLEAN /\ Kernel(p) \in Contexts \X Int
    BY <1>2, KernelPc DEF TypeInv
  <2> QED
    BY <1>2, <1>3, <2>1 DEF HartType
<1> HIDE DEF u
<1>7. /\ hart' \in [Harts -> HartType] /\ hart'[h] = u /\ \A g \in Harts \ {h} : hart'[g] = hart[g]
      /\ cpuProc' \in [Harts -> Procs \union {None}] /\ cpuProc'[h] = p
      /\ \A g \in Harts \ {h} : cpuProc'[g] = cpuProc[g]
  BY <1>2, <1>5, <1>6 DEF TypeInv
<1>8. intena' \in [Procs -> BOOLEAN] /\ \A q \in Procs \ {p} : intena'[q] = intena[q]
  BY <1>2, <1>5 DEF TypeInv
<1>t. TypeInv'
  BY <1>2, <1>5, <1>7, <1>8 DEF TypeInv
<1>l. Local(h)
  BY <1>1, <1>5, <1>6, <1>7, <1>8 DEF Local
<1>u. UserOK(h)' /\ CauseOK(h)'
  BY <1>4, <1>5, <1>6, <1>7 DEF UserOK, CauseOK, Parked
<1>k. KernelOK(h)'
  BY <1>1, <1>4, <1>5, <1>6, <1>7 DEF KernelOK, Masked, Parked
<1>s. SchedulerOK(h)' /\ ServedOK(h)' /\ FrameOK(h)' /\ FrameOK(p)' /\ NoInterruptLost'
  BY <1>1, <1>2, <1>5 DEF Here, SchedulerOK, ServedOK, FrameOK, NoInterruptLost, InService
<1>h. Here(h)'
  BY <1>u, <1>k, <1>s DEF Here
<1>p. ProcOK(p)'
  BY <1>2, <1>4, <1>5, <1>6, <1>7 DEF ProcOK, Parked
<1>r. hart'[h].run = p
  BY <1>6, <1>7
<1>c. ContextOK(h)' /\ ContextOK(p)'
  BY <1>2, <1>s, <1>p DEF ContextOK
<1> QED
  BY <1>1, <1>2, <1>r, <1>t, <1>l, <1>h, <1>c, <1>s, LocalStep

-----------------------------------------------------------------------------
\* A step that moves no context: only the PLIC, devintr() and p->killed change.
LEMMA Aside ==
  ASSUME TrapConstants, IInv, UNCHANGED <<hart, cpuProc, at, which, tf, kt, intena, expect, doomed>>,
         TypeInv', \A p \in Procs : killed[p] => killed'[p],
         \A g \in Harts : (served'[g] = Idle <=> served[g] = Idle) /\ ServedOK(g)',
         NoInterruptLost'
  PROVE  IInv'
<1>1. RunOK'
  BY DEF IInv, RunOK
<1>2. ASSUME NEW g \in Harts PROVE Here(g)'
  <2>1. Here(g)
    BY Before
  <2>2. UserOK(g)'
    BY <2>1 DEF Here, UserOK
  <2>3. KernelOK(g)'
    BY <2>1 DEF Here, KernelOK
  <2>4. CauseOK(g)' /\ SchedulerOK(g)'
    BY <2>1 DEF Here, CauseOK, SchedulerOK
  <2> QED
    BY <2>2, <2>3, <2>4 DEF Here
<1>3. ASSUME NEW p \in Procs PROVE ProcOK(p)'
  <2>1. ProcOK(p)
    BY DEF IInv
  <2> QED
    BY <2>1 DEF ProcOK
<1>4. ASSUME NEW c \in Contexts PROVE FrameOK(c)'
  BY DEF IInv, FrameOK
<1> QED
  BY <1>1, <1>2, <1>3, <1>4 DEF IInv, Here

\* kill() marks a process.
LEMMA KillStep ==
  ASSUME TrapConstants, IInv, NEW p \in Procs, Kill(p)
  PROVE  IInv'
<1>1. /\ killed' = [killed EXCEPT ![p] = TRUE]
      /\ UNCHANGED <<hart, cpuProc, at, which, tf, kt, intena, level, pending, served, expect, doomed>>
  BY DEF Kill
<1>2. TypeInv'
  BY <1>1 DEF IInv, TypeInv
<1>3. \A q \in Procs : killed[q] => killed'[q]
  BY <1>1 DEF IInv, TypeInv
<1>4. \A g \in Harts : ServedOK(g)'
  BY <1>1 DEF IInv, ServedOK
<1>5. NoInterruptLost'
  BY <1>1 DEF IInv, NoInterruptLost, InService
<1> QED
  BY <1>1, <1>2, <1>3, <1>4, <1>5, Aside

\* A device raises its line: the PLIC offers it unless it is in service.
LEMMA DeviceRaisesStep ==
  ASSUME TrapConstants, IInv, NEW i \in IRQs, DeviceRaises(i)
  PROVE  IInv'
<1>0. TypeInv /\ NoInterruptLost
  BY DEF IInv
<1>1. /\ level' = [level EXCEPT ![i] = TRUE] /\ pending' = [pending EXCEPT ![i] = ~InService(i)]
      /\ UNCHANGED <<hart, cpuProc, at, which, tf, kt, intena, killed, served, expect, doomed>>
  BY DEF DeviceRaises
<1>2. InService(i) \in BOOLEAN
  BY DEF InService
<1>3. pending'[i] = ~InService(i) /\ pending' \in [IRQs -> BOOLEAN]
  BY <1>0, <1>1, <1>2 DEF TypeInv
<1>4. /\ level' \in [IRQs -> BOOLEAN]
      /\ \A j \in IRQs \ {i} : level'[j] = level[j] /\ pending'[j] = pending[j]
  BY <1>0, <1>1 DEF TypeInv
<1>5. TypeInv'
  BY <1>0, <1>1, <1>3, <1>4 DEF TypeInv
<1>6. \A j \in IRQs : InService(j)' <=> InService(j)
  BY <1>1 DEF InService
<1>7. NoInterruptLost'
  BY <1>0, <1>3, <1>4, <1>6 DEF NoInterruptLost
<1>8. \A g \in Harts : ServedOK(g)'
  BY <1>1 DEF IInv, ServedOK
<1> QED
  BY <1>1, <1>5, <1>7, <1>8, Aside

\* devintr() on h goes from one of its steps to the next.
LEMMA ServedStep ==
  ASSUME TrapConstants, IInv, NEW h \in Harts, NEW d \in ServedType,
         served' = [served EXCEPT ![h] = d], served[h].step # "idle", d.step # "idle",
         d.irq # None <=> d.step \in {"serve", "complete"},
         UNCHANGED <<hart, cpuProc, at, which, tf, kt, intena, killed, expect, doomed>>,
         level' \in [IRQs -> BOOLEAN], pending' \in [IRQs -> BOOLEAN], NoInterruptLost'
  PROVE  IInv'
<1>0. TypeInv /\ \A g \in Harts : ServedOK(g)
  BY DEF IInv
<1>1. /\ served' \in [Harts -> ServedType] /\ served'[h] = d
      /\ \A g \in Harts \ {h} : served'[g] = served[g]
  BY <1>0 DEF TypeInv
<1>2. TypeInv'
  BY <1>0, <1>1 DEF TypeInv
<1>3. served[h] # Idle /\ served'[h] # Idle
  BY <1>1, ServedTypes
<1>4. ServedOK(h)' /\ \A g \in Harts \ {h} : ServedOK(g)'
  BY <1>0, <1>1 DEF ServedOK
<1> QED
  BY <1>1, <1>2, <1>3, <1>4, Aside

\* plic_claim(): the claimed interrupt is in service.
LEMMA PlicClaimStep ==
  ASSUME TrapConstants, IInv, NEW h \in Harts, PlicClaim(h)
  PROVE  IInv'
<1>1. TypeInv /\ NoInterruptLost /\ served[h] \in ServedType /\ ServedOK(h)
  BY DEF IInv, TypeInv
<1>2. /\ served[h].step = "claim"
      /\ UNCHANGED <<hart, cpuProc, at, which, tf, kt, intena, killed, level, expect, doomed>>
  BY DEF PlicClaim
<1>3. served[h].irq = None
  BY <1>1, <1>2 DEF ServedOK
<1>4. CASE \E i \in IRQs : pending[i]
  <2>1. PICK i \in IRQs : /\ pending' = [pending EXCEPT ![i] = FALSE]
                          /\ served' = [served EXCEPT ![h] = [step |-> "serve", irq |-> i]]
    BY <1>4 DEF PlicClaim
  <2>2. PICK d \in ServedType : d = [step |-> "serve", irq |-> i]
    BY DEF ServedType
  <2>3. d.step = "serve" /\ d.irq = i /\ i # None
    BY <2>2, Distinct
  <2>4. served'[h] = d /\ \A g \in Harts \ {h} : served'[g] = served[g]
    BY <1>1, <2>1, <2>2 DEF TypeInv
  <2>5. InService(i)' /\ \A j \in IRQs : InService(j) => InService(j)'
    BY <1>3, <2>3, <2>4, Distinct DEF InService
  <2>6. pending' \in [IRQs -> BOOLEAN] /\ \A j \in IRQs \ {i} : pending'[j] = pending[j]
    BY <1>1, <2>1 DEF TypeInv
  <2>7. NoInterruptLost'
    BY <1>1, <1>2, <2>5, <2>6 DEF NoInterruptLost
  <2>8. level' \in [IRQs -> BOOLEAN]
    BY <1>1, <1>2 DEF TypeInv
  <2> QED
    BY <1>2, <2>1, <2>2, <2>3, <2>6, <2>7, <2>8, ServedStep
<1>5. CASE ~\E i \in IRQs : pending[i]
  <2>1. served' = [served EXCEPT ![h].step = "done"] /\ pending' = pending
    BY <1>5 DEF PlicClaim
  <2>2. PICK d \in ServedType : d = [served[h] EXCEPT !.step = "done"]
    BY <1>1 DEF ServedType
  <2>3. d.step = "done" /\ d.irq = None
    BY <1>1, <1>3, <2>2 DEF ServedType
  <2>4. served' = [served EXCEPT ![h] = d]
    BY <1>1, <2>1, <2>2 DEF TypeInv
  <2>5. \A g \in Harts \ {h} : served'[g] = served[g]
    BY <1>1, <2>4 DEF TypeInv
  <2>6. NoInterruptLost'
    BY <1>1, <1>2, <1>3, <2>1, <2>5, LinesKept
  <2>7. level' \in [IRQs -> BOOLEAN] /\ pending' \in [IRQs -> BOOLEAN]
    BY <1>1, <1>2, <2>1 DEF TypeInv
  <2> QED
    BY <1>2, <2>3, <2>4, <2>6, <2>7, ServedStep
<1> QED
  BY <1>4, <1>5

\* The device's handler: its line goes down.
LEMMA ServeStep ==
  ASSUME TrapConstants, IInv, NEW h \in Harts, Serve(h)
  PROVE  IInv'
<1>1. TypeInv /\ NoInterruptLost /\ served[h] \in ServedType /\ ServedOK(h)
  BY DEF IInv, TypeInv
<1>2. /\ served[h].step = "serve" /\ level' = [level EXCEPT ![served[h].irq] = FALSE]
      /\ served' = [served EXCEPT ![h].step = "complete"]
      /\ UNCHANGED <<hart, cpuProc, at, which, tf, kt, intena, killed, pending, expect, doomed>>
  BY DEF Serve
<1>3. PICK d \in ServedType : d = [served[h] EXCEPT !.step = "complete"]
  BY <1>1 DEF ServedType
<1>4. d.step = "complete" /\ d.irq = served[h].irq /\ d.irq # None
  BY <1>1, <1>2, <1>3 DEF ServedOK, ServedType
<1>5. served' = [served EXCEPT ![h] = d]
  BY <1>1, <1>2, <1>3 DEF TypeInv
<1>6. \A g \in Harts : served'[g].irq = served[g].irq
  BY <1>1, <1>4, <1>5 DEF TypeInv
<1>7. \A i \in IRQs : InService(i)' <=> InService(i)
  BY <1>6 DEF InService
<1>8. level' \in [IRQs -> BOOLEAN] /\ \A i \in IRQs : level'[i] => level[i]
  BY <1>1, <1>2 DEF TypeInv
<1>9. NoInterruptLost' /\ pending' \in [IRQs -> BOOLEAN]
  BY <1>1, <1>2, <1>7, <1>8 DEF NoInterruptLost, TypeInv
<1> QED
  BY <1>2, <1>4, <1>5, <1>8, <1>9, ServedStep

\* plic_complete(): the PLIC looks at the line again.
LEMMA PlicCompleteStep ==
  ASSUME TrapConstants, IInv, NEW h \in Harts, PlicComplete(h)
  PROVE  IInv'
<1>1. TypeInv /\ NoInterruptLost /\ served[h] \in ServedType /\ ServedOK(h)
  BY DEF IInv, TypeInv
<1>2. /\ served[h].step = "complete"
      /\ pending' = [pending EXCEPT ![served[h].irq] = level[served[h].irq]]
      /\ served' = [served EXCEPT ![h] = [step |-> "done", irq |-> None]]
      /\ UNCHANGED <<hart, cpuProc, at, which, tf, kt, intena, killed, level, expect, doomed>>
  BY DEF PlicComplete
<1>3. PICK i \in IRQs : i = served[h].irq
  BY <1>1, <1>2 DEF ServedOK, ServedType
<1>4. PICK d \in ServedType : d = [step |-> "done", irq |-> None]
  BY DEF ServedType
<1>5. d.step = "done" /\ d.irq = None
  BY <1>4
<1>6. \A g \in Harts \ {h} : served'[g] = served[g]
  BY <1>1, <1>2 DEF TypeInv
<1>7. \A j \in IRQs \ {i} : InService(j) => InService(j)'
  BY <1>3, <1>6 DEF InService
<1>8. level[i] \in BOOLEAN /\ pending \in [IRQs -> BOOLEAN] /\ level' \in [IRQs -> BOOLEAN]
  BY <1>1, <1>2 DEF TypeInv
<1>9. /\ pending' \in [IRQs -> BOOLEAN] /\ (level[i] => pending'[i])
      /\ \A j \in IRQs \ {i} : pending'[j] = pending[j]
  BY <1>2, <1>3, <1>8
<1>10. NoInterruptLost'
  BY <1>1, <1>2, <1>7, <1>9 DEF NoInterruptLost
<1> QED
  BY <1>2, <1>4, <1>5, <1>8, <1>9, <1>10, ServedStep

-----------------------------------------------------------------------------
\* The invariant holds at the start ...
LEMMA InitIInv == ASSUME TrapConstants, Init PROVE IInv
<1>1. TypeInv
  BY TypeInit
<1>2. /\ \A h \in Harts : /\ hart[h].run = h /\ hart[h].priv = "S" /\ hart[h].tp = h
                          /\ hart[h].pc = Kernel(h) /\ hart[h].stvec = "kernelvec"
                          /\ cpuProc[h] = None /\ served[h] = Idle
      /\ \A c \in Contexts : kt[c] = None
  BY DEF Init
<1>3. RunOK
  <2>1. \A h \in Harts : hart[h].run = h
    BY <1>2
  <2> QED
    BY <2>1, Zenon DEF RunOK
<1>4. ASSUME NEW h \in Harts PROVE Here(h)
  <2>1. h \notin Procs /\ kt[h] = None
    BY <1>2, Distinct
  <2>2. UserOK(h) /\ CauseOK(h) /\ SchedulerOK(h)
    BY <1>2, <2>1 DEF UserOK, CauseOK, SchedulerOK
  <2>3. KernelOK(h)
    BY <1>2, <2>1, SMTT(60) DEF KernelOK
  <2>4. ServedOK(h)
    BY <1>2, ServedTypes DEF ServedOK
  <2> QED
    BY <2>2, <2>3, <2>4 DEF Here
<1>5. ASSUME NEW p \in Procs PROVE ProcOK(p)
  <2>1. kt[p] = None
    BY <1>2, Distinct
  <2>2. at[p] = "return" /\ tf[p].tp = p /\ tf[p].epc = <<p, 0>> /\ expect[p] = 0 /\ ~doomed[p]
    BY DEF Init
  <2> QED
    BY <2>1, <2>2 DEF ProcOK, Parked
<1>6. NoInterruptLost
  BY DEF Init, NoInterruptLost
<1> QED
  BY <1>1, <1>2, <1>3, <1>4, <1>5, <1>6 DEF IInv, Here, FrameOK

\* One step of a hart that runs process p.
ProcStep(h, p) ==
  \/ \E cause \in {"syscall", "timer", "external", "fault"} : Uservec(h, p, cause)
  \/ Syscall(h, p) \/ SyscallSleeps(h, p) \/ UserDevDone(h, p)
  \/ CheckKilled(h, p) \/ IntrOff(h, p) \/ Resume(h, p)

\* One step of a hart, whatever it runs.
HartStep(h) ==
  \/ Usertrap(h) \/ Usertrapret(h) \/ KernelYield(h) \/ KernelTrapRet(h)
  \/ \E cause \in {"timer", "external"} : Kernelvec(h, cause)
  \/ PlicClaim(h) \/ Serve(h) \/ PlicComplete(h)

\* ... and every step keeps it.
LEMMA NextIInv == ASSUME TrapConstants, IInv, [Next]_vars PROVE IInv'
<1>1. ASSUME NEW h \in Harts, NEW p \in Procs, ProcStep(h, p) PROVE IInv'
  BY <1>1, UservecStep, SyscallStep, SyscallSleepsStep, UserDevDoneStep, CheckKilledStep,
     IntrOffStep, ResumeStep DEF ProcStep
<1>2. ASSUME NEW h \in Harts, HartStep(h) PROVE IInv'
  <2>1. CASE \E cause \in {"timer", "external"} : Kernelvec(h, cause)
    BY <2>1, KernelvecStep
  <2>2. CASE Usertrap(h) \/ Usertrapret(h)
    <3>1. Usertrapret(h) => hart[h].run \in Procs
      BY DEF Usertrapret, Runs
    <3> QED
      BY <2>2, <3>1, UsertrapStep, UsertrapretStep
  <2>3. CASE KernelYield(h) \/ KernelTrapRet(h)
    BY <2>3, KernelYieldStep, KernelTrapRetStep
  <2>4. CASE PlicClaim(h) \/ Serve(h) \/ PlicComplete(h)
    BY <2>4, PlicClaimStep, ServeStep, PlicCompleteStep
  <2> QED
    BY <1>2, <2>1, <2>2, <2>3, <2>4 DEF HartStep
<1>3. ASSUME NEW i \in IRQs, DeviceRaises(i) PROVE IInv'
  BY <1>3, DeviceRaisesStep
<1>4. ASSUME NEW p \in Procs, Kill(p) PROVE IInv'
  BY <1>4, KillStep
<1>5. CASE UNCHANGED vars
  <2>1. TypeInv'
    BY <1>5 DEF vars, IInv, TypeInv
  <2>2. \A g \in Harts : ServedOK(g)'
    BY <1>5 DEF vars, IInv, ServedOK
  <2>3. NoInterruptLost'
    BY <1>5 DEF vars, IInv, NoInterruptLost, InService
  <2> QED
    BY <1>5, <2>1, <2>2, <2>3, Aside DEF vars
<1>6. Next => \/ \E h \in Harts, p \in Procs : ProcStep(h, p)
              \/ \E h \in Harts : HartStep(h)
              \/ \E i \in IRQs : DeviceRaises(i)
              \/ \E p \in Procs : Kill(p)
  BY DEF Next, ProcStep, HartStep
<1> QED
  BY <1>1, <1>2, <1>3, <1>4, <1>5, <1>6

\* The inductive invariant: on every hart the CSRs, tp, stvec and the saved
\* frames fit what its context is doing, and no context is on two harts.
THEOREM Invariance == ASSUME TrapConstants PROVE Spec => []IInv
<1>1. Init => IInv
  BY InitIInv
<1>2. IInv /\ [Next]_vars => IInv'
  BY NextIInv
<1> QED
  BY <1>1, <1>2, PTL DEF Spec

\* The invariant is strong enough.
LEMMA IInvSafe == ASSUME TrapConstants, IInv PROVE TrapsSafe
<1>1. ASSUME NEW h \in Harts
      PROVE  Here(h) /\ hart[h] \in HartType /\ hart[h].priv \in {"U", "S"} /\ hart[h].run \in Procs \union {h}
  BY Before, HartFields DEF IInv, RunOK
<1>2. TrapsReachTheirVector
  BY <1>1 DEF TrapsReachTheirVector, Here, UserOK, KernelOK, Masked
<1>3. ResumesWhereTrapped
  BY <1>1 DEF ResumesWhereTrapped, Here, UserOK, KernelOK
<1>4. MyprocIsRunning
  BY <1>1 DEF MyprocIsRunning, Here, KernelOK
<1>5. KilledNeverReturns
  BY DEF KilledNeverReturns, IInv, ProcOK
<1> QED
  BY <1>2, <1>3, <1>4, <1>5 DEF TrapsSafe, IInv

\* Every trap finds its vector; every context goes on where it was, although
\* kerneltrap() may yield() in between and come back on another hart; myproc()
\* is the process that runs; the PLIC loses no interrupt; and a process killed
\* before it trapped is not let back to user mode.
THEOREM TrapsAreSafe == ASSUME TrapConstants PROVE Spec => []TrapsSafe
<1>1. IInv => TrapsSafe
  BY IInvSafe
<1> QED
  BY <1>1, Invariance, PTL
=============================================================================
