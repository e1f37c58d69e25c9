------------------------------- MODULE Ticks --------------------------------
(***************************************************************************)
(* kernel/sysproc.c and kernel/trap.c: sys_sleep() and the clock interrupt *)
(* that advances ticks and wakes the sleepers.  ticks is unsigned and      *)
(* wraps at UINT; elapsed records how many interrupts a call has really    *)
(* seen.  A woken sleeper looks at ticks before UINT ticks have passed     *)
(* (thirteen years at ten ticks a second), the bound Prompt.               *)
(***************************************************************************)
EXTENDS Integers, FiniteSets

CONSTANTS Procs,
          Durations,   \* what sys_sleep() is asked for, negative values included
          UINT         \* 2^32

VARIABLES
  ticks,
  at,               \* each process: "user", "check" (runnable in the loop), "asleep"
  asked,            \* the argument n
  n, ticks0,        \* the locals of sys_sleep()
  killed, elapsed,
  returned          \* what the last call returned

vars == <<ticks, at, asked, n, ticks0, killed, elapsed, returned>>

\* clockintr() on CPU 0
Prompt == \A p \in Procs : at[p] = "user" \/ elapsed[p] < UINT - 1
ClockIntr ==
  /\ Prompt
  /\ ticks' = (ticks + 1) % UINT
  /\ at' = [p \in Procs |-> IF at[p] = "asleep" THEN "check" ELSE at[p]]
  /\ elapsed' = [p \in Procs |-> IF at[p] = "user" THEN 0 ELSE elapsed[p] + 1]
  /\ UNCHANGED <<asked, n, ticks0, killed, returned>>

\* sys_sleep(k): a negative k counts as 0.
SysSleep(p, k) ==
  /\ at[p] = "user" /\ ~killed[p]
  /\ asked' = [asked EXCEPT ![p] = k]
  /\ n' = [n EXCEPT ![p] = IF k < 0 THEN 0 ELSE k]
  /\ ticks0' = [ticks0 EXCEPT ![p] = ticks]
  /\ elapsed' = [elapsed EXCEPT ![p] = 0]
  /\ at' = [at EXCEPT ![p] = "check"]
  /\ returned' = [returned EXCEPT ![p] = 0]
  /\ UNCHANGED <<ticks, killed>>

Mut_TooEarly(p) == ticks = ticks0[p] /\ n[p] > 0
TooEarly(p) == (ticks - ticks0[p]) % UINT < n[p]

SleepMore(p) ==
  /\ at[p] = "check" /\ TooEarly(p) /\ ~killed[p]
  /\ at' = [at EXCEPT ![p] = "asleep"]
  /\ UNCHANGED <<ticks, asked, n, ticks0, killed, elapsed, returned>>

\* Return v; the locals are dead.
Return(p, v) ==
  /\ at' = [at EXCEPT ![p] = "user"]
  /\ returned' = [returned EXCEPT ![p] = v]
  /\ asked' = [asked EXCEPT ![p] = 0] /\ n' = [n EXCEPT ![p] = 0]
  /\ ticks0' = [ticks0 EXCEPT ![p] = 0] /\ elapsed' = [elapsed EXCEPT ![p] = 0]
  /\ UNCHANGED <<ticks, killed>>

SleepKilled(p) == at[p] = "check" /\ TooEarly(p) /\ killed[p] /\ Return(p, -1)
SleepDone(p) == at[p] = "check" /\ ~TooEarly(p) /\ Return(p, 0)

Kill(p) ==
  /\ ~killed[p]
  /\ killed' = [killed EXCEPT ![p] = TRUE]
  /\ at' = [at EXCEPT ![p] = IF @ = "asleep" THEN "check" ELSE @]
  /\ UNCHANGED <<ticks, asked, n, ticks0, elapsed, returned>>

Init ==
  /\ ticks = 0
  /\ at = [p \in Procs |-> "user"] /\ asked = [p \in Procs |-> 0]
  /\ n = [p \in Procs |-> 0] /\ ticks0 = [p \in Procs |-> 0]
  /\ killed = [p \in Procs |-> FALSE] /\ elapsed = [p \in Procs |-> 0]
  /\ returned = [p \in Procs |-> 0]

Sleep(p) == SleepMore(p) \/ SleepKilled(p) \/ SleepDone(p)
Next == ClockIntr \/ \E p \in Procs : Sleep(p) \/ Kill(p) \/ \E k \in Durations : SysSleep(p, k)
Spec == Init /\ [][Next]_vars

----------------------------------------------------------------------------
\* sys_sleep() returns 0 only after as many clock interrupts as it was asked
\* for, also when ticks wraps while it sleeps.
SleepsLongEnough ==
  [][\A p \in Procs : at[p] = "check" /\ at'[p] = "user" /\ returned'[p] = 0 => elapsed[p] >= asked[p]]_vars

\* Nobody sleeps on past its time: whoever is asleep still has ticks to wait
\* for, and the next clock interrupt will wake it.
NoOversleeping == \A p \in Procs : at[p] = "asleep" => elapsed[p] < asked[p]

(* sys_sleep() keeps its time: not too short, also when ticks wraps, and   *)
(* not too long.                                                           *)
SleepsExactly == SleepsLongEnough /\ []NoOversleeping
=============================================================================
