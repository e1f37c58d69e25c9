--------------------------- MODULE SpinlockProofs ---------------------------
(***************************************************************************)
(* Proofs about Spinlock, for any set of CPUs and any number of locks:     *)
(* mutual exclusion, the absence of the panics of spinlock.c, and that     *)
(* interrupts are off while a lock is held and restored afterwards.        *)
(***************************************************************************)
EXTENDS Spinlock, FiniteSetTheorems, TLAPS

\* lk->locked and lk->cpu against the locks that have been won: lk->cpu lags
\* behind lk->locked in acquire() and runs ahead of it in release().
OwnerInv ==
  /\ \A t \in Contexts :
       /\ pc[t] \in {"set_cpu", "clear_cpu", "unlock"} => lk[t] \in holds[t]
       /\ pc[t] \in {"push_off", "holding", "holding_cpu", "test_and_set", "pop_off"} =>
            lk[t] \notin holds[t]
       /\ \A l \in holds[t] :
            /\ locked[l]
            /\ IF lk[t] = l /\ pc[t] \in {"set_cpu", "unlock"}
               THEN cpu[l] = NoCpu ELSE cpu[l] = t[1]
  /\ \A l \in Locks : (\A t \in Contexts : l \notin holds[t]) => ~locked[l] /\ cpu[l] = NoCpu

\* What is not running holds nothing; a handler that is not running is not
\* inside acquire() either.
LevelInv ==
  \A t \in Contexts :
    /\ ~Runs(t) => holds[t] = {} /\ pc[t] \in {"run", "push_off"}
    /\ ~Runs(t) /\ t[2] = "handler" => pc[t] = "run"
    /\ ~Runs(t) /\ t[2] = "thread" => base[t]
    /\ t[2] = "handler" => ~base[t]

\* push_off() calls not yet undone that belong to no lock held.
Pending(t) == IF pc[t] \in {"holding", "holding_cpu", "test_and_set", "pop_off"} THEN 1 ELSE 0

\* noff counts the locks held; SIE and intena follow from it.
NoffInv ==
  \A t \in Contexts :
    /\ Runs(t) =>
         /\ noff[t[1]] = Cardinality(holds[t]) + Pending(t)
         /\ intr[t[1]] <=> (noff[t[1]] = 0 /\ base[t])
         /\ noff[t[1]] # 0 => (intena[t[1]] <=> base[t])
    /\ pc[t] = "push_off" /\ holds[t] = {} => (old[t] <=> base[t])

IInv == TypeOK /\ MutualExclusion /\ OwnerInv /\ LevelInv /\ NoffInv

----------------------------------------------------------------------------
\* Sets of locks are finite; their sizes change by one.
LEMMA LockSets ==
  ASSUME NEW S \in SUBSET Locks
  PROVE  /\ IsFiniteSet(S)
         /\ Cardinality(S) \in Nat
         /\ Cardinality(S) = 0 <=> S = {}
         /\ \A l \in Locks \ S : Cardinality(S \union {l}) = Cardinality(S) + 1
         /\ \A l \in S : Cardinality(S \ {l}) = Cardinality(S) - 1
<1>1. IsFiniteSet(Locks)
  BY FS_Interval, SpinlockConstants DEF Locks
<1>2. IsFiniteSet(S)
  BY <1>1, FS_Subset
<1>3. Cardinality(S) \in Nat /\ (Cardinality(S) = 0 <=> S = {})
  BY <1>2, FS_CardinalityType, FS_EmptySet
<1>4. \A l \in Locks \ S : Cardinality(S \union {l}) = Cardinality(S) + 1
  BY <1>2, FS_AddElement
<1>5. \A l \in S : Cardinality(S \ {l}) = Cardinality(S) - 1
  BY <1>2, FS_RemoveElement
<1> QED
  BY <1>2, <1>3, <1>4, <1>5

\* Two contexts of one CPU do not both run.
LEMMA OneRuns ==
  ASSUME TypeOK, NEW t \in Contexts, NEW u \in Contexts, t[1] = u[1], t # u
  PROVE  Runs(t) => ~Runs(u)
  BY DEF Contexts, Levels, Runs

LEMMA InitIInv == Init => IInv
<1> SUFFICES ASSUME Init PROVE IInv
  OBVIOUS
<1> USE SpinlockConstants DEF Init
<1>1. TypeOK
  BY DEF TypeOK, Locks, Places, Levels
<1>2. MutualExclusion /\ OwnerInv
  BY DEF MutualExclusion, OwnerInv
<1>3. LevelInv
  BY DEF LevelInv, Runs, Contexts, Levels
<1>4. NoffInv
  <2>1. Cardinality({}) = 0
    BY FS_EmptySet
  <2> QED
    BY <2>1 DEF NoffInv, Pending, Contexts
<1> QED
  BY <1>1, <1>2, <1>3, <1>4 DEF IInv

----------------------------------------------------------------------------
LEMMA NextTypeOK ==
  ASSUME TypeOK, LevelInv, [Next]_vars PROVE TypeOK'
<1> USE DEF TypeOK
<1>1. ASSUME NEW t \in Contexts, NEW l \in Locks, Acquire(t, l) PROVE TypeOK'
  BY <1>1 DEF Acquire, Goto, Places, spin, percpu, Contexts
<1>2. ASSUME NEW t \in Contexts, NEW l \in Locks, Release(t, l) PROVE TypeOK'
  BY <1>2 DEF Release, Goto, Places, spin, percpu
<1>3. ASSUME NEW t \in Contexts, PushOff(t) PROVE TypeOK'
  BY <1>3 DEF PushOff, Goto, Places, spin, Contexts
<1>4. ASSUME NEW t \in Contexts, HoldingLocked(t) PROVE TypeOK'
  BY <1>4 DEF HoldingLocked, Goto, Places, spin, percpu
<1>5. ASSUME NEW t \in Contexts, HoldingCpu(t) PROVE TypeOK'
  BY <1>5 DEF HoldingCpu, Goto, Places, spin, percpu
<1>6. ASSUME NEW t \in Contexts, TestAndSet(t) PROVE TypeOK'
  BY <1>6 DEF TestAndSet, Goto, Places, percpu
<1>7. ASSUME NEW t \in Contexts, SetCpu(t) PROVE TypeOK'
  BY <1>7 DEF SetCpu, Goto, Places, percpu, Contexts
<1>8. ASSUME NEW t \in Contexts, ClearCpu(t) PROVE TypeOK'
  BY <1>8 DEF ClearCpu, Goto, Places, percpu
<1>9. ASSUME NEW t \in Contexts, Unlock(t) PROVE TypeOK'
  BY <1>9 DEF Unlock, Goto, Places, percpu
<1>10. ASSUME NEW t \in Contexts, PopOff(t) PROVE TypeOK'
  <2>1. noff[t[1]] - 1 \in Nat /\ (noff[t[1]] = 1 /\ intena[t[1]]) \in BOOLEAN
    BY <1>10 DEF PopOff, Contexts
  <2>2. noff' \in [CPUs -> Nat] /\ intr' \in [CPUs -> BOOLEAN]
    BY <1>10, <2>1 DEF PopOff
  <2>3. pc' \in [Contexts -> Places]
    BY <1>10 DEF PopOff, Goto, Places
  <2> QED
    BY <1>10, <2>2, <2>3 DEF PopOff, spin
<1>11. ASSUME NEW c \in CPUs, Interrupt(c) PROVE TypeOK'
  BY <1>11 DEF Interrupt, Levels, spin
<1>12. ASSUME NEW c \in CPUs, ReturnFromInterrupt(c) PROVE TypeOK'
  BY <1>12 DEF ReturnFromInterrupt, Levels, spin
<1>13. ASSUME NEW c \in CPUs, NEW b \in BOOLEAN, SetInterrupts(c, b) PROVE TypeOK'
  <2>1. intr' \in [CPUs -> BOOLEAN] /\ base' \in [Contexts -> BOOLEAN]
    BY <1>13 DEF SetInterrupts
  <2> QED
    BY <1>13, <2>1 DEF SetInterrupts, spin
<1>14. CASE UNCHANGED vars
  BY <1>14 DEF vars
<1> QED
  BY <1>1, <1>2, <1>3, <1>4, <1>5, <1>6, <1>7, <1>8, <1>9, <1>10, <1>11, <1>12, <1>13,
     <1>14 DEF Next, Step

----------------------------------------------------------------------------
\* A context's own steps leave the rest of the contexts where they were.
LEMMA NextOwner ==
  ASSUME IInv, [Next]_vars PROVE MutualExclusion' /\ OwnerInv'
<1> USE DEF IInv, TypeOK, MutualExclusion, OwnerInv
<1>n. \A c \in CPUs : c # NoCpu
  BY SpinlockConstants
<1>1. ASSUME NEW t \in Contexts, NEW l \in Locks, Acquire(t, l)
      PROVE  MutualExclusion' /\ OwnerInv'
  <2>1. l \notin holds[t]
    BY <1>1 DEF Acquire, Locks
  <2> QED
    BY <1>1, <2>1 DEF Acquire, Goto, spin
<1>2. ASSUME NEW t \in Contexts, NEW l \in Locks, Release(t, l)
      PROVE  MutualExclusion' /\ OwnerInv'
  BY <1>2 DEF Release, Goto, spin
<1>3. ASSUME NEW t \in Contexts, PushOff(t) PROVE MutualExclusion' /\ OwnerInv'
  BY <1>3 DEF PushOff, Goto, spin
<1>4. ASSUME NEW t \in Contexts, HoldingLocked(t) PROVE MutualExclusion' /\ OwnerInv'
  BY <1>4 DEF HoldingLocked, Goto, spin
<1>5. ASSUME NEW t \in Contexts, HoldingCpu(t) PROVE MutualExclusion' /\ OwnerInv'
  BY <1>5 DEF HoldingCpu, Goto, spin
<1>6. ASSUME NEW t \in Contexts, TestAndSet(t) PROVE MutualExclusion' /\ OwnerInv'
  <2>1. \A u \in Contexts : lk[t] \notin holds[u]
    BY <1>6 DEF TestAndSet
  <2>2. MutualExclusion'
    BY <1>6, <2>1 DEF TestAndSet
  <2>3. cpu[lk[t]] = NoCpu
    BY <2>1
  <2> QED
    BY <1>6, <2>1, <2>2, <2>3 DEF TestAndSet, Goto
<1>7. ASSUME NEW t \in Contexts, SetCpu(t) PROVE MutualExclusion' /\ OwnerInv'
  BY <1>7 DEF SetCpu, Goto
<1>8. ASSUME NEW t \in Contexts, ClearCpu(t) PROVE MutualExclusion' /\ OwnerInv'
  BY <1>8 DEF ClearCpu, Goto
<1>9. ASSUME NEW t \in Contexts, Unlock(t) PROVE MutualExclusion' /\ OwnerInv'
  <2>1. lk[t] \in holds[t] /\ cpu[lk[t]] = NoCpu
    BY <1>9 DEF Unlock
  <2>2. \A u \in Contexts : lk[t] \notin holds'[u]
    BY <1>9, <2>1 DEF Unlock
  <2> QED
    BY <1>9, <2>1, <2>2 DEF Unlock, Goto
<1>10. ASSUME NEW t \in Contexts, PopOff(t) PROVE MutualExclusion' /\ OwnerInv'
  BY <1>10 DEF PopOff, Goto, spin
<1>11. ASSUME NEW c \in CPUs, Interrupt(c) PROVE MutualExclusion' /\ OwnerInv'
  BY <1>11 DEF Interrupt, spin
<1>12. ASSUME NEW c \in CPUs, ReturnFromInterrupt(c) PROVE MutualExclusion' /\ OwnerInv'
  BY <1>12 DEF ReturnFromInterrupt, spin
<1>13. ASSUME NEW c \in CPUs, NEW b \in BOOLEAN, SetInterrupts(c, b)
       PROVE  MutualExclusion' /\ OwnerInv'
  BY <1>13 DEF SetInterrupts, spin
<1>14. CASE UNCHANGED vars
  BY <1>14 DEF vars
<1> HIDE DEF IInv, TypeOK, MutualExclusion, OwnerInv
<1> QED
  BY <1>1, <1>2, <1>3, <1>4, <1>5, <1>6, <1>7, <1>8, <1>9, <1>10, <1>11, <1>12, <1>13,
     <1>14 DEF Next, Step

\* An interrupt finds the thread without locks because NoffInv ties SIE to noff.
LEMMA NextLevel ==
  ASSUME IInv, [Next]_vars PROVE LevelInv'
<1> USE DEF IInv, TypeOK, LevelInv, Runs
<1>1. ASSUME NEW t \in Contexts, NEW l \in Locks, Acquire(t, l) \/ Release(t, l)
      PROVE  LevelInv'
  BY <1>1 DEF Acquire, Release, Goto, percpu
<1>2. ASSUME NEW t \in Contexts, Step(t) PROVE LevelInv'
  <2>1. level' = level /\ base' = base /\ Runs(t)
    BY <1>2 DEF Step, PushOff, HoldingLocked, HoldingCpu, TestAndSet, SetCpu, ClearCpu,
       Unlock, PopOff, percpu
  <2>2. \A u \in Contexts : u # t => pc'[u] = pc[u] /\ holds'[u] = holds[u]
    <3>1. pc \in [Contexts -> Places] /\ holds \in [Contexts -> SUBSET Locks]
      OBVIOUS
    <3> HIDE DEF IInv, TypeOK, LevelInv, Runs
    <3>2. CASE PushOff(t) \/ HoldingLocked(t) \/ HoldingCpu(t)
      BY <3>1, <3>2 DEF PushOff, HoldingLocked, HoldingCpu, Goto
    <3>3. CASE TestAndSet(t) \/ SetCpu(t) \/ ClearCpu(t)
      BY <3>1, <3>3 DEF TestAndSet, SetCpu, ClearCpu, Goto
    <3>4. CASE Unlock(t) \/ PopOff(t)
      BY <3>1, <3>4 DEF Unlock, PopOff, Goto
    <3> QED BY <1>2, <3>2, <3>3, <3>4 DEF Step
  <2> QED
    BY <2>1, <2>2
<1>3. ASSUME NEW c \in CPUs, Interrupt(c) PROVE LevelInv'
  <2> DEFINE th == <<c, "thread">>  hd == <<c, "handler">>
  <2>0. th \in Contexts /\ hd \in Contexts
    BY DEF Contexts, Levels
  <2>1. level[c] = "thread"
    <3> SUFFICES ASSUME level[c] # "thread" PROVE FALSE
      OBVIOUS
    <3>1. Runs(hd)
      BY DEF Levels
    <3> QED
      BY <1>3, <2>0, <3>1 DEF Interrupt, NoffInv
  <2>2. noff[c] = 0 /\ base[th] /\ Cardinality(holds[th]) + Pending(th) = 0
    BY <1>3, <2>0, <2>1 DEF Interrupt, NoffInv
  <2>3. holds[th] \in SUBSET Locks
    BY <2>0
  <2>4. holds[th] = {} /\ Pending(th) = 0
    BY <2>2, <2>3, LockSets DEF Pending
  <2>5. pc[th] \in {"run", "push_off"}
    <3>1. pc[th] \in Places
      BY <2>0
    <3>2. pc[th] \notin {"set_cpu", "clear_cpu", "unlock"}
      BY <2>0, <2>4 DEF OwnerInv
    <3>3. pc[th] \notin {"holding", "holding_cpu", "test_and_set", "pop_off"}
      BY <2>4 DEF Pending
    <3> QED
      BY <3>1, <3>2, <3>3 DEF Places
  <2>6. \A u \in Contexts : u[1] = c => u = th \/ u = hd
    BY DEF Contexts, Levels
  <2>7. level' = [level EXCEPT ![c] = "handler"] /\ UNCHANGED <<pc, holds, base>>
    BY <1>3 DEF Interrupt
  <2>8. \A u \in Contexts : u[1] # c => level'[u[1]] = level[u[1]]
    BY <2>7 DEF Contexts
  <2>9. level'[c] = "handler"
    BY <2>7
  <2> QED
    BY <2>0, <2>2, <2>4, <2>5, <2>6, <2>7, <2>8, <2>9
<1>4. ASSUME NEW c \in CPUs, ReturnFromInterrupt(c) PROVE LevelInv'
  <2>6. \A u \in Contexts : u[1] = c => u = <<c, "thread">> \/ u = <<c, "handler">>
    BY DEF Contexts, Levels
  <2>7. /\ level' = [level EXCEPT ![c] = "thread"] /\ UNCHANGED <<pc, holds, base>>
        /\ pc[<<c, "handler">>] = "run" /\ holds[<<c, "handler">>] = {}
    BY <1>4 DEF ReturnFromInterrupt
  <2>8. \A u \in Contexts : u[1] # c => level'[u[1]] = level[u[1]]
    BY <2>7 DEF Contexts
  <2>9. level'[c] = "thread"
    BY <2>7
  <2> QED
    BY <2>6, <2>7, <2>8, <2>9
<1>5. ASSUME NEW c \in CPUs, NEW b \in BOOLEAN, SetInterrupts(c, b) PROVE LevelInv'
  BY <1>5 DEF SetInterrupts, Contexts, Levels
<1>6. CASE UNCHANGED vars
  BY <1>6 DEF vars
<1> HIDE DEF IInv, TypeOK, LevelInv, Runs
<1> QED
  BY <1>1, <1>2, <1>3, <1>4, <1>5, <1>6 DEF Next

\* noff[c], intr[c] and intena[c] belong to the context that runs on c, so a step
\* of one CPU leaves NoffInv alone everywhere else.
NoffAt(t) ==
  /\ Runs(t) =>
       /\ noff[t[1]] = Cardinality(holds[t]) + Pending(t)
       /\ intr[t[1]] <=> (noff[t[1]] = 0 /\ base[t])
       /\ noff[t[1]] # 0 => (intena[t[1]] <=> base[t])
  /\ pc[t] = "push_off" /\ holds[t] = {} => (old[t] <=> base[t])

LEMMA NoffElsewhere ==
  ASSUME NoffInv, NEW u \in Contexts,
         UNCHANGED <<noff[u[1]], intr[u[1]], intena[u[1]], level[u[1]]>>,
         UNCHANGED <<pc[u], holds[u], base[u], old[u]>>
  PROVE  NoffAt(u)'
  BY DEF NoffInv, NoffAt, Runs, Pending

\* The other context of the same CPU does not run, and its locals are its own.
LEMMA NoffBeside ==
  ASSUME TypeOK, NoffInv, NEW t \in Contexts, NEW u \in Contexts, u # t, u[1] = t[1],
         Runs(t), level' = level, UNCHANGED <<pc[u], holds[u], base[u], old[u]>>
  PROVE  NoffAt(u)'
<1>1. ~Runs(u)
  BY OneRuns
<1>2. ~Runs(u)'
  BY <1>1 DEF Runs
<1> QED
  BY <1>2 DEF NoffInv, NoffAt

LEMMA NextNoff ==
  ASSUME IInv, [Next]_vars PROVE NoffInv'
<1>t. TypeOK /\ NoffInv /\ OwnerInv /\ LevelInv
  BY DEF IInv
<1>c. \A t \in Contexts : t[1] \in CPUs
  BY DEF Contexts
<1>h. \A t \in Contexts : holds[t] \in SUBSET Locks
  BY <1>t DEF TypeOK
<1>k. \A t \in Contexts : /\ Cardinality(holds[t]) \in Nat
                          /\ Cardinality(holds[t]) = 0 <=> holds[t] = {}
  BY <1>h, LockSets
<1>n. \A t \in Contexts : NoffAt(t)
  BY <1>t DEF NoffInv, NoffAt
<1>p. \A t \in Contexts : Pending(t) \in {0, 1}
  BY DEF Pending
<1>s. SUFFICES \A u \in Contexts : NoffAt(u)'
  BY DEF NoffInv, NoffAt
<1>1. ASSUME NEW t \in Contexts, NEW l \in Locks, Acquire(t, l), NEW u \in Contexts
      PROVE  NoffAt(u)'
  <2>1. CASE u = t
    <3>1. pc[t] = "run" /\ pc'[t] = "push_off" /\ (old'[t] <=> intr[t[1]])
      BY <1>1, <1>t DEF Acquire, Goto, TypeOK
    <3>2. Pending(t) = 0 /\ Pending(t)' = 0
      BY <3>1 DEF Pending
    <3>3. holds[t] = {} => (intr[t[1]] <=> base[t])
      <4>1. Runs(t) /\ NoffAt(t)
        BY <1>1, <1>n DEF Acquire
      <4>2. noff[t[1]] = Cardinality(holds[t]) + 0 /\ Cardinality(holds[t]) \in Nat
        BY <1>k, <3>2, <4>1 DEF NoffAt
      <4>3. holds[t] = {} => noff[t[1]] = 0
        <5>1. holds[t] = {} => Cardinality(holds[t]) = 0
          BY <1>k
        <5> QED BY <4>2, <5>1
      <4> QED BY <4>1, <4>3 DEF NoffAt
    <3> QED
      BY <1>1, <1>t, <2>1, <3>1, <3>2, <3>3 DEF Acquire, NoffInv, NoffAt, percpu, Runs
  <2>2. CASE u # t
    BY <1>1, <1>t, <2>2, NoffElsewhere DEF Acquire, Goto, percpu, TypeOK
  <2> QED
    BY <2>1, <2>2
<1>2. ASSUME NEW t \in Contexts, NEW l \in Locks, Release(t, l), NEW u \in Contexts
      PROVE  NoffAt(u)'
  <2>1. CASE u = t
    <3>1. Pending(t) = 0 /\ Pending(t)' = 0 /\ pc'[t] = "clear_cpu"
      BY <1>2, <1>t DEF Release, Goto, Pending, TypeOK
    <3> QED
      <4>1. UNCHANGED <<noff, intr, intena, level, holds, base>> /\ NoffAt(t)
        BY <1>2, <1>n DEF Release, percpu
      <4> QED BY <2>1, <3>1, <4>1 DEF NoffAt, Runs
  <2>2. CASE u # t
    BY <1>2, <1>t, <2>2, NoffElsewhere DEF Release, Goto, percpu, TypeOK
  <2> QED
    BY <2>1, <2>2
<1>3. ASSUME NEW t \in Contexts, PushOff(t), NEW u \in Contexts PROVE NoffAt(u)'
  <2>1. CASE u = t
    <3>1. Pending(t) = 0 /\ Pending(t)' = 1 /\ pc'[t] = "holding"
      BY <1>3, <1>t DEF PushOff, Goto, Pending, TypeOK
    <3>2. noff'[t[1]] = noff[t[1]] + 1 /\ ~intr'[t[1]] /\ holds' = holds /\ base' = base
      BY <1>3, <1>t, <1>c DEF PushOff, TypeOK
    <3>3. noff[t[1]] = Cardinality(holds[t]) /\ noff[t[1]] \in Nat
      BY <1>3, <1>t, <1>k, <3>1 DEF NoffInv, PushOff
    <3>4. intena'[t[1]] <=> base[t]
      <4>1. CASE noff[t[1]] = 0
        <5>1. holds[t] = {} /\ (old[t] <=> base[t])
          BY <1>3, <1>t, <1>k, <3>3, <4>1 DEF NoffInv, PushOff
        <5> QED
          BY <1>3, <1>t, <1>c, <4>1, <5>1 DEF PushOff, TypeOK
      <4>2. CASE noff[t[1]] # 0
        BY <1>3, <1>t, <1>c, <4>2 DEF PushOff, TypeOK, NoffInv
      <4> QED
        BY <4>1, <4>2
    <3> QED
      BY <2>1, <3>1, <3>2, <3>3, <3>4, SMTT(60) DEF NoffAt
  <2>2. CASE u # t /\ u[1] = t[1]
    BY <1>3, <1>t, <2>2, NoffBeside DEF PushOff, Goto, TypeOK
  <2>3. CASE u # t /\ u[1] # t[1]
    BY <1>3, <1>t, <1>c, <2>3, NoffElsewhere DEF PushOff, Goto, TypeOK
  <2> QED
    BY <2>1, <2>2, <2>3
<1>4. ASSUME NEW t \in Contexts, HoldingLocked(t) \/ HoldingCpu(t), NEW u \in Contexts
      PROVE  NoffAt(u)'
  <2>1. CASE u = t
    <3>1. Pending(t) = 1 /\ Pending(t)' = 1 /\ pc'[t] # "push_off"
      BY <1>4, <1>t DEF HoldingLocked, HoldingCpu, Goto, Pending, TypeOK
    <3> QED
      BY <1>4, <1>t, <2>1, <3>1, SMTT(60) DEF HoldingLocked, HoldingCpu, NoffInv, NoffAt, percpu, Runs
  <2>2. CASE u # t
    BY <1>4, <1>t, <2>2, NoffElsewhere DEF HoldingLocked, HoldingCpu, Goto, percpu, TypeOK
  <2> QED
    BY <2>1, <2>2
<1>5. ASSUME NEW t \in Contexts, TestAndSet(t), NEW u \in Contexts PROVE NoffAt(u)'
  <2>1. CASE u = t
    <3>1. Pending(t) = 1 /\ Pending(t)' = 0 /\ pc'[t] = "set_cpu"
      BY <1>5, <1>t DEF TestAndSet, Goto, Pending, TypeOK
    <3>2. lk[t] \in Locks \ holds[t] /\ holds'[t] = holds[t] \union {lk[t]}
      BY <1>5, <1>t DEF TestAndSet, OwnerInv, TypeOK
    <3>3. Cardinality(holds'[t]) = Cardinality(holds[t]) + 1
      BY <3>2, <1>h, LockSets
    <3> QED
      <4>1. UNCHANGED <<noff, intr, intena, level, base>> /\ NoffAt(t)
        BY <1>5, <1>n DEF TestAndSet, percpu
      <4>2. Cardinality(holds[t]) + 1 = Cardinality(holds'[t]) + 0
        BY <1>k, <3>3
      <4> QED BY <2>1, <3>1, <4>1, <4>2 DEF NoffAt, Runs
  <2>2. CASE u # t
    BY <1>5, <1>t, <2>2, NoffElsewhere DEF TestAndSet, Goto, percpu, TypeOK
  <2> QED
    BY <2>1, <2>2
<1>6. ASSUME NEW t \in Contexts, SetCpu(t) \/ ClearCpu(t), NEW u \in Contexts
      PROVE  NoffAt(u)'
  <2>1. CASE u = t
    <3>1. Pending(t) = 0 /\ Pending(t)' = 0 /\ pc'[t] # "push_off"
      BY <1>6, <1>t DEF SetCpu, ClearCpu, Goto, Pending, TypeOK
    <3> QED
      <4>1. UNCHANGED <<noff, intr, intena, level, holds, base>> /\ NoffAt(t)
        BY <1>6, <1>n DEF SetCpu, ClearCpu, percpu
      <4> QED BY <2>1, <3>1, <4>1 DEF NoffAt, Runs
  <2>2. CASE u # t
    BY <1>6, <1>t, <2>2, NoffElsewhere DEF SetCpu, ClearCpu, Goto, percpu, TypeOK
  <2> QED
    BY <2>1, <2>2
<1>7. ASSUME NEW t \in Contexts, Unlock(t), NEW u \in Contexts PROVE NoffAt(u)'
  <2>1. CASE u = t
    <3>1. Pending(t) = 0 /\ Pending(t)' = 1 /\ pc'[t] = "pop_off"
      BY <1>7, <1>t DEF Unlock, Goto, Pending, TypeOK
    <3>2. lk[t] \in holds[t] /\ holds'[t] = holds[t] \ {lk[t]}
      BY <1>7, <1>t DEF Unlock, OwnerInv, TypeOK
    <3>3. Cardinality(holds'[t]) = Cardinality(holds[t]) - 1
      BY <3>2, <1>h, LockSets
    <3> QED
      <4>1. UNCHANGED <<noff, intr, intena, level, base>> /\ NoffAt(t)
        BY <1>7, <1>n DEF Unlock, percpu
      <4>2. Cardinality(holds[t]) + 0 = Cardinality(holds'[t]) + 1
        BY <1>k, <3>3
      <4> QED BY <2>1, <3>1, <4>1, <4>2 DEF NoffAt, Runs
  <2>2. CASE u # t
    BY <1>7, <1>t, <2>2, NoffElsewhere DEF Unlock, Goto, percpu, TypeOK
  <2> QED
    BY <2>1, <2>2
<1>8. ASSUME NEW t \in Contexts, PopOff(t), NEW u \in Contexts PROVE NoffAt(u)'
  <2>1. CASE u = t
    <3>1. Pending(t) = 1 /\ Pending(t)' = 0 /\ pc'[t] = "run"
      BY <1>8, <1>t DEF PopOff, Goto, Pending, TypeOK
    <3>2. noff'[t[1]] = noff[t[1]] - 1 /\ UNCHANGED <<holds, base, intena, level>>
      BY <1>8, <1>t, <1>c DEF PopOff, TypeOK
    <3>3. intr'[t[1]] <=> (noff[t[1]] = 1 /\ intena[t[1]])
      BY <1>8, <1>t, <1>c DEF PopOff, TypeOK
    <3>4. /\ noff[t[1]] = Cardinality(holds[t]) + 1
          /\ intena[t[1]] <=> base[t]
      <4>1. Runs(t) /\ NoffAt(t)
        BY <1>8, <1>n DEF PopOff
      <4>2. noff[t[1]] = Cardinality(holds[t]) + 1
        BY <3>1, <4>1 DEF NoffAt
      <4>3. noff[t[1]] # 0
        BY <1>k, <4>2
      <4> QED BY <4>1, <4>2, <4>3 DEF NoffAt
    <3> QED
      BY <1>k, <2>1, <3>1, <3>2, <3>3, <3>4 DEF NoffAt
  <2>2. CASE u # t /\ u[1] = t[1]
    BY <1>8, <1>t, <2>2, NoffBeside DEF PopOff, Goto, TypeOK
  <2>3. CASE u # t /\ u[1] # t[1]
    BY <1>8, <1>t, <1>c, <2>3, NoffElsewhere DEF PopOff, Goto, TypeOK
  <2> QED
    BY <2>1, <2>2, <2>3
<1> DEFINE th(c) == <<c, "thread">>  hd(c) == <<c, "handler">>
<1>9. ASSUME NEW c \in CPUs, Interrupt(c), NEW u \in Contexts PROVE NoffAt(u)'
  <2>0. th(c) \in Contexts /\ hd(c) \in Contexts
    BY DEF Contexts, Levels
  <2>1. level[c] = "thread"
    <3>1. level[c] = "handler" => ~intr[c]
      BY <1>t, <2>0 DEF NoffInv, LevelInv, Runs
    <3> QED
      BY <1>t, <1>9, <3>1 DEF Interrupt, TypeOK, Levels
  <2>2. noff[c] = 0
    BY <1>t, <1>9, <2>0, <2>1 DEF Interrupt, NoffInv, Runs
  <2>3. holds[hd(c)] = {} /\ pc[hd(c)] = "run" /\ ~base[hd(c)]
    BY <1>t, <2>0, <2>1 DEF LevelInv, Runs
  <2>4. ~intr'[c] /\ level'[c] = "handler" /\ UNCHANGED <<noff, intena, pc, old, holds, base>>
    BY <1>t, <1>9 DEF Interrupt, TypeOK
  <2>5. CASE u = hd(c)
    <3>1. Cardinality(holds[u]) + Pending(u) = 0
      BY <1>k, <2>0, <2>3, <2>5 DEF Pending
    <3>2. Pending(u)' = Pending(u)
      BY <2>4 DEF Pending
    <3> QED
      BY <2>2, <2>3, <2>4, <2>5, <3>1, <3>2 DEF NoffAt
  <2>6. CASE u = th(c)
    BY <1>t, <2>4, <2>6 DEF NoffAt, NoffInv, Runs
  <2>7. CASE u[1] # c
    <3>1. UNCHANGED <<noff[u[1]], intr[u[1]], intena[u[1]], level[u[1]]>>
      BY <1>t, <1>c, <1>9, <2>7 DEF Interrupt, TypeOK
    <3> QED
      BY <1>t, <2>4, <3>1, NoffElsewhere
  <2>8. u = hd(c) \/ u = th(c) \/ u[1] # c
    BY DEF Contexts, Levels
  <2> QED
    BY <2>5, <2>6, <2>7, <2>8
<1>10. ASSUME NEW c \in CPUs, ReturnFromInterrupt(c), NEW u \in Contexts PROVE NoffAt(u)'
  <2>0. th(c) \in Contexts /\ hd(c) \in Contexts
    BY DEF Contexts, Levels
  <2>2. noff[c] = 0
    <3>1. Pending(hd(c)) = 0 /\ Cardinality(holds[hd(c)]) = 0
      BY <1>10, <1>k, <2>0 DEF ReturnFromInterrupt, Pending
    <3>2. noff[c] = Cardinality(holds[hd(c)]) + Pending(hd(c))
      BY <1>10, <1>t, <2>0 DEF ReturnFromInterrupt, NoffInv, Runs
    <3> QED
      BY <3>1, <3>2
  <2>3. holds[th(c)] = {} /\ pc[th(c)] \in {"run", "push_off"} /\ base[th(c)]
    BY <1>10, <1>t, <2>0 DEF ReturnFromInterrupt, LevelInv, Runs
  <2>4. intr'[c] /\ level'[c] = "thread" /\ UNCHANGED <<noff, intena, pc, old, holds, base>>
    BY <1>t, <1>10 DEF ReturnFromInterrupt, TypeOK
  <2>5. CASE u = th(c)
    <3>1. Cardinality(holds[u]) + Pending(u) = 0
      BY <1>k, <2>0, <2>3, <2>5 DEF Pending
    <3>2. Pending(u)' = Pending(u)
      BY <2>4 DEF Pending
    <3> QED
      BY <1>t, <2>2, <2>3, <2>4, <2>5, <3>1, <3>2 DEF NoffAt, NoffInv
  <2>6. CASE u = hd(c)
    BY <1>t, <2>4, <2>6 DEF NoffAt, NoffInv, Runs
  <2>7. CASE u[1] # c
    <3>1. UNCHANGED <<noff[u[1]], intr[u[1]], intena[u[1]], level[u[1]]>>
      BY <1>t, <1>c, <1>10, <2>7 DEF ReturnFromInterrupt, TypeOK
    <3> QED
      BY <1>t, <2>4, <3>1, NoffElsewhere
  <2>8. u = hd(c) \/ u = th(c) \/ u[1] # c
    BY DEF Contexts, Levels
  <2> QED
    BY <2>5, <2>6, <2>7, <2>8
<1>11. ASSUME NEW c \in CPUs, NEW b \in BOOLEAN, SetInterrupts(c, b), NEW u \in Contexts
       PROVE  NoffAt(u)'
  <2>0. th(c) \in Contexts
    BY DEF Contexts, Levels
  <2>1. CASE u = th(c)
    <3>1. pc[u] = "run" /\ holds[u] = {} /\ Runs(u) /\ u[1] = c
      BY <1>11, <2>1 DEF SetInterrupts, Runs
    <3>2. Pending(u) = 0 /\ Pending(u)' = 0
      BY <1>11, <3>1 DEF SetInterrupts, Pending
    <3>3. noff[c] = 0
      BY <1>t, <1>k, <3>1, <3>2 DEF NoffInv
    <3>4. intr'[c] = b /\ base'[u] = b /\ UNCHANGED <<noff, intena, pc, holds>>
      BY <1>t, <1>11, <2>0, <2>1 DEF SetInterrupts, TypeOK
    <3> QED
      <4>1. noff'[u[1]] = 0 /\ noff'[u[1]] = Cardinality(holds'[u]) + Pending(u)'
        <5>1. Cardinality(holds[u]) = 0
          BY <1>k, <3>1
        <5> QED BY <3>1, <3>2, <3>3, <3>4, <5>1
      <4> QED BY <3>1, <3>4, <4>1 DEF NoffAt
  <2>2. CASE u # th(c)
    <3>1. level[c] = "thread" /\ UNCHANGED <<level, noff, intena, pc, holds, old>>
      BY <1>11 DEF SetInterrupts
    <3>2. base'[u] = base[u]
      BY <1>t, <1>11, <2>2 DEF SetInterrupts, TypeOK
    <3>3. CASE u[1] = c
      <4>1. ~Runs(u)'
        BY <2>2, <3>1, <3>3 DEF Runs, Contexts, Levels
      <4> QED
        BY <1>t, <3>1, <3>2, <4>1 DEF NoffAt, NoffInv
    <3>4. CASE u[1] # c
      BY <1>t, <1>c, <1>11, <3>1, <3>2, <3>4, NoffElsewhere DEF SetInterrupts, TypeOK
    <3> QED
      BY <3>3, <3>4
  <2> QED
    BY <2>1, <2>2
<1>12. ASSUME UNCHANGED vars, NEW u \in Contexts PROVE NoffAt(u)'
  BY <1>t, <1>12, NoffElsewhere DEF vars
<1> QED
  BY <1>1, <1>2, <1>3, <1>4, <1>5, <1>6, <1>7, <1>8, <1>9, <1>10, <1>11, <1>12
  DEF Next, Step

----------------------------------------------------------------------------
\* The inductive invariant holds in every reachable state.
THEOREM Invariance == Spec => []IInv
<1>1. IInv /\ [Next]_vars => IInv'
  BY NextTypeOK, NextOwner, NextLevel, NextNoff DEF IInv
<1> QED
  BY <1>1, InitIInv, PTL DEF Spec

\* The variables of spinlock.c and struct cpu keep their types; noff is never
\* negative.
THEOREM TypeCorrect == Spec => []TypeOK
<1>1. IInv => TypeOK
  BY DEF IInv
<1> QED
  BY <1>1, Invariance, PTL

\* acquire() gives a lock to one context at a time.
THEOREM Exclusion == Spec => []MutualExclusion
<1>1. IInv => MutualExclusion
  BY DEF IInv
<1> QED
  BY <1>1, Invariance, PTL

\* No panic of acquire(), release() and pop_off() is reached.
THEOREM NoPanic == Spec => []NeverPanics
<1>1. IInv => NeverPanics
  <2> SUFFICES ASSUME IInv, NEW t \in Contexts, Runs(t)
               PROVE  /\ pc[t] = "holding_cpu" => cpu[lk[t]] # t[1]
                      /\ pc[t] = "clear_cpu" => Holding(t[1], lk[t])
                      /\ pc[t] = "pop_off" => ~intr[t[1]] /\ noff[t[1]] >= 1
    BY DEF NeverPanics
  <2>1. ASSUME pc[t] = "holding_cpu" PROVE cpu[lk[t]] # t[1]
    <3>1. lk[t] \notin holds[t] /\ lk[t] \in Locks /\ t[1] \in CPUs
      BY <2>1 DEF IInv, OwnerInv, TypeOK, Contexts
    <3>2. \A u \in Contexts : u[1] = t[1] => lk[t] \notin holds[u]
      BY <3>1, OneRuns DEF IInv, LevelInv
    <3>3. t[1] # NoCpu
      BY <3>1, SpinlockConstants
    <3> QED
      BY <3>1, <3>2, <3>3 DEF IInv, OwnerInv
  <2>2. ASSUME pc[t] = "clear_cpu" PROVE Holding(t[1], lk[t])
    BY <2>2 DEF IInv, OwnerInv, Holding
  <2>3. ASSUME pc[t] = "pop_off" PROVE ~intr[t[1]] /\ noff[t[1]] >= 1
    <3>1. Pending(t) = 1 /\ holds[t] \in SUBSET Locks
      BY <2>3 DEF Pending, IInv, TypeOK
    <3>2. Cardinality(holds[t]) \in Nat
      BY <3>1, LockSets
    <3> QED
      <4>1. Runs(t)
        BY <2>3 DEF IInv, LevelInv
      <4>2. /\ noff[t[1]] = Cardinality(holds[t]) + 1
            /\ intr[t[1]] => noff[t[1]] = 0
        BY <3>1, <4>1 DEF IInv, NoffInv
      <4> QED BY <3>2, <4>2
  <2> QED
    BY <2>1, <2>2, <2>3
<1> QED
  BY <1>1, Invariance, PTL

\* No interrupt is taken on a CPU that holds a lock or spins for one.
THEOREM Uninterruptible == Spec => []LockedMeansUninterruptible
<1>1. IInv => LockedMeansUninterruptible
  <2> SUFFICES ASSUME IInv, NEW t \in Contexts,
                      holds[t] # {} \/ pc[t] \notin {"run", "push_off"}
               PROVE  ~intr[t[1]] /\ Runs(t)
    BY DEF LockedMeansUninterruptible
  <2>1. Runs(t)
    BY DEF IInv, LevelInv
  <2>2. /\ Cardinality(holds[t]) \in Nat
        /\ holds[t] # {} => Cardinality(holds[t]) # 0
        /\ Pending(t) \in {0, 1}
    BY LockSets DEF IInv, TypeOK, Pending
  <2>3. holds[t] # {} \/ Pending(t) = 1
    BY SMTT(60) DEF IInv, OwnerInv, TypeOK, Places, Pending
  <2>4. /\ noff[t[1]] = Cardinality(holds[t]) + Pending(t)
        /\ intr[t[1]] => noff[t[1]] = 0
    BY <2>1 DEF IInv, NoffInv
  <2>5. Cardinality(holds[t]) + Pending(t) # 0
    BY <2>2, <2>3
  <2> QED
    BY <2>1, <2>4, <2>5
<1> QED
  BY <1>1, Invariance, PTL

\* push_off() and pop_off() nest: interrupts end as they began.
THEOREM Restored == Spec => []InterruptsRestored
<1>1. IInv => InterruptsRestored
  <2> SUFFICES ASSUME IInv, NEW t \in Contexts, Runs(t), pc[t] = "run", holds[t] = {}
               PROVE  intr[t[1]] = base[t]
    BY DEF InterruptsRestored
  <2>1. Cardinality(holds[t]) = 0 /\ Pending(t) = 0
    BY FS_EmptySet DEF Pending
  <2>4. /\ noff[t[1]] = Cardinality(holds[t]) + Pending(t)
        /\ intr[t[1]] <=> (noff[t[1]] = 0 /\ base[t])
    BY DEF IInv, NoffInv
  <2>2. intr[t[1]] <=> base[t]
    BY <2>1, <2>4
  <2>3. intr[t[1]] \in BOOLEAN /\ base[t] \in BOOLEAN
    BY DEF IInv, TypeOK, Contexts
  <2> QED
    BY <2>2, <2>3
<1> QED
  BY <1>1, Invariance, PTL

\* push_off() and pop_off(): interrupts are off while a lock is held or
\* awaited, and as before once none is.
THEOREM InterruptsAccounted == Spec => []InterruptsFollowLocks
  BY TypeCorrect, Uninterruptible, Restored, PTL DEF InterruptsFollowLocks
=============================================================================
