----------------------------- MODULE LogProofs -----------------------------
(***************************************************************************)
(* Proofs about Log, for any set of processes, blocks and values and any   *)
(* sizes of the log: the type invariant, that commits run alone, that no   *)
(* sleeper of begin_op() is forgotten, that the log implements AtomicDisk, *)
(* and that the space begin_op() reserves is enough when no call uses all  *)
(* of its share.                                                           *)
(***************************************************************************)
EXTENDS Log, FiniteSetTheorems, SequenceTheorems, TLAPS

CommitPhases == {"write_log", "write_head", "install", "clear", "committed"}

\* Who is doing what: outstanding counts the calls in progress, a commit has
\* one committer and no call beside it, a machine that is not up runs nobody,
\* and the log is empty between transactions.
ControlInv ==
  /\ outstanding = Cardinality(Active)
  /\ \A p \in Procs : pc[p] \in CommitPhases => committing
  /\ \A p, q \in Procs : pc[p] \in CommitPhases /\ pc[q] \in CommitPhases => p = q
  /\ committing => Active = {} /\ mode = "run"
  /\ mode \notin {"run", "panic"} => \A p \in Procs : pc[p] = "idle"
  /\ SleeperIsOwedWakeup

\* The first n blocks of the transaction are in the log as the calls see them.
Copied(n) == \A i \in 1..n : dlog[i] = View(lh[i])

\* The first n blocks of the transaction are in their home location.
Installed(n) == \A i \in 1..n : home[lh[i]] = dlog[i]

\* What the disk, the log and the cache hold at each point of a commit.
PhaseInv(p) ==
  /\ pc[p] = "write_log"  => tail \in 1..Len(lh) /\ Copied(tail - 1)
  /\ pc[p] = "write_head" => lh # <<>> /\ Copied(Len(lh))
  /\ pc[p] = "install" =>
       /\ dhead = lh /\ tail \in 1..Len(lh)
       /\ Copied(Len(lh)) /\ Installed(tail - 1)
       /\ \A i \in tail..Len(lh) : pins[lh[i]] # 0
  /\ pc[p] = "clear" => dhead = lh /\ Copied(Len(lh)) /\ Installed(Len(lh))
  /\ pc[p] = "committed" => lh = <<>>

\* The machine is up and no commit has passed its commit point.
BeforeCommitPoint == mode \in {"run", "panic"} /\ \A p \in Procs : pc[p] \notin {"install", "clear"}

RunInv ==
  /\ \A p \in Procs : PhaseInv(p)
  /\ BeforeCommitPoint => dhead = <<>> /\ \A b \in Range(lh) : pins[b] # 0
  /\ mode # "panic" => \A b \in Blocks : pins[b] = 0 \/ b \notin Range(lh) => View(b) = home[b]
  /\ mode = "run" /\ outstanding = 0 /\ ~committing => lh = <<>>

RecoveryInv ==
  /\ mode = "read_head" => lh = <<>> /\ tail = 1
  /\ mode = "install" => lh = dhead /\ tail \in 1..Len(lh) /\ Installed(tail - 1)
  /\ mode = "clear" => lh = dhead /\ Installed(Len(lh))
  /\ mode \notin {"run", "panic"} => \A b \in Blocks : View(b) = home[b]

HeadersInv ==
  /\ IsInjective(lh) /\ Len(lh) <= NLOG - 1
  /\ IsInjective(dhead) /\ Len(dhead) <= NLOG - 1

IInv == TypeOK /\ ControlInv /\ HeadersInv /\ RunInv /\ RecoveryInv

----------------------------------------------------------------------------
\* What bread() returns is a block's contents.
LEMMA ViewType == ASSUME TypeOK, NEW b \in Blocks PROVE View(b) \in Vals
BY DEF TypeOK, View

\* Every step keeps the types, given the inductive invariant: the loops index
\* the log within its bounds and no unpin meets a count of zero.
LEMMA TypeStep == ASSUME IInv, [Next]_vars PROVE TypeOK'
<1> USE LogConstants DEF IInv, TypeOK, disk, bcache, Phases, Modes
<1>1. CASE UNCHANGED vars
  BY <1>1 DEF vars
<1>2. ASSUME NEW p \in Procs, BeginOp(p) \/ BeginOpSleep(p) PROVE TypeOK'
  <2>1. wrote' \in [Procs -> SUBSET Blocks]
    BY <1>2 DEF BeginOp, BeginOpSleep
  <2>2. pc' \in [Procs -> Phases]
    BY <1>2 DEF BeginOp, BeginOpSleep
  <2> QED BY <1>2, <2>1, <2>2 DEF BeginOp, BeginOpSleep
<1>3. ASSUME NEW p \in Procs, EndOp(p) PROVE TypeOK'
  <2>1. outstanding - 1 \in Nat
    <3>1. p \in Active
      BY <1>3 DEF EndOp, Active
    <3>2. IsFiniteSet(Active)
      BY FS_Subset DEF Active
    <3>3. Cardinality(Active) # 0
      BY <3>1, <3>2, FS_EmptySet
    <3> QED BY <3>3 DEF ControlInv
  <2>2. pc' \in [Procs -> Phases]
    BY <1>3 DEF EndOp, Wakeup
  <2>3. committing' \in BOOLEAN
    BY <1>3, Zenon DEF EndOp
  <2> QED BY <1>3, <2>1, <2>2, <2>3 DEF EndOp
<1>4. ASSUME NEW p \in Procs, Commit(p) PROVE TypeOK'
  <2>1. CASE WriteLog(p)
    <3>1. tail \in 1..Len(lh) /\ lh[tail] \in Blocks
      BY <2>1 DEF WriteLog, RunInv, PhaseInv
    <3>2. View(lh[tail]) \in Vals
      BY <3>1, ViewType
    <3>3. pc' \in [Procs -> Phases]
      BY <2>1 DEF WriteLog
    <3>4. cache' \in [Blocks -> Vals \union {NotCached}] /\ dlog' \in [1..(NLOG - 1) -> Vals]
      BY <2>1, <3>1, <3>2 DEF WriteLog
    <3> QED BY <2>1, <3>3, <3>4 DEF WriteLog
  <2>2. CASE WriteHead(p)
    BY <2>2 DEF WriteHead
  <2>3. CASE InstallTrans(p)
    <3>1. tail \in 1..Len(lh) /\ lh[tail] \in Blocks /\ pins[lh[tail]] # 0
      BY <2>3 DEF InstallTrans, RunInv, PhaseInv
    <3>2. dlog[tail] \in Vals
      BY <3>1 DEF HeadersInv
    <3> QED BY <2>3, <3>1, <3>2 DEF InstallTrans
  <2>4. CASE ClearHead(p)
    BY <2>4 DEF ClearHead
  <2>5. CASE EndCommit(p)
    BY <2>5 DEF EndCommit, Wakeup
  <2> QED BY <1>4, <2>1, <2>2, <2>3, <2>4, <2>5 DEF Commit
<1>5. ASSUME NEW p \in Procs, NEW b \in Blocks, NEW v \in Vals,
             LogWrite(p, b, v) \/ LogWritePanic(p, b, v)
      PROVE TypeOK'
  <2>1. wrote' \in [Procs -> SUBSET Blocks]
    <3>1. wrote[p] \union {b} \in SUBSET Blocks
      OBVIOUS
    <3>2. wrote' = wrote \/ wrote' = [wrote EXCEPT ![p] = wrote[p] \union {b}]
      BY <1>5 DEF LogWrite, LogWritePanic
    <3> QED BY <3>1, <3>2
  <2>2. lh' \in Seq(Blocks) /\ pins' \in [Blocks -> Nat]
    <3>1. CASE lh' = lh /\ pins' = pins
      BY <3>1
    <3>2. CASE lh' = Append(lh, b) /\ pins' = [pins EXCEPT ![b] = pins[b] + 1]
      BY <3>2
    <3> QED BY <1>5, <3>1, <3>2 DEF LogWrite, LogWritePanic
  <2>3. cache' \in [Blocks -> Vals \union {NotCached}]
    BY <1>5 DEF LogWrite, LogWritePanic
  <2> QED BY <1>5, <2>1, <2>2, <2>3 DEF LogWrite, LogWritePanic
<1>6. ASSUME NEW b \in Blocks, BRead(b) \/ Recycle(b) PROVE TypeOK'
  BY <1>6 DEF BRead, Recycle
<1>7. CASE Recover
  <2>1. CASE ReadHead
    BY <2>1 DEF ReadHead
  <2>2. CASE RecoverInstall
    <3>1. tail \in 1..Len(lh) /\ lh[tail] \in Blocks
      BY <2>2 DEF RecoverInstall, RecoveryInv
    <3>2. dlog[tail] \in Vals
      BY <3>1 DEF HeadersInv
    <3> QED BY <2>2, <3>1, <3>2 DEF RecoverInstall
  <2>3. CASE RecoverClear
    BY <2>3 DEF RecoverClear
  <2> QED BY <1>7, <2>1, <2>2, <2>3 DEF Recover
<1>8. CASE Crash
  <2>1. wrote' \in [Procs -> SUBSET Blocks] /\ pc' \in [Procs -> Phases]
    BY <1>8 DEF Crash
  <2>2. cache' \in [Blocks -> Vals \union {NotCached}] /\ pins' \in [Blocks -> Nat]
    BY <1>8 DEF Crash
  <2>3. lh' \in Seq(Blocks) /\ outstanding' \in Nat /\ tail' \in Nat \ {0}
    BY <1>8 DEF Crash
  <2>4. committing' \in BOOLEAN /\ mode' \in Modes
    BY <1>8 DEF Crash
  <2> QED BY <1>8, <2>1, <2>2, <2>3, <2>4 DEF Crash
<1> QED BY <1>1, <1>2, <1>3, <1>4, <1>5, <1>6, <1>7, <1>8 DEF Next

LEMMA ActiveFinite == IsFiniteSet(Active)
BY FS_Subset, LogConstants DEF Active

\* Every step keeps the control part of the invariant.
LEMMA ControlStep == ASSUME IInv, [Next]_vars PROVE ControlInv'
<1> USE LogConstants DEF IInv, CommitPhases
<1>t. TypeOK /\ TypeOK'
  BY TypeStep
<1>1. CASE UNCHANGED vars
  BY <1>1 DEF vars, ControlInv, Active, SleeperIsOwedWakeup
<1>2. ASSUME NEW p \in Procs, BeginOp(p) PROVE ControlInv'
  <2>1. Active' = Active \union {p} /\ p \notin Active
    BY <1>2, <1>t DEF BeginOp, Active, TypeOK
  <2>2. Cardinality(Active') = outstanding'
    BY <2>1, <1>2, <1>t, ActiveFinite, FS_AddElement DEF BeginOp, ControlInv, TypeOK
  <2>3. ~committing /\ ~committing' /\ outstanding' > 0
    BY <1>2, <1>t DEF BeginOp, Admits, TypeOK
  <2> QED BY <1>2, <1>t, <2>2, <2>3 DEF BeginOp, ControlInv, SleeperIsOwedWakeup, TypeOK
<1>3. ASSUME NEW p \in Procs, BeginOpSleep(p) PROVE ControlInv'
  <2>1. Active' = Active
    BY <1>3, <1>t DEF BeginOpSleep, Active, TypeOK
  <2>2. outstanding > 0 \/ committing
    <3>1. SUFFICES ASSUME outstanding = 0, ~committing PROVE FALSE
      BY <1>t DEF TypeOK
    <3>2. Len(lh) = 0
      BY <1>3, <3>1 DEF BeginOpSleep, RunInv
    <3> QED BY <1>3, <3>1, <3>2 DEF BeginOpSleep, Admits
  <2> QED BY <1>3, <1>t, <2>1, <2>2 DEF BeginOpSleep, ControlInv, SleeperIsOwedWakeup, TypeOK
<1>4. ASSUME NEW p \in Procs, EndOp(p) PROVE ControlInv'
  <2>1. Active' = Active \ {p} /\ p \in Active
    BY <1>4, <1>t DEF EndOp, Active, TypeOK, Wakeup
  <2>2. Cardinality(Active') = outstanding'
    BY <2>1, <1>4, <1>t, ActiveFinite, FS_RemoveElement DEF EndOp, ControlInv, TypeOK
  <2>3. ~committing /\ \A q \in Procs : pc[q] \notin CommitPhases
    BY <2>1 DEF ControlInv
  <2>4. CASE outstanding = 1
    <3>1. Active' = {}
      BY <2>1, <2>2, <2>4, <1>4, <1>t, ActiveFinite, FS_RemoveElement, FS_EmptySet DEF EndOp
    <3> QED BY <1>4, <1>t, <2>2, <2>3, <2>4, <3>1 DEF EndOp, ControlInv, SleeperIsOwedWakeup, TypeOK
  <2>5. CASE outstanding # 1
    <3>1. \A q \in Procs : pc'[q] # "asleep" /\ pc'[q] \notin CommitPhases
      <4>1. pc \in [Procs -> Phases] /\ outstanding \in Nat
        BY <1>t DEF TypeOK
      <4> QED BY <1>4, <2>3, <2>5, <4>1 DEF EndOp, Wakeup
    <3> QED BY <1>4, <1>t, <2>2, <2>3, <2>5, <3>1 DEF EndOp, ControlInv, SleeperIsOwedWakeup, TypeOK
  <2> QED BY <2>4, <2>5
<1>5. ASSUME NEW p \in Procs, WriteLog(p) \/ WriteHead(p) \/ InstallTrans(p) \/ ClearHead(p)
      PROVE ControlInv'
  <2>1. /\ pc[p] \in CommitPhases /\ mode' = mode
        /\ outstanding' = outstanding /\ committing' = committing
        /\ \E ph \in CommitPhases : pc' = [pc EXCEPT ![p] = ph]
    BY <1>5 DEF WriteLog, WriteHead, InstallTrans, ClearHead
  <2>2. Active' = Active
    BY <2>1, <1>t DEF Active, TypeOK
  <2> QED BY <2>1, <2>2, <1>t DEF ControlInv, SleeperIsOwedWakeup, TypeOK
<1>6. ASSUME NEW p \in Procs, EndCommit(p) PROVE ControlInv'
  <2>1. Active' = Active
    BY <1>6, <1>t DEF Active, TypeOK, EndCommit, Wakeup
  <2>2. \A q \in Procs : pc'[q] # "asleep" /\ pc'[q] \notin CommitPhases
    BY <1>6, <1>t DEF EndCommit, Wakeup, TypeOK, ControlInv
  <2> QED BY <1>6, <1>t, <2>1, <2>2 DEF EndCommit, ControlInv, SleeperIsOwedWakeup, TypeOK
<1>7. ASSUME NEW p \in Procs, NEW b \in Blocks, NEW v \in Vals,
             LogWrite(p, b, v) \/ LogWritePanic(p, b, v)
      PROVE ControlInv'
  <2>1. p \in Active
    BY <1>7 DEF LogWrite, LogWritePanic, Active
  <2>2. ~committing /\ mode' \in {"run", "panic"}
    BY <1>7, <2>1 DEF LogWrite, LogWritePanic, ControlInv
  <2>3. UNCHANGED <<pc, outstanding, committing>>
    BY <1>7 DEF LogWrite, LogWritePanic
  <2> QED BY <2>2, <2>3 DEF ControlInv, SleeperIsOwedWakeup, Active
<1>8. ASSUME NEW b \in Blocks, BRead(b) \/ Recycle(b) PROVE ControlInv'
  BY <1>8 DEF BRead, Recycle, ControlInv, SleeperIsOwedWakeup, Active
<1>9. CASE Recover
  <2>1. /\ mode \notin {"run", "panic"}
        /\ UNCHANGED <<pc, outstanding, committing>>
    BY <1>9 DEF Recover, ReadHead, RecoverInstall, RecoverClear
  <2> QED BY <2>1 DEF ControlInv, SleeperIsOwedWakeup, Active
<1>10. CASE Crash
  <2>1. Active' = {} /\ \A p \in Procs : pc'[p] = "idle"
    BY <1>10 DEF Crash, Active
  <2> QED BY <1>10, <2>1, FS_EmptySet DEF Crash, ControlInv, SleeperIsOwedWakeup
<1> QED BY <1>1, <1>2, <1>3, <1>4, <1>5, <1>6, <1>7, <1>8, <1>9, <1>10 DEF Next, Commit

\* Absorption keeps a block from being logged twice, and log_write()'s panic
\* keeps the header within the blocks mkfs gave the log.
LEMMA HeadersStep == ASSUME IInv, [Next]_vars PROVE HeadersInv'
<1> USE LogConstants DEF IInv, HeadersInv, disk, bcache
<1>0. TypeOK
  OBVIOUS
<1>1. CASE lh' = lh /\ dhead' = dhead
  BY <1>1
<1>2. ASSUME lh' \in {lh, dhead, <<>>}, dhead' \in {lh, dhead, <<>>} PROVE HeadersInv'
  BY <1>2 DEF IsInjective
<1>3. ASSUME NEW p \in Procs, NEW b \in Blocks, NEW v \in Vals, LogWrite(p, b, v)
      PROVE HeadersInv'
  <2>1. CASE b \in Range(lh)
    BY <1>1, <1>3, <2>1 DEF LogWrite
  <2>2. CASE b \notin Range(lh)
    <3>1. lh' = Append(lh, b) /\ dhead' = dhead
      BY <1>3, <2>2 DEF LogWrite
    <3>2. Len(lh) < NLOG - 1
      BY <1>3, <1>0, SMTT(30) DEF LogWrite, LogFull, TypeOK
    <3>3. \A i \in 1..Len(lh) : lh[i] # b
      BY <1>0, <2>2, SMTT(60) DEF Range, TypeOK
    <3>4. lh \in Seq(Blocks) /\ Len(lh) \in Nat /\ NLOG \in Nat
      BY <1>0 DEF TypeOK
    <3>5. /\ DOMAIN lh' = 1..(Len(lh) + 1) /\ Len(lh') = Len(lh) + 1
          /\ \A i \in 1..Len(lh) : lh'[i] = lh[i]
          /\ lh'[Len(lh) + 1] = b
      BY <3>1, <3>4, AppendProperties
    <3>6. DOMAIN lh = 1..Len(lh)
      BY <3>4
    <3>7. IsInjective(lh')
      BY <3>3, <3>4, <3>5, <3>6 DEF IsInjective
    <3> QED BY <3>1, <3>2, <3>4, <3>5, <3>7
  <2> QED BY <2>1, <2>2
<1> QED
  <2>1. ASSUME ~ \E p \in Procs, b \in Blocks, v \in Vals : LogWrite(p, b, v)
        PROVE lh' \in {lh, dhead, <<>>} /\ dhead' \in {lh, dhead, <<>>}
    BY <2>1 DEF Next, vars, BeginOp, BeginOpSleep, EndOp, Commit, WriteLog, WriteHead,
        InstallTrans, ClearHead, EndCommit, LogWritePanic, BRead, Recycle,
        Recover, ReadHead, RecoverInstall, RecoverClear, Crash
  <2> QED BY <2>1, <1>2, <1>3

\* Every step of recovery, and the crash before it, keeps its invariant.
LEMMA RecoveryStep == ASSUME IInv, [Next]_vars PROVE RecoveryInv'
<1> USE LogConstants DEF IInv, RecoveryInv, disk, bcache
<1>0. TypeOK
  OBVIOUS
<1>1. CASE mode' \in {"run", "panic"}
  BY <1>1
<1>2. CASE UNCHANGED vars
  BY <1>2 DEF vars, View, Installed
<1>3. CASE ReadHead
  BY <1>3, <1>0 DEF ReadHead, View, Installed, TypeOK
<1>4. CASE RecoverInstall
  <2> DEFINE b == lh[tail]
  <2>1. tail \in 1..Len(lh) /\ b \in Blocks /\ lh = dhead /\ Installed(tail - 1)
    BY <1>0, <1>4 DEF RecoverInstall, TypeOK
  <2>2. /\ lh' = lh /\ dhead' = dhead /\ dlog' = dlog /\ tail' = tail + 1
        /\ home' = [home EXCEPT ![b] = dlog[tail]]
        /\ cache' = [cache EXCEPT ![b] = dlog[tail]]
    BY <1>4 DEF RecoverInstall
  <2>3. \A c \in Blocks : View(c)' = home'[c]
    BY <1>0, <1>4, <2>1, <2>2 DEF View, TypeOK, RecoverInstall
  <2>4. \A i \in 1..tail : home'[lh[i]] = dlog[i]
    BY <1>0, <2>1, <2>2 DEF Installed, TypeOK, HeadersInv, IsInjective
  <2>5. CASE tail = Len(lh)
    BY <1>4, <2>1, <2>2, <2>3, <2>4, <2>5 DEF RecoverInstall, Installed
  <2>6. CASE tail # Len(lh)
    BY <1>0, <1>4, <2>1, <2>2, <2>3, <2>4, <2>6, SMTT(60) DEF RecoverInstall, Installed, TypeOK
  <2> QED BY <2>5, <2>6
<1>5. CASE Crash
  BY <1>5, <1>0 DEF Crash, View, TypeOK
<1> QED
  <2>1. ASSUME mode' \notin {"run", "panic"}
        PROVE UNCHANGED vars \/ ReadHead \/ RecoverInstall \/ Crash
    BY <2>1 DEF Next, vars, BeginOp, BeginOpSleep, EndOp, Commit, WriteLog, WriteHead,
        InstallTrans, ClearHead, EndCommit, LogWrite, LogWritePanic, BRead, Recycle,
        Recover, RecoverClear
  <2> QED BY <2>1, <1>1, <1>2, <1>3, <1>4, <1>5

\* A step that touches neither the disk nor the cache nor the header, and that
\* puts no process in a phase of the commit, keeps the data part.
LEMMA QuietStep ==
  ASSUME IInv, TypeOK', UNCHANGED <<home, dlog, dhead, cache, pins, lh, tail, mode>>,
         \A q \in Procs : pc'[q] = pc[q] \/ {pc[q], pc'[q]} \cap CommitPhases = {},
         outstanding' = 0 /\ ~committing' => outstanding = 0 /\ ~committing
  PROVE  RunInv'
<1> USE DEF IInv, RunInv, CommitPhases
<1>1. ASSUME NEW p \in Procs PROVE PhaseInv(p)'
  <2>1. PhaseInv(p)
    OBVIOUS
  <2>2. pc'[p] = pc[p] \/ pc'[p] \notin CommitPhases
    OBVIOUS
  <2> QED BY <2>1, <2>2 DEF PhaseInv, Copied, Installed, View
<1>2. BeforeCommitPoint' => BeforeCommitPoint
  BY DEF BeforeCommitPoint
<1> QED BY <1>1, <1>2 DEF View

\* Every step keeps what the disk and the cache hold at each point of a commit.
LEMMA RunStep == ASSUME IInv, [Next]_vars PROVE RunInv'
<1> USE DEF CommitPhases, disk, bcache
<1>t. TypeOK
  BY DEF IInv
<1>v. TypeOK'
  BY TypeStep
<1>c. ControlInv
  BY DEF IInv
<1>h. HeadersInv
  BY DEF IInv
<1>r. RunInv
  BY DEF IInv
<1>y. RecoveryInv
  BY DEF IInv
<1>p. pc \in [Procs -> Phases]
  BY <1>t DEF TypeOK
<1>f. /\ home \in [Blocks -> Vals] /\ dlog \in [1..(NLOG - 1) -> Vals]
      /\ pins \in [Blocks -> Nat] /\ cache \in [Blocks -> Vals \union {NotCached}]
  BY <1>t DEF TypeOK
<1>l. /\ Len(lh) \in Nat /\ tail \in Nat /\ NLOG \in Nat /\ Len(lh) <= NLOG - 1
      /\ DOMAIN lh = 1..Len(lh) /\ \A i \in 1..Len(lh) : lh[i] \in Blocks
  BY <1>t, <1>h, LogConstants DEF TypeOK, HeadersInv
<1>a. Len(lh) \in Nat /\ tail \in Nat
  BY <1>l
<1>1. CASE UNCHANGED vars
  BY <1>1, <1>t, QuietStep, <1>v DEF vars
<1>2. ASSUME NEW p \in Procs, BeginOp(p) \/ BeginOpSleep(p) PROVE RunInv'
  <2>1. \A q \in Procs : pc'[q] = pc[q] \/ {pc[q], pc'[q]} \cap CommitPhases = {}
    BY <1>2, <1>t DEF BeginOp, BeginOpSleep, TypeOK
  <2>2. outstanding' = 0 /\ ~committing' => outstanding = 0 /\ ~committing
    BY <1>2, <1>t DEF BeginOp, BeginOpSleep, TypeOK
  <2> QED BY <1>2, <1>t, <2>1, <2>2, QuietStep, <1>v DEF BeginOp, BeginOpSleep
<1>3. ASSUME NEW p \in Procs, EndOp(p) PROVE RunInv'
  <2>1. \A q \in Procs : pc[q] \notin CommitPhases
    BY <1>3, <1>c DEF ControlInv, EndOp, Active
  <2>2. UNCHANGED <<home, dlog, dhead, cache, pins, lh, mode>> /\ mode = "run"
    BY <1>3 DEF EndOp
  <2>3. \A q \in Procs : pc'[q] \in CommitPhases =>
           \/ pc'[q] = "committed" /\ lh = <<>>
           \/ pc'[q] = "write_log" /\ lh # <<>> /\ tail' = 1
    BY <1>3, <1>p, <2>1, <1>f, <1>l DEF EndOp, Wakeup
  <2>4. ASSUME NEW q \in Procs PROVE PhaseInv(q)'
    <3>1. lh # <<>> => 1 \in 1..Len(lh)
      BY <1>t, EmptySeq DEF TypeOK
    <3> QED BY <2>2, <2>3, <3>1 DEF PhaseInv, Copied
  <2>5. BeforeCommitPoint
    BY <2>1, <2>2 DEF BeforeCommitPoint
  <2>6. outstanding' # 0 \/ committing'
    BY <1>3, <1>t DEF EndOp, TypeOK
  <2> QED BY <2>2, <2>4, <2>5, <2>6, <1>r DEF RunInv, View
<1>4. ASSUME NEW p \in Procs, WriteLog(p) PROVE RunInv'
  <2>0. tail \in 1..Len(lh)
    BY <1>4, <1>r DEF WriteLog, RunInv, PhaseInv
  <2> DEFINE b == lh[tail]
  <2>1. tail \in 1..Len(lh) /\ b \in Blocks /\ Copied(tail - 1) /\ Len(lh) <= NLOG - 1
    BY <1>4, <1>p, <1>r, <1>h, <1>f, <1>l DEF WriteLog, RunInv, PhaseInv, HeadersInv
  <2>2. \A q \in Procs \ {p} : pc'[q] \notin CommitPhases
    BY <1>4, <1>p, <1>c, <1>f, <1>l DEF WriteLog, ControlInv
  <2>3. \A c \in Blocks : View(c)' = View(c)
    BY <1>4, <1>p, <2>1, ViewType, <1>f, <1>l DEF WriteLog, View
  <2>4. ASSUME NEW i \in 1..tail PROVE dlog'[i] = View(lh[i])
    <3>1. i \in 1..(NLOG - 1) /\ i \in 1..Len(lh)
      BY <1>l, <2>0
    <3>2. dlog'[i] = IF i = tail THEN View(lh[i]) ELSE dlog[i]
      BY <1>4, <1>p, <3>1, <1>f, <1>l DEF WriteLog
    <3>3. i # tail => i \in 1..(tail - 1)
      BY <2>1
    <3> QED BY <2>1, <3>2, <3>3 DEF Copied
  <2>5. ASSUME NEW i \in 1..tail PROVE dlog'[i] = View(lh[i])'
    <3>1. lh[i] \in Blocks /\ lh' = lh
      <4>1. i \in 1..Len(lh)
        BY <1>l, <2>0
      <4> QED BY <1>4, <1>l, <4>1 DEF WriteLog
    <3> QED BY <2>3, <2>4, <3>1
  <2>6. PhaseInv(p)'
    <3>1. lh' = lh /\ tail' = tail + 1
      BY <1>4 DEF WriteLog
    <3>2. pc'[p] = IF tail = Len(lh) THEN "write_head" ELSE "write_log"
      BY <1>4, <1>p DEF WriteLog
    <3>3. tail' - 1 = tail
      BY <1>l, <3>1
    <3>5. CASE tail = Len(lh)
      <4>1. lh # <<>>
        BY <1>l, <2>0
      <4> QED BY <2>5, <3>1, <3>2, <3>5, <4>1 DEF PhaseInv, Copied
    <3>6. CASE tail # Len(lh)
      <4>1. tail' \in 1..Len(lh)
        BY <1>a, <2>0, <3>1, <3>6
      <4> QED BY <2>5, <3>1, <3>2, <3>3, <3>6, <4>1 DEF PhaseInv, Copied
    <3> QED BY <3>5, <3>6
  <2>7. \A q \in Procs : PhaseInv(q)'
    BY <2>2, <2>6 DEF PhaseInv
  <2>8. BeforeCommitPoint
    BY <1>4, <1>c DEF WriteLog, BeforeCommitPoint, ControlInv
  <2> QED BY <1>4, <1>p, <1>c, <2>3, <2>7, <2>8, <1>r, <1>f, <1>l DEF RunInv, WriteLog, ControlInv
<1>5. ASSUME NEW p \in Procs, WriteHead(p) PROVE RunInv'
  <2>1. lh # <<>> /\ Copied(Len(lh)) /\ BeforeCommitPoint
    BY <1>5, <1>c, <1>r DEF WriteHead, RunInv, PhaseInv, BeforeCommitPoint, ControlInv
  <2>2. \A q \in Procs \ {p} : pc'[q] \notin CommitPhases
    BY <1>5, <1>p, <1>c, <1>f, <1>l DEF WriteHead, ControlInv
  <2>3. PhaseInv(p)'
    <3>1. UNCHANGED <<home, dlog, cache, pins, lh>> /\ dhead' = lh /\ tail' = 1
      BY <1>5 DEF WriteHead
    <3>2. pc'[p] = "install"
      BY <1>5, <1>p DEF WriteHead
    <3>3. Copied(Len(lh))'
      BY <2>1, <3>1 DEF Copied, View
    <3>4. Installed(tail - 1)'
      BY <3>1 DEF Installed
    <3>5. \A i \in 1..Len(lh) : pins[lh[i]] # 0
      BY <1>l, <1>r, <2>1 DEF RunInv, Range
    <3>6. 1 \in 1..Len(lh)
      BY <1>t, <2>1, EmptySeq DEF TypeOK
    <3> QED BY <3>1, <3>2, <3>3, <3>4, <3>5, <3>6 DEF PhaseInv
  <2>4. \A q \in Procs : PhaseInv(q)'
    BY <2>2, <2>3 DEF PhaseInv
  <2>5. ~BeforeCommitPoint'
    BY <1>5, <1>p, <1>f, <1>l DEF WriteHead, BeforeCommitPoint
  <2> QED BY <1>5, <1>c, <2>4, <2>5, <1>r DEF WriteHead, RunInv, View, ControlInv

<1>6. ASSUME NEW p \in Procs, InstallTrans(p) PROVE RunInv'
  <2>0. tail \in 1..Len(lh)
    BY <1>6, <1>r DEF InstallTrans, RunInv, PhaseInv
  <2> DEFINE b == lh[tail]
  <2>1. /\ tail \in 1..Len(lh) /\ b \in Blocks /\ Len(lh) <= NLOG - 1
        /\ Copied(Len(lh)) /\ Installed(tail - 1) /\ dhead = lh
        /\ \A i \in tail..Len(lh) : pins[lh[i]] # 0
    BY <1>6, <1>p, <1>r, <1>h, <1>f, <1>l DEF InstallTrans, RunInv, PhaseInv, HeadersInv
  <2>2. \A q \in Procs \ {p} : pc'[q] \notin CommitPhases
    BY <1>6, <1>p, <1>c, <1>f, <1>l DEF InstallTrans, ControlInv
  <2>3. \A c \in Blocks : View(c)' = View(c) /\ (c = b => View(c)' = home'[c])
    BY <1>6, <1>p, <2>1, <1>f, <1>l DEF InstallTrans, View, Copied
  <2>4. ASSUME NEW i \in 1..tail PROVE home'[lh[i]] = dlog[i]
    <3>1. i \in 1..Len(lh) /\ lh[i] \in Blocks
      BY <1>l, <2>0
    <3>2. home'[lh[i]] = IF lh[i] = b THEN dlog[tail] ELSE home[lh[i]]
      BY <1>6, <1>p, <3>1, <1>f, <1>l DEF InstallTrans
    <3>3. lh[i] = b => i = tail
      BY <1>l, <2>1, <3>1, <1>h DEF HeadersInv, IsInjective
    <3>4. i # tail => i \in 1..(tail - 1)
      BY <1>l, <2>0
    <3> QED BY <2>1, <3>2, <3>3, <3>4 DEF Installed
  <2>5. ASSUME NEW i \in 1..Len(lh) PROVE dlog[i] = View(lh[i])'
    <3>1. lh' = lh
      BY <1>6 DEF InstallTrans
    <3> QED BY <1>l, <2>1, <2>3, <3>1 DEF Copied
  <2>6. \A i \in (tail + 1)..Len(lh) : pins'[lh[i]] # 0
    <3>1. ASSUME NEW i \in (tail + 1)..Len(lh) PROVE pins'[lh[i]] # 0
      <4>1. i \in tail..Len(lh) /\ i \in 1..Len(lh) /\ i # tail
        BY <1>l, <2>0
      <4>2. lh[i] # b /\ lh[i] \in Blocks
        BY <1>l, <1>h, <2>1, <4>1 DEF HeadersInv, IsInjective
      <4>3. pins'[lh[i]] = pins[lh[i]]
        BY <1>6, <1>f, <4>2 DEF InstallTrans
      <4> QED BY <2>1, <4>1, <4>3
    <3> QED BY <3>1
  <2>7. PhaseInv(p)'
    <3>1. UNCHANGED <<lh, dlog, dhead>> /\ tail' = tail + 1
      BY <1>6 DEF InstallTrans
    <3>2. pc'[p] = IF tail = Len(lh) THEN "clear" ELSE "install"
      BY <1>6, <1>p, <1>f, <1>l DEF InstallTrans
    <3>3. Copied(Len(lh))'
      BY <2>5, <3>1 DEF Copied
    <3>4. CASE tail = Len(lh)
      <4>1. Installed(Len(lh))'
        BY <2>4, <3>1, <3>4 DEF Installed
      <4> QED BY <2>1, <3>1, <3>2, <3>3, <3>4, <4>1 DEF PhaseInv
    <3>5. CASE tail # Len(lh)
      <4>1. tail' \in 1..Len(lh) /\ tail' - 1 = tail
        BY <1>a, <2>0, <3>1, <3>5
      <4>2. Installed(tail - 1)'
        BY <2>4, <3>1, <4>1 DEF Installed
      <4> QED BY <2>1, <2>6, <3>1, <3>2, <3>3, <3>5, <4>1, <4>2 DEF PhaseInv
    <3> QED BY <3>4, <3>5
  <2>8. \A q \in Procs : PhaseInv(q)'
    BY <2>2, <2>7 DEF PhaseInv
  <2>9. ~BeforeCommitPoint'
    BY <1>6, <1>p, <1>f, <1>l DEF InstallTrans, BeforeCommitPoint
  <2>10. committing'
    BY <1>6, <1>c DEF InstallTrans, ControlInv
  <2>11. \A c \in Blocks : c # b => home'[c] = home[c] /\ pins'[c] = pins[c]
    BY <1>6, <1>p, <1>f, <1>l DEF InstallTrans
  <2> QED BY <1>6, <2>1, <2>3, <2>8, <2>9, <2>10, <2>11, <1>r DEF InstallTrans, RunInv
<1>7. ASSUME NEW p \in Procs, ClearHead(p) PROVE RunInv'
  <2>1. Copied(Len(lh)) /\ Installed(Len(lh))
    BY <1>7, <1>r DEF ClearHead, RunInv, PhaseInv
  <2>2. \A q \in Procs \ {p} : pc'[q] \notin CommitPhases
    BY <1>7, <1>p, <1>c, <1>f, <1>l DEF ClearHead, ControlInv
  <2>3. \A q \in Procs : PhaseInv(q)'
    BY <1>7, <1>p, <2>2, <1>f, <1>l DEF ClearHead, PhaseInv
  <2>4. \A b \in Range(lh) : View(b) = home[b]
    BY <1>l, <2>1 DEF Copied, Installed, Range
  <2>5. \A b \in Blocks : View(b) = home[b]
    BY <1>7, <2>4, <1>r DEF RunInv, ClearHead
  <2>6. lh' = <<>> /\ dhead' = <<>> /\ Range(lh') = {}
    BY <1>7 DEF ClearHead, Range
  <2>7. \A b \in Blocks : View(b)' = home'[b]
    BY <1>7, <2>5 DEF ClearHead, View
  <2> QED BY <2>3, <2>6, <2>7 DEF RunInv
<1>8. ASSUME NEW p \in Procs, EndCommit(p) PROVE RunInv'
  <2>1. lh = <<>> /\ \A q \in Procs \ {p} : pc[q] \notin CommitPhases
    BY <1>8, <1>c, <1>r DEF EndCommit, RunInv, PhaseInv, ControlInv
  <2>2. \A q \in Procs : pc'[q] \notin CommitPhases
    BY <1>8, <1>p, <2>1, <1>f, <1>l DEF EndCommit, Wakeup
  <2>3. \A q \in Procs : PhaseInv(q)'
    BY <2>2 DEF PhaseInv
  <2>4. BeforeCommitPoint
    BY <1>8, <2>1 DEF EndCommit, BeforeCommitPoint
  <2> QED BY <1>8, <2>1, <2>3, <2>4, <1>r DEF EndCommit, RunInv, View
<1>9. ASSUME NEW p \in Procs, NEW b \in Blocks, NEW v \in Vals, LogWrite(p, b, v)
      PROVE RunInv'
  <2>1. p \in Active /\ mode = "run"
    BY <1>9 DEF LogWrite, Active
  <2>2. outstanding # 0 /\ ~committing /\ \A q \in Procs : pc[q] \notin CommitPhases
    BY <2>1, <1>c, ActiveFinite, FS_EmptySet DEF ControlInv
  <2>3. BeforeCommitPoint
    BY <2>1, <2>2 DEF BeforeCommitPoint
  <2>4. UNCHANGED <<home, dlog, dhead, pc, tail, mode, outstanding>>
    BY <1>9 DEF LogWrite
  <2>5. \A q \in Procs : PhaseInv(q)'
    BY <2>2, <2>4 DEF PhaseInv
  <2>6. \A c \in Blocks \ {b} : View(c)' = View(c)
    BY <1>9, <1>p, <1>f, <1>l DEF LogWrite, View
  <2>7. /\ \A c \in Range(lh') : pins'[c] # 0
        /\ b \in Range(lh')
        /\ Range(lh) \subseteq Range(lh')
        /\ \A c \in Blocks \ {b} : pins'[c] = pins[c]
    <3>0. \A c \in Range(lh) : pins[c] # 0 /\ c \in Blocks
      BY <1>p, <2>3, <1>r, <1>f, <1>l DEF RunInv, Range
    <3>1. CASE b \in Range(lh)
      BY <1>9, <1>t, <3>0, <3>1 DEF LogWrite
    <3>2. CASE b \notin Range(lh)
      <4>1. lh' = Append(lh, b) /\ pins' = [pins EXCEPT ![b] = pins[b] + 1]
        BY <1>9, <3>2 DEF LogWrite
      <4>2. Range(lh') = Range(lh) \union {b}
        <5>1. /\ DOMAIN lh' = 1..(Len(lh) + 1)
              /\ \A i \in 1..Len(lh) : lh'[i] = lh[i]
              /\ lh'[Len(lh) + 1] = b
          <6>1. lh \in Seq(Blocks)
            BY <1>t DEF TypeOK
          <6> QED BY <4>1, <6>1, AppendProperties
        <5> QED BY <1>l, <5>1 DEF Range
      <4> QED BY <1>p, <3>0, <4>1, <4>2, <1>f, <1>l
    <3> QED BY <3>1, <3>2
  <2> QED BY <2>2, <2>3, <2>4, <2>5, <2>6, <2>7, <1>r DEF RunInv
<1>10. ASSUME NEW p \in Procs, NEW b \in Blocks, NEW v \in Vals, LogWritePanic(p, b, v)
       PROVE RunInv'
  <2>1. p \in Active /\ mode = "run" /\ mode' = "panic"
    BY <1>10 DEF LogWritePanic, Active
  <2>2. \A q \in Procs : pc[q] \notin CommitPhases
    BY <2>1, <1>c DEF ControlInv
  <2>3. BeforeCommitPoint
    BY <2>1, <2>2 DEF BeforeCommitPoint
  <2>4. UNCHANGED <<home, dlog, dhead, pc, tail, lh, pins>>
    BY <1>10 DEF LogWritePanic
  <2>5. \A q \in Procs : PhaseInv(q)'
    BY <2>2, <2>4 DEF PhaseInv
  <2> QED BY <2>1, <2>3, <2>4, <2>5, <1>r DEF RunInv
<1>11. ASSUME NEW b \in Blocks, BRead(b) \/ Recycle(b) PROVE RunInv'
  <2>1. \A c \in Blocks : View(c)' = View(c)
    BY <1>11, <1>p, <1>r, <1>f, <1>l DEF BRead, Recycle, View, RunInv
  <2>2. UNCHANGED <<home, dlog, dhead, pins, lh, pc, tail, mode, outstanding, committing>>
    BY <1>11 DEF BRead, Recycle
  <2>3. \A i \in 1..Len(lh) : View(lh[i])' = View(lh[i])
    BY <1>p, <2>1, <2>2, <1>f, <1>l
  <2>4. ASSUME NEW q \in Procs PROVE PhaseInv(q)'
    <3>1. PhaseInv(q)
      BY <1>r DEF RunInv
    <3>2. Copied(Len(lh)) => Copied(Len(lh))'
      BY <2>2, <2>3 DEF Copied
    <3>3. ASSUME tail \in 1..Len(lh), Copied(tail - 1) PROVE Copied(tail - 1)'
      <4>1. \A i \in 1..(tail - 1) : i \in 1..Len(lh)
        BY <1>a, <3>3
      <4> QED BY <2>2, <2>3, <3>3, <4>1 DEF Copied
    <3> QED BY <2>2, <3>1, <3>2, <3>3 DEF PhaseInv, Installed
  <2>5. BeforeCommitPoint' <=> BeforeCommitPoint
    BY <2>2 DEF BeforeCommitPoint
  <2> QED BY <2>1, <2>2, <2>4, <2>5, <1>r DEF RunInv
<1>12. CASE Recover
  <2>1. \A q \in Procs : pc[q] = "idle" /\ pc'[q] = "idle"
    BY <1>12, <1>c DEF Recover, ReadHead, RecoverInstall, RecoverClear, ControlInv
  <2>2. \A q \in Procs : PhaseInv(q)'
    BY <2>1 DEF PhaseInv
  <2>3. CASE RecoverClear
    <3>1. \A b \in Blocks : View(b)' = home'[b]
      BY <2>3, <1>y DEF RecoverClear, RecoveryInv, View
    <3>2. lh' = <<>> /\ dhead' = <<>> /\ Range(lh') = {}
      BY <2>3 DEF RecoverClear, Range
    <3> QED BY <2>2, <3>1, <3>2 DEF RunInv
  <2>4. CASE ReadHead \/ RecoverInstall
    <3>1. mode' \notin {"run", "panic"}
      BY <2>4 DEF ReadHead, RecoverInstall
    <3>2. \A b \in Blocks : View(b)' = home'[b]
      BY <3>1, RecoveryStep DEF RecoveryInv
    <3> QED BY <2>2, <3>1, <3>2, <1>r DEF RunInv, BeforeCommitPoint
  <2> QED BY <1>12, <2>3, <2>4 DEF Recover
<1>13. CASE Crash
  <2>1. \A q \in Procs : PhaseInv(q)'
    BY <1>13 DEF Crash, PhaseInv
  <2> QED BY <1>13, <2>1, <1>r DEF Crash, RunInv, BeforeCommitPoint, View
<1> QED BY <1>1, <1>2, <1>3, <1>4, <1>5, <1>6, <1>7, <1>8, <1>9, <1>10, <1>11, <1>12, <1>13
        DEF Next, Commit

----------------------------------------------------------------------------
\* The inductive invariant holds of every reachable state of the log.
THEOREM Invariance == Spec => []IInv
<1>1. Init => IInv
  <2> SUFFICES ASSUME Init PROVE IInv
    OBVIOUS
  <2> USE LogConstants
  <2>1. TypeOK
    <3>1. wrote \in [Procs -> SUBSET Blocks] /\ pc \in [Procs -> Phases]
      BY DEF Init, Phases
    <3>2. cache \in [Blocks -> Vals \union {NotCached}] /\ pins \in [Blocks -> Nat]
      BY DEF Init
    <3>3. lh \in Seq(Blocks) /\ dhead \in Seq(Blocks) /\ tail \in Nat \ {0}
      BY DEF Init
    <3>4. committing \in BOOLEAN /\ outstanding \in Nat /\ mode \in Modes
      BY DEF Init, Modes
    <3> QED BY <3>1, <3>2, <3>3, <3>4 DEF Init, TypeOK
  <2>2. ControlInv
    <3>1. Active = {}
      BY DEF Init, Active
    <3> QED BY <3>1, FS_EmptySet DEF Init, ControlInv, CommitPhases, SleeperIsOwedWakeup
  <2>3. HeadersInv
    BY DEF Init, HeadersInv, IsInjective
  <2>4. RunInv
    BY DEF Init, RunInv, PhaseInv, BeforeCommitPoint, View
  <2>5. RecoveryInv
    BY DEF Init, RecoveryInv, View
  <2> QED BY <2>1, <2>2, <2>3, <2>4, <2>5 DEF IInv
<1>2. IInv /\ [Next]_vars => IInv'
  BY TypeStep, ControlStep, HeadersStep, RunStep, RecoveryStep DEF IInv
<1> QED BY <1>1, <1>2, PTL DEF Spec

\* The variables of the log keep their types.
THEOREM TypeCorrect == Spec => []TypeOK
<1>1. IInv => TypeOK
  BY DEF IInv
<1> QED BY <1>1, Invariance, PTL

\* A commit never runs beside a file-system call, and log_write() is never
\* called outside a transaction: end_op() and log_write() do not panic.
THEOREM CommitsRunAlone == Spec => []CommitsAlone
<1>1. IInv => CommitsAlone
  <2> SUFFICES ASSUME IInv, NEW p \in Procs, pc[p] = "op"
               PROVE  ~committing /\ outstanding >= 1
    BY DEF CommitsAlone
  <2>1. p \in Active
    BY DEF Active
  <2>2. Cardinality(Active) # 0
    BY <2>1, ActiveFinite, FS_EmptySet
  <2> QED BY <2>1, <2>2 DEF IInv, ControlInv, TypeOK
<1> QED BY <1>1, Invariance, PTL

\* Whoever sleeps in begin_op() is owed a wakeup by a call or a commit.
THEOREM NoForgottenSleeper == Spec => []SleeperIsOwedWakeup
<1>1. IInv => SleeperIsOwedWakeup
  BY DEF IInv, ControlInv
<1> QED BY <1>1, Invariance, PTL

----------------------------------------------------------------------------
\* A logged block's durable contents are in the log, those of any other block
\* in its home location.
LEMMA DurableValue ==
  ASSUME TypeOK, HeadersInv
  PROVE  /\ \A i \in 1..Len(dhead) : dhead[i] \in Blocks /\ Durable[dhead[i]] = dlog[i]
         /\ \A b \in Blocks \ Range(dhead) : Durable[b] = home[b]
<1>1. DOMAIN dhead = 1..Len(dhead) /\ \A i \in 1..Len(dhead) : dhead[i] \in Blocks
  BY DEF TypeOK
<1>2. ASSUME NEW i \in 1..Len(dhead) PROVE Durable[dhead[i]] = dlog[i]
  <2>1. dhead[i] \in Range(dhead)
    BY <1>1 DEF Range
  <2>2. LogIndex(dhead[i]) \in DOMAIN dhead /\ dhead[LogIndex(dhead[i])] = dhead[i]
    BY <1>1 DEF LogIndex
  <2>3. LogIndex(dhead[i]) = i
    BY <1>1, <2>2 DEF HeadersInv, IsInjective
  <2> QED BY <1>1, <2>1, <2>3 DEF Durable
<1> QED BY <1>1, <1>2 DEF Durable

\* Recovery or a commit that has installed every block can erase the header.
LEMMA InstalledIsDurable ==
  ASSUME TypeOK, HeadersInv, lh = dhead, Installed(Len(lh))
  PROVE  Durable = home
<1>1. ASSUME NEW b \in Range(dhead) PROVE Durable[b] = home[b]
  <2>1. PICK i \in 1..Len(dhead) : dhead[i] = b
    BY DEF Range, TypeOK
  <2> QED BY <2>1, DurableValue DEF Installed
<1>2. \A b \in Blocks : Durable[b] = home[b]
  BY <1>1, DurableValue
<1> QED BY <1>2 DEF Durable, TypeOK

\* An empty log leaves the home blocks as they are.
LEMMA EmptyLogDurable == ASSUME TypeOK, dhead = <<>> PROVE Durable = home
BY DEF Durable, Range, TypeOK

\* Only the write of a non-empty header changes what is durable.
LEMMA DurableKept ==
  ASSUME IInv, [Next]_vars, dhead' \in {dhead, <<>>}
  PROVE  Durable' = Durable
<1> USE DEF IInv, disk, bcache
<1>t. TypeOK /\ HeadersInv
  OBVIOUS
<1>v. TypeOK'
  BY TypeStep
<1>1. CASE dhead' = dhead /\ dlog' = dlog /\ \A b \in Blocks \ Range(dhead) : home'[b] = home[b]
  BY <1>1 DEF Durable, LogIndex
<1>2. ASSUME dhead' = <<>> PROVE Durable' = home'
  BY <1>v, <1>2 DEF Durable, Range, TypeOK
<1>3. ASSUME NEW p \in Procs, WriteLog(p) PROVE Durable' = Durable
  <2>1. dhead = <<>> /\ dhead' = <<>> /\ home' = home
    BY <1>3 DEF WriteLog, ControlInv, CommitPhases, RunInv, BeforeCommitPoint
  <2> QED BY <1>t, <1>2, <2>1, EmptyLogDurable
<1>4. ASSUME NEW p \in Procs, ClearHead(p) PROVE Durable' = Durable
  <2>1. lh = dhead /\ Installed(Len(lh)) /\ dhead' = <<>> /\ home' = home
    BY <1>4 DEF ClearHead, RunInv, PhaseInv
  <2> QED BY <1>t, <1>2, <2>1, InstalledIsDurable
<1>5. CASE RecoverClear
  <2>1. lh = dhead /\ Installed(Len(lh)) /\ dhead' = <<>> /\ home' = home
    BY <1>5 DEF RecoverClear, RecoveryInv
  <2> QED BY <1>t, <1>2, <2>1, InstalledIsDurable
<1>6. ASSUME RecoverInstall \/ \E p \in Procs : InstallTrans(p) PROVE Durable' = Durable
  <2>1. lh = dhead /\ tail \in DOMAIN lh
    <3>1. DOMAIN lh = 1..Len(lh)
      BY <1>t DEF TypeOK
    <3>2. CASE RecoverInstall
      BY <3>1, <3>2 DEF RecoverInstall, RecoveryInv
    <3>3. ASSUME NEW p \in Procs, InstallTrans(p) PROVE lh = dhead /\ tail \in DOMAIN lh
      BY <3>1, <3>3 DEF InstallTrans, RunInv, PhaseInv
    <3> QED BY <1>6, <3>2, <3>3
  <2>2. lh[tail] \in Range(dhead)
    BY <2>1 DEF Range
  <2>3. \A b \in Blocks \ Range(dhead) : home'[b] = home[b]
    BY <1>6, <1>t, <2>2 DEF RecoverInstall, InstallTrans, TypeOK
  <2>4. dhead' = dhead /\ dlog' = dlog
    BY <1>6 DEF RecoverInstall, InstallTrans
  <2> QED BY <1>1, <2>3, <2>4
<1>w. ASSUME NEW p \in Procs, WriteHead(p) PROVE FALSE
  <2>1. lh # <<>> /\ dhead' = lh
    BY <1>w DEF WriteHead, RunInv, PhaseInv
  <2>2. dhead = <<>>
    BY <1>w DEF WriteHead, ControlInv, CommitPhases, RunInv, BeforeCommitPoint
  <2> QED BY <2>1, <2>2
<1>7. \/ dhead' = dhead /\ dlog' = dlog /\ home' = home
      \/ \E p \in Procs : WriteLog(p) \/ ClearHead(p) \/ InstallTrans(p)
      \/ RecoverClear \/ RecoverInstall
  BY <1>w DEF Next, vars, BeginOp, BeginOpSleep, EndOp, Commit, EndCommit, LogWrite,
     LogWritePanic, BRead, Recycle, Recover, ReadHead, Crash
<1> QED BY <1>1, <1>3, <1>4, <1>5, <1>6, <1>7

\* Every step of the log is a step of the atomic disk, or changes nothing of it.
LEMMA RefinementStep == ASSUME IInv, [Next]_vars PROVE [AD!ANext]_AD!avars
<1> USE DEF IInv, disk, bcache
<1>t. TypeOK /\ HeadersInv
  OBVIOUS
<1>p. pc \in [Procs -> Phases]
  BY <1>t DEF TypeOK
<1>l. lh \in Seq(Blocks) /\ DOMAIN lh = 1..Len(lh) /\ \A i \in 1..Len(lh) : lh[i] \in Blocks
  BY <1>t DEF TypeOK
<1> DEFINE Unseen == Durable' = Durable /\ Current' = Current /\ Active' = Active
<1>u. Unseen => [AD!ANext]_AD!avars
  BY DEF AD!avars
<1>1. CASE UNCHANGED vars
  <2>1. Durable' = Durable
    BY <1>1, DurableKept DEF vars
  <2>2. Current' = Current
    BY <1>1, <2>1 DEF vars, Current, View
  <2>3. Active' = Active
    BY <1>1 DEF vars, Active
  <2> QED BY <1>u, <2>1, <2>2, <2>3
<1>2. ASSUME NEW p \in Procs, BeginOp(p) PROVE AD!ANext
  <2>1. Durable' = Durable
    BY <1>2, DurableKept DEF BeginOp
  <2>2. Current' = Current
    BY <1>2, <2>1 DEF BeginOp, Current, View
  <2>3. Active' = Active \union {p} /\ p \notin Active
    BY <1>2, <1>p DEF BeginOp, Active
  <2> QED BY <2>1, <2>2, <2>3 DEF AD!ANext, AD!ABegin
<1>3. ASSUME NEW p \in Procs, EndOp(p) PROVE AD!ANext
  <2>1. Durable' = Durable
    BY <1>3, DurableKept DEF EndOp
  <2>2. Current' = Current
    BY <1>3, <2>1 DEF EndOp, Current, View
  <2>3. Active' = Active \ {p} /\ p \in Active
    BY <1>3, <1>p DEF EndOp, Active, Wakeup
  <2> QED BY <2>1, <2>2, <2>3 DEF AD!ANext, AD!AEnd
<1>4. ASSUME NEW p \in Procs, BeginOpSleep(p) \/ EndCommit(p) PROVE Unseen
  <2>1. Durable' = Durable
    BY <1>4, DurableKept DEF BeginOpSleep, EndCommit
  <2>2. Current' = Current
    BY <1>4, <2>1 DEF BeginOpSleep, EndCommit, Current, View
  <2>3. Active' = Active
    BY <1>4, <1>p DEF BeginOpSleep, EndCommit, Active, Wakeup
  <2> QED BY <2>1, <2>2, <2>3
<1>5. ASSUME NEW p \in Procs, WriteLog(p) PROVE Unseen
  <2>1. Durable' = Durable
    BY <1>5, DurableKept DEF WriteLog
  <2>2. lh[tail] \in Blocks
    <3>1. tail \in 1..Len(lh)
      BY <1>5 DEF WriteLog, RunInv, PhaseInv
    <3> QED BY <1>l, <3>1
  <2>3. \A b \in Blocks : View(b)' = View(b)
    BY <1>5, <1>t, <2>2, ViewType DEF WriteLog, View, TypeOK
  <2>4. Current' = Current
    BY <1>5, <2>1, <2>3 DEF WriteLog, Current
  <2>5. Active' = Active
    BY <1>5, <1>p DEF WriteLog, Active
  <2> QED BY <2>1, <2>4, <2>5
<1>6. ASSUME NEW p \in Procs, WriteHead(p) PROVE AD!ANext
  <2>1. /\ dhead' = lh /\ dlog' = dlog /\ home' = home /\ Copied(Len(lh)) /\ mode = "run"
        /\ committing
    BY <1>6 DEF WriteHead, RunInv, PhaseInv, ControlInv, CommitPhases
  <2>2. Current' = Current /\ Current = [b \in Blocks |-> View(b)]
    BY <1>6 DEF WriteHead, Current, View
  <2>3. Active = {} /\ Active' = {}
    BY <1>6, <1>t, <2>1 DEF WriteHead, Active, TypeOK, ControlInv
  <2>4. ASSUME NEW b \in Blocks PROVE Durable'[b] = View(b)
    <3>1. CASE b \notin Range(lh)
      <4>1. Durable'[b] = home[b]
        BY <2>1, <3>1 DEF Durable
      <4> QED BY <2>1, <3>1, <4>1 DEF RunInv
    <3>2. CASE b \in Range(lh)
      <4>1. \E i \in DOMAIN lh : lh[i] = b
        BY <3>2 DEF Range
      <4>2. LogIndex(b)' \in DOMAIN lh /\ lh[LogIndex(b)'] = b
        BY <2>1, <4>1 DEF LogIndex
      <4>3. dlog[LogIndex(b)'] = View(b)
        <5>1. DOMAIN lh = 1..Len(lh)
          BY <1>l
        <5>2. dlog[LogIndex(b)'] = View(lh[LogIndex(b)'])
          BY <2>1, <4>2, <5>1 DEF Copied
        <5> QED BY <4>2, <5>2
      <4> QED BY <2>1, <3>2, <4>3 DEF Durable
    <3> QED BY <3>1, <3>2
  <2>5. Durable' = Current
    BY <2>2, <2>4 DEF Durable
  <2> QED BY <2>2, <2>3, <2>5 DEF AD!ANext, AD!ACommit
<1>7. ASSUME NEW p \in Procs, InstallTrans(p) PROVE Unseen
  <2>1. Durable' = Durable
    BY <1>7, DurableKept DEF InstallTrans
  <2>2. tail \in 1..Len(lh) /\ lh[tail] \in Blocks /\ dlog[tail] = View(lh[tail])
    <3>1. tail \in 1..Len(lh) /\ Copied(Len(lh))
      BY <1>7 DEF InstallTrans, RunInv, PhaseInv
    <3> QED BY <1>l, <3>1 DEF Copied
  <2>3. \A b \in Blocks : View(b)' = View(b)
    BY <1>7, <1>t, <2>2 DEF InstallTrans, View, TypeOK
  <2>4. Current' = Current
    BY <1>7, <2>1, <2>3 DEF InstallTrans, Current
  <2>5. Active' = Active
    BY <1>7, <1>p DEF InstallTrans, Active
  <2> QED BY <2>1, <2>4, <2>5
<1>8. ASSUME NEW p \in Procs, ClearHead(p) PROVE Unseen
  <2>1. Durable' = Durable
    BY <1>8, DurableKept DEF ClearHead
  <2>2. Current' = Current
    BY <1>8, <2>1 DEF ClearHead, Current, View
  <2>3. Active' = Active
    BY <1>8, <1>p DEF ClearHead, Active
  <2> QED BY <2>1, <2>2, <2>3
<1>9. ASSUME NEW p \in Procs, NEW b \in Blocks, NEW v \in Vals,
             LogWrite(p, b, v) \/ LogWritePanic(p, b, v)
      PROVE AD!ANext
  <2>1. Durable' = Durable
    BY <1>9, DurableKept DEF LogWrite, LogWritePanic
  <2>2. /\ mode = "run" /\ mode' \in {"run", "panic"} /\ home' = home /\ pc' = pc
        /\ cache' = [cache EXCEPT ![b] = v]
    BY <1>9 DEF LogWrite, LogWritePanic
  <2>3. \A c \in Blocks : View(c)' = IF c = b THEN v ELSE View(c)
    BY <1>t, <2>2, LogConstants DEF View, TypeOK
  <2>4. Current = [c \in Blocks |-> View(c)] /\ Current' = [c \in Blocks |-> View(c)']
    BY <2>2 DEF Current
  <2>5. Current' = [Current EXCEPT ![b] = v]
    BY <2>3, <2>4
  <2>6. Active' = Active /\ p \in Active
    BY <1>9, <2>2 DEF Active, LogWrite, LogWritePanic
  <2> QED BY <2>1, <2>5, <2>6 DEF AD!ANext, AD!AWrite
<1>10. ASSUME NEW b \in Blocks, BRead(b) \/ Recycle(b) PROVE Unseen
  <2>1. Durable' = Durable
    BY <1>10, DurableKept DEF BRead, Recycle
  <2>2. \A c \in Blocks : View(c)' = View(c)
    BY <1>10, <1>t DEF BRead, Recycle, View, RunInv, TypeOK
  <2> QED BY <1>10, <2>1, <2>2 DEF BRead, Recycle, Current, Active
<1>11. CASE Recover
  <2>1. Durable' = Durable
    BY <1>11, DurableKept DEF Recover, ReadHead, RecoverInstall, RecoverClear
  <2>2. Active' = Active
    BY <1>11 DEF Recover, ReadHead, RecoverInstall, RecoverClear, Active
  <2>3. CASE ReadHead \/ RecoverInstall
    <3>1. Current = Durable /\ Current' = Durable'
      BY <2>3 DEF ReadHead, RecoverInstall, Current
    <3> QED BY <1>u, <2>1, <2>2, <3>1
  <2>4. CASE RecoverClear
    <3>1. Current = Durable /\ Current' = [b \in Blocks |-> View(b)']
      BY <2>4 DEF RecoverClear, Current
    <3>2. \A b \in Blocks : View(b)' = home[b]
      BY <2>4 DEF RecoverClear, RecoveryInv, View
    <3>3. Durable = home
      BY <1>t, <2>4, InstalledIsDurable DEF RecoverClear, RecoveryInv
    <3>4. home = [b \in Blocks |-> home[b]]
      BY <1>t DEF TypeOK
    <3>5. Current' = Current
      BY <3>1, <3>2, <3>3, <3>4
    <3> QED BY <1>u, <2>1, <2>2, <3>5
  <2> QED BY <1>11, <2>3, <2>4 DEF Recover
<1>12. CASE Crash
  <2>1. Durable' = Durable
    BY <1>12, DurableKept DEF Crash
  <2>2. Current' = Durable /\ Active' = {}
    BY <1>12, <2>1 DEF Crash, Current, Active
  <2> QED BY <2>1, <2>2 DEF AD!ANext, AD!ACrash
<1> QED BY <1>u, <1>1, <1>2, <1>3, <1>4, <1>5, <1>6, <1>7, <1>8, <1>9, <1>10, <1>11, <1>12
        DEF Next, Commit

\* The log implements the atomic disk: a crash at any step, recovery included,
\* leaves exactly the updates of the calls that had ended at the last commit.
THEOREM LogImplementsAtomicDisk == Spec => ImplementsAtomicDisk
<1>1. Init => AD!AInit
  <2> SUFFICES ASSUME Init PROVE AD!AInit
    OBVIOUS
  <2>1. Durable = home
    BY DEF Init, Durable, Range
  <2>2. Current = Durable /\ Active = {}
    BY DEF Init, Current, Active
  <2> QED BY <2>1, <2>2 DEF AD!AInit, Init
<1>2. IInv /\ [Next]_vars => [AD!ANext]_AD!avars
  BY RefinementStep
<1> QED BY <1>1, <1>2, Invariance, PTL DEF Spec, ImplementsAtomicDisk, AD!ASpec

\* begin_op(), end_op() and commit(): a commit runs alone, and whoever sleeps
\* for log space is owed a wakeup.
THEOREM LogSafety == Spec => []LogSafe
  BY TypeCorrect, CommitsRunAlone, NoForgottenSleeper, PTL DEF LogSafe

----------------------------------------------------------------------------
\* When the log has room.  With mkfs's log, whose header takes one of its
\* LOGSIZE blocks, MAXOPBLOCKS blocks for each call can be one too many.  One
\* block less for each call is enough, for any number of calls.
CallsWriteLess == OpBlocks < MAXOPBLOCKS /\ MAXOPBLOCKS < NLOG /\ LOGSIZE <= NLOG

\* The blocks the calls in progress may still write: <<p, k>> is p's k-th block.
Room == {r \in Active \X (1..OpBlocks) : r[2] > Cardinality(wrote[r[1]])}

HasRoom(n) == n < LOGSIZE /\ n < NLOG - 1

\* What a call has written is in the transaction, and the log has room for all
\* that the calls may still write, and for the block log_write() wants beside.
RoomInv ==
  /\ mode # "panic"
  /\ \A p \in Active : /\ wrote[p] \subseteq Range(lh) /\ IsFiniteSet(wrote[p])
                       /\ Cardinality(wrote[p]) \in 0..OpBlocks
  /\ mode = "run" => HasRoom(Len(lh) + Cardinality(Room))

LEMMA RoomSize ==
  ASSUME NEW A, IsFiniteSet(A), NEW R \in SUBSET (A \X (1..OpBlocks))
  PROVE  /\ IsFiniteSet(R) /\ Cardinality(R) \in Nat
         /\ Cardinality(R) <= Cardinality(A) * OpBlocks
<1>1. OpBlocks \in Nat
  BY LogConstants
<1>2. IsFiniteSet(1..OpBlocks) /\ Cardinality(1..OpBlocks) = OpBlocks
  BY <1>1, FS_Interval
<1>3. /\ IsFiniteSet(A \X (1..OpBlocks))
      /\ Cardinality(A \X (1..OpBlocks)) = Cardinality(A) * OpBlocks
  BY <1>2, FS_Product
<1>4. IsFiniteSet(R) /\ Cardinality(R) <= Cardinality(A \X (1..OpBlocks))
  BY <1>3, FS_Subset
<1> QED BY <1>3, <1>4, FS_CardinalityType

\* Where a transaction of two calls or more has room: a call that writes one
\* block less than it reserves leaves a block of the log for each call.
LEMMA ReservedRoom ==
  ASSUME CallsWriteLess, NEW n \in Nat, NEW l \in Nat, n >= 1,
         l + (n + 1) * MAXOPBLOCKS <= LOGSIZE
  PROVE  HasRoom(l + (n + 1) * OpBlocks)
<1>1. OpBlocks \in Nat /\ MAXOPBLOCKS \in Nat /\ LOGSIZE \in Nat /\ NLOG \in Nat
  BY LogConstants
<1>2. PICK d \in Nat : MAXOPBLOCKS = OpBlocks + 1 + d
  <2>1. MAXOPBLOCKS - OpBlocks - 1 \in Nat
    BY <1>1 DEF CallsWriteLess
  <2> QED BY <1>1, <2>1
<1>3. PICK x \in Nat : x = (n + 1) * OpBlocks
  BY <1>1
<1>4. PICK y \in Nat : y = (n + 1) * d
  BY <1>2
<1>5. (n + 1) * MAXOPBLOCKS = x + (n + 1) + y
  BY <1>1, <1>2, <1>3, <1>4
<1>6. l + x + n + 1 <= LOGSIZE
  BY <1>1, <1>3, <1>4, <1>5
<1> QED BY <1>1, <1>3, <1>6 DEF HasRoom, CallsWriteLess

LEMMA RoomKept ==
  ASSUME RoomInv, IInv, Active' \subseteq Active, lh' = lh, wrote' = wrote, mode' = mode
  PROVE  RoomInv'
<1>1. Len(lh) \in Nat /\ LOGSIZE \in Nat /\ NLOG \in Nat
  BY LogConstants DEF IInv, TypeOK
<1>2. IsFiniteSet(Room) /\ Cardinality(Room) \in Nat
  BY ActiveFinite, RoomSize DEF Room
<1>3. PICK R : R = Room'
  OBVIOUS
<1>4. R \subseteq Room
  BY <1>3 DEF Room
<1>5. Cardinality(R) <= Cardinality(Room) /\ Cardinality(R) \in Nat
  BY <1>2, <1>4, FS_Subset, FS_CardinalityType
<1>6. mode = "run" => HasRoom(Len(lh) + Cardinality(R))
  BY <1>1, <1>2, <1>5, SMTT(60) DEF RoomInv, HasRoom
<1>7. mode' = "run" => HasRoom(Len(lh') + Cardinality(Room'))
  BY <1>3, <1>6
<1> QED BY <1>7 DEF RoomInv, HasRoom

\* No call in progress: the log has room once lh is empty.
LEMMA RoomIdle ==
  ASSUME CallsWriteLess, Active' = {}, mode' # "panic", mode' = "run" => lh' = <<>>
  PROVE  RoomInv'
<1>1. PICK R : R = Room'
  OBVIOUS
<1>2. R = {}
  BY <1>1 DEF Room
<1>3. Cardinality(Room') = 0
  BY <1>1, <1>2, FS_EmptySet
<1>4. lh' = <<>> => HasRoom(Len(lh') + Cardinality(Room'))
  BY <1>3, LogConstants DEF HasRoom, CallsWriteLess
<1> QED BY <1>4 DEF RoomInv, HasRoom

\* begin_op() admits a call only if the log has room for what it may write.
LEMMA RoomBegin ==
  ASSUME RoomInv, IInv, CallsWriteLess, NEW p \in Procs, BeginOp(p)
  PROVE  RoomInv'
<1>t. /\ pc \in [Procs -> Phases] /\ wrote \in [Procs -> SUBSET Blocks]
      /\ lh \in Seq(Blocks) /\ Len(lh) \in Nat /\ outstanding \in Nat
  BY DEF IInv, TypeOK
<1>k. OpBlocks \in Nat /\ MAXOPBLOCKS \in Nat /\ LOGSIZE \in Nat /\ NLOG \in Nat
  BY LogConstants
<1>1. Active' = Active \union {p} /\ p \notin Active
  BY <1>t DEF BeginOp, Active
<1>2. /\ mode = "run" /\ mode' = mode /\ lh' = lh
      /\ wrote' = [wrote EXCEPT ![p] = {}] /\ outstanding' = outstanding + 1
  BY DEF BeginOp
<1>3. PICK A : A = Active'
  OBVIOUS
<1>4. IsFiniteSet(A) /\ Cardinality(A) = outstanding + 1
  BY <1>1, <1>3, ActiveFinite, FS_AddElement DEF IInv, ControlInv
<1>5. PICK R : R = Room'
  OBVIOUS
<1>6. R \in SUBSET (A \X (1..OpBlocks))
  BY <1>3, <1>5 DEF Room
<1>7. Cardinality(R) \in Nat /\ Cardinality(R) <= (outstanding + 1) * OpBlocks
  BY <1>4, <1>6, RoomSize
<1>8. HasRoom(Len(lh) + Cardinality(R))
  <2>1. CASE outstanding = 0
    <3>1. Len(lh) = 0
      <4>1. ~committing
        BY DEF BeginOp, Admits
      <4>2. lh = <<>>
        BY <1>2, <2>1, <4>1 DEF IInv, RunInv
      <4> QED BY <4>2
    <3>2. Cardinality(R) <= OpBlocks
      BY <1>7, <1>k, <2>1
    <3>3. MAXOPBLOCKS <= LOGSIZE
      BY LogConstants
    <3> QED BY <1>k, <1>7, <3>1, <3>2, <3>3 DEF HasRoom, CallsWriteLess
  <2>2. CASE outstanding >= 1
    <3>1. Len(lh) + (outstanding + 1) * MAXOPBLOCKS <= LOGSIZE
      BY DEF BeginOp, Admits
    <3>2. HasRoom(Len(lh) + (outstanding + 1) * OpBlocks)
      BY <1>t, <2>2, <3>1, ReservedRoom
    <3>3. PICK x \in Nat : x = (outstanding + 1) * OpBlocks
      BY <1>t, <1>k
    <3> QED BY <1>t, <1>k, <1>7, <3>2, <3>3 DEF HasRoom
  <2> QED BY <1>t, <2>1, <2>2
<1>9. HasRoom(Len(lh') + Cardinality(Room'))
  BY <1>2, <1>5, <1>8
<1>10. ASSUME NEW q \in Active'
       PROVE  /\ wrote'[q] \subseteq Range(lh') /\ IsFiniteSet(wrote'[q])
              /\ Cardinality(wrote'[q]) \in 0..OpBlocks
  <2>1. CASE q = p
    BY <1>2, <1>t, <1>k, <2>1, FS_EmptySet
  <2>2. CASE q # p
    <3>1. q \in Active /\ q \in Procs /\ wrote'[q] = wrote[q]
      BY <1>1, <1>2, <1>t, <2>2 DEF Active
    <3> QED BY <1>2, <3>1 DEF RoomInv
  <2> QED BY <2>1, <2>2
<1> QED BY <1>2, <1>9, <1>10 DEF RoomInv, HasRoom

\* The places a call has left: those above the number of its blocks.
LEMMA RoomPair ==
  ASSUME NEW p \in Active, NEW k \in 1..OpBlocks, k > Cardinality(wrote[p])
  PROVE  <<p, k>> \in Room
BY DEF Room

\* A write of a new block takes its place from the room of the call, and the
\* absorbed write of a block the transaction already holds takes no place.
LEMMA RoomWrite ==
  ASSUME RoomInv, IInv, NEW p \in Procs, NEW b \in Blocks, NEW v \in Vals,
         LogWrite(p, b, v)
  PROVE  RoomInv'
<1>t. /\ wrote \in [Procs -> SUBSET Blocks] /\ lh \in Seq(Blocks) /\ Len(lh) \in Nat
  BY DEF IInv, TypeOK
<1>k. OpBlocks \in Nat /\ LOGSIZE \in Nat /\ NLOG \in Nat
  BY LogConstants
<1>1. p \in Active /\ Active' = Active /\ mode = "run" /\ mode' = mode
  BY DEF LogWrite, Active
<1>2. /\ wrote' = [wrote EXCEPT ![p] = wrote[p] \union {b}]
      /\ lh' = IF b \in Range(lh) THEN lh ELSE Append(lh, b)
      /\ Cardinality(wrote[p] \union {b}) <= OpBlocks
  BY DEF LogWrite
<1>3. Len(lh') = (IF b \in Range(lh) THEN Len(lh) ELSE Len(lh) + 1) /\ Len(lh') \in Nat
  BY <1>2, <1>t
<1>4. Range(lh) \union {b} \subseteq Range(lh')
  <2>1. CASE b \in Range(lh)
    BY <1>2, <2>1
  <2>2. CASE b \notin Range(lh)
    <3>1. lh' = Append(lh, b)
      BY <1>2, <2>2
    <3>2. /\ DOMAIN lh = 1..Len(lh) /\ DOMAIN lh' = 1..(Len(lh) + 1)
          /\ \A i \in 1..Len(lh) : lh'[i] = lh[i]
          /\ lh'[Len(lh) + 1] = b
      BY <1>t, <3>1, AppendProperties, SMTT(60)
    <3> QED BY <1>t, <3>2, SMTT(60) DEF Range
  <2> QED BY <2>1, <2>2
<1>5. /\ wrote[p] \subseteq Range(lh) /\ IsFiniteSet(wrote[p])
      /\ Cardinality(wrote[p]) \in 0..OpBlocks
  BY <1>1 DEF RoomInv
<1>6. IsFiniteSet(Room) /\ Cardinality(Room) \in Nat
  BY ActiveFinite, RoomSize DEF Room
<1>7. HasRoom(Len(lh) + Cardinality(Room))
  BY <1>1 DEF RoomInv
<1>8. CASE b \in wrote[p]
  <2>1. wrote' = wrote
    <3>1. wrote[p] \union {b} = wrote[p]
      BY <1>8
    <3> QED BY <1>2, <1>t, <3>1
  <2>2. lh' = lh
    BY <1>2, <1>5, <1>8
  <2> QED BY <1>1, <2>1, <2>2, RoomKept
<1>9. CASE b \notin wrote[p]
  <2>1. PICK k : k = Cardinality(wrote[p]) + 1
    OBVIOUS
  <2>2. /\ IsFiniteSet(wrote[p] \union {b})
        /\ Cardinality(wrote[p] \union {b}) = k /\ k \in 1..OpBlocks
    <3>1. IsFiniteSet(wrote[p] \union {b}) /\ Cardinality(wrote[p] \union {b}) = k
      BY <1>5, <1>9, <2>1, FS_AddElement
    <3>2. k \in Nat \ {0}
      BY <1>5, <1>k, <2>1, SMTT(60)
    <3> QED BY <1>2, <1>k, <3>1, <3>2
  <2>3. /\ wrote'[p] = wrote[p] \union {b}
        /\ \A q \in Procs \ {p} : wrote'[q] = wrote[q]
    BY <1>2, <1>t
  <2>4. PICK R : R = Room'
    OBVIOUS
  <2>5. <<p, k>> \in Room
    <3>1. k > Cardinality(wrote[p]) /\ k \in 1..OpBlocks /\ p \in Active
      BY <1>1, <1>5, <2>1, <2>2
    <3> QED BY <3>1, RoomPair
  <2>6. R \subseteq Room \ {<<p, k>>}
    <3>0. R = {r \in Active \X (1..OpBlocks) : r[2] > Cardinality(wrote'[r[1]])}
      BY <1>1, <2>4 DEF Room
    <3>1. SUFFICES ASSUME NEW q \in Active, NEW j \in 1..OpBlocks, j > Cardinality(wrote'[q])
                   PROVE  <<q, j>> \in Room \ {<<p, k>>}
      BY <3>0
    <3>2. CASE q = p
      <4>1. j > k
        BY <2>2, <2>3, <3>1, <3>2
      <4>2. j > Cardinality(wrote[p]) /\ j # k
        BY <1>5, <2>1, <4>1, <1>k, SMTT(60)
      <4> QED BY <3>2, <4>2 DEF Room
    <3>3. CASE q # p
      <4>1. wrote'[q] = wrote[q]
        BY <2>3, <3>3 DEF Active
      <4> QED BY <3>1, <3>3, <4>1 DEF Room
    <3> QED BY <3>2, <3>3
  <2>7. /\ IsFiniteSet(Room \ {<<p, k>>})
        /\ Cardinality(Room \ {<<p, k>>}) = Cardinality(Room) - 1
    BY <1>6, <2>5, FS_RemoveElement
  <2>8. Cardinality(R) \in Nat /\ Cardinality(R) <= Cardinality(Room) - 1
    BY <2>6, <2>7, FS_Subset, FS_CardinalityType
  <2>9. HasRoom(Len(lh') + Cardinality(R))
    BY <1>3, <1>6, <1>7, <1>k, <1>t, <2>8 DEF HasRoom
  <2>10. HasRoom(Len(lh') + Cardinality(Room'))
    BY <2>4, <2>9
  <2>11. ASSUME NEW q \in Active'
         PROVE  /\ wrote'[q] \subseteq Range(lh') /\ IsFiniteSet(wrote'[q])
                /\ Cardinality(wrote'[q]) \in 0..OpBlocks
    <3>1. CASE q = p
      <4>1. wrote'[p] \subseteq Range(lh')
        BY <1>4, <1>5, <2>3
      <4>2. k \in 0..OpBlocks
        BY <2>2, <1>k, SMTT(60)
      <4> QED BY <2>2, <2>3, <3>1, <4>1, <4>2
    <3>2. CASE q # p
      <4>1. q \in Active /\ wrote'[q] = wrote[q]
        BY <1>1, <2>3, <3>2 DEF Active
      <4> QED BY <1>4, <4>1 DEF RoomInv
    <3> QED BY <3>1, <3>2
  <2> QED BY <1>1, <2>10, <2>11 DEF RoomInv, HasRoom
<1> QED BY <1>8, <1>9

\* The panic of log_write() is out of reach: its caller still has a block to
\* write, or writes again one of those it wrote, and either way there is room.
LEMMA RoomNoPanic ==
  ASSUME RoomInv, IInv, NEW p \in Procs, NEW b \in Blocks, NEW v \in Vals,
         LogWritePanic(p, b, v)
  PROVE  FALSE
<1>1. mode = "run" /\ LogFull
  BY DEF LogWritePanic
<1>2. Len(lh) \in Nat /\ LOGSIZE \in Nat /\ NLOG \in Nat
  BY LogConstants DEF IInv, TypeOK
<1>3. Cardinality(Room) \in Nat
  BY ActiveFinite, RoomSize DEF Room
<1>4. HasRoom(Len(lh) + Cardinality(Room))
  BY <1>1 DEF RoomInv
<1> QED BY <1>1, <1>2, <1>3, <1>4 DEF LogFull, HasRoom

LEMMA RoomStep == ASSUME RoomInv, IInv, CallsWriteLess, [Next]_vars PROVE RoomInv'
<1>t. pc \in [Procs -> Phases]
  BY DEF IInv, TypeOK
<1>1. CASE UNCHANGED vars
  BY <1>1, RoomKept DEF vars, Active
<1>2. ASSUME NEW p \in Procs, BeginOp(p) PROVE RoomInv'
  BY <1>2, RoomBegin
<1>3. ASSUME NEW p \in Procs, BeginOpSleep(p) \/ EndOp(p) PROVE RoomInv'
  <2>1. Active' \subseteq Active /\ lh' = lh /\ wrote' = wrote /\ mode' = mode
    BY <1>3, <1>t DEF BeginOpSleep, EndOp, Wakeup, Active
  <2> QED BY <2>1, RoomKept
<1>4. ASSUME NEW p \in Procs, WriteLog(p) \/ WriteHead(p) \/ InstallTrans(p) \/ EndCommit(p)
      PROVE  RoomInv'
  <2>1. lh' = lh /\ wrote' = wrote /\ mode' = mode
    BY <1>4 DEF WriteLog, WriteHead, InstallTrans, EndCommit
  <2>2. Active' \subseteq Active
    BY <1>4, <1>t DEF WriteLog, WriteHead, InstallTrans, EndCommit, Wakeup, Active
  <2> QED BY <2>1, <2>2, RoomKept
<1>5. ASSUME NEW p \in Procs, ClearHead(p) PROVE RoomInv'
  <2>1. committing
    BY <1>5 DEF ClearHead, IInv, ControlInv, CommitPhases
  <2>2. Active' = {}
    BY <1>5, <1>t, <2>1 DEF ClearHead, IInv, ControlInv, Active
  <2>3. lh' = <<>> /\ mode' # "panic"
    BY <1>5 DEF ClearHead
  <2> QED BY <2>2, <2>3, RoomIdle
<1>6. ASSUME NEW p \in Procs, NEW b \in Blocks, NEW v \in Vals,
             LogWrite(p, b, v) \/ LogWritePanic(p, b, v)
      PROVE  RoomInv'
  BY <1>6, RoomWrite, RoomNoPanic
<1>7. ASSUME NEW b \in Blocks, BRead(b) \/ Recycle(b) PROVE RoomInv'
  <2>1. Active' \subseteq Active /\ lh' = lh /\ wrote' = wrote /\ mode' = mode
    BY <1>7 DEF BRead, Recycle, Active
  <2> QED BY <2>1, RoomKept
<1>8. CASE Recover
  <2>1. mode \notin {"run", "panic"} /\ pc' = pc
    BY <1>8 DEF Recover, ReadHead, RecoverInstall, RecoverClear
  <2>2. Active' = {}
    BY <2>1 DEF IInv, ControlInv, Active
  <2>3. mode' # "panic" /\ (mode' = "run" => lh' = <<>>)
    BY <1>8 DEF Recover, ReadHead, RecoverInstall, RecoverClear
  <2> QED BY <2>2, <2>3, RoomIdle
<1>9. CASE Crash
  <2>1. Active' = {} /\ mode' = "read_head"
    BY <1>9 DEF Crash, Active
  <2> QED BY <2>1, RoomIdle
<1> QED BY <1>1, <1>2, <1>3, <1>4, <1>5, <1>6, <1>7, <1>8, <1>9 DEF Next, Commit

\* begin_op()'s reservation is enough with the log that mkfs makes, whose header
\* takes one of its LOGSIZE blocks, when each call writes at least one block less
\* than MAXOPBLOCKS: log_write() never panics, for any number of calls, any
\* grouping of them into commits, and any crashes.
THEOREM RoomSuffices == ASSUME CallsWriteLess PROVE Spec => []NeverPanics
<1>1. Init => RoomInv
  <2> SUFFICES ASSUME Init PROVE RoomInv
    OBVIOUS
  <2>1. Active = {}
    BY DEF Init, Active
  <2> QED BY <2>1 DEF Init, RoomInv
<1>2. RoomInv /\ IInv /\ [Next]_vars => RoomInv'
  BY RoomStep
<1>3. RoomInv => NeverPanics
  BY DEF RoomInv, NeverPanics
<1> QED BY <1>1, <1>2, <1>3, Invariance, PTL DEF Spec
============================================================================
