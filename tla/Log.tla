-------------------------------- MODULE Log --------------------------------
(***************************************************************************)
(* The write-ahead redo log of kernel/log.c: group commit of concurrent    *)
(* file-system calls, the pinned blocks of the buffer cache it relies on,  *)
(* a power failure at any step, and recovery at boot, which may itself be  *)
(* interrupted.  A disk write of one block is atomic.                      *)
(*                                                                         *)
(* A region of code under log.lock is one step.  Outside it, every disk    *)
(* write of write_log(), write_head() and install_trans() is a step of its *)
(* own, so that a crash can fall between any two of them.  The array       *)
(* lh.block[0..n-1] is the sequence lh; log block number log.start+1+tail  *)
(* is dlog[tail+1].                                                        *)
(***************************************************************************)
EXTENDS Integers, Sequences, FiniteSets, Functions

CONSTANTS Procs,        \* processes that make file-system calls
          Blocks,       \* home blocks of the disk
          Vals,         \* contents of a block
          NotCached,    \* the block has no buffer in the cache
          MAXOPBLOCKS,  \* param.h: blocks reserved for one call
          LOGSIZE,      \* param.h: capacity of struct logheader
          NLOG,         \* sb.nlog (log.size): header block + data blocks
          OpBlocks      \* most distinct blocks one call really writes

ASSUME LogConstants ==
  /\ IsFiniteSet(Procs)
  /\ NotCached \notin Vals
  /\ MAXOPBLOCKS \in Nat \ {0} /\ LOGSIZE \in Nat /\ NLOG \in Nat
  /\ OpBlocks \in 0..MAXOPBLOCKS
  /\ MAXOPBLOCKS <= LOGSIZE /\ 2 <= NLOG

VARIABLES
  home,         \* disk: the home blocks
  dlog,         \* disk: the data blocks of the log
  dhead,        \* disk: the header block of the log
  cache,        \* b->data of each home block, or NotCached
  pins,         \* references held by bpin()
  lh,           \* log.lh
  outstanding,  \* log.outstanding
  committing,   \* log.committing
  pc,           \* where each process is
  wrote,        \* the blocks the process's current call has written
  tail,         \* the loop variable of write_log() and install_trans(), + 1
  mode          \* the machine: recovering, running or stopped by panic()

disk == <<home, dlog, dhead>>
bcache == <<cache, pins>>
vars == <<home, dlog, dhead, cache, pins, lh, outstanding, committing,
          pc, wrote, tail, mode>>

Phases == {"idle", "asleep", "woken", "op",
           "write_log", "write_head", "install", "clear", "committed"}
Modes == {"read_head", "install", "clear", "run", "panic"}

\* What bread(b) returns: the cached contents, or else the block on disk.
View(b) == IF cache[b] = NotCached THEN home[b] ELSE cache[b]

\* wakeup(&log), applied to the program counters f.
Wakeup(f) == [q \in Procs |-> IF f[q] = "asleep" THEN "woken" ELSE f[q]]

----------------------------------------------------------------------------
\* begin_op()

Mut_Admits == ~committing /\ Len(lh) + outstanding * MAXOPBLOCKS <= LOGSIZE

\* The call can start: no commit is running and, were every outstanding call
\* and this one to write MAXOPBLOCKS blocks, the log would still hold them.
Admits == ~committing /\ Len(lh) + (outstanding + 1) * MAXOPBLOCKS <= LOGSIZE

BeginOp(p) ==
  /\ mode = "run" /\ pc[p] \in {"idle", "woken"}
  /\ Admits
  /\ outstanding' = outstanding + 1
  /\ pc' = [pc EXCEPT ![p] = "op"]
  /\ wrote' = [wrote EXCEPT ![p] = {}]
  /\ UNCHANGED <<disk, bcache, lh, committing, tail, mode>>

\* sleep(&log, &log.lock), which gives up the lock and sleeps in one step.
BeginOpSleep(p) ==
  /\ mode = "run" /\ pc[p] \in {"idle", "woken"}
  /\ ~Admits
  /\ pc' = [pc EXCEPT ![p] = "asleep"]
  /\ UNCHANGED <<disk, bcache, lh, outstanding, committing, wrote, tail, mode>>

----------------------------------------------------------------------------
\* The calls: bp = bread(b); modify bp->data; log_write(bp); brelse(bp).

LogFull == Len(lh) >= LOGSIZE \/ Len(lh) >= NLOG - 1

Mut_LogWriteNoPin(p, b, v) ==
  /\ mode = "run" /\ pc[p] = "op"
  /\ Cardinality(wrote[p] \union {b}) <= OpBlocks
  /\ ~LogFull
  /\ cache' = [cache EXCEPT ![b] = v]
  /\ wrote' = [wrote EXCEPT ![p] = @ \union {b}]
  /\ lh' = IF b \in Range(lh) THEN lh ELSE Append(lh, b)
  /\ UNCHANGED <<disk, pins, outstanding, committing, pc, tail, mode>>

\* A block already in the transaction is absorbed; a new one is appended and
\* its buffer pinned until the commit has installed it.
LogWrite(p, b, v) ==
  /\ mode = "run" /\ pc[p] = "op"
  /\ Cardinality(wrote[p] \union {b}) <= OpBlocks
  /\ ~LogFull
  /\ cache' = [cache EXCEPT ![b] = v]
  /\ wrote' = [wrote EXCEPT ![p] = @ \union {b}]
  /\ IF b \in Range(lh)
     THEN UNCHANGED <<lh, pins>>
     ELSE /\ lh' = Append(lh, b)
          /\ pins' = [pins EXCEPT ![b] = @ + 1]
  /\ UNCHANGED <<disk, outstanding, committing, pc, tail, mode>>

\* panic("too big a transaction"), tested before absorption is.
LogWritePanic(p, b, v) ==
  /\ mode = "run" /\ pc[p] = "op"
  /\ Cardinality(wrote[p] \union {b}) <= OpBlocks
  /\ LogFull
  /\ cache' = [cache EXCEPT ![b] = v]
  /\ mode' = "panic"
  /\ UNCHANGED <<disk, pins, lh, outstanding, committing, pc, wrote, tail>>

\* bread() by a call that only reads: fileread() opens no transaction.
BRead(b) ==
  /\ mode = "run" /\ cache[b] = NotCached
  /\ cache' = [cache EXCEPT ![b] = home[b]]
  /\ UNCHANGED <<disk, pins, lh, outstanding, committing, pc, wrote, tail, mode>>

\* bget() recycles a buffer nobody references, without writing it back.
Recycle(b) ==
  /\ mode = "run" /\ cache[b] # NotCached /\ pins[b] = 0
  /\ cache' = [cache EXCEPT ![b] = NotCached]
  /\ UNCHANGED <<disk, pins, lh, outstanding, committing, pc, wrote, tail, mode>>

----------------------------------------------------------------------------
\* end_op() and commit()

Mut_EndOpNoWakeup(p) ==
  /\ mode = "run" /\ pc[p] = "op"
  /\ outstanding' = outstanding - 1
  /\ tail' = 1
  /\ IF outstanding = 1
     THEN /\ committing' = TRUE
          /\ pc' = [pc EXCEPT ![p] = IF lh = <<>> THEN "committed" ELSE "write_log"]
     ELSE /\ pc' = [pc EXCEPT ![p] = "idle"]
          /\ UNCHANGED committing
  /\ UNCHANGED <<disk, bcache, lh, wrote, mode>>

\* The last outstanding call starts the commit; any other one gives its
\* reservation back and wakes the calls waiting for log space.
EndOp(p) ==
  /\ mode = "run" /\ pc[p] = "op"
  /\ outstanding' = outstanding - 1
  /\ tail' = 1
  /\ IF outstanding = 1
     THEN /\ committing' = TRUE
          /\ pc' = [pc EXCEPT ![p] = IF lh = <<>> THEN "committed" ELSE "write_log"]
     ELSE /\ pc' = Wakeup([pc EXCEPT ![p] = "idle"])
          /\ UNCHANGED committing
  /\ UNCHANGED <<disk, bcache, lh, wrote, mode>>

\* The body of the loop of write_log(): cache block to log block.
WriteLog(p) ==
  /\ mode = "run" /\ pc[p] = "write_log"
  /\ dlog' = [dlog EXCEPT ![tail] = View(lh[tail])]
  /\ cache' = [cache EXCEPT ![lh[tail]] = View(lh[tail])]
  /\ tail' = tail + 1
  /\ pc' = [pc EXCEPT ![p] = IF tail = Len(lh) THEN "write_head" ELSE @]
  /\ UNCHANGED <<home, dhead, pins, lh, outstanding, committing, wrote, mode>>

\* write_head(): the real commit.
WriteHead(p) ==
  /\ mode = "run" /\ pc[p] = "write_head"
  /\ dhead' = lh
  /\ tail' = 1
  /\ pc' = [pc EXCEPT ![p] = "install"]
  /\ UNCHANGED <<home, dlog, bcache, lh, outstanding, committing, wrote, mode>>

\* The body of the loop of install_trans(0): log block to home block.
InstallTrans(p) ==
  /\ mode = "run" /\ pc[p] = "install"
  /\ home' = [home EXCEPT ![lh[tail]] = dlog[tail]]
  /\ cache' = [cache EXCEPT ![lh[tail]] = dlog[tail]]
  /\ pins' = [pins EXCEPT ![lh[tail]] = @ - 1]
  /\ tail' = tail + 1
  /\ pc' = [pc EXCEPT ![p] = IF tail = Len(lh) THEN "clear" ELSE @]
  /\ UNCHANGED <<dlog, dhead, lh, outstanding, committing, wrote, mode>>

\* log.lh.n = 0; write_head(): erase the transaction from the log.
ClearHead(p) ==
  /\ mode = "run" /\ pc[p] = "clear"
  /\ lh' = <<>>
  /\ dhead' = <<>>
  /\ pc' = [pc EXCEPT ![p] = "committed"]
  /\ UNCHANGED <<home, dlog, bcache, outstanding, committing, wrote, tail, mode>>

Mut_EndCommitNoWakeup(p) ==
  /\ mode = "run" /\ pc[p] = "committed"
  /\ committing' = FALSE
  /\ pc' = [pc EXCEPT ![p] = "idle"]
  /\ UNCHANGED <<disk, bcache, lh, outstanding, wrote, tail, mode>>

\* The end of end_op() in the process that committed.
EndCommit(p) ==
  /\ mode = "run" /\ pc[p] = "committed"
  /\ committing' = FALSE
  /\ pc' = Wakeup([pc EXCEPT ![p] = "idle"])
  /\ UNCHANGED <<disk, bcache, lh, outstanding, wrote, tail, mode>>

----------------------------------------------------------------------------
\* Crash and recovery: initlog() -> recover_from_log(), before any call runs.

Crash ==
  /\ mode' = "read_head"
  /\ cache' = [b \in Blocks |-> NotCached]
  /\ pins' = [b \in Blocks |-> 0]
  /\ lh' = <<>>
  /\ outstanding' = 0
  /\ committing' = FALSE
  /\ pc' = [p \in Procs |-> "idle"]
  /\ wrote' = [p \in Procs |-> {}]
  /\ tail' = 1
  /\ UNCHANGED disk

ReadHead ==
  /\ mode = "read_head"
  /\ lh' = dhead
  /\ mode' = IF dhead = <<>> THEN "clear" ELSE "install"
  /\ UNCHANGED <<disk, bcache, outstanding, committing, pc, wrote, tail>>

\* The body of the loop of install_trans(1), which pins and unpins nothing.
RecoverInstall ==
  /\ mode = "install"
  /\ home' = [home EXCEPT ![lh[tail]] = dlog[tail]]
  /\ cache' = [cache EXCEPT ![lh[tail]] = dlog[tail]]
  /\ tail' = tail + 1
  /\ mode' = IF tail = Len(lh) THEN "clear" ELSE mode
  /\ UNCHANGED <<dlog, dhead, pins, lh, outstanding, committing, pc, wrote>>

RecoverClear ==
  /\ mode = "clear"
  /\ lh' = <<>>
  /\ dhead' = <<>>
  /\ mode' = "run"
  /\ UNCHANGED <<home, dlog, bcache, outstanding, committing, pc, wrote, tail>>

----------------------------------------------------------------------------
\* A disk made by mkfs, whose log is empty, and a machine that boots from it.
Init ==
  /\ home \in [Blocks -> Vals]
  /\ dlog \in [1..(NLOG - 1) -> Vals]
  /\ dhead = <<>>
  /\ cache = [b \in Blocks |-> NotCached]
  /\ pins = [b \in Blocks |-> 0]
  /\ lh = <<>>
  /\ outstanding = 0
  /\ committing = FALSE
  /\ pc = [p \in Procs |-> "idle"]
  /\ wrote = [p \in Procs |-> {}]
  /\ tail = 1
  /\ mode = "read_head"

Commit(p) ==
  WriteLog(p) \/ WriteHead(p) \/ InstallTrans(p) \/ ClearHead(p) \/ EndCommit(p)

Recover == ReadHead \/ RecoverInstall \/ RecoverClear

Next ==
  \/ \E p \in Procs : BeginOp(p) \/ BeginOpSleep(p) \/ EndOp(p) \/ Commit(p)
  \/ \E p \in Procs, b \in Blocks, v \in Vals :
       LogWrite(p, b, v) \/ LogWritePanic(p, b, v)
  \/ \E b \in Blocks : BRead(b) \/ Recycle(b)
  \/ Recover
  \/ Crash

Spec == Init /\ [][Next]_vars

\* The scheduler runs every process that can run, and a call in progress
\* makes finitely many writes, so it reaches its end_op().
Fairness ==
  /\ WF_vars(Recover)
  /\ \A p \in Procs : WF_vars(BeginOp(p)) /\ WF_vars(BeginOpSleep(p))
                      /\ WF_vars(EndOp(p)) /\ WF_vars(Commit(p))

FairSpec == Spec /\ Fairness

----------------------------------------------------------------------------
\* Types of the variables.
TypeOK ==
  /\ home \in [Blocks -> Vals]
  /\ dlog \in [1..(NLOG - 1) -> Vals]
  /\ dhead \in Seq(Blocks)
  /\ cache \in [Blocks -> Vals \union {NotCached}]
  /\ pins \in [Blocks -> Nat]
  /\ lh \in Seq(Blocks)
  /\ outstanding \in Nat
  /\ committing \in BOOLEAN
  /\ pc \in [Procs -> Phases]
  /\ wrote \in [Procs -> SUBSET Blocks]
  /\ tail \in Nat \ {0}
  /\ mode \in Modes

\* log.c:12: the log commits only when no file-system call is active, so that
\* end_op() never meets its panic("log.committing"), and log_write() never
\* meets its panic("log_write outside of trans").
CommitsAlone ==
  \A p \in Procs : pc[p] = "op" => ~committing /\ outstanding >= 1

\* A process asleep in begin_op() is owed a wakeup: a call is outstanding or a
\* commit is running, and the end of either calls wakeup(&log).
SleeperIsOwedWakeup ==
  (\E p \in Procs : pc[p] = "asleep") => outstanding > 0 \/ committing

\* begin_op()'s reservation is enough: no call that keeps to its allowance of
\* blocks makes log_write() panic.
NeverPanics == mode # "panic"

\* What the disk would hold after recovery: home blocks under the logged ones.
LogIndex(b) == CHOOSE i \in DOMAIN dhead : dhead[i] = b
Durable == [b \in Blocks |-> IF b \in Range(dhead) THEN dlog[LogIndex(b)] ELSE home[b]]

\* What the calls see.  While the machine recovers nobody looks.
Current == IF mode \in {"run", "panic"} THEN [b \in Blocks |-> View(b)] ELSE Durable
Active == {p \in Procs : pc[p] = "op"}

AD == INSTANCE AtomicDisk WITH stable <- Durable, current <- Current, active <- Active

\* The log, with its cache, its crashes and its recovery, behaves as a disk
\* that commits all updates of completed calls at once.
ImplementsAtomicDisk == AD!ASpec

\* A process that sleeps in begin_op() wakes up (or the machine crashes).
SleeperWakes == \A p \in Procs : pc[p] = "asleep" ~> pc[p] # "asleep"

(* begin_op(), end_op() and commit(): a commit runs alone, and whoever     *)
(* sleeps for log space is owed a wakeup.                                  *)
LogSafe == TypeOK /\ CommitsAlone /\ SleeperIsOwedWakeup
============================================================================
