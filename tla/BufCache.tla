------------------------------ MODULE BufCache ------------------------------
(***************************************************************************)
(* kernel/bio.c: NBUF buffers shared by processes that read, change, write *)
(* and pin disk blocks.  What is done under bcache.lock is one action; the *)
(* sleep-lock of a buffer is taken in a step of its own after it, and      *)
(* brelse() gives it up before it takes bcache.lock to drop its reference. *)
(*                                                                         *)
(* The clients are the log and the file system: a process locks one buffer *)
(* at a time, and a block it changes it either writes at once (bwrite) or  *)
(* pins, as log_write() does, until install_trans() has written it.  The   *)
(* contents of a copy are abstracted to whether it is the newest.          *)
(***************************************************************************)
EXTENDS Integers, Sequences, FiniteSets

CONSTANTS Procs, Blocks, Nobody,
          NBUF,        \* buffers
          MaxPinned    \* blocks the log keeps pinned at most

Bufs == 1..NBUF
NoBuf == 0

VARIABLES
  block, valid, refcnt, newest,  \* of each buffer: its blockno, valid, refcnt, and b->data
  lru,                           \* the list from head.next (most recent) to head.prev
  holder,                        \* the process that holds b->lock
  disk,                          \* is the disk's copy of a block the newest?
  pinned,                        \* the blocks pinned by log_write()
  pc, cur                        \* each process's place and its buffer

cache == <<block, valid, refcnt, lru>>
vars == <<block, valid, refcnt, newest, lru, holder, disk, pinned, pc, cur>>

Goto(p, s) == pc' = [pc EXCEPT ![p] = s]
Cached(k) == \E b \in Bufs : block[b] = k

----------------------------------------------------------------------------
\* bget(), the block is cached: take a reference, then wait for the lock.
BgetHit(p, k) ==
  /\ pc[p] = "idle"
  /\ \E b \in Bufs :
       /\ block[b] = k
       /\ refcnt' = [refcnt EXCEPT ![b] = @ + 1]
       /\ cur' = [cur EXCEPT ![p] = b]
  /\ Goto(p, "lock")
  /\ UNCHANGED <<block, valid, newest, lru, holder, disk, pinned>>

Unused == {i \in 1..NBUF : refcnt[lru[i]] = 0}

Mut_BgetMissValid(p, k) ==
  /\ pc[p] = "idle" /\ ~Cached(k) /\ Unused # {}
  /\ LET b == lru[CHOOSE i \in Unused : \A j \in Unused : j <= i] IN
       /\ block' = [block EXCEPT ![b] = k]
       /\ newest' = [newest EXCEPT ![b] = FALSE]
       /\ refcnt' = [refcnt EXCEPT ![b] = 1]
       /\ cur' = [cur EXCEPT ![p] = b]
  /\ Goto(p, "lock")
  /\ UNCHANGED <<valid, lru, holder, disk, pinned>>

\* Not cached: recycle the least recently used buffer without references,
\* whose data is some other block's.
BgetMiss(p, k) ==
  /\ pc[p] = "idle" /\ ~Cached(k) /\ Unused # {}
  /\ LET b == lru[CHOOSE i \in Unused : \A j \in Unused : j <= i] IN
       /\ block' = [block EXCEPT ![b] = k]
       /\ valid' = [valid EXCEPT ![b] = FALSE]
       /\ newest' = [newest EXCEPT ![b] = FALSE]
       /\ refcnt' = [refcnt EXCEPT ![b] = 1]
       /\ cur' = [cur EXCEPT ![p] = b]
  /\ Goto(p, "lock")
  /\ UNCHANGED <<lru, holder, disk, pinned>>

\* acquiresleep(&b->lock)
BgetLock(p) ==
  /\ pc[p] = "lock" /\ holder[cur[p]] = Nobody
  /\ holder' = [holder EXCEPT ![cur[p]] = p]
  /\ Goto(p, IF valid[cur[p]] THEN "using" ELSE "read")
  /\ UNCHANGED <<cache, newest, disk, pinned, cur>>

\* bread(): fill the buffer from the disk.
Bread(p) ==
  /\ pc[p] = "read"
  /\ newest' = [newest EXCEPT ![cur[p]] = disk[block[cur[p]]]]
  /\ valid' = [valid EXCEPT ![cur[p]] = TRUE]
  /\ Goto(p, "using")
  /\ UNCHANGED <<block, refcnt, lru, holder, disk, pinned, cur>>

\* The client changes b->data: every other copy of the block is now old.
Changed(b) == [c \in Bufs |-> IF c = b THEN TRUE ELSE newest[c] /\ block[c] # block[b]]

\* The client changes the block and writes it: bwrite().
Bwrite(p) ==
  /\ pc[p] = "using" /\ block[cur[p]] \notin pinned
  /\ newest' = Changed(cur[p])
  /\ disk' = [disk EXCEPT ![block[cur[p]]] = TRUE]
  /\ Goto(p, "done")
  /\ UNCHANGED <<cache, holder, pinned, cur>>

\* The client changes the block and logs it: bpin(), unless the log already has it.
Bpin(p) ==
  /\ pc[p] = "using"
  /\ LET b == cur[p] IN
       /\ newest' = Changed(b)
       /\ disk' = [disk EXCEPT ![block[b]] = FALSE]
       /\ block[b] \in pinned \/ Cardinality(pinned) < MaxPinned
       /\ refcnt' = [refcnt EXCEPT ![b] = IF block[b] \in pinned THEN @ ELSE @ + 1]
       /\ pinned' = pinned \union {block[b]}
  /\ Goto(p, "done")
  /\ UNCHANGED <<block, valid, lru, holder, cur>>

\* install_trans(): bwrite() of a pinned block, then bunpin().
Bunpin(p) ==
  /\ pc[p] = "using" /\ block[cur[p]] \in pinned
  /\ disk' = [disk EXCEPT ![block[cur[p]]] = newest[cur[p]]]
  /\ refcnt' = [refcnt EXCEPT ![cur[p]] = @ - 1]
  /\ pinned' = pinned \ {block[cur[p]]}
  /\ Goto(p, "done")
  /\ UNCHANGED <<block, valid, newest, lru, holder, cur>>

\* brelse(): releasesleep()...
BrelseUnlock(p) ==
  /\ pc[p] \in {"using", "done"}
  /\ holder' = [holder EXCEPT ![cur[p]] = Nobody]
  /\ Goto(p, "drop")
  /\ UNCHANGED <<cache, newest, disk, pinned, cur>>

MoveToFront(b) ==
  LET j == CHOOSE i \in 1..NBUF : lru[i] = b
  IN [i \in 1..NBUF |-> IF i = 1 THEN b ELSE IF i <= j THEN lru[i - 1] ELSE lru[i]]

\* ...then drop the reference; the last one moves the buffer to the front.
BrelseDrop(p) ==
  /\ pc[p] = "drop"
  /\ LET b == cur[p] IN
       /\ refcnt' = [refcnt EXCEPT ![b] = @ - 1]
       /\ lru' = IF refcnt[b] = 1 THEN MoveToFront(b) ELSE lru
  /\ cur' = [cur EXCEPT ![p] = NoBuf]
  /\ Goto(p, "idle")
  /\ UNCHANGED <<block, valid, newest, holder, disk, pinned>>

\* binit() puts each buffer in front of the list.
Init ==
  /\ block = [b \in Bufs |-> Nobody] /\ valid = [b \in Bufs |-> FALSE]
  /\ refcnt = [b \in Bufs |-> 0] /\ newest = [b \in Bufs |-> FALSE]
  /\ lru = [i \in 1..NBUF |-> NBUF + 1 - i]
  /\ holder = [b \in Bufs |-> Nobody]
  /\ disk = [k \in Blocks |-> TRUE] /\ pinned = {}
  /\ pc = [p \in Procs |-> "idle"] /\ cur = [p \in Procs |-> NoBuf]

Use(p) == Bwrite(p) \/ Bpin(p) \/ Bunpin(p) \/ BrelseUnlock(p)
Get(p, k) == BgetHit(p, k) \/ BgetMiss(p, k)
Next == \E p \in Procs : (\E k \in Blocks : Get(p, k)) \/ BgetLock(p) \/ Bread(p) \/ Use(p) \/ BrelseDrop(p)
Spec == Init /\ [][Next]_vars

----------------------------------------------------------------------------
TypeOK ==
  /\ block \in [Bufs -> Blocks \union {Nobody}] /\ valid \in [Bufs -> BOOLEAN]
  /\ refcnt \in [Bufs -> 0..(Cardinality(Procs) + 1)] /\ newest \in [Bufs -> BOOLEAN]
  /\ \A b \in Bufs : \E i \in 1..NBUF : lru[i] = b
  /\ holder \in [Bufs -> Procs \union {Nobody}] /\ disk \in [Blocks -> BOOLEAN]
  /\ pinned \subseteq Blocks /\ cur \in [Procs -> Bufs \union {NoBuf}]
  /\ pc \in [Procs -> {"idle", "lock", "read", "using", "done", "drop"}]

\* bget() never gives one block two buffers, however the misses of two
\* processes for it interleave.
OneBufferPerBlock ==
  \A b, c \in Bufs : block[b] = block[c] /\ block[b] # Nobody => b = c

\* Who has a locked buffer from bread() sees what was last written to the
\* block by anyone: the buffer was not recycled under it, a recycled one was
\* read again, and no pinned block was dropped before it reached the disk.
ReadsNewest == \A p \in Procs : pc[p] \in {"using", "done"} => newest[cur[p]]

\* refcnt counts exactly the processes from bget() to the end of brelse(),
\* waiters included, and the log's pin, so no buffer in use is recycled and
\* none is lost.
RefcntExact ==
  \A b \in Bufs :
    refcnt[b] = Cardinality({p \in Procs : cur[p] = b}) + (IF block[b] \in pinned THEN 1 ELSE 0)

\* bget() never panics for want of a buffer, provided that NBUF covers one
\* buffer for each process and the blocks the log has pinned.
BgetFindsBuffer ==
  \A p \in Procs, k \in Blocks : pc[p] = "idle" => Cached(k) \/ Unused # {}

(* The cache as a whole: one buffer per block with the newest data, in use *)
(* exactly as long as b->refcnt says, and a buffer for every bget().       *)
CacheCoherent == TypeOK /\ OneBufferPerBlock /\ ReadsNewest /\ RefcntExact /\ BgetFindsBuffer
=============================================================================
