------------------------------- MODULE Virtio -------------------------------
(***************************************************************************)
(* kernel/virtio_disk.c: requests of several processes through the rings   *)
(* of a virtio disk.  A request takes a chain of three descriptors, is put *)
(* into the available ring and sleeps until virtio_disk_intr() finds its   *)
(* head in the used ring.  The device (external) takes heads in the order  *)
(* of the available ring and finishes them in any order, at any moment,    *)
(* also while the interrupt handler runs.                                  *)
(*                                                                         *)
(* What is done under vdisk_lock with no step of the device in between     *)
(* that matters is one action.  A buf belongs to the process that holds    *)
(* its sleep-lock, so a process stands for its buf and its block.  Ring    *)
(* indices are 16 bits wide and start shortly before they wrap.            *)
(***************************************************************************)
EXTENDS Integers, FiniteSets

CONSTANTS Procs,        \* processes, each with a locked buf of its own
          Nobody,       \* no process, no buf
          NUM,          \* descriptors, and entries of each ring
          StartIdx,     \* requests served before, modulo 2^16
          MaxRequests   \* bound on the requests that begin

UINT16 == 65536
Desc == 0..(NUM - 1)
Handler == "interrupt"

VARIABLES
  free, desc, ops, info,  \* struct disk: free[], desc[], ops[], info[]
  avail, availIdx,        \* disk.avail->ring, ->idx
  used, usedIdx,          \* disk.used->ring, ->idx
  used_idx,               \* disk.used_idx
  vdisk_lock,             \* its holder
  bdisk, data,            \* b->disk and b->data
  platter,                \* the device: contents of each process's block
  taken, inflight, irq,   \* the device: position in avail, heads being served, interrupt line
  pc, idx,                \* each process's place and its idx[0..2]
  requests,               \* how many requests have begun
  panicked                \* panic() was reached

queue == <<free, desc, ops, info>>
device == <<platter, taken, inflight, irq, used, usedIdx>>
vars == <<free, desc, ops, info, avail, availIdx, used, usedIdx, used_idx, vdisk_lock, bdisk,
          data, platter, taken, inflight, irq, pc, idx, requests, panicked>>

NoIdx == [chain |-> <<0, 0, 0>>, write |-> FALSE]
NoDesc == [addr |-> Nobody, next |-> 0, more |-> FALSE]
Lowest(S) == CHOOSE i \in S : \A j \in S : i <= j

\* wakeup(&disk.free[0]), applied to the program counters f.
WakeFree(f) == [p \in Procs |-> IF f[p] = "sleep_free" THEN "alloc" ELSE f[p]]

----------------------------------------------------------------------------
\* virtio_disk_rw(b, write) is called: to write out a changed buf, or to fill
\* a recycled one, which holds something else than its block.
Request(p, write) ==
  /\ pc[p] = "idle" /\ requests < MaxRequests
  /\ requests' = requests + 1
  /\ data' = [data EXCEPT ![p] = 1 - platter[p]]
  /\ idx' = [idx EXCEPT ![p].write = write]
  /\ pc' = [pc EXCEPT ![p] = "alloc"]
  /\ UNCHANGED <<queue, avail, availIdx, used_idx, vdisk_lock, bdisk, device, panicked>>

\* alloc3_desc() takes the lowest free descriptors, one by one.
Chain ==
  LET a == Lowest(free)
      b == Lowest(free \ {a})
  IN <<a, b, Lowest(free \ {a, b})>>

\* Too few: free_desc() gives back those it got and wakes the other
\* sleepers, if it got any, before this process sleeps on &disk.free[0].
AllocFails(p) ==
  /\ pc[p] = "alloc" /\ vdisk_lock = Nobody /\ Cardinality(free) < 3
  /\ pc' = [(IF free = {} THEN pc ELSE WakeFree(pc)) EXCEPT ![p] = "sleep_free"]
  /\ UNCHANGED <<queue, avail, availIdx, used_idx, vdisk_lock, bdisk, data, device, idx,
                 requests, panicked>>

\* Format the chain, record the buf, write the head into the available ring.
Submit(p) ==
  /\ pc[p] = "alloc" /\ vdisk_lock = Nobody /\ Cardinality(free) >= 3
  /\ LET c == Chain IN
       /\ free' = free \ {c[1], c[2], c[3]}
       /\ ops' = [ops EXCEPT ![c[1]] = [write |-> idx[p].write, sector |-> p]]
       /\ desc' = [desc EXCEPT ![c[1]] = [addr |-> c[1], next |-> c[2], more |-> TRUE],
                               ![c[2]] = [addr |-> p, next |-> c[3], more |-> TRUE],
                               ![c[3]] = [addr |-> c[1], next |-> 0, more |-> FALSE]]
       /\ info' = [info EXCEPT ![c[1]] = [b |-> p, status |-> 255]]
       /\ avail' = [avail EXCEPT ![availIdx % NUM] = c[1]]
       /\ idx' = [idx EXCEPT ![p].chain = c]
  /\ bdisk' = [bdisk EXCEPT ![p] = 1]
  /\ vdisk_lock' = p
  /\ pc' = [pc EXCEPT ![p] = "publish"]
  /\ UNCHANGED <<availIdx, used_idx, data, device, requests, panicked>>

\* Make the entry available, notify the device, and sleep on b: b->disk is 1,
\* for the handler needs vdisk_lock to clear it.
Publish(p) ==
  /\ pc[p] = "publish"
  /\ availIdx' = (availIdx + 1) % UINT16
  /\ vdisk_lock' = Nobody
  /\ pc' = [pc EXCEPT ![p] = "sleep_buf"]
  /\ UNCHANGED <<queue, avail, used_idx, bdisk, data, device, idx, requests, panicked>>

\* sleep() returned, but the request is not done (kill() woke the process).
StillWaiting(p) ==
  /\ pc[p] = "woken" /\ vdisk_lock = Nobody /\ bdisk[p] = 1
  /\ pc' = [pc EXCEPT ![p] = "sleep_buf"]
  /\ UNCHANGED <<queue, avail, availIdx, used_idx, vdisk_lock, bdisk, data, device, idx,
                 requests, panicked>>

\* The descriptors free_chain(i) visits, following next.
ChainFrom(i) ==
  LET j == desc[i].next
      k == desc[j].next
  IN IF ~desc[i].more THEN {i} ELSE IF ~desc[j].more THEN {i, j} ELSE {i, j, k}

\* The request is done: free_chain(), waking who waits for descriptors, and
\* return.  free_desc() panics on a descriptor that is free already.
Finish(p) ==
  /\ pc[p] = "woken" /\ vdisk_lock = Nobody /\ bdisk[p] = 0
  /\ LET c == ChainFrom(idx[p].chain[1]) IN
       /\ panicked' = (panicked \/ c \cap free # {})
       /\ free' = free \union c
       /\ desc' = [i \in Desc |-> IF i \in c THEN NoDesc ELSE desc[i]]
  /\ info' = [info EXCEPT ![idx[p].chain[1]].b = Nobody]
  /\ idx' = [idx EXCEPT ![p] = NoIdx]
  /\ pc' = [WakeFree(pc) EXCEPT ![p] = "idle"]
  /\ UNCHANGED <<ops, avail, availIdx, used_idx, vdisk_lock, bdisk, data, device, requests>>

\* kill() makes any sleeping process runnable; each of these sleeps loops.
Kill(p) ==
  /\ pc[p] \in {"sleep_free", "sleep_buf"}
  /\ pc' = [pc EXCEPT ![p] = IF @ = "sleep_free" THEN "alloc" ELSE "woken"]
  /\ UNCHANGED <<queue, avail, availIdx, used_idx, vdisk_lock, bdisk, data, device, idx,
                 requests, panicked>>

----------------------------------------------------------------------------
\* virtio_disk_intr(): acknowledge, which lets the device interrupt again...
IntrAck ==
  /\ irq /\ vdisk_lock = Nobody
  /\ vdisk_lock' = Handler
  /\ irq' = FALSE
  /\ UNCHANGED <<queue, avail, availIdx, used, usedIdx, used_idx, bdisk, data, platter, taken,
                 inflight, pc, idx, requests, panicked>>

\* ...take completions one by one as long as the device shows more...
IntrNext ==
  /\ vdisk_lock = Handler /\ used_idx # usedIdx
  /\ LET head == used[used_idx % NUM]
         b == info[head].b
     IN IF info[head].status # 0 \/ b = Nobody
        THEN panicked' = TRUE /\ UNCHANGED <<bdisk, pc>>
        ELSE /\ bdisk' = [bdisk EXCEPT ![b] = 0]
             /\ pc' = [pc EXCEPT ![b] = IF @ = "sleep_buf" THEN "woken" ELSE @]
             /\ UNCHANGED panicked
  /\ used_idx' = (used_idx + 1) % UINT16
  /\ UNCHANGED <<queue, avail, availIdx, vdisk_lock, data, device, idx, requests>>

Mut_IntrDone ==
  /\ vdisk_lock = Handler
  /\ vdisk_lock' = Nobody
  /\ irq' = FALSE
  /\ UNCHANGED <<queue, avail, availIdx, used, usedIdx, used_idx, bdisk, data, platter, taken,
                 inflight, pc, idx, requests, panicked>>

\* ...and return.
IntrDone ==
  /\ vdisk_lock = Handler /\ used_idx = usedIdx
  /\ vdisk_lock' = Nobody
  /\ UNCHANGED <<queue, avail, availIdx, used_idx, bdisk, data, device, pc, idx, requests, panicked>>

----------------------------------------------------------------------------
\* The device (external) takes the next head from the available ring.
DeviceTake ==
  /\ taken # availIdx
  /\ inflight' = inflight \union {avail[taken % NUM]}
  /\ taken' = (taken + 1) % UINT16
  /\ UNCHANGED <<queue, avail, availIdx, used, usedIdx, used_idx, vdisk_lock, bdisk, data,
                 platter, irq, pc, idx, requests, panicked>>

\* It moves the data the chain describes, writes the status byte the third
\* descriptor points to, and puts the head into the used ring.
DeviceComplete(h) ==
  LET d1 == desc[h].next
      b == desc[d1].addr
      s == desc[desc[d1].next].addr
      op == ops[h]
  IN /\ h \in inflight /\ b \in Procs /\ s \in Desc
     /\ inflight' = inflight \ {h}
     /\ IF op.write
        THEN platter' = [platter EXCEPT ![op.sector] = data[b]] /\ UNCHANGED data
        ELSE data' = [data EXCEPT ![b] = platter[op.sector]] /\ UNCHANGED platter
     /\ info' = [info EXCEPT ![s].status = 0]
     /\ used' = [used EXCEPT ![usedIdx % NUM] = h]
     /\ usedIdx' = (usedIdx + 1) % UINT16
     /\ irq' = TRUE
     /\ UNCHANGED <<free, desc, ops, avail, availIdx, used_idx, vdisk_lock, bdisk, taken, pc,
                    idx, requests, panicked>>

\* The state virtio_disk_init() leaves, StartIdx requests later.
Init ==
  /\ free = Desc /\ desc = [i \in Desc |-> NoDesc]
  /\ ops = [i \in Desc |-> [write |-> FALSE, sector |-> Nobody]]
  /\ info = [i \in Desc |-> [b |-> Nobody, status |-> 0]]
  /\ avail = [i \in Desc |-> 0] /\ availIdx = StartIdx
  /\ used = [i \in Desc |-> 0] /\ usedIdx = StartIdx /\ used_idx = StartIdx
  /\ vdisk_lock = Nobody
  /\ bdisk = [p \in Procs |-> 0] /\ data = [p \in Procs |-> 0]
  /\ platter = [p \in Procs |-> 0] /\ taken = StartIdx /\ inflight = {} /\ irq = FALSE
  /\ pc = [p \in Procs |-> "idle"]
  /\ idx = [p \in Procs |-> NoIdx]
  /\ requests = 0 /\ panicked = FALSE

Rw(p) == AllocFails(p) \/ Submit(p) \/ Publish(p) \/ StillWaiting(p) \/ Finish(p)
Intr == IntrAck \/ IntrNext \/ IntrDone
Device == DeviceTake \/ \E h \in Desc : DeviceComplete(h)

Next ==
  \/ \E p \in Procs : Rw(p) \/ Kill(p) \/ \E write \in BOOLEAN : Request(p, write)
  \/ Intr
  \/ Device

Spec == Init /\ [][Next]_vars

----------------------------------------------------------------------------
TypeOK ==
  /\ free \subseteq Desc /\ inflight \subseteq Desc
  /\ {availIdx, usedIdx, used_idx, taken} \subseteq 0..(UINT16 - 1)
  /\ vdisk_lock \in Procs \union {Nobody, Handler}
  /\ pc \in [Procs -> {"idle", "alloc", "sleep_free", "publish", "sleep_buf", "woken"}]
  /\ bdisk \in [Procs -> 0..1] /\ data \in [Procs -> 0..1] /\ platter \in [Procs -> 0..1]
  /\ irq \in BOOLEAN /\ panicked \in BOOLEAN

Active(p) == pc[p] \in {"publish", "sleep_buf", "woken"}

\* alloc3_desc() and free_chain() never lose or share a descriptor: the free
\* ones and the chains of the requests in progress partition the table, also
\* after an allocation that failed half-way was undone.
ChainsPartition ==
  /\ \A p, q \in Procs : p # q /\ Active(p) /\ Active(q) =>
       ChainFrom(idx[p].chain[1]) \cap ChainFrom(idx[q].chain[1]) = {}
  /\ free = Desc \ UNION {ChainFrom(idx[p].chain[1]) : p \in {q \in Procs : Active(q)}}

\* When virtio_disk_rw() returns, the device has moved this buf's data: the
\* buf and its block agree, whatever order requests were completed in, and
\* though kill() may have ended the sleep early.
TransferDone == \A p \in Procs : pc[p] = "idle" => data[p] = platter[p]

\* Neither a used ring entry with a status that is not written, or without
\* buf, nor a descriptor freed twice: the panics of virtio_disk_intr() and
\* free_desc() are not reached, across the wrap of the 16-bit indices.
DriverNeverPanics == ~panicked

\* No completion is overlooked and no sleeper forgotten: used entries not yet
\* seen are owed an interrupt or the rest of the handler's loop, which
\* acknowledges before it looks; who sleeps on b has its request with the
\* driver, the device or the used ring; and nobody sleeps for descriptors
\* that are free.
NoRequestForgotten ==
  /\ used_idx # usedIdx => irq \/ vdisk_lock = Handler
  /\ \A p \in Procs : pc[p] = "sleep_buf" => bdisk[p] = 1
  /\ \A p \in Procs : pc[p] = "sleep_free" => Cardinality(free) < 3

(* The driver as a whole: descriptors neither lost nor shared, a request   *)
(* returns with its own data, and none is forgotten.                       *)
DriverSafe ==
  /\ TypeOK
  /\ ChainsPartition
  /\ TransferDone
  /\ DriverNeverPanics
  /\ NoRequestForgotten
=============================================================================
