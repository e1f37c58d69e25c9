--------------------------- MODULE BufCacheProofs ---------------------------
(***************************************************************************)
(* Proofs about BufCache for any number of processes, buffers and blocks:  *)
(* no two buffers for a block, none recycled in use, none with old data.   *)
(* That bget() finds a buffer needs one for each process and one for each  *)
(* block the log can have pinned: EnoughBuffers.                           *)
(***************************************************************************)
EXTENDS BufCache, FiniteSetTheorems, WellFoundedInduction, TLAPS

CacheConstants ==
  /\ IsFiniteSet(Procs) /\ Nobody \notin Procs \union Blocks
  /\ NBUF \in Nat /\ MaxPinned \in Nat
EnoughBuffers == Cardinality(Procs) + MaxPinned <= NBUF

Locked == {"read", "using", "done"}
Places == {"idle", "lock", "drop"} \union Locked

\* TypeOK without its bound on refcnt, which follows from RefcntExact.
TypeInv ==
  /\ block \in [Bufs -> Blocks \union {Nobody}] /\ valid \in [Bufs -> BOOLEAN]
  /\ refcnt \in [Bufs -> Nat] /\ newest \in [Bufs -> BOOLEAN]
  /\ lru \in [1..NBUF -> Bufs]
  /\ holder \in [Bufs -> Procs \union {Nobody}] /\ disk \in [Blocks -> BOOLEAN]
  /\ pinned \in SUBSET Blocks /\ cur \in [Procs -> Bufs \union {NoBuf}]
  /\ pc \in [Procs -> Places]

\* Every buffer is on the list.
LruInv == \A b \in Bufs : \E i \in 1..NBUF : lru[i] = b

\* A process has a buffer from bget() to the end of brelse(), and its lock from
\* acquiresleep() to releasesleep().
LockInv ==
  /\ \A p \in Procs : cur[p] = NoBuf <=> pc[p] = "idle"
  /\ \A p \in Procs : cur[p] # NoBuf => block[cur[p]] # Nobody
  /\ \A p \in Procs : pc[p] \in Locked => holder[cur[p]] = p
  /\ \A b \in Bufs : holder[b] # Nobody => pc[holder[b]] \in Locked /\ cur[holder[b]] = b

\* A valid buffer has the newest copy of its block.  A block that is pinned has
\* a valid buffer, and the disk has the newest copy of every other block.
FreshInv ==
  /\ \A b \in Bufs : valid[b] => newest[b]
  /\ \A p \in Procs : pc[p] = "read" => ~valid[cur[p]]
  /\ \A p \in Procs : pc[p] \in {"using", "done"} => valid[cur[p]]
  /\ \A k \in pinned : \E b \in Bufs : block[b] = k /\ valid[b]
  /\ \A k \in Blocks \ pinned : disk[k]

PinInv == IsFiniteSet(pinned) /\ Cardinality(pinned) <= MaxPinned

IInv ==
  /\ TypeInv /\ LruInv /\ LockInv /\ OneBufferPerBlock /\ FreshInv /\ RefcntExact /\ PinInv

----------------------------------------------------------------------------
\* A process that is not idle has a buffer, and the buffer a block.
LEMMA CurrentBuffer ==
  ASSUME CacheConstants, TypeInv, LockInv, NEW p \in Procs, pc[p] # "idle"
  PROVE  cur[p] \in Bufs /\ block[cur[p]] \in Blocks
<1>1. cur[p] \in Bufs
  BY DEF TypeInv, LockInv
<1> QED
  BY <1>1 DEF TypeInv, LockInv, NoBuf, Bufs

\* A non-empty set of positions has a last one.
LEMMA LastPosition ==
  ASSUME NBUF \in Nat, NEW U \in SUBSET (1..NBUF), U # {}
  PROVE  (CHOOSE i \in U : \A j \in U : j <= i) \in U
<1> DEFINE T == {NBUF - i : i \in U}
           R == OpToRel(<, Nat)
<1>0. \A i \in U : i \in Nat /\ NBUF - i \in Nat
  OBVIOUS
<1>1. T \subseteq Nat /\ T # {}
  BY <1>0
<1>2. PICK x \in T : \A y \in T : ~(<<y, x>> \in R)
  <2>1. IsWellFoundedOn(R, Nat)
    BY NatLessThanWellFounded
  <2> HIDE DEF T, R
  <2> QED
    BY <1>1, <2>1, WFMin
<1>3. \A y \in T : ~(y < x)
  BY <1>1, <1>2 DEF OpToRel
<1>4. PICK i \in U : x = NBUF - i
  OBVIOUS
<1>5. \A j \in U : j <= i
  <2> SUFFICES ASSUME NEW j \in U PROVE j <= i
    OBVIOUS
  <2>1. NBUF - j \in T
    OBVIOUS
  <2>2. ~(NBUF - j < NBUF - i)
    BY <1>3, <1>4, <2>1
  <2>3. i \in Nat /\ j \in Nat
    BY <1>0
  <2> QED
    BY <2>2, <2>3
<1> QED
  BY <1>5

\* What bget() recycles: a buffer without references.
LEMMA Recycles ==
  ASSUME CacheConstants, TypeInv, NEW p \in Procs, NEW k \in Blocks, BgetMiss(p, k)
  PROVE  \E b \in Bufs :
           /\ refcnt[b] = 0
           /\ block' = [block EXCEPT ![b] = k] /\ valid' = [valid EXCEPT ![b] = FALSE]
           /\ newest' = [newest EXCEPT ![b] = FALSE] /\ refcnt' = [refcnt EXCEPT ![b] = 1]
           /\ cur' = [cur EXCEPT ![p] = b]
<1> DEFINE i == CHOOSE i \in Unused : \A j \in Unused : j <= i
<1>1. i \in Unused
  <2>1. Unused \in SUBSET (1..NBUF) /\ Unused # {} /\ NBUF \in Nat
    BY DEF BgetMiss, Unused, CacheConstants
  <2> QED
    BY <2>1, LastPosition
<1>2. lru[i] \in Bufs /\ refcnt[lru[i]] = 0
  BY <1>1 DEF Unused, TypeInv
<1>3. /\ block' = [block EXCEPT ![lru[i]] = k] /\ valid' = [valid EXCEPT ![lru[i]] = FALSE]
      /\ newest' = [newest EXCEPT ![lru[i]] = FALSE] /\ refcnt' = [refcnt EXCEPT ![lru[i]] = 1]
      /\ cur' = [cur EXCEPT ![p] = lru[i]]
  BY DEF BgetMiss
<1> HIDE DEF i
<1> QED
  BY <1>2, <1>3

\* The processes between bget() and the end of brelse() of a buffer.
Users(b) == {p \in Procs : cur[p] = b}

\* They are no more than the processes.
LEMMA UsersFinite ==
  ASSUME CacheConstants, NEW b
  PROVE  /\ IsFiniteSet(Users(b)) /\ Cardinality(Users(b)) \in Nat
         /\ Cardinality(Users(b)) <= Cardinality(Procs) /\ Cardinality(Procs) \in Nat
<1>1. Users(b) \in SUBSET Procs /\ IsFiniteSet(Procs)
  BY DEF Users, CacheConstants
<1> QED
  BY <1>1, FS_Subset, FS_CardinalityType

\* A buffer with refcnt 0 is nobody's, unlocked, and its block is not pinned.
LEMMA Unreferenced ==
  ASSUME CacheConstants, IInv, NEW b \in Bufs, refcnt[b] = 0
  PROVE  /\ \A p \in Procs : cur[p] # b
         /\ block[b] \notin pinned /\ holder[b] = Nobody
<1>1. refcnt[b] = Cardinality(Users(b)) + (IF block[b] \in pinned THEN 1 ELSE 0)
  BY DEF IInv, RefcntExact, Users
<1>2. Cardinality(Users(b)) \in Nat /\ IsFiniteSet(Users(b))
  BY UsersFinite
<1>3. Cardinality(Users(b)) = 0 /\ block[b] \notin pinned
  BY <1>1, <1>2
<1>4. Users(b) = {}
  BY <1>2, <1>3, FS_EmptySet
<1>5. \A p \in Procs : cur[p] # b
  BY <1>4 DEF Users
<1>6. holder[b] = Nobody
  BY <1>5 DEF IInv, LockInv, TypeInv
<1> QED
  BY <1>3, <1>5, <1>6

\* refcnt of a process's buffer is positive: brelse() never takes it below 0.
LEMMA Referenced ==
  ASSUME CacheConstants, IInv, NEW p \in Procs, cur[p] \in Bufs
  PROVE  refcnt[cur[p]] \in Nat \ {0}
<1> DEFINE b == cur[p]
<1>1. refcnt[b] = Cardinality(Users(b)) + (IF block[b] \in pinned THEN 1 ELSE 0)
  BY DEF IInv, RefcntExact, Users
<1>2. p \in Users(b)
  BY DEF Users
<1> HIDE DEF b
<1>3. IsFiniteSet(Users(b)) /\ Cardinality(Users(b)) \in Nat
  BY UsersFinite
<1>4. Cardinality(Users(b)) # 0
  BY <1>2, <1>3, FS_EmptySet
<1>5. refcnt[b] \in Nat \ {0}
  BY <1>1, <1>3, <1>4
<1> QED
  BY <1>5 DEF b

----------------------------------------------------------------------------
\* Every step keeps the types: refcnt is never dropped below zero.
LEMMA TypeStep == ASSUME CacheConstants, IInv, [Next]_vars PROVE TypeInv'
<1> USE DEF cache, Goto, Places, Locked
<1>t. TypeInv /\ LockInv
  BY DEF IInv
<1>1. CASE UNCHANGED vars
  BY <1>t, <1>1 DEF vars, TypeInv
<1>2. ASSUME NEW p \in Procs, NEW k \in Blocks, BgetHit(p, k) PROVE TypeInv'
  BY <1>t, <1>2 DEF BgetHit, TypeInv
<1>3. ASSUME NEW p \in Procs, NEW k \in Blocks, BgetMiss(p, k) PROVE TypeInv'
  <2>1. PICK b \in Bufs :
          /\ refcnt[b] = 0
          /\ block' = [block EXCEPT ![b] = k] /\ valid' = [valid EXCEPT ![b] = FALSE]
          /\ newest' = [newest EXCEPT ![b] = FALSE] /\ refcnt' = [refcnt EXCEPT ![b] = 1]
          /\ cur' = [cur EXCEPT ![p] = b]
    BY <1>t, <1>3, Recycles
  <2>2. pc' = [pc EXCEPT ![p] = "lock"] /\ UNCHANGED <<lru, holder, disk, pinned>>
    BY <1>3 DEF BgetMiss
  <2> QED
    BY <1>t, <2>1, <2>2 DEF TypeInv
<1>4. ASSUME NEW p \in Procs, BgetLock(p) PROVE TypeInv'
  BY <1>t, <1>4 DEF BgetLock, TypeInv
<1>5. ASSUME NEW p \in Procs, Bread(p) PROVE TypeInv'
  <2>1. cur[p] \in Bufs /\ block[cur[p]] \in Blocks
    BY <1>t, <1>5, CurrentBuffer DEF Bread
  <2>2. disk[block[cur[p]]] \in BOOLEAN
    BY <1>t, <2>1 DEF TypeInv
  <2> QED
    BY <1>t, <1>5, <2>2 DEF Bread, TypeInv
<1>6. ASSUME NEW p \in Procs, Bwrite(p) PROVE TypeInv'
  BY <1>t, <1>6 DEF Bwrite, Changed, TypeInv
<1>7. ASSUME NEW p \in Procs, Bpin(p) PROVE TypeInv'
  <2>1. cur[p] \in Bufs /\ block[cur[p]] \in Blocks
    BY <1>t, <1>7, CurrentBuffer DEF Bpin
  <2>2. newest' \in [Bufs -> BOOLEAN]
    BY <1>t, <1>7 DEF Bpin, Changed, TypeInv
  <2>3. pinned' \in SUBSET Blocks
    BY <1>t, <1>7, <2>1 DEF Bpin, TypeInv
  <2>4. refcnt' \in [Bufs -> Nat]
    <3>1. refcnt' = refcnt \/ refcnt' = [refcnt EXCEPT ![cur[p]] = refcnt[cur[p]] + 1]
      BY <1>t, <1>7, <2>1 DEF Bpin, TypeInv
    <3>2. refcnt[cur[p]] + 1 \in Nat /\ refcnt \in [Bufs -> Nat]
      BY <1>t, <2>1 DEF TypeInv
    <3> QED
      BY <3>1, <3>2
  <2> QED
    BY <1>t, <1>7, <2>2, <2>3, <2>4 DEF Bpin, TypeInv
<1>8. ASSUME NEW p \in Procs, Bunpin(p) PROVE TypeInv'
  <2>1. cur[p] \in Bufs /\ block[cur[p]] \in Blocks
    BY <1>t, <1>8, CurrentBuffer DEF Bunpin
  <2>2. refcnt[cur[p]] - 1 \in Nat
    BY <2>1, Referenced
  <2>3. newest[cur[p]] \in BOOLEAN
    BY <1>t, <2>1 DEF TypeInv
  <2>4. refcnt' \in [Bufs -> Nat] /\ disk' \in [Blocks -> BOOLEAN]
    BY <1>t, <1>8, <2>2, <2>3 DEF Bunpin, TypeInv
  <2> QED
    BY <1>t, <1>8, <2>4 DEF Bunpin, TypeInv
<1>9. ASSUME NEW p \in Procs, BrelseUnlock(p) PROVE TypeInv'
  BY <1>t, <1>9 DEF BrelseUnlock, TypeInv
<1>10. ASSUME NEW p \in Procs, BrelseDrop(p) PROVE TypeInv'
  <2>1. cur[p] \in Bufs
    BY <1>t, <1>10, CurrentBuffer DEF BrelseDrop
  <2>2. refcnt[cur[p]] - 1 \in Nat
    BY <2>1, Referenced
  <2>3. refcnt' \in [Bufs -> Nat] /\ cur' \in [Procs -> Bufs \union {NoBuf}]
    BY <1>t, <1>10, <2>2 DEF BrelseDrop, TypeInv
  <2>4. lru' \in [1..NBUF -> Bufs]
    <3>1. MoveToFront(cur[p]) \in [1..NBUF -> Bufs]
      <4>1. ASSUME NEW i \in 1..NBUF, i # 1 PROVE i - 1 \in 1..NBUF
        BY <4>1 DEF CacheConstants
      <4> QED
        BY <1>t, <2>1, <4>1 DEF MoveToFront, TypeInv
    <3> QED
      BY <1>t, <1>10, <3>1 DEF BrelseDrop, TypeInv
  <2> QED
    BY <1>t, <1>10, <2>3, <2>4 DEF BrelseDrop, TypeInv
<1> QED
  BY <1>1, <1>2, <1>3, <1>4, <1>5, <1>6, <1>7, <1>8, <1>9, <1>10 DEF Next, Get, Use

\* brelse() moves a buffer on the list and loses none.
LEMMA LruStep == ASSUME CacheConstants, IInv, [Next]_vars PROVE LruInv'
<1>1. CASE lru' = lru
  BY <1>1 DEF IInv, LruInv
<1>2. ASSUME NEW p \in Procs, BrelseDrop(p), lru' = MoveToFront(cur[p]) PROVE LruInv'
  <2>0. cur[p] \in Bufs
    BY <1>2, CurrentBuffer DEF IInv, BrelseDrop
  <2>1. PICK j \in 1..NBUF : j = CHOOSE i \in 1..NBUF : lru[i] = cur[p]
    BY <2>0 DEF IInv, LruInv
  <2>2. lru[j] = cur[p] /\ NBUF \in Nat
    BY <2>0, <2>1 DEF IInv, LruInv, CacheConstants
  <2>3. lru' = [i \in 1..NBUF |-> IF i = 1 THEN cur[p]
                                  ELSE IF i <= j THEN lru[i - 1] ELSE lru[i]]
    BY <1>2, <2>1 DEF MoveToFront
  <2>4. ASSUME NEW b \in Bufs PROVE \E i \in 1..NBUF : lru'[i] = b
    <3>1. CASE b = cur[p]
      <4>1. 1 \in 1..NBUF
        BY <2>1, <2>2
      <4> QED
        BY <2>3, <3>1, <4>1
    <3>2. CASE b # cur[p]
      <4>1. PICK i \in 1..NBUF : lru[i] = b
        BY DEF IInv, LruInv
      <4>2. CASE i < j
        <5>1. i + 1 \in 1..NBUF /\ i + 1 # 1 /\ i + 1 <= j /\ (i + 1) - 1 = i
          BY <2>1, <2>2, <4>1, <4>2
        <5>2. lru'[i + 1] = lru[i]
          BY <2>3, <5>1
        <5> QED
          BY <4>1, <5>1, <5>2
      <4>3. CASE i > j
        <5>1. i # 1 /\ ~(i <= j)
          BY <2>1, <2>2, <4>1, <4>3
        <5> QED
          BY <2>3, <4>1, <5>1
      <4>4. i # j
        BY <2>2, <3>2, <4>1
      <4> QED
        BY <2>1, <2>2, <4>1, <4>2, <4>3, <4>4
    <3> QED
      BY <3>1, <3>2
  <2> QED
    BY <2>4 DEF LruInv
<1>3. lru' = lru \/ \E p \in Procs : BrelseDrop(p) /\ lru' = MoveToFront(cur[p])
  BY DEF Next, vars, Get, Use, cache, BgetHit, BgetMiss, BgetLock, Bread, Bwrite, Bpin, Bunpin,
         BrelseUnlock, BrelseDrop
<1> QED
  BY <1>1, <1>2, <1>3

\* The block of a process's buffer is in no other buffer.
LEMMA OnlyCopy ==
  ASSUME CacheConstants, IInv, NEW p \in Procs, pc[p] # "idle", NEW c \in Bufs, c # cur[p]
  PROVE  block[c] # block[cur[p]]
<1>1. cur[p] \in Bufs /\ block[cur[p]] \in Blocks
  BY CurrentBuffer DEF IInv
<1>2. block[cur[p]] # Nobody
  BY <1>1 DEF CacheConstants
<1> QED
  BY <1>1, <1>2 DEF IInv, OneBufferPerBlock

\* Every step keeps the locks with the processes that have taken them.
LEMMA LockStep == ASSUME CacheConstants, IInv, [Next]_vars PROVE LockInv'
<1> USE DEF cache, Goto, Locked
<1>t. TypeInv /\ LockInv
  BY DEF IInv
<1>f. /\ pc \in [Procs -> Places] /\ cur \in [Procs -> Bufs \union {NoBuf}]
      /\ holder \in [Bufs -> Procs \union {Nobody}] /\ block \in [Bufs -> Blocks \union {Nobody}]
  BY <1>t DEF TypeInv
<1>n. Nobody \notin Procs /\ Nobody \notin Blocks /\ NoBuf \notin Bufs
  BY DEF CacheConstants, Bufs, NoBuf
<1>1. CASE UNCHANGED <<pc, cur, holder, block>>
  BY <1>t, <1>1 DEF LockInv
<1>2. ASSUME NEW p \in Procs, NEW k \in Blocks, BgetHit(p, k) PROVE LockInv'
  <2>1. PICK b \in Bufs : block[b] = k /\ cur' = [cur EXCEPT ![p] = b]
    BY <1>2 DEF BgetHit
  <2>2. pc[p] = "idle" /\ pc' = [pc EXCEPT ![p] = "lock"] /\ UNCHANGED <<block, holder>>
    BY <1>2 DEF BgetHit
  <2> QED
    BY <1>t, <1>f, <1>n, <2>1, <2>2 DEF LockInv
<1>3. ASSUME NEW p \in Procs, NEW k \in Blocks, BgetMiss(p, k) PROVE LockInv'
  <2>1. PICK b \in Bufs : block' = [block EXCEPT ![b] = k] /\ cur' = [cur EXCEPT ![p] = b]
    BY <1>t, <1>3, Recycles
  <2>2. pc[p] = "idle" /\ pc' = [pc EXCEPT ![p] = "lock"] /\ UNCHANGED holder
    BY <1>3 DEF BgetMiss
  <2> QED
    BY <1>t, <1>f, <1>n, <2>1, <2>2 DEF LockInv
<1>4. ASSUME NEW p \in Procs, BgetLock(p) PROVE LockInv'
  <2>1. /\ pc[p] = "lock" /\ holder[cur[p]] = Nobody /\ UNCHANGED <<block, cur>>
        /\ holder' = [holder EXCEPT ![cur[p]] = p]
    BY <1>4 DEF BgetLock
  <2>2. pc' = [pc EXCEPT ![p] = "using"] \/ pc' = [pc EXCEPT ![p] = "read"]
    BY <1>4 DEF BgetLock
  <2>3. cur[p] \in Bufs
    BY <1>t, <2>1, CurrentBuffer
  <2> QED
    BY <1>t, <1>f, <1>n, <2>1, <2>2, <2>3 DEF LockInv
<1>5. ASSUME NEW p \in Procs, Bread(p) \/ Bwrite(p) \/ Bpin(p) \/ Bunpin(p) PROVE LockInv'
  <2>1. pc[p] \in {"read", "using"} /\ UNCHANGED <<block, cur, holder>>
    BY <1>5 DEF Bread, Bwrite, Bpin, Bunpin
  <2>2. pc' = [pc EXCEPT ![p] = "using"] \/ pc' = [pc EXCEPT ![p] = "done"]
    BY <1>5 DEF Bread, Bwrite, Bpin, Bunpin
  <2> QED
    BY <1>t, <1>f, <2>1, <2>2 DEF LockInv
<1>6. ASSUME NEW p \in Procs, BrelseUnlock(p) PROVE LockInv'
  <2>1. /\ pc[p] \in {"using", "done"} /\ pc' = [pc EXCEPT ![p] = "drop"]
        /\ holder' = [holder EXCEPT ![cur[p]] = Nobody] /\ UNCHANGED <<block, cur>>
    BY <1>6 DEF BrelseUnlock
  <2>2. cur[p] \in Bufs /\ holder[cur[p]] = p
    BY <1>t, <2>1, CurrentBuffer DEF LockInv
  <2> QED
    BY <1>t, <1>f, <1>n, <2>1, <2>2 DEF LockInv
<1>7. ASSUME NEW p \in Procs, BrelseDrop(p) PROVE LockInv'
  <2>1. /\ pc[p] = "drop" /\ pc' = [pc EXCEPT ![p] = "idle"]
        /\ cur' = [cur EXCEPT ![p] = NoBuf] /\ UNCHANGED <<block, holder>>
    BY <1>7 DEF BrelseDrop
  <2> QED
    BY <1>t, <1>f, <1>n, <2>1 DEF LockInv
<1> QED
  BY <1>1, <1>2, <1>3, <1>4, <1>5, <1>6, <1>7 DEF Next, Get, Use, vars

\* bget() recycles a buffer for a block only if no buffer has it.
LEMMA UniqueStep == ASSUME CacheConstants, IInv, [Next]_vars PROVE OneBufferPerBlock'
<1>1. CASE block' = block
  BY <1>1 DEF IInv, OneBufferPerBlock
<1>2. ASSUME NEW p \in Procs, NEW k \in Blocks, BgetMiss(p, k) PROVE OneBufferPerBlock'
  <2>1. PICK b \in Bufs : block' = [block EXCEPT ![b] = k]
    BY <1>2, Recycles DEF IInv
  <2>2. \A c \in Bufs : block[c] # k
    BY <1>2 DEF BgetMiss, Cached
  <2> QED
    BY <2>1, <2>2 DEF IInv, TypeInv, OneBufferPerBlock
<1>3. block' = block \/ \E p \in Procs, k \in Blocks : BgetMiss(p, k)
  BY DEF Next, vars, Get, Use, cache, BgetHit, BgetLock, Bread, Bwrite, Bpin, Bunpin,
         BrelseUnlock, BrelseDrop
<1> QED
  BY <1>1, <1>2, <1>3

\* A pinned block stays cached, and no more blocks are pinned than the log allows.
LEMMA PinStep == ASSUME CacheConstants, IInv, [Next]_vars PROVE PinInv'
<1>p. IsFiniteSet(pinned) /\ Cardinality(pinned) \in Nat /\ Cardinality(pinned) <= MaxPinned
  BY FS_CardinalityType DEF IInv, PinInv
<1>n. MaxPinned \in Nat
  BY DEF CacheConstants
<1>1. CASE pinned' = pinned
  BY <1>1 DEF IInv, PinInv
<1>2. ASSUME NEW p \in Procs, Bpin(p) PROVE PinInv'
  <2>1. /\ pinned' = pinned \union {block[cur[p]]}
        /\ block[cur[p]] \in pinned \/ Cardinality(pinned) < MaxPinned
    BY <1>2 DEF Bpin
  <2>2. /\ IsFiniteSet(pinned')
        /\ Cardinality(pinned') = IF block[cur[p]] \in pinned THEN Cardinality(pinned)
                                  ELSE Cardinality(pinned) + 1
    BY <1>p, <2>1, FS_AddElement
  <2> QED
    BY <1>p, <1>n, <2>1, <2>2 DEF PinInv
<1>3. ASSUME NEW p \in Procs, Bunpin(p) PROVE PinInv'
  <2>1. pinned' = pinned \ {block[cur[p]]}
    BY <1>3 DEF Bunpin
  <2>2. /\ IsFiniteSet(pinned')
        /\ Cardinality(pinned') = IF block[cur[p]] \in pinned THEN Cardinality(pinned) - 1
                                  ELSE Cardinality(pinned)
    BY <1>p, <2>1, FS_RemoveElement
  <2> QED
    BY <1>p, <1>n, <2>2 DEF PinInv
<1>4. pinned' = pinned \/ \E p \in Procs : Bpin(p) \/ Bunpin(p)
  BY DEF Next, vars, Get, Use, BgetHit, BgetMiss, BgetLock, Bread, Bwrite, BrelseUnlock, BrelseDrop
<1> QED
  BY <1>1, <1>2, <1>3, <1>4

\* Every step keeps the newest copy of each block where bread() looks for it.
LEMMA FreshStep == ASSUME CacheConstants, IInv, [Next]_vars PROVE FreshInv'
<1> USE DEF cache, Goto
<1>t. TypeInv /\ LockInv /\ FreshInv
  BY DEF IInv
<1>f. /\ pc \in [Procs -> Places] /\ cur \in [Procs -> Bufs \union {NoBuf}]
      /\ valid \in [Bufs -> BOOLEAN] /\ newest \in [Bufs -> BOOLEAN]
      /\ block \in [Bufs -> Blocks \union {Nobody}] /\ disk \in [Blocks -> BOOLEAN]
      /\ pinned \in SUBSET Blocks
  BY <1>t DEF TypeInv
<1>1. CASE UNCHANGED vars
  BY <1>t, <1>1 DEF vars, FreshInv
<1>2. ASSUME NEW p \in Procs, NEW k \in Blocks, BgetHit(p, k) PROVE FreshInv'
  <2>1. PICK b \in Bufs : cur' = [cur EXCEPT ![p] = b]
    BY <1>2 DEF BgetHit
  <2>2. pc' = [pc EXCEPT ![p] = "lock"] /\ UNCHANGED <<block, valid, newest, disk, pinned>>
    BY <1>2 DEF BgetHit
  <2> QED
    BY <1>t, <1>f, <2>1, <2>2 DEF FreshInv
<1>3. ASSUME NEW p \in Procs, NEW k \in Blocks, BgetMiss(p, k) PROVE FreshInv'
  <2>1. PICK b \in Bufs :
          /\ refcnt[b] = 0
          /\ block' = [block EXCEPT ![b] = k] /\ valid' = [valid EXCEPT ![b] = FALSE]
          /\ newest' = [newest EXCEPT ![b] = FALSE] /\ cur' = [cur EXCEPT ![p] = b]
    BY <1>t, <1>3, Recycles
  <2>2. pc' = [pc EXCEPT ![p] = "lock"] /\ UNCHANGED <<disk, pinned>>
    BY <1>3 DEF BgetMiss
  <2>3. block[b] \notin pinned /\ \A q \in Procs : cur[q] # b
    BY <2>1, Unreferenced
  <2>4. \A c \in Bufs : c # b => block'[c] = block[c] /\ valid'[c] = valid[c] /\ newest'[c] = newest[c]
    BY <1>f, <2>1
  <2>5. \A q \in Procs : q # p => pc'[q] = pc[q] /\ cur'[q] = cur[q]
    BY <1>f, <2>1, <2>2
  <2>6. ~valid'[b] /\ pc'[p] = "lock"
    BY <1>f, <2>1, <2>2
  <2>7. (\A c \in Bufs : valid[c] => newest[c])'
    BY <1>t, <2>4, <2>6 DEF FreshInv
  <2>8. (\A c \in pinned : \E d \in Bufs : block[d] = c /\ valid[d])'
    BY <1>t, <2>2, <2>3, <2>4 DEF FreshInv
  <2>9. \A q \in Procs : q # p /\ pc[q] \in {"read", "using", "done"} => cur[q] \in Bufs \ {b}
    BY <1>t, <2>3, CurrentBuffer
  <2>10. /\ (\A q \in Procs : pc[q] = "read" => ~valid[cur[q]])'
         /\ (\A q \in Procs : pc[q] \in {"using", "done"} => valid[cur[q]])'
    BY <1>t, <2>4, <2>5, <2>6, <2>9 DEF FreshInv
  <2> QED
    BY <1>t, <2>2, <2>7, <2>8, <2>10 DEF FreshInv
<1>4. ASSUME NEW p \in Procs, BgetLock(p) PROVE FreshInv'
  <2>1. pc' = [pc EXCEPT ![p] = IF valid[cur[p]] THEN "using" ELSE "read"]
    BY <1>4 DEF BgetLock
  <2>2. UNCHANGED <<block, valid, newest, disk, pinned, cur>>
    BY <1>4 DEF BgetLock
  <2> QED
    BY <1>t, <1>f, <2>1, <2>2 DEF FreshInv
<1>5. ASSUME NEW p \in Procs, Bread(p) PROVE FreshInv'
  <2>1. PICK b \in Bufs : b = cur[p] /\ block[b] \in Blocks
    BY <1>t, <1>5, CurrentBuffer DEF Bread
  <2>2. /\ pc[p] = "read" /\ pc' = [pc EXCEPT ![p] = "using"]
        /\ newest' = [newest EXCEPT ![b] = disk[block[b]]]
        /\ valid' = [valid EXCEPT ![b] = TRUE] /\ UNCHANGED <<block, disk, pinned, cur>>
    BY <1>5, <2>1 DEF Bread
  <2>3. ~valid[b]
    BY <1>t, <2>1, <2>2 DEF FreshInv
  <2>4. \A c \in Bufs : c # b => block[c] # block[b]
    BY <2>1, <2>2, OnlyCopy
  <2>5. disk[block[b]]
    BY <1>t, <2>1, <2>3, <2>4 DEF FreshInv
  <2>6. \A q \in Procs : q # p /\ pc[q] = "read" => cur[q] \in Bufs \ {b}
    BY <1>t, <2>1, <2>2, CurrentBuffer DEF LockInv, Locked
  <2>7. (\A c \in Bufs : valid[c] => newest[c])'
    BY <1>t, <1>f, <2>2, <2>5 DEF FreshInv
  <2>8. (\A q \in Procs : pc[q] = "read" => ~valid[cur[q]])'
    BY <1>t, <1>f, <2>2, <2>6 DEF FreshInv
  <2>9. \A c \in Bufs : valid[c] => valid'[c]
    BY <1>f, <2>2
  <2>10. (\A q \in Procs : pc[q] \in {"using", "done"} => valid[cur[q]])'
    <3>1. valid'[cur'[p]]
      BY <1>f, <2>1, <2>2
    <3>2. \A q \in Procs : q # p /\ pc'[q] \in {"using", "done"} => valid'[cur'[q]]
      BY <1>t, <1>f, <2>2, <2>9, CurrentBuffer DEF FreshInv
    <3> QED
      BY <3>1, <3>2
  <2> QED
    BY <1>t, <2>2, <2>7, <2>8, <2>9, <2>10 DEF FreshInv
<1>6. ASSUME NEW p \in Procs, Bwrite(p) \/ Bpin(p) PROVE FreshInv'
  <2>1. PICK b \in Bufs : b = cur[p] /\ block[b] \in Blocks
    BY <1>t, <1>6, CurrentBuffer DEF Bwrite, Bpin
  <2>2. /\ pc[p] = "using" /\ pc' = [pc EXCEPT ![p] = "done"]
        /\ newest' = Changed(b) /\ UNCHANGED <<block, valid, cur>>
    BY <1>6, <2>1 DEF Bwrite, Bpin
  <2>3. \/ disk' = [disk EXCEPT ![block[b]] = TRUE] /\ pinned' = pinned
        \/ disk' = [disk EXCEPT ![block[b]] = FALSE] /\ pinned' = pinned \union {block[b]}
    BY <1>6, <2>1 DEF Bwrite, Bpin
  <2>4. valid[b]
    BY <1>t, <2>1, <2>2 DEF FreshInv
  <2>5. \A c \in Bufs : c # b => block[c] # block[b]
    BY <2>1, <2>2, OnlyCopy
  <2>6. (\A c \in Bufs : valid[c] => newest[c])'
    BY <1>t, <2>2, <2>5 DEF FreshInv, Changed
  <2>7. /\ (\A q \in Procs : pc[q] = "read" => ~valid[cur[q]])'
        /\ (\A q \in Procs : pc[q] \in {"using", "done"} => valid[cur[q]])'
    BY <1>t, <1>f, <2>1, <2>2, <2>4 DEF FreshInv
  <2>8. (\A c \in pinned : \E d \in Bufs : block[d] = c /\ valid[d])'
    BY <1>t, <2>2, <2>3, <2>4 DEF FreshInv
  <2>9. (\A c \in Blocks \ pinned : disk[c])'
    BY <1>t, <1>f, <2>1, <2>3 DEF FreshInv
  <2> QED
    BY <2>6, <2>7, <2>8, <2>9 DEF FreshInv
<1>7. ASSUME NEW p \in Procs, Bunpin(p) PROVE FreshInv'
  <2>1. PICK b \in Bufs : b = cur[p] /\ block[b] \in Blocks
    BY <1>t, <1>7, CurrentBuffer DEF Bunpin
  <2>2. /\ pc[p] = "using" /\ pc' = [pc EXCEPT ![p] = "done"]
        /\ disk' = [disk EXCEPT ![block[b]] = newest[b]] /\ pinned' = pinned \ {block[b]}
        /\ UNCHANGED <<block, valid, newest, cur>>
    BY <1>7, <2>1 DEF Bunpin
  <2>3. newest[b] /\ valid[b]
    BY <1>t, <2>1, <2>2 DEF FreshInv
  <2>4. (\A c \in Blocks \ pinned : disk[c])'
    BY <1>t, <1>f, <2>1, <2>2, <2>3 DEF FreshInv
  <2> QED
    BY <1>t, <1>f, <2>1, <2>2, <2>3, <2>4 DEF FreshInv
<1>8. ASSUME NEW p \in Procs, BrelseUnlock(p) PROVE FreshInv'
  BY <1>t, <1>f, <1>8 DEF FreshInv, BrelseUnlock
<1>9. ASSUME NEW p \in Procs, BrelseDrop(p) PROVE FreshInv'
  BY <1>t, <1>f, <1>9 DEF FreshInv, BrelseDrop
<1> QED
  BY <1>1, <1>2, <1>3, <1>4, <1>5, <1>6, <1>7, <1>8, <1>9 DEF Next, Get, Use

Pins(b) == IF block[b] \in pinned THEN 1 ELSE 0

\* Every step changes refcnt as it changes the users and the pins of the buffers.
LEMMA RefStep == ASSUME CacheConstants, IInv, [Next]_vars PROVE RefcntExact'
<1> USE DEF cache, Goto
<1>t. TypeInv /\ LockInv
  BY DEF IInv
<1>f. /\ cur \in [Procs -> Bufs \union {NoBuf}] /\ refcnt \in [Bufs -> Nat]
      /\ block \in [Bufs -> Blocks \union {Nobody}]
  BY <1>t DEF TypeInv
<1>r. \A b \in Bufs : refcnt[b] = Cardinality(Users(b)) + Pins(b)
  BY DEF IInv, RefcntExact, Users, Pins
<1>u. \A b \in Bufs : IsFiniteSet(Users(b)) /\ Cardinality(Users(b)) \in Nat
  BY UsersFinite
<1>n. NoBuf \notin Bufs
  BY DEF NoBuf, Bufs
<1>v. \A b \in Bufs : Pins(b) \in 0..1
  BY DEF Pins
<1>s. SUFFICES \A c \in Bufs : refcnt'[c] = Cardinality(Users(c)') + Pins(c)'
  BY DEF RefcntExact, Users, Pins
<1>1. CASE UNCHANGED <<refcnt, cur, block, pinned>>
  <2>1. \A c \in Bufs : Users(c)' = Users(c) /\ Pins(c)' = Pins(c)
    BY <1>1 DEF Users, Pins
  <2> QED
    BY <1>1, <1>r, <2>1
<1>2. ASSUME NEW p \in Procs, NEW k \in Blocks, BgetHit(p, k)
      PROVE  \A c \in Bufs : refcnt'[c] = Cardinality(Users(c)') + Pins(c)'
  <2>1. PICK b \in Bufs : refcnt' = [refcnt EXCEPT ![b] = @ + 1] /\ cur' = [cur EXCEPT ![p] = b]
    BY <1>2 DEF BgetHit
  <2>2. cur[p] = NoBuf /\ UNCHANGED <<block, pinned>>
    BY <1>t, <1>2 DEF BgetHit, LockInv
  <2>3. \A c \in Bufs : Pins(c)' = Pins(c)
    BY <2>2 DEF Pins
  <2>4. \A c \in Bufs \ {b} : Users(c)' = Users(c) /\ refcnt'[c] = refcnt[c]
    BY <1>f, <1>n, <2>1, <2>2 DEF Users
  <2>5. Users(b)' = Users(b) \union {p} /\ p \notin Users(b) /\ refcnt'[b] = refcnt[b] + 1
    BY <1>f, <1>n, <2>1, <2>2 DEF Users
  <2>6. Cardinality(Users(b) \union {p}) = Cardinality(Users(b)) + 1
    BY <1>u, <2>5, FS_AddElement
  <2>7. refcnt'[b] = Cardinality(Users(b)') + Pins(b)'
    BY <1>r, <1>u, <1>v, <2>3, <2>5, <2>6
  <2> QED
    BY <1>r, <2>3, <2>4, <2>7
<1>3. ASSUME NEW p \in Procs, NEW k \in Blocks, BgetMiss(p, k)
      PROVE  \A c \in Bufs : refcnt'[c] = Cardinality(Users(c)') + Pins(c)'
  <2>1. PICK b \in Bufs : /\ refcnt[b] = 0 /\ block' = [block EXCEPT ![b] = k]
                          /\ refcnt' = [refcnt EXCEPT ![b] = 1] /\ cur' = [cur EXCEPT ![p] = b]
    BY <1>t, <1>3, Recycles
  <2>2. cur[p] = NoBuf /\ UNCHANGED pinned
    BY <1>t, <1>3 DEF BgetMiss, LockInv
  <2>3. k \notin pinned
    BY <1>3 DEF BgetMiss, Cached, IInv, FreshInv
  <2>4. \A c \in Bufs \ {b} : Users(c)' = Users(c) /\ refcnt'[c] = refcnt[c] /\ Pins(c)' = Pins(c)
    BY <1>f, <1>n, <2>1, <2>2 DEF Users, Pins
  <2>5. \A q \in Procs : cur[q] # b
    BY <2>1, Unreferenced
  <2>6. Users(b)' = {p} /\ Pins(b)' = 0 /\ refcnt'[b] = 1
    BY <1>f, <2>1, <2>2, <2>3, <2>5 DEF Users, Pins
  <2>7. Cardinality({p}) = 1
    BY FS_Singleton
  <2> QED
    BY <1>r, <2>4, <2>6, <2>7
<1>4. ASSUME NEW p \in Procs, Bpin(p) \/ Bunpin(p)
      PROVE  \A c \in Bufs : refcnt'[c] = Cardinality(Users(c)') + Pins(c)'
  <2>1. PICK b \in Bufs : b = cur[p] /\ block[b] \in Blocks
    BY <1>t, <1>4, CurrentBuffer DEF Bpin, Bunpin
  <2>2. \A c \in Bufs : c # b => block[c] # block[b]
    BY <1>4, <2>1, OnlyCopy DEF Bpin, Bunpin
  <2>3. UNCHANGED <<block, cur>>
    BY <1>4 DEF Bpin, Bunpin
  <2>4. \A c \in Bufs : Users(c)' = Users(c)
    BY <2>3 DEF Users
  <2>5. CASE Bpin(p)
    <3>1. /\ pinned' = pinned \union {block[b]}
          /\ refcnt' = [refcnt EXCEPT ![b] = IF block[b] \in pinned THEN @ ELSE @ + 1]
      BY <2>1, <2>5 DEF Bpin
    <3>2. \A c \in Bufs \ {b} : Pins(c)' = Pins(c) /\ refcnt'[c] = refcnt[c]
      BY <1>f, <2>2, <2>3, <3>1 DEF Pins
    <3>3. Pins(b)' = 1 /\ refcnt'[b] = refcnt[b] + (1 - Pins(b))
      BY <1>f, <2>3, <3>1 DEF Pins
    <3>4. refcnt'[b] = Cardinality(Users(b)) + Pins(b)'
      BY <1>r, <1>u, <1>v, <3>3
    <3> QED
      BY <1>r, <2>4, <3>2, <3>4
  <2>6. CASE Bunpin(p)
    <3>1. /\ pinned' = pinned \ {block[b]} /\ block[b] \in pinned
          /\ refcnt' = [refcnt EXCEPT ![b] = @ - 1]
      BY <2>1, <2>6 DEF Bunpin
    <3>2. \A c \in Bufs \ {b} : Pins(c)' = Pins(c) /\ refcnt'[c] = refcnt[c]
      BY <1>f, <2>2, <2>3, <3>1 DEF Pins
    <3>3. Pins(b)' = 0 /\ Pins(b) = 1 /\ refcnt'[b] = refcnt[b] - 1
      BY <1>f, <2>3, <3>1 DEF Pins
    <3>4. refcnt'[b] = Cardinality(Users(b)) + Pins(b)'
      BY <1>r, <1>u, <3>3
    <3> QED
      BY <1>r, <2>4, <3>2, <3>4
  <2> QED
    BY <1>4, <2>5, <2>6
<1>5. ASSUME NEW p \in Procs, BrelseDrop(p)
      PROVE  \A c \in Bufs : refcnt'[c] = Cardinality(Users(c)') + Pins(c)'
  <2>1. PICK b \in Bufs : b = cur[p]
    BY <1>t, <1>5, CurrentBuffer DEF BrelseDrop
  <2>2. /\ refcnt' = [refcnt EXCEPT ![b] = @ - 1] /\ cur' = [cur EXCEPT ![p] = NoBuf]
        /\ UNCHANGED <<block, pinned>>
    BY <1>5, <2>1 DEF BrelseDrop
  <2>3. \A c \in Bufs : Pins(c)' = Pins(c)
    BY <2>2 DEF Pins
  <2>4. \A c \in Bufs \ {b} : Users(c)' = Users(c) /\ refcnt'[c] = refcnt[c]
    BY <1>f, <1>n, <2>1, <2>2 DEF Users
  <2>5. Users(b)' = Users(b) \ {p} /\ p \in Users(b) /\ refcnt'[b] = refcnt[b] - 1
    BY <1>f, <1>n, <2>1, <2>2 DEF Users
  <2>6. Cardinality(Users(b) \ {p}) = Cardinality(Users(b)) - 1
    BY <1>u, <2>5, FS_RemoveElement
  <2>7. refcnt'[b] = Cardinality(Users(b)') + Pins(b)'
    BY <1>r, <1>u, <1>v, <2>3, <2>5, <2>6
  <2> QED
    BY <1>r, <2>3, <2>4, <2>7
<1>6. \/ UNCHANGED <<refcnt, cur, block, pinned>>
      \/ \E p \in Procs : \/ \E k \in Blocks : BgetHit(p, k) \/ BgetMiss(p, k)
                          \/ Bpin(p) \/ Bunpin(p) \/ BrelseDrop(p)
  BY DEF Next, vars, Get, Use, BgetLock, Bread, Bwrite, BrelseUnlock
<1> QED
  BY <1>1, <1>2, <1>3, <1>4, <1>5, <1>6

----------------------------------------------------------------------------
\* A process that is about to call bget() finds a buffer without references:
\* the others have one buffer each at most, and the log has its pinned ones.
LEMMA BufferLeft == ASSUME CacheConstants, EnoughBuffers, IInv PROVE BgetFindsBuffer
<1>t. TypeInv /\ LockInv
  BY DEF IInv
<1>n. NBUF \in Nat /\ MaxPinned \in Nat /\ IsFiniteSet(Procs) /\ Cardinality(Procs) + MaxPinned <= NBUF
  BY DEF CacheConstants, EnoughBuffers
<1> SUFFICES ASSUME NEW p \in Procs, pc[p] = "idle", Unused = {}
             PROVE  FALSE
  BY DEF BgetFindsBuffer
<1> DEFINE Q == Procs \ {p}
           f == [q \in Q |-> cur[q]]
           A == {cur[q] : q \in Q}
           B == {b \in Bufs : block[b] \in pinned}
           g == [b \in B |-> block[b]]
<1>1. \A b \in Bufs : refcnt[b] # 0
  BY DEF IInv, LruInv, Unused
<1>2. cur[p] = NoBuf /\ NoBuf \notin Bufs
  BY <1>t DEF LockInv, NoBuf, Bufs
<1>3. \A b \in Bufs : b \in A \union B
  <2> SUFFICES ASSUME NEW b \in Bufs, b \notin A, b \notin B PROVE FALSE
    OBVIOUS
  <2>1. Users(b) = {}
    BY <1>2 DEF Users
  <2>2. block[b] \notin pinned
    OBVIOUS
  <2>3. refcnt[b] = Cardinality({}) + 0
    BY <2>1, <2>2 DEF IInv, RefcntExact, Users
  <2>4. Cardinality({}) = 0
    BY FS_EmptySet
  <2> QED
    BY <1>1, <2>3, <2>4
<1>4. /\ IsFiniteSet(Q) /\ Cardinality(Q) = Cardinality(Procs) - 1
      /\ Cardinality(Procs) \in Nat
  BY <1>n, FS_RemoveElement, FS_CardinalityType
<1>5. IsFiniteSet(A) /\ Cardinality(A) <= Cardinality(Q)
  <2>1. f \in Surjection(Q, A)
    BY DEF Surjection
  <2> HIDE DEF f, A, Q
  <2> QED
    BY <1>4, <2>1, FS_Surjection
<1>6. IsFiniteSet(pinned) /\ Cardinality(pinned) <= MaxPinned /\ Cardinality(pinned) \in Nat
  BY FS_CardinalityType DEF IInv, PinInv
<1>7. IsFiniteSet(B) /\ Cardinality(B) <= Cardinality(pinned)
  <2>1. pinned \in SUBSET Blocks /\ Nobody \notin pinned
    BY <1>t DEF TypeInv, CacheConstants
  <2>2. \A b, c \in B : block[b] = block[c] => b = c
    BY <2>1 DEF IInv, OneBufferPerBlock
  <2>3. g \in Injection(B, pinned)
    BY <2>2 DEF Injection, IsInjective
  <2> HIDE DEF g, B
  <2> QED
    BY <1>6, <2>3, FS_Injection
<1> HIDE DEF A, B, Q
<1>8. /\ IsFiniteSet(A \union B)
      /\ Cardinality(A \union B) = Cardinality(A) + Cardinality(B) - Cardinality(A \intersect B)
  BY <1>5, <1>7, FS_Union
<1>9. Cardinality(A) \in Nat /\ Cardinality(B) \in Nat /\ Cardinality(A \intersect B) \in Nat
  <2>1. A \intersect B \in SUBSET A
    OBVIOUS
  <2>2. IsFiniteSet(A \intersect B)
    BY <1>5, <2>1, FS_Subset
  <2> QED
    BY <1>5, <1>7, <2>2, FS_CardinalityType
<1>10. Cardinality(Bufs) <= Cardinality(A \union B)
  <2>1. Bufs \in SUBSET (A \union B)
    BY <1>3
  <2> QED
    BY <1>8, <2>1, FS_Subset
<1>11. Cardinality(Bufs) = NBUF
  <2>1. Cardinality(1..NBUF) = IF 1 > NBUF THEN 0 ELSE NBUF - 1 + 1
    BY <1>n, FS_Interval
  <2> QED
    BY <1>n, <2>1 DEF Bufs
<1> QED
  BY <1>n, <1>4, <1>5, <1>6, <1>7, <1>8, <1>9, <1>10, <1>11

\* The bound on refcnt that TypeOK states.
LEMMA Typed == ASSUME CacheConstants, IInv PROVE TypeOK
<1>1. \A b \in Bufs : refcnt[b] \in 0..(Cardinality(Procs) + 1)
  <2> SUFFICES ASSUME NEW b \in Bufs PROVE refcnt[b] \in 0..(Cardinality(Procs) + 1)
    OBVIOUS
  <2>1. refcnt[b] = Cardinality(Users(b)) + (IF block[b] \in pinned THEN 1 ELSE 0)
    BY DEF IInv, RefcntExact, Users
  <2>2. /\ Cardinality(Users(b)) \in Nat /\ Cardinality(Procs) \in Nat
        /\ Cardinality(Users(b)) <= Cardinality(Procs)
    BY UsersFinite
  <2> QED
    BY <2>1, <2>2
<1> QED
  BY <1>1 DEF IInv, TypeInv, LruInv, TypeOK, Places, Locked

\* A process reads valid buffers only, and those have the newest data.
LEMMA Fresh == ASSUME CacheConstants, IInv PROVE ReadsNewest
<1>1. \A p \in Procs : pc[p] \in {"using", "done"} => cur[p] \in Bufs
  BY CurrentBuffer DEF IInv
<1> QED
  BY <1>1 DEF IInv, FreshInv, ReadsNewest

\* binit()'s empty cache.
LEMMA InitInv == ASSUME CacheConstants, Init PROVE IInv
<1>n. NBUF \in Nat /\ NoBuf \notin Bufs /\ MaxPinned \in Nat
  BY DEF CacheConstants, NoBuf, Bufs
<1>1. TypeInv
  <2>1. lru \in [1..NBUF -> Bufs]
    BY <1>n DEF Init, Bufs
  <2> QED
    BY <2>1 DEF Init, TypeInv, Places
<1>2. LruInv
  <2> SUFFICES ASSUME NEW b \in Bufs PROVE \E i \in 1..NBUF : lru[i] = b
    BY DEF LruInv
  <2>1. NBUF + 1 - b \in 1..NBUF /\ NBUF + 1 - (NBUF + 1 - b) = b
    BY <1>n DEF Bufs
  <2> QED
    BY <2>1 DEF Init
<1>3. LockInv /\ OneBufferPerBlock /\ FreshInv
  BY <1>n DEF Init, LockInv, OneBufferPerBlock, FreshInv, Locked
<1>4. IsFiniteSet({}) /\ Cardinality({}) = 0
  BY FS_EmptySet
<1>5. PinInv
  BY <1>n, <1>4 DEF Init, PinInv
<1>6. RefcntExact
  <2>1. \A b \in Bufs : {p \in Procs : cur[p] = b} = {}
    BY <1>n DEF Init
  <2>2. \A b \in Bufs : refcnt[b] = 0 /\ block[b] \notin pinned
    BY DEF Init
  <2> QED
    BY <1>4, <2>1, <2>2 DEF RefcntExact
<1> QED
  BY <1>1, <1>2, <1>3, <1>5, <1>6 DEF IInv

\* The inductive invariant holds of every reachable state of the cache.
LEMMA Inductive == ASSUME CacheConstants PROVE Spec => []IInv
<1>1. Init => IInv
  BY InitInv
<1>2. IInv /\ [Next]_vars => IInv'
  BY TypeStep, LruStep, LockStep, UniqueStep, FreshStep, RefStep, PinStep DEF IInv
<1> QED
  BY <1>1, <1>2, PTL DEF Spec

\* However few buffers bio.c has: no block has two, a process that has locked
\* one sees what was last written to its block, and b->refcnt is exactly its
\* users and its pin.
THEOREM BuffersAreCoherent ==
  ASSUME CacheConstants
  PROVE  Spec => [](OneBufferPerBlock /\ ReadsNewest /\ RefcntExact)
<1>1. IInv => OneBufferPerBlock /\ ReadsNewest /\ RefcntExact
  BY Fresh DEF IInv
<1> QED
  BY <1>1, Inductive, PTL

\* With a buffer for each process and for each block the log may have pinned,
\* bget() also never panics: the whole of CacheCoherent.
THEOREM CacheIsCoherent ==
  ASSUME CacheConstants, EnoughBuffers
  PROVE  Spec => []CacheCoherent
<1>1. IInv => CacheCoherent
  BY Typed, Fresh, BufferLeft DEF IInv, CacheCoherent
<1> QED
  BY <1>1, Inductive, PTL
=============================================================================
