---------------------------- MODULE VirtioProofs ----------------------------
(***************************************************************************)
(* Proofs about Virtio: the driver is safe for any number of processes and *)
(* any ring size that divides 2^16, wherever its indices are when they     *)
(* wrap, and every request that is under way is in exactly one place: the  *)
(* available ring, the device, or the used ring.                           *)
(***************************************************************************)
EXTENDS Virtio, FiniteSetTheorems, WellFoundedInduction, TLAPS

VirtioConstants ==
  /\ NUM \in Nat \ {0} /\ NUM < UINT16 /\ UINT16 % NUM = 0
  /\ StartIdx \in 0..(UINT16 - 1)
  /\ Nobody \notin Procs /\ Handler \notin Procs /\ Nobody # Handler

----------------------------------------------------------------------------
(* A ring between two free-running 16-bit indices: the entries its writer  *)
(* has published up to "to" and its reader has taken up to "from".         *)
Index == 0..(UINT16 - 1)
Count(from, to) == (to - from) % UINT16
Entry(ring, from, j) == ring[(from + j) % NUM]
Held(ring, from, to) == {Entry(ring, from, j) : j \in 0..(Count(from, to) - 1)}

\* It is not overrun, and no head is in it twice.
Sound(ring, from, to) ==
  /\ Count(from, to) <= NUM
  /\ \A i, j \in 0..(Count(from, to) - 1) : Entry(ring, from, i) = Entry(ring, from, j) => i = j

\* Quotient and remainder.
LEMMA DivMod ==
  ASSUME NEW m \in Nat \ {0}, NEW a \in Int
  PROVE  a \div m \in Int /\ a % m \in 0..(m - 1) /\ a % m = a - m * (a \div m)
<1>1. m \in Int /\ m > 0
  OBVIOUS
<1>2. a \div m \in Int /\ a % m = a - m * (a \div m)
  BY <1>1, SMT
<1>3. a % m \in 0..(m - 1)
  OBVIOUS
<1> QED
  BY <1>2, <1>3

\* The remainder is unique.
LEMMA Remainder ==
  ASSUME NEW m \in Nat \ {0}, NEW q \in Int, NEW r \in 0..(m - 1)
  PROVE  (m * q + r) % m = r
OBVIOUS

\* Adding a multiple of m does not change the remainder.
LEMMA ModAdd ==
  ASSUME NEW m \in Nat \ {0}, NEW u \in Int, u % m = 0, NEW a \in Int
  PROVE  (a + u) % m = a % m
<1> DEFINE qa == a \div m
           qu == u \div m
           r == a % m
<1>1. qa \in Int /\ r \in 0..(m - 1) /\ r = a - m * qa
  BY DivMod
<1>2. qu \in Int /\ u = m * qu
  <2>1. qu \in Int /\ u % m = u - m * qu
    BY DivMod
  <2>2. m * qu \in Int
    BY <2>1
  <2> QED
    BY <2>1, <2>2
<1> HIDE DEF qa, qu, r
<1>3. qa + qu \in Int /\ m * qa \in Int /\ m * (qa + qu) = m * qa + m * qu
  BY <1>1, <1>2
<1>4. a + u = m * (qa + qu) + r
  BY <1>1, <1>2, <1>3
<1>5. (m * (qa + qu) + r) % m = r
  BY <1>1, <1>3, Remainder
<1> QED
  BY <1>4, <1>5 DEF r

\* Numbers less than m apart have different remainders.
LEMMA ModDiffers ==
  ASSUME NEW m \in Nat \ {0}, NEW a \in Int, NEW b \in Int, a < b, b - a < m
  PROVE  a % m # b % m
<1> SUFFICES ASSUME a % m = b % m PROVE FALSE
  OBVIOUS
<1> DEFINE qa == a \div m
           qb == b \div m
           r == a % m
<1>1. qa \in Int /\ r \in 0..(m - 1) /\ r = a - m * qa
  BY DivMod
<1>2. qb \in Int /\ r = b - m * qb
  BY DivMod
<1> HIDE DEF qa, qb, r
<1>3. m * qa \in Int /\ m * qb \in Int /\ m * (qb - qa) = m * qb - m * qa
  BY <1>1, <1>2
<1>4. m * (qb - qa) = b - a /\ qb - qa \in Int
  BY <1>1, <1>2, <1>3
<1>5. CASE qb - qa <= 0
  <2>1. m * (qb - qa) <= 0
    BY <1>4, <1>5
  <2> QED
    BY <1>4, <2>1
<1>6. CASE qb - qa >= 1
  <2>1. m * (qb - qa) >= m
    BY <1>4, <1>6
  <2> QED
    BY <1>4, <2>1
<1> QED
  BY <1>4, <1>5, <1>6

\* 2^16 as the provers need it: its value plays no part.
LEMMA UInt16Type == UINT16 \in Nat \ {0}
BY DEF UINT16

\* A number that is at most 2^16 off its range wraps once.
LEMMA Wrap ==
  ASSUME NEW a \in Int, -UINT16 <= a, a < 2 * UINT16
  PROVE  a % UINT16 = IF a < 0 THEN a + UINT16 ELSE IF a < UINT16 THEN a ELSE a - UINT16
<1>1. UINT16 \in Nat \ {0}
  BY UInt16Type
<1>2. CASE a < 0
  <2>1. (UINT16 * (-1) + (a + UINT16)) % UINT16 = a + UINT16
    BY <1>1, <1>2, Remainder
  <2> QED
    BY <1>1, <1>2, <2>1
<1>3. CASE 0 <= a /\ a < UINT16
  BY <1>1, <1>3
<1>4. CASE UINT16 <= a
  <2>1. (UINT16 * 1 + (a - UINT16)) % UINT16 = a - UINT16
    BY <1>1, <1>4, Remainder
  <2> QED
    BY <1>1, <1>4, <2>1
<1> QED
  BY <1>1, <1>2, <1>3, <1>4

\* Incrementing a 16-bit index.
LEMMA Increment ==
  ASSUME NEW a \in Index
  PROVE  /\ (a + 1) % UINT16 = IF a + 1 = UINT16 THEN 0 ELSE a + 1
         /\ (a + 1) % UINT16 \in Index
<1>1. UINT16 \in Nat \ {0} /\ a \in Nat /\ a < UINT16
  BY UInt16Type DEF Index
<1>2. (a + 1) % UINT16 = IF a + 1 < 0 THEN a + 1 + UINT16 ELSE IF a + 1 < UINT16 THEN a + 1 ELSE a + 1 - UINT16
  BY <1>1, Wrap
<1> QED
  BY <1>1, <1>2 DEF Index

\* The distance of two 16-bit indices.
LEMMA Distance ==
  ASSUME NEW from \in Index, NEW to \in Index
  PROVE  /\ Count(from, to) = IF to < from THEN to - from + UINT16 ELSE to - from
         /\ Count(from, to) \in Nat /\ Count(from, to) < UINT16
         /\ Count(from, to) = 0 <=> from = to
<1>1. /\ UINT16 \in Nat \ {0} /\ from \in Nat /\ from < UINT16 /\ to \in Nat /\ to < UINT16
  BY UInt16Type DEF Index
<1>2. (to - from) % UINT16 = IF to - from < 0 THEN to - from + UINT16
                             ELSE IF to - from < UINT16 THEN to - from ELSE to - from - UINT16
  BY <1>1, Wrap
<1> QED
  BY <1>1, <1>2 DEF Count

\* A 16-bit index may wrap: the slot is the same, the ring's size dividing 2^16.
LEMMA SlotWraps ==
  ASSUME VirtioConstants, NEW a \in Nat, NEW b \in Nat, a = b \/ a = b + UINT16
  PROVE  a % NUM = b % NUM
<1>1. NUM \in Nat \ {0} /\ UINT16 \in Int /\ UINT16 % NUM = 0 /\ b \in Int
  BY UInt16Type DEF VirtioConstants
<1>2. (b + UINT16) % NUM = b % NUM
  BY <1>1, ModAdd
<1> QED
  BY <1>2

\* Every slot is a descriptor number.
LEMMA SlotType ==
  ASSUME VirtioConstants, NEW a \in Nat PROVE a % NUM \in Desc
<1>1. NUM \in Nat \ {0} /\ a \in Int
  BY DEF VirtioConstants
<1>2. a % NUM \in 0..(NUM - 1)
  BY <1>1, DivMod
<1> QED
  BY <1>2 DEF Desc

\* The slot after the last entry, and that it is none of theirs.
LEMMA NextSlot ==
  ASSUME VirtioConstants, NEW from \in Index, NEW to \in Index, Count(from, to) < NUM
  PROVE  /\ (from + Count(from, to)) % NUM = to % NUM
         /\ \A j \in 0..(Count(from, to) - 1) : (from + j) % NUM # to % NUM
<1> DEFINE n == Count(from, to)
<1>1. /\ NUM \in Nat \ {0} /\ n \in Nat /\ n < NUM /\ from \in Nat /\ to \in Nat /\ UINT16 \in Nat
      /\ n = IF to < from THEN to - from + UINT16 ELSE to - from
  BY Distance, UInt16Type DEF VirtioConstants, Index
<1> HIDE DEF n
<1>2. (from + n) % NUM = to % NUM
  <2>1. from + n \in Nat /\ (from + n = to \/ from + n = to + UINT16)
    BY <1>1
  <2> QED
    BY <1>1, <2>1, SlotWraps
<1>3. ASSUME NEW j \in 0..(n - 1) PROVE (from + j) % NUM # (from + n) % NUM
  <2>1. /\ from + j \in Int /\ from + n \in Int /\ from + j < from + n
        /\ (from + n) - (from + j) < NUM
    BY <1>1
  <2> QED
    BY <1>1, <2>1, ModDiffers
<1> QED
  BY <1>2, <1>3 DEF n

\* Writing the slot behind the last entry changes no entry.
LEMMA WriteBehind ==
  ASSUME VirtioConstants, NEW from \in Index, NEW to \in Index, Count(from, to) < NUM,
         NEW ring, NEW ring2, \A i \in Desc : i # to % NUM => ring2[i] = ring[i]
  PROVE  /\ Held(ring2, from, to) = Held(ring, from, to)
         /\ Sound(ring, from, to) => Sound(ring2, from, to)
<1>1. Count(from, to) \in Nat /\ from \in Nat /\ to \in Nat
  BY Distance, UInt16Type DEF Index
<1>2. ASSUME NEW j \in 0..(Count(from, to) - 1) PROVE Entry(ring2, from, j) = Entry(ring, from, j)
  <2>1. (from + j) % NUM # to % NUM
    BY NextSlot
  <2>2. (from + j) % NUM \in Desc
    BY <1>1, SlotType
  <2> QED
    BY <2>1, <2>2 DEF Entry
<1>3. Held(ring2, from, to) = Held(ring, from, to)
  BY <1>2 DEF Held
<1>4. Sound(ring, from, to) => Sound(ring2, from, to)
  BY <1>2 DEF Sound
<1> QED
  BY <1>3, <1>4

\* Publishing it adds it to the entries.
LEMMA Publishing ==
  ASSUME VirtioConstants, NEW from \in Index, NEW to \in Index, Count(from, to) < NUM,
         NEW ring, NEW h, ring[to % NUM] = h, NEW to2, to2 = (to + 1) % UINT16
  PROVE  /\ Held(ring, from, to2) = Held(ring, from, to) \union {h}
         /\ Sound(ring, from, to) /\ h \notin Held(ring, from, to) => Sound(ring, from, to2)
         /\ to2 \in Index /\ Count(from, to2) = Count(from, to) + 1
<1> DEFINE n == Count(from, to)
<1>1. /\ NUM \in Nat /\ UINT16 \in Nat /\ NUM < UINT16 /\ n \in Nat /\ n < NUM
      /\ from \in 0..(UINT16 - 1) /\ to \in 0..(UINT16 - 1)
      /\ n = IF to < from THEN to - from + UINT16 ELSE to - from
  BY Distance, UInt16Type DEF VirtioConstants, Index
<1>2. to2 \in Index /\ to2 = IF to + 1 = UINT16 THEN 0 ELSE to + 1
  BY Increment
<1>3. Count(from, to2) = IF to2 < from THEN to2 - from + UINT16 ELSE to2 - from
  BY <1>2, Distance
<1>4. Entry(ring, from, n) = h
  BY NextSlot DEF Entry
<1> HIDE DEF n
<1>5. Count(from, to2) = n + 1
  BY <1>1, <1>2, <1>3
<1>6. 0..(Count(from, to2) - 1) = 0..(n - 1) \union {n}
  BY <1>1, <1>5
<1>7. Held(ring, from, to2) = Held(ring, from, to) \union {h}
  BY <1>4, <1>6 DEF Held, n
<1>8. ASSUME Sound(ring, from, to), h \notin Held(ring, from, to) PROVE Sound(ring, from, to2)
  <2>1. \A j \in 0..(n - 1) : Entry(ring, from, j) # h
    BY <1>8 DEF Held, n
  <2>2. \A i, j \in 0..(n - 1) : Entry(ring, from, i) = Entry(ring, from, j) => i = j
    BY <1>8 DEF Sound, n
  <2>3. Count(from, to2) <= NUM
    BY <1>1, <1>5
  <2> QED
    BY <1>4, <1>6, <2>1, <2>2, <2>3 DEF Sound
<1> QED
  BY <1>2, <1>5, <1>7, <1>8 DEF n

\* Taking the first entry removes it from the entries.
LEMMA Taking ==
  ASSUME VirtioConstants, NEW from \in Index, NEW to \in Index, from # to,
         NEW ring, Sound(ring, from, to), NEW from2, from2 = (from + 1) % UINT16
  PROVE  /\ ring[from % NUM] \in Held(ring, from, to)
         /\ Held(ring, from2, to) = Held(ring, from, to) \ {ring[from % NUM]}
         /\ Sound(ring, from2, to) /\ from2 \in Index /\ Count(from2, to) = Count(from, to) - 1
<1> DEFINE n == Count(from, to)
<1>1. /\ NUM \in Nat /\ UINT16 \in Nat /\ n \in Nat \ {0} /\ n <= NUM
      /\ from \in 0..(UINT16 - 1) /\ to \in 0..(UINT16 - 1)
      /\ n = IF to < from THEN to - from + UINT16 ELSE to - from
  BY Distance, UInt16Type DEF VirtioConstants, Index, Sound
<1>2. from2 \in Index /\ from2 = IF from + 1 = UINT16 THEN 0 ELSE from + 1
  BY Increment
<1>3. Count(from2, to) = IF to < from2 THEN to - from2 + UINT16 ELSE to - from2
  BY <1>2, Distance
<1> HIDE DEF n
<1>4. Count(from2, to) = n - 1
  BY <1>1, <1>2, <1>3
<1>5. ASSUME NEW j \in 0..(n - 2) PROVE Entry(ring, from2, j) = Entry(ring, from, j + 1)
  <2>1. /\ from + (j + 1) \in Nat /\ from2 + j \in Nat
        /\ from + (j + 1) = from2 + j \/ from + (j + 1) = from2 + j + UINT16
    BY <1>1, <1>2
  <2>2. (from + (j + 1)) % NUM = (from2 + j) % NUM
    BY <1>2, <2>1, SlotWraps
  <2> QED
    BY <2>2 DEF Entry
<1>6. Entry(ring, from, 0) = ring[from % NUM] /\ 0 \in 0..(n - 1)
  <2>1. from + 0 = from
    BY <1>1
  <2> QED
    BY <1>1, <2>1 DEF Entry
<1>7. \A i, j \in 0..(n - 1) : Entry(ring, from, i) = Entry(ring, from, j) => i = j
  BY DEF Sound, n
<1>8. 0..(Count(from2, to) - 1) = 0..(n - 2) /\ \A j \in 0..(n - 2) : j + 1 \in 0..(n - 1) /\ j + 1 # 0
  BY <1>1, <1>4
<1>9. \A i \in 0..(n - 1) : i # 0 => i - 1 \in 0..(n - 2) /\ (i - 1) + 1 = i
  BY <1>1
<1>10. Held(ring, from2, to) = {Entry(ring, from2, j) : j \in 0..(n - 2)}
  BY <1>8 DEF Held
<1>11. Held(ring, from, to) = {Entry(ring, from, j) : j \in 0..(n - 1)}
  BY DEF Held, n
<1>12. Held(ring, from2, to) = Held(ring, from, to) \ {ring[from % NUM]}
  <2>1. ASSUME NEW x \in Held(ring, from2, to) PROVE x \in Held(ring, from, to) /\ x # ring[from % NUM]
    <3>1. PICK j \in 0..(n - 2) : x = Entry(ring, from, j + 1)
      BY <1>5, <1>10, <2>1
    <3> QED
      BY <1>6, <1>7, <1>8, <1>11, <3>1
  <2>2. ASSUME NEW x \in Held(ring, from, to), x # ring[from % NUM] PROVE x \in Held(ring, from2, to)
    <3>1. PICK i \in 0..(n - 1) : x = Entry(ring, from, i)
      BY <1>11, <2>2
    <3>2. i # 0
      BY <1>6, <2>2, <3>1
    <3>3. x = Entry(ring, from2, i - 1) /\ i - 1 \in 0..(n - 2)
      BY <1>5, <1>9, <3>1, <3>2
    <3> QED
      BY <1>10, <3>3
  <2> QED
    BY <2>1, <2>2
<1>13. Sound(ring, from2, to)
  <2>1. ASSUME NEW i \in 0..(n - 2), NEW j \in 0..(n - 2), Entry(ring, from2, i) = Entry(ring, from2, j)
        PROVE  i = j
    <3>1. i + 1 = j + 1
      BY <1>5, <1>7, <1>8, <2>1
    <3> QED
      BY <3>1
  <2>2. Count(from2, to) <= NUM
    BY <1>1, <1>4
  <2> QED
    BY <1>8, <2>1, <2>2 DEF Sound
<1> QED
  BY <1>2, <1>4, <1>6, <1>11, <1>12, <1>13 DEF n

\* A ring with a descriptor missing has room.
LEMMA RingRoom ==
  ASSUME VirtioConstants, NEW from \in Index, NEW to \in Index, NEW ring \in [Desc -> Desc],
         Sound(ring, from, to), NEW h \in Desc, h \notin Held(ring, from, to)
  PROVE  Count(from, to) < NUM
<1> DEFINE n == Count(from, to)
           S == 0..(n - 1)
           T == Desc \ {h}
           f == [j \in S |-> Entry(ring, from, j)]
<1>1. n \in Nat /\ NUM \in Nat \ {0} /\ from \in Nat
  BY Distance, UInt16Type DEF VirtioConstants, Index
<1>2. IsFiniteSet(Desc) /\ Cardinality(Desc) = NUM
  <2>1. PICK m \in Int : m = NUM - 1
    BY <1>1
  <2>2. IsFiniteSet(0..m) /\ Cardinality(0..m) = IF 0 > m THEN 0 ELSE m - 0 + 1
    BY FS_Interval
  <2> QED
    BY <1>1, <2>1, <2>2 DEF Desc
<1>3. IsFiniteSet(T) /\ Cardinality(T) = NUM - 1
  BY <1>1, <1>2, FS_RemoveElement
<1>4. Cardinality(S) = n
  <2>1. PICK m \in Int : m = n - 1
    BY <1>1
  <2>2. Cardinality(0..m) = IF 0 > m THEN 0 ELSE m - 0 + 1
    BY FS_Interval
  <2> QED
    BY <1>1, <2>1, <2>2
<1>5. \A j \in S : Entry(ring, from, j) \in T
  <2>1. \A j \in S : (from + j) % NUM \in Desc
    BY <1>1, SlotType
  <2> QED
    BY <2>1 DEF Held, Entry
<1>6. f \in Injection(S, T)
  <2>1. \A i, j \in S : f[i] = f[j] => i = j
    BY DEF Sound
  <2> QED
    BY <1>5, <2>1 DEF Injection, IsInjective
<1> HIDE DEF S, T, f, n
<1>7. Cardinality(S) <= Cardinality(T)
  BY <1>3, <1>6, FS_Injection
<1>8. n < NUM
  BY <1>1, <1>3, <1>4, <1>7
<1> QED
  BY <1>8 DEF n

----------------------------------------------------------------------------
\* The heads published and not yet taken, and those used and not yet seen.
Waiting == Held(avail, taken, availIdx)
Completed == Held(used, used_idx, usedIdx)
Queued == Waiting \union inflight \union Completed

HeadOf(p) == idx[p].chain[1]
Links(p) == {idx[p].chain[1], idx[p].chain[2], idx[p].chain[3]}
Pending(p) == pc[p] \in {"sleep_buf", "woken"} /\ bdisk[p] = 1

Places == {"idle", "alloc", "sleep_free", "publish", "sleep_buf", "woken"}

TypeInv ==
  /\ free \in SUBSET Desc /\ inflight \in SUBSET Desc
  /\ availIdx \in Index /\ taken \in Index /\ usedIdx \in Index /\ used_idx \in Index
  /\ desc \in [Desc -> [addr : Desc \union Procs \union {Nobody}, next : Desc, more : BOOLEAN]]
  /\ ops \in [Desc -> [write : BOOLEAN, sector : Procs \union {Nobody}]]
  /\ info \in [Desc -> [b : Procs \union {Nobody}, status : {0, 255}]]
  /\ avail \in [Desc -> Desc] /\ used \in [Desc -> Desc]
  /\ vdisk_lock \in Procs \union {Nobody, Handler}
  /\ pc \in [Procs -> Places]
  /\ idx \in [Procs -> [chain : Desc \X Desc \X Desc, write : BOOLEAN]]
  /\ bdisk \in [Procs -> 0..1] /\ data \in [Procs -> 0..1] /\ platter \in [Procs -> 0..1]
  /\ irq \in BOOLEAN /\ panicked \in BOOLEAN

\* The chain of a request is as virtio_disk_rw() formatted it.
Formatted(p) ==
  LET c == idx[p].chain IN
    /\ c[1] # c[2] /\ c[1] # c[3] /\ c[2] # c[3]
    /\ desc[c[1]].next = c[2] /\ desc[c[1]].more
    /\ desc[c[2]].addr = p /\ desc[c[2]].next = c[3] /\ desc[c[2]].more
    /\ desc[c[3]].addr = c[1] /\ ~desc[c[3]].more
    /\ info[c[1]].b = p /\ ops[c[1]].sector = p

\* The chains of the requests and the free descriptors partition the table.
ChainInv ==
  /\ \A p \in Procs : Active(p) => Formatted(p) /\ Links(p) \intersect free = {}
  /\ \A p, q \in Procs : Active(p) /\ Active(q) /\ p # q => Links(p) \intersect Links(q) = {}
  /\ \A i \in Desc : i \in free \/ \E p \in Procs : Active(p) /\ i \in Links(p)

\* The lock is held from the entry into the available ring to its publication,
\* and b->disk is 1 only for a request under way.
LockInv ==
  /\ \A p \in Procs : pc[p] = "publish" <=> vdisk_lock = p
  /\ \A p \in Procs : pc[p] = "publish" => avail[availIdx % NUM] = HeadOf(p) /\ bdisk[p] = 1
  /\ \A p \in Procs : bdisk[p] = 1 => Active(p)

\* What is queued is the head of a pending request, in one place and once; and
\* every pending request is queued.
QueueInv ==
  /\ Sound(avail, taken, availIdx) /\ Sound(used, used_idx, usedIdx)
  /\ Waiting \intersect inflight = {} /\ Waiting \intersect Completed = {}
  /\ inflight \intersect Completed = {}
  /\ \A h \in Queued : \E p \in Procs : Pending(p) /\ HeadOf(p) = h
  /\ \A p \in Procs : Pending(p) => HeadOf(p) \in Queued

\* The device has moved the data of whoever is not with it.
DataInv ==
  /\ \A p \in Procs : pc[p] = "idle" \/ (Active(p) /\ bdisk[p] = 0) => data[p] = platter[p]
  /\ \A p \in Procs : Pending(p) /\ HeadOf(p) \in Completed =>
                        info[HeadOf(p)].status = 0 /\ data[p] = platter[p]

IInv ==
  TypeInv /\ ChainInv /\ LockInv /\ QueueInv /\ DataInv /\ NoRequestForgotten /\ DriverNeverPanics

----------------------------------------------------------------------------
\* A non-empty set of descriptors has a lowest one.
LEMMA LowestOf ==
  ASSUME NEW S \in SUBSET Nat, S # {}
  PROVE  Lowest(S) \in S
<1> DEFINE R == OpToRel(<, Nat)
<1>1. PICK x \in S : \A y \in S : ~(<<y, x>> \in R)
  <2>1. IsWellFoundedOn(R, Nat)
    BY NatLessThanWellFounded
  <2> HIDE DEF R
  <2> QED
    BY <2>1, WFMin
<1>2. \A y \in S : ~(y < x)
  BY <1>1 DEF OpToRel
<1>3. \A y \in S : x <= y
  BY <1>2
<1> QED
  BY <1>3 DEF Lowest

\* alloc3_desc() gets three different free descriptors.
LEMMA ChainOfFree ==
  ASSUME VirtioConstants, free \in SUBSET Desc, Cardinality(free) >= 3
  PROVE  /\ Chain \in Desc \X Desc \X Desc
         /\ Chain[1] \in free /\ Chain[2] \in free /\ Chain[3] \in free
         /\ Chain[1] # Chain[2] /\ Chain[1] # Chain[3] /\ Chain[2] # Chain[3]
<1> DEFINE a == Lowest(free)
           b == Lowest(free \ {a})
           c == Lowest(free \ {a, b})
<1>1. IsFiniteSet(free) /\ free \in SUBSET Nat /\ Cardinality(free) \in Nat
  <2>1. NUM \in Nat \ {0}
    BY DEF VirtioConstants
  <2>2. PICK m \in Int : m = NUM - 1
    BY <2>1
  <2>3. IsFiniteSet(0..m) /\ 0..m \subseteq Nat
    BY FS_Interval
  <2>4. IsFiniteSet(Desc) /\ Desc \subseteq Nat
    BY <2>2, <2>3 DEF Desc
  <2>5. IsFiniteSet(free)
    BY <2>4, FS_Subset
  <2> QED
    BY <2>4, <2>5, FS_CardinalityType
<1>2. free # {}
  BY FS_EmptySet
<1>3. a \in free
  BY <1>1, <1>2, LowestOf
<1> HIDE DEF a
<1>4. /\ IsFiniteSet(free \ {a}) /\ Cardinality(free \ {a}) = Cardinality(free) - 1
  BY <1>1, <1>3, FS_RemoveElement
<1>5. free \ {a} # {}
  <2>1. Cardinality(free \ {a}) # 0
    BY <1>1, <1>4
  <2> QED
    BY <2>1, FS_EmptySet
<1>6. b \in free \ {a}
  <2>1. free \ {a} \in SUBSET Nat
    BY <1>1
  <2> QED
    BY <1>5, <2>1, LowestOf
<1> HIDE DEF b
<1>7. free \ {a, b} # {}
  <2>1. Cardinality((free \ {a}) \ {b}) = Cardinality(free \ {a}) - 1
    BY <1>4, <1>6, FS_RemoveElement
  <2>2. Cardinality((free \ {a}) \ {b}) # 0
    BY <1>1, <1>4, <2>1
  <2>3. (free \ {a}) \ {b} # {}
    BY <2>2, FS_EmptySet
  <2> QED
    BY <2>3
<1>8. c \in free \ {a, b}
  <2>1. free \ {a, b} \in SUBSET Nat
    BY <1>1
  <2> QED
    BY <1>7, <2>1, LowestOf
<1>9. Chain = <<a, b, c>>
  BY DEF Chain, a, b
<1> HIDE DEF c
<1> QED
  BY <1>3, <1>6, <1>8, <1>9

\* The numbers of a chain.
LEMMA LinksType ==
  ASSUME TypeInv, NEW p \in Procs
  PROVE  /\ idx[p].chain[1] \in Desc /\ idx[p].chain[2] \in Desc /\ idx[p].chain[3] \in Desc
         /\ HeadOf(p) \in Desc /\ Links(p) \subseteq Desc /\ HeadOf(p) \in Links(p)
BY DEF TypeInv, HeadOf, Links

\* free_chain() visits the three descriptors of a request.
LEMMA ChainFromHead ==
  ASSUME TypeInv, ChainInv, NEW p \in Procs, Active(p)
  PROVE  ChainFrom(idx[p].chain[1]) = Links(p)
<1> DEFINE c == idx[p].chain
<1>1. Formatted(p)
  BY DEF ChainInv
<1>2. /\ desc[c[1]].next = c[2] /\ desc[c[1]].more
      /\ desc[c[2]].next = c[3] /\ desc[c[2]].more
  BY <1>1 DEF Formatted
<1>3. ChainFrom(c[1]) = {c[1], c[2], c[3]}
  BY <1>2 DEF ChainFrom
<1> QED
  BY <1>3 DEF Links

\* Two requests have different heads.
LEMMA HeadsDiffer ==
  ASSUME ChainInv, NEW p \in Procs, NEW q \in Procs, Active(p), Active(q), HeadOf(p) = HeadOf(q)
  PROVE  p = q
<1>1. HeadOf(p) \in Links(p) /\ HeadOf(q) \in Links(q)
  BY DEF HeadOf, Links
<1> QED
  BY <1>1 DEF ChainInv

----------------------------------------------------------------------------
\* What the larger steps do, given the invariant.
\* A request takes three free descriptors and formats them.
LEMMA SubmitDoes ==
  ASSUME VirtioConstants, IInv, NEW p \in Procs, Submit(p)
  PROVE  \E c \in Desc \X Desc \X Desc :
           /\ c[1] \in free /\ c[2] \in free /\ c[3] \in free
           /\ c[1] # c[2] /\ c[1] # c[3] /\ c[2] # c[3]
           /\ free' = free \ {c[1], c[2], c[3]}
           /\ ops' = [ops EXCEPT ![c[1]] = [write |-> idx[p].write, sector |-> p]]
           /\ desc' = [desc EXCEPT ![c[1]] = [addr |-> c[1], next |-> c[2], more |-> TRUE],
                                   ![c[2]] = [addr |-> p, next |-> c[3], more |-> TRUE],
                                   ![c[3]] = [addr |-> c[1], next |-> 0, more |-> FALSE]]
           /\ info' = [info EXCEPT ![c[1]] = [b |-> p, status |-> 255]]
           /\ avail' = [avail EXCEPT ![availIdx % NUM] = c[1]]
           /\ idx' = [idx EXCEPT ![p].chain = c]
<1>1. free \in SUBSET Desc /\ Cardinality(free) >= 3
  BY DEF IInv, TypeInv, Submit
<1>2. PICK c : c = Chain
  OBVIOUS
<1>3. /\ c \in Desc \X Desc \X Desc
      /\ c[1] \in free /\ c[2] \in free /\ c[3] \in free
      /\ c[1] # c[2] /\ c[1] # c[3] /\ c[2] # c[3]
  BY <1>1, <1>2, ChainOfFree
<1> QED
  BY <1>2, <1>3 DEF Submit

\* A request that is done gives its descriptors back, and none was free.
LEMMA FinishDoes ==
  ASSUME IInv, NEW p \in Procs, Finish(p)
  PROVE  /\ Active(p) /\ ~Pending(p) /\ bdisk[p] = 0 /\ panicked' = panicked
         /\ free' = free \union Links(p)
         /\ desc' = [i \in Desc |-> IF i \in Links(p) THEN NoDesc ELSE desc[i]]
         /\ info' = [info EXCEPT ![HeadOf(p)].b = Nobody]
         /\ idx' = [idx EXCEPT ![p] = NoIdx]
         /\ pc' = [WakeFree(pc) EXCEPT ![p] = "idle"]
<1>1. Active(p) /\ bdisk[p] = 0
  BY DEF Finish, Active
<1>2. ChainFrom(idx[p].chain[1]) = Links(p)
  BY <1>1, ChainFromHead DEF IInv
<1>3. Links(p) \intersect free = {}
  BY <1>1 DEF IInv, ChainInv
<1>4. panicked' = panicked
  BY <1>2, <1>3 DEF Finish, IInv, TypeInv
<1> QED
  BY <1>1, <1>2, <1>4 DEF Finish, Pending, HeadOf

\* virtio_disk_intr() finds the buf of a pending request, with status 0.
LEMMA IntrNextDoes ==
  ASSUME VirtioConstants, IInv, IntrNext
  PROVE  \E p \in Procs :
           /\ Pending(p) /\ HeadOf(p) = used[used_idx % NUM] /\ HeadOf(p) \in Completed
           /\ data[p] = platter[p] /\ panicked' = panicked
           /\ bdisk' = [bdisk EXCEPT ![p] = 0] /\ pc' = [pc EXCEPT ![p] = "woken"]
<1>1. used[used_idx % NUM] \in Completed
  BY Taking DEF IInv, TypeInv, QueueInv, Completed, IntrNext
<1>2. PICK p \in Procs : Pending(p) /\ HeadOf(p) = used[used_idx % NUM]
  BY <1>1 DEF IInv, QueueInv, Queued
<1>3. info[HeadOf(p)].status = 0 /\ data[p] = platter[p]
  BY <1>1, <1>2 DEF IInv, DataInv
<1>4. info[HeadOf(p)].b = p
  BY <1>2 DEF IInv, ChainInv, Formatted, HeadOf, Pending, Active
<1>5. p # Nobody
  BY DEF VirtioConstants
<1>6. /\ bdisk' = [bdisk EXCEPT ![p] = 0] /\ panicked' = panicked
      /\ pc' = [pc EXCEPT ![p] = IF @ = "sleep_buf" THEN "woken" ELSE @]
  BY <1>2, <1>3, <1>4, <1>5 DEF IntrNext
<1>7. pc' = [pc EXCEPT ![p] = "woken"]
  BY <1>2, <1>6 DEF Pending, IInv, TypeInv
<1> QED
  BY <1>1, <1>2, <1>3, <1>6, <1>7

\* The device moves the data of a pending request, and of no other.
LEMMA CompleteDoes ==
  ASSUME VirtioConstants, IInv, NEW h \in Desc, DeviceComplete(h)
  PROVE  \E p \in Procs :
           /\ Pending(p) /\ HeadOf(p) = h /\ h \in inflight
           /\ data'[p] = platter'[p]
           /\ \A q \in Procs \ {p} : data'[q] = data[q] /\ platter'[q] = platter[q]
           /\ data' \in [Procs -> 0..1] /\ platter' \in [Procs -> 0..1]
           /\ info' = [info EXCEPT ![h].status = 0]
<1>1. PICK p \in Procs : Pending(p) /\ HeadOf(p) = h
  BY DEF IInv, QueueInv, Queued, DeviceComplete
<1>2. Formatted(p)
  BY <1>1 DEF IInv, ChainInv, Pending, Active
<1>3. /\ desc[desc[h].next].addr = p /\ desc[desc[desc[h].next].next].addr = h
      /\ ops[h].sector = p
  BY <1>1, <1>2 DEF Formatted, HeadOf
<1>4. /\ data \in [Procs -> 0..1] /\ platter \in [Procs -> 0..1]
  BY DEF IInv, TypeInv
<1>5. /\ h \in inflight /\ info' = [info EXCEPT ![h].status = 0]
  BY <1>3 DEF DeviceComplete
<1>6. \/ platter' = [platter EXCEPT ![p] = data[p]] /\ data' = data
      \/ data' = [data EXCEPT ![p] = platter[p]] /\ platter' = platter
  BY <1>3 DEF DeviceComplete
<1> QED
  BY <1>1, <1>4, <1>5, <1>6

----------------------------------------------------------------------------
\* Every step keeps the types.
LEMMA TypeStep == ASSUME VirtioConstants, IInv, [Next]_vars PROVE TypeInv'
<1> USE DEF queue, device, Places
<1>t. TypeInv
  BY DEF IInv
<1>n. 0 \in Desc /\ NUM \in Nat \ {0}
  BY DEF VirtioConstants, Desc
<1>w. WakeFree(pc) \in [Procs -> Places]
  BY <1>t DEF TypeInv, WakeFree
<1>1. CASE UNCHANGED vars
  BY <1>t, <1>1 DEF vars, TypeInv
<1>2. ASSUME NEW p \in Procs, NEW write \in BOOLEAN, Request(p, write) PROVE TypeInv'
  <2>0. platter[p] \in 0..1
    BY <1>t DEF TypeInv
  <2>1. 1 - platter[p] \in 0..1
    BY <2>0
  <2>2. data' \in [Procs -> 0..1] /\ pc' \in [Procs -> Places]
    BY <1>t, <1>2, <2>1 DEF TypeInv, Request
  <2>3. idx' \in [Procs -> [chain : Desc \X Desc \X Desc, write : BOOLEAN]]
    <3>1. idx' = [idx EXCEPT ![p].write = write]
      BY <1>2 DEF Request
    <3>2. idx \in [Procs -> [chain : Desc \X Desc \X Desc, write : BOOLEAN]]
      BY <1>t DEF TypeInv
    <3> QED
      BY <3>1, <3>2
  <2>4. UNCHANGED <<queue, avail, availIdx, used_idx, vdisk_lock, bdisk, device, panicked>>
    BY <1>2 DEF Request
  <2> QED
    BY <1>t, <2>2, <2>3, <2>4 DEF TypeInv
<1>3. ASSUME NEW p \in Procs, AllocFails(p) PROVE TypeInv'
  <2>1. pc' \in [Procs -> Places]
    BY <1>t, <1>w, <1>3 DEF TypeInv, AllocFails
  <2> QED
    BY <1>t, <1>3, <2>1 DEF TypeInv, AllocFails
<1>4. ASSUME NEW p \in Procs, Submit(p) PROVE TypeInv'
  <2>1. PICK c \in Desc \X Desc \X Desc :
           /\ free' = free \ {c[1], c[2], c[3]}
           /\ ops' = [ops EXCEPT ![c[1]] = [write |-> idx[p].write, sector |-> p]]
           /\ desc' = [desc EXCEPT ![c[1]] = [addr |-> c[1], next |-> c[2], more |-> TRUE],
                                   ![c[2]] = [addr |-> p, next |-> c[3], more |-> TRUE],
                                   ![c[3]] = [addr |-> c[1], next |-> 0, more |-> FALSE]]
           /\ info' = [info EXCEPT ![c[1]] = [b |-> p, status |-> 255]]
           /\ avail' = [avail EXCEPT ![availIdx % NUM] = c[1]]
           /\ idx' = [idx EXCEPT ![p].chain = c]
    BY <1>4, SubmitDoes, ZenonT(60)
  <2>2. /\ bdisk' = [bdisk EXCEPT ![p] = 1] /\ vdisk_lock' = p /\ pc' = [pc EXCEPT ![p] = "publish"]
        /\ UNCHANGED <<availIdx, used_idx, data, device, requests, panicked>>
    BY <1>4 DEF Submit
  <2>3. c[1] \in Desc /\ c[2] \in Desc /\ c[3] \in Desc
    OBVIOUS
  <2>4. desc' \in [Desc -> [addr : Desc \union Procs \union {Nobody}, next : Desc, more : BOOLEAN]]
    BY <1>t, <1>n, <2>1, <2>3, ZenonT(60) DEF TypeInv
  <2>5. ops' \in [Desc -> [write : BOOLEAN, sector : Procs \union {Nobody}]]
    BY <1>t, <2>1, <2>3 DEF TypeInv
  <2>6. info' \in [Desc -> [b : Procs \union {Nobody}, status : {0, 255}]]
    BY <1>t, <2>1, <2>3 DEF TypeInv
  <2>7. idx' \in [Procs -> [chain : Desc \X Desc \X Desc, write : BOOLEAN]]
    BY <1>t, <2>1 DEF TypeInv
  <2>8. avail' \in [Desc -> Desc] /\ free' \in SUBSET Desc
    BY <1>t, <2>1, <2>3 DEF TypeInv
  <2>9. bdisk' \in [Procs -> 0..1] /\ pc' \in [Procs -> Places]
    BY <1>t, <2>2 DEF TypeInv
  <2> QED
    BY <1>t, <2>2, <2>4, <2>5, <2>6, <2>7, <2>8, <2>9 DEF TypeInv
<1>5. ASSUME NEW p \in Procs, Publish(p) PROVE TypeInv'
  <2>1. availIdx' \in Index
    BY <1>t, <1>5, Increment DEF TypeInv, Publish
  <2> QED
    BY <1>t, <1>5, <2>1 DEF TypeInv, Publish
<1>6. ASSUME NEW p \in Procs, StillWaiting(p) \/ Kill(p) PROVE TypeInv'
  <2>1. pc' \in [Procs -> Places]
    <3>1. pc \in [Procs -> Places]
      BY <1>t DEF TypeInv
    <3>2. \/ pc' = [pc EXCEPT ![p] = "sleep_buf"]
          \/ pc' = [pc EXCEPT ![p] = IF @ = "sleep_free" THEN "alloc" ELSE "woken"]
      BY <1>6 DEF StillWaiting, Kill
    <3> QED
      BY <3>1, <3>2
  <2> QED
    BY <1>t, <1>6, <2>1, SMTT(60) DEF TypeInv, StillWaiting, Kill
<1>7. ASSUME NEW p \in Procs, Finish(p) PROVE TypeInv'
  <2>1. /\ panicked' = panicked /\ free' = free \union Links(p)
        /\ desc' = [i \in Desc |-> IF i \in Links(p) THEN NoDesc ELSE desc[i]]
        /\ info' = [info EXCEPT ![HeadOf(p)].b = Nobody]
        /\ idx' = [idx EXCEPT ![p] = NoIdx] /\ pc' = [WakeFree(pc) EXCEPT ![p] = "idle"]
    BY <1>7, FinishDoes
  <2>2. UNCHANGED <<ops, avail, availIdx, used_idx, vdisk_lock, bdisk, data, device>>
    BY <1>7 DEF Finish
  <2>3. free' \in SUBSET Desc
    BY <1>t, <2>1, LinksType DEF TypeInv
  <2>4. desc' \in [Desc -> [addr : Desc \union Procs \union {Nobody}, next : Desc, more : BOOLEAN]]
    BY <1>t, <1>n, <2>1 DEF TypeInv, NoDesc
  <2>5. info' \in [Desc -> [b : Procs \union {Nobody}, status : {0, 255}]]
    <3>1. info \in [Desc -> [b : Procs \union {Nobody}, status : {0, 255}]]
      BY <1>t DEF TypeInv
    <3>2. HeadOf(p) \in Desc
      BY <1>t, LinksType
    <3>3. PICK h \in Desc : h = HeadOf(p)
      BY <3>2
    <3>4. info' = [info EXCEPT ![h].b = Nobody]
      BY <2>1, <3>3
    <3> QED
      BY <3>1, <3>4
  <2>6. NoIdx \in [chain : Desc \X Desc \X Desc, write : BOOLEAN]
    BY <1>n DEF NoIdx
  <2>7. idx' \in [Procs -> [chain : Desc \X Desc \X Desc, write : BOOLEAN]]
    BY <1>t, <2>1, <2>6 DEF TypeInv
  <2>8. pc' \in [Procs -> Places]
    BY <1>w, <2>1
  <2> QED
    BY <1>t, <2>1, <2>2, <2>3, <2>4, <2>5, <2>7, <2>8 DEF TypeInv
<1>8. CASE IntrAck \/ IntrDone
  <2>1. /\ vdisk_lock' \in {Nobody, Handler} /\ irq' \in BOOLEAN
        /\ UNCHANGED <<queue, avail, availIdx, used, usedIdx, used_idx, bdisk, data, platter, taken,
                       inflight, pc, idx, panicked>>
    BY <1>t, <1>8 DEF TypeInv, IntrAck, IntrDone
  <2> QED
    BY <1>t, <2>1 DEF TypeInv
<1>9. CASE IntrNext
  <2>1. PICK p \in Procs : /\ panicked' = panicked /\ bdisk' = [bdisk EXCEPT ![p] = 0]
                           /\ pc' = [pc EXCEPT ![p] = "woken"]
    BY <1>9, IntrNextDoes
  <2>2. used_idx' \in Index
    BY <1>t, <1>9, Increment DEF TypeInv, IntrNext
  <2>3. UNCHANGED <<queue, avail, availIdx, vdisk_lock, data, device, idx>>
    BY <1>9 DEF IntrNext
  <2>4. bdisk' \in [Procs -> 0..1] /\ pc' \in [Procs -> Places]
    BY <1>t, <2>1 DEF TypeInv
  <2> QED
    BY <1>t, <2>1, <2>2, <2>3, <2>4 DEF TypeInv
<1>10. CASE DeviceTake
  <2>1. taken \in Nat
    BY <1>t, UInt16Type DEF TypeInv, Index
  <2>2. taken % NUM \in Desc
    BY <2>1, SlotType
  <2>3. inflight' \in SUBSET Desc
    BY <1>t, <1>10, <2>2 DEF TypeInv, DeviceTake
  <2>4. taken' \in Index
    BY <1>t, <1>10, Increment DEF TypeInv, DeviceTake
  <2> QED
    BY <1>t, <1>10, <2>3, <2>4 DEF TypeInv, DeviceTake
<1>11. ASSUME NEW h \in Desc, DeviceComplete(h) PROVE TypeInv'
  <2>1. /\ data' \in [Procs -> 0..1] /\ platter' \in [Procs -> 0..1]
        /\ info' = [info EXCEPT ![h].status = 0]
    BY <1>11, CompleteDoes
  <2>2. info' \in [Desc -> [b : Procs \union {Nobody}, status : {0, 255}]]
    <3>1. info \in [Desc -> [b : Procs \union {Nobody}, status : {0, 255}]]
      BY <1>t DEF TypeInv
    <3> QED
      BY <2>1, <3>1
  <2>3. usedIdx' \in Index
    BY <1>t, <1>11, Increment DEF TypeInv, DeviceComplete
  <2>4. used' \in [Desc -> Desc] /\ inflight' \in SUBSET Desc
    BY <1>t, <1>11 DEF TypeInv, DeviceComplete
  <2>5. /\ irq' = TRUE
        /\ UNCHANGED <<free, desc, ops, avail, availIdx, used_idx, vdisk_lock, bdisk, taken, pc, idx, panicked>>
    BY <1>11 DEF DeviceComplete
  <2> QED
    BY <1>t, <2>1, <2>2, <2>3, <2>4, <2>5 DEF TypeInv
<1> QED
  BY <1>1, <1>2, <1>3, <1>4, <1>5, <1>6, <1>7, <1>8, <1>9, <1>10, <1>11 DEF Next, Rw, Intr, Device

\* A step that starts and ends no request, and changes no chain of one.
LEMMA ChainKept ==
  ASSUME TypeInv, ChainInv, UNCHANGED <<free, desc, ops>>,
         \A i \in Desc : info'[i].b = info[i].b,
         \A p \in Procs : Active(p)' <=> Active(p),
         \A p \in Procs : Active(p) => idx'[p].chain = idx[p].chain
  PROVE  ChainInv'
<1>1. ASSUME NEW p \in Procs, Active(p) PROVE Formatted(p)' /\ Links(p)' = Links(p)
  <2>1. idx'[p].chain = idx[p].chain /\ idx[p].chain[1] \in Desc
    BY <1>1, LinksType
  <2>2. Formatted(p)
    BY <1>1 DEF ChainInv
  <2> QED
    BY <2>1, <2>2 DEF Formatted, Links
<1>2. \A p \in Procs : Active(p)' => Formatted(p)' /\ Links(p)' \intersect free' = {}
  BY <1>1 DEF ChainInv
<1>3. \A p, q \in Procs : Active(p)' /\ Active(q)' /\ p # q => Links(p)' \intersect Links(q)' = {}
  BY <1>1 DEF ChainInv
<1>4. \A i \in Desc : i \in free' \/ \E p \in Procs : Active(p)' /\ i \in Links(p)'
  BY <1>1, SMTT(60) DEF ChainInv
<1> QED
  BY <1>2, <1>3, <1>4 DEF ChainInv

\* A new request takes its chain from the free descriptors.
LEMMA ChainSubmit ==
  ASSUME VirtioConstants, IInv, NEW p \in Procs, Submit(p)
  PROVE  ChainInv'
<1>t. TypeInv /\ ChainInv
  BY DEF IInv
<1>1. PICK c \in Desc \X Desc \X Desc :
        /\ c[1] \in free /\ c[2] \in free /\ c[3] \in free
        /\ c[1] # c[2] /\ c[1] # c[3] /\ c[2] # c[3]
        /\ free' = free \ {c[1], c[2], c[3]}
        /\ ops' = [ops EXCEPT ![c[1]] = [write |-> idx[p].write, sector |-> p]]
        /\ desc' = [desc EXCEPT ![c[1]] = [addr |-> c[1], next |-> c[2], more |-> TRUE],
                                ![c[2]] = [addr |-> p, next |-> c[3], more |-> TRUE],
                                ![c[3]] = [addr |-> c[1], next |-> 0, more |-> FALSE]]
        /\ info' = [info EXCEPT ![c[1]] = [b |-> p, status |-> 255]]
        /\ idx' = [idx EXCEPT ![p].chain = c]
  BY SubmitDoes, ZenonT(60)
<1>2. pc[p] = "alloc" /\ pc' = [pc EXCEPT ![p] = "publish"]
  BY DEF Submit
<1>3. \A q \in Procs : Active(q)' <=> Active(q) \/ q = p
  BY <1>t, <1>2 DEF TypeInv, Active
<1>4. ~Active(p)
  BY <1>2 DEF Active
<1>5. PICK a \in Desc, b \in Desc, d \in Desc : c[1] = a /\ c[2] = b /\ c[3] = d
  OBVIOUS
<1>6. idx'[p].chain = c /\ \A q \in Procs \ {p} : idx'[q] = idx[q]
  BY <1>t, <1>1 DEF TypeInv
<1>7. Links(p)' = {a, b, d}
  BY <1>5, <1>6 DEF Links
<1>8. Formatted(p)'
  <2>1. desc'[a] = [addr |-> a, next |-> b, more |-> TRUE]
    BY <1>t, <1>1, <1>5 DEF TypeInv
  <2>2. desc'[b] = [addr |-> p, next |-> d, more |-> TRUE]
    BY <1>t, <1>1, <1>5 DEF TypeInv
  <2>3. desc'[d] = [addr |-> a, next |-> 0, more |-> FALSE]
    BY <1>t, <1>1, <1>5 DEF TypeInv
  <2>4. info'[a].b = p /\ ops'[a].sector = p
    BY <1>t, <1>1, <1>5 DEF TypeInv
  <2>5. a # b /\ a # d /\ b # d
    BY <1>1, <1>5
  <2> QED
    BY <1>5, <1>6, <2>1, <2>2, <2>3, <2>4, <2>5, SMTT(60) DEF Formatted
<1>9. ASSUME NEW q \in Procs, Active(q)
      PROVE  Formatted(q)' /\ Links(q)' = Links(q) /\ Links(q) \intersect {a, b, d} = {}
  <2>1. q # p /\ idx'[q] = idx[q]
    BY <1>4, <1>6, <1>9
  <2>2. Formatted(q) /\ Links(q) \intersect free = {}
    BY <1>t, <1>9 DEF ChainInv
  <2>3. Links(q) \intersect {a, b, d} = {}
    BY <1>1, <1>5, <2>2
  <2>4. \A i \in Desc : i \notin {a, b, d} => desc'[i] = desc[i] /\ info'[i] = info[i] /\ ops'[i] = ops[i]
    BY <1>t, <1>1, <1>5 DEF TypeInv
  <2>5. idx[q].chain[1] \in Desc /\ idx[q].chain[2] \in Desc /\ idx[q].chain[3] \in Desc
    BY <1>t, LinksType
  <2>6. \A i \in Links(q) : desc'[i] = desc[i] /\ info'[i] = info[i] /\ ops'[i] = ops[i]
    BY <2>3, <2>4, <2>5 DEF Links
  <2>7. Formatted(q)'
    BY <2>1, <2>2, <2>6, ZenonT(60) DEF Formatted, Links
  <2>8. Links(q)' = Links(q)
    BY <2>1 DEF Links
  <2> QED
    BY <2>3, <2>7, <2>8
<1>10. free' = free \ {a, b, d}
  BY <1>1, <1>5
<1>11. \A q \in Procs : Active(q)' => Formatted(q)' /\ Links(q)' \intersect free' = {}
  BY <1>t, <1>3, <1>7, <1>8, <1>9, <1>10 DEF ChainInv
<1>12. \A q, r \in Procs : Active(q)' /\ Active(r)' /\ q # r => Links(q)' \intersect Links(r)' = {}
  BY <1>t, <1>3, <1>7, <1>9 DEF ChainInv
<1>13. \A i \in Desc : i \in free' \/ \E q \in Procs : Active(q)' /\ i \in Links(q)'
  BY <1>t, <1>3, <1>7, <1>9, <1>10 DEF ChainInv
<1> QED
  BY <1>11, <1>12, <1>13 DEF ChainInv

\* A finished request gives its chain back.
LEMMA ChainFinish ==
  ASSUME VirtioConstants, IInv, NEW p \in Procs, Finish(p)
  PROVE  ChainInv'
<1>t. TypeInv /\ ChainInv
  BY DEF IInv
<1>1. /\ Active(p) /\ free' = free \union Links(p)
      /\ desc' = [i \in Desc |-> IF i \in Links(p) THEN NoDesc ELSE desc[i]]
      /\ info' = [info EXCEPT ![HeadOf(p)].b = Nobody]
      /\ idx' = [idx EXCEPT ![p] = NoIdx]
      /\ pc' = [WakeFree(pc) EXCEPT ![p] = "idle"] /\ ops' = ops
  BY FinishDoes DEF Finish
<1>2. \A q \in Procs : Active(q)' <=> Active(q) /\ q # p
  BY <1>t, <1>1 DEF TypeInv, Active, WakeFree
<1>3. ASSUME NEW q \in Procs, Active(q), q # p
      PROVE  Formatted(q)' /\ Links(q)' = Links(q) /\ Links(q) \intersect Links(p) = {}
  <2>1. idx'[q] = idx[q]
    BY <1>t, <1>1, <1>3 DEF TypeInv
  <2>2. Formatted(q) /\ Links(q) \intersect Links(p) = {}
    BY <1>t, <1>1, <1>3 DEF ChainInv
  <2>3. idx[q].chain[1] \in Desc /\ idx[q].chain[2] \in Desc /\ idx[q].chain[3] \in Desc
    BY <1>t, LinksType
  <2>4. \A i \in Links(q) : i \in Desc /\ i \notin Links(p) /\ i # HeadOf(p)
    BY <1>t, <2>2, <2>3, LinksType DEF Links
  <2>5. \A i \in Links(q) : desc'[i] = desc[i] /\ info'[i] = info[i] /\ ops'[i] = ops[i]
    BY <1>t, <1>1, <2>4 DEF TypeInv
  <2>6. Formatted(q)'
    <3>1. PICK c : c = idx[q].chain /\ c = idx'[q].chain
      BY <2>1
    <3>2. /\ desc'[c[1]] = desc[c[1]] /\ desc'[c[2]] = desc[c[2]] /\ desc'[c[3]] = desc[c[3]]
          /\ info'[c[1]] = info[c[1]] /\ ops'[c[1]] = ops[c[1]]
      BY <2>5, <3>1, Zenon DEF Links
    <3>3. /\ c[1] # c[2] /\ c[1] # c[3] /\ c[2] # c[3]
          /\ desc[c[1]].next = c[2] /\ desc[c[1]].more
          /\ desc[c[2]].addr = q /\ desc[c[2]].next = c[3] /\ desc[c[2]].more
          /\ desc[c[3]].addr = c[1] /\ ~desc[c[3]].more
          /\ info[c[1]].b = q /\ ops[c[1]].sector = q
      BY <2>2, <3>1, Zenon DEF Formatted
    <3> QED
      BY <3>1, <3>2, <3>3, Zenon DEF Formatted
  <2>7. Links(q)' = Links(q)
    BY <2>1 DEF Links
  <2> QED
    BY <2>2, <2>6, <2>7
<1>4. \A q \in Procs : Active(q)' => Formatted(q)' /\ Links(q)' \intersect free' = {}
  BY <1>t, <1>1, <1>2, <1>3 DEF ChainInv
<1>5. \A q, r \in Procs : Active(q)' /\ Active(r)' /\ q # r => Links(q)' \intersect Links(r)' = {}
  BY <1>t, <1>2, <1>3 DEF ChainInv
<1>6. \A i \in Desc : i \in free' \/ \E q \in Procs : Active(q)' /\ i \in Links(q)'
  BY <1>t, <1>1, <1>2, <1>3 DEF ChainInv
<1> QED
  BY <1>4, <1>5, <1>6 DEF ChainInv

\* Every step keeps the chains and the free descriptors apart.
LEMMA ChainStep == ASSUME VirtioConstants, IInv, [Next]_vars PROVE ChainInv'
<1> USE DEF queue, device
<1>t. TypeInv /\ ChainInv
  BY DEF IInv
<1>f. pc \in [Procs -> Places] /\ idx \in [Procs -> [chain : Desc \X Desc \X Desc, write : BOOLEAN]]
  BY <1>t DEF TypeInv
<1>1. CASE UNCHANGED vars
  BY <1>t, <1>1, ChainKept DEF vars, Active
<1>2. ASSUME NEW p \in Procs, NEW write \in BOOLEAN, Request(p, write) PROVE ChainInv'
  <2>1. \A q \in Procs : (Active(q)' <=> Active(q)) /\ idx'[q].chain = idx[q].chain
    BY <1>f, <1>2 DEF Request, Active
  <2>2. UNCHANGED <<free, desc, ops, info>>
    BY <1>2 DEF Request
  <2> QED
    BY <1>t, <2>1, <2>2, ChainKept
<1>3. ASSUME NEW p \in Procs, AllocFails(p) \/ Publish(p) \/ StillWaiting(p) \/ Kill(p) PROVE ChainInv'
  <2>1. UNCHANGED <<free, desc, ops, info, idx>>
    BY <1>3 DEF AllocFails, Publish, StillWaiting, Kill
  <2>2. \A q \in Procs : Active(q)' <=> Active(q)
    <3>1. CASE AllocFails(p)
      BY <1>f, <3>1 DEF AllocFails, Active, WakeFree
    <3>2. CASE Publish(p) \/ StillWaiting(p) \/ Kill(p)
      BY <1>f, <3>2 DEF Publish, StillWaiting, Kill, Active
    <3> QED
      BY <1>3, <3>1, <3>2
  <2> QED
    BY <1>t, <2>1, <2>2, ChainKept
<1>4. CASE IntrAck \/ IntrDone \/ DeviceTake
  <2>1. UNCHANGED <<free, desc, ops, info, idx, pc>>
    BY <1>4 DEF IntrAck, IntrDone, DeviceTake
  <2> QED
    BY <1>t, <2>1, ChainKept DEF Active
<1>5. CASE IntrNext
  <2>1. UNCHANGED <<free, desc, ops, info, idx>>
    BY <1>5 DEF IntrNext
  <2>2. \A q \in Procs : Active(q)' <=> Active(q)
    BY <1>f, <1>5, IntrNextDoes DEF Pending, Active
  <2> QED
    BY <1>t, <2>1, <2>2, ChainKept
<1>6. ASSUME NEW h \in Desc, DeviceComplete(h) PROVE ChainInv'
  <2>1. UNCHANGED <<free, desc, ops, idx, pc>>
    BY <1>6 DEF DeviceComplete
  <2>2. info' = [info EXCEPT ![h].status = 0]
    BY <1>6, CompleteDoes
  <2>3. \A i \in Desc : info'[i].b = info[i].b
    BY <1>t, <2>2 DEF TypeInv
  <2> QED
    BY <1>t, <2>1, <2>3, ChainKept DEF Active
<1> QED
  BY <1>1, <1>2, <1>3, <1>4, <1>5, <1>6, ChainSubmit, ChainFinish DEF Next, Rw, Intr, Device

\* Every step keeps vdisk_lock with who is between its entry and its publication.
LEMMA LockStep == ASSUME VirtioConstants, IInv, [Next]_vars PROVE LockInv'
<1> USE DEF queue, device
<1>t. TypeInv /\ LockInv
  BY DEF IInv
<1>f. /\ pc \in [Procs -> Places] /\ bdisk \in [Procs -> 0..1]
      /\ idx \in [Procs -> [chain : Desc \X Desc \X Desc, write : BOOLEAN]]
      /\ Nobody \notin Procs /\ Handler \notin Procs
  BY <1>t DEF TypeInv, VirtioConstants
<1>1. CASE UNCHANGED vars
  BY <1>t, <1>1 DEF vars, LockInv, Active, HeadOf
<1>2. ASSUME NEW p \in Procs, NEW write \in BOOLEAN, Request(p, write) PROVE LockInv'
  <2>1. /\ pc[p] = "idle" /\ pc' = [pc EXCEPT ![p] = "alloc"]
        /\ UNCHANGED <<vdisk_lock, avail, availIdx, bdisk>>
    BY <1>2 DEF Request
  <2>2. \A q \in Procs : HeadOf(q)' = HeadOf(q)
    BY <1>f, <1>2 DEF Request, HeadOf
  <2> QED
    BY <1>t, <1>f, <2>1, <2>2 DEF LockInv, Active
<1>3. ASSUME NEW p \in Procs, AllocFails(p) \/ StillWaiting(p) \/ Kill(p) PROVE LockInv'
  <2>1. UNCHANGED <<vdisk_lock, avail, availIdx, bdisk, idx>>
    BY <1>3 DEF AllocFails, StillWaiting, Kill
  <2>2. \A q \in Procs : (Active(q)' <=> Active(q)) /\ (pc'[q] = "publish" <=> pc[q] = "publish")
    <3>1. CASE AllocFails(p)
      BY <1>f, <3>1 DEF AllocFails, Active, WakeFree
    <3>2. CASE StillWaiting(p) \/ Kill(p)
      BY <1>f, <3>2 DEF StillWaiting, Kill, Active
    <3> QED
      BY <1>3, <3>1, <3>2
  <2> QED
    BY <1>t, <2>1, <2>2 DEF LockInv, HeadOf
<1>4. ASSUME NEW p \in Procs, Submit(p) PROVE LockInv'
  <2>1. PICK c \in Desc \X Desc \X Desc :
          avail' = [avail EXCEPT ![availIdx % NUM] = c[1]] /\ idx' = [idx EXCEPT ![p].chain = c]
    BY <1>4, SubmitDoes, ZenonT(60)
  <2>2. /\ vdisk_lock = Nobody /\ vdisk_lock' = p /\ pc' = [pc EXCEPT ![p] = "publish"]
        /\ bdisk' = [bdisk EXCEPT ![p] = 1] /\ availIdx' = availIdx
    BY <1>4 DEF Submit
  <2>3. HeadOf(p)' = c[1]
    BY <1>f, <2>1 DEF HeadOf
  <2>4. avail'[availIdx' % NUM] = c[1]
    <3>1. availIdx \in Nat
      BY <1>t, UInt16Type DEF TypeInv, Index
    <3>2. availIdx % NUM \in Desc
      BY <3>1, SlotType
    <3> QED
      BY <1>t, <2>1, <2>2, <3>2 DEF TypeInv
  <2>5. \A q \in Procs : pc[q] # "publish"
    BY <1>t, <1>f, <2>2 DEF LockInv
  <2> QED
    BY <1>t, <1>f, <2>2, <2>3, <2>4, <2>5 DEF LockInv, Active
<1>5. ASSUME NEW p \in Procs, Publish(p) PROVE LockInv'
  <2>1. /\ pc[p] = "publish" /\ vdisk_lock' = Nobody /\ pc' = [pc EXCEPT ![p] = "sleep_buf"]
        /\ UNCHANGED <<bdisk, idx>>
    BY <1>5 DEF Publish
  <2>2. \A q \in Procs : pc'[q] # "publish"
    BY <1>t, <1>f, <2>1 DEF LockInv
  <2> QED
    BY <1>t, <1>f, <2>1, <2>2 DEF LockInv, Active
<1>6. ASSUME NEW p \in Procs, Finish(p) PROVE LockInv'
  <2>1. /\ idx' = [idx EXCEPT ![p] = NoIdx] /\ pc' = [WakeFree(pc) EXCEPT ![p] = "idle"]
        /\ pc[p] = "woken" /\ bdisk[p] = 0 /\ UNCHANGED <<avail, availIdx, vdisk_lock, bdisk>>
    BY <1>6 DEF Finish
  <2>2. \A q \in Procs \ {p} : /\ HeadOf(q)' = HeadOf(q) /\ (Active(q)' <=> Active(q))
                               /\ pc'[q] = "publish" <=> pc[q] = "publish"
    BY <1>f, <2>1 DEF WakeFree, HeadOf, Active
  <2>3. pc'[p] = "idle"
    BY <1>f, <2>1 DEF WakeFree
  <2> QED
    BY <1>t, <2>1, <2>2, <2>3, SMTT(60) DEF LockInv
<1>7. CASE IntrAck \/ IntrDone
  <2>1. UNCHANGED <<pc, avail, availIdx, bdisk, idx>>
    BY <1>7 DEF IntrAck, IntrDone
  <2>2. vdisk_lock \notin Procs /\ vdisk_lock' \notin Procs
    BY <1>f, <1>7 DEF IntrAck, IntrDone
  <2> QED
    BY <1>t, <2>1, <2>2 DEF LockInv, HeadOf, Active
<1>8. CASE IntrNext
  <2>1. PICK p \in Procs : /\ Pending(p) /\ bdisk' = [bdisk EXCEPT ![p] = 0]
                           /\ pc' = [pc EXCEPT ![p] = "woken"]
    BY <1>8, IntrNextDoes
  <2>2. UNCHANGED <<avail, availIdx, vdisk_lock, idx>>
    BY <1>8 DEF IntrNext
  <2> QED
    BY <1>t, <1>f, <2>1, <2>2 DEF LockInv, HeadOf, Active, Pending
<1>9. CASE Device
  <2>1. UNCHANGED <<pc, avail, availIdx, bdisk, idx, vdisk_lock>>
    BY <1>9 DEF Device, DeviceTake, DeviceComplete
  <2> QED
    BY <1>t, <2>1 DEF LockInv, HeadOf, Active
<1> QED
  BY <1>1, <1>2, <1>3, <1>4, <1>5, <1>6, <1>7, <1>8, <1>9 DEF Next, Rw, Intr

\* A step that moves no head and neither submits nor completes a request.
LEMMA QueueKept ==
  ASSUME QueueInv, UNCHANGED <<avail, taken, availIdx, used, used_idx, usedIdx, inflight>>,
         \A p \in Procs : Pending(p)' <=> Pending(p),
         \A p \in Procs : Pending(p) => HeadOf(p)' = HeadOf(p)
  PROVE  QueueInv'
<1>1. Waiting' = Waiting /\ Completed' = Completed /\ Queued' = Queued
  BY DEF Waiting, Completed, Queued
<1>2. \A h \in Queued' : \E p \in Procs : Pending(p)' /\ HeadOf(p)' = h
  BY <1>1 DEF QueueInv
<1>3. \A p \in Procs : Pending(p)' => HeadOf(p)' \in Queued'
  BY <1>1 DEF QueueInv
<1> QED
  BY <1>1, <1>2, <1>3 DEF QueueInv

\* Who has yet to publish its request is not queued, and so the ring has room.
LEMMA Unpublished ==
  ASSUME VirtioConstants, IInv, NEW p \in Procs, pc[p] = "publish"
  PROVE  HeadOf(p) \notin Queued /\ Count(taken, availIdx) < NUM
<1>1. HeadOf(p) \notin Queued
  <2> SUFFICES ASSUME HeadOf(p) \in Queued PROVE FALSE
    OBVIOUS
  <2>1. PICK q \in Procs : Pending(q) /\ HeadOf(q) = HeadOf(p)
    BY DEF IInv, QueueInv
  <2>2. Active(p) /\ Active(q) /\ p # q
    BY <2>1 DEF Active, Pending
  <2> QED
    BY <2>1, <2>2, HeadsDiffer DEF IInv
<1>2. HeadOf(p) \in Desc
  BY LinksType DEF IInv
<1> QED
  BY <1>1, <1>2, RingRoom DEF IInv, TypeInv, QueueInv, Queued, Waiting

\* A head that is free is not queued either.
LEMMA FreeNotQueued ==
  ASSUME VirtioConstants, IInv, NEW h \in free
  PROVE  h \notin Queued /\ Count(taken, availIdx) < NUM
<1>1. h \notin Queued
  <2> SUFFICES ASSUME h \in Queued PROVE FALSE
    OBVIOUS
  <2>1. PICK q \in Procs : Pending(q) /\ HeadOf(q) = h
    BY DEF IInv, QueueInv
  <2>2. h \in Links(q) /\ Active(q)
    BY <2>1 DEF Active, Pending, Links, HeadOf
  <2> QED
    BY <2>2 DEF IInv, ChainInv
<1>2. h \in Desc
  BY DEF IInv, TypeInv
<1> QED
  BY <1>1, <1>2, RingRoom DEF IInv, TypeInv, QueueInv, Queued, Waiting

\* The device adds the head it has served to the used ring, which has room.
LEMMA Completes ==
  ASSUME VirtioConstants, IInv, NEW h \in Desc, DeviceComplete(h)
  PROVE  Completed' = Completed \union {h} /\ Sound(used', used_idx', usedIdx')
<1>i. used_idx \in Index /\ usedIdx \in Index /\ used \in [Desc -> Desc]
  BY DEF IInv, TypeInv
<1>s. Sound(used, used_idx, usedIdx)
  BY DEF IInv, QueueInv
<1>1. /\ h \in inflight /\ used' = [used EXCEPT ![usedIdx % NUM] = h]
      /\ usedIdx' = (usedIdx + 1) % UINT16 /\ used_idx' = used_idx
  BY DEF DeviceComplete
<1>2. h \notin Completed
  BY <1>1 DEF IInv, QueueInv
<1>3. Count(used_idx, usedIdx) < NUM
  BY <1>i, <1>s, <1>2, RingRoom DEF Completed
<1>4. used'[usedIdx % NUM] = h /\ \A i \in Desc : i # usedIdx % NUM => used'[i] = used[i]
  <2>1. usedIdx \in Nat
    BY <1>i, UInt16Type DEF Index
  <2>2. usedIdx % NUM \in Desc
    BY <2>1, SlotType
  <2> QED
    BY <1>i, <1>1, <2>2
<1>5. Held(used', used_idx, usedIdx) = Completed /\ Sound(used', used_idx, usedIdx)
  BY <1>i, <1>s, <1>3, <1>4, WriteBehind DEF Completed
<1>6. PICK next : next = usedIdx' /\ next = (usedIdx + 1) % UINT16
  BY <1>1
<1>7. Held(used', used_idx, next) = Completed \union {h} /\ Sound(used', used_idx, next)
  BY <1>i, <1>2, <1>3, <1>4, <1>5, <1>6, Publishing
<1> QED
  BY <1>1, <1>6, <1>7 DEF Completed

\* Every step keeps each pending request in exactly one place.
LEMMA QueueStep == ASSUME VirtioConstants, IInv, [Next]_vars PROVE QueueInv'
<1> USE DEF queue, device
<1>t. TypeInv /\ ChainInv /\ LockInv /\ QueueInv
  BY DEF IInv
<1>f. /\ pc \in [Procs -> Places] /\ bdisk \in [Procs -> 0..1]
      /\ idx \in [Procs -> [chain : Desc \X Desc \X Desc, write : BOOLEAN]]
  BY <1>t DEF TypeInv
<1>i. /\ taken \in Index /\ availIdx \in Index /\ used_idx \in Index /\ usedIdx \in Index
      /\ avail \in [Desc -> Desc] /\ used \in [Desc -> Desc]
  BY <1>t DEF TypeInv
<1>s. Sound(avail, taken, availIdx) /\ Sound(used, used_idx, usedIdx)
  BY <1>t DEF QueueInv
<1>1. CASE UNCHANGED vars
  BY <1>t, <1>1, QueueKept DEF vars, Pending, HeadOf
<1>2. ASSUME NEW p \in Procs, NEW write \in BOOLEAN, Request(p, write) PROVE QueueInv'
  <2>1. \A q \in Procs : (Pending(q)' <=> Pending(q)) /\ HeadOf(q)' = HeadOf(q)
    BY <1>f, <1>2 DEF Request, Pending, HeadOf
  <2>2. UNCHANGED <<avail, taken, availIdx, used, used_idx, usedIdx, inflight>>
    BY <1>2 DEF Request
  <2> QED
    BY <1>t, <2>1, <2>2, QueueKept
<1>3. ASSUME NEW p \in Procs, AllocFails(p) \/ StillWaiting(p) \/ Kill(p) PROVE QueueInv'
  <2>1. UNCHANGED <<avail, taken, availIdx, used, used_idx, usedIdx, inflight, idx, bdisk>>
    BY <1>3 DEF AllocFails, StillWaiting, Kill
  <2>2. \A q \in Procs : pc'[q] \in {"sleep_buf", "woken"} <=> pc[q] \in {"sleep_buf", "woken"}
    <3>1. CASE AllocFails(p)
      BY <1>f, <3>1 DEF AllocFails, WakeFree
    <3>2. CASE StillWaiting(p) \/ Kill(p)
      BY <1>f, <3>2 DEF StillWaiting, Kill
    <3> QED
      BY <1>3, <3>1, <3>2
  <2> QED
    BY <1>t, <2>1, <2>2, QueueKept DEF Pending, HeadOf
<1>4. ASSUME NEW p \in Procs, Submit(p) PROVE QueueInv'
  <2>1. PICK c \in Desc \X Desc \X Desc :
          /\ c[1] \in free /\ avail' = [avail EXCEPT ![availIdx % NUM] = c[1]]
          /\ idx' = [idx EXCEPT ![p].chain = c]
    BY <1>4, SubmitDoes, ZenonT(60)
  <2>2. /\ pc[p] = "alloc" /\ pc' = [pc EXCEPT ![p] = "publish"] /\ bdisk' = [bdisk EXCEPT ![p] = 1]
        /\ UNCHANGED <<taken, availIdx, used, used_idx, usedIdx, inflight>>
    BY <1>4 DEF Submit
  <2>3. \A q \in Procs : (Pending(q)' <=> Pending(q)) /\ (Pending(q) => HeadOf(q)' = HeadOf(q))
    BY <1>f, <2>1, <2>2 DEF Pending, HeadOf
  <2>4. c[1] \in Desc /\ Count(taken, availIdx) < NUM
    BY <2>1, FreeNotQueued
  <2>5. Waiting' = Waiting /\ Sound(avail', taken', availIdx')
    <3>1. \A i \in Desc : i # availIdx % NUM => avail'[i] = avail[i]
      BY <1>i, <2>1
    <3>2. /\ Held(avail', taken, availIdx) = Held(avail, taken, availIdx)
          /\ Sound(avail', taken, availIdx)
      BY <1>i, <1>s, <2>4, <3>1, WriteBehind
    <3> QED
      BY <2>2, <3>2 DEF Waiting
  <2>6. Completed' = Completed /\ Queued' = Queued
    BY <2>2, <2>5 DEF Completed, Queued
  <2>7. \A h \in Queued' : \E q \in Procs : Pending(q)' /\ HeadOf(q)' = h
    BY <1>t, <2>3, <2>6 DEF QueueInv
  <2>8. \A q \in Procs : Pending(q)' => HeadOf(q)' \in Queued'
    BY <1>t, <2>3, <2>6 DEF QueueInv
  <2> QED
    BY <1>t, <2>2, <2>5, <2>6, <2>7, <2>8 DEF QueueInv
<1>5. ASSUME NEW p \in Procs, Publish(p) PROVE QueueInv'
  <2>1. /\ pc[p] = "publish" /\ availIdx' = (availIdx + 1) % UINT16
        /\ pc' = [pc EXCEPT ![p] = "sleep_buf"]
        /\ UNCHANGED <<avail, taken, used, used_idx, usedIdx, inflight, bdisk, idx>>
    BY <1>5 DEF Publish
  <2>2. avail[availIdx % NUM] = HeadOf(p) /\ bdisk[p] = 1
    BY <1>t, <2>1 DEF LockInv
  <2>3. HeadOf(p) \notin Queued /\ Count(taken, availIdx) < NUM
    BY <2>1, Unpublished
  <2>4. HeadOf(p) \notin Waiting
    BY <2>3 DEF Queued
  <2>5. Waiting' = Waiting \union {HeadOf(p)} /\ Sound(avail', taken', availIdx')
    BY <1>i, <1>s, <2>1, <2>2, <2>3, <2>4, Publishing, SMTT(60) DEF Waiting
  <2>6. Completed' = Completed /\ Queued' = Queued \union {HeadOf(p)}
    BY <2>1, <2>5 DEF Completed, Queued
  <2>7. \A q \in Procs : (Pending(q)' <=> Pending(q) \/ q = p) /\ HeadOf(q)' = HeadOf(q)
    BY <1>f, <2>1, <2>2 DEF Pending, HeadOf
  <2>8. \A h \in Queued' : \E q \in Procs : Pending(q)' /\ HeadOf(q)' = h
    BY <1>t, <2>6, <2>7 DEF QueueInv
  <2>9. \A q \in Procs : Pending(q)' => HeadOf(q)' \in Queued'
    BY <1>t, <2>6, <2>7 DEF QueueInv
  <2>10. HeadOf(p) \notin inflight /\ HeadOf(p) \notin Completed
    BY <2>3 DEF Queued
  <2> QED
    BY <1>t, <2>1, <2>5, <2>6, <2>8, <2>9, <2>10, SMTT(60) DEF QueueInv
<1>6. ASSUME NEW p \in Procs, Finish(p) PROVE QueueInv'
  <2>1. /\ idx' = [idx EXCEPT ![p] = NoIdx] /\ pc' = [WakeFree(pc) EXCEPT ![p] = "idle"]
        /\ bdisk[p] = 0
        /\ UNCHANGED <<avail, taken, availIdx, used, used_idx, usedIdx, inflight, bdisk>>
    BY <1>6 DEF Finish
  <2>2. \A q \in Procs : (Pending(q)' <=> Pending(q)) /\ (Pending(q) => HeadOf(q)' = HeadOf(q))
    BY <1>f, <2>1 DEF Pending, HeadOf, WakeFree
  <2> QED
    BY <1>t, <2>1, <2>2, QueueKept
<1>7. CASE IntrAck \/ IntrDone
  <2>1. UNCHANGED <<avail, taken, availIdx, used, used_idx, usedIdx, inflight, idx, bdisk, pc>>
    BY <1>7 DEF IntrAck, IntrDone
  <2> QED
    BY <1>t, <2>1, QueueKept DEF Pending, HeadOf
<1>8. CASE IntrNext
  <2>1. PICK p \in Procs :
          /\ Pending(p) /\ HeadOf(p) = used[used_idx % NUM] /\ HeadOf(p) \in Completed
          /\ bdisk' = [bdisk EXCEPT ![p] = 0] /\ pc' = [pc EXCEPT ![p] = "woken"]
    BY <1>8, IntrNextDoes
  <2>2. /\ used_idx # usedIdx /\ used_idx' = (used_idx + 1) % UINT16
        /\ UNCHANGED <<avail, taken, availIdx, used, usedIdx, inflight, idx>>
    BY <1>8 DEF IntrNext
  <2>3. Completed' = Completed \ {HeadOf(p)} /\ Sound(used', used_idx', usedIdx')
    BY <1>i, <1>s, <2>1, <2>2, Taking, SMTT(60) DEF Completed
  <2>4. Waiting' = Waiting /\ inflight' = inflight
    BY <2>2 DEF Waiting
  <2>5. HeadOf(p) \notin Waiting /\ HeadOf(p) \notin inflight
    BY <1>t, <2>1 DEF QueueInv
  <2>6. Queued' = Queued \ {HeadOf(p)}
    BY <2>3, <2>4, <2>5 DEF Queued
  <2>7. \A q \in Procs : (Pending(q)' <=> Pending(q) /\ q # p) /\ HeadOf(q)' = HeadOf(q)
    BY <1>f, <2>1, <2>2 DEF Pending, HeadOf
  <2>8. \A q \in Procs : Pending(q) /\ q # p => HeadOf(q) # HeadOf(p)
    BY <1>t, <2>1, HeadsDiffer DEF Pending, Active
  <2>9. \A h \in Queued' : \E q \in Procs : Pending(q)' /\ HeadOf(q)' = h
    BY <1>t, <2>6, <2>7 DEF QueueInv
  <2>10. \A q \in Procs : Pending(q)' => HeadOf(q)' \in Queued'
    BY <1>t, <2>6, <2>7, <2>8 DEF QueueInv
  <2> QED
    BY <1>t, <2>2, <2>3, <2>4, <2>9, <2>10 DEF QueueInv
<1>9. CASE DeviceTake
  <2>1. /\ taken # availIdx /\ taken' = (taken + 1) % UINT16
        /\ inflight' = inflight \union {avail[taken % NUM]}
        /\ UNCHANGED <<avail, availIdx, used, used_idx, usedIdx, pc, idx, bdisk>>
    BY <1>9 DEF DeviceTake
  <2>2. /\ avail[taken % NUM] \in Waiting /\ Waiting' = Waiting \ {avail[taken % NUM]}
        /\ Sound(avail', taken', availIdx')
    BY <1>i, <1>s, <2>1, Taking DEF Waiting
  <2>3. Completed' = Completed
    BY <2>1 DEF Completed
  <2>4. Queued' = Queued
    BY <2>1, <2>2, <2>3 DEF Queued
  <2>5. \A q \in Procs : (Pending(q)' <=> Pending(q)) /\ HeadOf(q)' = HeadOf(q)
    BY <2>1 DEF Pending, HeadOf
  <2>6. /\ Waiting' \intersect inflight' = {} /\ Waiting' \intersect Completed' = {}
        /\ inflight' \intersect Completed' = {}
    BY <1>t, <2>1, <2>2, <2>3 DEF QueueInv
  <2>7. \A h \in Queued' : \E q \in Procs : Pending(q)' /\ HeadOf(q)' = h
    BY <1>t, <2>4, <2>5 DEF QueueInv
  <2>8. \A q \in Procs : Pending(q)' => HeadOf(q)' \in Queued'
    BY <1>t, <2>4, <2>5 DEF QueueInv
  <2> QED
    BY <1>t, <2>1, <2>2, <2>6, <2>7, <2>8 DEF QueueInv
<1>10. ASSUME NEW h \in Desc, DeviceComplete(h) PROVE QueueInv'
  <2>1. /\ h \in inflight /\ inflight' = inflight \ {h} /\ used' = [used EXCEPT ![usedIdx % NUM] = h]
        /\ usedIdx' = (usedIdx + 1) % UINT16
        /\ UNCHANGED <<avail, taken, availIdx, used_idx, pc, idx, bdisk>>
    BY <1>10 DEF DeviceComplete
  <2>5. Completed' = Completed \union {h} /\ Sound(used', used_idx', usedIdx')
    BY <1>10, Completes
  <2>6. Waiting' = Waiting
    BY <2>1 DEF Waiting
  <2>7. Queued' = Queued
    BY <2>1, <2>5, <2>6 DEF Queued
  <2>8. \A q \in Procs : (Pending(q)' <=> Pending(q)) /\ HeadOf(q)' = HeadOf(q)
    BY <2>1 DEF Pending, HeadOf
  <2>9. /\ Waiting' \intersect inflight' = {} /\ Waiting' \intersect Completed' = {}
        /\ inflight' \intersect Completed' = {}
    BY <1>t, <2>1, <2>5, <2>6 DEF QueueInv
  <2>10. \A k \in Queued' : \E q \in Procs : Pending(q)' /\ HeadOf(q)' = k
    BY <1>t, <2>7, <2>8 DEF QueueInv
  <2>11. \A q \in Procs : Pending(q)' => HeadOf(q)' \in Queued'
    BY <1>t, <2>7, <2>8 DEF QueueInv
  <2> QED
    BY <1>t, <2>1, <2>5, <2>9, <2>10, <2>11 DEF QueueInv
<1> QED
  BY <1>1, <1>2, <1>3, <1>4, <1>5, <1>6, <1>7, <1>8, <1>9, <1>10 DEF Next, Rw, Intr, Device

\* Every step keeps the data of a request that is done equal to its block.
LEMMA DataStep == ASSUME VirtioConstants, IInv, [Next]_vars PROVE DataInv'
<1> USE DEF queue, device
<1>t. TypeInv /\ ChainInv /\ LockInv /\ QueueInv /\ DataInv
  BY DEF IInv
<1>f. /\ pc \in [Procs -> Places] /\ bdisk \in [Procs -> 0..1] /\ data \in [Procs -> 0..1]
      /\ idx \in [Procs -> [chain : Desc \X Desc \X Desc, write : BOOLEAN]]
  BY <1>t DEF TypeInv
<1>h. \A q \in Procs : HeadOf(q) \in Desc
  BY <1>t, LinksType
<1>1. CASE UNCHANGED vars
  BY <1>t, <1>1 DEF vars, DataInv, Pending, Active, HeadOf, Completed
<1>2. ASSUME NEW p \in Procs, NEW write \in BOOLEAN, Request(p, write) PROVE DataInv'
  <2>1. \A q \in Procs : (Pending(q)' <=> Pending(q)) /\ (Active(q)' <=> Active(q)) /\ HeadOf(q)' = HeadOf(q)
    BY <1>f, <1>2 DEF Request, Pending, Active, HeadOf
  <2>2. \A q \in Procs : q # p => data'[q] = data[q] /\ pc'[q] = pc[q]
    BY <1>f, <1>2 DEF Request
  <2>3. pc'[p] = "alloc" /\ ~Active(p) /\ ~Pending(p)
    BY <1>f, <1>2 DEF Request, Active, Pending
  <2>4. UNCHANGED <<info, platter, bdisk, used, used_idx, usedIdx>>
    BY <1>2 DEF Request
  <2> QED
    BY <1>t, <2>1, <2>2, <2>3, <2>4 DEF DataInv, Completed
<1>3. ASSUME NEW p \in Procs, AllocFails(p) \/ StillWaiting(p) \/ Kill(p) PROVE DataInv'
  <2>1. UNCHANGED <<info, platter, data, used, used_idx, usedIdx, idx, bdisk>>
    BY <1>3 DEF AllocFails, StillWaiting, Kill
  <2>2. \A q \in Procs : /\ pc'[q] \in {"sleep_buf", "woken"} <=> pc[q] \in {"sleep_buf", "woken"}
                         /\ Active(q)' <=> Active(q)
                         /\ pc'[q] = "idle" <=> pc[q] = "idle"
    <3>1. CASE AllocFails(p)
      BY <1>f, <3>1 DEF AllocFails, WakeFree, Active
    <3>2. CASE StillWaiting(p) \/ Kill(p)
      BY <1>f, <3>2 DEF StillWaiting, Kill, Active
    <3> QED
      BY <1>3, <3>1, <3>2
  <2> QED
    BY <1>t, <2>1, <2>2 DEF DataInv, Pending, HeadOf, Completed
<1>4. ASSUME NEW p \in Procs, Submit(p) PROVE DataInv'
  <2>1. PICK c \in Desc \X Desc \X Desc :
          /\ c[1] \in free /\ info' = [info EXCEPT ![c[1]] = [b |-> p, status |-> 255]]
          /\ idx' = [idx EXCEPT ![p].chain = c]
    BY <1>4, SubmitDoes, ZenonT(60)
  <2>2. /\ pc[p] = "alloc" /\ pc' = [pc EXCEPT ![p] = "publish"] /\ bdisk' = [bdisk EXCEPT ![p] = 1]
        /\ UNCHANGED <<data, platter, used, used_idx, usedIdx>>
    BY <1>4 DEF Submit
  <2>3. \A q \in Procs : (Pending(q)' <=> Pending(q)) /\ (Pending(q) => HeadOf(q)' = HeadOf(q))
    BY <1>f, <2>1, <2>2 DEF Pending, HeadOf
  <2>4. \A q \in Procs : Pending(q) => HeadOf(q) # c[1]
    <3>1. c[1] \notin Queued
      BY <2>1, FreeNotQueued
    <3> QED
      BY <1>t, <3>1 DEF QueueInv
  <2>5. \A q \in Procs : Pending(q) => info'[HeadOf(q)] = info[HeadOf(q)]
    BY <1>t, <1>h, <2>1, <2>4 DEF TypeInv
  <2>6. \A q \in Procs : (pc'[q] = "idle" \/ (Active(q)' /\ bdisk'[q] = 0)) =>
                           (pc[q] = "idle" \/ (Active(q) /\ bdisk[q] = 0))
    BY <1>f, <2>2 DEF Active
  <2>7. Completed' = Completed
    BY <2>2 DEF Completed
  <2>8. \A q \in Procs : pc'[q] = "idle" \/ (Active(q)' /\ bdisk'[q] = 0) => data'[q] = platter'[q]
    BY <1>t, <2>2, <2>6, Zenon DEF DataInv
  <2>9. ASSUME NEW q \in Procs, Pending(q)', HeadOf(q)' \in Completed'
        PROVE  info'[HeadOf(q)'].status = 0 /\ data'[q] = platter'[q]
    <3>1. Pending(q) /\ HeadOf(q)' = HeadOf(q)
      BY <2>3, <2>9, Zenon
    <3>2. HeadOf(q) \in Completed
      BY <2>7, <2>9, <3>1, Zenon
    <3>3. info[HeadOf(q)].status = 0 /\ data[q] = platter[q]
      BY <1>t, <3>1, <3>2, Zenon DEF DataInv
    <3>4. info'[HeadOf(q)'] = info[HeadOf(q)]
      BY <2>5, <3>1, Zenon
    <3>5. data'[q] = data[q] /\ platter'[q] = platter[q]
      BY <2>2
    <3> QED
      BY <3>3, <3>4, <3>5, Zenon
  <2> QED
    BY <2>8, <2>9, Zenon DEF DataInv
<1>5. ASSUME NEW p \in Procs, Publish(p) PROVE DataInv'
  <2>1. /\ pc[p] = "publish" /\ pc' = [pc EXCEPT ![p] = "sleep_buf"]
        /\ UNCHANGED <<info, data, platter, used, used_idx, usedIdx, bdisk, idx>>
    BY <1>5 DEF Publish
  <2>2. bdisk[p] = 1 /\ HeadOf(p) \notin Completed
    BY <1>t, <2>1, Unpublished DEF LockInv, Queued
  <2>3. \A q \in Procs : q # p => pc'[q] = pc[q]
    BY <1>f, <2>1
  <2>4. pc'[p] = "sleep_buf"
    BY <1>f, <2>1
  <2>5. \A q \in Procs : HeadOf(q)' = HeadOf(q)
    BY <2>1 DEF HeadOf
  <2>6. Completed' = Completed
    BY <2>1 DEF Completed
  <2> QED
    BY <1>t, <2>1, <2>2, <2>3, <2>4, <2>5, <2>6 DEF DataInv, Pending, Active
<1>6. ASSUME NEW p \in Procs, Finish(p) PROVE DataInv'
  <2>1. /\ Active(p) /\ ~Pending(p) /\ bdisk[p] = 0
        /\ info' = [info EXCEPT ![HeadOf(p)].b = Nobody]
        /\ idx' = [idx EXCEPT ![p] = NoIdx] /\ pc' = [WakeFree(pc) EXCEPT ![p] = "idle"]
    BY <1>6, FinishDoes
  <2>2. UNCHANGED <<data, platter, used, used_idx, usedIdx, bdisk>>
    BY <1>6 DEF Finish
  <2>3. \A q \in Procs : (Pending(q)' <=> Pending(q)) /\ (Pending(q) => HeadOf(q)' = HeadOf(q))
    BY <1>f, <2>1, <2>2 DEF Pending, HeadOf, WakeFree
  <2>4. \A i \in Desc : info'[i].status = info[i].status
    <3>1. PICK h \in Desc : h = HeadOf(p)
      BY <1>h
    <3>2. info' = [info EXCEPT ![h].b = Nobody]
      BY <2>1, <3>1
    <3> QED
      BY <1>t, <3>2 DEF TypeInv
  <2>5. \A q \in Procs \ {p} : /\ pc'[q] = "idle" <=> pc[q] = "idle"
                               /\ Active(q)' <=> Active(q)
    BY <1>f, <2>1 DEF WakeFree, Active
  <2>6. data[p] = platter[p]
    BY <1>t, <2>1 DEF DataInv
  <2> QED
    BY <1>t, <1>h, <2>2, <2>3, <2>4, <2>5, <2>6 DEF DataInv, Completed
<1>7. CASE IntrAck \/ IntrDone \/ DeviceTake
  <2>1. UNCHANGED <<info, data, platter, used, used_idx, usedIdx, idx, bdisk, pc>>
    BY <1>7 DEF IntrAck, IntrDone, DeviceTake
  <2> QED
    BY <1>t, <2>1 DEF DataInv, Pending, HeadOf, Completed, Active
<1>8. CASE IntrNext
  <2>1. PICK p \in Procs :
          /\ Pending(p) /\ HeadOf(p) = used[used_idx % NUM] /\ data[p] = platter[p]
          /\ bdisk' = [bdisk EXCEPT ![p] = 0] /\ pc' = [pc EXCEPT ![p] = "woken"]
    BY <1>8, IntrNextDoes
  <2>2. /\ used_idx # usedIdx /\ used_idx' = (used_idx + 1) % UINT16
        /\ UNCHANGED <<used, usedIdx, idx, info, data, platter>>
    BY <1>8 DEF IntrNext
  <2>3. Completed' \subseteq Completed
    <3>1. used_idx \in Index /\ usedIdx \in Index /\ Sound(used, used_idx, usedIdx)
      BY <1>t DEF TypeInv, QueueInv
    <3>2. PICK next : next = used_idx' /\ next = (used_idx + 1) % UINT16
      BY <2>2
    <3>3. Held(used, next, usedIdx) = Completed \ {used[used_idx % NUM]}
      BY <2>2, <3>1, <3>2, Taking DEF Completed
    <3>4. Completed' = Held(used, next, usedIdx)
      BY <2>2, <3>2 DEF Completed
    <3> QED
      BY <3>3, <3>4
  <2>4. \A q \in Procs : (Pending(q)' => Pending(q)) /\ HeadOf(q)' = HeadOf(q)
    BY <1>f, <2>1, <2>2 DEF Pending, HeadOf
  <2>5. \A q \in Procs : q # p => pc'[q] = pc[q] /\ bdisk'[q] = bdisk[q]
    BY <1>f, <2>1
  <2> QED
    BY <1>t, <2>1, <2>2, <2>3, <2>4, <2>5 DEF DataInv, Active
<1>9. ASSUME NEW h \in Desc, DeviceComplete(h) PROVE DataInv'
  <2>1. PICK p \in Procs :
          /\ Pending(p) /\ HeadOf(p) = h /\ h \in inflight /\ data'[p] = platter'[p]
          /\ \A q \in Procs \ {p} : data'[q] = data[q] /\ platter'[q] = platter[q]
          /\ info' = [info EXCEPT ![h].status = 0]
    BY <1>9, CompleteDoes
  <2>2. /\ used' = [used EXCEPT ![usedIdx % NUM] = h] /\ UNCHANGED <<pc, idx, bdisk>>
    BY <1>9 DEF DeviceComplete
  <2>3. Completed' = Completed \union {h}
    BY <1>9, Completes
  <2>4. \A q \in Procs : (Pending(q)' <=> Pending(q)) /\ (Active(q)' <=> Active(q)) /\ HeadOf(q)' = HeadOf(q)
    BY <2>2 DEF Pending, HeadOf, Active
  <2>5. \A q \in Procs : Pending(q) /\ q # p => HeadOf(q) # h
    BY <1>t, <2>1, HeadsDiffer DEF Pending, Active
  <2>6. info'[h].status = 0 /\ \A i \in Desc : i # h => info'[i] = info[i]
    BY <1>t, <2>1 DEF TypeInv
  <2>7. \A q \in Procs : pc'[q] = "idle" \/ (Active(q)' /\ bdisk'[q] = 0) => data'[q] = platter'[q]
    BY <1>t, <2>1, <2>2, <2>4 DEF DataInv
  <2>8. ASSUME NEW q \in Procs, Pending(q)', HeadOf(q)' \in Completed'
        PROVE  info'[HeadOf(q)'].status = 0 /\ data'[q] = platter'[q]
    <3>1. CASE q = p
      BY <2>1, <2>4, <2>6, <3>1
    <3>2. CASE q # p
      <4>1. Pending(q) /\ HeadOf(q) # h /\ HeadOf(q) \in Completed /\ HeadOf(q)' = HeadOf(q)
        BY <2>3, <2>4, <2>5, <2>8, <3>2
      <4>2. info[HeadOf(q)].status = 0 /\ data[q] = platter[q]
        BY <1>t, <4>1 DEF DataInv
      <4> QED
        BY <1>h, <2>1, <2>6, <3>2, <4>1, <4>2
    <3> QED
      BY <3>1, <3>2
  <2> QED
    BY <2>7, <2>8 DEF DataInv
<1> QED
  BY <1>1, <1>2, <1>3, <1>4, <1>5, <1>6, <1>7, <1>8, <1>9 DEF Next, Rw, Intr, Device

\* virtio_disk_intr() acknowledges before it looks, and whoever sleeps is woken
\* by the step that ends what it waits for.
LEMMA ForgottenStep == ASSUME VirtioConstants, IInv, [Next]_vars PROVE NoRequestForgotten'
<1> USE DEF queue, device
<1>t. TypeInv /\ LockInv /\ NoRequestForgotten
  BY DEF IInv
<1>f. /\ pc \in [Procs -> Places] /\ bdisk \in [Procs -> 0..1]
      /\ \A p \in Procs : p # Handler
  BY <1>t DEF TypeInv, VirtioConstants
<1>c. IsFiniteSet(free) /\ Cardinality(free) \in Nat
  <2>1. PICK m \in Int : m = NUM - 1
    BY DEF VirtioConstants
  <2>2. IsFiniteSet(Desc)
    BY <2>1, FS_Interval DEF Desc
  <2>3. IsFiniteSet(free)
    BY <1>t, <2>2, FS_Subset DEF TypeInv
  <2> QED
    BY <2>3, FS_CardinalityType
<1>1. CASE UNCHANGED vars
  BY <1>t, <1>1 DEF vars, NoRequestForgotten
<1>2. ASSUME NEW p \in Procs, NEW write \in BOOLEAN, Request(p, write) PROVE NoRequestForgotten'
  BY <1>t, <1>f, <1>2 DEF NoRequestForgotten, Request
<1>3. ASSUME NEW p \in Procs, AllocFails(p) PROVE NoRequestForgotten'
  <2>1. Cardinality(free) < 3 /\ UNCHANGED <<free, bdisk, used_idx, usedIdx, irq, vdisk_lock>>
    BY <1>3 DEF AllocFails
  <2>2. \A q \in Procs : pc'[q] = "sleep_buf" => pc[q] = "sleep_buf"
    BY <1>f, <1>3 DEF AllocFails, WakeFree
  <2> QED
    BY <1>t, <2>1, <2>2 DEF NoRequestForgotten
<1>4. ASSUME NEW p \in Procs, StillWaiting(p) \/ Kill(p) PROVE NoRequestForgotten'
  BY <1>t, <1>f, <1>4 DEF NoRequestForgotten, StillWaiting, Kill
<1>5. ASSUME NEW p \in Procs, Submit(p) PROVE NoRequestForgotten'
  <2>1. /\ pc[p] = "alloc" /\ vdisk_lock = Nobody /\ UNCHANGED <<used_idx, usedIdx, irq>>
        /\ bdisk' = [bdisk EXCEPT ![p] = 1] /\ pc' = [pc EXCEPT ![p] = "publish"]
        /\ Cardinality(free) >= 3
    BY <1>5 DEF Submit
  <2>2. Nobody # Handler
    BY DEF VirtioConstants
  <2>3. used_idx' # usedIdx' => irq'
    BY <1>t, <2>1, <2>2 DEF NoRequestForgotten
  <2>4. \A q \in Procs : pc'[q] = "sleep_buf" => bdisk'[q] = 1
    BY <1>t, <1>f, <2>1 DEF NoRequestForgotten
  <2>5. \A q \in Procs : pc'[q] # "sleep_free"
    BY <1>t, <1>f, <1>c, <2>1 DEF NoRequestForgotten
  <2> QED
    BY <2>3, <2>4, <2>5 DEF NoRequestForgotten
<1>6. ASSUME NEW p \in Procs, Publish(p) PROVE NoRequestForgotten'
  <2>1. /\ pc[p] = "publish" /\ UNCHANGED <<used_idx, usedIdx, irq, bdisk, free>>
        /\ pc' = [pc EXCEPT ![p] = "sleep_buf"]
    BY <1>6 DEF Publish
  <2>2. vdisk_lock = p /\ bdisk[p] = 1
    BY <1>t, <2>1 DEF LockInv
  <2>3. used_idx' # usedIdx' => irq'
    BY <1>t, <1>f, <2>1, <2>2 DEF NoRequestForgotten
  <2> QED
    BY <1>t, <1>f, <2>1, <2>2, <2>3 DEF NoRequestForgotten
<1>7. ASSUME NEW p \in Procs, Finish(p) PROVE NoRequestForgotten'
  <2>1. pc' = [WakeFree(pc) EXCEPT ![p] = "idle"]
    BY <1>7, FinishDoes
  <2>2. UNCHANGED <<used_idx, usedIdx, irq, bdisk, vdisk_lock>>
    BY <1>7 DEF Finish
  <2>3. \A q \in Procs : /\ pc'[q] # "sleep_free"
                         /\ pc'[q] = "sleep_buf" => pc[q] = "sleep_buf"
    BY <1>f, <2>1 DEF WakeFree
  <2> QED
    BY <1>t, <2>2, <2>3 DEF NoRequestForgotten
<1>8. CASE IntrAck \/ IntrDone \/ DeviceTake
  BY <1>t, <1>8 DEF NoRequestForgotten, IntrAck, IntrDone, DeviceTake
<1>9. CASE IntrNext
  <2>1. PICK p \in Procs : bdisk' = [bdisk EXCEPT ![p] = 0] /\ pc' = [pc EXCEPT ![p] = "woken"]
    BY <1>9, IntrNextDoes
  <2>2. vdisk_lock' = Handler /\ free' = free
    BY <1>9 DEF IntrNext
  <2> QED
    BY <1>t, <1>f, <2>1, <2>2 DEF NoRequestForgotten
<1>10. ASSUME NEW h \in Desc, DeviceComplete(h) PROVE NoRequestForgotten'
  <2>1. irq' /\ UNCHANGED <<pc, bdisk, free>>
    BY <1>10 DEF DeviceComplete
  <2> QED
    BY <1>t, <2>1 DEF NoRequestForgotten
<1> QED
  BY <1>1, <1>2, <1>3, <1>4, <1>5, <1>6, <1>7, <1>8, <1>9, <1>10 DEF Next, Rw, Intr, Device

\* No step reaches a panic() of virtio_disk_intr() or free_desc().
LEMMA PanicStep == ASSUME VirtioConstants, IInv, [Next]_vars PROVE DriverNeverPanics'
<1>1. CASE IntrNext
  BY <1>1, IntrNextDoes DEF IInv, DriverNeverPanics
<1>2. ASSUME NEW p \in Procs, Finish(p) PROVE DriverNeverPanics'
  BY <1>2, FinishDoes DEF IInv, DriverNeverPanics
<1>3. ASSUME NEW p \in Procs, AllocFails(p) \/ Submit(p) \/ Publish(p) \/ StillWaiting(p) \/ Kill(p)
      PROVE  panicked' = panicked
  BY <1>3 DEF AllocFails, Submit, Publish, StillWaiting, Kill
<1>4. ASSUME NEW p \in Procs, NEW write \in BOOLEAN, Request(p, write) PROVE panicked' = panicked
  BY <1>4 DEF Request
<1>5. CASE IntrAck \/ IntrDone \/ DeviceTake \/ UNCHANGED vars
  BY <1>5 DEF IntrAck, IntrDone, DeviceTake, vars, IInv, DriverNeverPanics
<1>6. ASSUME NEW h \in Desc, DeviceComplete(h) PROVE panicked' = panicked
  BY <1>6 DEF DeviceComplete
<1> QED
  BY <1>1, <1>2, <1>3, <1>4, <1>5, <1>6 DEF Next, Rw, Intr, Device, IInv, DriverNeverPanics

\* What virtio_disk_init() leaves satisfies the invariant: both rings are empty.
LEMMA InitInv == ASSUME VirtioConstants, Init PROVE IInv
<1>u. UINT16 \in Nat \ {0} /\ StartIdx \in Index /\ NUM \in Nat \ {0} /\ 0 \in Desc
  BY UInt16Type DEF VirtioConstants, Index, Desc
<1>1. TypeInv
  <2>1. NoIdx \in [chain : Desc \X Desc \X Desc, write : BOOLEAN]
    BY <1>u DEF NoIdx
  <2>2. NoDesc \in [addr : Desc \union Procs \union {Nobody}, next : Desc, more : BOOLEAN]
    BY <1>u DEF NoDesc
  <2>3. free \in SUBSET Desc /\ inflight \in SUBSET Desc /\ vdisk_lock \in Procs \union {Nobody, Handler}
    BY DEF Init
  <2>4. availIdx \in Index /\ taken \in Index /\ usedIdx \in Index /\ used_idx \in Index
    BY <1>u DEF Init
  <2>5. desc \in [Desc -> [addr : Desc \union Procs \union {Nobody}, next : Desc, more : BOOLEAN]]
    BY <2>2 DEF Init
  <2>6. /\ ops \in [Desc -> [write : BOOLEAN, sector : Procs \union {Nobody}]]
        /\ info \in [Desc -> [b : Procs \union {Nobody}, status : {0, 255}]]
    <3>1. /\ [write |-> FALSE, sector |-> Nobody] \in [write : BOOLEAN, sector : Procs \union {Nobody}]
          /\ [b |-> Nobody, status |-> 0] \in [b : Procs \union {Nobody}, status : {0, 255}]
      OBVIOUS
    <3>2. /\ ops = [i \in Desc |-> [write |-> FALSE, sector |-> Nobody]]
          /\ info = [i \in Desc |-> [b |-> Nobody, status |-> 0]]
      BY DEF Init
    <3> QED
      BY <3>1, <3>2
  <2>7. avail \in [Desc -> Desc] /\ used \in [Desc -> Desc]
    BY <1>u DEF Init
  <2>8. pc \in [Procs -> Places]
    BY DEF Init, Places
  <2>9. idx \in [Procs -> [chain : Desc \X Desc \X Desc, write : BOOLEAN]]
    BY <2>1 DEF Init
  <2>10. bdisk \in [Procs -> 0..1] /\ data \in [Procs -> 0..1] /\ platter \in [Procs -> 0..1]
    <3>1. /\ bdisk = [p \in Procs |-> 0] /\ data = [p \in Procs |-> 0]
          /\ platter = [p \in Procs |-> 0]
      BY DEF Init
    <3> QED
      BY <3>1
  <2>11. irq \in BOOLEAN /\ panicked \in BOOLEAN
    <3>1. irq = FALSE /\ panicked = FALSE
      BY DEF Init
    <3> QED
      BY <3>1
  <2> QED
    BY <2>3, <2>4, <2>5, <2>6, <2>7, <2>8, <2>9, <2>10, <2>11 DEF TypeInv
<1>2. ChainInv
  BY DEF Init, ChainInv, Active
<1>3. LockInv
  BY SMTT(60) DEF Init, LockInv, VirtioConstants
<1>4. QueueInv
  <2>1. Count(StartIdx, StartIdx) = 0
    <3>1. StartIdx - StartIdx = 0 /\ 0 % UINT16 = 0
      BY <1>u, Wrap DEF Index
    <3> QED
      BY <3>1 DEF Count
  <2>2. \A ring : Held(ring, StartIdx, StartIdx) = {} /\ Sound(ring, StartIdx, StartIdx)
    BY <1>u, <2>1 DEF Held, Sound
  <2>3. Waiting = {} /\ Completed = {} /\ inflight = {}
    BY <2>2 DEF Init, Waiting, Completed
  <2>4. Sound(avail, taken, availIdx) /\ Sound(used, used_idx, usedIdx)
    BY <2>2 DEF Init
  <2>5. \A p \in Procs : ~Pending(p)
    BY DEF Init, Pending
  <2> QED
    BY <2>3, <2>4, <2>5 DEF QueueInv, Queued
<1>5. DataInv
  BY DEF Init, DataInv, Pending
<1>6. NoRequestForgotten /\ DriverNeverPanics
  BY DEF Init, NoRequestForgotten, DriverNeverPanics
<1> QED
  BY <1>1, <1>2, <1>3, <1>4, <1>5, <1>6 DEF IInv

\* The invariant holds in every state of every behaviour.
LEMMA Inductive == ASSUME VirtioConstants PROVE Spec => []IInv
<1>1. Init => IInv
  BY InitInv
<1>2. IInv /\ [Next]_vars => IInv'
  <2> SUFFICES ASSUME IInv, [Next]_vars PROVE IInv'
    OBVIOUS
  <2>1. TypeInv' /\ ChainInv' /\ LockInv' /\ QueueInv' /\ DataInv'
    BY TypeStep, ChainStep, LockStep, QueueStep, DataStep
  <2>2. NoRequestForgotten' /\ DriverNeverPanics'
    BY ForgottenStep, PanicStep
  <2> QED
    BY <2>1, <2>2 DEF IInv
<1> QED
  BY <1>1, <1>2, PTL DEF Spec

----------------------------------------------------------------------------
\* virtio_disk.c, for any processes and any ring: descriptors are neither lost
\* nor shared, virtio_disk_rw() returns only when the device has moved the
\* data of its own buf, no panic() is reached, no completion is overlooked and
\* nobody sleeps for what is there already.
THEOREM DriverIsSafe == ASSUME VirtioConstants PROVE Spec => []DriverSafe
<1>1. IInv => DriverSafe
  <2> SUFFICES ASSUME IInv PROVE DriverSafe
    OBVIOUS
  <2>t. TypeInv /\ ChainInv /\ DataInv /\ DriverNeverPanics /\ NoRequestForgotten
    BY DEF IInv
  <2>1. TypeOK
    BY <2>t DEF TypeInv, TypeOK, Places, Index
  <2>2. ChainsPartition
    <3>1. \A p \in Procs : Active(p) => ChainFrom(idx[p].chain[1]) = Links(p) /\ Links(p) \subseteq Desc
      BY <2>t, ChainFromHead, LinksType
    <3>2. \A p, q \in Procs : p # q /\ Active(p) /\ Active(q) =>
            ChainFrom(idx[p].chain[1]) \cap ChainFrom(idx[q].chain[1]) = {}
      BY <2>t, <3>1 DEF ChainInv
    <3>3. free = Desc \ UNION {ChainFrom(idx[p].chain[1]) : p \in {q \in Procs : Active(q)}}
      <4>1. ASSUME NEW i \in free PROVE i \in Desc /\ \A p \in Procs : Active(p) => i \notin Links(p)
        BY <2>t DEF ChainInv, TypeInv
      <4>2. ASSUME NEW i \in Desc, \A p \in Procs : Active(p) => i \notin Links(p) PROVE i \in free
        BY <2>t, <4>2 DEF ChainInv
      <4> QED
        BY <3>1, <4>1, <4>2
    <3> QED
      BY <3>2, <3>3 DEF ChainsPartition
  <2>3. TransferDone
    BY <2>t DEF DataInv, TransferDone
  <2> QED
    BY <2>t, <2>1, <2>2, <2>3 DEF DriverSafe
<1> QED
  BY <1>1, Inductive, PTL

\* Every request that sleeps, or was woken too early by kill(), has its head in
\* exactly one of the available ring, the device and the used ring, and there
\* once; nothing else is in them, and neither ring is overrun, also across the
\* wrap of the indices.
OnePlace ==
  /\ \A p \in Procs : Pending(p) =>
       \/ HeadOf(p) \in Waiting /\ HeadOf(p) \notin inflight \union Completed
       \/ HeadOf(p) \in inflight /\ HeadOf(p) \notin Waiting \union Completed
       \/ HeadOf(p) \in Completed /\ HeadOf(p) \notin Waiting \union inflight
  /\ \A p, q \in Procs : Pending(p) /\ Pending(q) /\ HeadOf(p) = HeadOf(q) => p = q
  /\ \A h \in Waiting \union inflight \union Completed : \E p \in Procs : Pending(p) /\ HeadOf(p) = h
  /\ Sound(avail, taken, availIdx) /\ Sound(used, used_idx, usedIdx)

\* A request is neither lost between virtio_disk_rw(), the device and
\* virtio_disk_intr(), nor handed on twice.
THEOREM RequestsInOnePlace == ASSUME VirtioConstants PROVE Spec => []OnePlace
<1>1. IInv => OnePlace
  <2> SUFFICES ASSUME IInv PROVE OnePlace
    OBVIOUS
  <2>t. ChainInv /\ QueueInv
    BY DEF IInv
  <2>1. \A p, q \in Procs : Pending(p) /\ Pending(q) /\ HeadOf(p) = HeadOf(q) => p = q
    BY <2>t, HeadsDiffer DEF Pending, Active
  <2> QED
    BY <2>t, <2>1 DEF QueueInv, Queued, OnePlace
<1> QED
  BY <1>1, Inductive, PTL
=============================================================================
