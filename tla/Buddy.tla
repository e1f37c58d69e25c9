------------------------------- MODULE Buddy -------------------------------
(***************************************************************************)
(* The buddy allocator, kernel/buddy.c, with the lists of kernel/list.c.    *)
(*                                                                          *)
(* An address is a number of leaves (LEAF_SIZE bytes) from bd_base.  The    *)
(* bit arrays lie one behind the other in the metadata, as in the code, and *)
(* bits is the set of the positions that are 1: an index past the end of    *)
(* one array is a bit of the next.  A free list is the sequence of its      *)
(* blocks.  held has the blocks handed out: address and bytes asked for.    *)
(* Every operation holds the allocator's lock from beginning to end.        *)
(***************************************************************************)
EXTENDS Integers, Sequences, FiniteSets, SequencesExt

CONSTANTS
  Heaps,          \* sizes of the memory given to bd_init, in leaves
  Requests,       \* numbers of bytes asked for
  MaxHeld         \* bound on the blocks handed out at one time

VARIABLES heap, bits, free, held, panicked
vars == <<heap, bits, free, held, panicked>>

LEAF_SIZE == 16
SZ_INFO == 32                      \* sizeof(struct sz_info)
Blk(k) == 2 ^ k                    \* BLK_SIZE(k), in leaves
RoundUp(n, to) == (n + to - 1) \div to    \* ROUNDUP(n, to) / to

_log2(n) == CHOOSE k \in 0 .. n : 2 ^ k <= n /\ n < 2 ^ (k + 1)
nsizes(n) == LET k == _log2(n) + 1 IN IF n > Blk(k - 1) THEN k + 1 ELSE k
MAXSIZE(n) == nsizes(n) - 1
NBLK(n, k) == 2 ^ (MAXSIZE(n) - k)

(* Where the arrays of bits start, in bits, and where the metadata ends.   *)
ArrayBytes(n, k) == RoundUp(NBLK(n, k), 8)
BytesBefore(n, first, k) ==
  FoldLeft(LAMBDA s, i : IF i < k THEN s + ArrayBytes(n, i) ELSE s, 0,
           [i \in 1 .. nsizes(n) - first |-> i + first - 1])
Layout == [n \in Heaps |->
  LET split == BytesBefore(n, 0, nsizes(n))
      meta == SZ_INFO * nsizes(n) + split + BytesBefore(n, 1, nsizes(n))
  IN [alloc |-> [k \in 0 .. MAXSIZE(n) |-> 8 * BytesBefore(n, 0, k)],
      split |-> [k \in 1 .. MAXSIZE(n) |-> 8 * (split + BytesBefore(n, 1, k))],
      meta |-> RoundUp(meta, LEAF_SIZE)]]
AllocAt(n, k) == Layout[n].alloc[k]
SplitAt(n, k) == Layout[n].split[k]
MetaEnd(n) == Layout[n].meta

(* The bit operations and the lists of list.c; a list starts at its head.  *)
bit_isset(array, index) == index \in array
bit_set(array, indices) == array \cup indices
bit_clear(array, index) == array \ {index}
lst_empty(lst) == lst = <<>>
lst_remove(lst, e) == SelectSeq(lst, LAMBDA x : x # e)
lst_pop(lst) == [lst |-> Tail(lst), p |-> Head(lst)]
lst_push(lst, p) == <<p>> \o lst

blk_index(k, p) == p \div Blk(k)
blk_index_next(k, p) == RoundUp(p, Blk(k))
Buddy(bi) == IF bi % 2 = 0 THEN bi + 1 ELSE bi - 1
firstk(nbytes) == CHOOSE k \in 0 .. 20 :
  nbytes <= LEAF_SIZE * 2 ^ k /\ (k = 0 \/ LEAF_SIZE * 2 ^ (k - 1) < nbytes)

(* bd_mark(): the bits of everything that overlaps start .. stop-1.        *)
bd_mark(n, start, stop) ==
  UNION {UNION {{AllocAt(n, k) + bi} \cup (IF k > 0 THEN {SplitAt(n, k) + bi} ELSE {}) :
                bi \in blk_index(k, start) .. blk_index_next(k, stop) - 1} :
         k \in 0 .. MAXSIZE(n)}

(* bd_initfree_pair(): the free block of the pair, if just one is free.    *)
FreeOfPair(n, set, k, bi) ==
  LET isset(i) == bit_isset(set, AllocAt(n, k) + i)
  IN IF isset(bi) = isset(Buddy(bi)) THEN <<>>
     ELSE <<(IF isset(bi) THEN Buddy(bi) ELSE bi) * Blk(k)>>

(* bd_initfree() for size k: lst_push() puts the right block in front.     *)
InitFree(n, set, k) ==
  LET left == blk_index_next(k, MetaEnd(n))
      right == blk_index(k, n)
  IN IF k = MAXSIZE(n) THEN <<>>
     ELSE (IF right <= left THEN <<>> ELSE FreeOfPair(n, set, k, right))
          \o FreeOfPair(n, set, k, left)

(* bd_init() of a memory of n leaves, with the sum it checks at the end.   *)
bd_init == \E n \in Heaps :
  LET set == bd_mark(n, 0, MetaEnd(n)) \cup bd_mark(n, n, Blk(MAXSIZE(n)))
      lists == [k \in 0 .. MAXSIZE(n) |-> InitFree(n, set, k)]
      sum == FoldLeft(LAMBDA s, i : s + Len(lists[i - 1]) * Blk(i - 1), 0,
                      [i \in 1 .. nsizes(n) |-> i])
  IN /\ heap = 0
     /\ heap' = n /\ bits' = set /\ free' = lists
     /\ panicked' = (sum # n - MetaEnd(n))
     /\ UNCHANGED held
-----------------------------------------------------------------------------
Alloc(k, p) == AllocAt(heap, k) + blk_index(k, p)
Split(k, p) == SplitAt(heap, k) + blk_index(k, p)

(* bd_malloc(): take the first block of the smallest size that has one and *)
(* split it down; the upper half of every split becomes free.              *)
bd_malloc == \E nbytes \in Requests :
  LET fk == firstk(nbytes)
      fits == {k \in fk .. MAXSIZE(heap) : ~lst_empty(free[k])}
      k == CHOOSE x \in fits : \A y \in fits : x <= y
      p == lst_pop(free[k]).p
  IN /\ heap > 0 /\ ~panicked /\ Cardinality(held) < MaxHeld /\ fits # {}
     /\ bits' = bit_set(bits, {Alloc(i, p) : i \in fk .. k} \cup {Split(i, p) : i \in fk + 1 .. k})
     /\ free' = [i \in DOMAIN free |->
                   IF i = k THEN lst_pop(free[i]).lst
                   ELSE IF i \in fk .. k - 1 THEN lst_push(free[i], p + Blk(i)) ELSE free[i]]
     /\ held' = held \cup {[at |-> p, bytes |-> nbytes]}
     /\ UNCHANGED <<heap, panicked>>

(* size(): the split bit of the block around p tells.                      *)
SizeOf(p) == CHOOSE k \in 0 .. MAXSIZE(heap) - 1 :
  /\ bit_isset(bits, Split(k + 1, p))
  /\ \A j \in 0 .. k - 1 : ~bit_isset(bits, Split(j + 1, p))

(* The buddy of p's block of size k, and the block the two merge into.     *)
BuddyOf(k, p) == Buddy(blk_index(k, p)) * Blk(k)
Merged(k, p) == IF BuddyOf(k, p) < p THEN BuddyOf(k, p) ELSE p

Mut_BuddyFree(set, k, p) == p < BuddyOf(k, p) /\ Alloc(k, BuddyOf(k, p)) \notin set
BuddyFree(set, k, p) == ~bit_isset(set, Alloc(k, BuddyOf(k, p)))

(* bd_free(): merge with the buddy as long as it is free.  ok is FALSE if  *)
(* the loop takes a block off a list it is not on.                         *)
Freed(p) ==
  LET step(s, k) ==
        IF s.done \/ k < SizeOf(p) THEN s
        ELSE LET cleared == bit_clear(s.bits, Alloc(k, s.p))
                 b == BuddyOf(k, s.p)
                 q == Merged(k, s.p)
             IN IF ~BuddyFree(cleared, k, s.p)
                THEN [s EXCEPT !.bits = cleared, !.done = TRUE, !.k = k]
                ELSE [s EXCEPT !.bits = bit_clear(cleared, Split(k + 1, q)), !.p = q, !.k = k + 1,
                               !.ok = @ /\ b \in Range(s.free[k]),
                               !.free[k] = lst_remove(@, b)]
      s == FoldLeft(step, [bits |-> bits, free |-> free, p |-> p, k |-> 0, done |-> FALSE, ok |-> TRUE],
                    [i \in 1 .. MAXSIZE(heap) |-> i - 1])
  IN [s EXCEPT !.free[s.k] = lst_push(@, s.p)]

bd_free == \E h \in held :
  /\ ~panicked
  /\ bits' = Freed(h.at).bits
  /\ free' = Freed(h.at).free
  /\ panicked' = ~Freed(h.at).ok
  /\ held' = held \ {h}
  /\ UNCHANGED heap

(* A request that no list can serve returns 0.                             *)
Refused == \E nbytes \in Requests :
  /\ heap > 0 /\ ~panicked
  /\ \A k \in firstk(nbytes) .. MAXSIZE(heap) : lst_empty(free[k])
  /\ UNCHANGED vars

Init == heap = 0 /\ bits = {} /\ free = <<>> /\ held = {} /\ panicked = FALSE

Next == bd_init \/ bd_malloc \/ bd_free \/ Refused

Spec == Init /\ [][Next]_vars
-----------------------------------------------------------------------------
Leaves(p, k) == p .. p + Blk(k) - 1
FreeBlocks == {<<p, k>> \in (0 .. heap) \X (0 .. MAXSIZE(heap)) :
                 p \in Range(free[k])}

(* The memory behind the metadata is divided without rest among the free   *)
(* blocks and the blocks handed out: none overlap, none reach into the     *)
(* metadata or past the end, and a block is as large as was asked for.     *)
HeapPartitioned ==
  LET blocks == FreeBlocks \cup {<<h.at, firstk(h.bytes)>> : h \in held}
  IN heap > 0 /\ ~panicked =>
       /\ \A leaf \in MetaEnd(heap) .. heap - 1 :
            Cardinality({b \in blocks : leaf \in Leaves(b[1], b[2])}) = 1
       /\ \A b \in blocks : b[1] >= MetaEnd(heap) /\ b[1] + Blk(b[2]) <= heap
       /\ \A k \in DOMAIN free : Len(free[k]) = Cardinality(Range(free[k]))

(* Free memory is merged as far as it goes: a run of free leaves that is   *)
(* aligned like a block lies in one free block, whatever the order of the  *)
(* frees.  So bd_malloc() fails only when no aligned run is large enough.  *)
FullyMerged ==
  LET blocks == {Leaves(b[1], b[2]) : b \in FreeBlocks}
      leaves == UNION blocks
  IN heap > 0 /\ ~panicked =>
       \A k \in 0 .. MAXSIZE(heap) : \A i \in 0 .. heap \div Blk(k) - 1 :
         Leaves(i * Blk(k), k) \subseteq leaves =>
            \E b \in blocks : Leaves(i * Blk(k), k) \subseteq b

(* bd_init() finds as much free memory as there is between its metadata    *)
(* and the end: its own assertion, "bd_init: free mem".  bd_free() never   *)
(* takes a buddy off a list it is not on.                                  *)
FreeMemBalances == ~panicked

(* bd_malloc() and bd_free() as a whole: blocks partition the heap,        *)
(* buddies are merged, and the count of free memory is right.              *)
BuddySafe == HeapPartitioned /\ FullyMerged /\ FreeMemBalances
=============================================================================
