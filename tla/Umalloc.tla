------------------------------- MODULE Umalloc -------------------------------
(***************************************************************************)
(* The user-level allocator, user/umalloc.c: a circular free list in the    *)
(* order of addresses, with a roving start.                                 *)
(*                                                                          *)
(* Memory is counted in units of a header.  base is unit 0, below the heap; *)
(* ptr and size are the headers, by address.  The program may call sbrk()   *)
(* on its own, which leaves a hole between two pieces of the heap.          *)
(***************************************************************************)
EXTENDS Integers, Sequences, FiniteSets

CONSTANTS
  NALLOC,         \* units morecore() asks for at least (4096)
  Sizes,          \* units of the requests, header included
  MaxBrk,         \* sbrk() fails beyond this
  MaxHeld

VARIABLES ptr, size, freep, brk, held, holes
vars == <<ptr, size, freep, brk, held, holes>>

base == 0
None == -1
Units == 0 .. MaxBrk
NoHeaders == [u \in Units |-> None]

Init ==
  /\ ptr = NoHeaders /\ size = [u \in Units |-> 0] /\ freep = None
  /\ brk = 1 /\ held = {} /\ holes = {}

(* The list as free() leaves it, for a block bp of n units: p is the block *)
(* after which bp belongs, found by following the list from freep.         *)
RECURSIVE FindPlace(_, _, _)
FindPlace(next, p, bp) ==
  IF \/ bp > p /\ bp < next[p]
     \/ p >= next[p] /\ (bp > p \/ bp < next[p])
  THEN p ELSE FindPlace(next, next[p], bp)

Mut_InsertedUp(h, p, bp) ==
  LET up == bp + h.size[bp] = h.ptr[p]
      n == IF up THEN h.size[bp] + h.size[h.ptr[p]] ELSE h.size[bp]
      nx == h.ptr[p]
  IN IF p + h.size[p] = bp
     THEN [h EXCEPT !.size[p] = @ + n, !.ptr[p] = nx, !.freep = p]
     ELSE [h EXCEPT !.size[bp] = n, !.ptr[bp] = nx, !.ptr[p] = bp, !.freep = p]
(* Join bp to the block above it, then to the block below it.              *)
Inserted(h, p, bp) ==
  LET up == bp + h.size[bp] = h.ptr[p]
      n == IF up THEN h.size[bp] + h.size[h.ptr[p]] ELSE h.size[bp]
      nx == IF up THEN h.ptr[h.ptr[p]] ELSE h.ptr[p]
  IN IF p + h.size[p] = bp
     THEN [h EXCEPT !.size[p] = @ + n, !.ptr[p] = nx, !.freep = p]
     ELSE [h EXCEPT !.size[bp] = n, !.ptr[bp] = nx, !.ptr[p] = bp, !.freep = p]

Freed(h, bp) == Inserted(h, FindPlace(h.ptr, h.freep, bp), bp)

(* morecore(): at least NALLOC units from sbrk(); None if there are none.  *)
Morecore(h, nunits) ==
  LET nu == IF nunits < NALLOC THEN NALLOC ELSE nunits
  IN IF h.brk + nu > MaxBrk THEN [h |-> h, p |-> None]
     ELSE LET g == Freed([h EXCEPT !.size[h.brk] = nu, !.brk = @ + nu], h.brk)
          IN [h |-> g, p |-> g.freep]

(* The loop of malloc(): first fit, once round the list, then morecore().  *)
RECURSIVE Search(_, _, _, _)
Search(h, prevp, p, nunits) ==
  IF h.size[p] = nunits
  THEN [h |-> [h EXCEPT !.ptr[prevp] = h.ptr[p], !.freep = prevp], p |-> p]
  ELSE IF h.size[p] > nunits
  THEN LET q == p + h.size[p] - nunits
       IN [h |-> [h EXCEPT !.size[p] = @ - nunits, !.size[q] = nunits, !.freep = prevp], p |-> q]
  ELSE IF p # h.freep THEN Search(h, p, h.ptr[p], nunits)
  ELSE LET m == Morecore(h, nunits)
       IN IF m.p = None THEN m ELSE Search(m.h, m.p, m.h.ptr[m.p], nunits)

Heap == [ptr |-> ptr, size |-> size, freep |-> freep, brk |-> brk]
Started == IF freep = None THEN [Heap EXCEPT !.ptr[base] = base, !.freep = base] ELSE Heap

(* Headers outside the list and the blocks in use are left over bytes:     *)
(* forget them, so that states differ only in what matters.                *)
RECURSIVE OnList(_, _, _)
OnList(next, p, seen) == IF p \in seen THEN seen ELSE OnList(next, next[p], seen \cup {p})
Becomes(h, inUse) ==
  LET list == OnList(h.ptr, h.freep, {})
  IN /\ ptr' = [u \in Units |-> IF u \in list THEN h.ptr[u] ELSE None]
     /\ size' = [u \in Units |-> IF u \in list \cup inUse THEN h.size[u] ELSE 0]
     /\ freep' = h.freep /\ brk' = h.brk /\ held' = inUse

malloc == \E nunits \in Sizes :
  LET r == Search(Started, Started.freep, Started.ptr[Started.freep], nunits)
  IN /\ Cardinality(held) < MaxHeld
     /\ Becomes(r.h, IF r.p = None THEN held ELSE held \cup {r.p})
     /\ UNCHANGED holes

free == \E bp \in held :
  /\ Becomes(Freed(Heap, bp), held \ {bp})
  /\ UNCHANGED holes

(* The program takes a unit from sbrk() for itself.                        *)
Sbrk ==
  /\ brk < MaxBrk /\ holes = {}
  /\ holes' = {brk} /\ brk' = brk + 1
  /\ UNCHANGED <<ptr, size, freep, held>>

Next == malloc \/ free \/ Sbrk
Spec == Init /\ [][Next]_vars
-----------------------------------------------------------------------------
FreeList == IF freep = None THEN {} ELSE OnList(ptr, freep, {})
BlockAt(u) == u .. u + size[u] - 1

(* Every unit of the heap is in one free block, one block in use, or was   *)
(* taken by the program: blocks never overlap, and none is lost.           *)
UnitsConserved ==
  \A u \in 1 .. brk - 1 :
    Cardinality({b \in FreeList \cup held : u \in BlockAt(b)})
      + (IF u \in holes THEN 1 ELSE 0) = 1

(* free() keeps the list circular and in the order of addresses, which its *)
(* own search depends on, and joins every two free blocks that touch.      *)
ListOrderedAndJoined ==
  /\ \A p \in FreeList :
       /\ p < ptr[p] \/ \A q \in FreeList : ptr[p] <= q /\ q <= p
       /\ size[p] = 0 => p = base
       /\ size[p] > 0 => p + size[p] \notin FreeList
  /\ freep # None => base \in FreeList

(* malloc() and free() as a whole: no unit lost or shared, and the free    *)
(* list in order and joined.                                               *)
FreeListSound == UnitsConserved /\ ListOrderedAndJoined
=============================================================================
