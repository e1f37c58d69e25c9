--------------------------------- MODULE VM ---------------------------------
(***************************************************************************)
(* User memory: the page allocator (kernel/kalloc.c), page tables           *)
(* (kernel/vm.c) and the operations that build and free address spaces,     *)
(* fork, exec, sbrk and wait's freeproc (kernel/proc.c, kernel/exec.c).     *)
(*                                                                          *)
(* Page tables have their three levels, with two entries in each table: the *)
(* user address space has eight pages, the top two hold the trapframe and   *)
(* the trampoline.  A page table is the pages of its tables (root; mid and  *)
(* low by index) and its leaf entries.  Sizes count bytes, PGSIZE to a      *)
(* page.  m is physical memory: how often each page is on the free list     *)
(* (once, if the kernel is right), the bytes of the pages, and whether one  *)
(* of the kernel's assertions failed.                                       *)
(***************************************************************************)
EXTENDS Integers, Sequences, FiniteSets, SequencesExt

CONSTANTS
  Procs, Initproc, PGSIZE, NPages,
  Programs,       \* exec()able files: sequences of [vaddr, memsz, filesz, w]
  USERSTACK, Grow, MaxOps

VARIABLES
  m,
  pt, sz, tf,     \* p->pagetable, p->sz, p->trapframe
  view,           \* what each process ought to find in its memory
  managed, ops    \* pages the allocator started with; operations so far
vars == <<m, pt, sz, tf, view, managed, ops>>

Pages == 1..NPages
TRAMPOLINE == 7
TRAPFRAME == 6
TrampolineCode == -1            \* kernel text, not an allocatable page
Invalid == [pa |-> 0, u |-> FALSE, w |-> FALSE]
NoTable == [root |-> 0, mid |-> [i \in 0..1 |-> 0], low |-> [i \in 0..3 |-> 0],
            pte |-> [v \in 0..7 |-> Invalid]]
PageUp(n) == (n + PGSIZE - 1) \div PGSIZE          \* PGROUNDUP(n) / PGSIZE
Range01(a, b) == [i \in 1 .. (IF b > a THEN b - a ELSE 0) |-> a + i - 1]   \* a .. b-1
Bytes(x) == [i \in 0 .. PGSIZE - 1 |-> x]
-----------------------------------------------------------------------------
(* kalloc() and kfree(); the page that is taken is the least free one.     *)
Kalloc(s) ==
  LET free == {p \in Pages : s.free[p] > 0}
      p == CHOOSE x \in free : \A y \in free : x <= y
  IN IF free = {} THEN [m |-> s, pa |-> 0]
     ELSE [m |-> [s EXCEPT !.free[p] = @ - 1, !.data[p] = Bytes(5)], pa |-> p]

KfreeAll(s, ps) ==
  [s EXCEPT !.free = [p \in Pages |-> IF p \in ps THEN @[p] + 1 ELSE @[p]],
            !.data = [p \in Pages |-> IF p \in ps THEN Bytes(1) ELSE @[p]]]
Kfree(s, p) == [s EXCEPT !.free[p] = @ + 1, !.data[p] = Bytes(1)]

(* walk() with alloc: make sure the tables on the way to page v exist.     *)
MidTable(s, t, v) ==
  LET add(k) == [m |-> k.m, t |-> [t EXCEPT !.mid[v \div 4] = k.pa], ok |-> k.pa # 0]
  IN IF t.mid[v \div 4] # 0 THEN [m |-> s, t |-> t, ok |-> TRUE] ELSE add(Kalloc(s))

LowTable(r, v) ==
  LET add(k) == [m |-> k.m, t |-> [r.t EXCEPT !.low[v \div 2] = k.pa], ok |-> k.pa # 0]
  IN IF ~r.ok \/ r.t.low[v \div 2] # 0 THEN r ELSE add(Kalloc(r.m))

WalkAlloc(s, t, v) == LowTable(MidTable(s, t, v), v)

(* walk() without alloc finds an entry.                                    *)
Exists(t, v) == t.mid[v \div 4] # 0 /\ t.low[v \div 2] # 0
Valid(t, v) == Exists(t, v) /\ t.pte[v] # Invalid

(* mappages() of one page.                                                 *)
Mapped(r, v, e) ==
  IF ~r.ok THEN r
  ELSE IF r.t.pte[v] # Invalid THEN [r EXCEPT !.m.panic = TRUE]          \* remap
  ELSE [r EXCEPT !.t.pte[v] = e]
Mappages(s, t, v, pa, u, w) == Mapped(WalkAlloc(s, t, v), v, [pa |-> pa, u |-> u, w |-> w])

(* uvmunmap() of the pages in vs.  The mappings must exist.                *)
Uvmunmap(s, t, vs, doFree) ==
  LET unmap(acc, v) ==
        IF ~Valid(acc.t, v) THEN [acc EXCEPT !.m.panic = TRUE]          \* not mapped
        ELSE [m |-> IF doFree THEN Kfree(acc.m, acc.t.pte[v].pa) ELSE acc.m,
              t |-> [acc.t EXCEPT !.pte[v] = Invalid]]
  IN FoldLeft(unmap, [m |-> s, t |-> t], vs)

(* freewalk(): every table goes, and no leaf may be left.                  *)
Freewalk(s, t) ==
  LET tables == {t.root} \cup {t.mid[i] : i \in 0..1} \cup {t.low[i] : i \in 0..3}
      leaf == \E v \in 0..7 : t.pte[v] # Invalid
  IN IF leaf THEN [s EXCEPT !.panic = TRUE]
     ELSE KfreeAll(s, tables \ {0})

Uvmfree(s, t, size) ==
  LET walk(r) == Freewalk(r.m, r.t)
  IN walk(Uvmunmap(s, t, Range01(0, PageUp(size)), TRUE))

Uvmdealloc(s, t, oldsz, newsz) ==
  IF newsz >= oldsz THEN [m |-> s, t |-> t, sz |-> oldsz]
  ELSE LET r == Uvmunmap(s, t, Range01(PageUp(newsz), PageUp(oldsz)), TRUE)
       IN [m |-> r.m, t |-> r.t, sz |-> newsz]

(* uvmalloc(): 0 and no change of the mappings when memory runs out.       *)
Uvmalloc(s, t, oldsz, newsz, w) ==
  LET first == PageUp(oldsz)
      page(acc, v) ==
        LET undo(mem, tab) == [Uvmdealloc(mem, tab, v * PGSIZE, first * PGSIZE) EXCEPT !.sz = 0]
            mapped(r, pa) == IF r.ok THEN [m |-> r.m, t |-> r.t, sz |-> newsz]
                             ELSE undo(Kfree(r.m, pa), r.t)
            got(k) ==
              IF k.pa = 0 THEN undo(k.m, acc.t)
              ELSE mapped(Mappages([k.m EXCEPT !.data[k.pa] = Bytes(0)], acc.t, v, k.pa, TRUE, w),
                          k.pa)
        IN IF acc.sz = 0 THEN acc ELSE got(Kalloc(acc.m))
  IN IF newsz < oldsz THEN [m |-> s, t |-> t, sz |-> oldsz]
     ELSE FoldLeft(page, [m |-> s, t |-> t, sz |-> newsz], Range01(first, PageUp(newsz)))

Mut_Uncopied(s, t, v, pa) == Uvmunmap(s, t, Range01(0, v), TRUE)
(* uvmcopy() gives up at page v: free the page at hand and the copies.     *)
Uncopied(s, t, v, pa) ==
  Uvmunmap(IF pa # 0 THEN Kfree(s, pa) ELSE s, t, Range01(0, v), TRUE)

(* uvmcopy(): copy the pages, or undo the copies already made.             *)
Uvmcopy(s, old, new, size) ==
  LET page(acc, v) ==
        LET e == old.pte[v]
            undone(r) == [m |-> r.m, t |-> r.t, ok |-> FALSE]
            mapped(r, pa) == IF r.ok THEN r ELSE undone(Uncopied(r.m, r.t, v, pa))
            got(k) ==
              IF k.pa = 0 THEN undone(Uncopied(k.m, acc.t, v, 0))
              ELSE mapped(Mappages([k.m EXCEPT !.data[k.pa] = acc.m.data[e.pa]],
                                   acc.t, v, k.pa, e.u, e.w), k.pa)
        IN IF ~acc.ok THEN acc
           ELSE IF ~Valid(old, v) THEN [acc EXCEPT !.m.panic = TRUE]
           ELSE got(Kalloc(acc.m))
  IN FoldLeft(page, [m |-> s, t |-> new, ok |-> TRUE], Range01(0, PageUp(size)))

(* proc_pagetable() and proc_freepagetable().                              *)
ProcPagetable(s, trapframe) ==
  LET fail(r) == [m |-> Uvmfree(r.m, r.t, 0), t |-> NoTable]
      second(b) == IF b.ok THEN [m |-> b.m, t |-> b.t]
                   ELSE fail(Uvmunmap(b.m, b.t, <<TRAMPOLINE>>, FALSE))
      first(a) == IF a.ok THEN second(Mappages(a.m, a.t, TRAPFRAME, trapframe, FALSE, TRUE))
                  ELSE fail(a)
      root(k) ==
        IF k.pa = 0 THEN [m |-> s, t |-> NoTable]
        ELSE first(Mappages(k.m, [NoTable EXCEPT !.root = k.pa], TRAMPOLINE, TrampolineCode,
                            FALSE, FALSE))
  IN root(Kalloc(s))

ProcFreepagetable(s, t, size) ==
  LET rest(r) == Uvmfree(r.m, r.t, size)
  IN rest(Uvmunmap(s, t, <<TRAMPOLINE, TRAPFRAME>>, FALSE))

(* freeproc().                                                             *)
Freeproc(s, t, trapframe, size) ==
  LET a == IF trapframe # 0 THEN Kfree(s, trapframe) ELSE s
  IN IF t = NoTable THEN a ELSE ProcFreepagetable(a, t, size)
-----------------------------------------------------------------------------
(* The user may write page v.                                              *)
Writable(t, v) == v <= 7 /\ Valid(t, v) /\ t.pte[v].u /\ t.pte[v].w

(* The bytes of page v after b is stored at the addresses va .. va+len-1.  *)
Stored(bytes, v, va, len, b) ==
  [i \in 0 .. PGSIZE - 1 |-> IF v * PGSIZE + i \in va .. va + len - 1 THEN b ELSE bytes[i]]

(* copyout(): page by page, until a page the user may not write.           *)
Copyout(s, t, va, len, b) ==
  LET page(acc, v) ==
        IF ~acc.ok \/ ~Writable(t, v) THEN [acc EXCEPT !.ok = FALSE]
        ELSE [acc EXCEPT !.m.data[t.pte[v].pa] = Stored(@, v, va, len, b)]
  IN FoldLeft(page, [m |-> s, ok |-> TRUE], Range01(va \div PGSIZE, PageUp(va + len)))

(* loadseg(): the segment's pages are filled from the file, whose bytes    *)
(* are all 7; they must be mapped.                                         *)
Loadseg(s, t, va, filesz) ==
  LET page(acc, v) ==
        IF ~Valid(t, v) THEN [acc EXCEPT !.panic = TRUE]
        ELSE [acc EXCEPT !.data[t.pte[v].pa] = Stored(@, v, va, filesz, 7)]
  IN FoldLeft(page, s, Range01(va \div PGSIZE, PageUp(va + filesz)))

(* exec() up to its commit: [m, t, sz, ok].  stop names the point at which *)
(* the file turns out to be bad, or the arguments too long; 0 if neither.  *)
BuildImage(s, trapframe, prog, stop) ==
  LET failed(r, size) == [m |-> r.m, t |-> r.t, sz |-> size, ok |-> FALSE]
      seg(acc, i) ==
        LET ph == prog[i]
            load(r) == IF r.sz = 0 THEN failed(r, acc.sz)
                       ELSE [m |-> Loadseg(r.m, r.t, ph.vaddr, ph.filesz), t |-> r.t,
                             sz |-> r.sz, ok |-> TRUE]
        IN IF ~acc.ok \/ stop = i THEN [acc EXCEPT !.ok = FALSE]
           ELSE load(Uvmalloc(acc.m, acc.t, acc.sz, ph.vaddr + ph.memsz, ph.w))
      args(r, c) == [m |-> c.m, t |-> r.t, sz |-> r.sz, ok |-> c.ok]
      push(r) == IF stop = Len(prog) + 1 THEN failed(r, r.sz)
                 ELSE args(r, Copyout(r.m, r.t, r.sz - 1, 1, 9))
      clear(r, base) == IF r.sz = 0 THEN failed(r, base)                \* uvmclear
                        ELSE push([r EXCEPT !.t.pte[PageUp(base)].u = FALSE])
      stack(l, base) == clear(Uvmalloc(l.m, l.t, base, base + (USERSTACK + 1) * PGSIZE, TRUE), base)
      loaded(l) == IF l.ok THEN stack(l, PageUp(l.sz) * PGSIZE) ELSE l
      table(new) == IF new.t = NoTable THEN failed(new, 0)
                    ELSE loaded(FoldLeft(seg, [m |-> new.m, t |-> new.t, sz |-> 0, ok |-> TRUE],
                                         Range01(1, Len(prog) + 1)))
  IN table(ProcPagetable(s, trapframe))
-----------------------------------------------------------------------------
(* kinit(), then userinit(): one process with one page.  Any number of     *)
(* pages may already be in use elsewhere in the kernel.                    *)
Init == \E n \in 0 .. NPages :
  LET kinit == [free |-> [p \in Pages |-> IF p <= n THEN 1 ELSE 0],
                data |-> [p \in Pages |-> Bytes(1)], panic |-> FALSE]
  IN \E k \in {Kalloc(kinit)} : \E t \in {ProcPagetable(k.m, k.pa)} :
       \E u \in {Uvmalloc(t.m, t.t, 0, PGSIZE, TRUE)} :          \* uvmfirst()
         /\ k.pa # 0 /\ t.t # NoTable /\ u.sz # 0
         /\ m = u.m
         /\ pt = [p \in Procs |-> IF p = Initproc THEN u.t ELSE NoTable]
         /\ sz = [p \in Procs |-> IF p = Initproc THEN PGSIZE ELSE 0]
         /\ tf = [p \in Procs |-> IF p = Initproc THEN k.pa ELSE 0]
         /\ view = [p \in Procs |-> IF p = Initproc THEN [i \in 1 .. PGSIZE |-> 0] ELSE <<>>]
         /\ managed = n /\ ops = 0

Live(p) == pt[p] # NoTable
Counted == ops < MaxOps /\ ops' = ops + 1 /\ UNCHANGED managed

(* What a process finds in its memory: the whole of its last page, which   *)
(* sbrk() neither clears nor takes away when only part of it is given up.  *)
Memory(s, t, size) ==
  [i \in 1 .. PageUp(size) * PGSIZE |-> LET a == i - 1 IN s.data[t.pte[a \div PGSIZE].pa][a % PGSIZE]]

(* fork(): allocproc(), uvmcopy(), or freeproc() of what there is.         *)
Allocated(p) ==
  LET undone(mem) == [m |-> mem, t |-> NoTable, pa |-> 0, ok |-> FALSE]
      copied(c, pa) == IF c.ok THEN [m |-> c.m, t |-> c.t, pa |-> pa, ok |-> TRUE]
                       ELSE undone(Freeproc(c.m, c.t, pa, 0))
      tabled(t, pa) == IF t.t = NoTable THEN undone(Freeproc(t.m, NoTable, pa, 0))
                       ELSE copied(Uvmcopy(t.m, pt[p], t.t, sz[p]), pa)
      got(k) == IF k.pa = 0 THEN undone(m) ELSE tabled(ProcPagetable(k.m, k.pa), k.pa)
  IN got(Kalloc(m))

Fork(p, q) ==
  /\ Live(p) /\ ~Live(q) /\ Counted
  /\ \E c \in {Allocated(p)} :
       /\ m' = c.m
       /\ IF c.ok
          THEN /\ pt' = [pt EXCEPT ![q] = c.t] /\ tf' = [tf EXCEPT ![q] = c.pa]
               /\ sz' = [sz EXCEPT ![q] = sz[p]] /\ view' = [view EXCEPT ![q] = view[p]]
          ELSE UNCHANGED <<pt, tf, sz, view>>

(* exec(): commit to the new image and free the old one, or the reverse.   *)
Exec(p) == \E prog \in Programs : \E stop \in 0 .. Len(prog) + 1 :
  /\ Live(p) /\ Counted
  /\ \E new \in {BuildImage(m, tf[p], prog, stop)} :
       IF new.ok
       THEN /\ m' = ProcFreepagetable(new.m, pt[p], sz[p])
            /\ pt' = [pt EXCEPT ![p] = new.t] /\ sz' = [sz EXCEPT ![p] = new.sz]
            /\ view' = [view EXCEPT ![p] = Memory(new.m, new.t, new.sz)]
       ELSE /\ m' = IF new.t = NoTable THEN new.m
                    ELSE ProcFreepagetable(new.m, new.t, new.sz)
            /\ UNCHANGED <<pt, sz, view>>
  /\ UNCHANGED tf

(* growproc(): a shrink by more than the size wraps round to a huge size,  *)
(* which uvmdealloc() ignores.                                             *)
Growproc(p, n) ==
  LET kept(r) == IF r.sz = 0 THEN [r EXCEPT !.sz = sz[p]] ELSE r
  IN IF n > 0 THEN kept(Uvmalloc(m, pt[p], sz[p], sz[p] + n, TRUE))
     ELSE IF sz[p] + n < 0 THEN [m |-> m, t |-> pt[p], sz |-> sz[p]]
     ELSE Uvmdealloc(m, pt[p], sz[p], sz[p] + n)

Sbrk(p) == \E n \in Grow :
  /\ Live(p) /\ Counted
  /\ sz[p] + n <= TRAPFRAME * PGSIZE
  /\ \E r \in {Growproc(p, n)} :
       /\ m' = r.m /\ pt' = [pt EXCEPT ![p] = r.t] /\ sz' = [sz EXCEPT ![p] = r.sz]
       /\ view' = [view EXCEPT ![p] =
            [i \in 1 .. PageUp(r.sz) * PGSIZE |-> IF i <= Len(@) THEN @[i] ELSE 0]]
  /\ UNCHANGED tf

(* A system call stores into user memory, perhaps across a page boundary.  *)
Store(p) == \E va \in 0 .. TRAPFRAME * PGSIZE - 1, len \in 1 .. 2 :
  /\ Live(p) /\ va <= sz[p] /\ Counted
  /\ m' = Copyout(m, pt[p], va, len, 3).m
  /\ view' = [view EXCEPT ![p] = [i \in 1 .. Len(@) |->
       IF /\ i - 1 \in va .. va + len - 1
          /\ \A a \in va .. i - 1 : Writable(pt[p], a \div PGSIZE)
       THEN 3 ELSE @[i]]]
  /\ UNCHANGED <<pt, sz, tf>>

(* wait() frees a process that has exited; init never does.                *)
Reap(p) ==
  /\ Live(p) /\ p # Initproc /\ Counted
  /\ m' = Freeproc(m, pt[p], tf[p], sz[p])
  /\ pt' = [pt EXCEPT ![p] = NoTable] /\ tf' = [tf EXCEPT ![p] = 0]
  /\ sz' = [sz EXCEPT ![p] = 0] /\ view' = [view EXCEPT ![p] = <<>>]

Done == ops = MaxOps /\ UNCHANGED vars

Next ==
  \/ Done
  \/ \E p \in Procs : Exec(p) \/ Sbrk(p) \/ Store(p) \/ Reap(p) \/ \E q \in Procs : Fork(p, q)

Spec == Init /\ [][Next]_vars
-----------------------------------------------------------------------------
(* The pages a process holds, as a sequence: its tables, its user pages    *)
(* and its trapframe.                                                      *)
Held(p) ==
  LET t == pt[p]
  IN <<t.root, t.mid[0], t.mid[1], t.low[0], t.low[1], t.low[2], t.low[3], tf[p]>>
     \o [v \in 1 .. TRAPFRAME |-> t.pte[v - 1].pa]

(* Memory is conserved: a page of the allocator is on the free list once   *)
(* or held in one place by one process.  So a fork(), exec() or sbrk() that *)
(* runs out of memory half way leaks nothing, no page is freed twice, and   *)
(* no two address spaces share one.                                         *)
PagesConserved ==
  LET held == {<<p, i, Held(p)[i]>> : p \in Procs, i \in 1..14}
      uses(pg) == Cardinality({h \in held : h[3] = pg})
  IN \A pg \in 1 .. managed : m.free[pg] + uses(pg) = 1

(* An address space is what p->sz says: the pages below it are mapped, the *)
(* trapframe and the trampoline are mapped out of the user's reach, and    *)
(* nothing else is.                                                        *)
ImageMatchesSize ==
  \A p \in Procs : Live(p) =>
    LET t == pt[p]
    IN /\ \A v \in 0 .. TRAPFRAME - 1 : Valid(t, v) <=> v < PageUp(sz[p])
       /\ t.pte[TRAPFRAME] = [pa |-> tf[p], u |-> FALSE, w |-> TRUE]
       /\ t.pte[TRAMPOLINE].pa = TrampolineCode /\ ~t.pte[TRAMPOLINE].u

(* None of the assertions of vm.c and exec.c fails: no remap, no unmap of  *)
(* a page that is not mapped, no leaf left when the tables are freed, and  *)
(* every page of a segment exists when it is loaded.                       *)
VmNeverPanics == ~m.panic

(* Every process finds in its memory what it put there: a child has a copy *)
(* of its parent's memory and not the memory itself, and an exec() that    *)
(* fails leaves the old image as it was.                                   *)
MemoryIsOwn ==
  \A p \in Procs : Live(p) => Memory(m, pt[p], sz[p]) = view[p]

(* fork(), exec(), sbrk() and exit() as a whole: pages are conserved, an   *)
(* image is what p->sz says and holds what its process put there, also     *)
(* when memory runs out half way.                                          *)
MemorySafe == PagesConserved /\ ImageMatchesSize /\ VmNeverPanics /\ MemoryIsOwn
=============================================================================
