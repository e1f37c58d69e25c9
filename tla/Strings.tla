------------------------------ MODULE Strings -------------------------------
(***************************************************************************)
(* The byte routines that everything above them trusts: memmove(),         *)
(* strncpy(), safestrcpy() and strncmp() of kernel/string.c, the user      *)
(* library's memmove(), strcmp() and gets() (user/ulib.c), the path        *)
(* splitter of the file system (skipelem(), kernel/fs.c) with the two      *)
(* calls that put a name into a directory entry and compare it, and the    *)
(* copies that cross page boundaries, copyin() and copyinstr()             *)
(* (kernel/vm.c).                                                          *)
(*                                                                         *)
(* A behaviour is one call: Init chooses the routine, its arguments and    *)
(* the memory, the action of that routine computes the memory and the      *)
(* result, loop by loop as the C code does.  An address is a number, a     *)
(* byte is a number, and NUL is 0; char is unsigned on RISC-V.             *)
(***************************************************************************)
EXTENDS Integers, Sequences, SequencesExt, FiniteSetsExt

CONSTANTS
  DIRSIZ,     \* bytes of a name in a directory entry
  PGSIZE,     \* bytes of a page
  Calls       \* the calls to examine: records, see the MC module

NUL == 0
SLASH == 3
NEWLINE == 4

VARIABLES
  call,    \* the call: its routine "fn", its arguments and the memory "mem" it starts with
  mem,     \* the memory, address -> byte
  res      \* what the call returned, or Pending

vars == <<call, mem, res>>

Pending == <<>>

Init ==
  /\ call \in Calls
  /\ mem = call.mem
  /\ res = Pending

Calling(fn) == res = Pending /\ call.fn = fn

---------------------------------------------------------------------------
(* Moving bytes. *)

Put(m, a, c) == [m EXCEPT ![a] = c]

\* while(n-- > 0) *d++ = *s++;
Upward(m, dst, src, n) ==
  FoldLeft(LAMBDA x, i : Put(x, dst + i - 1, x[src + i - 1]), m, [i \in 1..n |-> i])

\* s += n; d += n; while(n-- > 0) *--d = *--s;
Downward(m, dst, src, n) ==
  FoldLeft(LAMBDA x, i : Put(x, dst + n - i, x[src + n - i]), m, [i \in 1..n |-> i])

memmove(m, dst, src, n) ==
  IF n = 0 THEN m
  ELSE IF src < dst /\ src + n > dst THEN Downward(m, dst, src, n) ELSE Upward(m, dst, src, n)

\* The user library's version chooses by the order of the addresses alone.
ulib_memmove(m, dst, src, n) ==
  IF src > dst THEN Upward(m, dst, src, n) ELSE Downward(m, dst, src, n)

Memmove ==
  /\ Calling("memmove")
  /\ mem' = memmove(mem, call.dst, call.src, call.n)
  /\ res' = <<call.dst>>
  /\ UNCHANGED call

UlibMemmove ==
  /\ Calling("ulib_memmove")
  /\ mem' = ulib_memmove(mem, call.dst, call.src, call.n)
  /\ res' = <<call.dst>>
  /\ UNCHANGED call

---------------------------------------------------------------------------
(* Strings. *)

\* while(n-- > 0 && (*s++ = *t++) != 0): the memory, s and n after the loop.
RECURSIVE CopyLoop(_, _, _, _)
CopyLoop(m, s, t, n) ==
  IF n <= 0 THEN [m |-> m, s |-> s, n |-> n - 1]
  ELSE IF m[t] = NUL THEN [m |-> Put(m, s, NUL), s |-> s + 1, n |-> n - 1]
  ELSE CopyLoop(Put(m, s, m[t]), s + 1, t + 1, n - 1)

strncpy(m, s, t, n) ==
  LET l == CopyLoop(m, s, t, n)
  IN  [a \in DOMAIN m |-> IF a \in l.s .. (l.s + l.n - 1) THEN NUL ELSE l.m[a]]

safestrcpy(m, s, t, n) ==
  IF n <= 0 THEN m
  ELSE LET l == CopyLoop(m, s, t, n - 1) IN Put(l.m, l.s, NUL)

RECURSIVE strncmp(_, _, _, _)
strncmp(m, p, q, n) ==
  IF n = 0 THEN 0
  ELSE IF m[p] # NUL /\ m[p] = m[q] THEN strncmp(m, p + 1, q + 1, n - 1)
  ELSE m[p] - m[q]

RECURSIVE strcmp(_, _, _)
strcmp(m, p, q) ==
  IF m[p] # NUL /\ m[p] = m[q] THEN strcmp(m, p + 1, q + 1) ELSE m[p] - m[q]

Strncpy ==
  /\ Calling("strncpy")
  /\ mem' = strncpy(mem, call.dst, call.src, call.n)
  /\ res' = <<call.dst>>
  /\ UNCHANGED call

Safestrcpy ==
  /\ Calling("safestrcpy")
  /\ mem' = safestrcpy(mem, call.dst, call.src, call.n)
  /\ res' = <<call.dst>>
  /\ UNCHANGED call

Strncmp ==
  /\ Calling("strncmp")
  /\ res' = <<strncmp(mem, call.dst, call.src, call.n)>>
  /\ UNCHANGED <<call, mem>>

Strcmp ==
  /\ Calling("strcmp")
  /\ res' = <<strcmp(mem, call.dst, call.src)>>
  /\ UNCHANGED <<call, mem>>

\* gets() reads byte by byte from call.input into the buffer at call.dst.
RECURSIVE getsLoop(_, _, _, _)
getsLoop(m, i, max, input) ==
  IF ~(i + 1 < max) \/ input = <<>> THEN [m |-> m, i |-> i, left |-> input]
  ELSE LET m1 == Put(m, call.dst + i, Head(input))
       IN  IF Head(input) = NEWLINE THEN [m |-> m1, i |-> i + 1, left |-> Tail(input)]
           ELSE getsLoop(m1, i + 1, max, Tail(input))

Gets ==
  /\ Calling("gets")
  /\ LET l == getsLoop(mem, 0, call.n, call.input)
     IN  /\ mem' = Put(l.m, call.dst + l.i, NUL)
         /\ res' = <<l.left>>
  /\ UNCHANGED call

---------------------------------------------------------------------------
(* Path names.  namex() calls skipelem() again and again with one buffer   *)
(* "name" of DIRSIZ bytes, which has no NUL when the element fills it.     *)

AfterSlashes(m, p) == Min({q \in DOMAIN m : q >= p /\ m[q] # SLASH})

ElementEnd(m, p) == Min({q \in DOMAIN m : q >= p /\ m[q] \in {SLASH, NUL}})

Mut_skipelem(m, path, name) ==
  LET s == AfterSlashes(m, path)
      e == ElementEnd(m, s)
  IN  IF m[s] = NUL THEN [m |-> m, path |-> 0]
      ELSE [m |-> memmove(m, name, s, Min({e - s, DIRSIZ})), path |-> AfterSlashes(m, e)]

\* The memory with the element in name, and where the path continues (0: no element).
skipelem(m, path, name) ==
  LET s == AfterSlashes(m, path)
      e == ElementEnd(m, s)
      len == e - s
  IN  IF m[s] = NUL THEN [m |-> m, path |-> 0]
      ELSE [m |-> IF len >= DIRSIZ THEN memmove(m, name, s, DIRSIZ)
                  ELSE Put(memmove(m, name, s, len), name + len, NUL),
            path |-> AfterSlashes(m, e)]

\* dirlookup()'s comparison of a name with a directory entry's.
namecmp(m, s, t) == strncmp(m, s, t, DIRSIZ)

\* Create the path's first element in a directory (dirlink() copies the name
\* into the entry de), then look its second element up there.
CreateThenLookup ==
  /\ Calling("lookup")
  /\ LET first == skipelem(mem, call.src, call.dst)
         linked == strncpy(first.m, call.de, call.dst, DIRSIZ)
         second == skipelem(linked, first.path, call.dst)
     IN  IF first.path = 0 \/ second.path = 0
         THEN mem' = mem /\ res' = <<"short">>
         ELSE /\ mem' = second.m
              /\ res' = <<namecmp(second.m, call.dst, call.de) = 0>>
  /\ UNCHANGED call

---------------------------------------------------------------------------
(* Copies from user memory.  call.user is the user's memory by virtual     *)
(* address, call.mapped the pages that walkaddr() finds.                   *)

PageOf(va) == va \div PGSIZE

\* copyin() from srcva, len bytes still to go: <<ok, bytes copied>>.
RECURSIVE copyin(_, _)
copyin(srcva, len) ==
  IF len = 0 THEN <<TRUE, <<>>>>
  ELSE IF PageOf(srcva) \notin call.mapped THEN <<FALSE, <<>>>>
  ELSE LET n == Min({PGSIZE - (srcva % PGSIZE), len})
           rest == copyin((PageOf(srcva) + 1) * PGSIZE, len - n)
       IN  <<rest[1], [i \in 1..n |-> call.user[srcva + i - 1]] \o rest[2]>>

\* The bytes of one page that copyinstr() looks at, up to the first NUL.
UpToNul(s) ==
  IF \E i \in DOMAIN s : s[i] = NUL THEN SubSeq(s, 1, Min({i \in DOMAIN s : s[i] = NUL})) ELSE s

\* How many bytes of the page of srcva copyinstr() looks at.
PageBytes(srcva, max) == Min({PGSIZE - (srcva % PGSIZE), max})

RECURSIVE copyinstr(_, _)
copyinstr(srcva, max) ==
  IF max <= 0 THEN <<FALSE, <<>>>>
  ELSE IF PageOf(srcva) \notin call.mapped THEN <<FALSE, <<>>>>
  ELSE LET n == PageBytes(srcva, max)
           got == UpToNul([i \in 1..n |-> call.user[srcva + i - 1]])
           rest == copyinstr((PageOf(srcva) + 1) * PGSIZE, max - n)
       IN  IF Last(got) = NUL THEN <<TRUE, got>> ELSE <<rest[1], got \o rest[2]>>

Copyin ==
  /\ Calling("copyin")
  /\ res' = copyin(call.src, call.n)
  /\ UNCHANGED <<call, mem>>

Copyinstr ==
  /\ Calling("copyinstr")
  /\ res' = copyinstr(call.src, call.n)
  /\ UNCHANGED <<call, mem>>

Next ==
  \/ Memmove \/ UlibMemmove
  \/ Strncpy \/ Safestrcpy \/ Strncmp \/ Strcmp \/ Gets
  \/ CreateThenLookup
  \/ Copyin \/ Copyinstr

Spec == Init /\ [][Next]_vars

---------------------------------------------------------------------------
(* The properties: each compares a result with what the routine is for,    *)
(* stated on the memory before the call.                                   *)

Returned(fns) == call.fn \in fns /\ res # Pending

\* The string at address p of memory m, without its NUL.
StringAt(m, p) == LET e == Min({q \in DOMAIN m : q >= p /\ m[q] = NUL})
                  IN  [i \in 1..(e - p) |-> m[p + i - 1]]

\* The elements of a path, empty ones included.
Split(s) ==
  FoldLeft(LAMBDA acc, c : IF c = SLASH THEN Append(acc, <<>>)
                           ELSE [acc EXCEPT ![Len(acc)] = Append(@, c)],
           << <<>> >>, s)

Prefix(s, n) == SubSeq(s, 1, Min({n, Len(s)}))

\* Both versions of memmove() leave at dst the n bytes that src held before the
\* call, whichever way the two ranges overlap, and change nothing else.
MovesBytes ==
  Returned({"memmove", "ulib_memmove"}) =>
    \A a \in DOMAIN mem :
      mem[a] = IF a \in call.dst .. (call.dst + call.n - 1)
               THEN call.mem[a - call.dst + call.src] ELSE call.mem[a]

\* strncpy() fills exactly the n bytes of its destination, with the string and
\* NULs after it; safestrcpy() leaves a terminated string, cut to n - 1 bytes;
\* gets() leaves the input up to its newline, cut to n - 1 bytes, and the rest
\* unread.  None of them writes outside the n bytes it was given.
BufferHoldsString ==
  Returned({"strncpy", "safestrcpy", "gets"}) =>
    LET t == IF call.fn # "gets" THEN StringAt(call.mem, call.src)
             ELSE IF NEWLINE \in ToSet(call.input)
                  THEN SubSeq(call.input, 1, Min({i \in DOMAIN call.input : call.input[i] = NEWLINE}))
                  ELSE call.input
        inside == call.dst .. (call.dst + call.n - 1)
    IN  /\ \A a \in DOMAIN mem \ inside : mem[a] = call.mem[a]
        /\ call.fn = "strncpy" =>
             \A i \in 1..call.n : mem[call.dst + i - 1] = IF i <= Len(t) THEN t[i] ELSE NUL
        /\ call.fn # "strncpy" /\ call.n > 0 =>
             StringAt(mem, call.dst) = Prefix(t, call.n - 1)
        /\ call.fn = "gets" => Prefix(t, call.n - 1) \o res[1] = call.input

\* A comparison answers 0 exactly when the two strings agree, as far as n bytes
\* for strncmp(), and otherwise has the sign of the first difference: bytes
\* after a NUL never count.
ComparesStrings ==
  Returned({"strncmp", "strcmp"}) =>
    LET cut(s) == IF call.fn = "strncmp" THEN Prefix(s, call.n) ELSE s
        p == cut(StringAt(mem, call.dst))
        q == cut(StringAt(mem, call.src))
        At(s, i) == IF i <= Len(s) THEN s[i] ELSE NUL
    IN  IF p = q THEN res[1] = 0
        ELSE LET k == Min({i \in 1..(Max({Len(p), Len(q)})) : At(p, i) # At(q, i)})
             IN  res[1] # 0 /\ (res[1] < 0 <=> At(p, k) < At(q, k))

\* A file is found under the name it was created with, and under no other: the
\* second element of a path matches the entry made from the first exactly when
\* their first DIRSIZ bytes agree, though neither name buffer nor entry need
\* hold a NUL and both hold bytes of earlier names (namex(), dirlink(),
\* dirlookup()).
LookupFindsCreated ==
  Returned({"lookup"}) =>
    LET elements == SelectSeq(Split(StringAt(call.mem, call.src)), LAMBDA e : e # <<>>)
    IN  IF Len(elements) < 2 THEN res[1] = "short"
        ELSE res[1] = (Prefix(elements[1], DIRSIZ) = Prefix(elements[2], DIRSIZ))

\* copyin() succeeds exactly when every page of the range is mapped, and
\* copyinstr() exactly when a NUL lies within n bytes and every page up to it is
\* mapped; both then deliver the user's bytes in order, across page boundaries.
CopiesUserBytes ==
  Returned({"copyin", "copyinstr"}) =>
    LET byte(i) == call.user[call.src + i - 1]
        there(k) == \A i \in 1..k : PageOf(call.src + i - 1) \in call.mapped
        ends == {k \in 1..call.n : there(k) /\ byte(k) = NUL}
        lens == IF call.fn = "copyinstr" THEN ends ELSE {k \in {call.n} : there(k)}
    IN  IF lens = {} THEN ~res[1] ELSE res = <<TRUE, [i \in 1..Min(lens) |-> byte(i)]>>

(* Every routine returns, and leaves in memory, what its reference         *)
(* definition says.                                                        *)
RoutinesCorrect ==
  /\ MovesBytes
  /\ BufferHoldsString
  /\ ComparesStrings
  /\ LookupFindsCreated
  /\ CopiesUserBytes
=============================================================================
