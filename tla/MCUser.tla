---------------------------- MODULE MCUser ------------------------------------
(***************************************************************************)
(* What user programs rely on: a pipe that several readers and writers share, *)
(* descriptors, malloc(), and the routines and programs that handle lines, *)
(* names and strings.  A behaviour is a behaviour of one of these parts,   *)
(* "part", chosen initially; the variables of the others keep a fixed      *)
(* initial value.                                                          *)
(***************************************************************************)
EXTENDS Pipe, SequencesExt

VARIABLE part

VARIABLES fd_file, fd_pipe, fd_ofile, fd_code, fd_var, fd_panicked, fd_calls
F == INSTANCE FileTable WITH Procs <- {"init", "child"}, Initproc <- "init",
  NFILE <- 3, NOFILE <- 3, NPipes <- 1, MaxCalls <- 5, file <- fd_file,
  pipe <- fd_pipe, ofile <- fd_ofile, code <- fd_code, var <- fd_var,
  panicked <- fd_panicked, calls <- fd_calls
FVars == <<fd_file, fd_pipe, fd_ofile, fd_code, fd_var, fd_panicked, fd_calls>>

VARIABLES malloc_ptr, malloc_size, malloc_freep, malloc_brk, malloc_held, malloc_holes
U == INSTANCE Umalloc WITH NALLOC <- 4, Sizes <- {2, 3, 5}, MaxBrk <- 14, MaxHeld <- 4,
  ptr <- malloc_ptr, size <- malloc_size, freep <- malloc_freep, brk <- malloc_brk,
  held <- malloc_held, holes <- malloc_holes
UVars == <<malloc_ptr, malloc_size, malloc_freep, malloc_brk, malloc_held, malloc_holes>>

VARIABLES parse_line, parse_read, parse_parsed
P == INSTANCE ShellParse WITH MAXARGS <- 3, MaxLen <- 5, line <- parse_line,
  read <- parse_read, parsed <- parse_parsed
PVars == <<parse_line, parse_read, parse_parsed>>

VARIABLES grep_re, grep_input, grep_rest, grep_buf, grep_out, grep_done
G == INSTANCE Grep WITH BufSize <- 4,
  Patterns <- BoundedSeq({"a", ".", "*", "^", "$"}, 3),
  Inputs <- BoundedSeq({"a", "b", "n"}, 4), re <- grep_re, input <- grep_input,
  rest <- grep_rest, buf <- grep_buf, out <- grep_out, done <- grep_done
GVars == <<grep_re, grep_input, grep_rest, grep_buf, grep_out, grep_done>>

\* The calls of the byte routines: overlapping moves; copies of strings shorter and
\* longer than the buffer; comparisons, with other bytes after the NULs; lines of
\* input; paths, with old bytes in the name and in the directory entry; and user
\* memory of three pages, some of them unmapped.
Words == BoundedSeq({1, 2}, 3)
MoveCalls ==
  {c \in {[fn |-> f, mem |-> <<1, 2, 3, 4, 5, 6>>, dst |-> d, src |-> s, n |-> k] :
            f \in {"memmove", "ulib_memmove"}, d \in 1..6, s \in 1..6, k \in 0..5} :
     c.dst + c.n <= 7 /\ c.src + c.n <= 7}
CopyCalls ==
  {[fn |-> f, mem |-> <<7, 7, 7, 7, 7>> \o Append(t, 0), dst |-> 1, src |-> 6, n |-> k] :
     f \in {"strncpy", "safestrcpy"}, t \in Words, k \in 0..4}
CompareCalls ==
  {[fn |-> f, mem |-> p \o <<0, 2>> \o q \o <<0, 1, 0>>, dst |-> 1, src |-> Len(p) + 3, n |-> k] :
     f \in {"strncmp", "strcmp"}, p \in Words, q \in Words, k \in 0..4}
GetsCalls ==
  {[fn |-> "gets", mem |-> <<7, 7, 7, 7, 7>>, dst |-> 1, n |-> k, input |-> t] :
     k \in 1..4, t \in BoundedSeq({1, 4}, 4)}
LookupCalls ==
  {[fn |-> "lookup", mem |-> <<2, 2, 2, 2>> \o Append(p, 0), dst |-> 1, de |-> 3, src |-> 5] :
     p \in BoundedSeq({1, 2, 3}, 6)}
UserCalls ==
  {[fn |-> f, mem |-> <<>>, user |-> u, mapped |-> m, src |-> s, n |-> k] :
     f \in {"copyin", "copyinstr"}, u \in [0..5 -> {0, 1}], m \in SUBSET (0..2), s \in 0..2, k \in 0..5}
ByteCalls == MoveCalls \union CopyCalls \union CompareCalls \union GetsCalls \union LookupCalls \union UserCalls

VARIABLES str_call, str_mem, str_res
S == INSTANCE Strings WITH DIRSIZ <- 2, PGSIZE <- 2, Calls <- ByteCalls,
  call <- str_call, mem <- str_mem, res <- str_res
SVars == <<str_call, str_mem, str_res>>

---------------------------------------------------------------------------
allVars == <<part, vars, FVars, UVars, PVars, GVars, SVars>>

PartInit ==
  /\ part \in {"pipe", "fd", "malloc", "parse", "grep", "str"}
  /\ Init
  /\ F!Init
  /\ U!Init
  /\ P!Init
  /\ IF part = "grep" THEN G!Init ELSE (grep_re = 0 /\ grep_input = 0 /\ grep_rest = 0 /\ grep_buf = 0 /\ grep_out = 0 /\ grep_done = 0)
  /\ IF part = "str" THEN S!Init ELSE (str_call = 0 /\ str_mem = 0 /\ str_res = 0)

\* A step of part p leaves the variables of the other parts alone.
In(p) ==
  /\ part = p /\ UNCHANGED part
  /\ p # "pipe" => UNCHANGED vars
  /\ p # "fd" => UNCHANGED FVars
  /\ p # "malloc" => UNCHANGED UVars
  /\ p # "parse" => UNCHANGED PVars
  /\ p # "grep" => UNCHANGED GVars
  /\ p # "str" => UNCHANGED SVars

\* malloc() stops when nothing fits, the parser and the routines when they return.
Stopped == part \in {"malloc", "parse", "str"} /\ UNCHANGED allVars

PartNext ==
  \/ In("pipe") /\ Next
  \/ In("fd") /\ F!Next
  \/ In("malloc") /\ U!Next
  \/ In("parse") /\ P!Next
  \/ In("grep") /\ G!Next
  \/ In("str") /\ S!Next
  \/ Stopped

PartSpec == PartInit /\ [][PartNext]_allVars

---------------------------------------------------------------------------
(* The properties of the parts, stated and explained in their modules. *)

\* filealloc() to fileclose(): exact counts, pipes closed with their last file, no panic.
FilesCounted == part = "fd" => F!FilesCounted

\* malloc() and free() lose and share no unit and keep the list in order and joined.
FreeListSound == part = "malloc" => U!FreeListSound

\* parsecmd() accepts the lines of the grammar and leaves their words intact.
ParsesLines == part = "parse" => P!ParsesLines

\* grep() prints the lines that match, however its reads divide them.
PrintsMatchingLines == part = "grep" => G!PrintsMatchingLines

\* memmove(), strncpy(), gets(), skipelem(), copyin() ... do what they promise.
RoutinesCorrect == part = "str" => S!RoutinesCorrect

Symmetry == Permutations(Readers) \union Permutations(Writers)
===============================================================================
