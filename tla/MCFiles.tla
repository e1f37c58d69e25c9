---------------------------- MODULE MCFiles -----------------------------------
(***************************************************************************)
(* What system calls allocate and free: inodes and directory entries,      *)
(* space in the log, pages of processes, blocks of the buddy allocator.  A *)
(* behaviour is a behaviour of one of these parts, "part", chosen          *)
(* initially; the variables of the others keep a fixed initial value.      *)
(***************************************************************************)
EXTENDS Buddy, TLC

CONSTANTS
  Actors, Others,   \* two processes; two more processes, or blocks
  First,            \* the process that exists at the start, a third process, a third block
  NotCached, Nobody

VARIABLE part

\* The disk that mkfs made: "/" with the file "a" and the directory "b".
Names == {".", "..", "a", "b"}
NoEntries == [x \in Names |-> 0]
Image == <<
  [type |-> "dir", nlink |-> 2,
   ents |-> [x \in Names |-> CASE x = "a" -> 2 [] x = "b" -> 3 [] OTHER -> 1]],
  [type |-> "file", nlink |-> 1, ents |-> NoEntries],
  [type |-> "dir", nlink |-> 1,
   ents |-> [x \in Names |-> CASE x = "." -> 3 [] x = ".." -> 1 [] OTHER -> 0]],
  [type |-> "none", nlink |-> 0, ents |-> NoEntries]>>

\* The system calls, which compete for the same names: Sys(call, absolute?, path).
Sys(s, a, p) == [sys |-> s, abs |-> a, path |-> p, new |-> <<>>]
SysCalls == {
  [Sys("link", TRUE, <<"a">>) EXCEPT !.new = <<"b", "a">>],
  [Sys("link", TRUE, <<"b">>) EXCEPT !.new = <<"a">>],
  Sys("unlink", TRUE, <<"a">>), Sys("unlink", TRUE, <<"b">>), Sys("unlink", TRUE, <<"b", "a">>),
  Sys("mkdir", TRUE, <<"b", "b">>),
  Sys("create", TRUE, <<"b", "a">>), Sys("mknod", FALSE, <<"b">>), Sys("open", TRUE, <<"a">>), Sys("chdir", TRUE, <<"b">>)}

VARIABLES inode_disk, inode_durable, inode_ref, inode_valid, inode_ic, inode_lock,
  inode_cwd, inode_file, inode_outstanding, inode_run, inode_calls, inode_crashes
I == INSTANCE Inode WITH Procs <- Actors, NInodes <- 4, NINODE <- 4, Calls <- SysCalls,
  MaxCalls <- 3, MaxCrashes <- 1, disk <- inode_disk, durable <- inode_durable,
  ref <- inode_ref, valid <- inode_valid, ic <- inode_ic, lock <- inode_lock,
  cwd <- inode_cwd, file <- inode_file, outstanding <- inode_outstanding,
  run <- inode_run, calls <- inode_calls, crashes <- inode_crashes
IVars == <<inode_disk, inode_durable, inode_ref, inode_valid, inode_ic, inode_lock,
  inode_cwd, inode_file, inode_outstanding, inode_run, inode_calls, inode_crashes>>

VARIABLES log_home, log_dlog, log_dhead, log_cache, log_pins, log_lh, log_outstanding,
  log_committing, log_pc, log_wrote, log_tail, log_mode
L == INSTANCE Log WITH Procs <- Actors \union {First}, Blocks <- Others \union {First},
  Vals <- {0}, MAXOPBLOCKS <- 2, LOGSIZE <- 4, NLOG <- 4, OpBlocks <- 1,
  home <- log_home, dlog <- log_dlog, dhead <- log_dhead, cache <- log_cache,
  pins <- log_pins, lh <- log_lh, outstanding <- log_outstanding,
  committing <- log_committing, pc <- log_pc, wrote <- log_wrote, tail <- log_tail,
  mode <- log_mode
LVars == <<log_home, log_dlog, log_dhead, log_cache, log_pins, log_lh, log_outstanding,
  log_committing, log_pc, log_wrote, log_tail, log_mode>>

\* A program with a read-only segment and a writable one whose end is not in the file.
Programs == {<<[vaddr |-> 0, memsz |-> 3, filesz |-> 3, w |-> FALSE],
               [vaddr |-> 4, memsz |-> 2, filesz |-> 1, w |-> TRUE]>>}

VARIABLES vm_m, vm_pt, vm_sz, vm_tf, vm_view, vm_managed, vm_ops
V == INSTANCE VM WITH Procs <- Others \union {First}, Initproc <- First, PGSIZE <- 2,
  NPages <- 27, USERSTACK <- 1, Grow <- {-3, -1, 1, 2, 4}, MaxOps <- 3, m <- vm_m,
  pt <- vm_pt, sz <- vm_sz, tf <- vm_tf, view <- vm_view, managed <- vm_managed,
  ops <- vm_ops
VVars == <<vm_m, vm_pt, vm_sz, vm_tf, vm_view, vm_managed, vm_ops>>

---------------------------------------------------------------------------
allVars == <<part, vars, IVars, LVars, VVars>>

PartInit ==
  /\ part \in {"buddy", "inode", "log", "vm"}
  /\ Init
  /\ I!Init
  /\ L!Init
  /\ IF part = "vm" THEN V!Init ELSE (vm_m = 0 /\ vm_pt = 0 /\ vm_sz = 0 /\ vm_tf = 0 /\ vm_view = 0 /\ vm_managed = 0 /\ vm_ops = 0)

\* A step of part p leaves the variables of the other parts alone.
In(p) ==
  /\ part = p /\ UNCHANGED part
  /\ p # "buddy" => UNCHANGED vars
  /\ p # "inode" => UNCHANGED IVars
  /\ p # "log" => UNCHANGED LVars
  /\ p # "vm" => UNCHANGED VVars

\* The buddy allocator stops when it is full and nothing else fits.
Stopped == part \in {"buddy"} /\ UNCHANGED allVars

PartNext ==
  \/ In("buddy") /\ Next
  \/ In("inode") /\ I!Next
  \/ In("log") /\ L!Next
  \/ In("vm") /\ V!Next
  \/ Stopped

PartSpec == PartInit /\ [][PartNext]_allVars

---------------------------------------------------------------------------
(* The properties of the parts, stated and explained in their modules. *)

\* iget(), iput(), ilock() and iupdate(): exact counts, no stale copy, no panic.
InodesSafe == part = "inode" => I!InodesSafe

\* link() and unlink(), half done or crashed, leave entries and link counts in agreement.
LinksDurable == part = "inode" => I!LinksDurable

\* log_write() does not overflow when calls keep a block below their allowance.
NeverPanics == part = "log" => L!NeverPanics

\* kalloc() to exec(): pages conserved, images as p->sz says, memory a process's own.
MemorySafe == part = "vm" => V!MemorySafe

Symmetry == Permutations(Actors) \union Permutations(Others)
===============================================================================
