----------------------------- MODULE FileTable -----------------------------
(***************************************************************************)
(* Open files: the file table and its reference counts (kernel/file.c), the *)
(* descriptors of a process, dup(), close(), pipe(), open() (sysfile.c),    *)
(* pipealloc() and the end of pipeclose() (pipe.c), and what fork() and     *)
(* exit() do to the descriptors (proc.c).                                   *)
(*                                                                          *)
(* The table is shared and locked for one operation at a time; a system     *)
(* call makes several, and others come in between.  code[p] has the         *)
(* operations the call of process p has still to make: each is an action.   *)
(* var[p] are the call's two file pointers (rf and wf, or f); 0 is NULL.    *)
(***************************************************************************)
EXTENDS Integers, Sequences, FiniteSets, SequencesExt

CONSTANTS Procs, Initproc, NFILE, NOFILE, NPipes, MaxCalls

VARIABLES
  file,           \* ftable: ref, type, pipe, writable
  pipe,           \* pages of pipes: used, readopen, writeopen
  ofile,          \* p->ofile, or NotRunning
  code, var,
  panicked, calls
vars == <<file, pipe, ofile, code, var, panicked, calls>>

Files == 1 .. NFILE
Fds == 1 .. NOFILE
NotRunning == <<>>
Empty == [d \in Fds |-> 0]
Running(p) == ofile[p] # NotRunning
NoFile == [ref |-> 0, type |-> "NONE", pipe |-> 0, writable |-> FALSE]

Init ==
  /\ file = [f \in Files |-> NoFile]
  /\ pipe = [k \in 1 .. NPipes |-> [used |-> FALSE, readopen |-> FALSE, writeopen |-> FALSE]]
  /\ ofile = [p \in Procs |-> IF p = Initproc THEN Empty ELSE NotRunning]
  /\ code = [p \in Procs |-> <<>>] /\ var = [p \in Procs |-> <<0, 0>>]
  /\ panicked = FALSE /\ calls = 0

Least(set) == CHOOSE x \in set : \A y \in set : x <= y
Spare(p) == {d \in Fds : ofile[p][d] = 0}
Idle(p) == Running(p) /\ code[p] = <<>>
Begins(p) == Idle(p) /\ calls < MaxCalls /\ calls' = calls + 1
At(p, op) == code[p] # <<>> /\ code[p][1][1] = op
Arg(p) == code[p][1][2]
Then(p, rest) == code' = [code EXCEPT ![p] = rest]
Continues(p) == Then(p, Tail(code[p])) /\ UNCHANGED calls
-----------------------------------------------------------------------------
(* filealloc() into the variable i; NULL if the table is full.             *)
(* open() and pipe() free what they have when it fails.                    *)
FileAlloc(p) ==
  LET unused == {f \in Files : file[f].ref = 0}
  IN /\ At(p, "alloc")
     /\ IF unused # {}
        THEN /\ file' = [file EXCEPT ![Least(unused)].ref = 1]
             /\ var' = [var EXCEPT ![p][Arg(p)] = Least(unused)]
             /\ Continues(p)
        ELSE /\ Then(p, IF Arg(p) = 2 THEN << <<"close", 1>> >> ELSE <<>>)
             /\ UNCHANGED <<file, var, calls>>
     /\ UNCHANGED <<pipe, ofile, panicked>>

(* filedup() of the file that child descriptor Arg shares.                 *)
Duped(f) == [file EXCEPT ![f].ref = @ + 1]

(* fileclose() of variable i.  The last close copies the file, frees the   *)
(* entry and unlocks the table before it closes the pipe or the inode.     *)
Closed(f) == [file[f] EXCEPT !.ref = @ - 1, !.type = IF file[f].ref = 1 THEN "NONE" ELSE @]

FileClose(p) ==
  LET f == var[p][Arg(p)]
      last == file[f].ref = 1
  IN /\ At(p, "close")
     /\ panicked' = (panicked \/ file[f].ref < 1)
     /\ file' = [file EXCEPT ![f] = Closed(f)]
     /\ var' = [var EXCEPT ![p][Arg(p)] = 0]
     /\ Then(p, (IF last /\ file[f].type = "PIPE"
                 THEN << <<"pipeclose", <<file[f].pipe, file[f].writable>> >> >> ELSE <<>>)
                \o Tail(code[p]))
     /\ UNCHANGED <<pipe, ofile, calls>>

PipeClose(p) ==
  LET k == Arg(p)[1]
      left == [pipe[k] EXCEPT !.readopen = @ /\ Arg(p)[2], !.writeopen = @ /\ ~Arg(p)[2]]
  IN /\ At(p, "pipeclose")
     /\ pipe' = [pipe EXCEPT ![k] = [left EXCEPT !.used = left.readopen \/ left.writeopen]]
     /\ panicked' = (panicked \/ ~pipe[k].used)
     /\ Continues(p)
     /\ UNCHANGED <<file, ofile, var>>
-----------------------------------------------------------------------------
(* sys_dup(): argfd(), fdalloc(), filedup().                               *)
Dup(p) == \E d \in Fds :
  /\ Begins(p) /\ ofile[p][d] # 0 /\ Spare(p) # {}
  /\ ofile' = [ofile EXCEPT ![p][Least(Spare(p))] = ofile[p][d]]
  /\ file' = Duped(ofile[p][d])
  /\ panicked' = (panicked \/ file[ofile[p][d]].ref < 1)
  /\ UNCHANGED <<pipe, code, var>>

(* sys_close(): the descriptor goes first.                                 *)
Close(p) == \E d \in Fds :
  /\ Begins(p) /\ ofile[p][d] # 0
  /\ ofile' = [ofile EXCEPT ![p][d] = 0]
  /\ var' = [var EXCEPT ![p][1] = ofile[p][d]]
  /\ Then(p, << <<"close", 1>> >>)
  /\ UNCHANGED <<file, pipe, panicked>>

(* sys_open(), once the inode is found: filealloc(), fdalloc(), the type.  *)
Open(p) ==
  /\ Begins(p)
  /\ Then(p, << <<"alloc", 1>>, <<"openfd", 0>> >>)
  /\ UNCHANGED <<file, pipe, ofile, var, panicked>>
OpenFd(p) ==
  /\ At(p, "openfd")
  /\ IF Spare(p) # {}
     THEN /\ ofile' = [ofile EXCEPT ![p][Least(Spare(p))] = var[p][1]]
          /\ file' = [file EXCEPT ![var[p][1]].type = "INODE"]
          /\ var' = [var EXCEPT ![p][1] = 0] /\ Continues(p)
     ELSE Then(p, << <<"close", 1>> >>) /\ UNCHANGED <<ofile, file, var, calls>>
  /\ UNCHANGED <<pipe, panicked>>

(* sys_pipe(): pipealloc(), two descriptors, copyout().                    *)
Pipe(p) ==
  /\ Begins(p)
  /\ Then(p, << <<"alloc", 1>>, <<"alloc", 2>>, <<"page", 0>>, <<"fds", 0>>, <<"copyout", 0>> >>)
  /\ UNCHANGED <<file, pipe, ofile, var, panicked>>

Fail(p) == Then(p, << <<"close", 1>>, <<"close", 2>> >>) /\ UNCHANGED calls

PipePage(p) ==
  LET unused == {k \in 1 .. NPipes : ~pipe[k].used}
      k == Least(unused)
      end(w) == [ref |-> 1, type |-> "PIPE", pipe |-> k, writable |-> w]
  IN /\ At(p, "page")
     /\ IF unused # {}
        THEN /\ pipe' = [pipe EXCEPT ![k] = [used |-> TRUE, readopen |-> TRUE, writeopen |-> TRUE]]
             /\ file' = [file EXCEPT ![var[p][1]] = end(FALSE), ![var[p][2]] = end(TRUE)]
             /\ Continues(p)
        ELSE Fail(p) /\ UNCHANGED <<pipe, file>>
     /\ UNCHANGED <<ofile, var, panicked>>

PipeFds(p) ==
  LET d0 == Least(Spare(p))
      d1 == Least(Spare(p) \ {d0})
  IN /\ At(p, "fds")
     /\ IF Cardinality(Spare(p)) >= 2
        THEN /\ ofile' = [ofile EXCEPT ![p][d0] = var[p][1], ![p][d1] = var[p][2]]
             /\ Continues(p)
        ELSE Fail(p) /\ UNCHANGED ofile
     /\ UNCHANGED <<file, pipe, var, panicked>>

Mut_PipeCopyout(p) ==
  /\ At(p, "copyout")
  /\ \/ var' = [var EXCEPT ![p] = <<0, 0>>] /\ Continues(p) /\ UNCHANGED ofile
     \/ Fail(p) /\ UNCHANGED <<ofile, var>>
  /\ UNCHANGED <<file, pipe, panicked>>
PipeCopyout(p) ==
  /\ At(p, "copyout")
  /\ \/ var' = [var EXCEPT ![p] = <<0, 0>>] /\ Continues(p) /\ UNCHANGED ofile
     \/ /\ ofile' = [ofile EXCEPT ![p] = [d \in Fds |-> IF @[d] \in Range(var[p]) THEN 0 ELSE @[d]]]
        /\ Fail(p) /\ UNCHANGED var
  /\ UNCHANGED <<file, pipe, panicked>>

(* fork(): the child gets a reference to each file in turn.                *)
Fork(p, q) ==
  /\ Begins(p) /\ ~Running(q)
  /\ \A x \in Procs : /\ At(x, "dup") => Arg(x)[1] # q
                      /\ At(x, "runnable") => Arg(x) # q
  /\ Then(p, [d \in Fds |-> <<"dup", <<q, d>> >>] \o << <<"runnable", q>> >>)
  /\ UNCHANGED <<file, pipe, ofile, var, panicked>>
ForkDup(p) ==
  LET f == ofile[p][Arg(p)[2]]
  IN /\ At(p, "dup")
     /\ file' = IF f # 0 THEN Duped(f) ELSE file
     /\ panicked' = (panicked \/ (f # 0 /\ file[f].ref < 1))
     /\ Continues(p)
     /\ UNCHANGED <<pipe, ofile, var>>
ForkDone(p) ==
  /\ At(p, "runnable")
  /\ ofile' = [ofile EXCEPT ![Arg(p)] = ofile[p]]
  /\ Continues(p)
  /\ UNCHANGED <<file, pipe, var, panicked>>

(* exit() closes the descriptors one after the other.  (It clears the      *)
(* pointer, which only p itself reads, after the close; here, before it.)  *)
Exit(p) ==
  /\ Begins(p) /\ p # Initproc
  /\ Then(p, [d \in Fds |-> <<"exitclose", d>>] \o << <<"gone", 0>> >>)
  /\ UNCHANGED <<file, pipe, ofile, var, panicked>>
ExitClose(p) ==
  LET f == ofile[p][Arg(p)]
  IN /\ At(p, "exitclose")
     /\ IF f # 0
        THEN /\ var' = [var EXCEPT ![p][1] = f] /\ ofile' = [ofile EXCEPT ![p][Arg(p)] = 0]
             /\ Then(p, << <<"close", 1>> >> \o Tail(code[p]))
        ELSE Then(p, Tail(code[p])) /\ UNCHANGED <<var, ofile>>
     /\ UNCHANGED <<file, pipe, panicked, calls>>
Gone(p) ==
  /\ At(p, "gone")
  /\ ofile' = [ofile EXCEPT ![p] = NotRunning]
  /\ Continues(p)
  /\ UNCHANGED <<file, pipe, var, panicked>>

Done == calls = MaxCalls /\ (\A p \in Procs : code[p] = <<>>) /\ UNCHANGED vars

Next == Done \/ \E p \in Procs :
  \/ FileAlloc(p) \/ FileClose(p) \/ PipeClose(p) \/ Dup(p) \/ Close(p)
  \/ Open(p) \/ OpenFd(p) \/ Pipe(p) \/ PipePage(p) \/ PipeFds(p) \/ PipeCopyout(p)
  \/ ForkDup(p) \/ ForkDone(p) \/ Exit(p) \/ ExitClose(p) \/ Gone(p)
  \/ \E q \in Procs : Fork(p, q)

Spec == Init /\ [][Next]_vars
-----------------------------------------------------------------------------
(* References to a file: descriptors, those a fork() under way has taken   *)
(* for the child, and the variables of calls that hold one of their own.   *)
Descriptors(f) == {x \in Procs \X Fds : Running(x[1]) /\ ofile[x[1]][x[2]] = f}
ForkTaken(f) == {x \in Procs \X Fds :
  /\ At(x[1], "dup") \/ At(x[1], "runnable")
  /\ ofile[x[1]][x[2]] = f
  /\ At(x[1], "dup") => x[2] < Arg(x[1])[2]}
Variables(f) == {x \in Procs \X {1, 2} :
  var[x[1]][x[2]] = f /\ (~At(x[1], "copyout"))}

(* f->ref counts the references exactly, at every point of every call: an  *)
(* entry is neither reused while somebody refers to it nor lost when a     *)
(* pipe(), open() or fork() gives up half way.                             *)
RefCountsExact ==
  \A f \in Files : file[f].ref = Cardinality(Descriptors(f)) + Cardinality(ForkTaken(f))
                                 + Cardinality(Variables(f))

(* An end of a pipe is open exactly as long as a file stands for it, or    *)
(* the last close of that file is under way; the page is freed with the    *)
(* second end.  So no pipe is leaked and none is closed twice.             *)
PipeEndsMatchFiles ==
  \A k \in 1 .. NPipes :
    LET stands(w) ==
          \/ \E f \in Files : file[f].ref > 0 /\ file[f].type = "PIPE"
                              /\ file[f].pipe = k /\ file[f].writable = w
          \/ \E p \in Procs : At(p, "pipeclose") /\ Arg(p) = <<k, w>>
    IN /\ pipe[k].readopen = stands(FALSE)
       /\ pipe[k].writeopen = stands(TRUE)
       /\ pipe[k].used = (stands(FALSE) \/ stands(TRUE))

(* The assertions of filedup() and fileclose() hold, and pipeclose() is    *)
(* never given a page that was freed.                                      *)
FilesNeverPanic == ~panicked

(* The file table as a whole: exact counts, pipes closed with their last   *)
(* file, no panic, whichever call gave up half way.                        *)
FilesCounted == RefCountsExact /\ PipeEndsMatchFiles /\ FilesNeverPanic
=============================================================================
