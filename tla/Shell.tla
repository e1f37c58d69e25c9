-------------------------------- MODULE Shell --------------------------------
(***************************************************************************)
(* The shell at work, user/sh.c: main() and runcmd() as processes that      *)
(* fork, open pipes, redirect, wait and execute programs, interleaved at    *)
(* every system call.                                                       *)
(*                                                                          *)
(* A process is the calls it has still to make (code), its descriptors      *)
(* (fd), and the two descriptors of the pipe() it made last (p).  A         *)
(* descriptor is None, Tty, a file, or an end of a pipe, [end, id].  What   *)
(* the programs do once exec()ed is given by Program.                       *)
(***************************************************************************)
EXTENDS Integers, Sequences, FiniteSets, SequencesExt

CONSTANTS
  Lines,          \* parsed commands that may be typed
  Program,        \* what each program does: a sequence of "read" and "write"
  NPROC,          \* process slots; slot 0 is the shell
  NPIPE, NOFILE, PIPESIZE, MaxLines

VARIABLES proc, pipe, lines, forkFailed
vars == <<proc, pipe, lines, forkFailed>>

Slots == 0 .. NPROC - 1
Pids == 1 .. NPROC - 1
Fds == 0 .. NOFILE - 1
None == [end |-> "none", id |-> 0]
Tty == [end |-> "tty", id |-> 0]
File == [end |-> "file", id |-> 0]
Unused == [state |-> "unused", code |-> <<>>, fd |-> [f \in Fds |-> None],
           p |-> <<0, 0>>, parent |-> 0, back |-> FALSE]

Alive == {s \in Slots : proc[s].state = "alive"}
EndOpen(e, k) == \E s \in Alive, f \in Fds : proc[s].fd[f] = [end |-> e, id |-> k]
Spare(fd) == {f \in Fds : fd[f] = None}
Lowest(set) == CHOOSE f \in set : \A g \in set : f <= g
Fdalloc(fd, o) == [fd EXCEPT ![Lowest(Spare(fd))] = o]
-----------------------------------------------------------------------------
(* p[0] and p[1] as the operand of a call.                                 *)
P0 == -1
P1 == -2

(* What a child of the PIPE case does: fd becomes its end of the pipe.     *)
PipeChild(fd, mine, c) ==
  << <<"close", fd>>, <<"dup", mine>>, <<"close", P0>>, <<"close", P1>>, <<"run", c>> >>

(* What the parent does once it has forked both.                           *)
Mut_PipeParentOpen == << <<"wait">>, <<"wait">>, <<"exit">> >>
PipeParent == << <<"close", P0>>, <<"close", P1>>, <<"wait">>, <<"wait">>, <<"exit">> >>

(* The calls runcmd() makes for a command.                                 *)
runcmd(c) ==
  CASE c.type = "EXEC" -> << <<"exec", c.prog>> >>
    [] c.type = "REDIR" -> << <<"close", c.fd>>, <<"open">>, <<"run", c.cmd>> >>
    [] c.type = "LIST" -> << <<"fork", << <<"run", c.left>> >> >>, <<"wait">>, <<"run", c.right>> >>
    [] c.type = "PIPE" -> << <<"pipe">>, <<"fork", PipeChild(1, P1, c.left)>>,
                             <<"fork", PipeChild(0, P0, c.right)>> >> \o PipeParent
    [] c.type = "BACK" -> << <<"back", << <<"run", c.cmd>> >> >>, <<"exit">> >>
-----------------------------------------------------------------------------
(* init starts a shell with the console on its first three descriptors,    *)
(* and another one whenever the shell exits.                               *)
NewShell == [Unused EXCEPT !.state = "alive",
                           !.fd = [f \in Fds |-> IF f <= 2 THEN Tty ELSE None]]

Init ==
  /\ proc = [s \in Slots |-> IF s = 0 THEN NewShell ELSE Unused]
  /\ pipe = [k \in 1 .. NPIPE |-> 0]
  /\ lines = 0 /\ forkFailed = FALSE

(* getcmd() and the body of main()'s loop.                                 *)
Prompt == proc[0].code = <<>>
Getcmd == \E c \in Lines :
  /\ Prompt /\ lines < MaxLines
  /\ lines' = lines + 1
  /\ proc' = [proc EXCEPT ![0].code = << <<"fork", << <<"run", c>> >> >>, <<"wait">> >>]
  /\ UNCHANGED <<pipe, forkFailed>>

(* getcmd() finds the end of the input: the shell exits.                   *)
Eof ==
  /\ Prompt /\ lines < MaxLines
  /\ lines' = lines + 1
  /\ proc' = [proc EXCEPT ![0].code = << <<"exit">> >>]
  /\ UNCHANGED <<pipe, forkFailed>>

Op(s) == proc[s].code[1][1]
Arg(s) == proc[s].code[1][2]
At(s, op) == s \in Alive /\ proc[s].code # <<>> /\ Op(s) = op
Rest(s) == Tail(proc[s].code)
FdArg(s) == CASE Arg(s) = P0 -> proc[s].p[1] [] Arg(s) = P1 -> proc[s].p[2] [] OTHER -> Arg(s)
Same == UNCHANGED <<pipe, lines, forkFailed>>

Run(s) == At(s, "run") /\ proc' = [proc EXCEPT ![s].code = runcmd(Arg(s))] /\ Same

(* A pipe nobody holds an end of is free; its contents go with it.         *)
Close(s) ==
  /\ At(s, "close")
  /\ proc' = [proc EXCEPT ![s].fd[FdArg(s)] = None, ![s].code = Rest(s)]
  /\ Same
Dup(s) ==
  /\ At(s, "dup")
  /\ proc' = [proc EXCEPT ![s].fd = Fdalloc(@, @[FdArg(s)]), ![s].code = Rest(s)]
  /\ Same
Open(s) == \E ok \in BOOLEAN :
  /\ At(s, "open")
  /\ proc' = IF ok THEN [proc EXCEPT ![s].fd = Fdalloc(@, File), ![s].code = Rest(s)]
             ELSE [proc EXCEPT ![s].code = << <<"exit">> >>]
  /\ Same

(* pipe() fails for want of a pipe, of descriptors or of memory.           *)
Pipe(s) ==
  LET unused == {k \in 1 .. NPIPE : ~EndOpen("r", k) /\ ~EndOpen("w", k)}
      k == Lowest(unused)
      fd0 == Lowest(Spare(proc[s].fd))
      fd1 == Lowest(Spare(proc[s].fd) \ {fd0})
  IN /\ At(s, "pipe")
     /\ \/ proc' = [proc EXCEPT ![s].code = << <<"exit">> >>] /\ UNCHANGED pipe
        \/ /\ unused # {} /\ Cardinality(Spare(proc[s].fd)) >= 2
           /\ proc' = [proc EXCEPT ![s].fd[fd0] = [end |-> "r", id |-> k],
                                   ![s].fd[fd1] = [end |-> "w", id |-> k],
                                   ![s].p = <<fd0, fd1>>, ![s].code = Rest(s)]
           /\ pipe' = [pipe EXCEPT ![k] = 0]
     /\ UNCHANGED <<lines, forkFailed>>

(* fork1(): the child goes on with the code that follows the fork in it.   *)
(* Without a free slot, or for want of memory (once), the caller prints    *)
(* and exits, and does not wait.                                           *)
Fork(s) ==
  LET unused == {q \in Pids : proc[q].state = "unused"}
      q == Lowest(unused)
  IN /\ At(s, "fork") \/ At(s, "back")
     /\ \/ /\ unused = {} \/ ~forkFailed
           /\ proc' = [proc EXCEPT ![s].code = << <<"exit">> >>]
           /\ forkFailed' = TRUE
        \/ /\ unused # {}
           /\ proc' = [proc EXCEPT
                ![q] = [proc[s] EXCEPT !.code = Arg(s), !.parent = s, !.back = @ \/ Op(s) = "back"],
                ![s].code = Rest(s)]
           /\ UNCHANGED forkFailed
     /\ UNCHANGED <<pipe, lines>>

Children(s) == {q \in Pids : proc[q].state # "unused" /\ proc[q].parent = s}
Wait(s) ==
  LET zombies == {q \in Children(s) : proc[q].state = "zombie"}
  IN /\ At(s, "wait")
     /\ IF Children(s) = {} THEN proc' = [proc EXCEPT ![s].code = Rest(s)]
        ELSE \E q \in zombies : proc' = [proc EXCEPT ![q] = Unused, ![s].code = Rest(s)]
     /\ Same

Exec(s) ==
  /\ At(s, "exec")
  /\ proc' = [proc EXCEPT ![s].code = [i \in 1 .. Len(Program[Arg(s)]) + 1 |->
                IF i > Len(Program[Arg(s)]) THEN <<"exit">> ELSE <<Program[Arg(s)][i]>>]]
  /\ Same

(* exit(): the descriptors are closed and the children go to init, which   *)
(* reaps them; a child of init vanishes.  -1 stands for init.              *)
Exit(s) ==
  /\ At(s, "exit")
  /\ proc' = [q \in Slots |->
       IF q = s THEN IF s = 0 THEN NewShell
                     ELSE IF proc[s].parent = -1 THEN Unused
                     ELSE [Unused EXCEPT !.state = "zombie", !.parent = proc[s].parent]
       ELSE IF q \in Children(s)
       THEN IF proc[q].state = "zombie" THEN Unused ELSE [proc[q] EXCEPT !.parent = -1]
       ELSE proc[q]]
  /\ Same

(* A program writes to its standard output, or gives up.                   *)
Write(s) ==
  LET o == proc[s].fd[1]
      broken == o = None \/ (o.end = "w" /\ ~EndOpen("r", o.id))
  IN /\ At(s, "write")
     /\ \/ broken /\ proc' = [proc EXCEPT ![s].code = << <<"exit">> >>] /\ UNCHANGED pipe
        \/ /\ ~broken /\ (o.end = "w" => pipe[o.id] < PIPESIZE)
           /\ proc' = [proc EXCEPT ![s].code = Rest(s)]
           /\ pipe' = IF o.end = "w" THEN [pipe EXCEPT ![o.id] = @ + 1] ELSE pipe
     /\ UNCHANGED <<lines, forkFailed>>

(* A program reads its standard input to the end.                          *)
Read(s) ==
  LET o == proc[s].fd[0]
      data == o.end = "r" /\ pipe[o.id] > 0
  IN /\ At(s, "read")
     /\ \/ data /\ pipe' = [pipe EXCEPT ![o.id] = @ - 1] /\ UNCHANGED proc
        \/ /\ ~data /\ (o.end = "r" => ~EndOpen("w", o.id))
           /\ proc' = [proc EXCEPT ![s].code = Rest(s)] /\ UNCHANGED pipe
     /\ UNCHANGED <<lines, forkFailed>>

Step(s) ==
  Run(s) \/ Close(s) \/ Dup(s) \/ Open(s) \/ Pipe(s) \/ Fork(s) \/ Wait(s) \/ Exec(s)
    \/ Exit(s) \/ Write(s) \/ Read(s)

Next == Getcmd \/ Eof \/ \E s \in Slots : Step(s)

Fairness == \A s \in Slots : WF_vars(Step(s))
Spec == Init /\ [][Next]_vars /\ Fairness
-----------------------------------------------------------------------------
(* The shell prompts when the command before is over: every process that   *)
(* is left was put in the background (or lost its parent to a failed fork).*)
PromptMeansDone ==
  Prompt /\ ~forkFailed => \A s \in Alive \ {0} : proc[s].back

(* A program of a pipeline, and a shell waiting for one, hold no end of a  *)
(* pipe but a program's standard input and output: a forgotten write end   *)
(* would keep the reader from ever seeing the end of its input.            *)
NoStrayPipeEnds ==
  \A s \in Alive : \A f \in Fds :
    proc[s].fd[f].end \in {"r", "w"} =>
      /\ At(s, "read") \/ At(s, "write") => f \in {0, 1}
      /\ At(s, "wait") => f \in {0, 1}

(* Every command line is finished with in the end, and the shell prompts   *)
(* for the next, however the processes of a pipeline are scheduled.        *)
ShellPromptsAgain == ~Prompt ~> Prompt

(* The processes of a command line: no end of a pipe left open by          *)
(* accident, no prompt before the line is done.                            *)
PipelineSafe == PromptMeansDone /\ NoStrayPipeEnds
=============================================================================
