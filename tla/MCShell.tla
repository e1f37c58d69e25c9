------------------------------ MODULE MCShell -------------------------------
(***************************************************************************)
(* What must eventually happen to processes: the shell finishes its        *)
(* command lines, and init reaps its zombies.  A behaviour is a behaviour  *)
(* of one of these, "part", chosen initially; the variables of the other   *)
(* keep their initial values.                                              *)
(***************************************************************************)
EXTENDS Shell

VARIABLE part

\* Command lines: a pipeline of three, and a background pipeline before a
\* redirection.
ExecOf(p) == [type |-> "EXEC", prog |-> p]
PipeOf(l, r) == [type |-> "PIPE", left |-> l, right |-> r]
CommandLines ==
  {PipeOf(ExecOf("w"), PipeOf(ExecOf("cat"), ExecOf("r"))),
   [type |-> "LIST",
    left |-> [type |-> "BACK", cmd |-> PipeOf(ExecOf("w"), ExecOf("n"))],
    right |-> [type |-> "REDIR", fd |-> 0, cmd |-> ExecOf("r")]]}

\* What the programs do: a writer of two bytes, a reader, one that does both, a
\* program that does neither.
Programs == [w |-> <<"write", "write">>, r |-> <<"read">>, cat |-> <<"write", "read">>, n |-> <<>>]

VARIABLES pt_state, pt_parent, pt_pid, pt_killed, pt_nextpid, pt_wait_lock, pt_pc,
  pt_k, pt_havekids, pt_np, pt_asked
P == INSTANCE Proc WITH NPROC <- 3, MaxPid <- 4, KillPids <- 2..4, state <- pt_state,
  parent <- pt_parent, pid <- pt_pid, killed <- pt_killed, nextpid <- pt_nextpid,
  wait_lock <- pt_wait_lock, pc <- pt_pc, k <- pt_k, havekids <- pt_havekids,
  np <- pt_np, asked <- pt_asked
PVars == <<pt_state, pt_parent, pt_pid, pt_killed, pt_nextpid, pt_wait_lock, pt_pc,
  pt_k, pt_havekids, pt_np, pt_asked>>

---------------------------------------------------------------------------
LiveInit == part \in {"proc", "shell"} /\ Init /\ P!Init

allVars == <<part, vars, PVars>>

ProcNext == part = "proc" /\ P!Next /\ UNCHANGED <<part, vars>>
ShellNext == part = "shell" /\ Next /\ UNCHANGED <<part, PVars>>

\* The shell stops at the end of its input.
Stopped == part = "shell" /\ UNCHANGED allVars

LiveNext == ProcNext \/ ShellNext \/ Stopped

\* Each part's Fairness, of its own steps.
LiveFairness ==
  /\ \A p \in P!Procs : SF_PVars(part = "proc" /\ P!Step(p))
  /\ SF_PVars(part = "proc" /\ P!Wait(P!initproc))
  /\ \A s \in Slots : WF_vars(part = "shell" /\ Step(s))

LiveSpec == LiveInit /\ [][LiveNext]_allVars /\ LiveFairness

---------------------------------------------------------------------------
(* The properties, stated and explained in the modules of the parts. *)

\* init's wait() reaps every zombie handed to it.
InitReaps == part = "proc" => P!InitReaps

\* runcmd(): no stray pipe ends, no early prompt, and the prompt comes back.
ShellCorrect == part = "shell" => []PipelineSafe /\ ShellPromptsAgain
=============================================================================
