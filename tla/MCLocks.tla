------------------------------- MODULE MCLocks ------------------------------
(***************************************************************************)
(* What must eventually happen to those who wait for a spin lock, or for    *)
(* space in the log.  A behaviour is a behaviour of one of the two, "part", *)
(* chosen initially; the variables of the other keep their initial values.  *)
(***************************************************************************)
EXTENDS Spinlock

CONSTANTS Procs, Blocks, NotCached

VARIABLE part

VARIABLES log_home, log_dlog, log_dhead, log_cache, log_pins, log_lh, log_outstanding,
  log_committing, log_pc, log_wrote, log_tail, log_mode
L == INSTANCE Log WITH Vals <- {0}, MAXOPBLOCKS <- 2, LOGSIZE <- 4, NLOG <- 4,
  OpBlocks <- 1, home <- log_home, dlog <- log_dlog, dhead <- log_dhead,
  cache <- log_cache, pins <- log_pins, lh <- log_lh, outstanding <- log_outstanding,
  committing <- log_committing, pc <- log_pc, wrote <- log_wrote, tail <- log_tail,
  mode <- log_mode
LVars == <<log_home, log_dlog, log_dhead, log_cache, log_pins, log_lh, log_outstanding,
  log_committing, log_pc, log_wrote, log_tail, log_mode>>

---------------------------------------------------------------------------
LiveInit == part \in {"spinlock", "log"} /\ Init /\ L!Init

allVars == <<part, vars, LVars>>

SpinlockNext == part = "spinlock" /\ Next /\ UNCHANGED <<part, LVars>>
LogNext == part = "log" /\ L!Next /\ UNCHANGED <<part, vars>>
LiveNext == SpinlockNext \/ LogNext

\* Each part's Fairness, of its own steps.
LiveFairness ==
  /\ \A t \in Contexts : /\ WF_vars(part = "spinlock" /\ Step(t))
                         /\ WF_vars(part = "spinlock" /\ \E l \in Locks : Release(t, l))
  /\ \A c \in CPUs : WF_vars(part = "spinlock" /\ ReturnFromInterrupt(c))
  /\ WF_LVars(part = "log" /\ L!Recover)
  /\ \A p \in Procs : /\ WF_LVars(part = "log" /\ L!BeginOp(p))
                      /\ WF_LVars(part = "log" /\ L!BeginOpSleep(p))
                      /\ WF_LVars(part = "log" /\ L!EndOp(p))
                      /\ WF_LVars(part = "log" /\ L!Commit(p))

LiveSpec == LiveInit /\ [][LiveNext]_allVars /\ LiveFairness

---------------------------------------------------------------------------
(* begin_op() returns: a process asleep for want of log space is woken by  *)
(* the end_op() of another, or by its commit, however the processes'       *)
(* transactions interleave (Log!SleeperWakes).                             *)
SleeperWakes == part = "log" => L!SleeperWakes
=============================================================================
