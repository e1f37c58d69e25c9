-------------------------------- MODULE Pipe --------------------------------
(***************************************************************************)
(* kernel/pipe.c: a ring of PIPESIZE bytes between processes that hold its *)
(* read end and processes that hold its write end, with the closing of the *)
(* ends by fileclose() and kill() of a process inside a call.              *)
(*                                                                         *)
(* pi->lock is modelled: a call holds it from its acquire() to its sleep() *)
(* or its release(), and every byte is a step, because kill() takes only   *)
(* p->lock and can come between two bytes.  sleep() gives the lock up and  *)
(* sleeps in one step.  The counters nread and nwrite are                  *)
(* unsigned and wrap at UINT; data is indexed modulo PIPESIZE.             *)
(***************************************************************************)
EXTENDS Integers, Sequences, FiniteSets

CONSTANTS Readers, Writers,  \* the processes, by the end they hold
          Killable,          \* those that kill() is called for
          NoProc,            \* nobody holds pi->lock
          Bytes,             \* contents of a byte
          PIPESIZE,          \* bytes in the ring
          UINT,              \* 2^32: where an unsigned counter wraps
          MaxN               \* largest n a caller asks for

Procs == Readers \union Writers

ASSUME PipeConstants ==
  /\ Readers \cap Writers = {} /\ NoProc \notin Procs
  /\ PIPESIZE \in Nat \ {0} /\ UINT \in Nat /\ MaxN \in Nat
  /\ UINT > PIPESIZE /\ UINT % PIPESIZE = 0

VARIABLES
  data, nread, nwrite, readopen, writeopen,   \* struct pipe
  freed,        \* kfree((char*)pi) has been called
  lock,         \* the holder of pi->lock, or NoProc
  open,         \* the processes whose ofile[] refers to this pipe
  killed,       \* p->killed
  pc,           \* where each process is
  i, n          \* the locals of pipewrite() and piperead()

ring == <<data, nread, nwrite>>
ends == <<readopen, writeopen, freed, open>>
locals == <<i, n>>
vars == <<data, nread, nwrite, readopen, writeopen, freed, lock, open, killed, pc, i, n>>

Places == {"user", "closing",
           "w_acquire", "w_loop", "w_presleep", "w_sleep",
           "r_acquire", "r_while", "r_presleep", "r_sleep", "r_copy"}

Mut_Full == nwrite = nread + PIPESIZE

Empty == nread = nwrite
Full == nwrite = (nread + PIPESIZE) % UINT

\* wakeup(&pi->nread) and wakeup(&pi->nwrite), applied to program counters f;
\* a process woken from sleep() acquires pi->lock again.
WakeReaders(f) == [p \in Procs |-> IF f[p] = "r_sleep" THEN "r_acquire" ELSE f[p]]
WakeWriters(f) == [p \in Procs |-> IF f[p] = "w_sleep" THEN "w_acquire" ELSE f[p]]

\* Put process p at place s.
At(p, s) == [pc EXCEPT ![p] = s]

\* acquire(&pi->lock)
Acquire(p, from, to) ==
  /\ pc[p] = from /\ lock = NoProc
  /\ lock' = p
  /\ pc' = At(p, to)
  /\ UNCHANGED <<ring, ends, killed, locals>>

----------------------------------------------------------------------------
\* pipewrite()

PipeWrite(p, k) ==
  /\ pc[p] = "user" /\ p \in open \cap Writers /\ ~killed[p]
  /\ n' = [n EXCEPT ![p] = k]
  /\ i' = [i EXCEPT ![p] = 0]
  /\ pc' = At(p, "w_acquire")
  /\ UNCHANGED <<ring, ends, lock, killed>>

WriteAcquire(p) == Acquire(p, "w_acquire", "w_loop")

InWriteLoop(p) == pc[p] = "w_loop" /\ i[p] < n[p]

\* The reader is gone or the writer is killed: return -1, waking nobody.
WriteFails(p) ==
  /\ InWriteLoop(p) /\ (~readopen \/ killed[p])
  /\ lock' = NoProc
  /\ pc' = At(p, "user")
  /\ UNCHANGED <<ring, ends, killed, locals>>

\* killed(pr) is false, but may become true before sleep() takes p->lock.
WriteWaits(p) ==
  /\ InWriteLoop(p) /\ readopen /\ ~killed[p] /\ Full
  /\ pc' = At(p, "w_presleep")
  /\ UNCHANGED <<ring, ends, lock, killed, locals>>

\* wakeup(&pi->nread); sleep(&pi->nwrite, &pi->lock)
WriteSleep(p) ==
  /\ pc[p] = "w_presleep"
  /\ lock' = NoProc
  /\ pc' = WakeReaders(At(p, "w_sleep"))
  /\ UNCHANGED <<ring, ends, killed, locals>>

WriteByte(p, c) ==
  /\ InWriteLoop(p) /\ readopen /\ ~killed[p] /\ ~Full
  /\ data' = [data EXCEPT ![nwrite % PIPESIZE] = c]
  /\ nwrite' = (nwrite + 1) % UINT
  /\ i' = [i EXCEPT ![p] = @ + 1]
  /\ UNCHANGED <<nread, ends, lock, killed, pc, n>>

Mut_WriteReturns(p) ==
  /\ \/ pc[p] = "w_loop" /\ i[p] = n[p]
     \/ InWriteLoop(p) /\ readopen /\ ~killed[p] /\ ~Full
  /\ lock' = NoProc
  /\ pc' = At(p, "user")
  /\ UNCHANGED <<ring, ends, killed, locals>>

\* All n bytes are written, or copyin() failed: wake the readers, return i.
WriteReturns(p) ==
  /\ \/ pc[p] = "w_loop" /\ i[p] = n[p]
     \/ InWriteLoop(p) /\ readopen /\ ~killed[p] /\ ~Full
  /\ lock' = NoProc
  /\ pc' = WakeReaders(At(p, "user"))
  /\ UNCHANGED <<ring, ends, killed, locals>>

----------------------------------------------------------------------------
\* piperead()

PipeRead(p, k) ==
  /\ pc[p] = "user" /\ p \in open \cap Readers /\ ~killed[p]
  /\ n' = [n EXCEPT ![p] = k]
  /\ i' = [i EXCEPT ![p] = 0]
  /\ pc' = At(p, "r_acquire")
  /\ UNCHANGED <<ring, ends, lock, killed>>

ReadAcquire(p) == Acquire(p, "r_acquire", "r_while")

ReadMustWait == Empty /\ writeopen

\* As for the writer, kill() may come between killed(pr) and sleep().
ReadWaits(p) ==
  /\ pc[p] = "r_while" /\ ReadMustWait /\ ~killed[p]
  /\ pc' = At(p, "r_presleep")
  /\ UNCHANGED <<ring, ends, lock, killed, locals>>

ReadKilled(p) ==
  /\ pc[p] = "r_while" /\ ReadMustWait /\ killed[p]
  /\ lock' = NoProc
  /\ pc' = At(p, "user")
  /\ UNCHANGED <<ring, ends, killed, locals>>

Mut_ReadSleep(p) ==
  /\ pc[p] = "r_presleep"
  /\ pc' = At(p, "r_while")
  /\ UNCHANGED <<ring, ends, lock, killed, locals>>

ReadSleep(p) ==
  /\ pc[p] = "r_presleep"
  /\ lock' = NoProc
  /\ pc' = At(p, "r_sleep")
  /\ UNCHANGED <<ring, ends, killed, locals>>

Mut_ReadStarts(p) ==
  /\ pc[p] = "r_while" /\ (~ReadMustWait \/ i[p] < n[p])
  /\ pc' = At(p, "r_copy")
  /\ UNCHANGED <<ring, ends, lock, killed, locals>>

ReadStarts(p) ==
  /\ pc[p] = "r_while" /\ ~ReadMustWait
  /\ pc' = At(p, "r_copy")
  /\ UNCHANGED <<ring, ends, lock, killed, locals>>

InReadLoop(p) == pc[p] = "r_copy" /\ i[p] < n[p] /\ ~Empty

ReadByte(p) ==
  /\ InReadLoop(p)
  /\ nread' = (nread + 1) % UINT
  /\ i' = [i EXCEPT ![p] = @ + 1]
  /\ UNCHANGED <<data, nwrite, ends, lock, killed, pc, n>>

\* copyout() fails after the byte has been taken from the ring.
ReadByteLost(p) ==
  /\ InReadLoop(p)
  /\ nread' = (nread + 1) % UINT
  /\ lock' = NoProc
  /\ pc' = WakeWriters(At(p, "user"))
  /\ UNCHANGED <<data, nwrite, ends, killed, locals>>

Mut_ReadReturns(p) ==
  /\ pc[p] = "r_copy" /\ (i[p] = n[p] \/ Empty)
  /\ lock' = NoProc
  /\ pc' = At(p, "user")
  /\ UNCHANGED <<ring, ends, killed, locals>>

ReadReturns(p) ==
  /\ pc[p] = "r_copy" /\ (i[p] = n[p] \/ Empty)
  /\ lock' = NoProc
  /\ pc' = WakeWriters(At(p, "user"))
  /\ UNCHANGED <<ring, ends, killed, locals>>

----------------------------------------------------------------------------
\* Closing: close() or exit(), through fileclose() and pipeclose().

SameEnd(p) == IF p \in Readers THEN Readers ELSE Writers

\* The file's reference count falls to zero.
LastOfItsEnd(p) == open \cap SameEnd(p) = {p}

FileClose(p) ==
  /\ pc[p] = "user" /\ p \in open
  /\ open' = open \ {p}
  /\ pc' = At(p, IF LastOfItsEnd(p) THEN "closing" ELSE "user")
  /\ UNCHANGED <<ring, readopen, writeopen, freed, lock, killed, locals>>

\* The whole of pipeclose(); nothing happens inside its critical section that
\* another process could see half-done.
PipeClose(p) ==
  /\ pc[p] = "closing" /\ lock = NoProc
  /\ IF p \in Writers
     THEN /\ writeopen' = FALSE
          /\ pc' = WakeReaders(At(p, "user"))
          /\ UNCHANGED readopen
     ELSE /\ readopen' = FALSE
          /\ pc' = WakeWriters(At(p, "user"))
          /\ UNCHANGED writeopen
  /\ freed' = (~readopen' /\ ~writeopen')
  /\ UNCHANGED <<ring, lock, open, killed, locals>>

\* kill(): sets killed and, if the victim sleeps, makes it runnable.
Kill(p) ==
  /\ p \in Killable /\ ~killed[p] /\ p \in open
  /\ killed' = [killed EXCEPT ![p] = TRUE]
  /\ pc' = CASE pc[p] = "r_sleep" -> At(p, "r_acquire")
              [] pc[p] = "w_sleep" -> At(p, "w_acquire")
              [] OTHER -> pc
  /\ UNCHANGED <<ring, ends, lock, locals>>

\* pipealloc() in the page that was freed, and fork() of its users.
PipeAlloc ==
  /\ freed
  /\ nread' = 0 /\ nwrite' = 0
  /\ readopen' = TRUE /\ writeopen' = TRUE
  /\ freed' = FALSE
  /\ lock' = NoProc
  /\ open' = Procs
  /\ killed' = [p \in Procs |-> FALSE]
  /\ i' = [p \in Procs |-> 0] /\ n' = [p \in Procs |-> 0]
  /\ UNCHANGED <<data, pc>>

----------------------------------------------------------------------------
Init ==
  /\ data \in [0..(PIPESIZE - 1) -> Bytes]
  /\ nread = 0 /\ nwrite = 0
  /\ readopen = TRUE /\ writeopen = TRUE
  /\ freed = FALSE
  /\ lock = NoProc
  /\ open = Procs
  /\ killed = [p \in Procs |-> FALSE]
  /\ pc = [p \in Procs |-> "user"]
  /\ i = [p \in Procs |-> 0] /\ n = [p \in Procs |-> 0]

\* A process inside a call takes its next step.
InCall(p) ==
  \/ WriteAcquire(p) \/ WriteFails(p) \/ WriteWaits(p) \/ WriteSleep(p)
  \/ (\E c \in Bytes : WriteByte(p, c)) \/ WriteReturns(p)
  \/ ReadAcquire(p) \/ ReadWaits(p) \/ ReadKilled(p) \/ ReadSleep(p)
  \/ ReadStarts(p) \/ ReadByte(p) \/ ReadByteLost(p) \/ ReadReturns(p)
  \/ PipeClose(p)

Next ==
  \/ \E p \in Procs, k \in 0..MaxN : PipeWrite(p, k) \/ PipeRead(p, k)
  \/ \E p \in Procs : InCall(p) \/ FileClose(p) \/ Kill(p)
  \/ PipeAlloc

Spec == Init /\ [][Next]_vars

\* A process inside a call runs; the spinlock is not denied to one process for
\* ever; a program does not hold its end of the pipe for ever.
Fairness ==
  \A p \in Procs : SF_vars(InCall(p)) /\ SF_vars(FileClose(p))

FairSpec == Spec /\ Fairness

----------------------------------------------------------------------------
\* Types of the variables.
TypeOK ==
  /\ data \in [0..(PIPESIZE - 1) -> Bytes]
  /\ nread \in 0..(UINT - 1) /\ nwrite \in 0..(UINT - 1)
  /\ readopen \in BOOLEAN /\ writeopen \in BOOLEAN /\ freed \in BOOLEAN
  /\ lock \in Procs \union {NoProc}
  /\ open \subseteq Procs
  /\ killed \in [Procs -> BOOLEAN]
  /\ pc \in [Procs -> Places]
  /\ i \in [Procs -> 0..MaxN] /\ n \in [Procs -> 0..MaxN]

\* The bytes in the ring, oldest first.
Contents == [k \in 1..((nwrite - nread) % UINT) |-> data[((nread + k - 1) % UINT) % PIPESIZE]]

BS == INSTANCE ByteStream WITH q <- Contents, gone <- freed, Capacity <- PIPESIZE

\* The ring with its wrapping counters is a bounded first-in first-out queue:
\* until the pipe is freed, the only bytes that leave it are those a read takes
\* from the front.
ImplementsByteStream == BS!BSpec

\* pipeclose() frees the pipe only when no process is, or can come to be,
\* inside pipewrite(), piperead() or pipeclose().
FreedIsUnused ==
  freed => open = {} /\ lock = NoProc /\ \A p \in Procs : pc[p] = "user"

\* pipe.c:113: a reader sleeps because the pipe is empty and can still be
\* written.  While nobody is inside a critical section no reader sleeps on a
\* pipe that has bytes for it or that has been closed.
NoReaderLeftAsleep ==
  lock = NoProc => \A p \in Readers : pc[p] = "r_sleep" => Empty /\ writeopen

\* pipe.c:88: likewise no writer sleeps on a pipe with room or without reader.
NoWriterLeftAsleep ==
  lock = NoProc => \A p \in Writers : pc[p] = "w_sleep" => Full /\ readopen

\* A read that asked for bytes, met no bad address and returns none is the end
\* of the file: the write end is closed, however many readers raced for bytes.
ZeroMeansEof ==
  [][\A p \in Readers :
       /\ pc[p] = "r_copy" /\ pc'[p] = "user"
       /\ i[p] = 0 /\ n[p] > 0 /\ nread' = nread
       => ~writeopen]_vars

\* Every call returns, if the programs at the other end do not keep their end
\* open for ever without using it.
CallsReturn == \A p \in Procs : pc[p] # "user" ~> pc[p] = "user"

(* Whoever is killed, no writer is left asleep beside free space, and the  *)
(* pipe is not freed while a call uses it.                                 *)
PipeSafe == TypeOK /\ NoWriterLeftAsleep /\ FreedIsUnused
=============================================================================
