----------------------------- MODULE PipeProofs -----------------------------
(***************************************************************************)
(* Proofs about Pipe, for any readers, writers and sizes: types, exclusive *)
(* access under pi->lock, that a freed pipe is unused, that no writer is   *)
(* left asleep, that no reader is when no writer is killed, and that the   *)
(* ring with its wrapping counters implements a stream of bytes.           *)
(***************************************************************************)
EXTENDS Pipe, SequenceTheorems, TLAPS

WriterHolds == {"w_loop", "w_presleep"}
ReaderHolds == {"r_while", "r_presleep", "r_copy"}
WriterPlaces == WriterHolds \union {"w_acquire", "w_sleep"}
ReaderPlaces == ReaderHolds \union {"r_acquire", "r_sleep"}

\* The holder of pi->lock is the one process inside a critical section, and a
\* process is only ever in the calls of the end it holds.
LockInv ==
  /\ \A p \in Procs : lock = p <=> pc[p] \in WriterHolds \union ReaderHolds
  /\ \A p \in Procs : pc[p] \in WriterPlaces => p \in Writers
  /\ \A p \in Procs : pc[p] \in ReaderPlaces => p \in Readers

\* A process inside a call has its end open; the last process to drop an end
\* is the only one that closes it, and a closed end has no user left.
EndsInv ==
  /\ \A p \in Procs : pc[p] \in WriterPlaces \union ReaderPlaces => p \in open
  /\ \A p \in Procs : pc[p] = "closing" =>
       /\ open \cap SameEnd(p) = {}
       /\ \A q \in SameEnd(p) \ {p} : pc[q] = "user"
       /\ IF p \in Readers THEN readopen ELSE writeopen
  /\ ~readopen => open \cap Readers = {} /\ \A p \in Readers : pc[p] = "user"
  /\ ~writeopen => open \cap Writers = {} /\ \A p \in Writers : pc[p] = "user"
  /\ freed => ~readopen /\ ~writeopen

\* A sleeping writer has a full pipe with a reader, or a reader that holds the
\* lock, takes bytes, and will wake it.
WriterSleepInv ==
  \A p \in Writers :
    /\ pc[p] = "w_presleep" => Full /\ readopen
    /\ pc[p] = "w_sleep" => readopen /\ (Full \/ \E r \in Readers : pc[r] = "r_copy")

\* A sleeping reader has an empty pipe that can be written, or a writer that
\* holds the lock, adds bytes, and will wake it.
ReaderSleepInv ==
  \A p \in Readers :
    /\ pc[p] = "r_presleep" => Empty /\ writeopen
    /\ pc[p] = "r_sleep" => writeopen /\ (Empty \/ \E w \in Writers : pc[w] \in WriterHolds)

IInv == TypeOK /\ LockInv /\ EndsInv /\ WriterSleepInv

----------------------------------------------------------------------------
\* A counter taken modulo UINT is an unsigned value.
LEMMA UIntRange == ASSUME NEW x \in Nat PROVE x % UINT \in 0..(UINT - 1)
BY PipeConstants

\* An unsigned counter that is incremented changes.
LEMMA NextDiffers == ASSUME NEW x \in 0..(UINT - 1) PROVE (x + 1) % UINT # x
<1>1. UINT \in Nat /\ UINT > 1
  BY PipeConstants
<1>2. CASE x + 1 = UINT
  <2>1. UINT % UINT = 0
    BY <1>1
  <2> QED BY <1>1, <1>2, <2>1
<1>3. CASE x + 1 < UINT
  <2>1. (x + 1) % UINT = x + 1
    BY <1>1, <1>3
  <2> QED BY <2>1
<1> QED BY <1>1, <1>2, <1>3

\* Every step keeps the types.
LEMMA TypeStep == ASSUME TypeOK, LockInv, [Next]_vars PROVE TypeOK'
<1> USE DEF TypeOK, ring, ends, locals, Places, At
<1>1. CASE UNCHANGED vars
  BY <1>1 DEF vars
<1>2. ASSUME NEW p \in Procs, NEW k \in 0..MaxN, PipeWrite(p, k) \/ PipeRead(p, k) PROVE TypeOK'
  <2>1. i' \in [Procs -> 0..MaxN] /\ n' \in [Procs -> 0..MaxN]
    <3>1. 0 \in 0..MaxN
      BY PipeConstants
    <3>2. i' = [i EXCEPT ![p] = 0] /\ n' = [n EXCEPT ![p] = k]
      BY <1>2 DEF PipeWrite, PipeRead
    <3>3. i \in [Procs -> 0..MaxN] /\ n \in [Procs -> 0..MaxN]
      OBVIOUS
    <3> HIDE DEF TypeOK
    <3> QED BY <3>1, <3>2, <3>3
  <2>2. pc' \in [Procs -> Places]
    BY <1>2 DEF PipeWrite, PipeRead
  <2> QED BY <1>2, <2>1, <2>2 DEF PipeWrite, PipeRead
<1>3. ASSUME NEW p \in Procs, InCall(p) PROVE TypeOK'
  <2>1. CASE WriteAcquire(p) \/ ReadAcquire(p)
    BY <2>1 DEF WriteAcquire, ReadAcquire, Acquire
  <2>2. CASE WriteFails(p) \/ WriteWaits(p) \/ ReadWaits(p) \/ ReadKilled(p) \/ ReadSleep(p) \/ ReadStarts(p)
    BY <2>2 DEF WriteFails, WriteWaits, ReadWaits, ReadKilled, ReadSleep, ReadStarts
  <2>3. CASE WriteSleep(p) \/ WriteReturns(p) \/ ReadReturns(p)
    BY <2>3 DEF WriteSleep, WriteReturns, ReadReturns, WakeReaders, WakeWriters
  <2>4. ASSUME NEW c \in Bytes, WriteByte(p, c) PROVE TypeOK'
    <3>1. nwrite' \in 0..(UINT - 1)
      BY <2>4, UIntRange DEF WriteByte
    <3>2. i' \in [Procs -> 0..MaxN]
      BY <2>4, PipeConstants DEF WriteByte, InWriteLoop
    <3> QED BY <2>4, <3>1, <3>2 DEF WriteByte
  <2>5. CASE ReadByte(p)
    <3>1. nread' \in 0..(UINT - 1)
      BY <2>5, UIntRange DEF ReadByte
    <3>2. i' \in [Procs -> 0..MaxN]
      BY <2>5, PipeConstants DEF ReadByte, InReadLoop
    <3> QED BY <2>5, <3>1, <3>2 DEF ReadByte
  <2>6. CASE ReadByteLost(p)
    <3>1. nread' \in 0..(UINT - 1)
      BY <2>6, UIntRange DEF ReadByteLost
    <3> QED BY <2>6, <3>1 DEF ReadByteLost, WakeWriters
  <2>7. CASE PipeClose(p)
    <3>1. pc' \in [Procs -> Places]
      BY <2>7 DEF PipeClose, WakeReaders, WakeWriters
    <3>2. readopen' \in BOOLEAN /\ writeopen' \in BOOLEAN /\ freed' \in BOOLEAN
      BY <2>7, Zenon DEF PipeClose
    <3> QED BY <2>7, <3>1, <3>2 DEF PipeClose
  <2> QED BY <1>3, <2>1, <2>2, <2>3, <2>4, <2>5, <2>6, <2>7 DEF InCall
<1>4. ASSUME NEW p \in Procs, FileClose(p) PROVE TypeOK'
  BY <1>4 DEF FileClose
<1>5. ASSUME NEW p \in Procs, Kill(p) PROVE TypeOK'
  <2>1. pc' \in [Procs -> Places]
    BY <1>5 DEF Kill
  <2>2. killed' \in [Procs -> BOOLEAN]
    BY <1>5 DEF Kill
  <2> QED BY <1>5, <2>1, <2>2 DEF Kill
<1>6. CASE PipeAlloc
  <2>1. i' \in [Procs -> 0..MaxN] /\ n' \in [Procs -> 0..MaxN] /\ killed' \in [Procs -> BOOLEAN]
    BY <1>6, PipeConstants DEF PipeAlloc
  <2>2. nread' \in 0..(UINT - 1) /\ nwrite' \in 0..(UINT - 1)
    BY <1>6, PipeConstants DEF PipeAlloc
  <2>3. readopen' \in BOOLEAN /\ writeopen' \in BOOLEAN /\ freed' \in BOOLEAN
    BY <1>6 DEF PipeAlloc
  <2> QED BY <1>6, <2>1, <2>2, <2>3 DEF PipeAlloc
<1> QED BY <1>1, <1>2, <1>3, <1>4, <1>5, <1>6 DEF Next

\* Every step keeps the lock with the process inside a critical section.
LEMMA LockStep == ASSUME TypeOK, LockInv, EndsInv, [Next]_vars PROVE LockInv'
<1> USE DEF WriterHolds, ReaderHolds, WriterPlaces, ReaderPlaces, At
<1>t. pc \in [Procs -> Places] /\ lock \in Procs \union {NoProc} /\ NoProc \notin Procs
  BY PipeConstants DEF TypeOK
<1>1. CASE UNCHANGED vars
  BY <1>1 DEF vars, LockInv
<1>2. ASSUME NEW p \in Procs, NEW k \in 0..MaxN, PipeWrite(p, k) \/ PipeRead(p, k) PROVE LockInv'
  BY <1>2, <1>t DEF PipeWrite, PipeRead, LockInv
<1>3. ASSUME NEW p \in Procs, InCall(p) PROVE LockInv'
  <2>1. CASE WriteAcquire(p) \/ ReadAcquire(p)
    BY <2>1, <1>t DEF WriteAcquire, ReadAcquire, Acquire, LockInv
  <2>2. CASE WriteFails(p) \/ ReadKilled(p) \/ ReadSleep(p)
    BY <2>2, <1>t DEF WriteFails, ReadKilled, ReadSleep, InWriteLoop, LockInv
  <2>3. CASE WriteWaits(p) \/ ReadWaits(p) \/ ReadStarts(p)
    BY <2>3, <1>t DEF WriteWaits, ReadWaits, ReadStarts, InWriteLoop, LockInv
  <2>4. CASE WriteSleep(p) \/ WriteReturns(p)
    BY <2>4, <1>t DEF WriteSleep, WriteReturns, InWriteLoop, WakeReaders, LockInv
  <2>5. CASE ReadByteLost(p) \/ ReadReturns(p)
    BY <2>5, <1>t DEF ReadByteLost, ReadReturns, InReadLoop, WakeWriters, LockInv
  <2>6. CASE ReadByte(p) \/ \E c \in Bytes : WriteByte(p, c)
    BY <2>6 DEF ReadByte, WriteByte, LockInv
  <2>7. CASE PipeClose(p)
    BY <2>7, <1>t DEF PipeClose, WakeReaders, WakeWriters, LockInv
  <2> QED BY <1>3, <2>1, <2>2, <2>3, <2>4, <2>5, <2>6, <2>7 DEF InCall
<1>4. ASSUME NEW p \in Procs, FileClose(p) PROVE LockInv'
  BY <1>4, <1>t DEF FileClose, LockInv
<1>5. ASSUME NEW p \in Procs, Kill(p) PROVE LockInv'
  BY <1>5, <1>t DEF Kill, LockInv, ends
<1>6. CASE PipeAlloc
  <2>1. \A p \in Procs : pc[p] = "user"
    BY <1>6 DEF PipeAlloc, EndsInv, Procs
  <2> QED BY <1>6, <1>t, <2>1 DEF PipeAlloc, LockInv
<1> QED BY <1>1, <1>2, <1>3, <1>4, <1>5, <1>6 DEF Next

\* Every step keeps closed ends without users.
LEMMA EndsStep == ASSUME TypeOK, LockInv, EndsInv, [Next]_vars PROVE EndsInv'
<1> USE DEF WriterHolds, ReaderHolds, WriterPlaces, ReaderPlaces, At, ends, SameEnd, Procs
<1>t. pc \in [Procs -> Places] /\ open \subseteq Procs /\ Readers \cap Writers = {}
  BY PipeConstants DEF TypeOK
\* A step inside a call, which changes no end and leaves no place of closing.
<1>q. ASSUME UNCHANGED <<readopen, writeopen, freed, open>>,
             \A q \in Procs : \/ pc'[q] = pc[q]
                              \/ pc'[q] \in {"user"} \union WriterPlaces \union ReaderPlaces
                                 /\ q \in open
      PROVE EndsInv'
  BY <1>q, <1>t DEF EndsInv
<1>1. CASE UNCHANGED vars
  BY <1>1, <1>q DEF vars
<1>2. ASSUME NEW p \in Procs, NEW k \in 0..MaxN, PipeWrite(p, k) \/ PipeRead(p, k) PROVE EndsInv'
  BY <1>2, <1>t, <1>q DEF PipeWrite, PipeRead
<1>3. ASSUME NEW p \in Procs, InCall(p) PROVE EndsInv'
  <2>1. CASE WriteAcquire(p) \/ ReadAcquire(p)
    BY <2>1, <1>t, <1>q DEF WriteAcquire, ReadAcquire, Acquire, EndsInv
  <2>2. CASE WriteFails(p) \/ ReadKilled(p) \/ ReadSleep(p)
    BY <2>2, <1>t, <1>q DEF WriteFails, ReadKilled, ReadSleep, InWriteLoop, EndsInv
  <2>3. CASE WriteWaits(p) \/ ReadWaits(p) \/ ReadStarts(p)
    BY <2>3, <1>t, <1>q DEF WriteWaits, ReadWaits, ReadStarts, InWriteLoop, EndsInv
  <2>4. CASE WriteSleep(p) \/ WriteReturns(p)
    BY <2>4, <1>t, <1>q DEF WriteSleep, WriteReturns, InWriteLoop, WakeReaders, EndsInv
  <2>5. CASE ReadByteLost(p) \/ ReadReturns(p)
    BY <2>5, <1>t, <1>q DEF ReadByteLost, ReadReturns, InReadLoop, WakeWriters, EndsInv
  <2>6. CASE ReadByte(p) \/ \E c \in Bytes : WriteByte(p, c)
    BY <2>6, <1>q DEF ReadByte, WriteByte
  <2>7. CASE PipeClose(p)
    <3>1. freed' => ~readopen' /\ ~writeopen'
      BY <2>7 DEF PipeClose
    <3>2. CASE p \in Writers
      <4>1. /\ ~writeopen' /\ readopen' = readopen /\ open' = open
            /\ pc' = WakeReaders([pc EXCEPT ![p] = "user"])
        BY <2>7, <3>2 DEF PipeClose
      <4>2. \A q \in Procs : pc'[q] = IF q = p THEN "user"
                              ELSE IF pc[q] = "r_sleep" THEN "r_acquire" ELSE pc[q]
        BY <1>t, <4>1 DEF WakeReaders
      <4>3. open \cap Writers = {} /\ \A q \in Writers : pc'[q] = "user"
        BY <2>7, <1>t, <3>2, <4>2 DEF PipeClose, EndsInv
      <4> QED BY <1>t, <3>1, <3>2, <4>1, <4>2, <4>3, ZenonT(60) DEF EndsInv
    <3>3. CASE p \in Readers
      <4>1. /\ ~readopen' /\ writeopen' = writeopen /\ open' = open
            /\ pc' = WakeWriters([pc EXCEPT ![p] = "user"])
        BY <2>7, <1>t, <3>3 DEF PipeClose
      <4>2. \A q \in Procs : pc'[q] = IF q = p THEN "user"
                              ELSE IF pc[q] = "w_sleep" THEN "w_acquire" ELSE pc[q]
        BY <1>t, <4>1 DEF WakeWriters
      <4>3. open \cap Readers = {} /\ \A q \in Readers : pc'[q] = "user"
        BY <2>7, <1>t, <3>3, <4>2 DEF PipeClose, EndsInv
      <4> QED BY <1>t, <3>1, <3>3, <4>1, <4>2, <4>3, ZenonT(60) DEF EndsInv
    <3> QED BY <3>2, <3>3
  <2> QED BY <1>3, <2>1, <2>2, <2>3, <2>4, <2>5, <2>6, <2>7 DEF InCall
<1>4. ASSUME NEW p \in Procs, FileClose(p) PROVE EndsInv'
  <2>1. /\ UNCHANGED <<readopen, writeopen, freed>>
        /\ open' = open \ {p} /\ p \in open /\ pc[p] = "user"
        /\ \A q \in Procs \ {p} : pc'[q] = pc[q]
        /\ pc'[p] = IF LastOfItsEnd(p) THEN "closing" ELSE "user"
    BY <1>4, <1>t DEF FileClose
  <2>2. LastOfItsEnd(p) => /\ open' \cap SameEnd(p) = {}
                           /\ \A q \in SameEnd(p) \ {p} : pc'[q] = "user"
    <3>1. ASSUME LastOfItsEnd(p), NEW q \in SameEnd(p) \ {p} PROVE pc[q] = "user"
      BY <1>t, <2>1, <3>1 DEF LastOfItsEnd, EndsInv, Places
    <3> QED BY <2>1, <3>1 DEF LastOfItsEnd
  <2>3. IF p \in Readers THEN readopen ELSE writeopen
    BY <1>t, <2>1 DEF EndsInv
  <2> QED BY <1>t, <2>1, <2>2, <2>3 DEF EndsInv
<1>5. ASSUME NEW p \in Procs, Kill(p) PROVE EndsInv'
  BY <1>5, <1>t, <1>q DEF Kill
<1>6. CASE PipeAlloc
  <2>1. \A p \in Procs : pc[p] = "user"
    BY <1>6 DEF PipeAlloc, EndsInv
  <2> QED BY <1>6, <1>t, <2>1 DEF PipeAlloc, EndsInv
<1> QED BY <1>1, <1>2, <1>3, <1>4, <1>5, <1>6 DEF Next

\* Every step keeps the promise that a sleeping writer is right to sleep.
LEMMA WriterSleepStep == ASSUME IInv, [Next]_vars PROVE WriterSleepInv'
<1> USE DEF IInv, WriterHolds, ReaderHolds, WriterPlaces, ReaderPlaces, At, ends, ring, Procs
<1>t. pc \in [Procs -> Places] /\ Readers \cap Writers = {} /\ NoProc \notin Procs
  BY PipeConstants DEF TypeOK
<1>l. LockInv
  OBVIOUS
<1>1. CASE UNCHANGED vars
  BY <1>1 DEF vars, WriterSleepInv, Full
<1>2. ASSUME NEW p \in Procs, NEW k \in 0..MaxN, PipeWrite(p, k) \/ PipeRead(p, k)
      PROVE WriterSleepInv'
  BY <1>2, <1>t, SMTT(60) DEF PipeWrite, PipeRead, WriterSleepInv, Full
<1>3. ASSUME NEW p \in Procs, InCall(p) PROVE WriterSleepInv'
  <2>1. CASE WriteAcquire(p) \/ ReadAcquire(p)
    BY <2>1, <1>t DEF WriteAcquire, ReadAcquire, Acquire, WriterSleepInv, Full
  <2>2. CASE WriteFails(p) \/ ReadKilled(p) \/ ReadSleep(p)
    BY <2>2, <1>t DEF WriteFails, ReadKilled, ReadSleep, InWriteLoop, WriterSleepInv, Full
  <2>3. CASE WriteWaits(p) \/ ReadWaits(p) \/ ReadStarts(p)
    BY <2>3, <1>t DEF WriteWaits, ReadWaits, ReadStarts, InWriteLoop, WriterSleepInv, Full
  <2>4. CASE WriteSleep(p) \/ WriteReturns(p)
    BY <2>4, <1>t DEF WriteSleep, WriteReturns, InWriteLoop, WakeReaders, WriterSleepInv, Full
  <2>5. CASE ReadByteLost(p) \/ ReadReturns(p)
    <3>1. \A q \in Writers : pc'[q] \notin {"w_presleep", "w_sleep"}
      BY <2>5, <1>t, <1>l DEF ReadByteLost, ReadReturns, InReadLoop, WakeWriters, LockInv
    <3> QED BY <3>1 DEF WriterSleepInv
  <2>6. CASE ReadByte(p)
    <3>1. pc[p] = "r_copy" /\ p \in Readers /\ pc' = pc /\ readopen' = readopen
      BY <2>6, <1>l DEF ReadByte, InReadLoop, LockInv
    <3>2. \A q \in Writers : pc[q] # "w_presleep"
      BY <1>t, <1>l, <3>1 DEF LockInv
    <3> QED BY <3>1, <3>2 DEF WriterSleepInv
  <2>7. ASSUME NEW c \in Bytes, WriteByte(p, c) PROVE WriterSleepInv'
    <3>1. pc[p] = "w_loop" /\ ~Full /\ pc' = pc
      BY <2>7 DEF WriteByte, InWriteLoop
    <3>2. \A r \in Readers : pc[r] # "r_copy"
      BY <1>t, <1>l, <3>1 DEF LockInv
    <3>3. \A q \in Writers : pc[q] \notin {"w_presleep", "w_sleep"}
      BY <3>1, <3>2 DEF WriterSleepInv
    <3> QED BY <3>1, <3>3 DEF WriterSleepInv
  <2>8. CASE PipeClose(p)
    <3>1. CASE p \in Writers
      BY <2>8, <1>t, <3>1 DEF PipeClose, WakeReaders, WriterSleepInv, Full
    <3>2. CASE p \in Readers
      <4>1. \A q \in Writers : pc'[q] \notin {"w_presleep", "w_sleep"}
        BY <2>8, <1>t, <1>l, <3>2 DEF PipeClose, WakeWriters, LockInv
      <4> QED BY <4>1 DEF WriterSleepInv
    <3> QED BY <3>1, <3>2
  <2> QED BY <1>3, <2>1, <2>2, <2>3, <2>4, <2>5, <2>6, <2>7, <2>8 DEF InCall
<1>4. ASSUME NEW p \in Procs, FileClose(p) PROVE WriterSleepInv'
  BY <1>4, <1>t DEF FileClose, WriterSleepInv, Full
<1>5. ASSUME NEW p \in Procs, Kill(p) PROVE WriterSleepInv'
  <2>1. \A q \in Procs : pc'[q] = pc[q] \/ (pc[q] \in {"r_sleep", "w_sleep"} /\ pc'[q] \in {"r_acquire", "w_acquire"})
    BY <1>5, <1>t DEF Kill
  <2>2. UNCHANGED <<nread, nwrite, readopen>>
    BY <1>5 DEF Kill
  <2> QED BY <1>t, <2>1, <2>2 DEF WriterSleepInv, Full
<1>6. CASE PipeAlloc
  <2>1. \A p \in Procs : pc[p] = "user" /\ pc' = pc
    BY <1>6 DEF PipeAlloc, EndsInv
  <2> QED BY <2>1 DEF WriterSleepInv
<1> QED BY <1>1, <1>2, <1>3, <1>4, <1>5, <1>6 DEF Next

\* When no writer is ever killed, every step keeps the promise that a sleeping
\* reader is right to sleep.
LEMMA ReaderSleepStep ==
  ASSUME IInv, ReaderSleepInv, \A w \in Writers : ~killed[w], [Next]_vars
  PROVE  ReaderSleepInv'
<1> USE DEF IInv, WriterHolds, ReaderHolds, WriterPlaces, ReaderPlaces, At, ends, ring, Procs
<1>t. pc \in [Procs -> Places] /\ Readers \cap Writers = {} /\ NoProc \notin Procs
  BY PipeConstants DEF TypeOK
<1>l. LockInv
  OBVIOUS
<1>1. CASE UNCHANGED vars
  BY <1>1 DEF vars, ReaderSleepInv, Empty
<1>2. ASSUME NEW p \in Procs, NEW k \in 0..MaxN, PipeWrite(p, k) \/ PipeRead(p, k)
      PROVE ReaderSleepInv'
  BY <1>2, <1>t DEF PipeWrite, PipeRead, ReaderSleepInv, Empty
<1>3. ASSUME NEW p \in Procs, InCall(p) PROVE ReaderSleepInv'
  <2>1. CASE WriteAcquire(p) \/ ReadAcquire(p)
    BY <2>1, <1>t DEF WriteAcquire, ReadAcquire, Acquire, ReaderSleepInv, Empty
  <2>2. CASE WriteFails(p)
    <3>1. p \in Writers /\ ~readopen
      BY <2>2, <1>l DEF WriteFails, InWriteLoop, LockInv
    <3>2. \A r \in Readers : pc'[r] = "user"
      BY <2>2, <1>t, <3>1 DEF WriteFails, EndsInv
    <3> QED BY <3>2 DEF ReaderSleepInv
  <2>3. CASE ReadKilled(p) \/ ReadSleep(p) \/ ReadStarts(p)
    BY <2>3, <1>t DEF ReadKilled, ReadSleep, ReadStarts, ReaderSleepInv, Empty
  <2>4. CASE WriteWaits(p) \/ ReadWaits(p)
    BY <2>4, <1>t, SMTT(60) DEF WriteWaits, ReadWaits, ReadMustWait, InWriteLoop, ReaderSleepInv, Empty
  <2>5. CASE WriteSleep(p) \/ WriteReturns(p)
    <3>1. \A r \in Readers : pc'[r] \notin {"r_presleep", "r_sleep"}
      BY <2>5, <1>t, <1>l DEF WriteSleep, WriteReturns, InWriteLoop, WakeReaders, LockInv
    <3> QED BY <3>1 DEF ReaderSleepInv
  <2>6. CASE ReadByteLost(p) \/ ReadReturns(p) \/ ReadByte(p)
    <3>1. pc[p] = "r_copy" /\ p \in Readers
      BY <2>6, <1>l DEF ReadByteLost, ReadReturns, ReadByte, InReadLoop, LockInv
    <3>2. \A r \in Readers : pc[r] # "r_presleep" /\ \A w \in Writers : pc[w] \notin WriterHolds
      BY <1>t, <1>l, <3>1 DEF LockInv
    <3>3. CASE Empty
      BY <2>6, <1>t, <3>2, <3>3, SMTT(60) DEF ReadByteLost, ReadReturns, ReadByte, InReadLoop, WakeWriters,
         ReaderSleepInv, Empty
    <3>4. CASE ~Empty
      <4>1. \A r \in Readers : pc[r] # "r_sleep"
        BY <3>2, <3>4 DEF ReaderSleepInv
      <4> QED BY <2>6, <1>t, <3>2, <4>1 DEF ReadByteLost, ReadReturns, ReadByte, WakeWriters,
              ReaderSleepInv
    <3> QED BY <3>3, <3>4
  <2>7. ASSUME NEW c \in Bytes, WriteByte(p, c) PROVE ReaderSleepInv'
    <3>1. pc[p] = "w_loop" /\ p \in Writers /\ pc' = pc /\ writeopen' = writeopen
      BY <2>7, <1>l DEF WriteByte, InWriteLoop, LockInv
    <3>2. \A r \in Readers : pc[r] # "r_presleep"
      BY <1>t, <1>l, <3>1 DEF LockInv
    <3> QED BY <3>1, <3>2 DEF ReaderSleepInv
  <2>8. CASE PipeClose(p)
    <3>1. CASE p \in Readers
      BY <2>8, <1>t, <3>1 DEF PipeClose, WakeWriters, ReaderSleepInv, Empty
    <3>2. CASE p \in Writers
      <4>1. \A r \in Readers : pc'[r] \notin {"r_presleep", "r_sleep"}
        BY <2>8, <1>t, <1>l, <3>2 DEF PipeClose, WakeReaders, LockInv
      <4> QED BY <4>1 DEF ReaderSleepInv
    <3> QED BY <3>1, <3>2
  <2> QED BY <1>3, <2>1, <2>2, <2>3, <2>4, <2>5, <2>6, <2>7, <2>8 DEF InCall
<1>4. ASSUME NEW p \in Procs, FileClose(p) PROVE ReaderSleepInv'
  BY <1>4, <1>t DEF FileClose, ReaderSleepInv, Empty
<1>5. ASSUME NEW p \in Procs, Kill(p) PROVE ReaderSleepInv'
  <2>1. \A q \in Procs : pc'[q] = pc[q] \/ (pc[q] \in {"r_sleep", "w_sleep"} /\ pc'[q] \in {"r_acquire", "w_acquire"})
    BY <1>5, <1>t DEF Kill
  <2>2. UNCHANGED <<nread, nwrite, writeopen>>
    BY <1>5 DEF Kill
  <2> QED BY <1>t, <2>1, <2>2 DEF ReaderSleepInv, Empty
<1>6. CASE PipeAlloc
  <2>1. \A p \in Procs : pc[p] = "user" /\ pc' = pc
    BY <1>6 DEF PipeAlloc, EndsInv
  <2> QED BY <2>1 DEF ReaderSleepInv
<1> QED BY <1>1, <1>2, <1>3, <1>4, <1>5, <1>6 DEF Next

----------------------------------------------------------------------------
\* The inductive invariant holds in every reachable state.
THEOREM Invariance == Spec => []IInv
<1>1. Init => IInv
  <2> SUFFICES ASSUME Init PROVE IInv
    OBVIOUS
  <2>1. TypeOK
    <3>1. 0 \in 0..MaxN /\ 0 \in 0..(UINT - 1)
      BY PipeConstants
    <3> QED BY <3>1 DEF Init, TypeOK, Places
  <2>2. LockInv
    BY PipeConstants DEF Init, LockInv, WriterHolds, ReaderHolds, WriterPlaces, ReaderPlaces
  <2>3. EndsInv
    BY DEF Init, EndsInv, WriterHolds, ReaderHolds, WriterPlaces, ReaderPlaces
  <2>4. WriterSleepInv
    BY DEF Init, WriterSleepInv, Procs
  <2> QED BY <2>1, <2>2, <2>3, <2>4 DEF IInv
<1>2. IInv /\ [Next]_vars => IInv'
  BY TypeStep, LockStep, EndsStep, WriterSleepStep DEF IInv
<1> QED BY <1>1, <1>2, PTL DEF Spec

\* The variables of the pipe keep their types; the counters stay unsigned.
THEOREM TypeCorrect == Spec => []TypeOK
<1>1. IInv => TypeOK
  BY DEF IInv
<1> QED BY <1>1, Invariance, PTL

\* A pipe is freed only when nobody uses it or still can.
THEOREM FreeIsSafe == Spec => []FreedIsUnused
<1>1. IInv => FreedIsUnused
  <2> SUFFICES ASSUME IInv, freed PROVE open = {} /\ lock = NoProc /\ \A p \in Procs : pc[p] = "user"
    BY DEF FreedIsUnused
  <2>1. \A p \in Procs : pc[p] = "user"
    BY DEF IInv, EndsInv, Procs
  <2>2. open = {}
    BY DEF IInv, EndsInv, Procs, TypeOK
  <2>3. lock = NoProc
    BY <2>1 DEF IInv, LockInv, TypeOK, WriterHolds, ReaderHolds
  <2> QED BY <2>1, <2>2, <2>3
<1> QED BY <1>1, Invariance, PTL

\* No writer is left asleep on a pipe with room or without a reader.
THEOREM WritersAreWoken == Spec => []NoWriterLeftAsleep
<1>1. IInv => NoWriterLeftAsleep
  <2> SUFFICES ASSUME IInv, lock = NoProc, NEW p \in Writers, pc[p] = "w_sleep"
               PROVE  Full /\ readopen
    BY DEF NoWriterLeftAsleep
  <2>1. \A r \in Readers : pc[r] # "r_copy"
    BY PipeConstants DEF IInv, LockInv, Procs, ReaderHolds
  <2> QED BY <2>1 DEF IInv, WriterSleepInv
<1> QED BY <1>1, Invariance, PTL

\* Where kill() is never called for a writer, no reader is left asleep on a pipe
\* with bytes to read or without a writer.
THEOREM ReadersAreWoken ==
  ASSUME Killable \cap Writers = {}
  PROVE  Spec => []NoReaderLeftAsleep
<1> DEFINE RInv == ReaderSleepInv /\ \A w \in Writers : ~killed[w]
<1>1. Init => RInv
  BY DEF Init, ReaderSleepInv, Procs
<1>2. IInv /\ RInv /\ [Next]_vars => RInv'
  <2> SUFFICES ASSUME IInv, RInv, [Next]_vars PROVE RInv'
    OBVIOUS
  <2>1. ReaderSleepInv'
    BY ReaderSleepStep
  <2>2. ASSUME NEW w \in Writers PROVE ~killed'[w]
    <3>1. CASE killed' = killed
      BY <3>1
    <3>2. CASE PipeAlloc
      BY <3>2 DEF PipeAlloc, Procs
    <3>3. ASSUME NEW p \in Procs, Kill(p) PROVE ~killed'[w]
      BY <3>3 DEF Kill, IInv, TypeOK, Procs
    <3> QED BY <3>1, <3>2, <3>3 DEF Next, vars, PipeWrite, PipeRead, InCall, WriteAcquire, ReadAcquire,
            Acquire, WriteFails, WriteWaits, WriteSleep, WriteByte, WriteReturns, ReadWaits,
            ReadKilled, ReadSleep, ReadStarts, ReadByte, ReadByteLost, ReadReturns, PipeClose,
            FileClose
  <2> QED BY <2>1, <2>2
<1>3. IInv /\ RInv => NoReaderLeftAsleep
  <2> SUFFICES ASSUME IInv, RInv, lock = NoProc, NEW p \in Readers, pc[p] = "r_sleep"
               PROVE  Empty /\ writeopen
    BY DEF NoReaderLeftAsleep
  <2>1. \A w \in Writers : pc[w] \notin WriterHolds
    BY PipeConstants DEF IInv, LockInv, Procs
  <2> QED BY <2>1 DEF ReaderSleepInv
<1> QED BY <1>1, <1>2, <1>3, Invariance, PTL DEF Spec

\* A reader that has copied nothing yet was right to leave its waiting loop.
CopyInv == \A p \in Readers : pc[p] = "r_copy" /\ i[p] = 0 => ~ReadMustWait

LEMMA CopyStep == ASSUME IInv, CopyInv, [Next]_vars PROVE CopyInv'
<1> USE DEF IInv, WriterHolds, ReaderHolds, At, ends, ring, locals, Procs
<1>t. /\ pc \in [Procs -> Places] /\ i \in [Procs -> 0..MaxN] /\ MaxN \in Nat
      /\ Readers \cap Writers = {} /\ NoProc \notin Procs
  BY PipeConstants DEF TypeOK
<1>l. LockInv
  OBVIOUS
\* Whatever changes the ring or the write end, no reader is copying.
<1>n. ASSUME \A r \in Readers : pc'[r] # "r_copy" PROVE CopyInv'
  BY <1>n DEF CopyInv
<1>q. ASSUME UNCHANGED <<nread, nwrite, writeopen>>,
             \A r \in Readers : pc'[r] = "r_copy" => pc[r] = "r_copy" /\ i'[r] = i[r]
      PROVE CopyInv'
  BY <1>q DEF CopyInv, ReadMustWait, Empty
<1>1. CASE UNCHANGED vars
  BY <1>1, <1>q DEF vars
<1>2. ASSUME NEW p \in Procs, NEW k \in 0..MaxN, PipeWrite(p, k) \/ PipeRead(p, k) PROVE CopyInv'
  BY <1>2, <1>t, <1>q DEF PipeWrite, PipeRead
<1>3. ASSUME NEW p \in Procs, InCall(p) PROVE CopyInv'
  <2>1. CASE WriteAcquire(p) \/ ReadAcquire(p) \/ WriteFails(p) \/ WriteWaits(p)
             \/ ReadWaits(p) \/ ReadKilled(p) \/ ReadSleep(p)
    BY <2>1, <1>t, <1>q DEF WriteAcquire, ReadAcquire, Acquire, WriteFails, WriteWaits, ReadWaits,
       ReadKilled, ReadSleep
  <2>2. CASE WriteSleep(p) \/ WriteReturns(p) \/ ReadReturns(p)
    BY <2>2, <1>t, <1>q DEF WriteSleep, WriteReturns, ReadReturns, WakeReaders, WakeWriters
  <2>3. CASE ReadStarts(p)
    BY <2>3, <1>t DEF ReadStarts, CopyInv, ReadMustWait, Empty
  <2>4. CASE ReadByte(p)
    <3>1. \A r \in Readers : pc'[r] = "r_copy" => r = p
      BY <2>4, <1>t, <1>l DEF ReadByte, InReadLoop, LockInv
    <3>2. i'[p] # 0
      BY <2>4, <1>t DEF ReadByte
    <3> QED BY <3>1, <3>2 DEF CopyInv
  <2>5. CASE ReadByteLost(p)
    BY <2>5, <1>t, <1>l, <1>n DEF ReadByteLost, InReadLoop, WakeWriters, LockInv
  <2>6. ASSUME NEW c \in Bytes, WriteByte(p, c) PROVE CopyInv'
    BY <2>6, <1>t, <1>l, <1>n DEF WriteByte, InWriteLoop, LockInv
  <2>7. CASE PipeClose(p)
    <3>1. \A r \in Readers : pc[r] # "r_copy"
      BY <2>7, <1>t, <1>l DEF PipeClose, LockInv
    <3> QED BY <2>7, <1>t, <1>n, <3>1 DEF PipeClose, WakeReaders, WakeWriters
  <2> QED BY <1>3, <2>1, <2>2, <2>3, <2>4, <2>5, <2>6, <2>7 DEF InCall
<1>4. ASSUME NEW p \in Procs, FileClose(p) PROVE CopyInv'
  BY <1>4, <1>t, <1>q DEF FileClose
<1>5. ASSUME NEW p \in Procs, Kill(p) PROVE CopyInv'
  BY <1>5, <1>t, <1>q DEF Kill
<1>6. CASE PipeAlloc
  <2>1. \A p \in Procs : pc[p] = "user" /\ pc' = pc
    BY <1>6 DEF PipeAlloc, EndsInv
  <2> QED BY <2>1, <1>n
<1> QED BY <1>1, <1>2, <1>3, <1>4, <1>5, <1>6 DEF Next

\* A read that returns no byte without meeting a bad address has met the end
\* of the file.
THEOREM ZeroIsEof == Spec => ZeroMeansEof
<1>1. Init => CopyInv
  BY DEF Init, CopyInv, Procs
<1>2. IInv /\ CopyInv /\ [Next]_vars => CopyInv'
  BY CopyStep
<1>3. IInv /\ CopyInv /\ [Next]_vars =>
        [\A p \in Readers :
           /\ pc[p] = "r_copy" /\ pc'[p] = "user"
           /\ i[p] = 0 /\ n[p] > 0 /\ nread' = nread
           => ~writeopen]_vars
  <2> SUFFICES ASSUME IInv, CopyInv, [Next]_vars, NEW p \in Readers,
                      pc[p] = "r_copy", pc'[p] = "user", i[p] = 0, n[p] > 0, nread' = nread
               PROVE  ~writeopen
    OBVIOUS
  <2> USE DEF At, WakeReaders, WakeWriters, WriterHolds, ReaderHolds, Procs
  <2>t. /\ pc \in [Procs -> Places] /\ i \in [Procs -> 0..MaxN] /\ n \in [Procs -> 0..MaxN]
        /\ nread \in 0..(UINT - 1)
    BY DEF IInv, TypeOK
  <2>l. LockInv
    BY DEF IInv
  <2>1. ReadReturns(p) \/ ReadByteLost(p)
    <3>1. pc' # pc
      OBVIOUS
    <3>2. ASSUME NEW q \in Procs, InCall(q) PROVE ReadReturns(p) \/ ReadByteLost(p)
      <4>1. CASE q = p
        BY <3>2, <4>1, <2>t DEF InCall, WriteAcquire, ReadAcquire, Acquire, WriteFails, WriteWaits,
           WriteSleep, WriteByte, WriteReturns, InWriteLoop, ReadWaits, ReadKilled, ReadSleep,
           ReadStarts, ReadByte, PipeClose
      <4>2. CASE q # p
        <5>1. pc'[p] # "user"
          BY <3>2, <4>2, <2>t DEF InCall, WriteAcquire, ReadAcquire, Acquire, WriteFails, WriteWaits,
             WriteSleep, WriteByte, WriteReturns, ReadWaits, ReadKilled, ReadSleep,
             ReadStarts, ReadByte, ReadByteLost, ReadReturns, PipeClose
        <5> QED BY <5>1
      <4> QED BY <4>1, <4>2
    <3>3. ASSUME NEW q \in Procs, NEW k \in 0..MaxN, PipeWrite(q, k) \/ PipeRead(q, k) PROVE FALSE
      BY <3>3, <2>t DEF PipeWrite, PipeRead
    <3>4. ASSUME NEW q \in Procs, FileClose(q) \/ Kill(q) PROVE FALSE
      BY <3>4, <2>t DEF FileClose, Kill
    <3> QED BY <3>1, <3>2, <3>3, <3>4 DEF Next, PipeAlloc, vars
  <2>2. ~ReadByteLost(p)
    BY <2>t, NextDiffers DEF ReadByteLost
  <2>3. Empty
    BY <2>1, <2>2 DEF ReadReturns
  <2> QED BY <2>3 DEF CopyInv, ReadMustWait
<1> QED BY <1>1, <1>2, <1>3, Invariance, PTL DEF Spec, ZeroMeansEof

\* Whoever is killed, piperead() and pipewrite() leave no writer asleep beside
\* free space, and pipeclose() frees the pipe after everybody else.
THEOREM PipeSafety == Spec => []PipeSafe
  BY TypeCorrect, WritersAreWoken, FreeIsSafe, PTL DEF PipeSafe

----------------------------------------------------------------------------
\* Arithmetic of remainders, for the wrapping counters.

LEMMA DivMod ==
  ASSUME NEW m \in Nat \ {0}, NEW a \in Int
  PROVE  a \div m \in Int /\ a % m \in 0..(m - 1) /\ a % m = a - m * (a \div m)
<1>1. m \in Int /\ m > 0
  OBVIOUS
<1>2. a \div m \in Int /\ a % m = a - m * (a \div m)
  BY <1>1, SMT
<1>3. a % m \in 0..(m - 1)
  OBVIOUS
<1> QED BY <1>2, <1>3

LEMMA Remainder ==
  ASSUME NEW m \in Nat \ {0}, NEW q \in Int, NEW r \in 0..(m - 1)
  PROVE  (m * q + r) % m = r
OBVIOUS

LEMMA ModAdd ==
  ASSUME NEW m \in Nat \ {0}, NEW u \in Int, u % m = 0, NEW a \in Int
  PROVE  (a + u) % m = a % m
<1> DEFINE qa == a \div m  qu == u \div m  r == a % m
<1>1. qa \in Int /\ r \in 0..(m - 1) /\ r = a - m * qa
  BY DivMod
<1>2. qu \in Int /\ u = m * qu
  <2>1. qu \in Int /\ u % m = u - m * qu
    BY DivMod
  <2>2. m * qu \in Int
    BY <2>1
  <2> QED BY <2>1, <2>2
<1> HIDE DEF qa, qu, r
<1>3. qa + qu \in Int /\ m * qa \in Int /\ m * (qa + qu) = m * qa + m * qu
  BY <1>1, <1>2
<1>4. a + u = m * (qa + qu) + r
  BY <1>1, <1>2, <1>3
<1>5. (m * (qa + qu) + r) % m = r
  BY <1>1, <1>3, Remainder
<1> QED BY <1>4, <1>5 DEF r

LEMMA ModDiffers ==
  ASSUME NEW m \in Nat \ {0}, NEW a \in Int, NEW b \in Int, a < b, b - a < m
  PROVE  a % m # b % m
<1> SUFFICES ASSUME a % m = b % m PROVE FALSE
  OBVIOUS
<1> DEFINE qa == a \div m  qb == b \div m  r == a % m
<1>1. qa \in Int /\ r \in 0..(m - 1) /\ r = a - m * qa
  BY DivMod
<1>2. qb \in Int /\ r = b - m * qb
  BY DivMod
<1> HIDE DEF qa, qb, r
<1>3. m * qa \in Int /\ m * qb \in Int /\ m * (qb - qa) = m * qb - m * qa
  BY <1>1, <1>2
<1>4. m * (qb - qa) = b - a
  BY <1>1, <1>2, <1>3
<1>5. qb - qa \in Int
  BY <1>1, <1>2
<1>6. CASE qb - qa =< 0
  <2>1. m * (qb - qa) =< 0
    BY <1>5, <1>6
  <2> QED BY <1>4, <2>1
<1>7. CASE qb - qa >= 1
  <2>1. m * (qb - qa) >= m
    BY <1>5, <1>7
  <2> QED BY <1>4, <2>1
<1> QED BY <1>5, <1>6, <1>7

\* A value less than UINT away from the unsigned range wraps once.
LEMMA Wrap ==
  ASSUME NEW a \in Int, -UINT =< a, a < 2 * UINT
  PROVE  a % UINT = IF a < 0 THEN a + UINT ELSE IF a < UINT THEN a ELSE a - UINT
<1>1. UINT \in Nat \ {0}
  BY PipeConstants
<1>2. CASE a < 0
  <2>1. (UINT * (-1) + (a + UINT)) % UINT = a + UINT
    BY <1>1, <1>2, Remainder
  <2> QED BY <1>1, <1>2, <2>1
<1>3. CASE 0 =< a /\ a < UINT
  BY <1>1, <1>3
<1>4. CASE UINT =< a
  <2>1. (UINT * 1 + (a - UINT)) % UINT = a - UINT
    BY <1>1, <1>4, Remainder
  <2> QED BY <1>1, <1>4, <2>1
<1> QED BY <1>1, <1>2, <1>3, <1>4

\* Wrapping at UINT does not show in the index of data[], UINT being a multiple
\* of PIPESIZE.
LEMMA SlotWraps ==
  ASSUME NEW a \in Int, -UINT =< a, a < 2 * UINT
  PROVE  (a % UINT) % PIPESIZE = a % PIPESIZE
<1>1. /\ PIPESIZE \in Nat \ {0} /\ UINT \in Int /\ UINT % PIPESIZE = 0
  BY PipeConstants
<1>2. CASE a < 0
  <2>1. a % UINT = a + UINT
    BY <1>2, Wrap
  <2>2. (a + UINT) % PIPESIZE = a % PIPESIZE
    BY <1>1, ModAdd
  <2> QED BY <2>1, <2>2
<1>3. CASE 0 =< a /\ a < UINT
  BY <1>3, Wrap
<1>4. CASE UINT =< a
  <2>1. a % UINT = a - UINT /\ a - UINT \in Int
    BY <1>1, <1>4, Wrap, PipeConstants
  <2>2. ((a - UINT) + UINT) % PIPESIZE = (a - UINT) % PIPESIZE
    BY <1>1, <2>1, ModAdd
  <2>3. (a - UINT) + UINT = a
    BY <1>1
  <2> QED BY <2>1, <2>2, <2>3
<1> QED BY <1>1, <1>2, <1>3, <1>4

----------------------------------------------------------------------------
\* The number of bytes in the ring, and where the j-th of them is.
Used == (nwrite - nread) % UINT
Slot(j) == (nread + j - 1) % PIPESIZE

LEMMA Counters ==
  ASSUME TypeOK
  PROVE  /\ nread \in Int /\ nwrite \in Int /\ 0 =< nread /\ nread < UINT /\ 0 =< nwrite /\ nwrite < UINT
         /\ PIPESIZE \in Int /\ UINT \in Int /\ 0 < PIPESIZE /\ PIPESIZE < UINT
         /\ Used = IF nwrite < nread THEN nwrite - nread + UINT ELSE nwrite - nread
<1>1. /\ nread \in Int /\ nwrite \in Int /\ 0 =< nread /\ nread < UINT /\ 0 =< nwrite /\ nwrite < UINT
      /\ PIPESIZE \in Int /\ UINT \in Int /\ 0 < PIPESIZE /\ PIPESIZE < UINT
  BY PipeConstants DEF TypeOK
<1>2. Used = IF nwrite - nread < 0 THEN nwrite - nread + UINT
             ELSE IF nwrite - nread < UINT THEN nwrite - nread ELSE nwrite - nread - UINT
  BY <1>1, Wrap DEF Used
<1> QED BY <1>1, <1>2

\* Empty and Full are what they say.
LEMMA EmptyFull ==
  ASSUME TypeOK
  PROVE  /\ Used \in Nat /\ Used < UINT
         /\ Empty <=> Used = 0
         /\ Full <=> Used = PIPESIZE
<1>1. Used \in Nat /\ Used < UINT /\ (Empty <=> Used = 0)
  BY Counters DEF Empty
<1>2. (nread + PIPESIZE) % UINT = IF nread + PIPESIZE < UINT THEN nread + PIPESIZE
                                  ELSE nread + PIPESIZE - UINT
  BY Counters, Wrap
<1>3. Full <=> Used = PIPESIZE
  BY <1>2, Counters DEF Full
<1> QED BY <1>1, <1>3

\* The ring as a sequence of bytes.
LEMMA ContentsSeq ==
  ASSUME TypeOK
  PROVE  /\ Contents = [j \in 1..Used |-> data[Slot(j)]]
         /\ \A j \in 1..Used : Slot(j) \in 0..(PIPESIZE - 1)
         /\ Contents \in Seq(Bytes) /\ Len(Contents) = Used
<1>1. Used \in Nat /\ Used < UINT
  BY EmptyFull
<1>2. ASSUME NEW j \in 1..Used
      PROVE  /\ ((nread + j - 1) % UINT) % PIPESIZE = Slot(j)
             /\ Slot(j) \in 0..(PIPESIZE - 1)
  <2>1. nread + j - 1 \in Int /\ -UINT =< nread + j - 1 /\ nread + j - 1 < 2 * UINT
    BY <1>1, Counters
  <2>2. Slot(j) \in 0..(PIPESIZE - 1)
    BY <2>1, PipeConstants, DivMod DEF Slot
  <2> QED BY <2>1, <2>2, SlotWraps DEF Slot
<1>3. Contents = [j \in 1..Used |-> data[Slot(j)]]
  BY <1>2 DEF Contents, Used
<1>4. \A j \in 1..Used : data[Slot(j)] \in Bytes
  BY <1>2 DEF TypeOK
<1>5. Contents \in Seq(Bytes) /\ Len(Contents) = Used
  <2> DEFINE f == [j \in 1..Used |-> data[Slot(j)]]
  <2>1. f \in [1..Used -> Bytes]
    BY <1>4
  <2> HIDE DEF f
  <2>2. f \in Seq(Bytes) /\ Len(f) = Used
    BY <1>1, <2>1
  <2> QED BY <1>3, <2>2 DEF f
<1> QED BY <1>2, <1>3, <1>5

LEMMA UsedNext ==
  TypeOK' => Used' = IF nwrite' < nread' THEN nwrite' - nread' + UINT ELSE nwrite' - nread'
<1>1. TypeOK => Used = IF nwrite < nread THEN nwrite - nread + UINT ELSE nwrite - nread
  BY Counters
<1>2. TypeOK' => (Used = IF nwrite < nread THEN nwrite - nread + UINT ELSE nwrite - nread)'
  BY <1>1, PTL
<1> QED BY <1>2

LEMMA ContentsNext ==
  TypeOK' => /\ Contents' = [j \in 1..Used' |-> data'[Slot(j)']]
             /\ Contents' \in Seq(Bytes) /\ Len(Contents') = Used'
<1>1. TypeOK => /\ Contents = [j \in 1..Used |-> data[Slot(j)]]
                /\ Contents \in Seq(Bytes) /\ Len(Contents) = Used
  BY ContentsSeq
<1>2. TypeOK' => (/\ Contents = [j \in 1..Used |-> data[Slot(j)]]
                  /\ Contents \in Seq(Bytes) /\ Len(Contents) = Used)'
  BY <1>1, PTL
<1> QED BY <1>2

LEMMA Appended ==
  ASSUME NEW s \in Seq(Bytes), NEW t \in Seq(Bytes), NEW c \in Bytes,
         Len(t) = Len(s) + 1, \A j \in 1..Len(s) : t[j] = s[j], t[Len(s) + 1] = c
  PROVE  t = Append(s, c)
<1> DEFINE a == Append(s, c)
<1>1. /\ a \in Seq(Bytes) /\ Len(a) = Len(s) + 1 /\ a[Len(s) + 1] = c
      /\ \A j \in 1..Len(s) : a[j] = s[j]
  BY AppendProperties
<1> HIDE DEF a
<1>2. Len(s) \in Nat
  BY LenProperties
<1>3. \A j \in 1..Len(t) : j \in 1..Len(s) \/ j = Len(s) + 1
  BY <1>2
<1>4. t = a
  BY <1>1, <1>3, SeqEqual
<1> QED BY <1>4 DEF a

LEMMA Shifted ==
  ASSUME NEW s \in Seq(Bytes), NEW t \in Seq(Bytes),
         Len(s) # 0, Len(t) = Len(s) - 1, \A j \in 1..(Len(s) - 1) : t[j] = s[j + 1]
  PROVE  s # <<>> /\ t = Tail(s)
<1> DEFINE a == Tail(s)
<1>1. s # <<>>
  BY EmptySeq
<1>2. a \in Seq(Bytes) /\ Len(a) = Len(s) - 1 /\ \A j \in 1..Len(a) : a[j] = s[j + 1]
  BY <1>1, HeadTailProperties
<1> HIDE DEF a
<1>3. t = a
  BY <1>2, SeqEqual
<1> QED BY <1>1, <1>3 DEF a

\* pipewrite() appends a byte.
LEMMA PutByte ==
  ASSUME TypeOK, TypeOK', Used < PIPESIZE, NEW c \in Bytes,
         data' = [data EXCEPT ![nwrite % PIPESIZE] = c],
         nwrite' = (nwrite + 1) % UINT, UNCHANGED nread
  PROVE  Used' = Used + 1 /\ Contents' = Append(Contents, c)
<1>1. Used \in Nat /\ Used < UINT
  BY EmptyFull
<1>2. nwrite' = IF nwrite + 1 = UINT THEN 0 ELSE nwrite + 1
  BY Counters, Wrap
<1>3. Used' = IF nwrite' < nread' THEN nwrite' - nread' + UINT ELSE nwrite' - nread'
  BY UsedNext
<1>4. Used' = Used + 1
  <2>1. CASE nwrite + 1 = UINT
    <3>1. nwrite' = 0 /\ nread' = nread /\ nwrite = UINT - 1
      BY <1>2, <2>1, Counters
    <3>2. Used = UINT - 1 - nread
      BY <3>1, Counters
    <3>3. nread # 0
      BY <3>2, Counters
    <3>4. Used' = UINT - nread
      BY <1>3, <3>1, <3>3, Counters
    <3> QED BY <3>2, <3>4, Counters
  <2>2. CASE nwrite + 1 # UINT
    BY <1>1, <1>2, <1>3, <2>2, Counters
  <2> QED BY <2>1, <2>2
<1>5. Slot(Used + 1) = nwrite % PIPESIZE
  <2>1. (nread + Used) % UINT = nwrite
    BY <1>1, Counters, Wrap
  <2>2. nread + Used \in Int /\ -UINT =< nread + Used /\ nread + Used < 2 * UINT
    BY <1>1, Counters
  <2>3. nread + (Used + 1) - 1 = nread + Used
    BY <1>1, Counters
  <2> QED BY <2>1, <2>2, <2>3, SlotWraps DEF Slot
<1>6. ASSUME NEW j \in 1..Used PROVE Slot(j) # Slot(Used + 1)
  <2>1. /\ nread + j - 1 \in Int /\ nread + (Used + 1) - 1 \in Int
        /\ nread + j - 1 < nread + (Used + 1) - 1
        /\ (nread + (Used + 1) - 1) - (nread + j - 1) < PIPESIZE
    BY <1>1, Counters
  <2>2. PIPESIZE \in Nat \ {0}
    BY PipeConstants
  <2> QED BY <2>1, <2>2, ModDiffers DEF Slot
<1>7. Contents = [j \in 1..Used |-> data[Slot(j)]] /\ Contents \in Seq(Bytes) /\ Len(Contents) = Used
      /\ \A j \in 1..Used : Slot(j) \in 0..(PIPESIZE - 1)
  BY ContentsSeq
<1>8. Contents' = [j \in 1..(Used + 1) |-> data'[Slot(j)]] /\ Contents' \in Seq(Bytes) /\ Len(Contents') = Used + 1
  <2>1. \A j : Slot(j)' = Slot(j)
    BY DEF Slot
  <2> QED BY <1>4, <2>1, ContentsNext
<1>9. nwrite % PIPESIZE \in 0..(PIPESIZE - 1)
  BY Counters, PipeConstants, DivMod
<1>10. ASSUME NEW j \in 1..Used PROVE Contents'[j] = Contents[j]
  <2>1. data'[Slot(j)] = data[Slot(j)]
    BY <1>5, <1>6, <1>7, <1>9 DEF TypeOK
  <2>2. j \in 1..(Used + 1)
    BY <1>1
  <2> QED BY <1>7, <1>8, <2>1, <2>2
<1>11. Contents'[Used + 1] = c
  <2>1. Used + 1 \in 1..(Used + 1)
    BY <1>1
  <2> QED BY <1>5, <1>8, <1>9, <2>1 DEF TypeOK
<1>12. Contents' = Append(Contents, c)
  <2>1. Len(Contents') = Len(Contents) + 1
    BY <1>7, <1>8
  <2>2. \A j \in 1..Len(Contents) : Contents'[j] = Contents[j]
    BY <1>7, <1>10
  <2>3. Contents'[Len(Contents) + 1] = c
    BY <1>7, <1>11
  <2>4. PICK s \in Seq(Bytes), t \in Seq(Bytes) : s = Contents /\ t = Contents'
    BY <1>7, <1>8
  <2>5. /\ Len(t) = Len(s) + 1 /\ t[Len(s) + 1] = c
        /\ \A j \in 1..Len(s) : t[j] = s[j]
    BY <2>1, <2>2, <2>3, <2>4
  <2>6. t = Append(s, c)
    BY <2>5, Appended
  <2> QED BY <2>4, <2>6
<1> QED BY <1>4, <1>12

\* piperead() takes the byte at the front.
LEMMA TakeByte ==
  ASSUME TypeOK, TypeOK', Used # 0,
         nread' = (nread + 1) % UINT, UNCHANGED <<data, nwrite>>
  PROVE  Used' = Used - 1 /\ Contents # <<>> /\ Contents' = Tail(Contents)
<1>1. Used \in Nat /\ Used < UINT
  BY EmptyFull
<1>2. nread' = IF nread + 1 = UINT THEN 0 ELSE nread + 1
  BY Counters, Wrap
<1>3. Used' = IF nwrite' < nread' THEN nwrite' - nread' + UINT ELSE nwrite' - nread'
  BY UsedNext
<1>4. Used' = Used - 1
  BY <1>1, <1>2, <1>3, Counters
<1>5. ASSUME NEW j \in 1..(Used - 1) PROVE Slot(j)' = Slot(j + 1)
  <2>1. /\ nread' + j - 1 \in Int /\ nread + (j + 1) - 1 \in Int /\ UINT \in Int /\ PIPESIZE \in Nat \ {0}
        /\ UINT % PIPESIZE = 0
    BY <1>1, <1>2, Counters, PipeConstants
  <2>2. CASE nread + 1 = UINT
    <3>1. nread + (j + 1) - 1 = (nread' + j - 1) + UINT
      BY <1>1, <1>2, <2>2, Counters
    <3>2. ((nread' + j - 1) + UINT) % PIPESIZE = (nread' + j - 1) % PIPESIZE
      BY <2>1, ModAdd
    <3> QED BY <3>1, <3>2 DEF Slot
  <2>3. CASE nread + 1 # UINT
    <3>1. nread + (j + 1) - 1 = nread' + j - 1
      BY <1>1, <1>2, <2>3, Counters
    <3> QED BY <3>1 DEF Slot
  <2> QED BY <2>2, <2>3
<1>7. Contents = [j \in 1..Used |-> data[Slot(j)]] /\ Contents \in Seq(Bytes) /\ Len(Contents) = Used
  BY ContentsSeq
<1>8. /\ Contents' = [j \in 1..(Used - 1) |-> data[Slot(j)']]
      /\ Contents' \in Seq(Bytes) /\ Len(Contents') = Used - 1
  BY <1>4, ContentsNext
<1>9. ASSUME NEW j \in 1..(Used - 1) PROVE Contents'[j] = Contents[j + 1]
  <2>1. Contents'[j] = data[Slot(j + 1)]
    BY <1>5, <1>8
  <2>2. j + 1 \in 1..Used
    BY <1>1
  <2> QED BY <1>7, <2>1, <2>2
<1>10. Contents # <<>> /\ Contents' = Tail(Contents)
  BY <1>1, <1>7, <1>8, <1>9, Shifted
<1> QED BY <1>4, <1>10

----------------------------------------------------------------------------
\* The ring never holds more than PIPESIZE bytes.
RingInv == Used =< PIPESIZE

\* A step that leaves the counters and the bytes alone leaves the contents alone.
LEMMA RingKept ==
  ASSUME UNCHANGED ring
  PROVE  Used' = Used /\ Contents' = Contents
BY DEF ring, Used, Contents

\* Every step of the pipe is a step of the queue, or none.
LEMMA StreamStep ==
  ASSUME IInv, TypeOK', RingInv, [Next]_vars
  PROVE  RingInv' /\ (BS!BNext \/ UNCHANGED <<Contents, freed>>)
<1>t. TypeOK /\ LockInv /\ EndsInv
  BY DEF IInv
<1> DEFINE Kept == UNCHANGED ring /\ UNCHANGED freed
<1>k. ASSUME Kept PROVE RingInv' /\ UNCHANGED <<Contents, freed>>
  BY <1>k, RingKept, PipeConstants DEF RingInv
<1>1. CASE UNCHANGED vars
  BY <1>1, <1>k DEF vars, ring
<1>2. ASSUME NEW p \in Procs, NEW k \in 0..MaxN, PipeWrite(p, k) \/ PipeRead(p, k)
      PROVE  Kept
  BY <1>2 DEF PipeWrite, PipeRead, ends
<1>3. ASSUME NEW p \in Procs, FileClose(p) \/ Kill(p) PROVE Kept
  BY <1>3 DEF FileClose, Kill, ends
<1>4. ASSUME NEW p \in Procs, WriteAcquire(p) \/ WriteFails(p) \/ WriteWaits(p) \/ WriteSleep(p) \/ WriteReturns(p)
      PROVE  Kept
  BY <1>4 DEF WriteAcquire, Acquire, WriteFails, WriteWaits, WriteSleep, WriteReturns, ends
<1>5. ASSUME NEW p \in Procs, ReadAcquire(p) \/ ReadWaits(p) \/ ReadKilled(p) \/ ReadSleep(p) \/ ReadStarts(p) \/ ReadReturns(p)
      PROVE  Kept
  BY <1>5 DEF ReadAcquire, Acquire, ReadWaits, ReadKilled, ReadSleep, ReadStarts, ReadReturns, ends
<1>6. ASSUME NEW p \in Procs, pc[p] \in {"w_loop", "r_copy", "closing"} PROVE ~freed
  BY <1>t, <1>6 DEF EndsInv, Procs
<1>7. ASSUME NEW p \in Procs, NEW c \in Bytes, WriteByte(p, c) PROVE RingInv' /\ BS!BNext
  <2>1. ~freed /\ UNCHANGED freed
    BY <1>6, <1>7 DEF WriteByte, InWriteLoop, ends
  <2>2. Used < PIPESIZE
    BY <1>t, <1>7, EmptyFull, PipeConstants DEF WriteByte, RingInv
  <2>3. Used' = Used + 1 /\ Contents' = Append(Contents, c)
    BY <1>t, <1>7, <2>2, PutByte DEF WriteByte
  <2>4. Len(Contents) = Used
    BY <1>t, ContentsSeq
  <2>5. BS!Put(c)
    BY <2>1, <2>2, <2>3, <2>4 DEF BS!Put
  <2>6. RingInv'
    BY <1>t, <2>2, <2>3, EmptyFull, PipeConstants DEF RingInv
  <2> QED BY <2>5, <2>6 DEF BS!BNext
<1>8. ASSUME NEW p \in Procs, ReadByte(p) \/ ReadByteLost(p) PROVE RingInv' /\ BS!BNext
  <2>1. ~freed /\ UNCHANGED freed
    BY <1>6, <1>8 DEF ReadByte, ReadByteLost, InReadLoop, ends
  <2>2. Used # 0
    BY <1>t, <1>8, EmptyFull DEF ReadByte, ReadByteLost, InReadLoop
  <2>3. Used' = Used - 1 /\ Contents # <<>> /\ Contents' = Tail(Contents)
    BY <1>t, <1>8, <2>2, TakeByte DEF ReadByte, ReadByteLost
  <2>4. BS!Take
    BY <2>1, <2>3 DEF BS!Take
  <2>5. RingInv'
    BY <1>t, <2>3, EmptyFull, PipeConstants DEF RingInv
  <2> QED BY <2>4, <2>5 DEF BS!BNext
<1>9. ASSUME NEW p \in Procs, PipeClose(p)
      PROVE  RingInv' /\ (BS!BNext \/ UNCHANGED <<Contents, freed>>)
  <2>1. ~freed /\ UNCHANGED ring
    BY <1>6, <1>9 DEF PipeClose
  <2>2. Contents' = Contents /\ RingInv'
    BY <2>1, RingKept, PipeConstants DEF RingInv
  <2>3. CASE freed'
    BY <2>1, <2>2, <2>3 DEF BS!BNext, BS!Free
  <2>4. CASE ~freed'
    BY <1>t, <1>9, <2>1, <2>2, <2>4 DEF TypeOK, PipeClose
  <2> QED BY <2>2, <2>3, <2>4
<1>10. ASSUME PipeAlloc PROVE RingInv' /\ BS!BNext
  <2>1. Used' = 0
    BY <1>10, UsedNext DEF PipeAlloc
  <2>2. Contents' = <<>>
    BY <2>1, ContentsNext, EmptySeq
  <2> QED BY <1>10, <2>1, <2>2, PipeConstants DEF PipeAlloc, RingInv, BS!BNext, BS!Fresh
<1> QED BY <1>1, <1>2, <1>3, <1>4, <1>5, <1>7, <1>8, <1>9, <1>10, <1>k DEF Next, InCall

\* The ring with its wrapping counters implements the bounded first-in first-out
\* queue: whatever the sizes, bytes come out in the order they went in.
THEOREM PipeImplementsByteStream == Spec => ImplementsByteStream
<1>1. Init => RingInv /\ BS!BInit
  <2> SUFFICES ASSUME Init PROVE RingInv /\ BS!BInit
    OBVIOUS
  <2>1. TypeOK
    <3>1. 0 \in 0..MaxN /\ 0 \in 0..(UINT - 1)
      BY PipeConstants
    <3> QED BY <3>1 DEF Init, TypeOK, Places
  <2>2. Used = 0
    BY <2>1, EmptyFull DEF Init, Empty
  <2>3. Contents = <<>>
    BY <2>1, <2>2, ContentsSeq, EmptySeq
  <2> QED BY <2>2, <2>3, PipeConstants DEF Init, RingInv, BS!BInit
<1>2. IInv /\ IInv' /\ RingInv /\ [Next]_vars => RingInv' /\ [BS!BNext]_<<Contents, freed>>
  BY StreamStep DEF IInv
<1> QED BY <1>1, <1>2, Invariance, PTL DEF Spec, ImplementsByteStream, BS!BSpec
=============================================================================
