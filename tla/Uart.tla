-------------------------------- MODULE Uart --------------------------------
(***************************************************************************)
(* kernel/uart.c, output: processes write() through the transmit ring      *)
(* (uartputc), printf() and the echo of input write to the UART directly   *)
(* (uartputc_sync), and the transmit interrupt empties the ring.           *)
(*                                                                         *)
(* uartputc_sync() holds no lock, so the test of LSR_TX_IDLE and the write *)
(* of THR are two steps everywhere.  The device (external) is a 16550A     *)
(* with FIFOs on: TX_IDLE says that the FIFO is empty, a write of THR puts *)
(* a byte into it, and the interrupt is raised when it runs empty and      *)
(* withdrawn by a write of THR or a read of ISR.                           *)
(***************************************************************************)
EXTENDS Integers, Sequences, FiniteSets

CONSTANTS Writers,            \* processes in write() to the console
          Printers,           \* CPUs in printf() or consoleintr()
          Nobody,
          UART_TX_BUF_SIZE,
          FIFO,               \* depth of the device's FIFO
          MaxBytes            \* bound on the bytes of each writer and printer

Handler == "uartintr"
UINT64 == 4 * UART_TX_BUF_SIZE   \* where the counters wrap, 2^64 in the code

VARIABLES
  uart_tx_buf, uart_tx_w, uart_tx_r,
  uart_tx_lock,   \* its holder: a writer or the interrupt handler
  at,             \* place of the writers, the printers and the handler
  done,           \* bytes each writer or printer has handed over
  fifo, thri,     \* the device: bytes to send, transmit interrupt pending
  sent            \* bytes sent, in order

ring == <<uart_tx_buf, uart_tx_w, uart_tx_r>>
vars == <<uart_tx_buf, uart_tx_w, uart_tx_r, uart_tx_lock, at, done, fifo, thri, sent>>

Contexts == Writers \union {Handler}
Byte(x) == <<x, done[x] + 1>>
Goto(x, s) == [at EXCEPT ![x] = s]

Empty == uart_tx_w = uart_tx_r
Full == uart_tx_w = (uart_tx_r + UART_TX_BUF_SIZE) % UINT64
TxIdle == fifo = <<>>

\* WriteReg(THR, c)
WriteTHR(c) == fifo' = Append(fifo, c) /\ thri' = FALSE

----------------------------------------------------------------------------
\* uartputc(): wait for room in the ring...
PutcSleep(p) ==
  /\ at[p] = "putc" /\ uart_tx_lock = Nobody /\ Full
  /\ at' = Goto(p, "asleep")
  /\ UNCHANGED <<ring, uart_tx_lock, done, fifo, thri, sent>>

\* kill() makes a sleeping process runnable; the wait is a loop.
Kill(p) ==
  /\ at[p] = "asleep"
  /\ at' = Goto(p, "putc")
  /\ UNCHANGED <<ring, uart_tx_lock, done, fifo, thri, sent>>

\* ...put the byte into it and call uartstart().
Putc(p) ==
  /\ at[p] = "putc" /\ uart_tx_lock = Nobody /\ ~Full /\ done[p] < MaxBytes
  /\ uart_tx_buf' = [uart_tx_buf EXCEPT ![uart_tx_w % UART_TX_BUF_SIZE] = Byte(p)]
  /\ uart_tx_w' = (uart_tx_w + 1) % UINT64
  /\ done' = [done EXCEPT ![p] = @ + 1]
  /\ uart_tx_lock' = p
  /\ at' = Goto(p, "start")
  /\ UNCHANGED <<uart_tx_r, fifo, thri, sent>>

----------------------------------------------------------------------------
\* uartstart(), under uart_tx_lock.  Where its caller goes when it returns:
Caller(x) == IF x = Handler THEN "none" ELSE "putc"

\* The ring is empty: read ISR and return.
StartEmpty(x) ==
  /\ at[x] = "start" /\ Empty
  /\ thri' = FALSE
  /\ uart_tx_lock' = Nobody
  /\ at' = Goto(x, Caller(x))
  /\ UNCHANGED <<ring, done, fifo, sent>>

\* The UART is busy: it will interrupt.
StartBusy(x) ==
  /\ at[x] = "start" /\ ~Empty /\ ~TxIdle
  /\ uart_tx_lock' = Nobody
  /\ at' = Goto(x, Caller(x))
  /\ UNCHANGED <<ring, done, fifo, thri, sent>>

\* The UART was idle: send a byte...
StartIdle(x) ==
  /\ at[x] = "start" /\ ~Empty /\ TxIdle
  /\ at' = Goto(x, "send")
  /\ UNCHANGED <<ring, uart_tx_lock, done, fifo, thri, sent>>

Mut_StartSend(x) ==
  /\ at[x] = "send"
  /\ WriteTHR(uart_tx_buf[uart_tx_r % UART_TX_BUF_SIZE])
  /\ uart_tx_r' = (uart_tx_r + 1) % UINT64
  /\ at' = Goto(x, "start")
  /\ UNCHANGED <<uart_tx_buf, uart_tx_w, uart_tx_lock, done, sent>>

\* ...wake the writers who wait for room, and look again.
StartSend(x) ==
  /\ at[x] = "send"
  /\ WriteTHR(uart_tx_buf[uart_tx_r % UART_TX_BUF_SIZE])
  /\ uart_tx_r' = (uart_tx_r + 1) % UINT64
  /\ at' = [y \in DOMAIN at |-> IF y = x THEN "start" ELSE IF at[y] = "asleep" THEN "putc" ELSE at[y]]
  /\ UNCHANGED <<uart_tx_buf, uart_tx_w, uart_tx_lock, done, sent>>

\* uartintr(), its output half.
Intr ==
  /\ thri /\ at[Handler] = "none" /\ uart_tx_lock = Nobody
  /\ uart_tx_lock' = Handler
  /\ at' = Goto(Handler, "start")
  /\ UNCHANGED <<ring, done, fifo, thri, sent>>

----------------------------------------------------------------------------

\* uartputc_sync(): spin until the UART is idle, then write THR.
SyncIdle(c) ==
  /\ at[c] = "none" /\ done[c] < MaxBytes /\ TxIdle
  /\ at' = Goto(c, "sync")
  /\ UNCHANGED <<ring, uart_tx_lock, done, fifo, thri, sent>>

SyncSend(c) ==
  /\ at[c] = "sync"
  /\ WriteTHR(Byte(c))
  /\ done' = [done EXCEPT ![c] = @ + 1]
  /\ at' = Goto(c, "none")
  /\ UNCHANGED <<ring, uart_tx_lock, sent>>

\* The device sends a byte; when the FIFO runs empty it interrupts.
Transmit ==
  /\ fifo # <<>>
  /\ sent' = Append(sent, Head(fifo))
  /\ fifo' = Tail(fifo)
  /\ thri' = (thri \/ Len(fifo) = 1)
  /\ UNCHANGED <<ring, uart_tx_lock, at, done>>

Init ==
  /\ uart_tx_buf = [i \in 0..(UART_TX_BUF_SIZE - 1) |-> Nobody]
  /\ uart_tx_w = UINT64 - 1 /\ uart_tx_r = UINT64 - 1
  /\ uart_tx_lock = Nobody
  /\ at = [x \in Contexts \union Printers |-> IF x \in Writers THEN "putc" ELSE "none"]
  /\ done = [x \in Writers \union Printers |-> 0]
  /\ fifo = <<>> /\ thri = FALSE /\ sent = <<>>

Start(x) == StartEmpty(x) \/ StartBusy(x) \/ StartIdle(x) \/ StartSend(x)
Next ==
  \/ \E p \in Writers : PutcSleep(p) \/ Kill(p) \/ Putc(p)
  \/ \E x \in Contexts : Start(x)
  \/ Intr
  \/ \E c \in Printers : SyncIdle(c) \/ SyncSend(c)
  \/ Transmit

Spec == Init /\ [][Next]_vars

----------------------------------------------------------------------------
TypeOK ==
  /\ uart_tx_w \in 0..(UINT64 - 1) /\ uart_tx_r \in 0..(UINT64 - 1)
  /\ uart_tx_lock \in Contexts \union {Nobody}
  /\ at \in [Contexts \union Printers -> {"none", "putc", "asleep", "start", "send", "sync"}]
  /\ thri \in BOOLEAN

\* The bytes in the ring, oldest first.
Waiting == [i \in 1..((uart_tx_w - uart_tx_r) % UINT64) |->
              uart_tx_buf[(uart_tx_r + i - 1) % UART_TX_BUF_SIZE]]

\* No byte of write() or printf() is lost, repeated or overtaken by a later
\* one of the same caller, though the ring, the interrupt handler and the
\* unlocked uartputc_sync() feed one FIFO.
BytesInOrder ==
  \A x \in Writers \union Printers :
    LET mine == SelectSeq(sent \o fifo \o Waiting, LAMBDA b : b[1] = x)
    IN mine = [i \in 1..done[x] |-> <<x, i>>]

\* Contexts that saw LSR_TX_IDLE before they write THR can overfill the
\* device by their number at most; with no more CPUs than the FIFO is deep
\* nothing is lost.
FifoNeverOverruns == Len(fifo) <= FIFO

\* A ring that is not empty is owed a transmission: the device is busy or
\* its interrupt is pending, or somebody is in uartstart().  A writer sleeps
\* only on a full ring.
OutputKeepsMoving ==
  /\ ~Empty => fifo # <<>> \/ thri \/ uart_tx_lock # Nobody
  /\ \A p \in Writers : at[p] = "asleep" => Full

(* Serial output as a whole: in order, without overrun, and never stuck.   *)
OutputSafe == TypeOK /\ BytesInOrder /\ FifoNeverOverruns /\ OutputKeepsMoving
=============================================================================
