--------------------------- MODULE MCKernel -----------------------------------
(***************************************************************************)
(* The parts of the kernel that interrupts drive, each on an instance small *)
(* enough for every interleaving: the scheduler, traps, the clock, the     *)
(* disk driver, the buffer cache above it, the serial port and the console. *)
(* A behaviour is a behaviour of one of them, "part", chosen initially;    *)
(* the variables of the others keep a fixed initial value.                 *)
(***************************************************************************)
EXTENDS Sched, TLC

CONSTANTS
  Others,           \* a second set of two, beside CPUs
  Third,            \* a third process for the disk driver
  Blocks, None, Nobody

\* The harts, processes or threads of the parts other than the scheduler.
Actors == CPUs

VARIABLE part

VARIABLES trap_hart, trap_cpuProc, trap_at, trap_which, trap_tf, trap_kt, trap_intena,
  trap_killed, trap_level, trap_pending, trap_served, trap_expect, trap_doomed
T == INSTANCE Trap WITH Harts <- Actors, Procs <- Others, IRQs <- {"uart"}, MaxPc <- 2,
  hart <- trap_hart, cpuProc <- trap_cpuProc, at <- trap_at, which <- trap_which,
  tf <- trap_tf, kt <- trap_kt, intena <- trap_intena, killed <- trap_killed,
  level <- trap_level, pending <- trap_pending, served <- trap_served,
  expect <- trap_expect, doomed <- trap_doomed
TVars == <<trap_hart, trap_cpuProc, trap_at, trap_which, trap_tf, trap_kt, trap_intena,
  trap_killed, trap_level, trap_pending, trap_served, trap_expect, trap_doomed>>

VARIABLES clock_ticks, clock_at, clock_asked, clock_n, clock_ticks0, clock_killed,
  clock_elapsed, clock_returned
C == INSTANCE Ticks WITH Procs <- Actors, UINT <- 8, Durations <- {-1, 1, 3},
  ticks <- clock_ticks, at <- clock_at, asked <- clock_asked, n <- clock_n,
  ticks0 <- clock_ticks0, killed <- clock_killed, elapsed <- clock_elapsed,
  returned <- clock_returned
CVars == <<clock_ticks, clock_at, clock_asked, clock_n, clock_ticks0, clock_killed,
  clock_elapsed, clock_returned>>

VARIABLES disk_free, disk_desc, disk_ops, disk_info, disk_avail, disk_availIdx,
  disk_used, disk_usedIdx, disk_used_idx, disk_vdisk_lock, disk_bdisk, disk_data,
  disk_platter, disk_taken, disk_inflight, disk_irq, disk_pc, disk_idx, disk_requests,
  disk_panicked
V == INSTANCE Virtio WITH Procs <- Actors \union {Third}, NUM <- 8, StartIdx <- 65534,
  MaxRequests <- 3, free <- disk_free, desc <- disk_desc, ops <- disk_ops,
  info <- disk_info, avail <- disk_avail, availIdx <- disk_availIdx, used <- disk_used,
  usedIdx <- disk_usedIdx, used_idx <- disk_used_idx, vdisk_lock <- disk_vdisk_lock,
  bdisk <- disk_bdisk, data <- disk_data, platter <- disk_platter, taken <- disk_taken,
  inflight <- disk_inflight, irq <- disk_irq, pc <- disk_pc, idx <- disk_idx,
  requests <- disk_requests, panicked <- disk_panicked
VVars == <<disk_free, disk_desc, disk_ops, disk_info, disk_avail, disk_availIdx,
  disk_used, disk_usedIdx, disk_used_idx, disk_vdisk_lock, disk_bdisk, disk_data,
  disk_platter, disk_taken, disk_inflight, disk_irq, disk_pc, disk_idx, disk_requests,
  disk_panicked>>

VARIABLES bcache_block, bcache_valid, bcache_refcnt, bcache_newest, bcache_lru,
  bcache_holder, bcache_disk, bcache_pinned, bcache_pc, bcache_cur
B == INSTANCE BufCache WITH Procs <- Actors, NBUF <- 3, MaxPinned <- 1,
  block <- bcache_block, valid <- bcache_valid, refcnt <- bcache_refcnt,
  newest <- bcache_newest, lru <- bcache_lru, holder <- bcache_holder,
  disk <- bcache_disk, pinned <- bcache_pinned, pc <- bcache_pc, cur <- bcache_cur
BVars == <<bcache_block, bcache_valid, bcache_refcnt, bcache_newest, bcache_lru,
  bcache_holder, bcache_disk, bcache_pinned, bcache_pc, bcache_cur>>

VARIABLES uart_uart_tx_buf, uart_uart_tx_w, uart_uart_tx_r, uart_uart_tx_lock, uart_at,
  uart_done, uart_fifo, uart_thri, uart_sent
U == INSTANCE Uart WITH Writers <- Actors, Printers <- Others, UART_TX_BUF_SIZE <- 2,
  FIFO <- 3, MaxBytes <- 2, uart_tx_buf <- uart_uart_tx_buf,
  uart_tx_w <- uart_uart_tx_w, uart_tx_r <- uart_uart_tx_r,
  uart_tx_lock <- uart_uart_tx_lock, at <- uart_at, done <- uart_done,
  fifo <- uart_fifo, thri <- uart_thri, sent <- uart_sent
UVars == <<uart_uart_tx_buf, uart_uart_tx_w, uart_uart_tx_r, uart_uart_tx_lock,
  uart_at, uart_done, uart_fifo, uart_thri, uart_sent>>

VARIABLES console_buf, console_r, console_w, console_e, console_lock, console_at,
  console_n, console_target, console_killed
K == INSTANCE Console WITH Readers <- Actors, INPUT_BUF_SIZE <- 3, UINT <- 6,
  MaxN <- 2, buf <- console_buf, r <- console_r, w <- console_w, e <- console_e,
  lock <- console_lock, at <- console_at, n <- console_n, target <- console_target,
  killed <- console_killed
KVars == <<console_buf, console_r, console_w, console_e, console_lock, console_at,
  console_n, console_target, console_killed>>

---------------------------------------------------------------------------
allVars == <<part, vars, TVars, CVars, VVars, BVars, UVars, KVars>>

PartInit ==
  /\ part \in {"sched", "trap", "clock", "disk", "bcache", "uart", "console"}
  /\ Init
  /\ IF part = "trap" THEN T!Init ELSE (trap_hart = 0 /\ trap_cpuProc = 0 /\ trap_at = 0 /\ trap_which = 0 /\ trap_tf = 0 /\ trap_kt = 0 /\ trap_intena = 0 /\ trap_killed = 0 /\ trap_level = 0 /\ trap_pending = 0 /\ trap_served = 0 /\ trap_expect = 0 /\ trap_doomed = 0)
  /\ C!Init
  /\ IF part = "disk" THEN V!Init ELSE (disk_free = 0 /\ disk_desc = 0 /\ disk_ops = 0 /\ disk_info = 0 /\ disk_avail = 0 /\ disk_availIdx = 0 /\ disk_used = 0 /\ disk_usedIdx = 0 /\ disk_used_idx = 0 /\ disk_vdisk_lock = 0 /\ disk_bdisk = 0 /\ disk_data = 0 /\ disk_platter = 0 /\ disk_taken = 0 /\ disk_inflight = 0 /\ disk_irq = 0 /\ disk_pc = 0 /\ disk_idx = 0 /\ disk_requests = 0 /\ disk_panicked = 0)
  /\ IF part = "bcache" THEN B!Init ELSE (bcache_block = 0 /\ bcache_valid = 0 /\ bcache_refcnt = 0 /\ bcache_newest = 0 /\ bcache_lru = 0 /\ bcache_holder = 0 /\ bcache_disk = 0 /\ bcache_pinned = 0 /\ bcache_pc = 0 /\ bcache_cur = 0)
  /\ IF part = "uart" THEN U!Init ELSE (uart_uart_tx_buf = 0 /\ uart_uart_tx_w = 0 /\ uart_uart_tx_r = 0 /\ uart_uart_tx_lock = 0 /\ uart_at = 0 /\ uart_done = 0 /\ uart_fifo = 0 /\ uart_thri = 0 /\ uart_sent = 0)
  /\ K!Init

\* A step of part p leaves the variables of the other parts alone.
In(p) ==
  /\ part = p /\ UNCHANGED part
  /\ p # "sched" => UNCHANGED vars
  /\ p # "trap" => UNCHANGED TVars
  /\ p # "clock" => UNCHANGED CVars
  /\ p # "disk" => UNCHANGED VVars
  /\ p # "bcache" => UNCHANGED BVars
  /\ p # "uart" => UNCHANGED UVars
  /\ p # "console" => UNCHANGED KVars

\* The disk and the serial port have nothing to do once the requests are served.
Stopped == part \in {"disk", "uart"} /\ UNCHANGED allVars

PartNext ==
  \/ In("sched") /\ Next
  \/ In("trap") /\ T!Next
  \/ In("clock") /\ C!Next
  \/ In("disk") /\ V!Next
  \/ In("bcache") /\ B!Next
  \/ In("uart") /\ U!Next
  \/ In("console") /\ K!Next
  \/ Stopped

PartSpec == PartInit /\ [][PartNext]_allVars

---------------------------------------------------------------------------
(* The properties of the other parts, stated and explained in their modules. *)

\* uservec, usertrap(), kerneltrap(): the right vector, place and process, nothing lost.
TrapsSafe == part = "trap" => T!TrapsSafe

\* sys_sleep() sleeps as many ticks as asked for, not fewer and not more.
SleepsExactly == C!SleepsExactly

\* virtio_disk_rw() and virtio_disk_intr() lose no descriptor, transfer or request.
DriverSafe == part = "disk" => V!DriverSafe

\* bget(), bread() and brelse(): one buffer per block, the newest data, exact counts.
CacheCoherent == part = "bcache" => B!CacheCoherent

\* uartputc(), uartstart() and uartputc_sync() send in order and never get stuck.
OutputSafe == part = "uart" => U!OutputSafe

\* consoleintr() and consoleread() implement line input and never wait for each other.
ConsoleCorrect == K!ConsoleCorrect

Symmetry == Permutations(Actors) \union Permutations(Others)
===============================================================================
