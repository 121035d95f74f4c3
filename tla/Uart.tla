-------------------------------- MODULE Uart --------------------------------
(***************************************************************************)
(* kernel/uart.c: write() sends a byte per transmit-complete interrupt,    *)
(* with tx_busy under tx_lock; printf() and the echo of input go round     *)
(* both with uartputc_sync(), which polls the device.                      *)
(*                                                                         *)
(* Three parties run at once: the writers, one interrupt handler (the PLIC *)
(* claims the interrupt for one CPU), and one printf() (under pr.lock).    *)
(* Each register access is a step of its own.  The device is a 16550 with  *)
(* its FIFO on: LSR_TX_IDLE means an empty FIFO; the transmit interrupt is *)
(* raised when the FIFO becomes empty, and cleared by writing THR or by    *)
(* reading ISR when no receive interrupt hides it.                         *)
(***************************************************************************)
EXTENDS Integers

CONSTANTS
  Proc,    \* writers
  FIFO,    \* bytes the device can hold
  MaxN,    \* bytes of one uartwrite()
  MaxRx,   \* bytes received and not yet read
  MaxEcho  \* bytes echoed for an input byte

Nobody == "nobody"
Intr == "uartintr"
Printf == "printf"

UartAssumption ==
  /\ {FIFO, MaxN, MaxRx, MaxEcho} \subseteq Nat
  /\ Proc \cap {Nobody, Intr, Printf} = {}

VARIABLES
  fifo, irq, rx,      \* device: bytes to send, transmit interrupt, bytes received
  tx_lock, tx_busy,
  pc, n,              \* of each writer
  hpc,                \* of the interrupt handler
  sync, echo          \* of each caller of uartputc_sync; bytes left to echo

device == <<fifo, irq, rx>>
driver == <<tx_lock, tx_busy>>
vars == <<fifo, irq, rx, tx_lock, tx_busy, pc, n, hpc, sync, echo>>

TypeOK ==
  /\ fifo \in Nat /\ irq \in {0, 1} /\ rx \in 0 .. MaxRx
  /\ tx_lock \in Proc \cup {Nobody, Intr} /\ tx_busy \in {0, 1}
  /\ pc \in [Proc -> {"out", "acquire", "loop", "sent", "asleep"}]
  /\ n \in [Proc -> 0 .. MaxN]
  /\ hpc \in {"out", "entry", "acquire", "look", "idle", "getc"}
  /\ sync \in [{Printf, Intr} -> {"out", "poll", "put"}]
  /\ echo \in 0 .. MaxEcho

Init ==
  /\ fifo = 0 /\ irq = 0 /\ rx = 0
  /\ tx_lock = Nobody /\ tx_busy = 0
  /\ pc = [p \in Proc |-> "out"] /\ n = [p \in Proc |-> 0]
  /\ hpc = "out"
  /\ sync = [c \in {Printf, Intr} |-> "out"] /\ echo = 0

(***************************************************************************)
(* The device                                                              *)
(***************************************************************************)
TxIdle == fifo = 0

WriteTHR == fifo' = fifo + 1 /\ irq' = 0 /\ rx' = rx

Transmit ==
  /\ fifo > 0
  /\ fifo' = fifo - 1
  /\ irq' = IF fifo = 1 THEN 1 ELSE irq
  /\ UNCHANGED <<rx, driver, pc, n, hpc, sync, echo>>

Receive ==
  /\ rx < MaxRx
  /\ rx' = rx + 1
  /\ UNCHANGED <<fifo, irq, driver, pc, n, hpc, sync, echo>>

(***************************************************************************)
(* uartwrite                                                               *)
(***************************************************************************)
Write(p, k) ==
  /\ pc[p] = "out"
  /\ pc' = [pc EXCEPT ![p] = "acquire"] /\ n' = [n EXCEPT ![p] = k]
  /\ UNCHANGED <<device, driver, hpc, sync, echo>>

\* On entry, and again when sleep() returns.
Acquire(p) ==
  /\ pc[p] = "acquire" /\ tx_lock = Nobody
  /\ tx_lock' = p
  /\ pc' = [pc EXCEPT ![p] = "loop"]
  /\ UNCHANGED <<device, tx_busy, n, hpc, sync, echo>>

More(p) == n[p] > 0

MustWait == tx_busy # 0

WaitTx(p) ==
  /\ pc[p] = "loop" /\ More(p) /\ MustWait
  /\ tx_lock' = Nobody
  /\ pc' = [pc EXCEPT ![p] = "asleep"]
  /\ UNCHANGED <<device, tx_busy, n, hpc, sync, echo>>

Send(p) ==
  /\ pc[p] = "loop" /\ More(p) /\ ~MustWait
  /\ WriteTHR
  /\ n' = [n EXCEPT ![p] = @ - 1]
  /\ pc' = [pc EXCEPT ![p] = "sent"]
  /\ UNCHANGED <<driver, hpc, sync, echo>>

SetBusy(p) ==
  /\ pc[p] = "sent"
  /\ tx_busy' = 1
  /\ pc' = [pc EXCEPT ![p] = "loop"]
  /\ UNCHANGED <<device, tx_lock, n, hpc, sync, echo>>

WriteDone(p) ==
  /\ pc[p] = "loop" /\ ~More(p)
  /\ tx_lock' = Nobody
  /\ pc' = [pc EXCEPT ![p] = "out"]
  /\ UNCHANGED <<device, tx_busy, n, hpc, sync, echo>>

(***************************************************************************)
(* uartputc_sync, called by printf() and, from the handler, to echo        *)
(***************************************************************************)
PutcSync ==
  /\ sync[Printf] = "out"
  /\ sync' = [sync EXCEPT ![Printf] = "poll"]
  /\ UNCHANGED <<device, driver, pc, n, hpc, echo>>

Poll(c) == TxIdle

PollLSR(c) ==
  /\ sync[c] = "poll" /\ Poll(c)
  /\ sync' = [sync EXCEPT ![c] = "put"]
  /\ UNCHANGED <<device, driver, pc, n, hpc, echo>>

Put(c) ==
  /\ sync[c] = "put"
  /\ WriteTHR
  /\ IF c = Intr /\ echo > 1
     THEN sync' = [sync EXCEPT ![c] = "poll"] /\ echo' = echo - 1
     ELSE sync' = [sync EXCEPT ![c] = "out"] /\ echo' = IF c = Intr THEN 0 ELSE echo
  /\ UNCHANGED <<driver, pc, n, hpc>>

(***************************************************************************)
(* uartintr                                                                *)
(***************************************************************************)
Interrupt ==
  /\ hpc = "out" /\ (irq = 1 \/ rx > 0)
  /\ hpc' = "entry"
  /\ UNCHANGED <<device, driver, pc, n, sync, echo>>

IntrAck ==
  /\ hpc = "entry"
  /\ irq' = IF rx = 0 THEN 0 ELSE irq
  /\ hpc' = "acquire"
  /\ UNCHANGED <<fifo, rx, driver, pc, n, sync, echo>>

IntrAcquire ==
  /\ hpc = "acquire" /\ tx_lock = Nobody
  /\ tx_lock' = Intr
  /\ hpc' = "look"
  /\ UNCHANGED <<device, tx_busy, pc, n, sync, echo>>

IntrLook ==
  /\ hpc = "look"
  /\ IF TxIdle THEN hpc' = "idle" /\ tx_lock' = tx_lock
     ELSE hpc' = "getc" /\ tx_lock' = Nobody
  /\ UNCHANGED <<device, tx_busy, pc, n, sync, echo>>

Wakeup == pc' = [p \in Proc |-> IF pc[p] = "asleep" THEN "acquire" ELSE pc[p]]

MutStaysBusy == UNCHANGED tx_busy
ClearBusy == tx_busy' = 0

IntrIdle ==
  /\ hpc = "idle"
  /\ ClearBusy
  /\ Wakeup
  /\ tx_lock' = Nobody
  /\ hpc' = "getc"
  /\ UNCHANGED <<device, n, sync, echo>>

\* uartgetc() and consoleintr(), whose echo is waited for.
IntrGetc(k) ==
  /\ hpc = "getc" /\ sync[Intr] = "out" /\ rx > 0
  /\ rx' = rx - 1
  /\ echo' = k
  /\ sync' = [sync EXCEPT ![Intr] = IF k > 0 THEN "poll" ELSE "out"]
  /\ UNCHANGED <<fifo, irq, driver, pc, n, hpc>>

IntrReturn ==
  /\ hpc = "getc" /\ sync[Intr] = "out" /\ rx = 0
  /\ hpc' = "out"
  /\ UNCHANGED <<device, driver, pc, n, sync, echo>>

Next ==
  \/ Receive \/ Transmit \/ PutcSync
  \/ \E p \in Proc, k \in 1 .. MaxN : Write(p, k)
  \/ \E p \in Proc : Acquire(p) \/ WaitTx(p) \/ Send(p) \/ SetBusy(p) \/ WriteDone(p)
  \/ \E c \in {Printf, Intr} : PollLSR(c) \/ Put(c)
  \/ Interrupt \/ IntrAck \/ IntrAcquire \/ IntrLook \/ IntrIdle \/ IntrReturn
  \/ \E k \in 0 .. MaxEcho : IntrGetc(k)

Spec == Init /\ [][Next]_vars

(***************************************************************************)
(* Properties                                                              *)
(***************************************************************************)

\* A writer sleeps only while tx_busy is set, and tx_busy is never left set
\* with nothing to clear it: a byte is still to be sent, or its interrupt is
\* pending, or the handler that took the interrupt has not yet looked at LSR,
\* whatever printf() and the echo send meanwhile.  No byte is lost in the device,
\* although uartwrite() never looks at LSR and uartputc_sync() writes some time
\* after it has.
WritersWoken ==
  /\ TypeOK /\ fifo <= FIFO
  /\ \A p \in Proc : pc[p] = "asleep" => tx_busy = 1
  /\ tx_busy = 1 => fifo > 0 \/ irq = 1 \/ hpc \in {"entry", "acquire", "look", "idle"}
=============================================================================
