------------------------------- MODULE MCProc -------------------------------
(***************************************************************************)
(* Instance for TLC of the process table, and of two drivers that sleep    *)
(* and wake up through it, the console's line editor and the serial port's *)
(* transmitter.  What the drivers take from the table, that sleep() gives  *)
(* up its lock and sleeps in one step, is NoLostWait of module Proc; they  *)
(* share nothing else, so a behaviour is one of any of the three.          *)
(***************************************************************************)
EXTENDS Proc, TLC

CONSTANTS Reader, Char, INPUT_BUF_SIZE, UINT, ReadN, Writer, FIFO, WriteN, MaxRx, MaxEcho

VARIABLES part,
          buf, r, w, e, lock, rpc, rn, got, rkilled, result, typed, ready,
          fifo, irq, rx, tx_lock, tx_busy, wpc, wn, hpc, sync, echo

C == INSTANCE Console WITH Proc <- Reader, MaxN <- ReadN, pc <- rpc, n <- rn, killed <- rkilled
U == INSTANCE Uart WITH Proc <- Writer, MaxN <- WriteN, pc <- wpc, n <- wn

console == <<buf, r, w, e, lock, rpc, rn, got, rkilled, result, typed, ready>>
uart == <<fifo, irq, rx, tx_lock, tx_busy, wpc, wn, hpc, sync, echo>>

ASSUME C!ConsoleAssumption /\ U!UartAssumption

MCInit == part \in {"proc", "console", "uart"} /\ Init /\ C!Init /\ U!Init

MCNext ==
  /\ UNCHANGED part
  /\ \/ part = "proc" /\ Next /\ UNCHANGED <<console, uart>>
     \/ part = "console" /\ C!Next /\ UNCHANGED <<vars, uart>>
     \/ part = "uart" /\ U!Next /\ UNCHANGED <<vars, console>>

MCSpec == MCInit /\ [][MCNext]_<<part, vars, console, uart>>

Symmetry == Permutations(Cpu) \cup Permutations(Reader)

\* The console's buffer holds the input that is finished and not yet read, in
\* order, and then the line being edited; no reader sleeps in consoleread()
\* while there is something for it to read.
BufferIsInput == C!BufferIsInput

\* A control-d leaves the buffer only through a read() that returns 0.
EofReported == C!EofReported

\* A writer sleeps in uartwrite() only while tx_busy is set, and tx_busy is
\* never left set with nothing to clear it, whatever printf() and the echo
\* send meanwhile; and no byte is lost in the device.
WritersWoken == U!WritersWoken
=============================================================================
