------------------------------ MODULE MCDevices ------------------------------
(***************************************************************************)
(* Instance for TLC of the disk driver, of the clock and of printf().  The *)
(* first two sleep and wake up as module Proc shows, the last polls the    *)
(* serial port; they share nothing, so a behaviour is one of any of them.  *)
(***************************************************************************)
EXTENDS VirtioDisk, TLC, PrintfItems

CONSTANTS Pauser, UINT, MaxN, Printer, INT, LONG, MaxPrints

VARIABLES part,
          ticks, tickslock, ppc, n, ticks0, killed, waited, result,
          panicking, panicked, lock, noff, job, prints, due, late

\* Every directive, with a length and without, at the least and the greatest
\* numbers, and formats that are not quite formats.
Messages ==
  {<<Lit("a"), Num(<<"d">>, INT, 10, 1, 200), Lit("b")>>,
   <<Num(<<"l", "d">>, LONG, 10, 1, 128)>>,
   <<Num(<<"l", "l", "u">>, LONG, 10, 0, 255)>>,
   <<Num(<<"x">>, INT, 16, 0, 255), Num(<<"l", "x">>, LONG, 16, 0, 171)>>,
   <<Other(<<"%", "p">>, <<19>>, <<0, "x", 1, 3>>), Other(<<"%", "c">>, <<"y">>, <<"y">>)>>,
   <<Other(<<"%", "s">>, <<<<>>>>, <<"null">>), Other(<<"%", "q">>, <<>>, <<"%", "q">>)>>,
   <<Other(<<"%", "l">>, <<>>, <<"%", "l">>), Lit("a"), Other(<<"%">>, <<>>, <<>>)>>,
   <<Other(<<"%", "%">>, <<>>, <<"%">>), Lit("d")>>}

K == INSTANCE Clock WITH Proc <- Pauser, pc <- ppc
P == INSTANCE Printf WITH Cpu <- Printer, Message <- Messages

clock == <<ticks, tickslock, ppc, n, ticks0, killed, waited, result>>
print == <<panicking, panicked, lock, noff, job, prints, due, late>>

ASSUME K!ClockAssumption /\ P!PrintfAssumption

MCInit == part \in {"disk", "clock", "printf"} /\ Init /\ K!Init /\ P!Init

MCNext ==
  /\ UNCHANGED part
  /\ \/ part = "disk" /\ Next /\ UNCHANGED <<clock, print>>
     \/ part = "clock" /\ K!Next /\ UNCHANGED <<vars, print>>
     \/ part = "printf" /\ P!Next /\ UNCHANGED <<vars, clock>>

MCSpec == MCInit /\ [][MCNext]_<<part, vars, clock, print>>

Symmetry == Permutations(Proc) \cup Permutations(Block)

\* Whoever sleeps in the disk driver is owed a wakeup: a request is with the
\* device, or descriptors with somebody.  Nobody sleeps in pause() longer than
\* asked for, or returns 0 from it sooner, though ticks wraps; only a killed
\* process gets -1.
NobodyOversleeps ==
  /\ part = "disk" => SleepersOwed
  /\ part = "clock" => K!PausesRight

\* Every printf() writes the text its format stands for, uninterrupted by others
\* until a CPU panics; a panic never waits, and then silences the other CPUs.
PrintsWhole == part = "printf" => P!PrintsWhole
=============================================================================
