------------------------------- MODULE Clock --------------------------------
(***************************************************************************)
(* ticks, counted by clockintr() on CPU 0, and sys_pause(), which sleeps   *)
(* until enough of them have passed or the process is killed.  sleep()     *)
(* gives up tickslock and sleeps in one step (module Proc).                *)
(***************************************************************************)
EXTENDS Integers

CONSTANTS
  Proc,
  UINT,  \* values of an unsigned int, in which ticks wraps
  MaxN   \* ticks that pause() is asked for, at most UINT / 2

Nobody == "nobody"

ClockAssumption == UINT \in Nat /\ MaxN \in Nat /\ 2 * MaxN < UINT /\ Nobody \notin Proc

VARIABLES
  ticks, tickslock,
  pc, n, ticks0, killed,  \* of each process
  waited,                 \* history: ticks since ticks0 was read
  result                  \* history: what the last pause() returned

vars == <<ticks, tickslock, pc, n, ticks0, killed, waited, result>>

TypeOK ==
  /\ ticks \in 0 .. UINT - 1 /\ tickslock \in Proc \cup {Nobody}
  /\ pc \in [Proc -> {"out", "entry", "relock", "loop", "sleep", "asleep"}]
  /\ n \in [Proc -> 0 .. MaxN] /\ ticks0 \in [Proc -> 0 .. UINT - 1] /\ killed \in [Proc -> {0, 1}]

Init ==
  /\ ticks = 0 /\ tickslock = Nobody
  /\ pc = [p \in Proc |-> "out"] /\ n = [p \in Proc |-> 0]
  /\ ticks0 = [p \in Proc |-> 0] /\ killed = [p \in Proc |-> 0]
  /\ waited = [p \in Proc |-> 0] /\ result = [p \in Proc |-> "none"]

\* A process that is woken runs before ticks wraps round to it.
InTime == \A p \in Proc : waited[p] < UINT - 1

clockintr ==
  /\ tickslock = Nobody /\ InTime
  /\ ticks' = (ticks + 1) % UINT
  /\ pc' = [p \in Proc |-> IF pc[p] = "asleep" THEN "relock" ELSE pc[p]]
  /\ waited' = [p \in Proc |-> IF pc[p] \in {"out", "entry"} THEN 0 ELSE waited[p] + 1]
  /\ UNCHANGED <<tickslock, n, ticks0, killed, result>>

sys_pause(p, k) ==
  /\ pc[p] = "out" /\ killed[p] = 0
  /\ n' = [n EXCEPT ![p] = IF k < 0 THEN 0 ELSE k]
  /\ pc' = [pc EXCEPT ![p] = "entry"] /\ result' = [result EXCEPT ![p] = "none"]
  /\ UNCHANGED <<ticks, tickslock, ticks0, killed, waited>>

Acquire(p) ==
  /\ pc[p] \in {"entry", "relock"} /\ tickslock = Nobody
  /\ tickslock' = p
  /\ ticks0' = IF pc[p] = "entry" THEN [ticks0 EXCEPT ![p] = ticks] ELSE ticks0
  /\ pc' = [pc EXCEPT ![p] = "loop"]
  /\ UNCHANGED <<ticks, n, killed, waited, result>>

Elapsed(p) == (ticks - ticks0[p] + UINT) % UINT

MutDeadline(p) == ticks < (ticks0[p] + n[p]) % UINT
\* ticks - ticks0 < n, as unsigned integers
TooEarly(p) == Elapsed(p) < n[p]

\* The test of the while, and killed().
PauseTest(p) ==
  /\ pc[p] = "loop"
  /\ IF TooEarly(p) /\ killed[p] = 0
     THEN pc' = [pc EXCEPT ![p] = "sleep"] /\ UNCHANGED <<tickslock, n, ticks0, waited, result>>
     ELSE /\ pc' = [pc EXCEPT ![p] = "out"] /\ tickslock' = Nobody
          /\ result' = [result EXCEPT ![p] = IF ~TooEarly(p) THEN IF waited[p] < n[p] THEN "early" ELSE "0"
                                             ELSE "-1"]
          /\ n' = [n EXCEPT ![p] = 0] /\ ticks0' = [ticks0 EXCEPT ![p] = 0]
          /\ waited' = [waited EXCEPT ![p] = 0]
  /\ UNCHANGED <<ticks, killed>>

PauseSleep(p) ==
  /\ pc[p] = "sleep"
  /\ tickslock' = Nobody /\ pc' = [pc EXCEPT ![p] = "asleep"]
  /\ UNCHANGED <<ticks, n, ticks0, killed, waited, result>>

\* kkill(), which needs p->lock and not tickslock.
Kill(p) ==
  /\ killed[p] = 0
  /\ killed' = [killed EXCEPT ![p] = 1]
  /\ pc' = [pc EXCEPT ![p] = IF @ = "asleep" THEN "relock" ELSE @]
  /\ UNCHANGED <<ticks, tickslock, n, ticks0, waited, result>>

Next ==
  \/ clockintr
  \/ \E p \in Proc :
       \/ \E k \in -1 .. MaxN : sys_pause(p, k)
       \/ Acquire(p) \/ PauseTest(p) \/ PauseSleep(p) \/ Kill(p)

Spec == Init /\ [][Next]_vars

(***************************************************************************)
(* Properties                                                              *)
(***************************************************************************)

\* Nobody sleeps in pause() longer than asked for, or returns 0 from it sooner,
\* when ticks wraps as little as otherwise; only a killed process gets -1.
PausesRight ==
  /\ TypeOK
  /\ \A p \in Proc : /\ pc[p] = "asleep" => waited[p] < n[p]
                     /\ result[p] # "early" /\ (result[p] = "-1" => killed[p] = 1)
=============================================================================
