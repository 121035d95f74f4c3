----------------------------- MODULE AtomicDisk -----------------------------
(***************************************************************************)
(* What the logging layer (kernel/log.c) promises to the file system above *)
(* it: a disk whose contents change from one set of whole operations to    *)
(* the next, whatever moment the machine stops at.                         *)
(***************************************************************************)
CONSTANTS Proc, Block, Data

VARIABLES
  durable,  \* what a reboot finds after recovery
  live,     \* what a read of each block returns now
  active    \* the processes between begin_op() and end_op()

vars == <<durable, live, active>>

Init ==
  /\ durable \in [Block -> Data]
  /\ live = durable
  /\ active = {}

Begin(p) ==
  /\ p \notin active
  /\ active' = active \cup {p}
  /\ UNCHANGED <<durable, live>>

Write(p, b, v) ==
  /\ p \in active
  /\ live' = [live EXCEPT ![b] = v]
  /\ UNCHANGED <<durable, active>>

End(p) ==
  /\ p \in active
  /\ active' = active \ {p}
  /\ UNCHANGED <<durable, live>>

\* Everything written becomes durable at once, and only between operations.
Sync ==
  /\ active = {}
  /\ durable' = live
  /\ UNCHANGED <<live, active>>

\* A crash loses what was not durable and stops every operation.
Crash ==
  /\ live' = durable
  /\ active' = {}
  /\ UNCHANGED durable

Next ==
  \/ \E p \in Proc : Begin(p) \/ End(p)
  \/ \E p \in Proc, b \in Block, v \in Data : Write(p, b, v)
  \/ Sync
  \/ Crash

Spec == Init /\ [][Next]_vars
=============================================================================
