------------------------------- MODULE Console -------------------------------
(***************************************************************************)
(* kernel/console.c, input: the line editor that runs in the interrupt     *)
(* handler and the readers that take whole lines from it.                  *)
(*                                                                         *)
(* consoleintr() is one action, cons.lock being held from end to end.  A   *)
(* reader holds the lock from one sleep to the next; it takes one          *)
(* character per step.  typed and ready say what the line editor is for:   *)
(* the line being typed, and the input that may be read.                   *)
(***************************************************************************)
EXTENDS Integers, Sequences

CONSTANTS
  Proc,            \* readers
  Char,            \* characters that mean themselves
  INPUT_BUF_SIZE,
  UINT,            \* number of values of the indexes (2^32)
  MaxN             \* largest count of a read()

NL == "newline"
EOF == "control-d"
Input == Char \cup {NL, EOF}
Nobody == "nobody"

ConsoleAssumption ==
  /\ INPUT_BUF_SIZE \in Nat \ {0} /\ UINT \in Nat
  /\ UINT > INPUT_BUF_SIZE /\ UINT % INPUT_BUF_SIZE = 0
  /\ MaxN \in Nat /\ Char \cap {NL, EOF} = {} /\ Nobody \notin Proc

VARIABLES
  buf, r, w, e,   \* cons.buf and its indexes
  lock,           \* holder of cons.lock, among the readers
  pc, n, got,     \* of each reader: where it is, n, and target - n
  killed,
  result,         \* what its last read() returned: a count, or -1
  typed, ready    \* history: the line being edited, the input before it

input == <<buf, r, w, e, typed, ready>>
vars == <<buf, r, w, e, lock, pc, n, got, killed, result, typed, ready>>

Index == 0 .. INPUT_BUF_SIZE - 1
UInt == 0 .. UINT - 1

TypeOK ==
  /\ buf \in [Index -> Input] /\ {r, w, e} \subseteq UInt
  /\ lock \in Proc \cup {Nobody}
  /\ pc \in [Proc -> {"out", "loop", "asleep", "awake"}]
  /\ n \in [Proc -> 0 .. MaxN] /\ got \in [Proc -> 0 .. MaxN]
  /\ killed \in [Proc -> {0, 1}]
  /\ result \in [Proc -> -1 .. MaxN]
  /\ typed \in Seq(Input) /\ ready \in Seq(Input)

Init ==
  /\ buf = [i \in Index |-> NL] /\ r = 0 /\ w = 0 /\ e = 0
  /\ lock = Nobody
  /\ pc = [p \in Proc |-> "out"]
  /\ n = [p \in Proc |-> 0] /\ got = [p \in Proc |-> 0]
  /\ killed = [p \in Proc |-> 0] /\ result = [p \in Proc |-> 0]
  /\ typed = <<>> /\ ready = <<>>

Minus(i, j) == (i - j + UINT) % UINT
At(i) == buf[i % INPUT_BUF_SIZE]

(***************************************************************************)
(* consoleintr                                                             *)
(***************************************************************************)
WakeReaders == pc' = [p \in Proc |-> IF pc[p] = "asleep" THEN "awake" ELSE pc[p]]

\* w = e is also set when the buffer is full, or a reader could wait for ever.
EndsLine(c) == c \in {NL, EOF} \/ Minus(e + 1, r) = INPUT_BUF_SIZE

Room == Minus(e, r) < INPUT_BUF_SIZE

Key(c) ==
  /\ lock = Nobody
  /\ Room
  /\ buf' = [buf EXCEPT ![e % INPUT_BUF_SIZE] = c]
  /\ e' = (e + 1) % UINT
  /\ IF EndsLine(c)
     THEN w' = e' /\ WakeReaders /\ ready' = ready \o Append(typed, c) /\ typed' = <<>>
     ELSE typed' = Append(typed, c) /\ UNCHANGED <<w, pc, ready>>
  /\ UNCHANGED <<r, lock, n, got, killed, result>>

MutCanErase == e # r
CanErase == e # w

Backspace ==
  /\ lock = Nobody
  /\ CanErase
  /\ e' = Minus(e, 1)
  /\ typed' = IF typed = <<>> THEN typed ELSE SubSeq(typed, 1, Len(typed) - 1)
  /\ UNCHANGED <<buf, r, w, lock, pc, n, got, killed, result, ready>>

\* control-u: back to the last newline, or to w.
KillLine ==
  /\ lock = Nobody
  /\ \E k \in 1 .. INPUT_BUF_SIZE :
       /\ k <= Minus(e, w)
       /\ \A j \in 1 .. k : At(Minus(e, j)) # NL
       /\ k = Minus(e, w) \/ At(Minus(e, k + 1)) = NL
       /\ e' = Minus(e, k)
  /\ typed' = <<>>
  /\ UNCHANGED <<buf, r, w, lock, pc, n, got, killed, result, ready>>

(***************************************************************************)
(* consoleread                                                             *)
(***************************************************************************)
Read(p, k) ==
  /\ pc[p] = "out" /\ lock = Nobody
  /\ lock' = p
  /\ pc' = [pc EXCEPT ![p] = "loop"]
  /\ n' = [n EXCEPT ![p] = k] /\ got' = [got EXCEPT ![p] = 0]
  /\ result' = [result EXCEPT ![p] = 0]
  /\ UNCHANGED <<input, killed>>

\* Release the lock and return.
Return(p, x) ==
  /\ lock' = Nobody
  /\ pc' = [pc EXCEPT ![p] = "out"]
  /\ n' = [n EXCEPT ![p] = 0] /\ got' = [got EXCEPT ![p] = 0]
  /\ result' = [result EXCEPT ![p] = x]

Wait(p) ==
  /\ pc[p] = "loop" /\ n[p] > 0
  /\ r = w
  /\ IF killed[p] = 1
     THEN Return(p, -1)
     ELSE /\ pc' = [pc EXCEPT ![p] = "asleep"] /\ lock' = Nobody
          /\ UNCHANGED <<n, got, result>>
  /\ UNCHANGED <<input, killed>>

Resume(p) ==
  /\ pc[p] = "awake" /\ lock = Nobody
  /\ lock' = p
  /\ pc' = [pc EXCEPT ![p] = "loop"]
  /\ UNCHANGED <<input, n, got, killed, result>>

\* A control-d that ends a read() with some bytes stays for the next one.
MutKeepsEof(p) == FALSE
KeepsEof(p) == got[p] > 0

TakeEof(p) ==
  /\ pc[p] = "loop" /\ n[p] > 0
  /\ r # w /\ At(r) = EOF
  /\ IF KeepsEof(p) THEN UNCHANGED <<r, ready>>
     ELSE r' = (r + 1) % UINT /\ ready' = Tail(ready)
  /\ Return(p, got[p])
  /\ UNCHANGED <<buf, w, e, killed, typed>>

\* Copy a character out; the copy may fail.
Take(p) ==
  /\ pc[p] = "loop" /\ n[p] > 0
  /\ r # w /\ At(r) # EOF
  /\ r' = (r + 1) % UINT
  /\ ready' = Tail(ready)
  /\ \/ Return(p, got[p])
     \/ IF At(r) = NL
        THEN Return(p, got[p] + 1)
        ELSE /\ n' = [n EXCEPT ![p] = @ - 1] /\ got' = [got EXCEPT ![p] = @ + 1]
             /\ UNCHANGED <<lock, pc, result>>
  /\ UNCHANGED <<buf, w, e, killed, typed>>

ReadDone(p) ==
  /\ pc[p] = "loop" /\ n[p] = 0
  /\ Return(p, got[p])
  /\ UNCHANGED <<input, killed>>

\* kkill(), which wakes a sleeper.
Kill(p) ==
  /\ killed' = [killed EXCEPT ![p] = 1]
  /\ pc' = [pc EXCEPT ![p] = IF @ = "asleep" THEN "awake" ELSE @]
  /\ UNCHANGED <<input, lock, n, got, result>>

Keyboard == (\E c \in Input : Key(c)) \/ Backspace \/ KillLine

ReadStep(p) ==
  \/ \E k \in 0 .. MaxN : Read(p, k)
  \/ Wait(p) \/ Resume(p) \/ TakeEof(p) \/ Take(p) \/ ReadDone(p)

Next == Keyboard \/ \E p \in Proc : ReadStep(p) \/ Kill(p)

Spec == Init /\ [][Next]_vars

(***************************************************************************)
(* Properties                                                              *)
(***************************************************************************)

\* cons.buf is a line editor: from r to w it holds the finished input in
\* order, from w to e the line being typed, through wrapping indexes, full
\* buffers, erasing and readers; nothing unread is overwritten or erased.  A
\* reader sleeps only while there is no finished input, and a full buffer is
\* finished input: otherwise neither the keyboard, which is ignored, nor the
\* readers, who wait for a newline, could go on.
BufferIsInput ==
  LET held == ready \o typed IN
  /\ TypeOK
  /\ Minus(w, r) = Len(ready) /\ Minus(e, w) = Len(typed)
  /\ Minus(e, r) <= INPUT_BUF_SIZE
  /\ \A i \in 1 .. Len(held) : At(Minus(r + i - 1, 0)) = held[i]
  /\ \A p \in Proc : pc[p] = "asleep" => r = w
  /\ Minus(e, r) = INPUT_BUF_SIZE => w = e

\* The control-d that ends some input is reported: it leaves the buffer only
\* through a read() that returns 0 ("to make sure caller gets a 0-byte result").
EofReported ==
  [][\A p \in Proc : (pc[p] = "loop" /\ At(r) = EOF /\ r' # r) => result'[p] = 0]_vars
=============================================================================
