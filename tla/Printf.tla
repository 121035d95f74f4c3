------------------------------- MODULE Printf -------------------------------
(***************************************************************************)
(* kernel/printf.c and uartputc_sync() under it: printf() on several CPUs, *)
(* and panic(), whose flags the other CPUs read without a lock; and the    *)
(* vprintf() of user/printf.c, which has the same loop.                    *)
(*                                                                         *)
(* A format is a sequence of characters, "0" its end; digits are numbers.  *)
(* A turn of the loop over the format is a step, a character three: the    *)
(* test of panicking, the test of panicked, the write.  The messages are   *)
(* sequences of items, from which the format is spelled.                   *)
(***************************************************************************)
EXTENDS Integers, Sequences, SequencesExt, PrintfItems

CONSTANTS
  Cpu,
  INT, LONG,   \* bits of an int and of a long
  Message,     \* what printf() may be asked to print
  MaxPrints    \* prints on a CPU

Nobody == "nobody"

PrintfAssumption == {INT, LONG, MaxPrints} \subseteq Nat /\ INT < LONG /\ Nobody \notin Cpu

VARIABLES
  panicking, panicked, lock,
  noff,     \* interrupts-off depth that printing has added on each CPU
  job,      \* what each CPU is printing
  prints,   \* prints each CPU may still make
  due,      \* history: the text each CPU still has to write
  late      \* history: characters each CPU has written since panicked was set

vars == <<panicking, panicked, lock, noff, job, prints, due, late>>

(***************************************************************************)
(* The format that spells the items of a message, and their text           *)
(***************************************************************************)
Size(v, base) == CHOOSE n \in 1 .. LONG : v < base^n /\ (n = 1 \/ v >= base^(n - 1))
Numeral(v, base) == [k \in 1 .. Size(v, base) |-> (v \div base^(Size(v, base) - k)) % base]

\* The user's printint() keeps the magnitude in an int, whatever the format.
ItemText(it, user) ==
  IF it.item # "number" THEN it.text
  ELSE LET v == it.args[1] % 2^it.bits
           neg == it.sign = 1 /\ v >= 2^(it.bits - 1)
           abs == IF neg THEN 2^it.bits - v ELSE v
       IN  (IF neg THEN <<"-">> ELSE <<>>)
             \o Numeral(IF user THEN abs % 2^INT ELSE abs, it.base)

Format(m) == FlattenSeq([k \in DOMAIN m |-> m[k].spelling])
Args(m) == FlattenSeq([k \in DOMAIN m |-> m[k].args])
Text(m, user) == FlattenSeq([k \in DOMAIN m |-> ItemText(m[k], user)])

(***************************************************************************)
(* printint, printptr, and a turn of printf()'s loop                       *)
(***************************************************************************)
Signed(x, bits) == x >= 2^(bits - 1)
Extended(x) == LET w == x % 2^INT IN IF Signed(w, INT) THEN w + 2^LONG - 2^INT ELSE w

RECURSIVE Digits(_, _)
Digits(base, x) == IF x < base THEN <<x>> ELSE Append(Digits(base, x \div base), x % base)

Magnitude(x, user) == IF user THEN x % 2^INT ELSE x

Printint(xx, base, sign, user) ==
  LET neg == sign = 1 /\ Signed(xx, LONG)
      x == IF neg THEN 2^LONG - xx ELSE xx
  IN  (IF neg THEN <<"-">> ELSE <<>>) \o Digits(base, Magnitude(x, user))

Printptr(x) == <<0, "x">> \o [k \in 1 .. LONG \div 4 |-> (x \div 2^(LONG - 4 * k)) % 16]

Ch(j, i) == IF i <= Len(j.fmt) THEN j.fmt[i] ELSE "0"

Turn(j, user) ==
  LET c0 == Ch(j, j.i + 1)
      c1 == IF c0 = "0" THEN "0" ELSE Ch(j, j.i + 2)
      c2 == IF c1 = "0" THEN "0" ELSE Ch(j, j.i + 3)
      ls == IF c0 # "l" THEN 0 ELSE IF c1 # "l" THEN 1 ELSE 2
      spec == <<c0, c1, c2>>[ls + 1]
      arg == Head(j.args)
      Puts(chars, skip, used) ==
        [j EXCEPT !.chars = chars, !.i = @ + skip, !.args = SubSeq(@, used + 1, Len(@))]
  IN
  CASE Ch(j, j.i) # "%" -> Puts(<<Ch(j, j.i)>>, 1, 0)
    [] Ch(j, j.i) = "%" /\ spec = "d" ->
         Puts(Printint(IF ls = 0 THEN Extended(arg) ELSE arg, 10, 1, user), 2 + ls, 1)
    [] Ch(j, j.i) = "%" /\ spec \in {"u", "x"} ->
         Puts(Printint(IF ls = 0 THEN arg % 2^INT ELSE arg, IF spec = "u" THEN 10 ELSE 16, 0, user),
              2 + ls, 1)
    [] Ch(j, j.i) = "%" /\ c0 = "p" -> Puts(Printptr(arg), 2, 1)
    [] Ch(j, j.i) = "%" /\ c0 = "c" -> Puts(<<arg>>, 2, 1)
    [] Ch(j, j.i) = "%" /\ c0 = "s" -> Puts(IF arg = <<>> THEN <<"null">> ELSE arg, 2, 1)
    [] Ch(j, j.i) = "%" /\ c0 = "%" -> Puts(<<"%">>, 2, 0)
    [] Ch(j, j.i) = "%" /\ c0 = "0" -> Puts(<<>>, 1, 0)
    [] OTHER -> Puts(<<"%", c0>>, 2, 0)

(***************************************************************************)
(* printf, vprintf and panic                                               *)
(***************************************************************************)
NoJob == [pc |-> "out", kind |-> "none", fmt |-> <<>>, i |-> 1, args |-> <<>>, chars |-> <<>>]

Init ==
  /\ panicking = 0 /\ panicked = 0 /\ lock = Nobody
  /\ noff = [c \in Cpu |-> 0] /\ job = [c \in Cpu |-> NoJob] /\ prints = [c \in Cpu |-> MaxPrints]
  /\ due = [c \in Cpu |-> <<>>] /\ late = [c \in Cpu |-> 0]

Call(c, kind, m) ==
  /\ job' = [job EXCEPT ![c] = [NoJob EXCEPT !.pc = "enter", !.kind = kind,
                                             !.fmt = Format(m), !.args = Args(m)]]
  /\ due' = [due EXCEPT ![c] = Text(m, kind = "user")]

Calls(c, kind, m) ==
  /\ job[c].pc = "out" /\ prints[c] > 0
  /\ Call(c, kind, m)
  /\ prints' = [prints EXCEPT ![c] = @ - 1]
  /\ UNCHANGED <<panicking, panicked, lock, noff, late>>

PanicMessage == <<Lit("panic"), Other(<<"%", "s">>, <<<<"why">>>>, <<"why">>), Lit("nl")>>

\* Of the kernel at large, or after a fault in printf() itself, the rest of whose
\* text is never written.  Its two calls of printf() are one.
Panic(c) ==
  /\ job[c].pc = "out" \/ (job[c].pc = "loop" /\ job[c].kind = "printf")
  /\ panicking' = 1
  /\ Call(c, "panic", PanicMessage)
  /\ UNCHANGED <<panicked, lock, noff, prints, late>>

\* if(panicking == 0) acquire(): push_off(), then the lock.
Enter(c) ==
  LET locks == job[c].kind # "user" /\ panicking = 0 IN
  /\ job[c].pc = "enter"
  /\ job' = [job EXCEPT ![c].pc = IF locks THEN "acquire" ELSE "loop"]
  /\ noff' = [noff EXCEPT ![c] = @ + IF locks THEN 1 ELSE 0]
  /\ UNCHANGED <<panicking, panicked, lock, prints, due, late>>

Acquire(c) ==
  /\ job[c].pc = "acquire" /\ lock = Nobody
  /\ lock' = c
  /\ job' = [job EXCEPT ![c].pc = "loop"]
  /\ UNCHANGED <<panicking, panicked, noff, prints, due, late>>

TurnOf(c, user) ==
  LET t == Turn(job[c], user) IN
  /\ job[c].pc = "loop" /\ job[c].i <= Len(job[c].fmt)
  /\ job' = [job EXCEPT ![c] = [t EXCEPT !.pc = IF t.chars # <<>> THEN "putc" ELSE "loop"]]
  /\ UNCHANGED <<panicking, panicked, lock, noff, prints, due, late>>

Loop(c) == job[c].kind # "user" /\ TurnOf(c, FALSE)

\* vprintf() keeps the % in a variable, and acts on the character behind it.
Vprintf(c) == job[c].kind = "user" /\ TurnOf(c, TRUE)

MutUnlocks(c) == job[c].kind # "user"
\* if(panicking == 0) release()
Unlocks(c) == job[c].kind # "user" /\ panicking = 0

\* The end of printf(), or of panic().
Return(c) ==
  LET panics == job[c].kind = "panic" IN
  /\ job[c].pc = "loop" /\ job[c].i > Len(job[c].fmt)
  /\ lock' = IF Unlocks(c) THEN Nobody ELSE lock
  /\ noff' = [noff EXCEPT ![c] = @ - IF Unlocks(c) THEN 1 ELSE 0]
  /\ job' = [job EXCEPT ![c] = [NoJob EXCEPT !.pc = IF panics THEN "halted" ELSE "out"]]
  /\ panicked' = IF panics THEN 1 ELSE panicked
  /\ UNCHANGED <<panicking, prints, due, late>>

(***************************************************************************)
(* consputc and uartputc_sync; the user's putc is a write()                *)
(***************************************************************************)
Putc(c) ==
  /\ job[c].pc = "putc" /\ job[c].kind # "user"
  /\ job' = [job EXCEPT ![c].pc = "check"]
  /\ noff' = [noff EXCEPT ![c] = @ + IF panicking = 0 THEN 1 ELSE 0]
  /\ UNCHANGED <<panicking, panicked, lock, prints, due, late>>

UserPutc(c) ==
  /\ job[c].pc = "putc" /\ job[c].kind = "user"
  /\ job' = [job EXCEPT ![c].pc = "write"]
  /\ UNCHANGED <<panicking, panicked, lock, noff, prints, due, late>>

Check(c) ==
  /\ job[c].pc = "check"
  /\ job' = [job EXCEPT ![c].pc = IF panicked = 1 THEN "frozen" ELSE "write"]
  /\ UNCHANGED <<panicking, panicked, lock, noff, prints, due, late>>

Write(c) ==
  /\ job[c].pc = "write"
  /\ job' = [job EXCEPT ![c].chars = Tail(@), ![c].pc = IF Len(job[c].chars) > 1 THEN "putc" ELSE "loop"]
  /\ noff' = [noff EXCEPT ![c] = @ - IF Unlocks(c) THEN 1 ELSE 0]
  /\ due' = [due EXCEPT ![c] = Tail(@)]
  /\ late' = [late EXCEPT ![c] = @ + IF job[c].kind = "user" THEN 0 ELSE panicked]
  /\ UNCHANGED <<panicking, panicked, lock, prints>>

\* CPUs that are frozen, halted or wait for pr.lock spin.
Spin(c) == job[c].pc \in {"acquire", "frozen", "halted", "out"} /\ UNCHANGED vars

Next ==
  \E c \in Cpu :
    \/ \E m \in Message, kind \in {"printf", "user"} : Calls(c, kind, m)
    \/ Panic(c) \/ Enter(c) \/ Acquire(c) \/ Loop(c) \/ Vprintf(c) \/ Return(c)
    \/ Putc(c) \/ UserPutc(c) \/ Check(c) \/ Write(c) \/ Spin(c)

Spec == Init /\ [][Next]_vars

(***************************************************************************)
(* Properties                                                              *)
(***************************************************************************)
Begun(c) == job[c].kind = "printf" /\ job[c].pc \in {"loop", "putc", "check", "write"}

\* Every CPU writes the text that its format and arguments stand for, in order.
\* Until a CPU panics, one printf() at a time is under way ("lock to avoid
\* interleaving concurrent printf's"), with the lock held and interrupts off to
\* the right depth, so that release() and pop_off() never panic.  A panic never
\* waits for the lock, whoever holds it; once panicked is set, the message of
\* a CPU that panicked is out, and another CPU writes one more character at most.
PrintsWhole ==
  /\ \A c \in Cpu :
       /\ IsPrefix(job[c].chars, due[c])
       /\ job[c].pc \in {"out", "halted"} => due[c] = <<>>
       /\ noff[c] >= 0 /\ late[c] <= 1
       /\ job[c].kind = "panic" => job[c].pc # "acquire"
  /\ panicking = 0 => \A c \in Cpu :
       /\ Begun(c) <=> lock = c
       /\ noff[c] = (IF job[c].pc = "acquire" \/ lock = c THEN 1 ELSE 0)
                    + (IF lock = c /\ job[c].pc \in {"check", "write"} THEN 1 ELSE 0)
  /\ panicked = 1 => \E c \in Cpu : job[c].pc = "halted"
=============================================================================
