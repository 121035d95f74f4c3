-------------------------------- MODULE Grep --------------------------------
(***************************************************************************)
(* user/grep.c: the loop of grep() over a file that read() delivers in     *)
(* pieces, and the matcher, one call or turn of a loop at a time.          *)
(*                                                                         *)
(* matchhere() calls itself and matchstar() last, so its own frames need   *)
(* no return address: the stack holds the loops of match() and matchstar() *)
(* that are to try again when matchhere() returns 0; a 1 ends them all.    *)
(***************************************************************************)
EXTENDS Integers, Sequences, FiniteSets, SequencesExt

CONSTANTS
  BUF,   \* sizeof(buf)
  Cases  \* what grep is run on: [re, i, file], the pattern, -i and the file

VARIABLES
  case,      \* the arguments
  input,     \* what read() has not delivered yet
  buf, p,    \* the m characters of buf, and the place of the next line in it
  pc,        \* "read", "scan", "here", "return0" or "done"
  re, text,  \* matchhere()'s arguments
  stack,     \* the loops under way
  out        \* what was written

vars == <<case, input, buf, p, pc, re, text, stack, out>>
matcher == <<re, text, stack>>

NL == "nl"

Init ==
  /\ case \in Cases
  /\ input = case.file /\ buf = <<>> /\ p = 1
  /\ pc = "read" /\ re = <<>> /\ text = <<>> /\ stack = <<>> /\ out = <<>>

To_lower(c) == IF c = "A" THEN "a" ELSE c
Same(c, d) == IF case.i THEN To_lower(c) = To_lower(d) ELSE c = d

Rest(s, k) == SubSeq(s, k, Len(s))

(***************************************************************************)
(* grep()                                                                  *)
(***************************************************************************)
\* read() delivers up to the room that is left; 0 of them end grep().
Room == BUF - Len(buf) - 1
Read ==
  /\ pc = "read"
  /\ \/ \E n \in 1 .. Room :
          /\ n <= Len(input)
          /\ buf' = buf \o SubSeq(input, 1, n) /\ input' = Rest(input, n + 1)
          /\ p' = 1 /\ pc' = "scan"
     \/ (Room = 0 \/ input = <<>>) /\ pc' = "done" /\ UNCHANGED <<buf, input, p>>
  /\ UNCHANGED <<case, matcher, out>>

\* The places of the newlines from p on.
Newlines == {q \in p .. Len(buf) : buf[q] = NL}

\* A whole line is given to match(); the start of a line moves to the front.
\* match() tries an anchored pattern once, any other at every place.
MutStay(s, k) == s
MoveDown(s, k) == Rest(s, k)
Scan ==
  /\ pc = "scan"
  /\ IF Newlines # {}
     THEN LET t == SubSeq(buf, p, Min(Newlines) - 1)
              anchored == case.re # <<>> /\ Head(case.re) = "^"
          IN  /\ pc' = "here" /\ text' = t
              /\ re' = IF anchored THEN Tail(case.re) ELSE case.re
              /\ stack' = IF anchored THEN <<>> ELSE <<[loop |-> "match", re |-> case.re, text |-> t]>>
              /\ UNCHANGED <<buf, p>>
     ELSE buf' = MoveDown(buf, p) /\ p' = 1 /\ pc' = "read" /\ UNCHANGED matcher
  /\ UNCHANGED <<case, input, out>>

\* match() returns, and grep() goes on behind the newline.
Matched(b) ==
  /\ out' = IF b THEN out \o SubSeq(buf, p, Min(Newlines)) ELSE out
  /\ p' = Min(Newlines) + 1 /\ pc' = "scan"
  /\ re' = <<>> /\ text' = <<>> /\ stack' = <<>>
  /\ UNCHANGED <<buf>>

(***************************************************************************)
(* matchhere() and the loops of matchstar() and match()                    *)
(***************************************************************************)
Call(r, t, s) == pc' = "here" /\ re' = r /\ text' = t /\ stack' = s /\ UNCHANGED <<buf, p, out>>
Return0 == pc' = "return0" /\ re' = <<>> /\ text' = <<>> /\ UNCHANGED <<stack, buf, p, out>>

Matchhere ==
  /\ pc = "here"
  /\ CASE re = <<>> -> Matched(TRUE)
       [] Len(re) >= 2 /\ re[2] = "*" ->
            Call(Rest(re, 3), text, Append(stack, [loop |-> re[1], re |-> Rest(re, 3), text |-> text]))
       [] re = <<"$">> -> IF text = <<>> THEN Matched(TRUE) ELSE Return0
       [] OTHER ->
            IF text # <<>> /\ (re[1] = "." \/ Same(re[1], text[1]))
            THEN Call(Tail(re), Tail(text), stack) ELSE Return0
  /\ UNCHANGED <<case, input>>

\* The place at which a loop tries again: matchstar() passes over a character
\* that is c and stays where it is when c is ".".
Again(f) == IF f.loop = "." THEN f.text ELSE Tail(f.text)

GoesOn(f) == f.text # <<>> /\ (f.loop \in {"match", "."} \/ Same(f.text[1], f.loop))

Returned0 ==
  /\ pc = "return0"
  /\ IF stack = <<>> THEN Matched(FALSE)
     ELSE LET f == Last(stack)
          IN  IF GoesOn(f) THEN Call(f.re, Again(f), Append(Front(stack), [f EXCEPT !.text = Again(f)]))
              ELSE stack' = Front(stack) /\ UNCHANGED <<pc, re, text, buf, p, out>>
  /\ UNCHANGED <<case, input>>

Step == Read \/ Scan \/ Matchhere \/ Returned0

\* grep() has returned.
Done == pc = "done" /\ UNCHANGED vars

Next == Step \/ Done

Spec == Init /\ [][Next]_vars

\* The one process of the program keeps running.
FairSpec == Spec /\ WF_vars(Step)

(***************************************************************************)
(* What a pattern means and what grep should print                         *)
(***************************************************************************)
\* A pattern is a sequence of items: a character or ".", that may be starred,
\* and "$" at the end.
RECURSIVE Items(_)
Items(r) ==
  CASE r = <<>> -> <<>>
    [] Len(r) >= 2 /\ r[2] = "*" -> <<[c |-> r[1], kind |-> "star"]>> \o Items(Rest(r, 3))
    [] r = <<"$">> -> <<[c |-> "$", kind |-> "end"]>>
    [] OTHER -> <<[c |-> r[1], kind |-> "one"]>> \o Items(Tail(r))

\* The item stands for the characters of t from i + 1 to j.
Fits(item, t, i, j) ==
  LET Good == \A k \in i + 1 .. j : item.c = "." \/ Same(item.c, t[k])
  IN  CASE item.kind = "one" -> j = i + 1 /\ Good
        [] item.kind = "star" -> i <= j /\ Good
        [] OTHER -> i = j /\ j = Len(t)

\* The line t can be cut into pieces that the items stand for.
Matches(t) ==
  LET anchored == case.re # <<>> /\ Head(case.re) = "^"
      items == Items(IF anchored THEN Tail(case.re) ELSE case.re)
  IN  \E cut \in [0 .. Len(items) -> 0 .. Len(t)] :
        /\ anchored => cut[0] = 0
        /\ \A k \in 1 .. Len(items) : Fits(items[k], t, cut[k - 1], cut[k])

\* The matching lines among the complete ones that start s, up to a line too
\* long for the buffer.
RECURSIVE Printed(_)
Printed(s) ==
  LET ends == {k \in 1 .. Len(s) : s[k] = NL}
      n == Min(ends)
  IN  IF ends = {} THEN <<>>
      ELSE IF n > BUF - 1 THEN <<>>
      ELSE (IF Matches(SubSeq(s, 1, n - 1)) THEN SubSeq(s, 1, n) ELSE <<>>) \o Printed(Rest(s, n + 1))

DotStar(r) == \E k \in 1 .. Len(r) - 1 : r[k] = "." /\ r[k + 1] = "*"

(***************************************************************************)
(* Properties                                                              *)
(***************************************************************************)
\* Whatever pieces read() delivers, and however the matcher backtracks, grep
\* writes the lines that match and no others, in order and once; when it ends
\* it has written them all, up to the first line that does not fit in buf.
GrepPrints ==
  /\ pc = "scan" => IsPrefix(out, Printed(case.file))
  /\ pc = "done" => out = Printed(case.file)

\* match() returns for every pattern of the operators "^ . * $" that grep says
\* it supports, so that grep comes to the end of its input.
GrepEnds == <>(pc = "done")
=============================================================================
