------------------------------ MODULE Strings ------------------------------
(***************************************************************************)
(* kernel/string.c and the like of it in user/ulib.c, turn by turn of      *)
(* their loops, on a memory of N bytes that starts as anything.            *)
(***************************************************************************)
EXTENDS Integers, FiniteSetsExt

CONSTANTS N, Byte

StringsAssumption == N \in Nat \ {0} /\ Byte \subseteq Nat /\ 0 \in Byte

VARIABLES
  m,         \* memory
  pc,
  d, s, n,   \* the function's pointers and count as they change
  c,         \* memset()'s byte
  call       \* history: the function, its arguments, and memory at the call

vars == <<m, pc, d, s, n, c, call>>

Addr == 0 .. N - 1
NoCall == [fn |-> "none", d |-> 0, s |-> 0, n |-> 0, c |-> 0, m |-> <<>>]

Init ==
  /\ m \in [Addr -> Byte]
  /\ pc = "out" /\ d = 0 /\ s = 0 /\ n = 0 /\ c = 0 /\ call = NoCall

Fits(a, k) == a + k <= N

\* Length of the string at a, or N if it is not terminated.
Length(mem, a) == Min({k \in 0 .. N - a - 1 : mem[a + k] = 0} \cup {N})

\* What a caller must see to: regions inside memory, and for the functions on
\* strings a source that is terminated, or long enough, and out of the way.
Allowed(fn, dst, src, k) ==
  /\ Fits(dst, Max({k, 0}))
  /\ fn \in {"memmove", "umemmove"} => Fits(src, Max({k, 0}))
  /\ fn \in {"memmove", "memset"} => k >= 0
  /\ fn \in {"strncpy", "safestrcpy"} =>
       LET used == Min({Length(m, src) + 1, Max({k, 0})}) IN
       Fits(src, used) /\ (dst >= src + used \/ src >= dst + k)

Call(fn, dst, src, k, b) ==
  /\ pc = "out" /\ Allowed(fn, dst, src, k)
  /\ d' = dst /\ s' = src /\ n' = k /\ c' = b /\ pc' = fn
  /\ call' = [fn |-> fn, d |-> dst, s |-> src, n |-> k, c |-> b, m |-> m]
  /\ UNCHANGED m

Goto(l) == pc' = l /\ UNCHANGED <<m, d, s, n, c, call>>
Store(b) == m' = [m EXCEPT ![d] = b]

MutOverlap == s > d /\ d + n > s
\* s < d && s + n > d
Overlap == s < d /\ s + n > d

FromTheEnd == d' = d + n /\ s' = s + n /\ pc' = "down" /\ UNCHANGED <<m, n, c, call>>

Memmove ==
  /\ pc = "memmove"
  /\ IF n = 0 THEN Goto("done") ELSE IF Overlap THEN FromTheEnd ELSE Goto("up")

UserMemmove ==
  /\ pc = "umemmove"
  /\ IF s > d THEN Goto("up") ELSE FromTheEnd

\* while(n-- > 0) *d++ = *s++
Up ==
  /\ pc = "up"
  /\ IF n > 0 THEN Store(m[s]) /\ d' = d + 1 /\ s' = s + 1 /\ n' = n - 1 /\ UNCHANGED <<pc, c, call>>
     ELSE Goto("done")

\* while(n-- > 0) *--d = *--s
Down ==
  /\ pc = "down"
  /\ IF n > 0
     THEN m' = [m EXCEPT ![d - 1] = m[s - 1]] /\ d' = d - 1 /\ s' = s - 1 /\ n' = n - 1 /\ UNCHANGED <<pc, c, call>>
     ELSE Goto("done")

Memset ==
  /\ pc = "memset"
  /\ IF n > 0 THEN Store(c) /\ d' = d + 1 /\ n' = n - 1 /\ UNCHANGED <<pc, s, c, call>> ELSE Goto("done")

\* The two loops of strncpy(): the copy that stores the 0 is the last of the first.
Strncpy ==
  /\ pc = "strncpy"
  /\ IF n > 0
     THEN /\ Store(m[s]) /\ d' = d + 1 /\ s' = s + 1 /\ n' = n - 1
          /\ pc' = IF m[s] = 0 THEN "pad" ELSE pc
          /\ UNCHANGED <<c, call>>
     ELSE Goto("done")

Pad ==
  /\ pc = "pad"
  /\ IF n > 0 THEN Store(0) /\ d' = d + 1 /\ n' = n - 1 /\ UNCHANGED <<pc, s, c, call>> ELSE Goto("done")

Safestrcpy ==
  /\ pc = "safestrcpy"
  /\ IF n <= 0 THEN Goto("done") ELSE Goto("copy")

\* while(--n > 0 && (*s++ = *t++) != 0); *s = 0
SafeCopy ==
  /\ pc = "copy" /\ n' = n - 1
  /\ IF n - 1 > 0
     THEN /\ Store(m[s]) /\ d' = d + 1 /\ s' = s + 1
          /\ pc' = IF m[s] = 0 THEN "terminate" ELSE pc
     ELSE pc' = "terminate" /\ UNCHANGED <<m, d, s>>
  /\ UNCHANGED <<c, call>>

\* Behind the 0 that ended the loop, if one did: the caller gave room for it.
Terminate ==
  /\ pc = "terminate"
  /\ Store(0) /\ pc' = "done"
  /\ UNCHANGED <<d, s, n, c, call>>

Return == pc = "done" /\ UNCHANGED vars

Next ==
  \/ \E fn \in {"memmove", "umemmove", "memset", "strncpy", "safestrcpy"}, dst, src \in Addr,
        k \in -1 .. N, b \in Byte :
       (IF fn = "memset" THEN src = 0 ELSE b = 0) /\ Call(fn, dst, src, k, b)
  \/ Memmove \/ UserMemmove \/ Up \/ Down \/ Memset \/ Strncpy \/ Pad
  \/ Safestrcpy \/ SafeCopy \/ Terminate \/ Return

Spec == Init /\ [][Next]_vars

(***************************************************************************)
(* Properties                                                              *)
(***************************************************************************)

\* What each byte of memory is after the call.
Expected(a) ==
  LET i == a - call.d
      len == Length(call.m, call.s)
  IN  IF i \notin 0 .. call.n - 1 THEN call.m[a]
      ELSE CASE call.fn \in {"memmove", "umemmove"} -> call.m[call.s + i]
             [] call.fn = "memset" -> call.c
             [] call.fn = "strncpy" -> IF i < len THEN call.m[call.s + i] ELSE 0
             [] OTHER -> IF i < Min({len, call.n - 1}) THEN call.m[call.s + i]
                         ELSE IF i <= len + 1 THEN 0 ELSE call.m[a]

\* The functions leave the bytes their callers expect, and no other byte changed:
\* memmove() with regions that overlap either way, strncpy() with sources longer
\* and shorter than the field, safestrcpy() always terminated.
CopiesRight == pc = "done" => m = [a \in Addr |-> Expected(a)]
=============================================================================
