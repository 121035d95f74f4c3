------------------------------ MODULE ShParse -------------------------------
(***************************************************************************)
(* The parser of user/sh.c, and what its grammar says a line means.        *)
(*                                                                         *)
(* A line is a sequence of characters, the newline left out; a character   *)
(* that is neither blank nor a symbol belongs to a word.  A parser reads   *)
(* the characters from s on and gives <<command, the characters after it>>.*)
(* panic() ends the process: the command is then Panic, nothing is left to *)
(* read, and the constructors keep Panic.                                  *)
(***************************************************************************)
EXTENDS Integers, Sequences, FiniteSets, SequencesExt

CONSTANT MAXARGS  \* size of argv[], its terminating 0 included

whitespace == {" "}
symbols == {"<", "|", ">", "&", ";", "(", ")"}

Panic == [type |-> "PANIC"]
Panicked == <<Panic, <<>>>>

(***************************************************************************)
(* Constructors                                                            *)
(***************************************************************************)
Execcmd == [type |-> "EXEC", argv |-> <<>>]

Redircmd(cmd, mode, file) ==
  IF cmd = Panic THEN Panic
  ELSE [type |-> "REDIR", cmd |-> cmd, file |-> file, mode |-> mode,
        fd |-> IF mode = "<" THEN 0 ELSE 1]

Pipecmd(left, right) ==
  IF Panic \in {left, right} THEN Panic ELSE [type |-> "PIPE", left |-> left, right |-> right]

Listcmd(left, right) ==
  IF Panic \in {left, right} THEN Panic ELSE [type |-> "LIST", left |-> left, right |-> right]

Backcmd(cmd) == IF cmd = Panic THEN Panic ELSE [type |-> "BACK", cmd |-> cmd]

(***************************************************************************)
(* Tokens                                                                  *)
(***************************************************************************)
\* s from its first character outside S.
Skip(s, S) ==
  LET stop == {k \in 1 .. Len(s) : s[k] \notin S}
  IN  IF stop = {} THEN <<>> ELSE SubSeq(s, Min(stop), Len(s))

Peek(s, toks) == LET t == Skip(s, whitespace) IN t # <<>> /\ t[1] \in toks

\* The length of the token that starts t: two for >>, a word up to a blank or
\* a symbol.
TokenLen(t) ==
  CASE t[1] = ">" /\ Len(t) > 1 /\ t[2] = ">" -> 2
    [] t[1] \in symbols -> 1
    [] OTHER -> Min({k \in 1 .. Len(t) : k = Len(t) \/ t[k + 1] \in whitespace \cup symbols})

\* The token that s starts with: its kind (0 at the end, "a" for a word), its
\* characters, and what follows it.
Gettoken(s) ==
  LET t == Skip(s, whitespace)
  IN  IF t = <<>> THEN [tok |-> "end", word |-> <<>>, rest |-> <<>>]
      ELSE [tok |-> CASE t[1] \notin symbols -> "a"
                      [] TokenLen(t) = 2 -> ">>"
                      [] OTHER -> t[1],
            word |-> SubSeq(t, 1, TokenLen(t)),
            rest |-> Skip(SubSeq(t, TokenLen(t) + 1, Len(t)), whitespace)]

(***************************************************************************)
(* The parser                                                              *)
(***************************************************************************)
RECURSIVE Parseredirs(_, _)
RedirTo(cmd, op, file) ==
  IF file.tok # "a" THEN Panicked ELSE Parseredirs(Redircmd(cmd, op, file.word), file.rest)
RedirBy(cmd, op) == RedirTo(cmd, op.tok, Gettoken(op.rest))
Parseredirs(cmd, s) == IF Peek(s, {"<", ">"}) THEN RedirBy(cmd, Gettoken(s)) ELSE <<cmd, s>>

\* The argument goes to the execcmd, inside the redirections met so far.
RECURSIVE AddArg(_, _)
AddArg(cmd, word) ==
  CASE cmd = Panic -> Panic
    [] cmd.type = "EXEC" -> [cmd EXCEPT !.argv = Append(@, word)]
    [] OTHER -> [cmd EXCEPT !.cmd = AddArg(@, word)]

\* The loop of parseexec(), and a turn of it at the token arg.  A command and
\* the characters after it are one parameter.
RECURSIVE Parseargs(_, _)
ParseArg(parsed, argc, arg) ==
  CASE arg.tok = "end" -> parsed
    [] arg.tok \notin {"end", "a"} \/ (arg.tok = "a" /\ argc + 1 >= MAXARGS) -> Panicked
    [] OTHER -> Parseargs(Parseredirs(AddArg(parsed[1], arg.word), arg.rest), argc + 1)
Parseargs(parsed, argc) ==
  IF parsed = Panicked \/ Peek(parsed[2], {"|", ")", "&", ";"}) THEN parsed
  ELSE ParseArg(parsed, argc, Gettoken(parsed[2]))

RECURSIVE Parseline(_)
EndBlock(line) ==
  IF line # Panicked /\ Peek(line[2], {")"}) THEN Parseredirs(line[1], Gettoken(line[2]).rest) ELSE Panicked
Parseblock(s) == EndBlock(Parseline(Gettoken(s).rest))

Parseexec(s) ==
  IF Peek(s, {"("}) THEN Parseblock(s) ELSE Parseargs(Parseredirs(Execcmd, s), 0)

RECURSIVE Parsepipe(_)
PipeInto(left, right) == <<Pipecmd(left[1], right[1]), right[2]>>
PipeAfter(left) ==
  IF left # Panicked /\ Peek(left[2], {"|"}) THEN PipeInto(left, Parsepipe(Gettoken(left[2]).rest)) ELSE left
Parsepipe(s) == PipeAfter(Parseexec(s))

RECURSIVE Parseback(_)
Parseback(line) ==
  IF line # Panicked /\ Peek(line[2], {"&"}) THEN Parseback(<<Backcmd(line[1]), Gettoken(line[2]).rest>>) ELSE line

\* The second command of a list is parsed as a whole line.
ListOf(left, right) == <<Listcmd(left[1], right[1]), right[2]>>
MutPipeAfter(left) ==
  IF left # Panicked /\ Peek(left[2], {";"}) THEN ListOf(left, Parsepipe(Gettoken(left[2]).rest)) ELSE left
ListAfter(left) ==
  IF left # Panicked /\ Peek(left[2], {";"}) THEN ListOf(left, Parseline(Gettoken(left[2]).rest)) ELSE left
Parseline(s) == ListAfter(Parseback(Parsepipe(s)))

\* What is left over is a syntax error.
WholeLine(line) == IF Skip(line[2], whitespace) = <<>> THEN line[1] ELSE Panic
Parsecmd(s) == WholeLine(Parseline(s))

(***************************************************************************)
(* The meaning of a line, by splitting it: at the first ; outside all      *)
(* parentheses, then at the & it ends with, then at the first such |.      *)
(***************************************************************************)
\* The numbers of S in increasing order.
Sorted(S) == [k \in 1 .. Cardinality(S) |-> CHOOSE x \in S : Cardinality({y \in S : y < x}) = k - 1]

\* The number of > right before s[k].
Run(s, k) == CHOOSE n \in 0 .. k - 1 :
  /\ \A j \in k - n .. k - 1 : s[j] = ">"
  /\ n = k - 1 \/ s[k - n - 1] # ">"

\* A token starts at s[k]: not inside a word, and not the second half of >>.
Starts(s, k) ==
  /\ s[k] \notin whitespace
  /\ s[k] = ">" => Run(s, k) % 2 = 0
  /\ (s[k] \notin symbols /\ k > 1) => s[k - 1] \in whitespace \cup symbols

Tokens(s) ==
  LET at == Sorted({k \in 1 .. Len(s) : Starts(s, k)})
      End(j) == IF j = Len(at) THEN Len(s) ELSE at[j + 1] - 1
  IN  [j \in 1 .. Len(at) |-> SelectSeq(SubSeq(s, at[j], End(j)), LAMBDA c : c \notin whitespace)]

IsWord(t) == t[1] \notin symbols
Number(t, k, c) == Cardinality({j \in 1 .. k : t[j] = <<c>>})
Depth(t, k) == Number(t, k, "(") - Number(t, k, ")")
\* The places of c outside all parentheses.
Outside(t, c) == {k \in 1 .. Len(t) : t[k] = <<c>> /\ Depth(t, k) = 0}
Before(t, k) == SubSeq(t, 1, k - 1)
After(t, k) == SubSeq(t, k + 1, Len(t))

\* The words that follow a redirection, and the others.
Operators(t) == {k \in 1 .. Len(t) : t[k][1] \in {"<", ">"}}
Files(t) == {k + 1 : k \in Operators(t)}
Words(t) == (1 .. Len(t)) \ (Operators(t) \cup Files(t))

Redirected(cmd, t) ==
  LET Add(c, k) == Redircmd(c, IF Len(t[k]) = 2 THEN ">>" ELSE t[k][1], t[k + 1])
  IN  IF \A k \in Files(t) : k <= Len(t) /\ IsWord(t[k])
      THEN FoldLeft(Add, cmd, Sorted(Operators(t))) ELSE Panic

RECURSIVE Meaning(_)
SimpleMeaning(t) ==
  LET close == {k \in 1 .. Len(t) : Depth(t, k) = 0}
      argv == Sorted(Words(t))
  IN  IF t # <<>> /\ t[1] = <<"(">>
      THEN IF close # {} /\ Words(After(t, Min(close))) = {}
           THEN Redirected(Meaning(SubSeq(t, 2, Min(close) - 1)), After(t, Min(close)))
           ELSE Panic
      ELSE IF (\A k \in Words(t) : IsWord(t[k])) /\ Len(argv) < MAXARGS
           THEN Redirected([Execcmd EXCEPT !.argv = [j \in 1 .. Len(argv) |-> t[argv[j]]]], t)
           ELSE Panic

RECURSIVE PipeMeaning(_)
PipeMeaning(t) ==
  LET bar == Outside(t, "|")
  IN  IF bar = {} THEN SimpleMeaning(t)
      ELSE Pipecmd(SimpleMeaning(Before(t, Min(bar))), PipeMeaning(After(t, Min(bar))))

RECURSIVE BackMeaning(_)
BackMeaning(t) ==
  IF t # <<>> /\ Last(t) = <<"&">> THEN Backcmd(BackMeaning(Front(t))) ELSE PipeMeaning(t)

Meaning(t) ==
  LET semi == Outside(t, ";")
  IN  IF semi = {} THEN BackMeaning(t)
      ELSE Listcmd(BackMeaning(Before(t, Min(semi))), Meaning(After(t, Min(semi))))
=============================================================================
