----------------------------- MODULE MCPrograms -----------------------------
(***************************************************************************)
(* Instance for TLC of the pipe, of the shell that builds pipelines out of *)
(* pipes, and of grep and find that run from it.  Each stands on what the  *)
(* others promise, not on their state, so a behaviour is one of any of     *)
(* them.                                                                   *)
(***************************************************************************)
EXTENDS Pipe, SequencesExt

CONSTANTS MAXARGS, NPROC, NOFILE, PipeName, BUF,
          SIZEBUF, DIRSIZ, LineLen, PatternLen, TextLen, FileLen

VARIABLES part,
          script, spc, parent, cmd, fd, pfd, pid, back, failed,
          case, input, buf, p, gpc, re, text, stack, out,
          tree, start, frames, printed, reported

shell == <<script, spc, parent, cmd, fd, pfd, pid, back, failed>>
grep == <<case, input, buf, p, gpc, re, text, stack, out>>
find == <<tree, start, frames, printed, reported>>

\* Lines that run: pipelines, lists, blocks and redirections, and a background
\* command that is still running when the next line is typed.
OneLine == {
  <<" ">>, <<"c", "d", " ", "x">>, <<"h", "|">>, <<"h", "(">>,
  <<"y", "|", "h">>, <<"h", "|", "c", "|", "c">>, <<"h", "&", ";", "h">>,
  <<"c", "<", "x", "|", "c", ">", "x">>,
  <<"(", "y", ";", "h", ")", "|", "h", "&", ";", "h">>,
  <<"(", "h", "|", "c", ")", "|", "c">>}
Background == <<"(", "h", "|", "c", "|", "c", ")", "&">>
Typed == {<<t>> : t \in OneLine} \cup {<<Background, <<"c">>>>}

\* Every short line, to be read and parsed but not run.
ShortLine == {<<t>> : t \in SeqOf({"h", "|", "&", ";", "(", ")", ">", " "}, LineLen)}

\* Every short pattern on every short line, and one pattern on every short file.
Cases ==
  [re : SeqOf({"a", "A", "^", "$", ".", "*"}, PatternLen), i : BOOLEAN,
   file : {Append(t, "nl") : t \in SeqOf({"a", "b"}, TextLen)}]
  \cup [re : {<<"a">>}, i : {FALSE}, file : SeqOf({"a", "b", "nl"}, FileLen)]

NoCase == [re |-> <<"a">>, i |-> FALSE, file |-> <<>>]

\* Directories with a file of two names, a link upwards and a free entry; one
\* with the file's name and a link to nothing; a file.
Dir(entries) == [type |-> "T_DIR", entries |-> entries]
File == [type |-> "T_FILE", entries |-> <<>>]
Tree == {
  <<Dir(<<<<".", 1>>, <<"..", 1>>, <<"a", 2>>, <<"f", 3>>>>),
    Dir(<<<<".", 2>>, <<"..", 1>>, <<"free", 0>>, <<"up", 1>>, <<"f", 3>>>>), File>>,
  <<Dir(<<<<"f", 2>>, <<"a", 0>>, <<"b", 3>>>>), Dir(<<<<"f", 3>>>>), File>>,
  <<File>>}
Starts == {<<"f">>, <<"r", "r", "r">>}
Target == "f"

S == INSTANCE Shell WITH pc <- spc
G == INSTANCE Grep WITH pc <- gpc
F == INSTANCE Find

Parts == {"pipe", "shell", "parse", "grep", "find"}

\* The parts that do not move start in one of their initial states.
MCInit ==
  /\ part \in Parts
  /\ Init
  /\ IF part = "parse" THEN S!InitWith(ShortLine)
     ELSE IF part = "shell" THEN S!Init ELSE S!InitWith({<<>>})
  /\ IF part = "grep" THEN case \in Cases ELSE case = NoCase
  /\ G!Init
  /\ F!Init /\ (part # "find" => tree = <<File>> /\ start = <<"f">>)

Steps ==
  \/ part = "shell" /\ S!Step /\ UNCHANGED <<vars, grep, find>>
  \/ part = "grep" /\ G!Step /\ UNCHANGED <<vars, shell, find>>
  \/ part = "find" /\ F!Step /\ UNCHANGED <<vars, shell, grep>>

MCNext ==
  /\ UNCHANGED part
  /\ \/ part = "pipe" /\ Next /\ UNCHANGED <<shell, grep, find>>
     \/ part = "shell" /\ S!Next /\ UNCHANGED <<vars, grep, find>>
     \/ /\ part = "parse" /\ UNCHANGED <<vars, grep, find>>
        /\ (\E q \in S!Pid : S!InitMain(q) \/ S!Getcmd(q)) \/ S!Idle
     \/ part = "grep" /\ G!Next /\ UNCHANGED <<vars, shell, find>>
     \/ part = "find" /\ F!Next /\ UNCHANGED <<vars, shell, grep>>

all == <<part, vars, shell, grep, find>>

\* Every step of a program uses up a part of a command or of its input, so it is
\* enough that somebody moves as long as somebody can.  Nobody has to type.
MCSpec == MCInit /\ [][MCNext]_all /\ Fairness /\ WF_all(Steps /\ UNCHANGED part)

\* The shell's parser gives every line the meaning its grammar does.
LineMeansCommand == S!LineMeansCommand

\* Programs start with descriptors 0, 1 and 2 only, wait(0) collects the child
\* that was meant, and the prompt shows when the foreground is done.
ShellInv == S!ShellInv

\* Every command line ends, with all its processes collected, and the shell is
\* back at the prompt; grep without ".*" in its pattern comes to the end of its
\* input, and find of a tree that a link makes endless.  In a pipe, nobody stays
\* inside read() or write() once the other end is closed for good.
ProgramsFinish ==
  /\ ClosedPipeReleases
  /\ <>[](/\ part = "shell" => S!Finished
          /\ part = "grep" => G!DotStar(case.re) \/ gpc = "done"
          /\ part = "find" => F!Finished)

\* grep prints the matching lines and no others, in order and once; find the
\* paths of the files of that name, but for what it says it could not visit.
OutputComplete ==
  /\ part = "grep" => G!GrepPrints
  /\ part = "find" => F!FindPrints
=============================================================================
