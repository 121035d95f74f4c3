------------------------------- MODULE Shell --------------------------------
(***************************************************************************)
(* The processes a command line turns into: runcmd() and main() of         *)
(* user/sh.c, and user/init.c above them.                                  *)
(*                                                                         *)
(* A step ends at a system call that other processes notice; the calls     *)
(* that only rearrange a process's own descriptors go with the one before. *)
(* The kernel is used through what its modules promise: fork copies the    *)
(* descriptors and fails without a free slot, exit closes them and gives   *)
(* the children to init, wait() takes the first exited child in the table  *)
(* (module Proc); a new descriptor is the lowest free one (FileTable); a   *)
(* pipe ends when its last writer is gone and breaks when its last reader  *)
(* is (Pipe).                                                              *)
(***************************************************************************)
EXTENDS ShParse

CONSTANTS
  NPROC,     \* process slots
  NOFILE,    \* descriptors of a process
  PipeName,  \* pipes
  Typed      \* what somebody may type before a control-d: sequences of lines

VARIABLES
  script,  \* what is still to be typed
  pc,      \* where each process is
  parent,  \* its parent, 0 for init
  cmd,     \* the command it runs
  fd,      \* its descriptors, Closed or the file
  pfd,     \* the numbers p[0], p[1] of the pipe it made
  pid,     \* init's child that is the shell
  back,    \* history: the processes that run in the background
  failed   \* history: a fork() failed

vars == <<script, pc, parent, cmd, fd, pfd, pid, back, failed>>

Pid == 1 .. NPROC
init == 1
NoCmd == [type |-> "NONE"]
EOF == <<"EOF">>
Closed == <<"closed", "">>
Console == <<"console", "">>
File == <<"file", "">>
Rd(k) == <<"rd", k>>
Wr(k) == <<"wr", k>>

NoFiles == [d \in 0 .. NOFILE - 1 |-> Closed]
ThreeConsoles == [d \in 0 .. NOFILE - 1 |-> IF d < 3 THEN Console ELSE Closed]

Free == {p \in Pid : pc[p] = "unused"}
Children(p) == {q \in Pid : parent[q] = p /\ pc[q] # "unused"}
Lowest(f) == Min({d \in DOMAIN f : f[d] = Closed})
Open(f, x) == [f EXCEPT ![Lowest(f)] = x]
Close(f, D) == [d \in DOMAIN f |-> IF d \in D THEN Closed ELSE f[d]]
Held(x) == \E p \in Pid, d \in 0 .. NOFILE - 1 : fd[p][d] = x

\* init has opened the console three times.
InitWith(T) ==
  /\ script \in {t \o <<EOF>> : t \in T}
  /\ pc = [p \in Pid |-> IF p = init THEN "start" ELSE "unused"]
  /\ parent = [p \in Pid |-> 0]
  /\ cmd = [p \in Pid |-> NoCmd]
  /\ fd = [p \in Pid |-> IF p = init THEN ThreeConsoles ELSE NoFiles]
  /\ pfd = [p \in Pid |-> <<>>]
  /\ pid = 0 /\ back = {} /\ failed = FALSE

Init == InitWith(Typed)

(***************************************************************************)
(* System calls                                                            *)
(***************************************************************************)
ExitAs(p, f) ==
  /\ pc' = [pc EXCEPT ![p] = "zombie"]
  /\ parent' = [q \in Pid |-> IF parent[q] = p THEN init ELSE parent[q]]
  /\ cmd' = [cmd EXCEPT ![p] = NoCmd]
  /\ fd' = [fd EXCEPT ![p] = NoFiles]
  /\ pfd' = [pfd EXCEPT ![p] = <<>>]
  /\ back' = back \ {p}
  /\ failed' = f
  /\ UNCHANGED <<script, pid>>

Exit(p) == ExitAs(p, failed)

\* The child starts at childpc with childcmd and the descriptors childfd; the
\* caller goes on at label, with the descriptors f.
ForkTo(p, label, f, childpc, childcmd, childfd) ==
  LET q == Min(Free)
  IN  /\ Free # {}
      /\ pc' = [pc EXCEPT ![p] = label, ![q] = childpc]
      /\ cmd' = [cmd EXCEPT ![q] = childcmd]
      /\ fd' = [fd EXCEPT ![p] = f, ![q] = childfd]
      /\ parent' = [parent EXCEPT ![q] = p]
      /\ back' = IF p \in back \/ cmd[p].type = "BACK" THEN back \cup {q} ELSE back
      /\ pid' = IF p = init THEN q ELSE pid
      /\ UNCHANGED <<script, pfd, failed>>

\* fork1() panics when fork() fails; init exits then, too.
Fork1(p, label, f, childpc, childcmd, childfd) ==
  \/ ForkTo(p, label, f, childpc, childcmd, childfd)
  \/ Free = {} /\ ExitAs(p, TRUE)

\* wait(0): every caller has a child (ShellInv), so it never fails.
Exited(p) == {q \in Children(p) : pc[q] = "zombie"}
Wait(p, label, c) ==
  LET q == Min(Exited(p))
  IN  /\ Exited(p) # {}
      /\ pc' = [pc EXCEPT ![q] = "unused", ![p] = label]
      /\ parent' = [parent EXCEPT ![q] = 0]
      /\ cmd' = [cmd EXCEPT ![p] = c]
      /\ UNCHANGED <<script, fd, pfd, pid, back, failed>>

(***************************************************************************)
(* runcmd()                                                                *)
(***************************************************************************)
Runs(p, type) == pc[p] = "run" /\ cmd[p].type = type

Program == {<<"c">>, <<"h">>, <<"y">>}

CanExec(c) == IF c.argv = <<>> THEN FALSE ELSE Head(c.argv) \in Program

\* An empty command, a program that exec() does not find, and a line that
\* parsecmd() refused end the process.
RunExec(p) ==
  \/ /\ Runs(p, "EXEC") /\ CanExec(cmd[p])
     /\ pc' = [pc EXCEPT ![p] = "program"]
     /\ UNCHANGED <<script, parent, cmd, fd, pfd, pid, back, failed>>
  \/ Runs(p, "EXEC") /\ ~CanExec(cmd[p]) /\ Exit(p)
  \/ Runs(p, "PANIC") /\ Exit(p)

\* open() may fail.
RunRedir(p) ==
  /\ Runs(p, "REDIR")
  /\ \/ /\ fd' = [fd EXCEPT ![p] = Open(Close(@, {cmd[p].fd}), File)]
        /\ cmd' = [cmd EXCEPT ![p] = cmd[p].cmd]
        /\ UNCHANGED <<script, pc, parent, pfd, pid, back, failed>>
     \/ Exit(p)

RunList(p) ==
  \/ Runs(p, "LIST") /\ Fork1(p, "list_wait", fd[p], "run", cmd[p].left, fd[p])
  \/ pc[p] = "list_wait" /\ Wait(p, "run", cmd[p].right)

RunBack(p) ==
  Runs(p, "BACK") /\ Fork1(p, "exit", fd[p], "run", cmd[p].cmd, fd[p])

\* The descriptors of the left child, of the right child and of the parent.
MutKeepRead(f, e) == Close(Open(Close(f, {1}), f[e[2]]), {e[2]})
LeftEnds(f, e) == Close(Open(Close(f, {1}), f[e[2]]), {e[1], e[2]})
RightEnds(f, e) == Close(Open(Close(f, {0}), f[e[1]]), {e[1], e[2]})
MutKeepEnds(f, e) == f
ParentEnds(f, e) == Close(f, {e[1], e[2]})

\* pipe() may fail.
RunPipe(p) ==
  \/ /\ Runs(p, "PIPE")
     /\ \/ LET k == CHOOSE k \in PipeName : ~Held(Rd(k)) /\ ~Held(Wr(k))
               one == Open(fd[p], Rd(k))
           IN  /\ fd' = [fd EXCEPT ![p] = Open(one, Wr(k))]
               /\ pfd' = [pfd EXCEPT ![p] = <<Lowest(fd[p]), Lowest(one)>>]
               /\ pc' = [pc EXCEPT ![p] = "left"]
               /\ UNCHANGED <<script, parent, cmd, pid, back, failed>>
        \/ Exit(p)
  \/ /\ pc[p] = "left"
     /\ Fork1(p, "right", fd[p], "run", cmd[p].left, LeftEnds(fd[p], pfd[p]))
  \/ /\ pc[p] = "right"
     /\ Fork1(p, "wait_one", ParentEnds(fd[p], pfd[p]), "run", cmd[p].right,
              RightEnds(fd[p], pfd[p]))
  \/ pc[p] = "wait_one" /\ Wait(p, "wait_two", cmd[p])
  \/ pc[p] = "wait_two" /\ Wait(p, "exit", cmd[p])

Runcmd(p) ==
  RunExec(p) \/ RunRedir(p) \/ RunList(p) \/ RunBack(p) \/ RunPipe(p) \/ (pc[p] = "exit" /\ Exit(p))

(***************************************************************************)
(* main() of the shell and of init, and the programs                       *)
(***************************************************************************)
Blank(t) == Skip(t, whitespace) = <<>>
IsCd(t) == LET s == Skip(t, whitespace) IN Len(s) > 2 /\ SubSeq(s, 1, 3) = <<"c", "d", " ">>

\* Somebody types a line.  A blank line and cd, which the shell does itself,
\* need no child; control-d ends the shell.  The child parses its copy of the
\* line before anything else, which is as good as parsing it here.
Getcmd(p) ==
  /\ pc[p] = "get" /\ script # <<>>
  /\ LET t == Head(script)
         needed == t # EOF /\ ~Blank(t) /\ ~IsCd(t)
     IN  /\ pc' = [pc EXCEPT ![p] = IF t = EOF THEN "exit" ELSE IF needed THEN "fork" ELSE "get"]
         /\ cmd' = [cmd EXCEPT ![p] = IF needed THEN [type |-> "LINE", line |-> t, cmd |-> Parsecmd(t)]
                                      ELSE NoCmd]
  /\ script' = Tail(script)
  /\ UNCHANGED <<parent, fd, pfd, pid, back, failed>>

Shell(p) ==
  \/ pc[p] = "fork" /\ Fork1(p, "wait", fd[p], "run", cmd[p].cmd, fd[p])
  \/ pc[p] = "wait" /\ Wait(p, "get", NoCmd)

\* init starts a shell, collects what was left to it, and starts another shell
\* when the shell has exited.
InitMain(p) ==
  \/ pc[p] = "start" /\ Fork1(p, "init_wait", fd[p], "get", NoCmd, fd[p])
  \/ pc[p] = "init_wait" /\ Wait(p, IF pid = Min(Exited(p)) THEN "start" ELSE "init_wait", NoCmd)

\* c reads its input to the end, y writes until nobody reads, h just ends.
CanEnd(p) ==
  LET name == Head(cmd[p].argv)
  IN  /\ name = <<"c">> => \A k \in PipeName : fd[p][0] = Rd(k) => ~Held(Wr(k))
      /\ name = <<"y">> => \A k \in PipeName : fd[p][1] = Wr(k) => ~Held(Rd(k))

ProgramEnds(p) == pc[p] = "program" /\ CanEnd(p) /\ Exit(p)

\* The kernel panics when init exits.
Step ==
  /\ pc[init] # "zombie"
  /\ \E p \in Pid : Shell(p) \/ InitMain(p) \/ Runcmd(p) \/ ProgramEnds(p)

Types == pc[init] # "zombie" /\ \E p \in Pid : Getcmd(p)

\* The scheduler waits for interrupts when nobody can run.
Idle == UNCHANGED vars

Next == Step \/ Types \/ Idle

Spec == Init /\ [][Next]_vars

(***************************************************************************)
(* Properties                                                              *)
(***************************************************************************)
\* The parser, recursive descent over the characters, makes of every line what
\* splitting it at ; & | and parentheses says it means, and refuses the rest.
LineMeansCommand ==
  \A p \in Pid : pc[p] = "fork" => cmd[p].cmd = Meaning(Tokens(cmd[p].line))

Waiting == {"list_wait", "wait_one", "wait_two", "wait", "init_wait"}

\* Across all the forks of a line: a program starts with descriptors 0, 1 and 2
\* and no other, never reading from a pipe's write end or the reverse; who
\* calls wait(0) has a child, and who goes on to a command or a program has
\* none, so "wait(0)" meant the right one; and the prompt shows only when
\* nothing but background commands is left, unless a fork failed half-way.
ShellInv ==
  /\ \A p \in Pid : pc[p] = "program" =>
       /\ {d \in 0 .. NOFILE - 1 : fd[p][d] # Closed} = {0, 1, 2}
       /\ fd[p][0][1] # "wr" /\ fd[p][1][1] # "rd" /\ fd[p][2] = Console
  /\ \A p \in Pid : pc[p] \in Waiting => Children(p) # {}
  /\ \A p \in Pid : pc[p] \in {"run", "program"} => Children(p) = {}
  /\ (pid # 0 /\ ~failed) =>
       (pc[pid] = "get" =>
          \A p \in Pid \ {init, pid} : pc[p] \notin {"unused", "zombie"} => p \in back)

Finished ==
  \/ pc[init] = "zombie"
  \/ \A p \in Pid : pc[p] = IF p = init THEN "init_wait" ELSE IF p = pid THEN "get" ELSE "unused"

\* Every command line comes to an end: the readers of its pipes see the end of
\* file and the writers a broken pipe, although the ends were handed through
\* several processes; all its processes are collected, the ones left to init
\* too, and the shell is back, or was started again, at the prompt.  The one
\* way out is an init that finds no slot for a new shell.
PromptReturns == <>[]Finished
=============================================================================
