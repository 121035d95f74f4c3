------------------------------ MODULE FileTable ------------------------------
(***************************************************************************)
(* The file table and the descriptors: file.c's filealloc, filedup and     *)
(* fileclose under open, dup, close, pipe, fork and exit.  ftable.lock is  *)
(* held over one action; what open() and pipe() do between filealloc() and *)
(* the descriptor is a step of its own.                                    *)
(***************************************************************************)
EXTENDS Integers, FiniteSets, FiniteSetsExt

CONSTANTS Proc, initproc, NFILE, NOFILE,
          Inode  \* what may be opened

Fd == 0 .. NOFILE - 1
FileNo == 1 .. NFILE
Nil == "nil"

FileTableAssumption == {NFILE, NOFILE} \subseteq Nat \ {0} /\ Nil \notin Inode
                       /\ initproc \in Proc

VARIABLES
  file,   \* ftable.file[]: ref, type, and the inode
  ofile,  \* p->ofile[]
  pc,     \* "unborn", "out", or where in a call
  ff,     \* fileclose()'s copy of the file it closes; f of open(); rf, wf of pipe()
  iref    \* references to inodes that open() took and no iput() has dropped

vars == <<file, ofile, pc, ff, iref>>

NoFile == [ref |-> 0, type |-> "FD_NONE", ip |-> Nil]
NoLocal == [ip |-> Nil, f |-> 0, wf |-> 0]

TypeOK ==
  /\ file \in [FileNo -> [ref : Nat, type : {"FD_NONE", "FD_PIPE", "FD_INODE"}, ip : Inode \cup {Nil}]]
  /\ ofile \in [Proc -> [Fd -> 0 .. NFILE]]
  /\ pc \in [Proc -> {"unborn", "out", "open", "opened", "pipealloc", "pipe", "piped", "iput", "exit"}]
  /\ iref \in [Inode -> Nat]

Go(p, l) == pc' = [pc EXCEPT ![p] = l]
Unused == {f \in FileNo : file[f].ref = 0}
FreeFds(p) == {fd \in Fd : ofile[p][fd] = 0}

\* filealloc() leaves type as the last user left it.
Filealloc(s, f) == [s EXCEPT ![f].ref = 1]

\* fdalloc()
Fdalloc(p, f) == [ofile EXCEPT ![p][Min(FreeFds(p))] = f]

\* f->ref = 0; f->type = FD_NONE.  The old ip stays, and nothing reads it.
Release(f) == [file EXCEPT ![f] = NoFile]

(***************************************************************************)
(* open: an inode, then a file, then a descriptor                          *)
(***************************************************************************)
Open(p, i) ==
  /\ pc[p] = "out"
  /\ iref' = [iref EXCEPT ![i] = @ + 1]
  /\ IF Unused = {}
     THEN /\ Go(p, "iput") /\ ff' = [ff EXCEPT ![p] = [NoLocal EXCEPT !.ip = i]] /\ UNCHANGED file
     ELSE /\ file' = Filealloc(file, Min(Unused))
          /\ ff' = [ff EXCEPT ![p] = [NoLocal EXCEPT !.ip = i, !.f = Min(Unused)]]
          /\ Go(p, "open")
  /\ UNCHANGED ofile

\* if(f) fileclose(f); iunlockput(ip): a file that still had a type would put
\* its inode too.
OpenFails(p) ==
  LET f == ff[p].f IN
  /\ pc[p] = "open" /\ FreeFds(p) = {}
  /\ file' = Release(f)
  /\ iref' = IF file[f].type = "FD_INODE" THEN [iref EXCEPT ![file[f].ip] = @ - 1] ELSE iref
  /\ ff' = [ff EXCEPT ![p].f = 0]
  /\ Go(p, "iput")
  /\ UNCHANGED ofile

\* fdalloc() puts the file where the process can use it before it has a type;
\* the process itself is still in the call.
OpenFd(p) ==
  /\ pc[p] = "open" /\ FreeFds(p) # {}
  /\ ofile' = Fdalloc(p, ff[p].f)
  /\ Go(p, "opened")
  /\ UNCHANGED <<file, ff, iref>>

OpenDone(p) ==
  /\ pc[p] = "opened"
  /\ file' = [file EXCEPT ![ff[p].f].type = "FD_INODE", ![ff[p].f].ip = ff[p].ip]
  /\ ff' = [ff EXCEPT ![p] = NoLocal]
  /\ Go(p, "out")
  /\ UNCHANGED <<ofile, iref>>

(***************************************************************************)
(* pipe                                                                    *)
(***************************************************************************)

\* pipealloc()'s first filealloc()
PipeAlloc(p) ==
  /\ pc[p] = "out" /\ Unused # {}
  /\ file' = Filealloc(file, Min(Unused))
  /\ ff' = [ff EXCEPT ![p].f = Min(Unused)]
  /\ Go(p, "pipealloc")
  /\ UNCHANGED <<ofile, iref>>

\* The second one; without it, or without a page for the pipe, the first file
\* is closed (and the second, if there is one).
PipeAllocDone(p) ==
  LET wf == Min(Unused)
      end == [NoFile EXCEPT !.ref = 1, !.type = "FD_PIPE"]
  IN
  /\ pc[p] = "pipealloc"
  /\ \/ /\ Unused # {}
        /\ file' = [file EXCEPT ![ff[p].f] = end, ![wf] = end]
        /\ ff' = [ff EXCEPT ![p].wf = wf]
        /\ Go(p, "pipe")
     \/ /\ file' = Release(ff[p].f)
        /\ ff' = [ff EXCEPT ![p] = NoLocal]
        /\ Go(p, "out")
  /\ UNCHANGED <<ofile, iref>>

\* fdalloc(rf), then fdalloc(wf): either may find no room.
PipeFds(p) ==
  LET fds == [fd \in Fd |-> Cardinality({e \in FreeFds(p) : e <= fd})] IN
  /\ pc[p] = "pipe"
  /\ ofile' = [ofile EXCEPT ![p] = [fd \in Fd |->
       IF fd \notin FreeFds(p) \/ fds[fd] > 2 THEN @[fd] ELSE IF fds[fd] = 1 THEN ff[p].f ELSE ff[p].wf]]
  /\ Go(p, "piped")
  /\ UNCHANGED <<file, ff, iref>>

Ends(p) == {ff[p].f, ff[p].wf}

MutOneBack(p) == {fd \in Fd : ofile[p][fd] = ff[p].wf}
\* The descriptors sys_pipe() takes back when it fails.
TakenBack(p) == {fd \in Fd : ofile[p][fd] \in Ends(p)}

PipeDone(p) ==
  /\ pc[p] = "piped" /\ Cardinality({fd \in Fd : ofile[p][fd] \in Ends(p)}) = 2
  /\ ff' = [ff EXCEPT ![p] = NoLocal]
  /\ Go(p, "out")
  /\ UNCHANGED <<file, ofile, iref>>

\* No room for a descriptor, or a copyout() of one failed.
PipeFails(p) ==
  /\ pc[p] = "piped"
  /\ ofile' = [ofile EXCEPT ![p] = [fd \in Fd |-> IF fd \in TakenBack(p) THEN 0 ELSE @[fd]]]
  /\ file' = [f \in FileNo |-> IF f \in Ends(p) THEN NoFile ELSE file[f]]
  /\ ff' = [ff EXCEPT ![p] = NoLocal]
  /\ Go(p, "out")
  /\ UNCHANGED iref

(***************************************************************************)
(* dup, fork, close, exit                                                  *)
(***************************************************************************)
Dup(p, fd) ==
  LET f == ofile[p][fd] IN
  /\ pc[p] = "out" /\ f # 0 /\ FreeFds(p) # {}
  /\ ofile' = Fdalloc(p, f)
  /\ file' = [file EXCEPT ![f].ref = @ + 1]
  /\ UNCHANGED <<pc, ff, iref>>

\* kfork() calls filedup() for each descriptor.
Fork(p, q) ==
  /\ pc[p] = "out" /\ pc[q] = "unborn"
  /\ ofile' = [ofile EXCEPT ![q] = ofile[p]]
  /\ file' = [f \in FileNo |->
       [file[f] EXCEPT !.ref = @ + Cardinality({fd \in Fd : ofile[p][fd] = f})]]
  /\ Go(q, "out")
  /\ UNCHANGED <<ff, iref>>

\* sys_close(), and kexit() for each descriptor, as far as the release of
\* ftable.lock; then label l, or iput() first.
Fileclose(p, fd, l) ==
  LET f == ofile[p][fd]
      last == file[f].ref = 1
  IN
  /\ f # 0
  /\ ofile' = [ofile EXCEPT ![p][fd] = 0]
  /\ file' = IF last THEN Release(f) ELSE [file EXCEPT ![f].ref = @ - 1]
  /\ IF last /\ file[f].type = "FD_INODE"
     THEN Go(p, "iput") /\ ff' = [ff EXCEPT ![p].ip = file[f].ip, ![p].wf = IF l = "exit" THEN 1 ELSE 0]
     ELSE Go(p, l) /\ UNCHANGED ff
  /\ UNCHANGED iref

Close(p, fd) == pc[p] = "out" /\ Fileclose(p, fd, "out")

\* begin_op(); iput(ff.ip); end_op()
Iput(p) ==
  /\ pc[p] = "iput"
  /\ iref' = [iref EXCEPT ![ff[p].ip] = @ - 1]
  /\ Go(p, IF ff[p].wf = 1 THEN "exit" ELSE "out")
  /\ ff' = [ff EXCEPT ![p] = NoLocal]
  /\ UNCHANGED <<file, ofile>>

\* init does not exit.
Exit(p) ==
  /\ pc[p] = "out" /\ p # initproc
  /\ Go(p, "exit")
  /\ UNCHANGED <<file, ofile, ff, iref>>

ExitClose(p) ==
  /\ pc[p] = "exit"
  /\ IF FreeFds(p) = Fd THEN Go(p, "unborn") /\ UNCHANGED <<file, ofile, ff, iref>>
     ELSE Fileclose(p, Min(Fd \ FreeFds(p)), "exit")

Init ==
  /\ file = [f \in FileNo |-> NoFile] /\ ofile = [p \in Proc |-> [fd \in Fd |-> 0]]
  /\ pc = [p \in Proc |-> IF p = initproc THEN "out" ELSE "unborn"]
  /\ ff = [p \in Proc |-> NoLocal] /\ iref = [i \in Inode |-> 0]

Next ==
  \E p \in Proc :
    \/ \E i \in Inode : Open(p, i)
    \/ OpenFails(p) \/ OpenFd(p) \/ OpenDone(p) \/ PipeAlloc(p)
    \/ PipeAllocDone(p) \/ PipeFds(p) \/ PipeDone(p) \/ PipeFails(p)
    \/ \E fd \in Fd : Dup(p, fd) \/ Close(p, fd)
    \/ \E q \in Proc : Fork(p, q)
    \/ Iput(p) \/ Exit(p) \/ ExitClose(p)

Spec == Init /\ [][Next]_vars

(***************************************************************************)
(* Properties                                                              *)
(***************************************************************************)

\* A file structure counts the descriptors that name it, no descriptor names
\* one that was given back, and every reference to an inode is held by a file
\* or a call: through dup, fork, close, exit and the failures of open() and
\* pipe(), nothing leaks and nothing is put twice.
FilesCounted ==
  /\ TypeOK
  /\ \A f \in FileNo :
       file[f].ref = MapThenSumSet(LAMBDA p : Cardinality({fd \in Fd : ofile[p][fd] = f}), Proc)
         + Cardinality({p \in Proc : /\ pc[p] \in {"open", "pipealloc", "pipe", "piped"}
                                     /\ f \in Ends(p) /\ \A fd \in Fd : ofile[p][fd] # f})
  /\ \A i \in Inode :
       iref[i] = Cardinality({f \in FileNo : file[f].type = "FD_INODE" /\ file[f].ip = i})
         + Cardinality({p \in Proc : ff[p].ip = i})
=============================================================================
