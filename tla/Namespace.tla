------------------------------ MODULE Namespace ------------------------------
(***************************************************************************)
(* Directories, path names and links: fs.c's namex, dirlookup and dirlink  *)
(* under open, mkdir, mknod, symlink, link, unlink and chdir, called by    *)
(* several processes at once.  A step is what one process does while it    *)
(* holds one inode's lock, so that namex() may be overtaken between any    *)
(* two elements of its path.                                               *)
(***************************************************************************)
EXTENDS Integers, Sequences, FiniteSets, FiniteSetsExt

CONSTANTS
  Proc,
  NINODES,   \* inodes 1 .. NINODES
  Name,      \* names of entries other than "." and ".."
  Paths,     \* paths programs use: sequences of elements, "/" first if absolute
  Second,    \* second arguments of link() and symlink()
  Op,        \* calls programs make
  MAXDEPTH   \* symbolic links one open() follows (10)

ROOTINO == 1
Inum == 1 .. NINODES
T_FREE == "free"
T_DIR == "dir"
T_FILE == "file"
T_SYMLINK == "symlink"
Nil == "nil"
Calls == {"open", "create", "mkdir", "symlink", "link", "unlink", "chdir"}

NamespaceAssumption ==
  /\ NINODES \in Nat \ {0} /\ MAXDEPTH \in Nat
  /\ Op \subseteq Calls /\ Nil \notin Proc
  /\ {"/", ".", ".."} \cap Name = {}
  /\ \A path \in Paths \cup Second : path # <<>> /\ \A k \in DOMAIN path :
       path[k] \in Name \cup {".", ".."} \/ (k = 1 /\ path[k] = "/")

VARIABLES
  inode,  \* type, nlink and contents of every inode
  lock,   \* who holds an inode's sleep-lock between two steps
  cwd,    \* p->cwd
  pc,     \* where in its call a process is
  loc,    \* its locals: the call, the pointer ip it walks with, another pointer
          \* it holds, the path left to walk, its last name, its second argument
  lost,   \* history: links that went with the contents of a removed directory
  panic

vars == <<inode, lock, cwd, pc, loc, lost, panic>>

NoEntries == [n \in Name |-> 0]
FreeInode == [type |-> T_FREE, nlink |-> 0, ents |-> NoEntries, dotdot |-> 0, target |-> <<>>]
NoLocals == [op |-> Nil, ip |-> 0, held |-> 0, path |-> <<>>, path2 |-> <<>>, depth |-> 0]

TypeOK ==
  /\ inode \in [Inum -> [type : {T_FREE, T_DIR, T_FILE, T_SYMLINK}, nlink : Nat,
                         ents : [Name -> 0 .. NINODES], dotdot : 0 .. NINODES,
                         target : Second \cup {<<>>}]]
  /\ lock \in [Inum -> Proc \cup {Nil}]
  /\ cwd \in [Proc -> Inum]
  /\ pc \in [Proc -> {"out", "namex", "namei", "parent", "unlink", "unlinked", "exists",
                      "created", "badlink"}]

Go(p, l) == pc' = [pc EXCEPT ![p] = l]

(***************************************************************************)
(* inodes                                                                  *)
(***************************************************************************)
Pointers(l, c, i) == Cardinality({p \in Proc : l[p].ip = i}) + Cardinality({p \in Proc : l[p].held = i})
                     + Cardinality({p \in Proc : c[p] = i})

\* iput() of every pointer in s: with the last pointer to an inode that has
\* no links, its contents and the inode go.
Put(s, l, c) == [i \in Inum |->
  IF s[i].nlink = 0 /\ Pointers(l, c, i) = 0 THEN FreeInode ELSE s[i]]

\* What a step leaves when it changed the inodes to s, the locals to l and
\* the current directories to c.
Became(s, l, c) ==
  LET after == Put(s, l, c) IN
  /\ inode' = after /\ loc' = l /\ cwd' = c
  /\ lost' = [i \in Inum |-> IF after[i].type = T_FREE THEN 0 ELSE
       lost[i] + Cardinality({<<d, n>> \in Inum \X Name :
         s[d].type # T_FREE /\ after[d].type = T_FREE /\ s[d].ents[n] = i})]

\* The call is over: its pointers are put and its locks released.
Return(p, s) ==
  /\ Became(s, [loc EXCEPT ![p] = NoLocals], cwd)
  /\ lock' = [i \in Inum |-> IF lock[i] = p THEN Nil ELSE lock[i]]
  /\ Go(p, "out")

Panic(why) == panic' = why /\ UNCHANGED <<inode, lock, cwd, pc, loc, lost>>

\* ilock(i), which panics when i is free on the disk, and then A.
Ilock(i, A) ==
  /\ lock[i] = Nil
  /\ IF inode[i].type = T_FREE THEN Panic("ilock") ELSE A /\ UNCHANGED panic

Dirlookup(d, n) ==
  IF n = "." THEN d ELSE IF n = ".." THEN inode[d].dotdot ELSE inode[d].ents[n]

(***************************************************************************)
(* namex                                                                   *)
(***************************************************************************)
From(p, path) == IF path[1] = "/" THEN ROOTINO ELSE cwd[p]
Elements(path) == IF path[1] = "/" THEN Tail(path) ELSE path

\* nameiparent() rather than namei(): link() walks to its new name with the
\* old inode held.
Nameiparent(p) == loc[p].op \in {"create", "mkdir", "symlink", "unlink"} \/ loc[p].held # 0

\* Where namex() stands with this much of the path left
Rest(path) == IF path = <<>> THEN "namei" ELSE "namex"

Locals(p, ip, path) == [loc EXCEPT ![p].ip = ip, ![p].path = path]

\* namex() returns 0: link() has a count to take back.
NotFound(p) ==
  IF loc[p].held = 0 THEN Return(p, inode)
  ELSE Became(inode, Locals(p, 0, <<>>), cwd) /\ Go(p, "badlink") /\ UNCHANGED lock

\* One round of namex()'s loop.
Walk(p) ==
  LET ip == loc[p].ip
      name == Head(loc[p].path)
  IN
  /\ pc[p] = "namex"
  /\ Ilock(ip,
       IF inode[ip].type # T_DIR THEN NotFound(p)
       ELSE IF Nameiparent(p) /\ Len(loc[p].path) = 1
            THEN Go(p, "parent") /\ UNCHANGED <<inode, lock, cwd, loc, lost>>
       ELSE IF Dirlookup(ip, name) = 0 THEN NotFound(p)
       ELSE /\ Became(inode, Locals(p, Dirlookup(ip, name), Tail(loc[p].path)), cwd)
            /\ Go(p, Rest(Tail(loc[p].path))) /\ UNCHANGED lock)

(***************************************************************************)
(* The calls                                                               *)
(***************************************************************************)

\* A call that would fail at once, nameiparent("/"), is left out.
Call(p, op, path, path2) ==
  /\ pc[p] = "out"
  /\ loc' = [loc EXCEPT ![p] = [NoLocals EXCEPT
       !.op = op, !.ip = From(p, path), !.path = Elements(path), !.path2 = path2]]
  /\ Go(p, Rest(Elements(path)))
  /\ Nameiparent(p)' => Elements(path) # <<>>
  /\ UNCHANGED <<inode, lock, cwd, lost, panic>>

MutAnyDepth(p) == TRUE
\* A symbolic link whose target open() goes on with
Follows(p) == loc[p].depth < MAXDEPTH

\* sys_open() without O_CREATE; what it opened is closed again.  With
\* O_NOFOLLOW a symbolic link is opened like a file.
Open(p) ==
  LET ip == loc[p].ip
      target == inode[ip].target
  IN
  /\ pc[p] = "namei" /\ loc[p].op = "open"
  /\ Ilock(ip,
       IF inode[ip].type = T_SYMLINK /\ Follows(p) /\ target # <<>>
       THEN /\ Became(inode, [Locals(p, From(p, target), Elements(target)) EXCEPT ![p].depth = @ + 1], cwd)
            /\ Go(p, Rest(Elements(target))) /\ UNCHANGED lock
       ELSE Return(p, inode))

\* iput(p->cwd); p->cwd = ip
Chdir(p) ==
  LET ip == loc[p].ip IN
  /\ pc[p] = "namei" /\ loc[p].op = "chdir"
  /\ Ilock(ip,
       IF inode[ip].type # T_DIR THEN Return(p, inode)
       ELSE /\ Became(inode, [loc EXCEPT ![p] = NoLocals], [cwd EXCEPT ![p] = ip])
            /\ Go(p, "out") /\ UNCHANGED lock)

MutAnyLink(ip) == TRUE
MayLink(ip) == inode[ip].type # T_DIR

\* sys_link() up to nameiparent(new)
Link(p) ==
  LET ip == loc[p].ip
      new == loc[p].path2
  IN
  /\ pc[p] = "namei" /\ loc[p].op = "link"
  /\ Ilock(ip,
       IF ~MayLink(ip) THEN Return(p, inode)
       ELSE /\ Became([inode EXCEPT ![ip].nlink = @ + 1],
                      [loc EXCEPT ![p].ip = From(p, new), ![p].path = Elements(new), ![p].path2 = <<>>, ![p].held = ip], cwd)
            /\ Go(p, IF Elements(new) = <<>> THEN "badlink" ELSE "namex") /\ UNCHANGED lock)

LastName(p) == Head(loc[p].path)

\* dirlink() finds the name taken, or no block for the entry, or does it.
LinkEntry(p) ==
  LET dp == loc[p].ip IN
  /\ pc[p] = "parent" /\ loc[p].op = "link"
  /\ Ilock(dp,
       \/ NotFound(p)
       \/ /\ Dirlookup(dp, LastName(p)) = 0
          /\ Return(p, [inode EXCEPT ![dp].ents[LastName(p)] = loc[p].held]))

MutKeepCount(p) == inode
\* ip->nlink--
CountBack(p) == [inode EXCEPT ![loc[p].held].nlink = @ - 1]

LinkBad(p) == pc[p] = "badlink" /\ Ilock(loc[p].held, Return(p, CountBack(p)))

(***************************************************************************)
(* create                                                                  *)
(***************************************************************************)
Free == {i \in Inum : inode[i].type = T_FREE}
NewType(p) == CASE loc[p].op = "mkdir" -> T_DIR [] loc[p].op = "symlink" -> T_SYMLINK [] OTHER -> T_FILE

\* The new inode, its "." and "..", its entry and the parent's count.
Created(p, dp, i) ==
  LET new == [FreeInode EXCEPT !.type = NewType(p), !.nlink = 1,
                               !.dotdot = IF NewType(p) = T_DIR THEN dp ELSE 0]
      entered == [inode EXCEPT ![i] = new, ![dp].ents[LastName(p)] = i]
  IN IF NewType(p) = T_DIR THEN [entered EXCEPT ![dp].nlink = @ + 1] ELSE entered

\* create() with dp locked: the name exists; or there is no inode or no block,
\* and what was done is undone; or the new inode is entered and stays locked.
Create(p) ==
  LET dp == loc[p].ip
      ip == Dirlookup(dp, LastName(p))
      i == Min(Free)
  IN
  /\ pc[p] = "parent" /\ loc[p].op \in {"create", "mkdir", "symlink"}
  /\ Ilock(dp,
       IF ip # 0 THEN Became(inode, Locals(p, ip, <<>>), cwd) /\ Go(p, "exists") /\ UNCHANGED lock
       ELSE \/ Return(p, inode)
            \/ /\ Free # {} /\ lock[i] = Nil
               /\ Became(Created(p, dp, i), Locals(p, i, <<>>), cwd)
               /\ lock' = [lock EXCEPT ![i] = p]
               /\ Go(p, "created"))

\* ilock(ip) of the inode that has the name: opened, or refused.
CreateExists(p) == pc[p] = "exists" /\ Ilock(loc[p].ip, Return(p, inode))

\* sys_symlink()'s writei(), which may fail and leave an empty link; the
\* others put the inode (or open it, and close it).
CreateDone(p) ==
  /\ pc[p] = "created"
  /\ \/ Return(p, inode)
     \/ loc[p].op = "symlink" /\ Return(p, [inode EXCEPT ![loc[p].ip].target = loc[p].path2])
  /\ UNCHANGED panic

(***************************************************************************)
(* unlink                                                                  *)
(***************************************************************************)
MutAnyDir(ip) == TRUE
Isdirempty(ip) == inode[ip].ents = NoEntries

\* ilock(dp), and the entry to remove
Unlink(p) ==
  LET dp == loc[p].ip
      ip == Dirlookup(dp, LastName(p))
  IN
  /\ pc[p] = "parent" /\ loc[p].op = "unlink"
  /\ Ilock(dp,
       IF LastName(p) \in {".", ".."} \/ ip = 0 THEN Return(p, inode)
       ELSE /\ loc' = [loc EXCEPT ![p].held = ip]
            /\ lock' = [lock EXCEPT ![dp] = p]
            /\ Go(p, "unlink")
            /\ UNCHANGED <<inode, cwd, lost>>)

\* ilock(ip) with dp locked; the entry goes, and dp is unlocked and put.
UnlinkEntry(p) ==
  LET dp == loc[p].ip
      ip == loc[p].held
      isdir == inode[ip].type = T_DIR
      removed == [inode EXCEPT ![dp].ents[LastName(p)] = 0, ![dp].nlink = IF isdir THEN @ - 1 ELSE @]
  IN
  /\ pc[p] = "unlink" /\ lock[ip] = Nil
  /\ IF inode[ip].type = T_FREE \/ inode[ip].nlink < 1 THEN Panic("unlink")
     ELSE /\ IF isdir /\ ~Isdirempty(ip) THEN Return(p, inode)
             ELSE /\ Became(removed, Locals(p, 0, <<>>), cwd)
                  /\ lock' = [lock EXCEPT ![dp] = Nil, ![ip] = p]
                  /\ Go(p, "unlinked")
          /\ UNCHANGED panic

\* ip->nlink--; iunlockput(ip)
UnlinkDone(p) ==
  /\ pc[p] = "unlinked"
  /\ Return(p, [inode EXCEPT ![loc[p].held].nlink = @ - 1])
  /\ UNCHANGED panic

(***************************************************************************)
(* Specification                                                           *)
(***************************************************************************)
Init ==
  /\ inode = [i \in Inum |-> IF i = ROOTINO
       THEN [FreeInode EXCEPT !.type = T_DIR, !.nlink = 1, !.dotdot = ROOTINO] ELSE FreeInode]
  /\ lock = [i \in Inum |-> Nil] /\ cwd = [p \in Proc |-> ROOTINO]
  /\ pc = [p \in Proc |-> "out"] /\ loc = [p \in Proc |-> NoLocals]
  /\ lost = [i \in Inum |-> 0] /\ panic = "none"

Step(p) ==
  \/ Walk(p) \/ Open(p) \/ Chdir(p) \/ Link(p) \/ LinkEntry(p) \/ LinkBad(p)
  \/ Create(p) \/ CreateExists(p) \/ CreateDone(p) \/ Unlink(p) \/ UnlinkEntry(p) \/ UnlinkDone(p)

\* A panicked kernel stays where it is.
Halted == panic # "none" /\ UNCHANGED vars

Next ==
  \/ panic = "none" /\ \E p \in Proc :
       \/ Step(p)
       \/ \E op \in Op, path \in Paths :
            \E path2 \in (IF op \in {"link", "symlink"} THEN Second ELSE {<<>>}) : Call(p, op, path, path2)
  \/ Halted

Spec == Init /\ [][Next]_vars

(***************************************************************************)
(* Properties                                                              *)
(***************************************************************************)
Linked(i) == {<<d, n>> \in Inum \X Name : inode[d].ents[n] = i}
Subdirs(i) == {n \in Name : inode[i].ents[n] # 0 /\ inode[inode[i].ents[n]].type = T_DIR}
Uncounted(i) == {p \in Proc : \/ pc[p] = "unlinked" /\ loc[p].held = i
                              \/ loc[p].op = "link" /\ loc[p].held = i}

\* An inode's link count is the number of its entries, of its subdirectories
\* and of the links being made or undone, plus the links that went when a
\* directory removed while in use was written to again and then freed; so no
\* entry ever names a free inode, and unlink() never panics on one.  A directory
\* has one entry, and its ".." is the directory that entry is in, so that the
\* directories never form a cycle that unlink(), which locks a parent and then
\* a child, could deadlock on.
LinksCounted ==
  /\ TypeOK
  /\ \A i \in Inum \ {ROOTINO} : inode[i].type # T_FREE =>
       inode[i].nlink = Cardinality(Linked(i)) + Cardinality(Subdirs(i))
                        + Cardinality(Uncounted(i)) + lost[i]
  /\ \A i \in Inum : inode[i].type = T_FREE => Linked(i) = {}
  /\ panic # "unlink"
  /\ \A i \in Inum : inode[i].type = T_DIR => \A dn \in Linked(i) :
       Linked(i) = {dn} /\ inode[i].dotdot = dn[1] /\ i # ROOTINO

Below[k \in 0 .. NINODES] ==
  IF k = 0 THEN {ROOTINO}
  ELSE Below[k - 1] \cup ({inode[d].ents[n] : d \in Below[k - 1], n \in Name} \ {0})
Tree == Below[NINODES]

\* Only what unlink() was called for vanishes from the tree: no step of any
\* process takes away a name below it, or a directory with something in it.
OnlyUnlinkedVanishes ==
  [][\A i \in Tree \ Tree' : \E p \in Proc : pc[p] = "unlink" /\ loc[p].held = i]_vars

\* open() always comes to its end, whatever the symbolic links point at and
\* however others change them meanwhile: each step of it leaves less of the
\* path, or has followed one of the MAXDEPTH links it may follow.
OpenEnds ==
  [][\A p \in Proc : loc[p].op = "open" /\ loc'[p].op = "open" /\ loc'[p] # loc[p] =>
       IF loc'[p].depth = loc[p].depth THEN Len(loc'[p].path) < Len(loc[p].path)
       ELSE loc[p].depth < loc'[p].depth /\ loc'[p].depth <= MAXDEPTH]_vars

\* ilock() never meets an inode that is free on the disk ("ilock: no type").
IlockFindsInode == panic = "none"
=============================================================================
