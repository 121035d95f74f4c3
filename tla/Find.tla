-------------------------------- MODULE Find --------------------------------
(***************************************************************************)
(* user/find.c: a recursive walk that keeps a directory open in every      *)
(* frame.  open() follows symbolic links, so a link to a directory is one  *)
(* more way into it, and a link to a directory above makes the tree        *)
(* endless.  The tree does not change meanwhile, but open() may fail.      *)
(*                                                                         *)
(* A path is the sequence of its elements, all of them one character long; *)
(* an entry names a node, with 0 for a link to nothing.                    *)
(***************************************************************************)
EXTENDS Integers, Sequences, FiniteSets, SequencesExt

CONSTANTS
  Tree,    \* trees: for each node its type and its entries, a name and a node each
  NOFILE,  \* descriptors of a process, three of which are open already
  SIZEBUF, DIRSIZ,
  Starts,  \* the paths to start from
  Target   \* the name to look for

VARIABLES
  tree, start,       \* what open() finds, and the path given
  frames,            \* the calls of find() under way
  printed, reported  \* paths printed, and paths with an error message

vars == <<tree, start, frames, printed, reported>>

Root == 1
Frame(path, node) == [path |-> path, node |-> node, pc |-> "open", entry |-> 1]

Init ==
  /\ tree \in Tree /\ start \in Starts
  /\ frames = <<Frame(start, Root)>> /\ printed = <<>> /\ reported = {}

Top == frames[Len(frames)]
Opened == {k \in DOMAIN frames : frames[k].pc = "scan"}
Strlen(path) == 2 * Len(path) - 1
fmtname(path) == Last(path)

Reports == reported' = reported \cup {Top.path}
Returns == frames' = Front(frames)

MutTooLong(path) == FALSE
\* strlen(path) + 1 + DIRSIZ + 1 > sizeof buf
TooLong(path) == Strlen(path) + 1 + DIRSIZ + 1 > SIZEBUF

CannotOpen ==
  /\ frames # <<>> /\ Top.pc = "open"
  /\ Reports /\ Returns
  /\ UNCHANGED <<tree, start, printed>>

\* open() and fstat(): a file is compared and closed, a directory is scanned
\* unless its entries' paths might not fit.
Open ==
  /\ frames # <<>> /\ Top.pc = "open" /\ Top.node # 0 /\ 3 + Len(frames) <= NOFILE
  /\ \/ /\ tree[Top.node].type = "T_FILE"
        /\ printed' = IF fmtname(Top.path) = Target THEN Append(printed, Top.path) ELSE printed
        /\ Returns /\ UNCHANGED reported
     \/ /\ tree[Top.node].type = "T_DIR" /\ TooLong(Top.path)
        /\ Reports /\ Returns /\ UNCHANGED printed
     \/ /\ tree[Top.node].type = "T_DIR" /\ ~TooLong(Top.path)
        /\ frames' = [frames EXCEPT ![Len(frames)].pc = "scan"]
        /\ UNCHANGED <<printed, reported>>
  /\ UNCHANGED <<tree, start>>

\* The next entry: a free one, "." and ".." are passed over, or the directory
\* ends and is closed.
Scan ==
  LET entries == tree[Top.node].entries
      e == entries[Top.entry]
      next == [frames EXCEPT ![Len(frames)].entry = @ + 1]
  IN
  /\ frames # <<>> /\ Top.pc = "scan"
  /\ IF Top.entry > Len(entries) THEN Returns
     ELSE IF e[1] \in {"free", ".", ".."} THEN frames' = next
     ELSE frames' = Append(next, Frame(Append(Top.path, e[1]), e[2]))
  /\ UNCHANGED <<tree, start, printed, reported>>

Finished == frames = <<>>

Step == Open \/ CannotOpen \/ Scan
Next == Step \/ (Finished /\ UNCHANGED vars)

(***************************************************************************)
(* Properties                                                              *)
(***************************************************************************)

\* The paths of k elements below the starting path, each with its node.
Walks[k \in 0 .. NOFILE] ==
  IF k = 0 THEN {<<start, Root>>}
  ELSE UNION {{<<Append(w[1], e[1]), e[2]>> : e \in {x \in Range(tree[w[2]].entries) : x[1] \notin {"free", ".", ".."}}} :
                w \in {x \in Walks[k - 1] : x[2] # 0}}

Matching == {w[1] : w \in {x \in UNION {Walks[k] : k \in 0 .. NOFILE} :
                            x[2] # 0 /\ tree[x[2]].type = "T_FILE" /\ fmtname(x[1]) = Target}}

\* find() prints every file of that name once and nothing else, whatever links
\* the tree has: a path it does not print lies below one it complained about.
\* Meanwhile every path fits the buffer of the frame that wrote it, and no
\* frame holds a descriptor the process cannot have.
FindPrints ==
  /\ \A k \in DOMAIN frames : k > 1 => Strlen(frames[k].path) < SIZEBUF
  /\ Cardinality(Opened) + 3 <= NOFILE
  /\ IsInjective(printed)
  /\ Range(printed) \subseteq Matching
  /\ Finished => \A path \in Matching : path \in Range(printed) \/ \E r \in reported : IsPrefix(r, path)
=============================================================================
