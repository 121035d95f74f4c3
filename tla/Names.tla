------------------------------- MODULE Names --------------------------------
(***************************************************************************)
(* Path names as characters: skipelem(), which cuts elements out of a path *)
(* into a buffer that namex() uses again for each, and what dirlookup()    *)
(* and dirlink() make of the buffer.  One directory stands for all that a  *)
(* path leads through.  A name fills DIRSIZ characters, or ends at NUL;    *)
(* what the buffer holds behind the NUL is left from before.               *)
(***************************************************************************)
EXTENDS Integers, Sequences, FiniteSets, FiniteSetsExt

CONSTANTS
  Char,       \* characters of names
  DIRSIZ,
  MaxPath,    \* characters in a path
  MaxEntries  \* names in the directory

NUL == "NUL"
Slash == "/"

NamesAssumption == {DIRSIZ, MaxPath, MaxEntries} \subseteq Nat \ {0} /\ Char \cap {NUL, Slash} = {}

Field == [0 .. DIRSIZ - 1 -> Char \cup {NUL}]

VARIABLES
  pc, path, pos,  \* the path, and where skipelem() is to go on
  name,           \* namex()'s buffer
  elem,           \* history: how many elements have been cut
  found,          \* the entries dirlookup() takes for the name
  dir             \* de.name of the entries

vars == <<pc, path, pos, name, elem, found, dir>>

Init ==
  /\ pc = "out" /\ path = <<>> /\ pos = 1 /\ elem = 0 /\ found = {} /\ dir = {}
  /\ name \in Field

Namex(pth) ==
  /\ pc = "out"
  /\ path' = pth /\ pos' = 1 /\ elem' = 0 /\ pc' = "skipelem"
  /\ UNCHANGED <<name, found, dir>>

At(i) == IF i <= Len(path) THEN path[i] ELSE NUL

\* while(*path == '/') path++, and while(*path != '/' && *path != 0) path++
SkipSlashes(i) == Min({k \in i .. Len(path) + 1 : At(k) # Slash})
SkipName(i) == Min({k \in i .. Len(path) + 1 : At(k) \in {Slash, NUL}})

MutNameOf(i, len) == [k \in 0 .. DIRSIZ - 1 |-> IF k < len THEN path[i + k] ELSE name[k]]
\* memmove(name, s, len), and name[len] = 0 if there is room
NameOf(i, len) ==
  [k \in 0 .. DIRSIZ - 1 |-> IF k < len THEN path[i + k] ELSE IF k = len THEN NUL ELSE name[k]]

Ends == pc' = "out" /\ path' = <<>> /\ pos' = 1 /\ elem' = 0

Skipelem ==
  LET i == SkipSlashes(pos)
      e == SkipName(i)
  IN
  /\ pc = "skipelem"
  /\ IF At(i) = NUL THEN Ends /\ UNCHANGED name
     ELSE /\ name' = NameOf(i, e - i) /\ pos' = SkipSlashes(e)
          /\ elem' = elem + 1 /\ pc' = "dirlookup"
          /\ UNCHANGED path
  /\ UNCHANGED <<found, dir>>

\* namecmp() is 0: strncmp() comes to DIRSIZ, or to a character of s that is 0
\* or not the one of t.
Namecmp(s, t) ==
  LET stop == {k \in 0 .. DIRSIZ - 1 : s[k] = NUL \/ s[k] # t[k]} IN
  stop = {} \/ s[Min(stop)] = t[Min(stop)]

Dirlookup ==
  /\ pc = "dirlookup"
  /\ found' = {t \in dir : Namecmp(name, t)}
  /\ pc' = "found"
  /\ UNCHANGED <<path, pos, name, elem, dir>>

\* strncpy(de.name, name, DIRSIZ)
Strncpy(s) == [k \in 0 .. DIRSIZ - 1 |-> IF \E j \in 0 .. k : s[j] = NUL THEN NUL ELSE s[k]]

\* namex() goes on to the next element, or ends; at the last element a name that
\* is missing may be created by dirlink().
Found ==
  /\ pc = "found"
  /\ IF found # {} /\ pos <= Len(path) THEN pc' = "skipelem" /\ UNCHANGED <<path, pos, elem>> ELSE Ends
  /\ found' = {}
  /\ \/ UNCHANGED dir
     \/ found = {} /\ At(pos) = NUL /\ Cardinality(dir) < MaxEntries /\ dir' = dir \cup {Strncpy(name)}
  /\ UNCHANGED name

\* sys_unlink() clears the entry.
Unlink(t) ==
  /\ pc = "out" /\ dir' = dir \ {t}
  /\ UNCHANGED <<pc, path, pos, name, elem, found>>

Path == UNION {[1 .. k -> Char \cup {Slash}] : k \in 0 .. MaxPath}

Next ==
  \/ \E pth \in Path : Namex(pth)
  \/ Skipelem \/ Dirlookup \/ Found
  \/ \E t \in dir : Unlink(t)

Spec == Init /\ [][Next]_vars

(***************************************************************************)
(* Properties                                                              *)
(***************************************************************************)

\* The elements of a path are its longest runs without a slash.
Runs == {r \in (1 .. Len(path)) \X (1 .. Len(path)) :
           /\ \A k \in r[1] .. r[2] : path[k] # Slash
           /\ r[1] <= r[2] /\ At(r[2] + 1) \in {Slash, NUL} /\ (r[1] = 1 \/ path[r[1] - 1] = Slash)}
Run(k) == CHOOSE r \in Runs : Cardinality({q \in Runs : q[1] <= r[1]}) = k
Element(k) == SubSeq(path, Run(k)[1], Min({Run(k)[2], Run(k)[1] + DIRSIZ - 1}))

\* What a field of DIRSIZ characters says.
Says(f) == LET len == Min({k \in 0 .. DIRSIZ - 1 : f[k] = NUL} \cup {DIRSIZ}) IN
           [k \in 1 .. len |-> f[k - 1]]

\* namex() sees the elements of the path in order, cut to DIRSIZ characters, and
\* knows which is the last; dirlookup() finds the entry of that name and no other,
\* whatever earlier and longer elements left in the buffer, and dirlink() never
\* makes a second entry of a name.
NamesFound ==
  /\ pc \in {"dirlookup", "found"} =>
       /\ Says(name) = Element(elem)
       /\ pos > Len(path) <=> elem = Cardinality(Runs)
  /\ pc = "found" => found = {t \in dir : Says(t) = Element(elem)} /\ Cardinality(found) <= 1
  /\ \A t, u \in dir : Says(t) = Says(u) => t = u
=============================================================================
