------------------------------ MODULE MCInode ------------------------------
(***************************************************************************)
(* Instance for TLC of the inode table; of the image that mkfs writes,     *)
(* from which it starts; and of the names in directories and the copying   *)
(* under them, on characters and bytes.  They share nothing that changes,  *)
(* so a behaviour is one of any of the four.                               *)
(***************************************************************************)
EXTENDS Inode, TLC

CONSTANTS BSIZE, NDIRECT, NINDIRECT, FSSIZE, BPB, NINODES, IPB, LOGBLOCKS, MaxFiles, MaxLength,
          Char, DIRSIZ, MaxPath, MaxEntries,
          N, Byte

VARIABLES part,
          mkpc, ret, freeinode, freeblock, din, sect, bits, app, hostfd, given,
          npc, path, pos, name, elem, found, dir,
          m, spc, d, s, n, c, call

K == INSTANCE Mkfs WITH pc <- mkpc, fd <- hostfd
D == INSTANCE Names WITH pc <- npc
S == INSTANCE Strings WITH pc <- spc

image == <<mkpc, ret, freeinode, freeblock, din, sect, bits, app, hostfd, given>>
names == <<npc, path, pos, name, elem, found, dir>>
bytes == <<m, spc, d, s, n, c, call>>

ASSUME K!MkfsAssumption /\ D!NamesAssumption /\ S!StringsAssumption

\* The names and the bytes start as anything only where they are looked at.
MCInit ==
  /\ part \in {"inode", "mkfs", "names", "strings"}
  /\ Init /\ K!Init /\ D!Init /\ S!Init
  /\ part # "names" => name = [k \in 0 .. DIRSIZ - 1 |-> "NUL"]
  /\ part # "strings" => m = [a \in 0 .. N - 1 |-> 0]

MCNext ==
  /\ UNCHANGED part
  /\ \/ part = "inode" /\ Next /\ UNCHANGED <<image, names, bytes>>
     \/ part = "mkfs" /\ K!Next /\ UNCHANGED <<vars, names, bytes>>
     \/ part = "names" /\ D!Next /\ UNCHANGED <<vars, image, bytes>>
     \/ part = "strings" /\ S!Next /\ UNCHANGED <<vars, image, names>>

MCSpec == MCInit /\ [][MCNext]_<<part, vars, image, names, bytes>>

Symmetry == Permutations(Name)

\* An image that mkfs finishes is one the kernel's file system could have made,
\* but for the size of a root directory whose entries fill its last block.
ImageSound == part = "mkfs" => K!ImageSound

\* namex() sees the elements of a path in order, dirlookup() finds the entry of
\* that name and no other, and dirlink() never makes a second one; under them,
\* the functions of string.c leave the bytes that their callers expect.
NamesFound ==
  /\ part = "names" => D!NamesFound
  /\ part = "strings" => S!CopiesRight
=============================================================================
