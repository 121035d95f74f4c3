----------------------------- MODULE MCNamespace -----------------------------
(***************************************************************************)
(* Instance of Namespace and FileTable for TLC.  A behaviour is one of the *)
(* file table, or one of the namespace in which programs make one mix of   *)
(* calls.                                                                  *)
(***************************************************************************)
EXTENDS Namespace, TLC

CONSTANTS User, initproc, NFILE, NOFILE, Inode

VARIABLES part, file, ofile, fpc, ff, iref

T == INSTANCE FileTable WITH Proc <- User, pc <- fpc

tvars == <<file, ofile, fpc, ff, iref>>

ASSUME NamespaceAssumption /\ T!FileTableAssumption

\* An absolute and a relative name, one a level down, and the parent
PathsMC == {<<"/", "a">>, <<"b">>, <<"a", "b">>, <<"..">>}
SecondMC == {<<"b">>}

Mix == [tree |-> {"mkdir", "create", "unlink", "chdir"},
        hard |-> {"mkdir", "create", "unlink", "link"},
        soft |-> {"symlink", "mkdir", "unlink", "open"}]

InitMC == Init /\ T!Init /\ part \in DOMAIN Mix \cup {"table"}

NextMC ==
  \/ part = "table" /\ T!Next /\ UNCHANGED <<part, vars>>
  \/ part # "table" /\ Next /\ (\A p \in Proc : loc'[p].op \in Mix[part] \cup {Nil})
     /\ UNCHANGED <<part, tvars>>

SpecMC == InitMC /\ [][NextMC]_<<part, vars, tvars>>

Symmetry == Permutations(Proc) \cup Permutations(Inode)

\* A file structure counts the descriptors that name it, and every reference
\* to an inode is held by a file or a call.
FilesCounted == T!FilesCounted
=============================================================================
