------------------------- MODULE MCRefactorJournal -------------------------
(***************************************************************************)
(* Small instances of RefactorJournal: two files and two contents.         *)
(***************************************************************************)
EXTENDS RefactorJournal, TLC

\* Files, and contents, are interchangeable.
Symmetry == Permutations(Modules) \cup Permutations(Texts)

\* Only steps that change every file they write.
PlansChange == \A m \in Modules : op.text[m] # None => op.text[m] # op.base[m]
=============================================================================
