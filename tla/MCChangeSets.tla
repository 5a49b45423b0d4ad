---------------------------- MODULE MCChangeSets ----------------------------
(* Change sets and files are interchangeable, and so are the outsiders.    *)
EXTENDS ChangeSets, TLC

Symmetry == Permutations(ChangeSetId) \cup Permutations(Path)
=============================================================================
