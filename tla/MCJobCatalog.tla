---------------------------- MODULE MCJobCatalog ----------------------------
(* JobCatalog for TLC: the handlers are interchangeable, and so are the      *)
(* aliases of one kind.                                                      *)
EXTENDS JobCatalog, TLC

Symmetry ==
    Permutations(Handler) \cup Permutations(Job) \cup Permutations(Group)
=============================================================================
