---------------------------- MODULE MCPublication ----------------------------
(* Publication for TLC: authors are interchangeable.                       *)
EXTENDS Publication

Symmetry == Permutations(Author)
=============================================================================
