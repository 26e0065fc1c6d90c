------------------------------ MODULE MCJobApi ------------------------------
(* A small instance of JobApi for TLC.                                      *)
EXTENDS JobApi, TLC

Symmetry == Permutations(Posts)
=============================================================================
