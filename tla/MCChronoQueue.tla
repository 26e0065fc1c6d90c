--------------------------- MODULE MCChronoQueue ---------------------------
(* Small instances of ChronoQueue for TLC.                                  *)
EXTENDS ChronoQueue, TLC

Symmetry ==
    Permutations(Jobs) \cup Permutations(Workers) \cup
    Permutations(Schedulers) \cup Permutations(Requests)
=============================================================================
