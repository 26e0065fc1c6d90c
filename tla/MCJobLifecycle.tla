--------------------------- MODULE MCJobLifecycle ---------------------------
(* Small instances of JobLifecycle for TLC.                                 *)
EXTENDS JobLifecycle, TLC

Symmetry ==
    Permutations(Jobs) \cup Permutations(Workers) \cup
    Permutations(Schedulers) \cup Permutations(Requests)
=============================================================================
