--------------------------- MODULE MCModelEntry ---------------------------
(* ModelEntry with small sets of requests and processes. *)
EXTENDS ModelEntry, TLC

CONSTANTS r1, r2, p1, p2

Symmetry == Permutations(Requests \ BootRequests) \union Permutations(Procs)
=============================================================================
