----------------------- MODULE MCModelEntryEviction -----------------------
(* ModelEntryEviction with small sets of requests, processes and evictors. *)
EXTENDS ModelEntryEviction, TLC

CONSTANTS r1, r2, p1, p2, e1

Symmetry == Permutations(Requests \ BootRequests) \union Permutations(Procs)
=============================================================================
