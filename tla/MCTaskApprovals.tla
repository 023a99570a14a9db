---------------------------- MODULE MCTaskApprovals ----------------------------
(* TaskApprovals for TLC: sessions and requests are interchangeable. *)
EXTENDS TaskApprovals, TLC

Symmetry == Permutations(Requests) \cup Permutations(Sessions)
===============================================================================
