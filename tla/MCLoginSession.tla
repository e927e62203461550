-------------------------- MODULE MCLoginSession --------------------------
(* Requests, and caches, differ by their names only. *)
EXTENDS LoginSession, TLC

Symmetry == Permutations(Requests) \cup Permutations(Caches)

=============================================================================
