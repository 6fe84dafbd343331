----------------------------- MODULE MCActionJobs ----------------------------
(* Small instances of ActionJobs. *)
EXTENDS ActionJobs, TLC

CONSTANTS r1, r2, d1, d2, t1, t2, s1, g1, g0, none

Symmetry == Permutations({r1, r2}) \union Permutations({d1, d2})
=============================================================================
