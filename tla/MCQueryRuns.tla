----------------------------- MODULE MCQueryRuns -----------------------------
(* Small instances of QueryRuns. *)
EXTENDS QueryRuns, TLC

CONSTANTS r1, r2, v1, t1, t2, s1, g1, g0, nobody

Alike == Permutations({r1, r2})
=============================================================================
