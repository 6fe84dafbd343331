----------------------------- MODULE MCAuthGrant -----------------------------
(* Small instances of AuthGrant. *)
EXTENDS AuthGrant, TLC

CONSTANTS c1, c2, g0, g1, o1, t1, t2, none, anyone, nobody

Alike == Permutations({c1, c2})
=============================================================================
