------------------------------ MODULE MCApproval -----------------------------
(* Small instances of Approval. *)
EXTENDS Approval, TLC

CONSTANTS p1, p2, r1, r2, q1, q2, d1, d2, t1, t2, s1, g1, g2, g0, none

Symmetry == Permutations({p1, p2}) \union Permutations({r1, r2})
            \union Permutations({q1, q2}) \union Permutations({d1, d2})
=============================================================================
