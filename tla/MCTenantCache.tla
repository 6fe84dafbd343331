---------------------------- MODULE MCTenantCache ----------------------------
(* A small instance of TenantCache. Times are in units of DEGRADED_TTL. *)
EXTENDS TenantCache

CONSTANTS c1, c2, i1, i2, t1, t2, nobody
=============================================================================
