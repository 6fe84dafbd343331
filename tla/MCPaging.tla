------------------------------ MODULE MCPaging ------------------------------
(* Small instances of Paging. *)
EXTENDS Paging

CONSTANTS f1, a1
=============================================================================
