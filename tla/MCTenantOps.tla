----------------------------- MODULE MCTenantOps -----------------------------
(* Instances of TenantOps for TLC. *)
EXTENDS TenantOps, TLC

CONSTANTS b1, r1, i1, w1
=============================================================================
