-------------------------- MODULE MCTenantDeletion --------------------------
(* Model-checking instances of TenantDeletion: two replicas and one          *)
(* decommission request.                                                     *)
EXTENDS TenantDeletion, TLC

CONSTANTS q1, w1, w2

MCWorker == {w1, w2}
Perms == Permutations(MCWorker)
=============================================================================
