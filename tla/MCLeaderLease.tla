---------------------------- MODULE MCLeaderLease ----------------------------
(* Model-checking instance of LeaderLease. *)
EXTENDS LeaderLease, TLC

CONSTANTS r1, r2

MCReplica == {r1, r2}
Perms == Permutations(MCReplica)
=============================================================================
