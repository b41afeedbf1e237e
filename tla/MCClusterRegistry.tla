------------------------- MODULE MCClusterRegistry -------------------------
(* One token, two administrators' requests and two exchanges in flight, a    *)
(* user who may register clusters and one who may only read.                 *)
EXTENDS ClusterRegistry, TLC

CONSTANTS t1, a1, a2, g1, g2

MCRoles == [u \in User |-> IF u = "op" THEN "operator" ELSE "viewer"]
MCTeams == [u \in User |-> {}]
MCToken == {t1}
MCAdmin == {a1, a2}
MCAgent == {g1, g2}

Perms == Permutations(MCAdmin) \cup Permutations(MCAgent)
=============================================================================
