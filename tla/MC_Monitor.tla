------------------------------ MODULE MC_Monitor ------------------------------
(***************************************************************************)
(* The monitor with two memory servers, one more memory server and a disk  *)
(* server that can be ordered, and one key, of size zero at times: with    *)
(* one replica and without selective replication, where a demoted key      *)
(* stays demoted, and with two replicas and all policies.                  *)
(***************************************************************************)
EXTENDS Monitor, TLC

CONSTANTS m1, m2, m3, d1

MCTierOf == [n \in Node |-> IF n = d1 THEN "DISK" ELSE "MEMORY"]
InMemory(n) == create_new_replication_vector(n, 0, 1, 1)
MCConfigurations == {[policies |-> Policy \ {"selective-rep"}, default |-> InMemory(1)],
                     [policies |-> Policy, default |-> InMemory(2)]}
Symmetry == Permutations({m1, m2})
=============================================================================
