---------------------------- MODULE MC_KvsServer ----------------------------
(***************************************************************************)
(* Model checking of KvsServer.  The configurations choose the nodes, the  *)
(* client operations, the replication factors and the positions of the     *)
(* keys on the ring from the definitions below.                            *)
(*   KvsReplicas   two local replicas in memory and one on disk            *)
(*   KvsJoin       a node joins and takes one of two keys over             *)
(*   KvsChange     the monitor changes a replication factor while a node   *)
(*                 joins                                                   *)
(*   KvsDepart     a node of two threads crashes and rejoins, and the      *)
(*                 monitor removes it                                      *)
(*   KvsFlap       a node joins and is removed at once                     *)
(*   KvsBatch      a node joins and takes two keys over, in batches of one   *)
(*   KvsBatch      a node joins and takes two keys over, in batches of one   *)
(***************************************************************************)
EXTENDS KvsServer

CONSTANTS n1, n2, k1, k2, a, b, c

\* replication factors: g memory nodes, l threads of each; a tier has at least one local replica
MemoryFactor(g, l) == [global |-> [t \in Tier |-> IF t = "MEMORY" THEN g ELSE 0],
                       local |-> [t \in Tier |-> l]]
One == MemoryFactor(1, 1)
Two == MemoryFactor(2, 1)
MemoryAndDisk == [global |-> [t \in Tier |-> 1], local |-> [t \in Tier |-> IF t = "MEMORY" THEN TMax + 1 ELSE 1]]

\* changes of the factor of k1
Grow == [i \in Change |-> Two]
GrowShrink == [i \in Change |-> IF i = 1 THEN Two ELSE One]
OnK1 == [i \in Change |-> k1]

\* operations
KeyOf == [o \in Op |-> IF o = c THEN k2 ELSE k1]
AllK1 == [o \in Op |-> k1]
Puts == [o \in Op |-> "LWW"]
PutGet == [o \in Op |-> IF o = b THEN "GET" ELSE "LWW"]

\* positions: the walk from a data key, and from its metadata key
Walk(x) == [n \in Node |-> IF n = x THEN 0 ELSE 1]
DataNewMetaOld == [K \in AllKey |-> IF K.meta THEN Walk(n1) ELSE Walk(n2)]
Split == [K \in AllKey |-> IF K = Data(k1) THEN Walk(n1) ELSE Walk(n2)]
ByTid == [K \in AllKey |-> [t \in Tids |-> t]]

AllMemory == [n \in Node |-> "MEMORY"]
LastOnDisk == [n \in Node |-> IF n = n2 THEN "DISK" ELSE "MEMORY"]
=============================================================================
