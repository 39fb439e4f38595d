---------------------------- MODULE MonitorProofs ----------------------------
(***************************************************************************)
(* Proofs about Monitor, for any servers, keys, policies and failures of   *)
(* PUTs.                                                                   *)
(*                                                                         *)
(* The memory tier is never emptied.  TierSurvives is not inductive alone: *)
(* a second node could be asked while the first is on its way out, and a   *)
(* departure could take away the node that stays.  The invariant adds that *)
(* removing tells of every memory node that was asked, that only nodes     *)
(* that were asked depart, and that a node that stays was there when the   *)
(* first was asked.                                                        *)
(*                                                                         *)
(* Then: the count of nodes ordered, and that the monitor does not stop in *)
(* an endless walk when keys have one replica.                             *)
(***************************************************************************)
EXTENDS Monitor, FiniteSetTheorems, TLAPS

MemoryNode(n) == n \in Node /\ TierOf[n] = "MEMORY"

IndSurvives ==
    /\ ring \subseteq Node /\ asked \subseteq Node
    /\ joins \subseteq [node : Node, ordered : BOOLEAN]
    /\ removing \in [Tier -> BOOLEAN]
    /\ departs \subseteq asked
    /\ ~ removing["MEMORY"] => \A n \in asked : ~ MemoryNode(n)
    /\ (\E n \in asked : MemoryNode(n)) => \E n \in ring \ asked : MemoryNode(n)

(* A tier that counts more than one node has another node than the one     *)
(* that is to go (slo_policy compares the count with the minimum).         *)
LEMMA AnotherNode ==
    ASSUME NEW S, NEW n \in S, Cardinality(S) > 1
    PROVE  \E m \in S : m # n
<1>1. SUFFICES ASSUME \A m \in S : m = n PROVE FALSE
  OBVIOUS
<1>2. S = {n}
  BY <1>1
<1>3. Cardinality({n}) = 1
  BY FS_Singleton, Zenon
<1> QED BY <1>2, <1>3

(* The messages of servers that join have their type.                      *)
LEMMA JoinTyped ==
    ASSUME NEW n \in Node, NEW o \in BOOLEAN
    PROVE  [node |-> n, ordered |-> o] \in [node : Node, ordered : BOOLEAN]
  BY Zenon

(* Steps that leave the ring and the requests to leave alone keep the      *)
(* invariant.                                                              *)
LEMMA Untouched ==
    ASSUME IndSurvives, UNCHANGED <<ring, asked, removing, departs>>, joins' \subseteq [node : Node, ordered : BOOLEAN]
    PROVE  IndSurvives'
  BY DEF IndSurvives, MemoryNode

(* A disk node that is asked to leave is no memory node (storage_policy).  *)
LEMMA StorageKeeps ==
    ASSUME IndSurvives, NEW late \in [Tier -> BOOLEAN], NEW low \in BOOLEAN, storage_policy(late, low)
    PROVE  IndSurvives'
<1>1. UNCHANGED <<ring, departs, joins>>
  BY DEF storage_policy, servers
<1>2. CASE UNCHANGED <<asked, removing>>
  BY <1>1, <1>2, Untouched DEF IndSurvives
<1>3. ASSUME NEW n \in InTier("DISK"), remove_node(n) PROVE IndSurvives'
  <2>1. n \in ring /\ TierOf[n] = "DISK" /\ ~ MemoryNode(n)
    BY <1>3 DEF InTier, MemoryNode
  <2>2. asked' = asked \cup {n} /\ removing' = [removing EXCEPT !["DISK"] = TRUE]
    BY <1>3, <2>1 DEF remove_node
  <2>3. removing' \in [Tier -> BOOLEAN] /\ removing'["MEMORY"] = removing["MEMORY"]
    BY <2>2 DEF IndSurvives, Tier
  <2>4. \A m : MemoryNode(m) => (m \in asked' <=> m \in asked)
    BY <2>1, <2>2
  <2> QED BY <1>1, <2>1, <2>2, <2>3, <2>4 DEF IndSurvives, MemoryNode
<1> QED BY <1>2, <1>3 DEF storage_policy

(* The SLO policy asks a memory node only when none was asked before and   *)
(* another one stays.                                                      *)
LEMMA SloKeeps ==
    ASSUME IndSurvives, slo_policy
    PROVE  IndSurvives'
<1>1. UNCHANGED <<ring, departs, joins>>
  BY DEF slo_policy, servers
<1>2. CASE UNCHANGED <<asked, removing>>
  BY <1>1, <1>2, Untouched DEF IndSurvives
<1>3. ASSUME NEW idle \in InTier("MEMORY"), MayShrink, remove_node(idle) PROVE IndSurvives'
  <2>1. idle \in ring /\ TierOf[idle] = "MEMORY"
    BY <1>3 DEF InTier
  <2>2. asked' = asked \cup {idle} /\ removing' = [removing EXCEPT !["MEMORY"] = TRUE]
    BY <1>3, <2>1 DEF remove_node
  <2>3. removing' \in [Tier -> BOOLEAN] /\ removing'["MEMORY"]
    BY <2>2 DEF IndSurvives, Tier
  <2>4. \A m \in asked : ~ MemoryNode(m)
    BY <1>3 DEF IndSurvives, MayShrink
  <2>5. Cardinality(InTier("MEMORY")) > 1
    BY <1>3 DEF MayShrink, node_count, kMinTierSize, Tier
  <2>6. PICK n \in InTier("MEMORY") : n # idle
    BY <2>5, AnotherNode
  <2>7. n \in ring /\ MemoryNode(n) /\ n \notin asked
    BY <2>4, <2>6 DEF InTier, MemoryNode, IndSurvives
  <2>8. n \in ring' \ asked'
    BY <1>1, <2>2, <2>6, <2>7
  <2> QED BY <1>1, <2>1, <2>2, <2>3, <2>7, <2>8 DEF IndSurvives, MemoryNode
<1>4. CASE slo_missed
  BY <1>2, <1>4 DEF slo_missed
<1>5. CASE slo_met
  <2>1. PICK idle \in InTier("MEMORY") \cup {NoNode} :
          \/ UNCHANGED <<asked, removing>>
          \/ MayShrink /\ idle # NoNode /\ remove_node(idle)
    BY <1>5 DEF slo_met, underutilized
  <2> QED BY <1>2, <1>3, <2>1
<1> QED BY <1>4, <1>5 DEF slo_policy

(* Every step keeps the invariant.                                         *)
LEMMA SurvivesStep == IndSurvives /\ [Next]_vars => IndSurvives'
<1> SUFFICES ASSUME IndSurvives, [Next]_vars PROVE IndSurvives'
  OBVIOUS
<1>0. joins' \subseteq joins => joins' \subseteq [node : Node, ordered : BOOLEAN]
  BY DEF IndSurvives
<1>1. ASSUME NEW m \in joins, membership_join(m) PROVE IndSurvives'
  <2>1. m.node \in Node
    BY DEF IndSurvives
  <2>2. ring' = ring \cup {m.node} /\ joins' \subseteq joins /\ UNCHANGED <<asked, removing, departs>>
    BY <1>1 DEF membership_join
  <2> QED BY <2>1, <2>2 DEF IndSurvives, MemoryNode
<1>2. ASSUME NEW n \in departs, membership_depart(n) PROVE IndSurvives'
  <2>1. n \in asked
    BY DEF IndSurvives
  <2>2. ring' = ring \ {n} /\ departs' \subseteq departs /\ UNCHANGED <<asked, removing, joins>>
    BY <1>2 DEF membership_depart
  <2> QED BY <2>1, <2>2 DEF IndSurvives, MemoryNode
<1>3. ASSUME NEW n \in dones, depart_done_handler(n) PROVE IndSurvives'
  BY <1>0, <1>3, Untouched DEF depart_done_handler, monitor
<1>4. ASSUME NEW finish \in BOOLEAN, NEW latency \in Latency, NEW keys \in SUBSET Key,
             feedback_handler(finish, latency, keys)
      PROVE  IndSurvives'
  BY <1>0, <1>4, Untouched DEF feedback_handler, monitor, servers
<1>5. ASSUME NEW n \in [Tier -> {-1, 0, 1}], NEW a \in [Key -> {"none", "unused", "little", "much"}], collect_stats(n, a)
      PROVE  IndSurvives'
  BY <1>0, <1>5, Untouched DEF collect_stats, servers
<1>6. ASSUME NEW late \in [Tier -> BOOLEAN], NEW low \in BOOLEAN, storage_policy(late, low) PROVE IndSurvives'
  BY <1>6, StorageKeeps
<1>7. CASE (\E room \in Room("MEMORY") : promote(room)) \/ (\E room \in Room("DISK") : demote(room)) \/ dereplicate
  <2>1. \E t \in Tier : \E requests, overflow, late, next : Move(t, requests, overflow, late, next)
    BY <1>7, Zenon DEF promote, demote, dereplicate, Tier
  <2>2. UNCHANGED <<ring, asked, removing, departs, joins>>
    BY <2>1 DEF Move, servers
  <2> QED BY <1>0, <2>2, Untouched
<1>8. CASE slo_policy
  BY <1>8, SloKeeps
<1>9. CASE Elapse
  BY <1>0, <1>9, Untouched DEF Elapse, monitor, servers
<1>10. ASSUME NEW n \in Node, Start(n) PROVE IndSurvives'
  <2>1. joins' = joins \cup {[node |-> n, ordered |-> TRUE]}
    BY <1>10 DEF Start
  <2>2. joins' \subseteq [node : Node, ordered : BOOLEAN]
    BY <2>1, JoinTyped, Zenon DEF IndSurvives
  <2>3. UNCHANGED <<ring, asked, removing, departs>>
    BY <1>10 DEF Start, monitor
  <2> QED BY <2>2, <2>3, Untouched
<1>11. ASSUME NEW n \in Node, Depart(n) PROVE IndSurvives'
  <2>1. n \in asked /\ departs' = departs \cup {n} /\ UNCHANGED <<ring, asked, removing, joins>>
    BY <1>11 DEF Depart, monitor
  <2> QED BY <2>1 DEF IndSurvives, MemoryNode
<1>12. CASE UNCHANGED vars
  BY <1>0, <1>12, Untouched DEF vars, monitor, servers
<1> QED
  BY <1>1, <1>2, <1>3, <1>4, <1>5, <1>6, <1>7, <1>8, <1>9, <1>10, <1>11, <1>12, SMTT(30) DEF Next

(* Whatever the policies decide, once a memory server has joined there is  *)
(* one the monitor knows that was not asked to leave (TierSurvives).       *)
THEOREM MemoryTierSurvives == Spec => []TierSurvives
<1>1. Init => IndSurvives
  <2> SUFFICES ASSUME Init PROVE IndSurvives
    OBVIOUS
  <2>1. Initial \subseteq Node
    BY MonitorAssumption
  <2>2. joins \subseteq [node : Node, ordered : BOOLEAN]
    BY <2>1, JoinTyped, Zenon DEF Init
  <2>3. ring = {} /\ asked = {} /\ departs = {} /\ removing \in [Tier -> BOOLEAN]
    BY DEF Init
  <2> QED BY <2>2, <2>3 DEF IndSurvives
<1>2. IndSurvives => TierSurvives
  BY DEF IndSurvives, TierSurvives, InTier, MemoryNode
<1> QED BY <1>1, <1>2, SurvivesStep, PTL DEF Spec

-----------------------------------------------------------------------------
(* Nodes ordered.  A join that was ordered lowers owed, so the count that  *)
(* stops a second order is never too high only because there are never     *)
(* more such joins on their way than nodes owed.                           *)

Starting(t) == {m \in joins : m.ordered /\ TierOf[m.node] = t}

IndOrders ==
    /\ new_count \in [Tier -> Nat] /\ owed \in [Tier -> Nat]
    /\ joins \subseteq [node : Node, ordered : BOOLEAN]
    /\ \A t \in Tier : IsFiniteSet(Starting(t)) /\ Cardinality(Starting(t)) <= owed[t]
    /\ OrdersCounted

(* Steps that leave the joins alone and order, or not, keep the invariant: *)
(* an order sets the count to what it adds to what is owed (add_node).     *)
LEMMA OrdersKeep ==
    ASSUME IndOrders, joins' = joins,
           new_count' \in [Tier -> Nat], owed' \in [Tier -> Nat],
           \A t \in Tier : \/ new_count'[t] = new_count[t] /\ owed'[t] = owed[t]
                           \/ owed'[t] = owed[t] + new_count'[t]
    PROVE  IndOrders'
<1>1. \A t \in Tier : Starting(t)' = Starting(t)
  BY DEF Starting
<1>2. \A t \in Tier : Cardinality(Starting(t)) \in Nat
  BY FS_CardinalityType DEF IndOrders
<1>3. \A t \in Tier : owed[t] <= owed'[t] /\ new_count'[t] <= owed'[t]
  BY DEF IndOrders, OrdersCounted
<1>4. \A t \in Tier : IsFiniteSet(Starting(t)') /\ Cardinality(Starting(t)') <= owed'[t]
  BY <1>1, <1>2, <1>3 DEF IndOrders
<1> QED BY <1>3, <1>4 DEF IndOrders, OrdersCounted

(* add_node of a batch.                                                    *)
LEMMA AddNodeOrders ==
    ASSUME IndOrders, joins' = joins, NEW t \in Tier, NEW number \in Nat, add_node(t, number)
    PROVE  IndOrders'
<1>1. new_count' = [new_count EXCEPT ![t] = number] /\ owed' = [owed EXCEPT ![t] = @ + number]
  BY DEF add_node
<1>2. new_count' \in [Tier -> Nat] /\ owed' \in [Tier -> Nat]
  BY <1>1 DEF IndOrders
<1>3. \A u \in Tier : \/ new_count'[u] = new_count[u] /\ owed'[u] = owed[u]
                      \/ owed'[u] = owed[u] + new_count'[u]
  BY <1>1 DEF IndOrders
<1> QED BY <1>2, <1>3, OrdersKeep

LEMMA NoOrders ==
    ASSUME IndOrders, UNCHANGED <<joins, new_count, owed>>
    PROVE  IndOrders'
  BY OrdersKeep DEF IndOrders

(* A join is taken off what is owed when it was ordered, and off the count *)
(* in any case (membership_handler).                                       *)
LEMMA JoinOrders ==
    ASSUME IndOrders, NEW m \in joins, membership_join(m)
    PROVE  IndOrders'
<1> DEFINE t == TierOf[m.node]
<1>1. m.node \in Node /\ m.ordered \in BOOLEAN /\ t \in Tier
  BY MonitorAssumption DEF IndOrders
<1>2. /\ joins' = joins \ {m}
      /\ new_count' = [new_count EXCEPT ![t] = IF @ > 0 THEN @ - 1 ELSE @]
      /\ owed' = [owed EXCEPT ![t] = IF m.ordered THEN @ - 1 ELSE @]
  BY DEF membership_join, Joined
<1>3. new_count' \in [Tier -> Nat]
  BY <1>1, <1>2 DEF IndOrders
<1>4. ASSUME NEW u \in Tier
      PROVE  IsFiniteSet(Starting(u)') /\ owed'[u] \in Nat
             /\ Cardinality(Starting(u)') <= owed'[u] /\ new_count'[u] <= owed'[u]
  <2>1. IsFiniteSet(Starting(u)) /\ Cardinality(Starting(u)) \in Nat /\ Cardinality(Starting(u)) <= owed[u]
    BY FS_CardinalityType DEF IndOrders
  <2>2. new_count[u] \in Nat /\ owed[u] \in Nat /\ new_count[u] <= owed[u]
    BY DEF IndOrders, OrdersCounted
  <2>3. CASE u = t /\ m.ordered
    <3>1. m \in Starting(u) /\ Starting(u)' = Starting(u) \ {m}
      BY <1>2, <2>3 DEF Starting
    <3>2. IsFiniteSet(Starting(u)') /\ Cardinality(Starting(u)') = Cardinality(Starting(u)) - 1
      BY <2>1, <3>1, FS_RemoveElement
    <3>3. Cardinality(Starting(u)) # 0
      BY <2>1, <3>1, FS_EmptySet
    <3>4. owed'[u] = owed[u] - 1 /\ new_count'[u] = IF new_count[u] > 0 THEN new_count[u] - 1 ELSE new_count[u]
      BY <1>1, <1>2, <2>3 DEF IndOrders
    <3> QED BY <2>1, <2>2, <3>2, <3>3, <3>4
  <2>4. CASE u # t \/ ~ m.ordered
    <3>1. Starting(u)' = Starting(u)
      BY <1>2, <2>4 DEF Starting
    <3>2. owed'[u] = owed[u] /\ new_count'[u] \in {new_count[u], new_count[u] - 1}
      BY <1>1, <1>2, <2>4 DEF IndOrders
    <3> QED BY <2>1, <2>2, <3>1, <3>2
  <2> QED BY <2>3, <2>4
<1>5. owed' \in [Tier -> Nat]
  BY <1>2, <1>4, Zenon DEF IndOrders
<1>6. joins' \subseteq [node : Node, ordered : BOOLEAN]
  BY <1>2 DEF IndOrders
<1> QED BY <1>3, <1>4, <1>5, <1>6 DEF IndOrders, OrdersCounted

(* No more servers are started than are owed.                              *)
LEMMA StartOrders ==
    ASSUME IndOrders, NEW n \in Node, Start(n)
    PROVE  IndOrders'
<1> DEFINE t == TierOf[n]
           m == [node |-> n, ordered |-> TRUE]
<1>1. /\ joins' = joins \cup {m} /\ Cardinality(Starting(t)) < owed[t]
      /\ UNCHANGED <<new_count, owed>>
  BY DEF Start, monitor, Starting
<1>2. t \in Tier
  BY MonitorAssumption
<1>3. joins' \subseteq [node : Node, ordered : BOOLEAN]
  BY <1>1, JoinTyped, Zenon DEF IndOrders
<1>4. ASSUME NEW u \in Tier PROVE IsFiniteSet(Starting(u)') /\ Cardinality(Starting(u)') <= owed[u]
  <2>1. IsFiniteSet(Starting(u)) /\ Cardinality(Starting(u)) \in Nat /\ Cardinality(Starting(u)) <= owed[u]
        /\ owed[u] \in Nat
    BY FS_CardinalityType DEF IndOrders
  <2>2. CASE u = t
    <3>1. Starting(u)' = Starting(u) \cup {m}
      BY <1>1, <2>2 DEF Starting
    <3> HIDE DEF m
    <3> DEFINE S == Starting(u)
    <3>4. IsFiniteSet(S \cup {m})
          /\ Cardinality(S \cup {m}) = IF m \in S THEN Cardinality(S) ELSE Cardinality(S) + 1
      BY <2>1, FS_AddElement, Zenon
    <3>2. IsFiniteSet(Starting(u)') /\ Cardinality(Starting(u)') <= Cardinality(Starting(u)) + 1
      BY <2>1, <3>1, <3>4
    <3>3. Cardinality(Starting(u)') \in Nat
      BY <3>2, FS_CardinalityType
    <3> QED BY <1>1, <2>1, <2>2, <3>2, <3>3
  <2>3. CASE u # t
    <3>1. Starting(u)' = Starting(u)
      BY <1>1, <2>3 DEF Starting
    <3> QED BY <2>1, <3>1
  <2> QED BY <2>2, <2>3
<1> QED BY <1>1, <1>3, <1>4 DEF IndOrders, OrdersCounted

(* The storage policy orders for either tier, on the same terms.           *)
LEMMA StorageOrders ==
    ASSUME IndOrders, NEW late \in [Tier -> BOOLEAN], NEW low \in BOOLEAN, storage_policy(late, low)
    PROVE  IndOrders'
<1>1. /\ joins' = joins
      /\ new_count' = [t \in Tier |-> IF orders(t, late) THEN kNodeAdditionBatchSize ELSE new_count[t]]
      /\ owed' = [t \in Tier |-> IF orders(t, late) THEN owed[t] + kNodeAdditionBatchSize ELSE owed[t]]
  BY DEF storage_policy, servers
<1>2. kNodeAdditionBatchSize \in Nat
  BY MonitorAssumption
<1>3. new_count' \in [Tier -> Nat] /\ owed' \in [Tier -> Nat]
  BY <1>1, <1>2 DEF IndOrders
<1>4. \A t \in Tier : \/ new_count'[t] = new_count[t] /\ owed'[t] = owed[t]
                      \/ owed'[t] = owed[t] + new_count'[t]
  BY <1>1, <1>2 DEF IndOrders
<1> QED BY <1>1, <1>3, <1>4, OrdersKeep

LEMMA OrdersStep == IndOrders /\ [Next]_vars => IndOrders'
<1> SUFFICES ASSUME IndOrders, [Next]_vars PROVE IndOrders'
  OBVIOUS
<1>0. kNodeAdditionBatchSize \in Nat /\ "MEMORY" \in Tier
  BY MonitorAssumption DEF Tier
<1>1. ASSUME NEW m \in joins, membership_join(m) PROVE IndOrders'
  BY <1>1, JoinOrders
<1>2. ASSUME NEW n \in departs, membership_depart(n) PROVE IndOrders'
  BY <1>2, NoOrders DEF membership_depart
<1>3. ASSUME NEW n \in dones, depart_done_handler(n) PROVE IndOrders'
  BY <1>3, NoOrders DEF depart_done_handler, monitor
<1>4. ASSUME NEW finish \in BOOLEAN, NEW latency \in Latency, NEW keys \in SUBSET Key,
             feedback_handler(finish, latency, keys)
      PROVE  IndOrders'
  BY <1>4, NoOrders DEF feedback_handler, monitor, servers
<1>5. ASSUME NEW n \in [Tier -> {-1, 0, 1}], NEW a \in [Key -> {"none", "unused", "little", "much"}], collect_stats(n, a)
      PROVE  IndOrders'
  BY <1>5, NoOrders DEF collect_stats, servers
<1>6. ASSUME NEW late \in [Tier -> BOOLEAN], NEW low \in BOOLEAN, storage_policy(late, low) PROVE IndOrders'
  BY <1>6, StorageOrders
<1>7. CASE (\E room \in Room("MEMORY") : promote(room)) \/ (\E room \in Room("DISK") : demote(room)) \/ dereplicate
  <2>1. \E t \in Tier : \E requests, overflow, late, next : Move(t, requests, overflow, late, next)
    BY <1>7, Zenon DEF promote, demote, dereplicate, Tier
  <2>2. joins' = joins
    BY <2>1 DEF Move, servers
  <2>3. \/ \E t \in Tier, number \in Nat : add_node(t, number)
        \/ UNCHANGED <<new_count, owed>>
    <3>1. PICK t \in Tier : \E requests, overflow, late, next : Move(t, requests, overflow, late, next)
      BY <2>1
    <3>2. \/ \E number \in 0..kNodeAdditionBatchSize : add_node(t, number)
          \/ UNCHANGED <<new_count, owed>>
      BY <3>1, Zenon DEF Move
    <3>3. \A number \in 0..kNodeAdditionBatchSize : number \in Nat
      BY <1>0
    <3> QED BY <3>2, <3>3
  <2> QED BY <2>2, <2>3, NoOrders, AddNodeOrders
<1>8. CASE slo_policy
  <2>1. joins' = joins
    BY <1>8 DEF slo_policy, servers
  <2>2. \/ \E number \in 0..kNodeAdditionBatchSize : add_node("MEMORY", number)
        \/ UNCHANGED <<new_count, owed>>
    BY <1>8, Zenon DEF slo_policy, slo_missed, slo_met
  <2>3. \A number \in 0..kNodeAdditionBatchSize : number \in Nat
    BY <1>0
  <2> QED BY <1>0, <2>1, <2>2, <2>3, NoOrders, AddNodeOrders
<1>9. CASE Elapse
  BY <1>9, NoOrders DEF Elapse, monitor, servers
<1>10. ASSUME NEW n \in Node, Start(n) PROVE IndOrders'
  BY <1>10, StartOrders
<1>11. ASSUME NEW n \in Node, Depart(n) PROVE IndOrders'
  BY <1>11, NoOrders DEF Depart, monitor
<1>12. CASE UNCHANGED vars
  BY <1>12, NoOrders DEF vars, monitor, servers
<1> QED
  BY <1>1, <1>2, <1>3, <1>4, <1>5, <1>6, <1>7, <1>8, <1>9, <1>10, <1>11, <1>12, SMTT(30) DEF Next

(* The monitor never waits for a node that has joined already: the count   *)
(* that stops a second order is at most the number of nodes ordered whose  *)
(* join it has not handled, whatever joins without an order.               *)
THEOREM OrdersAreCounted == Spec => []OrdersCounted
<1>1. Init => IndOrders
  <2> SUFFICES ASSUME Init PROVE IndOrders
    OBVIOUS
  <2>1. joins \subseteq [node : Node, ordered : BOOLEAN]
    BY MonitorAssumption, JoinTyped, Zenon DEF Init
  <2>2. \A t \in Tier : Starting(t) = {}
    BY DEF Init, Starting
  <2>3. new_count = [t \in Tier |-> 0] /\ owed = [t \in Tier |-> 0]
    BY DEF Init
  <2> QED BY <2>1, <2>2, <2>3, FS_EmptySet DEF IndOrders, OrdersCounted
<1>2. IndOrders => OrdersCounted
  BY DEF IndOrders
<1> QED BY <1>1, <1>2, OrdersStep, PTL DEF Spec

-----------------------------------------------------------------------------
(* The factors of the keys, when a new key has one replica, in memory or   *)
(* on disk, and one is required.  NeverHangs is not inductive alone: the   *)
(* walk ends because every factor the monitor stores or asks for has one   *)
(* replica, in one tier; and the branch of slo_policy that asks for more   *)
(* is not taken, since the statistics never show a latency.                *)

OneReplica == kMinimumReplicaNumber = 1 /\ default.MEMORY + default.DISK = 1

Proper(r) ==
    /\ r \in Factor
    /\ (r.MEMORY = 1 /\ r.DISK = 0) \/ (r.MEMORY = 0 /\ r.DISK = 1)

IndFactors ==
    /\ default \in Factor
    /\ OneReplica =>
         /\ IsFiniteSet(ring) /\ avg_latency = "none" /\ pc # "hung"
         /\ access \in [Key -> {"none", "unused", "little", "much"}]
         /\ \A k \in Key : key_replication_map[k] = NoFactor \/ Proper(key_replication_map[k])
         /\ \A k \in Key : access[k] # "none" => key_replication_map[k] # NoFactor

\* the invariant of a configuration with one replica
OneInv == OneReplica /\ IndFactors

(* A tier that is not empty has a node.                                    *)
LEMMA CountNodes ==
    ASSUME IsFiniteSet(ring), NEW t \in Tier
    PROVE  node_count(t) \in Nat /\ (InTier(t) # {} => node_count(t) >= 1)
<1>1. IsFiniteSet(InTier(t))
  BY FS_Subset DEF InTier
<1>2. Cardinality(InTier(t)) \in Nat /\ (InTier(t) # {} => Cardinality(InTier(t)) # 0)
  BY <1>1, FS_CardinalityType, FS_EmptySet
<1> QED BY <1>2 DEF node_count

LEMMA OneLess ==
    ASSUME OneReplica PROVE Minus(1, 1) = 0 /\ 0 \in 0..Word-1 /\ 1 \in 0..Word-1
<1>1. Word \in Nat /\ Word > 1
  BY MonitorAssumption DEF OneReplica
<1>2. Word % Word = 0
  BY <1>1
<1>3. 1 - 1 + Word = Word
  BY <1>1
<1> QED BY <1>1, <1>2, <1>3 DEF Minus

(* A vector with one replica is proper.                                    *)
LEMMA VectorProper ==
    ASSUME OneReplica, NEW g \in {<<1, 0>>, <<0, 1>>}, NEW lm \in 0..Word-1, NEW le \in 0..Word-1
    PROVE  Proper(create_new_replication_vector(g[1], g[2], lm, le))
<1> DEFINE r == create_new_replication_vector(g[1], g[2], lm, le)
<1>1. (g[1] = 1 /\ g[2] = 0) \/ (g[1] = 0 /\ g[2] = 1)
  OBVIOUS
<1>2. g[1] \in 0..Word-1 /\ g[2] \in 0..Word-1
  BY <1>1, OneLess
<1>3. r \in Factor
  BY <1>2 DEF create_new_replication_vector, Factor
<1>4. r.MEMORY = g[1] /\ r.DISK = g[2]
  BY DEF create_new_replication_vector
<1> QED BY <1>1, <1>3, <1>4 DEF Proper

(* A proper factor asks a tier for at most the one node it has, so that    *)
(* the walk ends.                                                          *)
LEMMA ProperEnds ==
    ASSUME IsFiniteSet(ring), NEW t \in Tier, InTier(t) # {}, NEW r, Proper(r)
    PROVE  ~(r[t] > node_count(t))
<1>1. r["MEMORY"] \in {0, 1} /\ r["DISK"] \in {0, 1}
  BY DEF Proper
<1>2. node_count(t) \in Nat /\ node_count(t) >= 1
  BY CountNodes
<1> QED BY <1>1, <1>2 DEF Tier

LEMMA NoHang ==
    ASSUME OneInv, NEW requests, NEW failed,
           \A k \in DOMAIN requests : k \in Key /\ access[k] # "none" /\ Proper(requests[k])
    PROVE  ~ Hangs(requests, failed)
<1>1. ASSUME NEW k \in DOMAIN requests
      PROVE  Proper(requests[k]) /\ Proper(key_replication_map[k])
  BY Zenon DEF OneInv, IndFactors
<1>2. IsFiniteSet(ring)
  BY DEF OneInv, IndFactors
<1>3. ASSUME NEW k \in DOMAIN requests, NEW t \in Tier, InTier(t) # {}
      PROVE  ~(requests[k][t] > node_count(t) \/ key_replication_map[k][t] > node_count(t))
  <2>1. Proper(requests[k]) /\ Proper(key_replication_map[k])
    BY <1>1
  <2>2. ~(requests[k][t] > node_count(t))
    BY <1>2, <1>3, <2>1, ProperEnds
  <2>3. ~(key_replication_map[k][t] > node_count(t))
    BY <1>2, <1>3, <2>1, ProperEnds
  <2> QED BY <2>2, <2>3
<1> QED BY <1>3, Zenon DEF Hangs

(* A move of keys that are known, each to a proper factor.                 *)
LEMMA ChangeKeeps ==
    ASSUME OneInv, NEW requests, NEW failed,
           change_replication_factor(requests, failed),
           \A k \in DOMAIN requests : k \in Key /\ access[k] # "none" /\ Proper(requests[k])
    PROVE  /\ \A k \in Key : key_replication_map'[k] = NoFactor \/ Proper(key_replication_map'[k])
           /\ \A k \in Key : key_replication_map[k] # NoFactor => key_replication_map'[k] # NoFactor
<1>1. ASSUME NEW k \in Key
      PROVE  \/ key_replication_map'[k] = key_replication_map[k]
             \/ k \in DOMAIN requests /\ key_replication_map'[k] = requests[k]
  BY DEF change_replication_factor, Changed
<1>2. \A k \in DOMAIN requests : requests[k] # NoFactor
  BY MonitorAssumption, Zenon DEF Proper
<1>3. \A k \in Key : key_replication_map'[k] = NoFactor \/ Proper(key_replication_map'[k])
  BY <1>1, Zenon DEF OneInv, IndFactors
<1>4. \A k \in Key : key_replication_map[k] # NoFactor => key_replication_map'[k] # NoFactor
  BY <1>1, <1>2, Zenon
<1> QED BY <1>3, <1>4

LEMMA MoveKeeps ==
    ASSUME OneInv, NEW t, NEW requests, NEW overflow, NEW late, NEW next, next # "hung",
           Move(t, requests, overflow, late, next),
           \A k \in DOMAIN requests : k \in Key /\ access[k] # "none" /\ Proper(requests[k])
    PROVE  IndFactors'
<1>1. PICK failed : change_replication_factor(requests, failed) /\ pc' = IF Hangs(requests, failed) THEN "hung" ELSE next
  BY Zenon DEF Move
<1>2. ~ Hangs(requests, failed)
  BY NoHang
<1>3. pc' # "hung"
  BY <1>1, <1>2
<1>4. UNCHANGED <<ring, access, avg_latency, default>>
  BY Zenon DEF Move, conf
<1>5. /\ \A k \in Key : key_replication_map'[k] = NoFactor \/ Proper(key_replication_map'[k])
      /\ \A k \in Key : key_replication_map[k] # NoFactor => key_replication_map'[k] # NoFactor
  BY <1>1, ChangeKeeps
<1> QED BY <1>3, <1>4, <1>5 DEF OneInv, IndFactors

(* A key that is used but not in memory has its one replica on disk, and   *)
(* gets it in memory instead.                                              *)
LEMMA PromoteKeeps ==
    ASSUME OneInv, NEW room, promote(room)
    PROVE  IndFactors'
<1> DEFINE hot == {k \in Key : access[k] \in {"little", "much"} /\ key_replication_map[k].MEMORY = 0 /\ room[k] # "unknown"}
           new(k) == LET r == key_replication_map[k]
                     IN  create_new_replication_vector(r.MEMORY + 1, Minus(r.DISK, 1), r.lMEMORY, r.lDISK)
           moves == IF Enabled("tiering") THEN hot ELSE {}
           requests == [k \in {h \in moves : room[h] = "fits"} |-> new(k)]
<1>1. \E overflow, late : Move("MEMORY", requests, overflow, late, "demote")
  BY Zenon DEF promote
<1>2. ASSUME NEW k \in hot
      PROVE  k \in Key /\ access[k] # "none" /\ Proper(new(k))
  <2>1. /\ k \in Key /\ access[k] # "none" /\ key_replication_map[k].MEMORY = 0
    OBVIOUS
  <2>2. Proper(key_replication_map[k])
    BY <2>1 DEF OneInv, IndFactors
  <2>3. /\ key_replication_map[k].DISK = 1
        /\ key_replication_map[k].lMEMORY \in 0..Word-1 /\ key_replication_map[k].lDISK \in 0..Word-1
    BY <2>1, <2>2 DEF Proper, Factor
  <2>4. new(k) = create_new_replication_vector(<<1, 0>>[1], <<1, 0>>[2], key_replication_map[k].lMEMORY, key_replication_map[k].lDISK)
    BY <2>1, <2>3, OneLess DEF OneInv
  <2>5. Proper(new(k))
    BY <2>3, <2>4, VectorProper DEF OneInv
  <2> QED BY <2>1, <2>5
<1>3. \A k \in DOMAIN requests : k \in hot /\ requests[k] = new(k)
  OBVIOUS
<1> HIDE DEF hot, new, requests
<1>4. \A k \in DOMAIN requests : k \in Key /\ access[k] # "none" /\ Proper(requests[k])
  BY <1>2, <1>3
<1> QED BY <1>1, <1>4, MoveKeeps

(* A key that is not used gets its one replica on disk.                    *)
LEMMA DemoteKeeps ==
    ASSUME OneInv, NEW room, demote(room)
    PROVE  IndFactors'
<1> DEFINE cold == {k \in Key : access[k] = "unused" /\ key_replication_map[k].MEMORY > 0 /\ room[k] # "unknown"}
           moves == IF Enabled("tiering") THEN cold ELSE {}
           new == create_new_replication_vector(0, kMinimumReplicaNumber, 1, 1)
           requests == [k \in {c \in moves : room[c] = "fits"} |-> new]
<1>1. \E overflow, late : Move("DISK", requests, overflow, late, "dereplicate")
  BY Zenon DEF demote
<1>2. new = create_new_replication_vector(<<0, 1>>[1], <<0, 1>>[2], 1, 1)
  BY DEF OneInv, OneReplica
<1>3. Proper(new)
  BY <1>2, OneLess, VectorProper DEF OneInv
<1>4. \A k \in DOMAIN requests : requests[k] = new /\ k \in Key /\ access[k] # "none"
  OBVIOUS
<1> HIDE DEF new, requests
<1>5. \A k \in DOMAIN requests : k \in Key /\ access[k] # "none" /\ Proper(requests[k])
  BY <1>3, <1>4
<1> QED BY <1>1, <1>5, MoveKeeps

(* A key that is used little gets its one replica in memory.               *)
LEMMA DereplicateKeeps ==
    ASSUME OneInv, dereplicate
    PROVE  IndFactors'
<1> DEFINE keys == IF Enabled("selective-rep") THEN {k \in Key : access[k] \in {"unused", "little"}} ELSE {}
           requests == [k \in {c \in keys : key_replication_map[c] # minimum_rep} |-> minimum_rep]
<1>1. Move("MEMORY", requests, FALSE, FALSE, "slo")
  BY Zenon DEF dereplicate
<1>2. minimum_rep = create_new_replication_vector(<<1, 0>>[1], <<1, 0>>[2], 1, 1)
  BY OneLess DEF minimum_rep, OneInv, OneReplica
<1>3. Proper(minimum_rep)
  BY <1>2, OneLess, VectorProper DEF OneInv
<1>4. \A k \in DOMAIN requests : requests[k] = minimum_rep /\ k \in Key /\ access[k] # "none"
  OBVIOUS
<1> HIDE DEF requests
<1>5. \A k \in DOMAIN requests : k \in Key /\ access[k] # "none" /\ Proper(requests[k])
  BY <1>3, <1>4
<1> QED BY <1>1, <1>5, MoveKeeps

(* The first branch of slo_policy is not taken; in the second no key is    *)
(* held by all nodes of a memory tier that may lose one.                   *)
LEMMA SloFactors ==
    ASSUME OneInv, slo_policy
    PROVE  IndFactors'
<1>1. slo_met /\ UNCHANGED <<ring, avg_latency, default>> /\ access' = [k \in Key |-> "none"]
  BY DEF slo_policy, conf, OneInv, IndFactors
<1>2. ASSUME MayShrink PROVE DOMAIN ShrinkRequests = {}
  <2>1. node_count("MEMORY") > 1
    BY <1>2, CountNodes DEF MayShrink, kMinTierSize, Tier, OneInv, IndFactors
  <2>2. ASSUME NEW k \in Key, access[k] # "none" PROVE key_replication_map[k].MEMORY # node_count("MEMORY")
    <3>1. Proper(key_replication_map[k])
      BY <2>2 DEF OneInv, IndFactors
    <3> QED BY <2>1, <3>1 DEF Proper
  <2>3. {k \in Key : access[k] # "none" /\ key_replication_map[k].MEMORY = node_count("MEMORY")} = {}
    BY <2>2, Zenon
  <2> QED BY <2>3, Zenon DEF ShrinkRequests
<1>3. \/ pc' = "loop" /\ UNCHANGED key_replication_map
      \/ /\ MayShrink
         /\ \E failed : /\ change_replication_factor(ShrinkRequests, failed)
                        /\ pc' = IF Hangs(ShrinkRequests, failed) THEN "hung" ELSE "loop"
  BY <1>1, Zenon DEF slo_met
<1>4. pc' = "loop" /\ \A k \in Key : key_replication_map'[k] = NoFactor \/ Proper(key_replication_map'[k])
  <2>1. CASE pc' = "loop" /\ UNCHANGED key_replication_map
    BY <2>1, Zenon DEF OneInv, IndFactors
  <2>2. ASSUME MayShrink, NEW failed, change_replication_factor(ShrinkRequests, failed),
               pc' = IF Hangs(ShrinkRequests, failed) THEN "hung" ELSE "loop"
        PROVE  pc' = "loop" /\ \A k \in Key : key_replication_map'[k] = NoFactor \/ Proper(key_replication_map'[k])
    <3>1. \A k \in DOMAIN ShrinkRequests : k \in Key /\ access[k] # "none" /\ Proper(ShrinkRequests[k])
      BY <1>2, <2>2, Zenon
    <3>2. ~ Hangs(ShrinkRequests, failed)
      BY <3>1, NoHang
    <3>3. \A k \in Key : key_replication_map'[k] = NoFactor \/ Proper(key_replication_map'[k])
      BY <2>2, <3>1, ChangeKeeps
    <3> QED BY <2>2, <3>2, <3>3
  <2> QED BY <1>3, <2>1, <2>2, Zenon
<1> QED BY <1>1, <1>4 DEF OneInv, IndFactors

(* A key that is reported gets the default factor when it has none, and    *)
(* the latencies reported are cleared before they are summed up.           *)
LEMMA CollectKeeps ==
    ASSUME OneInv,
           NEW n, NEW a \in [Key -> {"none", "unused", "little", "much"}], collect_stats(n, a)
    PROVE  IndFactors'
<1>1. /\ access' = a /\ pc' = "storage" /\ UNCHANGED <<ring, default>> /\ avg_latency' = "none"
      /\ key_replication_map' = [k \in Key |->
           IF a[k] # "none" /\ key_replication_map[k] = NoFactor THEN default ELSE key_replication_map[k]]
  BY DEF collect_stats, collect_internal_stats, collect_external_stats, conf
<1>2. Proper(default) /\ default # NoFactor
  <2>1. default \in Factor /\ default # NoFactor
    BY MonitorAssumption DEF OneInv, IndFactors
  <2>2. default.MEMORY \in 0..Word-1 /\ default.DISK \in 0..Word-1
    BY <2>1 DEF Factor
  <2>3. (default.MEMORY = 1 /\ default.DISK = 0) \/ (default.MEMORY = 0 /\ default.DISK = 1)
    BY <2>2, MonitorAssumption DEF OneInv, OneReplica
  <2> QED BY <2>1, <2>3 DEF Proper
<1>3. \A k \in Key : key_replication_map'[k] = NoFactor \/ Proper(key_replication_map'[k])
  BY <1>1, <1>2 DEF OneInv, IndFactors
<1>4. \A k \in Key : a[k] # "none" => key_replication_map'[k] # NoFactor
  BY <1>1, <1>2
<1> QED BY <1>1, <1>3, <1>4 DEF OneInv, IndFactors

LEMMA FactorsUntouched ==
    ASSUME OneInv, UNCHANGED <<key_replication_map, access, avg_latency, default>>,
           IsFiniteSet(ring'), pc' # "hung"
    PROVE  IndFactors'
  BY DEF OneInv, IndFactors

LEMMA FactorsStep == IndFactors /\ [Next]_vars => IndFactors'
<1> SUFFICES ASSUME IndFactors, [Next]_vars PROVE IndFactors'
  OBVIOUS
<1>1. UNCHANGED default
  BY Zenon DEF Next, vars, monitor, conf, membership_join, membership_depart, depart_done_handler, feedback_handler,
     collect_stats, storage_policy, promote, demote, dereplicate, Move, slo_policy, Elapse, Start, Depart
<1>2. CASE ~ OneReplica
  BY <1>1, <1>2 DEF IndFactors, OneReplica
<1>3. CASE OneReplica
  <2>0. OneInv /\ IsFiniteSet(ring) /\ pc # "hung"
    BY <1>3 DEF OneInv, IndFactors
  <2>1. ASSUME NEW m \in joins, membership_join(m) PROVE IndFactors'
    <3>1. IsFiniteSet(ring \cup {m.node})
      BY <2>0, FS_AddElement, Zenon
    <3> QED BY <1>1, <2>0, <2>1, <3>1, FactorsUntouched, Zenon DEF membership_join, stats
  <2>2. ASSUME NEW n \in departs, membership_depart(n) PROVE IndFactors'
    <3>1. IsFiniteSet(ring \ {n})
      BY <2>0, FS_RemoveElement, Zenon
    <3> QED BY <1>1, <2>0, <2>2, <3>1, FactorsUntouched, Zenon DEF membership_depart, stats
  <2>3. ASSUME NEW n \in dones, depart_done_handler(n) PROVE IndFactors'
    BY <1>1, <2>0, <2>3, FactorsUntouched DEF depart_done_handler, monitor, stats
  <2>4. ASSUME NEW finish \in BOOLEAN, NEW latency \in Latency, NEW keys \in SUBSET Key,
               feedback_handler(finish, latency, keys)
        PROVE  IndFactors'
    BY <1>1, <2>0, <2>4, FactorsUntouched DEF feedback_handler, monitor, stats
  <2>5. ASSUME NEW n \in [Tier -> {-1, 0, 1}], NEW a \in [Key -> {"none", "unused", "little", "much"}], collect_stats(n, a)
        PROVE  IndFactors'
    BY <2>0, <2>5, CollectKeeps
  <2>6. ASSUME NEW late \in [Tier -> BOOLEAN], NEW low \in BOOLEAN, storage_policy(late, low)
        PROVE  IndFactors'
    BY <1>1, <2>0, <2>6, FactorsUntouched DEF storage_policy, stats
  <2>7. ASSUME NEW room \in Room("MEMORY"), promote(room) PROVE IndFactors'
    BY <2>0, <2>7, PromoteKeeps
  <2>8. ASSUME NEW room \in Room("DISK"), demote(room) PROVE IndFactors'
    BY <2>0, <2>8, DemoteKeeps
  <2>9. CASE dereplicate
    BY <2>0, <2>9, DereplicateKeeps
  <2>10. CASE slo_policy
    BY <2>0, <2>10, SloFactors
  <2>11. CASE Elapse
    BY <1>1, <2>0, <2>11, FactorsUntouched DEF Elapse, monitor, stats
  <2>12. ASSUME NEW n \in Node, Start(n) \/ Depart(n) PROVE IndFactors'
    BY <1>1, <2>0, <2>12, FactorsUntouched DEF Start, Depart, monitor, stats
  <2>13. CASE UNCHANGED vars
    BY <1>1, <2>0, <2>13, FactorsUntouched DEF vars, monitor, stats
  <2> QED
    BY <2>1, <2>2, <2>3, <2>4, <2>5, <2>6, <2>7, <2>8, <2>9, <2>10, <2>11, <2>12, <2>13, SMTT(30) DEF Next
<1> QED BY <1>2, <1>3

(* With one replica of each key the walk in change_replication_factor      *)
(* always ends, whatever servers join and leave, whatever is accessed and  *)
(* fits, whichever policies are enabled and whichever PUTs of factors      *)
(* fail.                                                                   *)
THEOREM MonitorNeverHangs == Spec => []NeverHangs
<1>1. Init => IndFactors
  <2> SUFFICES ASSUME Init PROVE IndFactors
    OBVIOUS
  <2>1. default \in Factor
    BY MonitorAssumption DEF Init
  <2> QED BY <2>1, FS_EmptySet DEF Init, IndFactors
<1>2. IndFactors => NeverHangs
  BY DEF IndFactors, NeverHangs, OneReplica
<1> QED BY <1>1, <1>2, FactorsStep, PTL DEF Spec
=============================================================================
