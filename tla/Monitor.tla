------------------------------- MODULE Monitor -------------------------------
(***************************************************************************)
(* The monitoring process: its event loop, and the epoch in which it       *)
(* collects statistics and applies three policies.  The storage policy     *)
(* orders and removes nodes, the movement policy promotes, demotes and     *)
(* dereplicates keys, and the SLO policy removes an idle memory node.      *)
(*                                                                         *)
(* An epoch runs to its end before another message is handled.  Numbers    *)
(* the policies compare (consumption, occupancy, accesses, latency) are    *)
(* abstracted to the outcome of the comparison, chosen anew in every epoch *)
(* and kept during it when two policies use it: need is the sign of the    *)
(* difference between the nodes required and the nodes there are, access   *)
(* whether a key was reported, and used at all, little or much.            *)
(*                                                                         *)
(* How servers join, depart and change factors is the subject of           *)
(* Membership and KvsServer; here they only send what the monitor hears.   *)
(***************************************************************************)
EXTENDS Integers, FiniteSets

CONSTANTS
    Node, TierOf,   \* servers, and [Node -> Tier]
    Initial,        \* servers that were started without an order
    Key,            \* the keys followed; the system has others
    Empty,          \* keys whose value may be an empty set, of size zero
    Configurations, \* the policies enabled, and the factor of a new key (init_replication)
    kMinimumReplicaNumber,
    kMemoryThreadCount,
    kNodeAdditionBatchSize,
    Word,           \* unsigned numbers are taken modulo Word
    NoFactor, NoNode

Tier == {"MEMORY", "DISK"}
kMinTierSize == [t \in Tier |-> IF t = "MEMORY" THEN 1 ELSE 0]
Latency == {"none", "met", "missed"}
Policy == {"elasticity", "tiering", "selective-rep"}

create_new_replication_vector(gm, ge, lm, le) ==
    [MEMORY |-> gm, DISK |-> ge, lMEMORY |-> lm, lDISK |-> le]
Factor == [MEMORY : 0..Word-1, DISK : 0..Word-1, lMEMORY : 0..Word-1, lDISK : 0..Word-1]

ASSUME MonitorAssumption ==
    /\ TierOf \in [Node -> Tier] /\ Initial \subseteq Node /\ Empty \subseteq Key
    /\ Configurations \subseteq [policies : SUBSET Policy, default : Factor]
    /\ \E n \in Initial : TierOf[n] = "MEMORY"
    /\ Word \in Nat /\ kNodeAdditionBatchSize \in 1..Word-1 /\ kMemoryThreadCount \in 1..Word-1
    /\ kMinimumReplicaNumber \in 1..Word-1
    /\ NoFactor \notin Factor /\ NoNode \notin Node

VARIABLES
    policies, default,   \* the configuration
    ring,                \* global_hash_rings of all tiers
    new_count,           \* new_memory_count and new_ebs_count
    removing,            \* removing_memory_node and removing_ebs_node
    key_replication_map, \* [Key -> Factor or NoFactor]
    graced,              \* the grace period is over
    user_latency,        \* the mean latency reported: none, or one that met or missed the SLO
    miss_ratio,          \* keys in latency_miss_ratio_map
    pc,                  \* the next part of the epoch, or where the monitor stopped
    need, access, avg_latency, \* statistics of the epoch (SummaryStats, key_access_summary)
    time_elapsed,        \* the movement policy found the grace period over
    \* the servers:
    state,               \* [Node -> "off", "up" or "gone"]
    asked,               \* servers that were sent a self-depart message
    joins, departs, dones, \* messages to the monitor
    owed                 \* [Tier -> Nat]: servers ordered whose join was not handled yet

conf == <<policies, default>>
monitor == <<conf, ring, new_count, removing, key_replication_map>>
stats == <<need, access, avg_latency, time_elapsed>>
feedback == <<user_latency, miss_ratio>>
servers == <<state, joins, departs, dones>>
vars == <<monitor, graced, feedback, pc, stats, servers, asked, owed>>

Enabled(p) == p \in policies
InTier(t) == {n \in ring : TierOf[n] = t}
node_count(t) == Cardinality(InTier(t))
Minus(a, b) == (a - b + Word) % Word

Init ==
    /\ \E c \in Configurations : policies = c.policies /\ default = c.default
    /\ ring = {} /\ new_count = [t \in Tier |-> 0] /\ removing = [t \in Tier |-> FALSE]
    /\ key_replication_map = [k \in Key |-> NoFactor]
    /\ graced = FALSE /\ user_latency = "none" /\ miss_ratio = {} /\ pc = "loop"
    /\ need = [t \in Tier |-> 0] /\ access = [k \in Key |-> "none"] /\ avg_latency = "none"
    /\ time_elapsed = FALSE
    /\ state = [n \in Node |-> IF n \in Initial THEN "up" ELSE "off"]
    /\ asked = {} /\ joins = {[node |-> n, ordered |-> FALSE] : n \in Initial} /\ departs = {} /\ dones = {}
    /\ owed = [t \in Tier |-> 0]

-----------------------------------------------------------------------------
(* The handlers of the event loop.                                         *)

\* Mutation of Joined: the count is lowered although nothing was ordered
Joined_Unguarded(t) == new_count' = [new_count EXCEPT ![t] = Minus(@, 1)]

Joined(t) == new_count' = [new_count EXCEPT ![t] = IF @ > 0 THEN @ - 1 ELSE @]

membership_join(m) ==
    LET t == TierOf[m.node]
    IN  /\ pc = "loop" /\ m \in joins /\ joins' = joins \ {m}
        /\ ring' = ring \cup {m.node} /\ Joined(t) /\ graced' = FALSE
        /\ owed' = [owed EXCEPT ![t] = IF m.ordered THEN @ - 1 ELSE @]
        /\ UNCHANGED <<conf, removing, key_replication_map, feedback, pc, stats,
                       state, departs, dones, asked>>

membership_depart(n) ==
    /\ pc = "loop" /\ n \in departs /\ departs' = departs \ {n}
    /\ ~ \E m \in joins : m.node = n   \* the same socket
    /\ ring' = ring \ {n}
    /\ UNCHANGED <<conf, new_count, removing, key_replication_map, graced, feedback, pc, stats,
                   state, joins, dones, asked, owed>>

(* The last part of the message is the name of a tier; stoi expects a      *)
(* number and throws, and nothing catches it: the process ends before      *)
(* departing_node_map, removing and the grace period are touched.          *)
depart_done_handler(n) ==
    /\ pc = "loop" /\ n \in dones /\ dones' = dones \ {n}
    /\ pc' = "ended"
    /\ UNCHANGED <<monitor, graced, feedback, stats, state, joins, departs, asked, owed>>

(* A user finishes, which leaves the mean of the others, or reports a      *)
(* latency and the latencies of keys.                                      *)
feedback_handler(finish, latency, keys) ==
    /\ pc = "loop"
    /\ IF finish THEN user_latency = "none" => latency = "none" ELSE latency # "none"
    /\ user_latency' = latency
    /\ miss_ratio' = IF finish THEN miss_ratio ELSE miss_ratio \cup keys
    /\ UNCHANGED <<monitor, graced, pc, stats, servers, asked, owed>>

-----------------------------------------------------------------------------
(* The epoch: the statistics of the users are cleared, those of the        *)
(* servers are read, both are summed up, and keys that are new get the     *)
(* default factor.  Servers whose answer did not come in time are left     *)
(* out, so that need may be too low and a key may be missing.              *)
\* All statistics are read from the memory tier.
collect_internal_stats(a) ==
    /\ InTier("MEMORY") = {} => a = [k \in Key |-> "none"]
    /\ access' = a

\* A tier without nodes needs none, and nothing is needed that nobody reports.
compute_summary_stats(n) ==
    /\ \A t \in Tier : InTier(t) = {} => n[t] = 0
    /\ InTier("MEMORY") = {} => \A t \in Tier : n[t] <= 0
    /\ need' = n

collect_external_stats == avg_latency' = user_latency'

collect_stats(n, a) ==
    /\ pc = "loop" /\ pc' = "storage"
    /\ user_latency' = "none" /\ miss_ratio' = {}
    /\ collect_internal_stats(a) /\ compute_summary_stats(n) /\ collect_external_stats
    /\ key_replication_map' = [k \in Key |->
         IF a[k] # "none" /\ key_replication_map[k] = NoFactor THEN default ELSE key_replication_map[k]]
    /\ UNCHANGED <<conf, ring, new_count, removing, graced, time_elapsed, servers, asked, owed>>

add_node(t, number) ==
    /\ new_count' = [new_count EXCEPT ![t] = number]
    /\ owed' = [owed EXCEPT ![t] = @ + number]

remove_node(n) ==
    /\ asked' = asked \cup {n}
    /\ removing' = [removing EXCEPT ![TierOf[n]] = TRUE]

(* change_replication_factor: a factor whose PUT timed out or was refused  *)
(* is restored.  The threads to tell are found by a walk for the larger of *)
(* the old and the new factor, which never ends in a tier with fewer nodes.*)
Changed(requests) == {k \in DOMAIN requests : requests[k] # key_replication_map[k]}
Hangs(requests, failed) ==
    \E k \in DOMAIN requests \ failed, t \in Tier :
        InTier(t) # {} /\ (requests[k][t] > node_count(t) \/ key_replication_map[k][t] > node_count(t))

change_replication_factor(requests, failed) ==
    key_replication_map' = [k \in Key |->
        IF k \in Changed(requests) \ failed THEN requests[k] ELSE key_replication_map[k]]

-----------------------------------------------------------------------------
(* storage_policy: more nodes of either tier are ordered, or a disk node   *)
(* is sent away.  Each part reads the clock; late says what it finds.      *)
orders(t, late) ==
    /\ Enabled("elasticity") /\ (t = "DISK" => Enabled("tiering"))
    /\ new_count[t] = 0 /\ need[t] > 0 /\ late[t]

storage_policy(late, low) ==
    /\ pc = "storage" /\ pc' = "promote"
    /\ graced => late["MEMORY"]
    /\ late["MEMORY"] => late["DISK"]
    /\ graced' \in {g \in BOOLEAN : late["DISK"] => g}
    /\ new_count' = [t \in Tier |-> IF orders(t, late) THEN kNodeAdditionBatchSize ELSE new_count[t]]
    /\ owed' = [t \in Tier |-> IF orders(t, late) THEN owed[t] + kNodeAdditionBatchSize ELSE owed[t]]
    /\ IF /\ Enabled("elasticity") /\ Enabled("tiering") /\ low /\ ~ removing["DISK"]
          /\ need["DISK"] < 0 /\ node_count("DISK") > kMinTierSize["DISK"] /\ graced'
         THEN \E n \in InTier("DISK") : remove_node(n) ELSE UNCHANGED <<asked, removing>>
    /\ UNCHANGED <<conf, ring, key_replication_map, feedback, stats, servers>>

(* movement_policy: keys whose size is known move to tier t as long as     *)
(* they fit, and otherwise more nodes are ordered.                         *)
Room(t) == {r \in [Key -> {"unknown", "overflow", "fits"}] :
               InTier(t) = {} => \A k \in Key : r[k] = "fits" => k \in Empty}

Move(t, requests, overflow, late, next) ==
    \E failed \in SUBSET Changed(requests), number \in 0..kNodeAdditionBatchSize :
        LET hangs == Hangs(requests, failed)
        IN  /\ change_replication_factor(requests, failed)
            /\ pc' = IF hangs THEN "hung" ELSE next
            /\ IF ~ hangs /\ Enabled("elasticity") /\ overflow /\ new_count[t] = 0 /\ late /\ number > 0
                 THEN add_node(t, number) ELSE number = 0 /\ UNCHANGED <<new_count, owed>>
            /\ UNCHANGED <<conf, ring, removing, graced, feedback, need, access, avg_latency, servers, asked>>

\* Mutation of promote: keys that are in memory already move as well
promote_Again(room) ==
    LET hot == {k \in Key : access[k] \in {"little", "much"} /\ room[k] # "unknown"}
        new(k) == LET r == key_replication_map[k]
                  IN  create_new_replication_vector(r.MEMORY + 1, Minus(r.DISK, 1), r.lMEMORY, r.lDISK)
        moves == IF Enabled("tiering") THEN hot ELSE {}
    IN  /\ pc = "promote" /\ time_elapsed' = (graced /\ Enabled("tiering"))
        /\ Move("MEMORY", [k \in {h \in moves : room[h] = "fits"} |-> new(k)],
                \E k \in moves : room[k] = "overflow", graced, "demote")

promote(room) ==
    LET hot == {k \in Key : access[k] \in {"little", "much"} /\ key_replication_map[k].MEMORY = 0 /\ room[k] # "unknown"}
        new(k) == LET r == key_replication_map[k]
                  IN  create_new_replication_vector(r.MEMORY + 1, Minus(r.DISK, 1), r.lMEMORY, r.lDISK)
        moves == IF Enabled("tiering") THEN hot ELSE {}
    IN  /\ pc = "promote" /\ time_elapsed' = (graced /\ Enabled("tiering"))
        /\ Move("MEMORY", [k \in {h \in moves : room[h] = "fits"} |-> new(k)],
                \E k \in moves : room[k] = "overflow", graced, "demote")

demote(room) ==
    LET cold == {k \in Key : access[k] = "unused" /\ key_replication_map[k].MEMORY > 0 /\ room[k] # "unknown"}
        moves == IF Enabled("tiering") THEN cold ELSE {}
    IN  /\ pc = "demote" /\ time_elapsed' = FALSE
        /\ Move("DISK", [k \in {c \in moves : room[c] = "fits"} |->
                           create_new_replication_vector(0, kMinimumReplicaNumber, 1, 1)],
                \E k \in moves : room[k] = "overflow", time_elapsed, "dereplicate")

minimum_rep == create_new_replication_vector(1, Minus(kMinimumReplicaNumber, 1), 1, 1)
dereplicate ==
    LET keys == IF Enabled("selective-rep") THEN {k \in Key : access[k] \in {"unused", "little"}} ELSE {}
    IN  /\ pc = "dereplicate" /\ UNCHANGED time_elapsed
        /\ Move("MEMORY", [k \in {c \in keys : key_replication_map[c] # minimum_rep} |-> minimum_rep],
                FALSE, FALSE, "slo")

(* slo_policy: its first branch, for latencies above the SLO, which the    *)
(* statistics never show since the reports are cleared first ...           *)
HotRequests(hot, target) ==
    LET rep(k) == key_replication_map[k].MEMORY
        goal(k) == IF target[k] = rep(k) THEN rep(k) + 1 ELSE target[k]
        wider == {k \in hot : goal(k) > rep(k) /\ rep(k) < node_count("MEMORY")}
        local == {k \in hot \ wider : kMemoryThreadCount > key_replication_map[k].lMEMORY}
        new(k) == IF goal(k) < node_count("MEMORY") THEN goal(k) ELSE node_count("MEMORY")
    IN  [k \in wider \cup local |->
            IF k \in wider
              THEN [key_replication_map[k] EXCEPT !.MEMORY = new(k), !.DISK = Minus(kMinimumReplicaNumber, new(k))]
              ELSE [key_replication_map[k] EXCEPT !.lMEMORY = kMemoryThreadCount]]

slo_missed ==
    \E busy \in BOOLEAN, number \in 0..kNodeAdditionBatchSize,
       target \in [Key -> 0..node_count("MEMORY")], failed \in SUBSET Key :
        LET requests == HotRequests({k \in miss_ratio : access[k] = "much"}, target)
            replicates == ~ (Enabled("elasticity") /\ busy) /\ Enabled("selective-rep")
            hangs == replicates /\ Hangs(requests, failed)
        IN  /\ IF Enabled("elasticity") /\ busy /\ graced
                 THEN add_node("MEMORY", number) ELSE UNCHANGED <<new_count, owed>>
            /\ IF replicates THEN change_replication_factor(requests, failed)
                 ELSE UNCHANGED key_replication_map
            /\ pc' = IF hangs THEN "hung" ELSE "loop"
            /\ UNCHANGED <<asked, removing>>

(* ... and its second: keys held by all nodes of the memory tier lose a    *)
(* replica, and a node that is idle is sent away.                          *)
ShrinkRequests ==
    LET full == {k \in Key : access[k] # "none" /\ key_replication_map[k].MEMORY = node_count("MEMORY")}
        new == node_count("MEMORY") - 1
    IN  [k \in full |-> [key_replication_map[k] EXCEPT !.MEMORY = new, !.DISK = Minus(kMinimumReplicaNumber, new)]]

\* Mutation of MayShrink: a removal that is under way is not waited for
MayShrink_Again ==
    Enabled("elasticity") /\ need["MEMORY"] < 0 /\ node_count("MEMORY") > kMinTierSize["MEMORY"] /\ graced

MayShrink ==
    /\ Enabled("elasticity") /\ ~ removing["MEMORY"]
    /\ need["MEMORY"] < 0 /\ node_count("MEMORY") > kMinTierSize["MEMORY"] /\ graced

\* The node with the least occupancy, when that is low enough.
underutilized == InTier("MEMORY") \cup {NoNode}

slo_met ==
    \E idle \in underutilized :
        /\ UNCHANGED <<new_count, owed>>
        /\ IF MayShrink /\ idle # NoNode
             THEN \E failed \in SUBSET Changed(ShrinkRequests) :
                    /\ change_replication_factor(ShrinkRequests, failed)
                    /\ IF Hangs(ShrinkRequests, failed)
                         THEN pc' = "hung" /\ UNCHANGED <<asked, removing>>
                         ELSE pc' = "loop" /\ remove_node(idle)
             ELSE pc' = "loop" /\ UNCHANGED <<key_replication_map, asked, removing>>

slo_policy ==
    /\ pc = "slo"
    /\ IF avg_latency = "missed" /\ new_count["MEMORY"] = 0 THEN slo_missed ELSE slo_met
    /\ need' = [t \in Tier |-> 0] /\ access' = [k \in Key |-> "none"]   \* not read again
    /\ UNCHANGED <<conf, ring, graced, feedback, avg_latency, time_elapsed, servers>>

-----------------------------------------------------------------------------
(* Time passes, and servers send what they send.  The monitor hears        *)
(* nothing during an epoch, so that what a server sends then is as good as *)
(* sent after it.                                                          *)
Elapse ==
    /\ pc \notin {"hung", "ended"} /\ ~ graced /\ graced' = TRUE
    /\ UNCHANGED <<monitor, feedback, pc, stats, servers, asked, owed>>

\* The management node starts a server that was ordered.
Start(n) ==
    LET t == TierOf[n]
        starting == {m \in joins : m.ordered /\ TierOf[m.node] = t}
    IN  /\ pc = "loop" /\ state[n] = "off" /\ Cardinality(starting) < owed[t]
        /\ state' = [state EXCEPT ![n] = "up"]
        /\ joins' = joins \cup {[node |-> n, ordered |-> TRUE]}
        /\ UNCHANGED <<monitor, graced, feedback, pc, stats, departs, dones, asked, owed>>

\* A server leaves.  Its notices before and after it has handed over its keys
\* go to different sockets.
Depart(n) ==
    /\ pc = "loop" /\ n \in asked /\ state[n] = "up"
    /\ state' = [state EXCEPT ![n] = "gone"] /\ departs' = departs \cup {n} /\ dones' = dones \cup {n}
    /\ UNCHANGED <<monitor, graced, feedback, pc, stats, joins, asked, owed>>

-----------------------------------------------------------------------------
Next ==
    \/ \E m \in joins : membership_join(m)
    \/ \E n \in departs : membership_depart(n)
    \/ \E n \in dones : depart_done_handler(n)
    \/ \E finish \in BOOLEAN, latency \in Latency, keys \in SUBSET Key : feedback_handler(finish, latency, keys)
    \/ \E n \in [Tier -> {-1, 0, 1}], a \in [Key -> {"none", "unused", "little", "much"}] : collect_stats(n, a)
    \/ \E late \in [Tier -> BOOLEAN], low \in BOOLEAN : storage_policy(late, low)
    \/ \E room \in Room("MEMORY") : promote(room)
    \/ \E room \in Room("DISK") : demote(room)
    \/ dereplicate
    \/ slo_policy
    \/ Elapse
    \/ \E n \in Node : Start(n) \/ Depart(n)

Spec == Init /\ [][Next]_vars

-----------------------------------------------------------------------------
(* The memory tier is never emptied: whatever is asked to leave, once a    *)
(* memory server has joined there is one the monitor knows that stays.     *)
(* slo_policy leaves kMinMemoryTierSize nodes and removes one at a time.   *)
TierSurvives == InTier("MEMORY") # {} => \E n \in InTier("MEMORY") : n \notin asked

(* The monitor does not wait for more servers than it ordered and has not  *)
(* heard of, so that what stops a second order is always a join to come    *)
(* (membership_handler lowers the count that add_node set).                *)
OrdersCounted == \A t \in Tier : new_count[t] <= owed[t]

(* With one replica of each key, as in the configurations in conf/, the    *)
(* monitor never stops in the walk of change_replication_factor: whatever  *)
(* joins and departs between the epochs, moves back and forth, fits and    *)
(* fails to be stored, no key gets a second replica in a tier, on which    *)
(* the walk of a tier with one node would never end.                       *)
NeverHangs ==
    kMinimumReplicaNumber = 1 /\ default.MEMORY + default.DISK = 1 => pc # "hung"
=============================================================================
