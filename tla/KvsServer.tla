------------------------------ MODULE KvsServer ------------------------------
(***************************************************************************)
(* The storage threads: what a server thread stores, how it answers        *)
(* requests, gossips updates to the other replicas, looks up replication   *)
(* factors, and hands keys over when nodes join, depart or a factor        *)
(* changes.  The module composes with Membership: a thread's reaction to a *)
(* membership message is the action of Membership together with what the   *)
(* handler does to the thread's data.                                      *)
(*                                                                         *)
(* Data is abstracted to what the properties tell apart.  The value stored *)
(* under a key is the set of the updates merged into it (every lattice of  *)
(* the store merges such sets; Store.tla studies the lattices), with the   *)
(* lattice type of its updates.  A replication factor is stored under      *)
(* the metadata key of its key as the set of the changes written to it,    *)
(* the latest winning.                                                     *)
(***************************************************************************)
EXTENDS Membership, Sequences

CONSTANTS
    Key,           \* data keys
    Op,            \* client operations
    OpKey,         \* [Op -> Key]
    OpType,        \* [Op -> LatticeType \cup {"GET"}]
    NoReply,       \* PUTs sent without a response address
    MaxTries,      \* bound: how often a client sends one operation
    Change,        \* replication factor changes, 1..n in the order they are made
    ChangeKey,     \* [Change -> Key]
    ChangeFactor,  \* [Change -> Factor]
    DefaultFactor, \* init_replication: the factor of a key that has none stored
    NoFactor,      \* no entry in key_replication_map
    LocalDefault,  \* kDefaultLocalReplication
    TierOf,        \* [Node -> Tier]
    Rank, LRank,   \* [AllKey -> [Node -> Nat]] and [AllKey -> [Tids -> Nat]]: the
                   \* order in which the walk from a key's hash meets the servers
    Threshold      \* DATA_REDISTRIBUTE_THRESHOLD

Tier == {"MEMORY", "DISK"}
AllKey == [meta : BOOLEAN, key : Key]
Data(k) == [meta |-> FALSE, key |-> k]
Meta(k) == [meta |-> TRUE, key |-> k]
LatticeType == {"LWW", "SET", "NONE"}
Factor == [global : [Tier -> Nat], local : [Tier -> Nat]]

ASSUME ChangeAssumption ==
    /\ Change \subseteq Nat /\ \E last \in Change \cup {0} : \A i \in Change : i <= last
    /\ Op \cap Node = {} /\ Op \cap Change = {} /\ Change \cap Node = {}

ASSUME KvsAssumption ==
    /\ OpKey \in [Op -> Key] /\ OpType \in [Op -> LatticeType \cup {"GET"}]
    /\ NoReply \subseteq {o \in Op : OpType[o] # "GET"}
    /\ ChangeKey \in [Change -> Key] /\ ChangeFactor \in [Change -> Factor]
    /\ DefaultFactor \in Factor /\ NoFactor \notin Factor /\ LocalDefault \in 1..(TMax + 1)
    /\ TierOf \in [Node -> Tier]
    /\ Rank \in [AllKey -> [Node -> Nat]] /\ LRank \in [AllKey -> [Tids -> Nat]]
    /\ MaxTries \in Nat /\ Threshold \in Nat \ {0}

VARIABLES
    stored,           \* stored_key_map and the serializers: [Server -> [AllKey -> SUBSET Update]]
    factor,           \* key_replication_map: [Server -> [Key -> Factor \cup {NoFactor}]]
    pending_requests, \* [Server -> [Key -> Seq(Request)]]
    pending_gossip,   \* [Server -> [Key -> Seq(SUBSET Update)]]
    local_changeset,  \* [Server -> SUBSET AllKey]
    join_gossip_map,  \* [Server -> [Server -> SUBSET AllKey]]
    join_remove_set,  \* [Server -> SUBSET AllKey]
    loop,             \* [Server -> 0..10]: the next socket of the current iteration of the
                      \* event loop; kept only while join_gossip_map is not empty
    dead,             \* threads stuck in an endless loop or of a process that was killed
    requests,         \* the key request sockets
    gossips,          \* the gossip sockets
    responses,        \* the replication response sockets
    changes,          \* the replication change sockets
    tries, answers,   \* the clients: attempts made and responses received
    chg               \* the monitor: the state of each change

thread == <<stored, factor, pending_requests, pending_gossip, local_changeset>>
joining == <<join_gossip_map, join_remove_set>>
sockets == <<requests, gossips, responses, changes>>
outside == <<tries, answers, chg>>
kvars == <<mvars, thread, joining, loop, dead, sockets, outside>>

Update == Op \cup Change
TypeOf(x) == IF x \in Op THEN OpType[x] ELSE "LWW"
Error == {"NO_ERROR", "KEY_DNE", "WRONG_THREAD"}

\* who is to be answered: a server thread asking for a factor, an attempt of a
\* client, or the monitor storing a change
Tag == Server \cup (Op \X (1..MaxTries)) \cup (Change \X {0})
Request == [to : Server, type : {"GET", "PUT"}, key : AllKey, load : SUBSET Update, from : Tag]

-----------------------------------------------------------------------------
(* Responsible threads (hash_ring.cpp).                                    *)

\* the first n members of S in the order of the walk
FirstOf(rank, S, n) == {x \in S : Cardinality({y \in S : rank[y] < rank[x]}) < n}

TierRing(view, t) == {n \in Members(view) : TierOf[n] = t}

Replicas(view, K, t, g, l) ==
    FirstOf(Rank[K], TierRing(view, t), g) \X FirstOf(LRank[K], Tids, l)

\* get_responsible_threads_metadata, kMetadataReplicationFactor = 1
MetaThreads(view, K) == Replicas(view, K, "MEMORY", 1, LocalDefault)

\* get_responsible_threads, when the factor f of the key is known
Threads(view, f, K, tiers) ==
    IF K.meta THEN MetaThreads(view, K)
    ELSE UNION {Replicas(view, K, t, f[K.key].global[t], f[K.key].local[t]) : t \in tiers}

Unknown(f, K) == ~ K.meta /\ f[K.key] = NoFactor

\* the walk never ends when the factor exceeds what the ring holds
Endless(view, f, K, tiers) ==
    ~ K.meta /\ f[K.key] # NoFactor /\ \E t \in tiers :
        LET n == Cardinality(TierRing(view, t))
        IN  n > 0 /\ (f[K.key].global[t] > n \/ (f[K.key].global[t] > 0 /\ f[K.key].local[t] > TMax + 1))

\* Mutation of Responsible: a failed lookup is taken for a success
Responsible_Unknown(view, f, K, p, tiers) == IF Unknown(f, K) THEN TRUE ELSE p \in Threads(view, f, K, tiers)

Responsible(view, f, K, p, tiers) == ~ Unknown(f, K) /\ p \in Threads(view, f, K, tiers)

SelfTier(p) == {TierOf[p[1]]}

\* issue_replication_factor_request for each key of ks, at any thread responsible
\* for the metadata; no choice at all means the remainder by zero
Asks(p, view, ks) ==
    {{[to |-> f[k], type |-> "GET", key |-> Meta(k), load |-> {}, from |-> p] : k \in ks} :
       f \in {g \in [ks -> Server] : \A k \in ks : g[k] \in MetaThreads(view, Meta(k))}}

\* the lookups of the keys Ks return: no endless walk, and where the factor is
\* not known there is a thread to ask
Returns(view, f, Ks, tiers) ==
    \A K \in Ks : ~ Endless(view, f, K, tiers) /\ (Unknown(f, K) => MetaThreads(view, Meta(K.key)) # {})

\* the threads stopped by lookups of p that do not return: p, or its whole process
Killed(p, view, f, Ks, tiers) ==
    IF Returns(view, f, Ks, tiers) THEN {}
    ELSE IF \E K \in Ks : Endless(view, f, K, tiers) THEN {p} ELSE {p[1]} \X Tids

-----------------------------------------------------------------------------
(* Stored values.                                                          *)

Stored(p) == {K \in AllKey : stored[p][K] # {}}

\* a PUT or a gossip is merged if its type is given and is that of the stored value
Accepts(value, x) == TypeOf(x) # "NONE" /\ \A y \in value : TypeOf(y) = TypeOf(x)

\* a sequence of updates merged in turn: the first acceptable one fixes the type
MergeAll(value, seq) ==
    LET good(i) == {x \in seq[i] : TypeOf(x) # "NONE"}
        kinds == IF value # {} THEN {TypeOf(x) : x \in value}
                 ELSE {TypeOf(x) : x \in UNION {good(i) : i \in {j \in DOMAIN seq :
                          good(j) # {} /\ \A h \in 1..(j - 1) : good(h) = {}}}}
    IN  value \cup {x \in UNION {good(i) : i \in DOMAIN seq} : TypeOf(x) \in kinds}

\* send_gossip: the stored values of the keys route[t], to every thread t
Send(p, route) ==
    {[to |-> t, data |-> [K \in AllKey |-> IF K \in route[t] THEN stored[p][K] ELSE {}]] :
       t \in {u \in Server : route[u] \cap Stored(p) # {}}}

\* Mutation of ToThreads: only the memory tier is looked at
ToThreads_Memory(view, f, Ks, tiers, none) ==
    [t \in Server |-> IF t \in none THEN {}
                      ELSE {K \in Ks : ~ Unknown(f, K) /\ t \in Threads(view, f, K, {"MEMORY"})}]

\* the keys Ks routed to all their responsible threads except those of none
ToThreads(view, f, Ks, tiers, none) ==
    [t \in Server |-> IF t \in none THEN {}
                      ELSE {K \in Ks : ~ Unknown(f, K) /\ t \in Threads(view, f, K, tiers)}]

-----------------------------------------------------------------------------
(* The event loop polls its sockets in a fixed order and handles at most   *)
(* one message of each per iteration; data is redistributed at its end.    *)
Idle(p) == [t \in Server |-> {}]
Polls(p, i) == p \notin dead /\ loop[p] <= i

\* Mutation of Advance: a socket is skipped
Advance_Skip(p, i) == loop' = [loop EXCEPT ![p] = IF join_gossip_map'[p] = Idle(p) THEN 0 ELSE i + 2]

Advance(p, i) == loop' = [loop EXCEPT ![p] = IF join_gossip_map'[p] = Idle(p) THEN 0 ELSE i + 1]

\* responses to clients, server threads and the monitor
Reply(m, error, load) ==
    /\ responses' = IF m.from \in Server
                      THEN responses \cup {[to |-> m.from, key |-> m.key.key, error |-> error, load |-> load]}
                      ELSE responses
    /\ answers' = IF m.from \in Op \X (1..MaxTries) /\ m.from[1] \notin NoReply
                    THEN [answers EXCEPT ![m.from[1]] = Append(@, [error |-> error, load |-> load])]
                    ELSE answers
    /\ chg' = IF m.from \in Change \X {0} /\ chg[m.from[1]] = "put"
                THEN [chg EXCEPT ![m.from[1]] = IF error = "WRONG_THREAD" THEN "failed" ELSE "stored"]
                ELSE chg

Active(p, i) == status[p] = "up" /\ Polls(p, i)

(* user_request_handler (socket 3).  A thread that is not responsible for  *)
(* a data key, or does not know, asks for the replication factor and keeps *)
(* the request.                                                            *)
AnswerGet(p, m) ==
    /\ Reply(m, IF stored[p][m.key] = {} THEN "KEY_DNE" ELSE "NO_ERROR", stored[p][m.key])
    /\ requests' = requests \ {m}
    /\ UNCHANGED <<thread, gossips, changes>>

ApplyPut(p, m) ==
    /\ Reply(m, "NO_ERROR", {})
    /\ requests' = requests \ {m}
    /\ IF \A x \in m.load : Accepts(stored[p][m.key], x)
         THEN /\ stored' = [stored EXCEPT ![p][m.key] = @ \cup m.load]
              /\ local_changeset' = [local_changeset EXCEPT ![p] = @ \cup {m.key}]
         ELSE UNCHANGED <<stored, local_changeset>>
    /\ UNCHANGED <<factor, pending_requests, pending_gossip, gossips, changes>>

RefuseMeta(p, m) ==
    /\ Reply(m, "WRONG_THREAD", {})
    /\ requests' = requests \ {m}
    /\ UNCHANGED <<thread, gossips, changes>>

\* Mutations of MakePending: the client is answered as well; the factor is not asked for
MakePending_Answer(p, m) ==
    /\ Reply(m, "WRONG_THREAD", {})
    /\ pending_requests' = [pending_requests EXCEPT ![p][m.key.key] = Append(@, m)]
    /\ \E asks \in Asks(p, ring[p], {m.key.key}) : requests' = (requests \ {m}) \cup asks
    /\ UNCHANGED <<stored, factor, pending_gossip, local_changeset, gossips, changes>>
MakePending_NoAsk(p, m) ==
    /\ pending_requests' = [pending_requests EXCEPT ![p][m.key.key] = Append(@, m)]
    /\ requests' = requests \ {m}
    /\ UNCHANGED <<stored, factor, pending_gossip, local_changeset, gossips, responses, changes, outside>>

MakePending(p, m) ==
    /\ pending_requests' = [pending_requests EXCEPT ![p][m.key.key] = Append(@, m)]
    /\ \E asks \in Asks(p, ring[p], {m.key.key}) : requests' = (requests \ {m}) \cup asks
    /\ UNCHANGED <<stored, factor, pending_gossip, local_changeset, gossips, responses, changes, outside>>

UserRequest(p, m) ==
    LET own == Responsible(ring[p], factor[p], m.key, p, SelfTier(p))
    IN  /\ Active(p, 3) /\ m \in requests /\ m.to = p
        /\ Returns(ring[p], factor[p], {m.key}, SelfTier(p))
        /\ \/ own /\ m.type = "GET" /\ AnswerGet(p, m)
           \/ own /\ m.type = "PUT" /\ ApplyPut(p, m)
           \/ ~ own /\ m.key.meta /\ RefuseMeta(p, m)
           \/ ~ own /\ ~ m.key.meta /\ MakePending(p, m)
        /\ UNCHANGED <<mvars, joining, dead, tries>>
        /\ Advance(p, 3)

(* gossip_handler (socket 4): merged if responsible, metadata passed on to *)
(* the threads that are, anything else kept until the factor is known.     *)
GossipHandler(p, m) ==
    LET Ks == {K \in AllKey : m.data[K] # {}}
        own == {K \in Ks : Responsible(ring[p], factor[p], K, p, SelfTier(p))}
        kept == {K.key : K \in {J \in Ks \ own : ~ J.meta}}
        passed(t) == {K \in Ks \ own : K.meta /\ t \in MetaThreads(ring[p], K)}
    IN  /\ Active(p, 4) /\ m \in gossips /\ m.to = p
        /\ Returns(ring[p], factor[p], Ks, SelfTier(p))
        /\ stored' = [stored EXCEPT ![p] =
              [K \in AllKey |-> IF K \in own THEN MergeAll(@[K], <<m.data[K]>>) ELSE @[K]]]
        /\ pending_gossip' = [pending_gossip EXCEPT ![p] =
              [k \in Key |-> IF k \in kept THEN Append(@[k], m.data[Data(k)]) ELSE @[k]]]
        /\ gossips' = (gossips \ {m}) \cup
              {[to |-> t, data |-> [K \in AllKey |-> IF K \in passed(t) THEN m.data[K] ELSE {}]] :
                 t \in {u \in Server : passed(u) # {}}}
        /\ \E asks \in Asks(p, ring[p], kept) : requests' = requests \cup asks
        /\ UNCHANGED <<mvars, factor, pending_requests, local_changeset, joining, dead,
                       responses, changes, outside>>
        /\ Advance(p, 4)

(* replication_response_handler (socket 5): the factor is set, then the    *)
(* requests and the gossip waiting for it are dealt with.                  *)
Waits(p, k) == pending_requests[p][k] # <<>> \/ pending_gossip[p][k] # <<>>
Latest(S) == CHOOSE c \in S : \A d \in S : d <= c
NewFactor(m) == IF m.error = "NO_ERROR" THEN ChangeFactor[Latest(m.load)] ELSE DefaultFactor

\* Mutation of Retry: the refused question is not asked again
Retry_Drop(p, m) == m.error = "WRONG_THREAD" /\ UNCHANGED <<thread, requests, gossips, answers>>

Retry(p, m) ==
    /\ m.error = "WRONG_THREAD"
    /\ \E asks \in Asks(p, ring[p], {m.key}) : requests' = requests \cup asks
    /\ UNCHANGED <<thread, gossips, answers>>

\* pending gossip of a key this thread is not responsible for
Forward(k, g, threads) ==
    {[to |-> t, data |-> [K \in AllKey |-> IF K = Data(k) THEN g[i] ELSE {}]] : t \in threads, i \in DOMAIN g}

Resume(p, m) ==
    LET k == m.key
        q == pending_requests[p][k]
        g == pending_gossip[p][k]
        loads == [i \in DOMAIN q |-> q[i].load]
        threads == Threads(ring[p], factor'[p], Data(k), SelfTier(p))
        own == p \in threads
        value(i) == MergeAll(stored[p][Data(k)], SubSeq(loads, 1, i - 1))
        answer(i) == IF ~ own THEN [error |-> "WRONG_THREAD", load |-> {}]
                     ELSE IF q[i].type = "PUT" THEN [error |-> "NO_ERROR", load |-> {}]
                     ELSE [error |-> IF value(i) = {} THEN "KEY_DNE" ELSE "NO_ERROR", load |-> value(i)]
        after == MergeAll(stored[p][Data(k)], loads)
        waiting(o) == {i \in DOMAIN q : q[i].from[1] = o /\ o \notin NoReply}
    IN  /\ m.error # "WRONG_THREAD"
        /\ factor' = [factor EXCEPT ![p][k] = NewFactor(m)]
        /\ Waits(p, k) => ~ Endless(ring[p], factor'[p], Data(k), SelfTier(p))
        /\ stored' = IF own THEN [stored EXCEPT ![p][Data(k)] = MergeAll(after, g)] ELSE stored
        /\ local_changeset' = IF own /\ \E i \in DOMAIN q : q[i].load # {} /\ q[i].load \subseteq after
                                THEN [local_changeset EXCEPT ![p] = @ \cup {Data(k)}]
                                ELSE local_changeset
        /\ answers' = [o \in Op |-> IF waiting(o) = {} THEN answers[o]
                                    ELSE Append(answers[o], answer(CHOOSE i \in waiting(o) : TRUE))]
        /\ pending_requests' = [pending_requests EXCEPT ![p][k] = <<>>]
        /\ pending_gossip' = [pending_gossip EXCEPT ![p][k] = <<>>]
        /\ gossips' = gossips \cup (IF own THEN {} ELSE Forward(k, g, threads))
        /\ UNCHANGED requests

ReplicationResponse(p, m) ==
    /\ Active(p, 5) /\ m \in responses /\ m.to = p
    /\ Retry(p, m) \/ Resume(p, m)
    /\ responses' = responses \ {m}
    /\ UNCHANGED <<mvars, joining, dead, changes, tries, chg>>
    /\ Advance(p, 5)

(* replication_change_handler (socket 6).  A thread that is no longer      *)
(* responsible sends the key to all that are and removes it; if nothing    *)
(* shrank, the first of the old threads sends it to the new ones.          *)
First(view, f, k) ==
    LET t == IF FirstOf(Rank[Data(k)], TierRing(view, "MEMORY"), f[k].global["MEMORY"]) # {}
               THEN "MEMORY" ELSE "DISK"
    IN  CHOOSE u \in Replicas(view, Data(k), t, 1, f[k].local[t]) : TRUE

PassOn(p, m) ==
    IF p[2] = 0 THEN {[to |-> t, change |-> m.change] : t \in Workers(p[1])} ELSE {}

Leaves(p, k, f) == p \notin Threads(ring[p], f, Data(k), Tier)

\* Mutation of Targets: a thread that gives the key up sends it to nobody
Targets_Grow(p, k, f) ==
    LET before == Threads(ring[p], factor[p], Data(k), Tier)
        after == Threads(ring[p], f, Data(k), Tier)
    IN  IF before # {} /\ First(ring[p], factor[p], k) = p THEN after \ before ELSE {}

Targets(p, k, f) ==
    LET before == Threads(ring[p], factor[p], Data(k), Tier)
        after == Threads(ring[p], f, Data(k), Tier)
        shrinks == \E t \in Tier : f[k].global[t] < factor[p][k].global[t] \/ f[k].local[t] < factor[p][k].local[t]
    IN  (IF Leaves(p, k, f) THEN after ELSE {})
        \cup (IF ~ shrinks /\ before # {} /\ First(ring[p], factor[p], k) = p THEN after \ before ELSE {})

ReplicationChange(p, m) ==
    LET k == ChangeKey[m.change]
        f == [factor[p] EXCEPT ![k] = ChangeFactor[m.change]]
        here == stored[p][Data(k)] # {}
        held == here /\ factor[p][k] # NoFactor
        leaves == held /\ Leaves(p, k, f)
        targets == IF held THEN Targets(p, k, f) ELSE {}
        asked == IF here /\ ~ held THEN {k} ELSE {}
    IN  /\ Active(p, 6) /\ m \in changes /\ m.to = p
        /\ held => Returns(ring[p], factor[p], {Data(k)}, Tier) /\ Returns(ring[p], f, {Data(k)}, Tier)
        /\ factor' = [factor EXCEPT ![p] = f]
        /\ gossips' = gossips \cup Send(p, [t \in Server |-> IF t \in targets THEN {Data(k)} ELSE {}])
        /\ stored' = IF leaves THEN [stored EXCEPT ![p][Data(k)] = {}] ELSE stored
        /\ local_changeset' = IF leaves THEN [local_changeset EXCEPT ![p] = @ \ {Data(k)}]
                              ELSE local_changeset
        /\ changes' = (changes \ {m}) \cup PassOn(p, m)
        /\ \E asks \in Asks(p, ring[p], asked) : requests' = requests \cup asks
        /\ UNCHANGED <<mvars, pending_requests, pending_gossip, joining, dead, responses, outside>>
        /\ Advance(p, 6)

(* The periodic gossip of the keys written since the last one.             *)
PeriodicGossip(p) ==
    LET Ks == local_changeset[p]
        asked == {K.key : K \in {J \in Ks : Unknown(factor[p], J)}}
    IN  /\ Active(p, 9) /\ Ks # {}
        /\ Returns(ring[p], factor[p], Ks, Tier)
        /\ gossips' = gossips \cup Send(p, ToThreads(ring[p], factor[p], Ks, Tier, {p}))
        /\ \E asks \in Asks(p, ring[p], asked) : requests' = requests \cup asks
        /\ local_changeset' = [local_changeset EXCEPT ![p] = {}]
        /\ UNCHANGED <<mvars, stored, factor, pending_requests, pending_gossip, joining, dead,
                       responses, changes, outside>>
        /\ Advance(p, 9)

(* Redistribution at the end of an iteration.  At most Threshold keys are  *)
(* sent to each address, but the keys sent are erased from a copy: an      *)
(* address leaves the map only if all its keys fit in one batch.  Once the *)
(* map is empty the keys of join_remove_set are removed; a key that is no  *)
(* longer stored has no serializer, and the process is killed.             *)
\* Mutation of Batch: a batch is one key short
Batch_OneShort(S) == IF Cardinality(S) < Threshold THEN S
                     ELSE CHOOSE B \in SUBSET S : Cardinality(B) = Threshold - 1

Batch(S) == IF Cardinality(S) <= Threshold THEN S
            ELSE CHOOSE B \in SUBSET S : Cardinality(B) = Threshold
Remaining(S) == IF Cardinality(S) <= Threshold THEN {} ELSE S

Redistribute(p) ==
    LET map == join_gossip_map[p]
        left == [t \in Server |-> Remaining(map[t])]
        finished == left = Idle(p)
    IN  /\ Active(p, 10) /\ map # Idle(p)
        /\ gossips' = gossips \cup Send(p, [t \in Server |-> Batch(map[t])])
        /\ join_gossip_map' = [join_gossip_map EXCEPT ![p] = left]
        /\ stored' = IF finished
                       THEN [stored EXCEPT ![p] = [K \in AllKey |->
                               IF K \in join_remove_set[p] THEN {} ELSE @[K]]]
                       ELSE stored
        /\ join_remove_set' = IF finished THEN [join_remove_set EXCEPT ![p] = {}] ELSE join_remove_set
        /\ dead' = IF finished /\ ~ join_remove_set[p] \subseteq Stored(p)
                     THEN dead \cup ({p[1]} \X Tids) ELSE dead
        /\ loop' = [loop EXCEPT ![p] = 0]
        /\ UNCHANGED <<mvars, factor, pending_requests, pending_gossip, local_changeset,
                       requests, responses, changes, outside>>

(* A handler whose lookup never returns: the walk around the ring is       *)
(* endless, or there is no thread to ask and the remainder by zero kills   *)
(* the process.  Thread 0 has passed a change on before it looks up.       *)
StoppedBy(p, f, Ks, tiers) == Killed(p, ring[p], f, Ks, tiers)

\* handlers that also ask when they know the factor but are not responsible
StoppedByAny(p, Ks) ==
    StoppedBy(p, factor[p], Ks, SelfTier(p)) \cup
    StoppedBy(p, [k \in Key |-> IF Responsible(ring[p], factor[p], Data(k), p, SelfTier(p))
                                  THEN factor[p][k] ELSE NoFactor], Ks, SelfTier(p))

StoppedByResponse(p, m) ==
    IF m.error = "WRONG_THREAD" THEN StoppedBy(p, [k \in Key |-> NoFactor], {Data(m.key)}, SelfTier(p))
    ELSE IF Waits(p, m.key)
      THEN StoppedBy(p, [factor[p] EXCEPT ![m.key] = NewFactor(m)], {Data(m.key)}, SelfTier(p))
    ELSE {}

StoppedByChange(p, m) ==
    LET K == Data(ChangeKey[m.change])
    IN  IF K \notin Stored(p) \/ factor[p][K.key] = NoFactor THEN {}
        ELSE StoppedBy(p, factor[p], {K}, Tier) \cup
             StoppedBy(p, [factor[p] EXCEPT ![K.key] = ChangeFactor[m.change]], {K}, Tier)

Stuck(p) ==
    \E stopped \in
         {StoppedByAny(p, {m.key}) : m \in {q \in requests : q.to = p /\ Polls(p, 3)}}
         \cup {StoppedByAny(p, {K \in AllKey : m.data[K] # {}}) : m \in {g \in gossips : g.to = p /\ Polls(p, 4)}}
         \cup {StoppedByResponse(p, m) : m \in {r \in responses : r.to = p /\ Polls(p, 5)}}
         \cup {StoppedBy(p, factor[p], local_changeset[p], Tier) : i \in {j \in {9} : Polls(p, j)}} :
       /\ status[p] = "up" /\ stopped # {}
       /\ dead' = dead \cup stopped
       /\ UNCHANGED <<mvars, thread, joining, loop, sockets, outside>>

StuckInChange(p, m) ==
    /\ Active(p, 6) /\ m \in changes /\ m.to = p
    /\ StoppedByChange(p, m) # {}
    /\ dead' = dead \cup StoppedByChange(p, m)
    /\ changes' = (changes \ {m}) \cup PassOn(p, m)
    /\ UNCHANGED <<mvars, thread, joining, loop, requests, gossips, responses, outside>>

-----------------------------------------------------------------------------
(* Membership changes, with what they do to the data.                      *)

(* node_join_handler: for a new node, the keys this thread loses are sent  *)
(* to all their threads and removed later; for a node that restarted, it   *)
(* is sent the keys it is responsible for.                                 *)
\* Mutation of JoinPlan: every key is given up
JoinPlan_All(p, m, Ks) ==
    /\ join_gossip_map' = [join_gossip_map EXCEPT ![p] = [t \in Server |->
          @[t] \cup {K \in Ks : t # p /\ Responsible(ring'[p], factor[p], K, t, SelfTier(p))}]]
    /\ join_remove_set' = [join_remove_set EXCEPT ![p] = @ \cup Ks]

JoinPlan(p, m, Ks) ==
    LET view == ring'[p]
        owners(K) == Threads(view, factor[p], K, SelfTier(p))
        lost == {K \in Ks : m.count = 0 /\ ~ Unknown(factor[p], K) /\ p \notin owners(K)}
        back(t) == {K \in Ks : m.count > 0 /\ t[1] = m.node /\ Responsible(view, factor[p], K, t, SelfTier(p))}
    IN  /\ join_gossip_map' = [join_gossip_map EXCEPT ![p] = [t \in Server |->
              @[t] \cup back(t) \cup {K \in lost : t \in owners(K)}]]
        /\ join_remove_set' = [join_remove_set EXCEPT ![p] = @ \cup lost]

ServerJoin(p, m) ==
    LET news == Inserts(ring[p], m.node, m.count) /\ TierOf[m.node] = TierOf[p[1]]
        Ks == IF news THEN Stored(p) ELSE {}
        asked == {K.key : K \in {J \in Ks : Unknown(factor[p], J)}}
    IN  /\ NodeJoin(p, m) /\ Polls(p, 0)
        /\ JoinPlan(p, m, Ks)
        /\ \E asks \in Asks(p, ring'[p], asked) : requests' = requests \cup asks
        /\ dead' = dead \cup Killed(p, ring'[p], factor[p], Ks, SelfTier(p))
        /\ UNCHANGED <<thread, gossips, responses, changes, outside>>
        /\ Advance(p, 0)

ServerDepart(p, m) ==
    /\ NodeDepart(p, m) /\ Polls(p, 1)
    /\ UNCHANGED <<thread, joining, dead, sockets, outside>>
    /\ Advance(p, 1)

(* self_depart_handler: every stored key to the threads now responsible.   *)
ServerSelfDepart(p, m) ==
    LET view == ring'[p]
        stalled == Killed(p, view, factor[p], Stored(p), Tier)
        asked == {K.key : K \in {J \in Stored(p) : Unknown(factor[p], J)}}
    IN  /\ SelfDepart(p, m) /\ Polls(p, 2)
        /\ (\E d \in mnet' : d.kind = "depart_done" /\ d.from = p) <=> stalled = {}
        /\ dead' = dead \cup stalled
        /\ gossips' = gossips \cup (IF stalled # {} THEN {}
                                    ELSE Send(p, ToThreads(view, factor[p], Stored(p), Tier, {})))
        /\ \E asks \in Asks(p, view, asked) : requests' = requests \cup asks
        /\ UNCHANGED <<thread, joining, loop, responses, changes, outside>>

(* A crash takes the threads' memory and any of the messages under way.    *)
ServerCrash(n) ==
    LET on(p) == p[1] = n
        sent(S) == {m \in S : on(m.to)}
    IN  /\ Crash(n) /\ TierOf[n] = "MEMORY"
        /\ stored' = [p \in Server |-> IF on(p) THEN [K \in AllKey |-> {}] ELSE stored[p]]
        /\ factor' = [p \in Server |-> IF on(p) THEN [k \in Key |-> NoFactor] ELSE factor[p]]
        /\ pending_requests' = [p \in Server |-> IF on(p) THEN [k \in Key |-> <<>>] ELSE pending_requests[p]]
        /\ pending_gossip' = [p \in Server |-> IF on(p) THEN [k \in Key |-> <<>>] ELSE pending_gossip[p]]
        /\ local_changeset' = [p \in Server |-> IF on(p) THEN {} ELSE local_changeset[p]]
        /\ join_gossip_map' = [p \in Server |-> IF on(p) THEN Idle(p) ELSE join_gossip_map[p]]
        /\ join_remove_set' = [p \in Server |-> IF on(p) THEN {} ELSE join_remove_set[p]]
        /\ loop' = [p \in Server |-> IF on(p) THEN 0 ELSE loop[p]]
        /\ \E lost \in SUBSET sent(requests) : requests' = requests \ lost
        /\ \E lost \in SUBSET sent(gossips) : gossips' = gossips \ lost
        /\ \E lost \in SUBSET sent(responses) : responses' = responses \ lost
        /\ \E lost \in SUBSET sent(changes) : changes' = changes \ lost
        /\ dead' = {p \in dead : ~ on(p)}
        /\ UNCHANGED outside

\* within change_replication_factor the monitor handles nothing else
Busy == \E c \in Change : chg[c] \in {"put", "stored"}

\* the factor of a key after the changes c of it with chg[c] in S
FactorAfter(k, S) ==
    LET done == {c \in Change : ChangeKey[c] = k /\ chg[c] \in S}
    IN  IF done = {} THEN DefaultFactor ELSE ChangeFactor[Latest(done)]

\* slo_policy removes a memory node only after it lowered, or tried to lower, the
\* factor of the keys replicated on all memory nodes
Dereplicated(p, n) ==
    TierOf[n] = "MEMORY" => \A k \in Key :
        FactorAfter(k, {"told", "failed"}).global["MEMORY"] < Cardinality(TierRing(ring[p], "MEMORY"))

(* Steps that touch no data.                                               *)
Aside == UNCHANGED <<thread, joining, loop, dead, sockets, outside>>

Start(p) == p \notin dead /\ (Seed(p) \/ Announce(p)) /\ Aside

Bystander(p, m) ==
    /\ \/ RouteJoin(p, m) \/ RouteDepart(p, m)
       \/ ~ Busy /\ (MonitorJoin(p, m) \/ MonitorDepart(p, m) \/ DepartDone(p, m))
    /\ Aside

Shrink(p, n) == ~ Busy /\ Dereplicated(p, n) /\ RemoveNode(p, n) /\ Aside

ServerExit(n) == <<n, 0>> \notin dead /\ ProcessExit(n) /\ Aside

-----------------------------------------------------------------------------
(* Clients send an operation to a thread they were once told of, and again *)
(* to another when the answer was WRONG_THREAD.                            *)
ClientSend(o, p) ==
    /\ tries[o] < MaxTries /\ status[p] = "up"
    /\ Len(answers[o]) = tries[o] /\ (tries[o] > 0 => answers[o][tries[o]].error = "WRONG_THREAD")
    /\ tries' = [tries EXCEPT ![o] = @ + 1]
    /\ requests' = requests \cup
         {[to |-> p, type |-> IF OpType[o] = "GET" THEN "GET" ELSE "PUT", key |-> Data(OpKey[o]),
           load |-> IF OpType[o] = "GET" THEN {} ELSE {o}, from |-> <<o, tries[o] + 1>>]}
    /\ UNCHANGED <<mvars, thread, joining, loop, dead, gossips, responses, changes, answers, chg>>

(* change_replication_factor of the monitor: the new factor is stored      *)
(* synchronously (not at all when it is the factor already, or without a   *)
(* memory node), then the servers responsible before or after are told.    *)
MonitorStore(p, c) ==
    LET owners == IF ChangeFactor[c] = FactorAfter(ChangeKey[c], {"told"}) THEN {}
                  ELSE MetaThreads(ring[p], Meta(ChangeKey[c]))
    IN  /\ p \in MonitorThread /\ status[p] = "up" /\ chg[c] = "idle"
        /\ \A d \in Change : d < c => chg[d] \in {"told", "failed"}
        /\ \/ \E t \in owners :
                /\ requests' = requests \cup {[to |-> t, type |-> "PUT", key |-> Meta(ChangeKey[c]),
                                               load |-> {c}, from |-> <<c, 0>>]}
                /\ chg' = [chg EXCEPT ![c] = "put"]
           \/ owners = {} /\ chg' = [chg EXCEPT ![c] = "stored"] /\ UNCHANGED requests
        /\ UNCHANGED <<mvars, thread, joining, loop, dead, gossips, responses, changes, tries, answers>>

\* a walk for more nodes than a tier has is endless here too: nobody is told
MonitorTell(p, c) ==
    LET old == FactorAfter(ChangeKey[c], {"told"})
        most(t) == IF old.global[t] > ChangeFactor[c].global[t]
                     THEN old.global[t] ELSE ChangeFactor[c].global[t]
        told == UNION {FirstOf(Rank[Data(ChangeKey[c])], TierRing(ring[p], t), most(t)) : t \in Tier}
    IN  /\ p \in MonitorThread /\ status[p] = "up" /\ chg[c] = "stored"
        /\ \A t \in Tier : TierRing(ring[p], t) = {} \/ most(t) <= Cardinality(TierRing(ring[p], t))
        /\ changes' = changes \cup {[to |-> t, change |-> c] : t \in Front(told)}
        /\ chg' = [chg EXCEPT ![c] = "told"]
        /\ UNCHANGED <<mvars, thread, joining, loop, dead, requests, gossips, responses, tries, answers>>

(* The PUT timed out: the monitor keeps the old factor; the PUT may still  *)
(* be applied.                                                             *)
MonitorTimeout(p, c) ==
    /\ p \in MonitorThread /\ status[p] = "up" /\ chg[c] = "put"
    /\ chg' = [chg EXCEPT ![c] = "failed"]
    /\ UNCHANGED <<mvars, thread, joining, loop, dead, sockets, tries, answers>>

-----------------------------------------------------------------------------
KInit ==
    /\ Init
    /\ stored = [p \in Server |-> [K \in AllKey |-> {}]]
    /\ factor = [p \in Server |-> [k \in Key |-> NoFactor]]
    /\ pending_requests = [p \in Server |-> [k \in Key |-> <<>>]]
    /\ pending_gossip = [p \in Server |-> [k \in Key |-> <<>>]]
    /\ local_changeset = [p \in Server |-> {}]
    /\ join_gossip_map = [p \in Server |-> Idle(p)]
    /\ join_remove_set = [p \in Server |-> {}]
    /\ loop = [p \in Server |-> 0]
    /\ dead = {}
    /\ requests = {} /\ gossips = {} /\ responses = {} /\ changes = {}
    /\ tries = [o \in Op |-> 0] /\ answers = [o \in Op |-> <<>>]
    /\ chg = [c \in Change |-> "idle"]

Serve(p) ==
    \/ \E m \in mnet : ServerJoin(p, m) \/ ServerDepart(p, m) \/ ServerSelfDepart(p, m)
    \/ \E m \in requests : UserRequest(p, m)
    \/ \E m \in gossips : GossipHandler(p, m)
    \/ \E m \in responses : ReplicationResponse(p, m)
    \/ \E m \in changes : ReplicationChange(p, m) \/ StuckInChange(p, m)
    \/ PeriodicGossip(p) \/ Redistribute(p) \/ Stuck(p)

KNext ==
    \/ \E p \in Server : Serve(p)
    \/ \E p \in Server : Start(p)
    \/ \E p \in RouterThread \cup MonitorThread : \E m \in mnet : Bystander(p, m)
    \/ \E p \in MonitorThread, n \in Node : Shrink(p, n)
    \/ \E n \in Node : ServerExit(n) \/ ServerCrash(n)
    \/ \E o \in Op, p \in Server : ClientSend(o, p)
    \/ \E p \in MonitorThread, c \in Change :
          MonitorStore(p, c) \/ MonitorTell(p, c) \/ MonitorTimeout(p, c)

KSpec == KInit /\ [][KNext]_kvars

(* Every thread keeps running its event loop, which polls every socket in  *)
(* each iteration, and every process its startup code.                     *)
KFairness ==
    /\ \A p \in Server :
         /\ WF_kvars(\E m \in mnet : ServerJoin(p, m))
         /\ WF_kvars(\E m \in mnet : ServerDepart(p, m))
         /\ WF_kvars(\E m \in mnet : ServerSelfDepart(p, m))
         /\ WF_kvars(\E m \in requests : UserRequest(p, m))
         /\ WF_kvars(\E m \in gossips : GossipHandler(p, m))
         /\ WF_kvars(\E m \in responses : ReplicationResponse(p, m))
         /\ WF_kvars(\E m \in changes : ReplicationChange(p, m))
         /\ WF_kvars(PeriodicGossip(p))
         /\ WF_kvars(Redistribute(p))
         /\ WF_kvars(Start(p))
    /\ \A p \in RouterThread \cup MonitorThread : WF_kvars(\E m \in mnet : Bystander(p, m))
    /\ \A p \in MonitorThread, c \in Change : WF_kvars(MonitorTell(p, c))
KFairSpec == KSpec /\ KFairness

-----------------------------------------------------------------------------
(* Properties.                                                             *)

KTypeOK ==
    /\ stored \in [Server -> [AllKey -> SUBSET Update]]
    /\ factor \in [Server -> [Key -> {DefaultFactor, NoFactor} \cup {ChangeFactor[c] : c \in Change}]]
    /\ \A p \in Server, k \in Key :
         /\ \A i \in DOMAIN pending_requests[p][k] :
              pending_requests[p][k][i] \in Request /\ pending_requests[p][k][i].key = Data(k)
         /\ \A i \in DOMAIN pending_gossip[p][k] : pending_gossip[p][k][i] \subseteq Update
    /\ local_changeset \in [Server -> SUBSET AllKey]
    /\ join_gossip_map \in [Server -> [Server -> SUBSET AllKey]]
    /\ join_remove_set \in [Server -> SUBSET AllKey]
    /\ loop \in [Server -> 0..10] /\ dead \subseteq Server
    /\ requests \subseteq Request
    /\ gossips \subseteq [to : Server, data : [AllKey -> SUBSET Update]]
    /\ responses \subseteq [to : Server, key : Key, error : Error, load : SUBSET Update]
    /\ changes \subseteq [to : Server, change : Change]
    /\ tries \in [Op -> 0..MaxTries]
    /\ chg \in [Change -> {"idle", "put", "stored", "failed", "told"}]

(* A thread knows the replication factor of every data key it stores or    *)
(* has to gossip, so "Missing key replication factor in node join          *)
(* routine. This should never happen." (and its like in the gossip, the    *)
(* depart and the replication change routine) is never logged, and no key  *)
(* is skipped by a hand-over.                                              *)
StoredFactorKnown ==
    \A p \in Server, k \in Key :
        stored[p][Data(k)] # {} \/ Data(k) \in local_changeset[p] => factor[p][k] # NoFactor

(* No lost wake-up: while requests or gossip wait for a replication        *)
(* factor, a lookup of that factor is under way, either the question or    *)
(* the answer, whatever threads refuse the question in the meantime.       *)
LookupUnderWay ==
    MayCrash = {} => \A p \in Server, k \in Key : Waits(p, k) =>
        \/ \E m \in requests : m.from = p /\ m.key = Meta(k)
        \/ \E m \in responses : m.to = p /\ m.key = k

(* An attempt of a client is answered at most once, however often it is    *)
(* made pending or its factor is answered: the client matches answers to   *)
(* requests and reports "received more than one response" otherwise.       *)
OneAnswer == \A o \in Op : Len(answers[o]) <= tries[o]

Acked(o) == \E i \in DOMAIN answers[o] : answers[o][i].error = "NO_ERROR" /\ OpType[o] # "GET"
Up(p) == p \in Proc \ dead /\ status[p] = "up"   \* and still takes messages

(* While nodes only join, factors only change and no thread has stopped in *)
(* an endless walk or at a null serializer, an acknowledged PUT is held by *)
(* some thread, or by gossip on its way to one, at every moment of a       *)
(* hand-over.                                                              *)
AckedDurable ==
    dead = {} => \A o \in Op : Acked(o) =>
        \/ \E p \in Server : Up(p) /\ o \in stored[p][Data(OpKey[o])]
        \/ \E g \in gossips : status[g.to] # "gone" /\ o \in g.data[Data(OpKey[o])]
        \/ \E p \in Server : Up(p) /\ \E i \in DOMAIN pending_gossip[p][OpKey[o]] :
               o \in pending_gossip[p][OpKey[o]][i]

Quiet ==
    /\ \A m \in mnet \cup requests \cup gossips \cup responses \cup changes : ~ Up(m.to)
    /\ \A p \in Server : status[p] # "seeded" /\ (Up(p) =>
         /\ \A k \in Key : ~ Waits(p, k)
         /\ local_changeset[p] = {} /\ join_gossip_map[p] = Idle(p))
    /\ ~ Busy

Owners(p, k) == UNION {Replicas(ring[p], Data(k), t, FactorAfter(k, {"told"}).global[t],
                                FactorAfter(k, {"told"}).local[t]) : t \in Tier}

(* Eventual consistency: once everything sent has been handled, every      *)
(* acknowledged PUT is at every thread responsible for its key.            *)
Converged ==
    Quiet => \A o \in Op, p \in Server :
        Acked(o) /\ Up(p) /\ p \in Owners(p, OpKey[o]) => o \in stored[p][Data(OpKey[o])]

(* A thread gives up a value only if it is not responsible for the key:    *)
(* "I am no longer responsible for the key".                               *)
DropStep(p, K) ==
    Up(p) /\ status'[p] = "up" /\ ~ stored[p][K] \subseteq stored'[p][K]
        => ~ Responsible(ring'[p], factor'[p], K, p, Tier)
DropsOnlyUnowned == [][\A p \in Server, K \in AllKey : DropStep(p, K)]_kvars

(* The whole exchange dies out: requests are answered, factors found,      *)
(* gossip merged and not passed around for ever.                           *)
Quiesces == <>[]Quiet

(* Every operation sent with a response address is eventually answered.    *)
Answered == \A o \in Op \ NoReply : tries[o] > Len(answers[o]) ~> tries[o] = Len(answers[o])

(* "remove the keys we just dealt with": the redistribution after a join   *)
(* comes to an end, batch after batch.                                     *)
Drains == \A p \in Server : join_gossip_map[p] # Idle(p) ~> join_gossip_map[p] = Idle(p)

=============================================================================
