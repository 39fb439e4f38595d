---------------------------- MODULE KvsLookupProofs ----------------------------
(***************************************************************************)
(* Proofs about the replication factors the storage threads cache and ask  *)
(* for: a thread knows the factor of whatever it stores, and no request or *)
(* gossip waits for a lookup that is not under way.                        *)
(***************************************************************************)
EXTENDS KvsProofs

-----------------------------------------------------------------------------
(* The replication factor of whatever is stored is known.  A thread merges *)
(* a data key only after a lookup that succeeded, and never forgets a      *)
(* factor unless it loses its whole memory.                                *)

KnownAt(q, k) == stored[q][Data(k)] # {} \/ Data(k) \in local_changeset[q] => factor[q][k] # NoFactor

LEMMA KnownFactors == NoFactor \notin Known
  BY KvsAssumption DEF Known

LEMMA StoredShape == KInd => stored \in [Server -> [AllKey -> SUBSET Update]]
  BY DEF KInd, ThreadOK, Value

LEMMA DataKeys == \A k \in Key : Data(k) \in AllKey
  BY DEF Data, AllKey

LEMMA KnownByRequest ==
    ASSUME KInd, StoredFactorKnown, NEW p \in Server, NEW m \in requests, UserRequest(p, m),
           NEW q \in Server, NEW k \in Key
    PROVE  KnownAt(q, k)'
  <1>0. KnownAt(q, k) /\ factor' = factor
    BY Zenon DEF StoredFactorKnown, KnownAt, UserRequest, AnswerGet, ApplyPut, RefuseMeta, MakePending, thread
  <1>1. CASE UNCHANGED <<stored, local_changeset>>
    BY <1>0, <1>1, Zenon DEF KnownAt
  <1>2. CASE ~ UNCHANGED <<stored, local_changeset>>
    <2>1. /\ Responsible(ring[p], factor[p], m.key, p, SelfTier(p))
          /\ stored' = [stored EXCEPT ![p][m.key] = @ \cup m.load]
          /\ local_changeset' = [local_changeset EXCEPT ![p] = @ \cup {m.key}]
      BY <1>2, Zenon DEF UserRequest, AnswerGet, ApplyPut, RefuseMeta, MakePending, thread
    <2>2. q # p \/ Data(k) # m.key => KnownAt(q, k)'
      <3>1. q # p \/ Data(k) # m.key => stored'[q][Data(k)] = stored[q][Data(k)]
        BY <2>1, StoredShape, DataKeys
      <3>2. q # p \/ Data(k) # m.key => (Data(k) \in local_changeset'[q] <=> Data(k) \in local_changeset[q])
        BY <2>1, Zenon DEF KInd, ThreadOK
      <3>q. QED BY <1>0, <3>1, <3>2, Zenon DEF KnownAt
    <2>3. Data(k) = m.key => factor[p][k] # NoFactor
      BY <2>1 DEF Responsible, Unknown, Data
    <2>q. QED BY <1>0, <2>2, <2>3, Zenon DEF KnownAt
  <1>q. QED BY <1>1, <1>2

LEMMA KnownByGossip ==
    ASSUME KInd, StoredFactorKnown, NEW p \in Server, NEW m \in gossips, GossipHandler(p, m),
           NEW q \in Server, NEW k \in Key
    PROVE  KnownAt(q, k)'
  <1> DEFINE own == {K \in {J \in AllKey : m.data[J] # {}} : Responsible(ring[p], factor[p], K, p, SelfTier(p))}
             new == [K \in AllKey |-> IF K \in own THEN MergeAll(stored[p][K], <<m.data[K]>>) ELSE stored[p][K]]
  <1>0. KnownAt(q, k) /\ factor' = factor /\ local_changeset' = local_changeset /\ Data(k) \in AllKey
    BY Zenon DEF StoredFactorKnown, KnownAt, GossipHandler, Data, AllKey
  <1>1. stored' = [stored EXCEPT ![p] = new]
    BY Zenon DEF GossipHandler
  <1>2. Data(k) \in own => factor[p][k] # NoFactor
    BY Zenon DEF Responsible, Unknown, Data
  <1>3. Data(k) \notin own => new[Data(k)] = stored[p][Data(k)]
    BY <1>0, Zenon
  <1> HIDE DEF own, new
  <1>4. CASE q = p
    BY <1>0, <1>1, <1>2, <1>3, <1>4, Zenon DEF KnownAt, KInd, ThreadOK
  <1>5. CASE q # p
    BY <1>0, <1>1, <1>5, Zenon DEF KnownAt, KInd, ThreadOK
  <1>q. QED BY <1>4, <1>5

LEMMA KnownByResponse ==
    ASSUME KInd, StoredFactorKnown, NEW p \in Server, NEW m \in responses, ReplicationResponse(p, m),
           NEW q \in Server, NEW k \in Key
    PROVE  KnownAt(q, k)'
  <1>0. KnownAt(q, k) /\ m.key \in Key /\ (k # m.key => Data(k) # Data(m.key))
    BY Zenon DEF StoredFactorKnown, KnownAt, KInd, ResponsesOK, Data
  <1>1. CASE Retry(p, m)
    BY <1>0, <1>1, Zenon DEF Retry, thread, KnownAt
  <1>2. CASE Resume(p, m)
    <2>1. factor' = [factor EXCEPT ![p][m.key] = NewFactor(m)] /\ m.error # "WRONG_THREAD"
      BY <1>2, Zenon DEF Resume
    <2>2. NewFactor(m) # NoFactor
      BY <2>1, FactorFound, KnownFactors DEF KInd
    <2>3. \/ stored' = stored
          \/ \E v : stored' = [stored EXCEPT ![p][Data(m.key)] = v]
      BY <1>2, Zenon DEF Resume
    <2>4. \/ local_changeset' = local_changeset
          \/ local_changeset' = [local_changeset EXCEPT ![p] = @ \cup {Data(m.key)}]
      BY <1>2, Zenon DEF Resume
    <2>5. q = p /\ k = m.key => factor'[q][k] # NoFactor
      BY <1>0, <2>1, <2>2, SMTT(30) DEF KInd, ThreadOK
    <2>6. q # p \/ k # m.key => factor'[q][k] = factor[q][k]
      BY <1>0, <2>1 DEF KInd, ThreadOK
    <2>7. q # p \/ k # m.key => stored'[q][Data(k)] = stored[q][Data(k)]
      BY <1>0, <2>3, StoredShape, DataKeys, SMTT(30)
    <2>8. q # p \/ k # m.key => (Data(k) \in local_changeset'[q] <=> Data(k) \in local_changeset[q])
      BY <1>0, <2>4 DEF KInd, ThreadOK
    <2>q. QED BY <1>0, <2>5, <2>6, <2>7, <2>8, Zenon DEF KnownAt
  <1>q. QED BY <1>1, <1>2 DEF ReplicationResponse

LEMMA KnownByChange ==
    ASSUME KInd, StoredFactorKnown, NEW p \in Server, NEW m \in changes, ReplicationChange(p, m),
           NEW q \in Server, NEW k \in Key
    PROVE  KnownAt(q, k)'
  <1> DEFINE j == ChangeKey[m.change]
  <1>0. KnownAt(q, k) /\ (k # j => Data(k) # Data(j))
    BY Zenon DEF StoredFactorKnown, KnownAt, Data
  <1>1. j \in Key /\ ChangeFactor[m.change] # NoFactor
    BY PassOnTyped, KnownFactors, KvsAssumption DEF KInd, Known
  <1>2. factor' = [factor EXCEPT ![p] = [factor[p] EXCEPT ![j] = ChangeFactor[m.change]]]
    BY Zenon DEF ReplicationChange
  <1>3. stored' = stored \/ stored' = [stored EXCEPT ![p][Data(j)] = {}]
    BY Zenon DEF ReplicationChange
  <1>4. \/ local_changeset' = local_changeset
        \/ local_changeset' = [local_changeset EXCEPT ![p] = @ \ {Data(j)}]
    BY Zenon DEF ReplicationChange
  <1>5. factor'[q][k] # NoFactor \/ factor'[q][k] = factor[q][k]
    BY <1>1, <1>2, Zenon DEF KInd, ThreadOK
  <1>6. stored'[q][Data(k)] # {} => stored[q][Data(k)] # {}
    BY <1>1, <1>3, StoredShape, DataKeys
  <1>7. Data(k) \in local_changeset'[q] => Data(k) \in local_changeset[q]
    BY <1>4, ZenonT(30) DEF KInd, ThreadOK
  <1>q. QED BY <1>0, <1>5, <1>6, <1>7, Zenon DEF KnownAt

\* The other steps store no data key, and only a crash forgets a factor.
LEMMA KnownByOther ==
    ASSUME KInd, StoredFactorKnown, NEW q \in Server, NEW k \in Key,
           factor'[q][k] = factor[q][k] \/ (stored'[q][Data(k)] = {} /\ local_changeset'[q] = {}),
           stored'[q][Data(k)] \in {stored[q][Data(k)], {}},
           local_changeset'[q] \in {local_changeset[q], {}}
    PROVE  KnownAt(q, k)'
  BY ZenonT(30) DEF StoredFactorKnown, KnownAt

LEMMA NextKnown == KInd /\ StoredFactorKnown /\ [KNext]_kvars => StoredFactorKnown'
  <1> SUFFICES ASSUME KInd, StoredFactorKnown, [KNext]_kvars, NEW q \in Server, NEW k \in Key
               PROVE KnownAt(q, k)'
    BY Zenon DEF StoredFactorKnown, KnownAt
  <1>0. Data(k) \in AllKey
    BY DEF Data, AllKey
  <1>1. CASE UNCHANGED thread
    BY <1>1, KnownByOther, Zenon DEF thread
  <1>2. ASSUME NEW p \in Server, Redistribute(p) PROVE KnownAt(q, k)'
    <2> DEFINE new == [K \in AllKey |-> IF K \in join_remove_set[p] THEN {} ELSE stored[p][K]]
    <2>1. factor' = factor /\ local_changeset' = local_changeset
      BY <1>2 DEF Redistribute
    <2>2. stored' = stored \/ stored' = [stored EXCEPT ![p] = new]
      BY <1>2, Zenon DEF Redistribute
    <2>3. new[Data(k)] \in {stored[p][Data(k)], {}}
      BY <1>0, Zenon
    <2> HIDE DEF new
    <2>4. stored'[q][Data(k)] \in {stored[q][Data(k)], {}}
      BY <2>2, <2>3, Zenon DEF KInd, ThreadOK
    <2>q. QED BY <2>1, <2>4, KnownByOther, ZenonT(30)
  <1>3. ASSUME NEW p \in Server, PeriodicGossip(p) PROVE KnownAt(q, k)'
    <2>1. /\ factor' = factor /\ stored' = stored
          /\ local_changeset' = [local_changeset EXCEPT ![p] = {}]
      BY <1>3, Zenon DEF PeriodicGossip
    <2>2. local_changeset'[q] \in {local_changeset[q], {}}
      BY <2>1 DEF KInd, ThreadOK
    <2>q. QED BY <2>1, <2>2, KnownByOther, Zenon
  <1>4. ASSUME NEW n, ServerCrash(n) PROVE KnownAt(q, k)'
    <2>1. \/ /\ factor'[q] = factor[q] /\ stored'[q] = stored[q]
             /\ local_changeset'[q] = local_changeset[q]
          \/ stored'[q] = [K \in AllKey |-> {}] /\ local_changeset'[q] = {}
      BY <1>4, ZenonT(30) DEF ServerCrash
    <2>q. QED BY <1>0, <2>1, KnownByOther, Zenon
  <1>5. ASSUME NEW p \in Server, Serve(p) PROVE KnownAt(q, k)'
    <2>1. ASSUME NEW m, ServerJoin(p, m) \/ ServerDepart(p, m) \/ ServerSelfDepart(p, m) \/ StuckInChange(p, m)
          PROVE UNCHANGED thread
      BY <2>1, Zenon DEF ServerJoin, ServerDepart, ServerSelfDepart, StuckInChange
    <2>2. Stuck(p) => UNCHANGED thread
      BY DEF Stuck
    <2>q. QED BY SMTT(30), <1>1, <1>2, <1>3, <1>5, <2>1, <2>2, KnownByRequest, KnownByGossip, KnownByResponse,
                KnownByChange DEF Serve
  <1>6. ASSUME NEW p, NEW m, NEW n, Start(p) \/ Bystander(p, m) \/ Shrink(p, n) \/ ServerExit(n)
        PROVE UNCHANGED thread
    BY <1>6 DEF Start, Bystander, Shrink, ServerExit, Aside
  <1>7. ASSUME NEW o, NEW p, NEW c,
               ClientSend(o, p) \/ MonitorStore(p, c) \/ MonitorTell(p, c) \/ MonitorTimeout(p, c)
        PROVE UNCHANGED thread
    BY <1>7, Zenon DEF ClientSend, MonitorStore, MonitorTell, MonitorTimeout
  <1>8. UNCHANGED kvars => UNCHANGED thread
    BY DEF kvars
  <1>q. QED BY <1>1, <1>4, <1>5, <1>6, <1>7, <1>8, SMTT(30) DEF KNext

(* "Missing key replication factor in node join routine. This should never *)
(* happen." and the other routines' like it: they never do, whatever the   *)
(* interleaving of requests, gossip, factor changes, joins, departures and *)
(* crashes.                                                                *)
THEOREM FactorAlwaysKnown == KSpec => []StoredFactorKnown
  <1>1. KInit => StoredFactorKnown
    BY DEF KInit, StoredFactorKnown, Data, AllKey
  <1>q. QED BY <1>1, NextKnown, KInductive, PTL DEF KSpec

-----------------------------------------------------------------------------
(* No lost wake-up.  Whatever is made to wait comes with a question; a     *)
(* thread answers a question about metadata, if only to refuse it; and the *)
(* asker repeats a refused question or stops waiting.                      *)

UnderWay(q, k) ==
    Waits(q, k) => \/ \E m \in requests : m.from = q /\ m.key = Meta(k)
                   \/ \E m \in responses : m.to = q /\ m.key = k

\* Steps that make nothing wait and take no question and no answer away.
LEMMA UnderWayKept ==
    ASSUME NEW q, NEW k, UnderWay(q, k),
           pending_requests' = pending_requests, pending_gossip' = pending_gossip,
           requests \subseteq requests', responses \subseteq responses'
    PROVE  UnderWay(q, k)'
  BY Zenon DEF UnderWay, Waits

LEMMA UnderWayByRequest ==
    ASSUME KInd, NEW p \in Server, NEW m \in requests, UserRequest(p, m),
           NEW q \in Server, NEW k \in Key, UnderWay(q, k)
    PROVE  UnderWay(q, k)'
  <1>1. m \in Request /\ Asked(m) /\ m.key \in AllKey /\ m.key.key \in Key
    BY SMTT(30) DEF KInd, RequestsOK, Request, AllKey
  <1>2. Meta(k).key = k /\ Meta(k).meta
    BY DEF Meta
  <1>3. CASE AnswerGet(p, m) \/ ApplyPut(p, m) \/ RefuseMeta(p, m)
    <2>1. /\ pending_requests' = pending_requests /\ pending_gossip' = pending_gossip
          /\ requests' = requests \ {m}
      BY <1>3, SMTT(30) DEF AnswerGet, ApplyPut, RefuseMeta, thread
    <2>2. PICK error, load : Reply(m, error, load)
      BY <1>3 DEF AnswerGet, ApplyPut, RefuseMeta
    <2>3. responses \subseteq responses'
      BY <2>2, Zenon DEF Reply
    <2>4. CASE m.from = q /\ m.key = Meta(k)
      <3>1. [to |-> q, key |-> k, error |-> error, load |-> load] \in responses'
        BY <1>2, <2>2, <2>4, ZenonT(30) DEF Reply
      <3>2. \E r \in responses' : r.to = q /\ r.key = k
        BY <3>1
      <3>q. QED BY <3>2, Zenon DEF UnderWay
    <2>5. CASE ~ (m.from = q /\ m.key = Meta(k))
      BY <2>1, <2>3, <2>5, ZenonT(30) DEF UnderWay, Waits
    <2>q. QED BY <2>4, <2>5, SMTT(30)
  <1>4. CASE ~ m.key.meta /\ MakePending(p, m)
    <2>1. PICK asks \in Asks(p, ring[p], {m.key.key}) : requests' = (requests \ {m}) \cup asks
      BY <1>4, SMTT(30) DEF MakePending
    <2>2. /\ responses' = responses /\ pending_gossip' = pending_gossip
          /\ pending_requests' = [pending_requests EXCEPT ![p][m.key.key] = Append(@, m)]
      BY <1>4, SMTT(30) DEF MakePending
    <2>3. CASE q = p /\ k = m.key.key
      <3>1. {m.key.key} \subseteq Key /\ m.key.key \in {m.key.key}
        BY <2>3, SMTT(30)
      <3>2. \E r \in asks : r.from = p /\ r.key = Meta(m.key.key)
        BY ONLY <2>1, <3>1, AskedAbout, p \in Server, SMTT(30)
      <3>q. QED BY <2>1, <2>3, <3>2, ZenonT(30) DEF UnderWay
    <2>4. CASE ~ (q = p /\ k = m.key.key)
      <3>1. pending_requests'[q][k] = pending_requests[q][k]
        BY <2>2, <2>4, SMTT(30) DEF KInd, ThreadOK
      <3>2. Meta(k) # m.key
        BY <1>2, <1>4, SMTT(30)
      <3>q. QED BY <2>1, <2>2, <3>1, <3>2, ZenonT(30) DEF UnderWay, Waits
    <2>q. QED BY <2>3, <2>4, SMTT(30)
  <1>q. QED BY <1>3, <1>4, Zenon DEF UserRequest

LEMMA UnderWayByGossip ==
    ASSUME KInd, NEW p \in Server, NEW m \in gossips, GossipHandler(p, m),
           NEW q \in Server, NEW k \in Key, UnderWay(q, k)
    PROVE  UnderWay(q, k)'
  <1> DEFINE Ks == {K \in AllKey : m.data[K] # {}}
             own == {K \in Ks : Responsible(ring[p], factor[p], K, p, SelfTier(p))}
             kept == {K.key : K \in {J \in Ks \ own : ~ J.meta}}
             new == [j \in Key |-> IF j \in kept THEN Append(pending_gossip[p][j], m.data[Data(j)])
                                   ELSE pending_gossip[p][j]]
  <1>1. kept \subseteq Key
    BY DEF AllKey
  <1>2. PICK asks \in Asks(p, ring[p], kept) : requests' = requests \cup asks
    BY Zenon DEF GossipHandler
  <1>3. /\ responses' = responses /\ pending_requests' = pending_requests
        /\ pending_gossip' = [pending_gossip EXCEPT ![p] = new]
    BY ZenonT(30) DEF GossipHandler
  <1> HIDE DEF kept
  <1>4. CASE q = p /\ k \in kept
    <2>0. k \in kept
      BY <1>4, Zenon
    <2>1. \E r \in asks : r.from = p /\ r.key = Meta(k)
      BY ONLY <1>1, <1>2, <2>0, AskedAbout, p \in Server, SMTT(30)
    <2>q. QED BY <1>2, <1>4, <2>1, ZenonT(30) DEF UnderWay
  <1>5. CASE ~ (q = p /\ k \in kept)
    <2>1. pending_gossip'[q][k] = pending_gossip[q][k]
      BY <1>3, <1>5, SMTT(30) DEF KInd, ThreadOK
    <2>q. QED BY <1>2, <1>3, <2>1, Zenon DEF UnderWay, Waits
  <1>q. QED BY <1>4, <1>5, SMTT(30)

LEMMA UnderWayByResponse ==
    ASSUME KInd, NEW p \in Server, NEW m \in responses, ReplicationResponse(p, m),
           NEW q \in Server, NEW k \in Key, UnderWay(q, k)
    PROVE  UnderWay(q, k)'
  <1>1. m.key \in Key /\ m.to = p /\ responses' = responses \ {m}
    BY SMTT(30) DEF ReplicationResponse, KInd, ResponsesOK
  <1>2. CASE q = p /\ k = m.key /\ Retry(p, m)
    <2>1. PICK asks \in Asks(p, ring[p], {m.key}) : requests' = requests \cup asks
      BY <1>2, SMTT(30) DEF Retry
    <2>2. \E r \in asks : r.from = p /\ r.key = Meta(m.key)
      BY ONLY <1>1, <2>1, AskedOne, p \in Server, SMTT(30)
    <2>q. QED BY <1>2, <2>1, <2>2, ZenonT(30) DEF UnderWay
  <1>3. CASE q = p /\ k = m.key /\ Resume(p, m)
    <2>1. /\ pending_requests' = [pending_requests EXCEPT ![p][m.key] = <<>>]
          /\ pending_gossip' = [pending_gossip EXCEPT ![p][m.key] = <<>>]
      BY <1>3, Zenon DEF Resume
    <2>2. pending_requests'[q][k] = <<>> /\ pending_gossip'[q][k] = <<>>
      BY <1>3, <2>1, SMTT(30) DEF KInd, ThreadOK
    <2>q. QED BY <2>2, Zenon DEF UnderWay, Waits
  <1>4. CASE ~ (q = p /\ k = m.key)
    <2>1. /\ requests \subseteq requests'
          /\ \/ pending_requests' = pending_requests /\ pending_gossip' = pending_gossip
             \/ /\ pending_requests' = [pending_requests EXCEPT ![p][m.key] = <<>>]
                /\ pending_gossip' = [pending_gossip EXCEPT ![p][m.key] = <<>>]
      BY Zenon DEF ReplicationResponse, Retry, Resume, thread
    <2>2. pending_requests'[q][k] = pending_requests[q][k] /\ pending_gossip'[q][k] = pending_gossip[q][k]
      <3>1. /\ pending_requests \in [Server -> [Key -> Seq(Request)]]
            /\ pending_gossip \in [Server -> [Key -> Seq(SUBSET Update)]]
        BY DEF KInd, ThreadOK
      <3>2. pending_requests'[q][k] = pending_requests[q][k]
        BY <1>4, <2>1, <3>1, SMTT(30)
      <3>3. pending_gossip'[q][k] = pending_gossip[q][k]
        BY <1>4, <2>1, <3>1, SMTT(30)
      <3>q. QED BY <3>2, <3>3, Zenon
    <2>q. QED BY <1>1, <1>4, <2>1, <2>2, SMTT(30) DEF UnderWay, Waits
  <1>q. QED BY <1>2, <1>3, <1>4, SMTT(30) DEF ReplicationResponse

LEMMA NextUnderWay == KInd /\ LookupUnderWay /\ [KNext]_kvars => LookupUnderWay'
  <1> SUFFICES ASSUME KInd, LookupUnderWay, [KNext]_kvars, MayCrash = {}, NEW q \in Server, NEW k \in Key
               PROVE UnderWay(q, k)'
    BY Zenon DEF LookupUnderWay, UnderWay
  <1>0. UnderWay(q, k)
    BY Zenon DEF LookupUnderWay, UnderWay
  <1> DEFINE Keeps == /\ pending_requests' = pending_requests /\ pending_gossip' = pending_gossip
                      /\ requests \subseteq requests' /\ responses \subseteq responses'
  <1>1. CASE Keeps
    BY <1>0, <1>1, UnderWayKept, SMTT(30)
  <1>2. ASSUME NEW p \in Server, Serve(p) PROVE UnderWay(q, k)'
    <2>1. ASSUME NEW m, ServerJoin(p, m) \/ ServerDepart(p, m) \/ ServerSelfDepart(p, m) PROVE Keeps
      BY <2>1, Zenon DEF ServerJoin, ServerDepart, ServerSelfDepart, thread, sockets
    <2>2. ASSUME NEW m, ReplicationChange(p, m) \/ StuckInChange(p, m) PROVE Keeps
      BY <2>2, Zenon DEF ReplicationChange, StuckInChange, thread
    <2>3. PeriodicGossip(p) \/ Redistribute(p) \/ Stuck(p) => Keeps
      BY Zenon DEF PeriodicGossip, Redistribute, Stuck, thread, sockets
    <2> HIDE DEF Keeps
    <2>q. QED BY SMTT(30), <1>0, <1>1, <1>2, <2>1, <2>2, <2>3, UnderWayByRequest, UnderWayByGossip,
                UnderWayByResponse DEF Serve
  <1>3. ASSUME NEW p, NEW m, NEW n, Start(p) \/ Bystander(p, m) \/ Shrink(p, n) \/ ServerExit(n)
        PROVE Keeps
    BY <1>3, Zenon DEF Start, Bystander, Shrink, ServerExit, Aside, thread, sockets
  <1>4. ASSUME NEW o, NEW p, NEW c,
               ClientSend(o, p) \/ MonitorStore(p, c) \/ MonitorTell(p, c) \/ MonitorTimeout(p, c)
        PROVE Keeps
    BY <1>4, Zenon DEF ClientSend, MonitorStore, MonitorTell, MonitorTimeout, thread, sockets
  <1>5. UNCHANGED kvars => Keeps
    BY DEF kvars, thread, sockets
  <1>6. ASSUME NEW n, ServerCrash(n) PROVE FALSE
    BY <1>6, Zenon DEF ServerCrash, Crash
  <1> HIDE DEF Keeps
  <1>q. QED BY <1>1, <1>2, <1>3, <1>4, <1>5, <1>6, SMTT(30) DEF KNext

(* While no server crashes, requests and gossip never wait for a factor    *)
(* that nobody is being asked for (user_request_handler, gossip_handler,   *)
(* replication_response_handler), for any number of threads and changes.   *)
THEOREM NoLostWakeUp == KSpec => []LookupUnderWay
  <1>1. KInit => LookupUnderWay
    <2> SUFFICES ASSUME KInit, NEW p \in Server, NEW k \in Key PROVE ~ Waits(p, k)
      BY DEF LookupUnderWay
    <2>1. pending_requests[p][k] = <<>> /\ pending_gossip[p][k] = <<>>
      BY DEF KInit
    <2>q. QED BY <2>1, SMTT(30) DEF Waits
  <1>q. QED BY <1>1, NextUnderWay, KInductive, PTL DEF KSpec

-----------------------------------------------------------------------------
(* One answer per attempt.  OneAnswer is not inductive alone: a request    *)
(* that is both under way and pending, or pending twice, would be answered *)
(* twice.  The invariant adds that an operation is in at most one place, a *)
(* socket or a place in one queue, and only while an answer is owed.       *)

Answers == [error : Error, load : SUBSET Update]
AnswersOK == answers \in [Op -> Seq(Answers)]

Sent(o) == {m \in requests : m.from[1] = o}
Places(o) == {x \in Server \X Key \X Nat :
                x[3] \in DOMAIN pending_requests[x[1]][x[2]] /\ pending_requests[x[1]][x[2]][x[3]].from[1] = o}

OnePlace(o) ==
    /\ \A m, n \in Sent(o) : m = n
    /\ \A x, y \in Places(o) : x = y
    /\ Sent(o) = {} \/ Places(o) = {}

Somewhere(o) == Sent(o) # {} \/ Places(o) # {}

OneOwed(o) ==
    /\ OnePlace(o) /\ (Somewhere(o) => Len(answers[o]) < tries[o])
    /\ Len(answers[o]) <= tries[o]

IndAnswer == AnswersOK /\ \A o \in Op : OneOwed(o)

\* Threads and changes are no operations.
LEMMA NoOp == ASSUME NEW o \in Op PROVE (\A p \in Server : p[1] # o) /\ \A c \in Change : <<c, 0>>[1] # o
  BY ChangeAssumption DEF Server

\* What is where after something was appended.
LEMMA AppendedAt ==
    ASSUME NEW S, NEW s \in Seq(S), NEW e \in S, NEW i \in DOMAIN Append(s, e)
    PROVE  (i \in DOMAIN s /\ Append(s, e)[i] = s[i]) \/ (i = Len(s) + 1 /\ Append(s, e)[i] = e)
  OBVIOUS

\* Steps that put an operation nowhere new and answer none of its attempts.
LEMMA OwedKept ==
    ASSUME NEW o, OneOwed(o), answers'[o] = answers[o], tries'[o] = tries[o],
           Sent(o)' \subseteq Sent(o), Places(o)' \subseteq Places(o)
    PROVE  OneOwed(o)'
  <1>1. OnePlace(o)'
    BY DEF OneOwed, OnePlace
  <1>2. Somewhere(o)' => Somewhere(o)
    BY DEF Somewhere
  <1>q. QED BY <1>1, <1>2 DEF OneOwed

\* An attempt that is answered is nowhere any more.
LEMMA OwedAnswered ==
    ASSUME NEW o \in Op, AnswersOK, OneOwed(o), Somewhere(o), tries[o] \in Nat, tries' = tries,
           NEW a \in Answers, answers'[o] \in {answers[o], Append(answers[o], a)}, ~ Somewhere(o)'
    PROVE  OneOwed(o)'
  <1>1. OnePlace(o)'
    BY DEF OnePlace, Somewhere
  <1>2. Len(answers[o]) \in Nat /\ Len(answers[o]) < tries[o]
    BY DEF OneOwed, AnswersOK
  <1>3. Len(answers'[o]) <= Len(answers[o]) + 1
    BY <1>2 DEF AnswersOK
  <1>4. Len(answers'[o]) \in Nat
    BY DEF AnswersOK
  <1>5. Len(answers'[o]) <= tries'[o]
    BY <1>2, <1>3, <1>4
  <1>q. QED BY <1>1, <1>5 DEF OneOwed

\* A reply answers the one it is for.
LEMMA ReplyAnswers ==
    ASSUME AnswersOK, NEW m \in Request, NEW error \in Error, NEW load \in SUBSET Update, Reply(m, error, load)
    PROVE  /\ AnswersOK'
           /\ \A o \in Op : answers'[o] \in {answers[o], Append(answers[o], [error |-> error, load |-> load])}
           /\ \A o \in Op : m.from[1] # o => answers'[o] = answers[o]
  <1> DEFINE a == [error |-> error, load |-> load]
  <1>1. a \in Answers
    BY DEF Answers
  <1>2. \/ answers' = answers
        \/ m.from[1] \in Op /\ answers' = [answers EXCEPT ![m.from[1]] = Append(@, a)]
    BY DEF Reply
  <1> HIDE DEF a
  <1>3. AnswersOK'
    <2>1. \A s \in Seq(Answers) : Append(s, a) \in Seq(Answers)
      BY <1>1
    <2>q. QED BY <1>2, <2>1, Zenon DEF AnswersOK
  <1>4. \A o \in Op : answers'[o] \in {answers[o], Append(answers[o], a)}
    BY <1>2 DEF AnswersOK
  <1>5. \A o \in Op : m.from[1] # o => answers'[o] = answers[o]
    BY <1>2 DEF AnswersOK
  <1>q. QED BY <1>3, <1>4, <1>5 DEF a

LEMMA OwedByRequest ==
    ASSUME KInd, IndAnswer, NEW p \in Server, NEW m \in requests, UserRequest(p, m)
    PROVE  IndAnswer'
  <1>1. m \in Request /\ m.key \in AllKey /\ m.key.key \in Key /\ m.load \subseteq Update
    BY SMTT(30) DEF KInd, RequestsOK, Request, AllKey
  <1>2. tries' = tries
    BY DEF UserRequest
  <1>3. CASE AnswerGet(p, m) \/ ApplyPut(p, m) \/ RefuseMeta(p, m)
    <2>1. pending_requests' = pending_requests /\ requests' = requests \ {m}
      BY <1>3, SMTT(30) DEF AnswerGet, ApplyPut, RefuseMeta, thread
    <2>2. PICK error \in Error, load \in SUBSET Update : Reply(m, error, load)
      <3>1. stored[p][m.key] \in SUBSET Update
        BY <1>1 DEF KInd, ThreadOK, Value
      <3>2. {} \in SUBSET Update /\ "NO_ERROR" \in Error /\ "KEY_DNE" \in Error /\ "WRONG_THREAD" \in Error
        BY DEF Error
      <3>q. QED BY <1>3, <3>1, <3>2 DEF AnswerGet, ApplyPut, RefuseMeta
    <2>3. [error |-> error, load |-> load] \in Answers
      BY DEF Answers
    <2>4. AnswersOK'
      BY <1>1, <2>2, ReplyAnswers DEF IndAnswer
    <2>5. ASSUME NEW o \in Op PROVE OneOwed(o)'
      <3>0. OneOwed(o) /\ tries[o] \in Nat /\ AnswersOK
        BY DEF IndAnswer, KInd, TriesOK
      <3>1. Sent(o)' = Sent(o) \ {m} /\ Places(o)' = Places(o)
        BY <2>1, Zenon DEF Sent, Places
      <3>2. CASE m.from[1] = o
        <4>1. m \in Sent(o)
          BY <3>2 DEF Sent
        <4>2. Somewhere(o)
          BY <4>1 DEF Somewhere
        <4>3. ~ Somewhere(o)'
          BY <3>0, <3>1, <4>1 DEF Somewhere, OneOwed, OnePlace
        <4>4. answers'[o] \in {answers[o], Append(answers[o], [error |-> error, load |-> load])}
          BY <1>1, <2>2, <3>0, ReplyAnswers
        <4>q. QED BY <1>2, <2>3, <3>0, <4>2, <4>3, <4>4, OwedAnswered
      <3>3. CASE m.from[1] # o
        <4>1. answers'[o] = answers[o]
          BY <1>1, <2>2, <3>0, <3>3, ReplyAnswers
        <4>q. QED BY <1>2, <3>0, <3>1, <4>1, OwedKept
      <3>q. QED BY <3>2, <3>3
    <2>q. QED BY <2>4, <2>5 DEF IndAnswer
  <1>4. CASE MakePending(p, m)
    <2> DEFINE j == m.key.key
               q == pending_requests[p][j]
    <2>1. PICK asks \in Asks(p, ring[p], {j}) : requests' = (requests \ {m}) \cup asks
      BY <1>4 DEF MakePending
    <2>2. answers' = answers /\ pending_requests' = [pending_requests EXCEPT ![p][j] = Append(@, m)]
      BY <1>4 DEF MakePending, outside
    <2>3. \A a \in asks : a.from = p
      BY <1>1, <2>1, Questions
    <2>4. pending_requests \in [Server -> [Key -> Seq(Request)]] /\ q \in Seq(Request) /\ Len(q) \in Nat
      BY <1>1 DEF KInd, ThreadOK
    <2>5. \A r \in Server, k \in Key : pending_requests'[r][k] =
            IF r = p /\ k = j THEN Append(q, m) ELSE pending_requests[r][k]
      BY <1>1, <2>2, <2>4
    <2>6. \A i \in DOMAIN Append(q, m) :
            (i \in DOMAIN q /\ Append(q, m)[i] = q[i]) \/ (i = Len(q) + 1 /\ Append(q, m)[i] = m)
      <3> HIDE DEF q
      <3>q. QED BY <1>1, <2>4, AppendedAt
    <2>7. ASSUME NEW o \in Op PROVE OneOwed(o)'
      <3>0. OneOwed(o)
        BY DEF IndAnswer
      <3>1. Sent(o)' \subseteq Sent(o) \ {m}
        BY <2>1, <2>3, NoOp DEF Sent
      <3> DEFINE here == <<p, j, Len(q) + 1>>
      <3>2. \A x \in Places(o)' : x \in Places(o) \/ (x = here /\ m.from[1] = o)
        <4> SUFFICES ASSUME NEW x \in Places(o)' PROVE x \in Places(o) \/ (x = here /\ m.from[1] = o)
          OBVIOUS
        <4>1. PICK r \in Server, k \in Key, i \in Nat : x = <<r, k, i>>
          BY DEF Places
        <4>2. i \in DOMAIN pending_requests'[r][k] /\ pending_requests'[r][k][i].from[1] = o
          BY <4>1 DEF Places
        <4>3. CASE r = p /\ k = j
          <5>1. \/ i \in DOMAIN pending_requests[r][k] /\ pending_requests[r][k][i].from[1] = o
                \/ i = Len(q) + 1 /\ m.from[1] = o
            BY <2>5, <2>6, <4>2, <4>3, Zenon
          <5>q. QED BY <4>1, <4>3, <5>1 DEF Places
        <4>4. CASE ~ (r = p /\ k = j)
          <5>1. pending_requests'[r][k] = pending_requests[r][k]
            BY <2>5, <4>4, Zenon
          <5>q. QED BY <4>1, <4>2, <5>1 DEF Places
        <4>q. QED BY <4>3, <4>4
      <3> HIDE DEF here
      <3>3. CASE m.from[1] = o
        <4>1. m \in Sent(o)
          BY <3>3 DEF Sent
        <4>2. Sent(o)' = {} /\ Places(o) = {}
          BY <3>0, <3>1, <4>1 DEF OneOwed, OnePlace
        <4>3. OnePlace(o)'
          BY <3>2, <4>2 DEF OnePlace
        <4>4. Somewhere(o)
          BY <4>1 DEF Somewhere
        <4>q. QED BY <1>2, <2>2, <3>0, <4>3, <4>4 DEF OneOwed
      <3>4. CASE m.from[1] # o
        <4>1. Places(o)' \subseteq Places(o) /\ Sent(o)' \subseteq Sent(o)
          BY <3>1, <3>2, <3>4
        <4>q. QED BY <1>2, <2>2, <3>0, <4>1, OwedKept
      <3>q. QED BY <3>3, <3>4
    <2>q. QED BY <2>2, <2>7 DEF IndAnswer, AnswersOK
  <1>q. QED BY <1>3, <1>4, Zenon DEF UserRequest

LEMMA OwedByResponse ==
    ASSUME KInd, IndAnswer, NEW p \in Server, NEW m \in responses, Resume(p, m), tries' = tries
    PROVE  IndAnswer'
  <1> DEFINE k == m.key
             q == pending_requests[p][k]
             loads == [i \in DOMAIN q |-> q[i].load]
             threads == Threads(ring[p], factor'[p], Data(k), SelfTier(p))
             own == p \in threads
             value(i) == MergeAll(stored[p][Data(k)], SubSeq(loads, 1, i - 1))
             answer(i) == IF ~ own THEN [error |-> "WRONG_THREAD", load |-> {}]
                          ELSE IF q[i].type = "PUT" THEN [error |-> "NO_ERROR", load |-> {}]
                          ELSE [error |-> IF value(i) = {} THEN "KEY_DNE" ELSE "NO_ERROR", load |-> value(i)]
             waiting(o) == {i \in DOMAIN q : q[i].from[1] = o /\ o \notin NoReply}
  <1>1. k \in Key /\ Data(k) \in AllKey /\ q \in Seq(Request) /\ pending_requests \in [Server -> [Key -> Seq(Request)]]
    BY DataKeys DEF KInd, ResponsesOK, ThreadOK
  <1>2. /\ answers' = [o \in Op |-> IF waiting(o) = {} THEN answers[o]
                                    ELSE Append(answers[o], answer(CHOOSE i \in waiting(o) : TRUE))]
        /\ pending_requests' = [pending_requests EXCEPT ![p][k] = <<>>]
        /\ requests' = requests
    BY Zenon DEF Resume
  <1>3. \A i \in DOMAIN q : answer(i) \in Answers
    <2> SUFFICES ASSUME NEW i \in DOMAIN q PROVE answer(i) \in Answers
      OBVIOUS
    <2>1. \A h \in DOMAIN q : q[h].load \subseteq Update
      <3>1. \A r \in Request : r.load \subseteq Update
        BY DEF Request
      <3>q. QED BY <1>1, <3>1
    <2>2. loads \in Seq(SUBSET Update)
      <3>1. DOMAIN q = 1..Len(q) /\ Len(q) \in Nat
        BY <1>1
      <3>2. loads \in [1..Len(q) -> SUBSET Update]
        BY <2>1, <3>1, Zenon
      <3>q. QED BY <3>1, <3>2
    <2>3. i \in Nat /\ i >= 1 /\ i <= Len(loads)
      BY <1>1
    <2>4. SubSeq(loads, 1, i - 1) \in Seq(SUBSET Update)
      BY <2>2, <2>3
    <2>5. stored[p][Data(k)] \in SUBSET Update
      BY <1>1, StoredShape
    <2>6. value(i) \subseteq Update
      <3> HIDE DEF loads
      <3>1. \A h \in DOMAIN SubSeq(loads, 1, i - 1) : SubSeq(loads, 1, i - 1)[h] \subseteq Update
        BY <2>4
      <3>q. QED BY <2>5, <3>1, MergeTyped
    <2> HIDE DEF value, own
    <2>q. QED BY <2>6 DEF Answers, Error
  <1>4. \A o \in Op : waiting(o) # {} => \E i \in DOMAIN q : answers'[o] = Append(answers[o], answer(i)) /\ q[i].from[1] = o
    <2> SUFFICES ASSUME NEW o \in Op, waiting(o) # {}
                 PROVE \E i \in DOMAIN q : answers'[o] = Append(answers[o], answer(i)) /\ q[i].from[1] = o
      OBVIOUS
    <2>1. (CHOOSE i \in waiting(o) : TRUE) \in waiting(o)
      BY Zenon
    <2>2. answers'[o] = Append(answers[o], answer(CHOOSE i \in waiting(o) : TRUE))
      BY <1>2, Zenon
    <2> HIDE DEF answer
    <2>q. QED BY <2>1, <2>2, Zenon
  <1>5. \A o \in Op : waiting(o) = {} => answers'[o] = answers[o]
    BY <1>2, Zenon
  <1>6. \A F, G : F = [o \in Op |-> G[o]] /\ (\A o \in Op : F[o] \in Seq(Answers)) => F \in [Op -> Seq(Answers)]
    BY Zenon
  <1>7. answers' = [o \in Op |-> answers'[o]]
    BY <1>2
  <1> HIDE DEF answer
  <1>8. AnswersOK'
    <2>1. \A o \in Op : answers'[o] \in Seq(Answers)
      <3> SUFFICES ASSUME NEW o \in Op PROVE answers'[o] \in Seq(Answers)
        OBVIOUS
      <3>1. answers[o] \in Seq(Answers)
        BY DEF IndAnswer, AnswersOK
      <3>2. answers'[o] = answers[o] \/ \E a \in Answers : answers'[o] = Append(answers[o], a)
        BY <1>3, <1>4, <1>5, Zenon
      <3>q. QED BY <3>1, <3>2
    <2>q. QED BY <1>7, <2>1, Zenon DEF AnswersOK
  <1>9. \A r \in Server, j \in Key : pending_requests'[r][j] = IF r = p /\ j = k THEN <<>> ELSE pending_requests[r][j]
    BY <1>1, <1>2
  <1>10. ASSUME NEW o \in Op PROVE Sent(o)' = Sent(o) /\ \A x \in Places(o)' : x \in Places(o) /\ ~ (x[1] = p /\ x[2] = k)
    <2>1. Sent(o)' = Sent(o)
      BY <1>2 DEF Sent
    <2>2. ASSUME NEW x \in Places(o)' PROVE x \in Places(o) /\ ~ (x[1] = p /\ x[2] = k)
      <3>1. PICK r \in Server, j \in Key, i \in Nat : x = <<r, j, i>>
        BY DEF Places
      <3>2. i \in DOMAIN pending_requests'[r][j] /\ pending_requests'[r][j][i].from[1] = o
        BY <3>1 DEF Places
      <3>3. ~ (r = p /\ j = k)
        BY <1>9, <3>2
      <3>4. pending_requests'[r][j] = pending_requests[r][j]
        BY <1>9, <3>3, Zenon
      <3>q. QED BY <3>1, <3>2, <3>3, <3>4 DEF Places
    <2>q. QED BY <2>1, <2>2
  <1>11. ASSUME NEW o \in Op PROVE OneOwed(o)'
    <2>0. OneOwed(o) /\ tries[o] \in Nat /\ AnswersOK
      BY DEF IndAnswer, KInd, TriesOK
    <2>1. CASE waiting(o) # {}
      <3>1. PICK i \in DOMAIN q : answers'[o] = Append(answers[o], answer(i)) /\ q[i].from[1] = o
        BY <1>4, <2>1
      <3>2. <<p, k, i>> \in Places(o)
        BY <1>1, <3>1 DEF Places
      <3>3. Somewhere(o)
        BY <3>2 DEF Somewhere
      <3>4. Sent(o)' = {} /\ \A x \in Places(o) : x = <<p, k, i>>
        BY <1>10, <2>0, <3>2 DEF OneOwed, OnePlace
      <3>5. Places(o)' = {}
        <4> SUFFICES ASSUME NEW x \in Places(o)' PROVE FALSE
          OBVIOUS
        <4>1. x = <<p, k, i>> /\ ~ (x[1] = p /\ x[2] = k)
          BY <1>10, <3>4, Zenon
        <4>q. QED BY <4>1
      <3>6. ~ Somewhere(o)'
        BY <3>4, <3>5 DEF Somewhere
      <3>q. QED BY <1>3, <2>0, <3>1, <3>3, <3>6, OwedAnswered
    <2>2. CASE waiting(o) = {}
      <3>1. Places(o)' \subseteq Places(o) /\ Sent(o)' \subseteq Sent(o)
        BY <1>10
      <3>q. QED BY <1>5, <2>0, <2>2, <3>1, OwedKept
    <2>q. QED BY <2>1, <2>2
  <1>q. QED BY <1>8, <1>11 DEF IndAnswer

\* A client sends an operation again only when every attempt was answered.
LEMMA OwedBySend ==
    ASSUME KInd, IndAnswer, NEW c \in Op, NEW p \in Server, ClientSend(c, p)
    PROVE  IndAnswer'
  <1> DEFINE n == [to |-> p, type |-> IF OpType[c] = "GET" THEN "GET" ELSE "PUT", key |-> Data(OpKey[c]),
                   load |-> IF OpType[c] = "GET" THEN {} ELSE {c}, from |-> <<c, tries[c] + 1>>]
  <1>1. /\ requests' = requests \cup {n} /\ n.from = <<c, tries[c] + 1>>
        /\ tries' = [tries EXCEPT ![c] = @ + 1] /\ Len(answers[c]) = tries[c]
        /\ answers' = answers /\ pending_requests' = pending_requests
    BY DEF ClientSend, thread
  <1> HIDE DEF n
  <1>2. ASSUME NEW o \in Op PROVE OneOwed(o)'
    <2>0. OneOwed(o) /\ tries \in [Op -> 0..MaxTries] /\ tries[o] \in Nat
      BY DEF IndAnswer, KInd, TriesOK
    <2>1. Places(o)' = Places(o)
      BY <1>1 DEF Places
    <2>2. CASE o = c
      <3>1. ~ Somewhere(o) /\ tries'[o] = tries[o] + 1
        BY <1>1, <2>0, <2>2 DEF OneOwed
      <3>2. Sent(o)' \subseteq {n} /\ Places(o)' = {}
        BY <1>1, <2>1, <3>1 DEF Sent, Somewhere
      <3>3. OnePlace(o)'
        BY <3>2 DEF OnePlace
      <3>4. Len(answers'[o]) < tries'[o] /\ Len(answers'[o]) <= tries'[o]
        BY <1>1, <2>0, <2>2, <3>1
      <3>q. QED BY <3>3, <3>4 DEF OneOwed
    <2>3. CASE o # c
      <3>1. Sent(o)' \subseteq Sent(o) /\ tries'[o] = tries[o]
        BY <1>1, <2>0, <2>3 DEF Sent
      <3>q. QED BY <1>1, <2>0, <2>1, <3>1, OwedKept
    <2>q. QED BY <2>2, <2>3
  <1>q. QED BY <1>1, <1>2 DEF IndAnswer, AnswersOK

\* The other steps add only questions for factors and stored changes.
LEMMA OwedByOther ==
    ASSUME IndAnswer, answers' = answers, tries' = tries,
           \A n \in requests' : n \in requests \/ n.from \in Server \/ n.from \in Change \X {0},
           \A p \in Server, k \in Key : pending_requests'[p][k] \in {pending_requests[p][k], <<>>}
    PROVE  IndAnswer'
  <1>1. ASSUME NEW o \in Op PROVE OneOwed(o)'
    <2>1. Sent(o)' \subseteq Sent(o)
      <3>1. \A f \in Server \cup (Change \X {0}) : f[1] # o
        BY NoOp
      <3>q. QED BY <3>1 DEF Sent
    <2>2. Places(o)' \subseteq Places(o)
      <3> SUFFICES ASSUME NEW x \in Places(o)' PROVE x \in Places(o)
        OBVIOUS
      <3>1. PICK r \in Server, j \in Key, i \in Nat : x = <<r, j, i>>
        BY DEF Places
      <3>2. i \in DOMAIN pending_requests'[r][j] /\ pending_requests'[r][j][i].from[1] = o
        BY <3>1 DEF Places
      <3>3. pending_requests'[r][j] = pending_requests[r][j]
        BY <3>2
      <3>q. QED BY <3>1, <3>2, <3>3 DEF Places
    <2>q. QED BY <2>1, <2>2, OwedKept DEF IndAnswer
  <1>q. QED BY <1>1 DEF IndAnswer, AnswersOK

LEMMA NextOwed == KInd /\ IndAnswer /\ [KNext]_kvars => IndAnswer'
  <1> SUFFICES ASSUME KInd, IndAnswer, [KNext]_kvars PROVE IndAnswer'
    OBVIOUS
  <1> DEFINE NewRequests == \A n \in requests' : n \in requests \/ n.from \in Server \/ n.from \in Change \X {0}
             Same == answers' = answers /\ tries' = tries /\ pending_requests' = pending_requests
  <1>1. CASE Same /\ NewRequests
    BY <1>1, OwedByOther
  <1>2. ASSUME NEW p \in Server, NEW view, NEW ks, ks \subseteq Key,
               \E asks \in Asks(p, view, ks) : requests' = requests \cup asks
        PROVE  NewRequests
    <2>1. \A asks \in Asks(p, view, ks) : \A n \in asks : n.from = p
      BY <1>2, Questions
    <2>q. QED BY <1>2, <2>1
  <1>3. requests' = requests => NewRequests
    OBVIOUS
  <1> HIDE DEF NewRequests
  <1>4. ASSUME NEW p \in Server, Serve(p) PROVE IndAnswer'
    <2>1. ASSUME NEW m, ServerJoin(p, m) PROVE Same /\ NewRequests
      <3> DEFINE Ks == IF Inserts(ring[p], m.node, m.count) /\ TierOf[m.node] = TierOf[p[1]] THEN Stored(p) ELSE {}
                 asked == {K.key : K \in {J \in Ks : Unknown(factor[p], J)}}
      <3>1. \E asks \in Asks(p, ring'[p], asked) : requests' = requests \cup asks
        BY <2>1, Zenon DEF ServerJoin
      <3>2. asked \subseteq Key
        BY KeysOf DEF Stored
      <3> HIDE DEF asked
      <3>3. NewRequests
        BY <1>2, <3>1, <3>2
      <3>q. QED BY <2>1, <3>3 DEF ServerJoin, thread, outside
    <2>2. ASSUME NEW m, ServerSelfDepart(p, m) PROVE Same /\ NewRequests
      <3> DEFINE asked == {K.key : K \in {J \in Stored(p) : Unknown(factor[p], J)}}
      <3>1. \E asks \in Asks(p, ring'[p], asked) : requests' = requests \cup asks
        BY <2>2, Zenon DEF ServerSelfDepart
      <3>2. asked \subseteq Key
        BY KeysOf DEF Stored
      <3> HIDE DEF asked
      <3>3. NewRequests
        BY <1>2, <3>1, <3>2
      <3>q. QED BY <2>2, <3>3 DEF ServerSelfDepart, thread, outside
    <2>3. ASSUME NEW m, ServerDepart(p, m) PROVE Same /\ NewRequests
      BY <1>3, <2>3 DEF ServerDepart, thread, sockets, outside
    <2>4. ASSUME NEW m, GossipHandler(p, m) PROVE Same /\ NewRequests
      <3> DEFINE Ks == {K \in AllKey : m.data[K] # {}}
                 own == {K \in Ks : Responsible(ring[p], factor[p], K, p, SelfTier(p))}
                 kept == {K.key : K \in {J \in Ks \ own : ~ J.meta}}
      <3>1. \E asks \in Asks(p, ring[p], kept) : requests' = requests \cup asks
        BY <2>4, Zenon DEF GossipHandler
      <3>2. kept \subseteq Key
        BY KeysOf
      <3> HIDE DEF kept
      <3>3. NewRequests
        BY <1>2, <3>1, <3>2
      <3>q. QED BY <2>4, <3>3 DEF GossipHandler, outside
    <2>5. ASSUME NEW m \in responses, ReplicationResponse(p, m) PROVE IndAnswer'
      <3>1. tries' = tries /\ m.key \in Key
        BY <2>5 DEF ReplicationResponse, KInd, ResponsesOK
      <3>2. CASE Retry(p, m)
        <4>1. \E asks \in Asks(p, ring[p], {m.key}) : requests' = requests \cup asks
          BY <3>2 DEF Retry
        <4>2. NewRequests
          BY <1>2, <3>1, <4>1
        <4>q. QED BY <1>1, <3>1, <3>2, <4>2 DEF Retry, thread
      <3>3. CASE Resume(p, m)
        BY <3>1, <3>3, OwedByResponse
      <3>q. QED BY <2>5, <3>2, <3>3 DEF ReplicationResponse
    <2>6. ASSUME NEW m \in changes, ReplicationChange(p, m) PROVE Same /\ NewRequests
      <3> DEFINE k == ChangeKey[m.change]
                 here == stored[p][Data(k)] # {}
                 held == here /\ factor[p][k] # NoFactor
                 asked == IF here /\ ~ held THEN {k} ELSE {}
      <3>1. \E asks \in Asks(p, ring[p], asked) : requests' = requests \cup asks
        BY <2>6, Zenon DEF ReplicationChange
      <3>2. k \in Key
        BY PassOnTyped, KvsAssumption DEF KInd
      <3>3. asked \subseteq Key
        BY <3>2
      <3> HIDE DEF asked
      <3>4. NewRequests
        BY <1>2, <3>1, <3>3
      <3>q. QED BY <2>6, <3>4 DEF ReplicationChange, outside
    <2>7. ASSUME NEW m, StuckInChange(p, m) PROVE Same /\ NewRequests
      BY <1>3, <2>7, Zenon DEF StuckInChange, thread, outside
    <2>8. CASE PeriodicGossip(p)
      <3> DEFINE asked == {K.key : K \in {J \in local_changeset[p] : Unknown(factor[p], J)}}
      <3>1. \E asks \in Asks(p, ring[p], asked) : requests' = requests \cup asks
        BY <2>8, Zenon DEF PeriodicGossip
      <3>2. local_changeset[p] \subseteq AllKey
        BY DEF KInd, ThreadOK
      <3>3. asked \subseteq Key
        BY <3>2, KeysOf
      <3> HIDE DEF asked
      <3>4. NewRequests
        BY <1>2, <3>1, <3>3
      <3>q. QED BY <1>1, <2>8, <3>4 DEF PeriodicGossip, outside
    <2>9. CASE Redistribute(p) \/ Stuck(p)
      <3>1. Same /\ requests' = requests
        BY <2>9, Zenon DEF Redistribute, Stuck, thread, sockets, outside
      <3>q. QED BY <1>1, <1>3, <3>1
    <2> HIDE DEF Same
    <2>q. QED BY <1>1, <1>4, <2>1, <2>2, <2>3, <2>4, <2>5, <2>6, <2>7, <2>8, <2>9, OwedByRequest, SMTT(30) DEF Serve
  <1>5. ASSUME NEW p, NEW m, NEW n, Start(p) \/ Bystander(p, m) \/ Shrink(p, n) \/ ServerExit(n)
        PROVE Same /\ NewRequests
    <2>1. Aside
      BY <1>5, Zenon DEF Start, Bystander, Shrink, ServerExit
    <2>q. QED BY <1>3, <2>1 DEF Aside, thread, sockets, outside
  <1>6. ASSUME NEW n, ServerCrash(n) PROVE IndAnswer'
    <2>1. answers' = answers /\ tries' = tries /\ requests' \subseteq requests
      BY <1>6, Zenon DEF ServerCrash, outside
    <2>2. \A p \in Server, k \in Key : pending_requests'[p][k] \in {pending_requests[p][k], <<>>}
      <3>1. pending_requests' = [p \in Server |-> IF p[1] = n THEN [k \in Key |-> <<>>] ELSE pending_requests[p]]
        BY <1>6, Zenon DEF ServerCrash
      <3>q. QED BY <3>1
    <2>q. QED BY <2>1, <2>2, OwedByOther
  <1>7. ASSUME NEW p, NEW c \in Change, MonitorStore(p, c) \/ MonitorTell(p, c) \/ MonitorTimeout(p, c)
        PROVE Same /\ NewRequests
    <2>1. Same
      BY <1>7, Zenon DEF MonitorStore, MonitorTell, MonitorTimeout, thread
    <2>2. CASE MonitorTell(p, c) \/ MonitorTimeout(p, c)
      BY <1>3, <2>1, <2>2, Zenon DEF MonitorTell, MonitorTimeout, sockets
    <2>3. CASE MonitorStore(p, c)
      <3> DEFINE n(t) == [to |-> t, type |-> "PUT", key |-> Meta(ChangeKey[c]), load |-> {c}, from |-> <<c, 0>>]
      <3>1. requests' = requests \/ \E t : requests' = requests \cup {n(t)}
        BY <2>3, Zenon DEF MonitorStore
      <3>2. \A t : n(t).from = <<c, 0>> /\ <<c, 0>> \in Change \X {0}
        OBVIOUS
      <3> HIDE DEF n
      <3>q. QED BY <2>1, <3>1, <3>2 DEF NewRequests
    <2>q. QED BY <1>7, <2>2, <2>3
  <1>8. UNCHANGED kvars => Same /\ NewRequests
    BY <1>3 DEF kvars, thread, sockets, outside
  <1> HIDE DEF Same
  <1>q. QED BY <1>1, <1>4, <1>5, <1>6, <1>7, <1>8, OwedBySend, SMTT(30) DEF KNext

(* No client is answered more often than it asked, however long its        *)
(* request was kept, whichever threads looked up the factor, and whatever  *)
(* crashed in between (user_request_handler, replication_response_handler).*)
THEOREM OneAnswerEach == KSpec => []OneAnswer
  <1>1. KInit => IndAnswer
    <2> SUFFICES ASSUME KInit PROVE IndAnswer
      OBVIOUS
    <2>1. answers = [o \in Op |-> <<>>] /\ tries = [o \in Op |-> 0] /\ requests = {}
      BY DEF KInit
    <2>2. \A p \in Server, k \in Key : pending_requests[p][k] = <<>>
      BY DEF KInit
    <2>3. ASSUME NEW o \in Op PROVE OneOwed(o)
      <3>1. Sent(o) = {}
        BY <2>1 DEF Sent
      <3>2. Places(o) = {}
        BY <2>2 DEF Places
      <3>3. answers[o] = <<>> /\ tries[o] = 0
        BY <2>1
      <3>q. QED BY <3>1, <3>2, <3>3 DEF OneOwed, OnePlace, Somewhere
    <2>4. AnswersOK
      BY <2>1 DEF AnswersOK
    <2>q. QED BY <2>3, <2>4 DEF IndAnswer
  <1>2. IndAnswer => OneAnswer
    BY DEF IndAnswer, OneOwed, OneAnswer
  <1>q. QED BY <1>1, <1>2, NextOwed, KInductive, PTL DEF KSpec

================================================================================
