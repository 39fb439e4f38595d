------------------------------ MODULE KvsProofs ------------------------------
(***************************************************************************)
(* Proofs about KvsServer: what is proved of Membership holds of the whole *)
(* system, since every step of the storage threads is a step of it, and no *)
(* value has a wrong type.                                                 *)
(***************************************************************************)
EXTENDS KvsServer, MembershipProofs, WellFoundedInduction

-----------------------------------------------------------------------------
(* Refinement.  Every step is a step of Membership or leaves its state     *)
(* alone.                                                                  *)

LEMMA StepsOfMembership == [KNext]_kvars => [Next]_mvars
  <1> SUFFICES ASSUME [KNext]_kvars PROVE [Next]_mvars
    OBVIOUS
  <1>0. Server \subseteq Proc /\ RouterThread \subseteq Proc /\ MonitorThread \subseteq Proc
    BY DEF Proc
  <1>1. CASE UNCHANGED kvars
    BY <1>1 DEF kvars
  <1>2. ASSUME NEW p \in Server, Serve(p) PROVE [Next]_mvars
    <2>1. ASSUME NEW m \in mnet, ServerJoin(p, m) PROVE Next
      BY <1>0, <2>1 DEF ServerJoin, Next, Handle
    <2>2. ASSUME NEW m \in mnet, ServerDepart(p, m) PROVE Next
      BY <1>0, <2>2 DEF ServerDepart, Next, Handle
    <2>3. ASSUME NEW m \in mnet, ServerSelfDepart(p, m) PROVE Next
      BY <1>0, <2>3 DEF ServerSelfDepart, Next, Handle
    <2>4. ASSUME NEW m \in requests, UserRequest(p, m) PROVE UNCHANGED mvars
      BY <2>4, SMTT(30) DEF UserRequest
    <2>5. ASSUME NEW m \in gossips, GossipHandler(p, m) PROVE UNCHANGED mvars
      BY <2>5 DEF GossipHandler
    <2>6. ASSUME NEW m \in responses, ReplicationResponse(p, m) PROVE UNCHANGED mvars
      BY <2>6 DEF ReplicationResponse
    <2>7. ASSUME NEW m \in changes, ReplicationChange(p, m) \/ StuckInChange(p, m)
          PROVE UNCHANGED mvars
      BY <2>7, Zenon DEF ReplicationChange, StuckInChange
    <2>8. CASE PeriodicGossip(p) \/ Redistribute(p) \/ Stuck(p)
      BY <2>8 DEF PeriodicGossip, Redistribute, Stuck
    <2>q. QED BY <1>2, <2>1, <2>2, <2>3, <2>4, <2>5, <2>6, <2>7, <2>8, SMTT(30) DEF Serve
  <1>3. ASSUME NEW p \in Server, Start(p) PROVE Next
    BY <1>0, <1>3 DEF Start, Next
  <1>4. ASSUME NEW p \in RouterThread \cup MonitorThread, NEW m \in mnet, Bystander(p, m) PROVE Next
    BY <1>0, <1>4 DEF Bystander, Next, Handle
  <1>5. ASSUME NEW p \in MonitorThread, NEW n \in Node, Shrink(p, n) PROVE Next
    BY <1>0, <1>5, SMTT(30) DEF Shrink, Next
  <1>6. ASSUME NEW n \in Node, ServerExit(n) \/ ServerCrash(n) PROVE Next
    BY <1>6 DEF ServerExit, ServerCrash, Next
  <1>7. ASSUME NEW o \in Op, NEW p \in Server, ClientSend(o, p) PROVE UNCHANGED mvars
    BY <1>7, SMTT(30) DEF ClientSend
  <1>8. ASSUME NEW p \in MonitorThread, NEW c \in Change,
               MonitorStore(p, c) \/ MonitorTell(p, c) \/ MonitorTimeout(p, c)
        PROVE UNCHANGED mvars
    BY <1>8 DEF MonitorStore, MonitorTell, MonitorTimeout
  <1>q. QED BY <1>1, <1>2, <1>3, <1>4, <1>5, <1>6, <1>7, <1>8 DEF KNext

(* The event loops of the storage threads (server.cpp) and the handlers    *)
(* they call change rings, statuses and membership messages only as the    *)
(* membership protocol says.                                               *)
LEMMA ServersImplementMembership == KSpec => Spec
  <1>1. KInit => Init
    BY DEF KInit
  <1>q. QED BY <1>1, StepsOfMembership, PTL DEF KSpec, Spec

-----------------------------------------------------------------------------
(* Type correctness.  KTypeOK is not inductive: that the latest of the     *)
(* changes in an answer is a change takes that only changes are stored     *)
(* under a metadata key, and that only server threads ask for one.         *)

Value == {d \in [AllKey -> SUBSET Update] : \A K \in AllKey : K.meta => d[K] \subseteq Change}
Known == {DefaultFactor} \cup {ChangeFactor[i] : i \in Change}

Asked(m) ==
    /\ m.key.meta => m.load \subseteq Change
    /\ m.from \in Server => m.key.meta /\ m.type = "GET"

ThreadOK ==
    /\ stored \in [Server -> Value]
    /\ factor \in [Server -> [Key -> Known \cup {NoFactor}]]
    /\ pending_requests \in [Server -> [Key -> Seq(Request)]]
    /\ \A p \in Server, k \in Key : \A i \in DOMAIN pending_requests[p][k] :
         pending_requests[p][k][i].key = Data(k)
    /\ pending_gossip \in [Server -> [Key -> Seq(SUBSET Update)]]
    /\ local_changeset \in [Server -> SUBSET AllKey]

JoiningOK ==
    /\ join_gossip_map \in [Server -> [Server -> SUBSET AllKey]]
    /\ join_remove_set \in [Server -> SUBSET AllKey]

RequestsOK == requests \subseteq Request /\ \A m \in requests : Asked(m)
GossipsOK == gossips \subseteq [to : Server, data : Value]
ResponsesOK ==
    /\ responses \subseteq [to : Server, key : Key, error : Error, load : SUBSET Change]
    /\ \A m \in responses : m.error = "NO_ERROR" => m.load # {}
ChangesOK == changes \subseteq [to : Server, change : Change]
LoopOK == loop \in [Server -> 0..10]
DeadOK == dead \subseteq Server
TriesOK == tries \in [Op -> 0..MaxTries]
ChgOK == chg \in [Change -> {"idle", "put", "stored", "failed", "told"}]

KInd ==
    /\ ThreadOK /\ JoiningOK /\ LoopOK /\ DeadOK
    /\ RequestsOK /\ GossipsOK /\ ResponsesOK /\ ChangesOK
    /\ TriesOK /\ ChgOK

\* The latest of some changes is one of them.
LEMMA LatestOne == ASSUME NEW S, S \subseteq Change, S # {} PROVE Latest(S) \in S
  <1>1. PICK n \in Nat : \A i \in Change : i <= n
    BY ChangeAssumption, Zenon
  <1> DEFINE T == {n - x : x \in S}
  <1>0. \A x \in S : x \in Nat /\ x <= n /\ n - x \in Nat
    BY <1>1, ChangeAssumption
  <1>2. T \subseteq Nat /\ T # {}
    BY <1>0
  <1>3. PICK t \in T : \A y \in T : ~ (<<y, t>> \in OpToRel(<, Nat))
    BY <1>2, WFMin, NatLessThanWellFounded, Zenon, Zenon
  <1>4. \A y \in T : ~ (y < t)
    BY <1>2, <1>3, Zenon DEF OpToRel
  <1>5. PICK x \in S : t = n - x
    OBVIOUS
  <1>6. \A d \in S : d <= x
    <2> SUFFICES ASSUME NEW d \in S PROVE d <= x
      OBVIOUS
    <2>1. n - d \in T
      OBVIOUS
    <2>2. ~ (n - d < n - x)
      BY <1>4, <1>5, <2>1, Zenon, Zenon
    <2>3. d \in Nat /\ x \in Nat
      BY <1>0
    <2>q. QED BY <2>2, <2>3
  <1>q. QED BY <1>5, <1>6 DEF Latest

\* A merge adds nothing but what it is given.
LEMMA MergeAdds ==
    ASSUME NEW value, NEW seq PROVE \A x \in MergeAll(value, seq) : x \in value \/ \E i \in DOMAIN seq : x \in seq[i]
  BY Zenon, Zenon DEF MergeAll

\* The questions asked for the factors of ks.
LEMMA Questions ==
    ASSUME NEW p \in Server, NEW view, NEW ks, ks \subseteq Key, NEW asks \in Asks(p, view, ks)
    PROVE  /\ asks \subseteq Request /\ \A m \in asks : Asked(m) /\ m.from = p
           /\ \A k \in ks : \E m \in asks : m.from = p /\ m.key = Meta(k)
  <1>1. PICK f \in [ks -> Server] :
          asks = {[to |-> f[k], type |-> "GET", key |-> Meta(k), load |-> {}, from |-> p] : k \in ks}
    BY DEF Asks
  <1>2. \A k \in ks : Meta(k) \in AllKey /\ Meta(k).meta
    BY DEF Meta, AllKey
  <1>3. p \in Tag
    BY DEF Tag
  <1>4. \A k \in ks : [to |-> f[k], type |-> "GET", key |-> Meta(k), load |-> {}, from |-> p] \in Request
    BY <1>2, <1>3 DEF Request
  <1>5. asks \subseteq Request
    BY <1>1, <1>4
  <1>6. \A m \in asks : Asked(m) /\ m.from = p
    BY <1>1, <1>2 DEF Asked
  <1>7. \A k \in ks : \E m \in asks : m.from = p /\ m.key = Meta(k)
    <2> SUFFICES ASSUME NEW k \in ks PROVE \E m \in asks : m.from = p /\ m.key = Meta(k)
      OBVIOUS
    <2> DEFINE q == [to |-> f[k], type |-> "GET", key |-> Meta(k), load |-> {}, from |-> p]
    <2>1. q \in asks
      BY <1>1, Zenon
    <2>q. QED BY <2>1
  <1>q. QED BY <1>5, <1>6, <1>7, SMTT(30)

LEMMA AskedTyped ==
    ASSUME RequestsOK, NEW p \in Server, NEW view, NEW ks, ks \subseteq Key, NEW asks \in Asks(p, view, ks),
           requests' \subseteq requests \cup asks
    PROVE  RequestsOK'
  <1>1. asks \subseteq Request /\ \A m \in asks : Asked(m)
    BY Questions
  <1>q. QED BY <1>1 DEF RequestsOK

LEMMA AskedAbout ==
    ASSUME NEW p \in Server, NEW view, NEW ks, ks \subseteq Key, NEW asks \in Asks(p, view, ks), NEW k \in ks
    PROVE  \E m \in asks : m.from = p /\ m.key = Meta(k)
  BY Questions

LEMMA AskedOne ==
    ASSUME NEW p \in Server, NEW view, NEW k \in Key, NEW asks \in Asks(p, view, {k})
    PROVE  \E m \in asks : m.from = p /\ m.key = Meta(k)
  <1>1. {k} \subseteq Key /\ k \in {k}
    OBVIOUS
  <1>q. QED BY <1>1, AskedAbout

\* Merging and sending keep values well typed.
LEMMA MergeTyped ==
    ASSUME NEW S, NEW value \in SUBSET S, NEW seq, \A i \in DOMAIN seq : seq[i] \subseteq S
    PROVE  MergeAll(value, seq) \subseteq S
  BY MergeAdds

LEMMA SendTyped ==
    ASSUME ThreadOK, NEW p \in Server, NEW route
    PROVE  Send(p, route) \subseteq [to : Server, data : Value]
  <1>1. stored[p] \in Value
    BY DEF ThreadOK
  <1>2. \A t : [K \in AllKey |-> IF K \in route[t] THEN stored[p][K] ELSE {}] \in Value
    BY <1>1 DEF Value
  <1>q. QED BY <1>2 DEF Send

LEMMA AdvanceTyped ==
    ASSUME LoopOK, NEW p \in Server, NEW i \in 0..9, Advance(p, i) PROVE LoopOK'
  <1>1. i + 1 \in 0..10 /\ 0 \in 0..10
    OBVIOUS
  <1>q. QED BY <1>1 DEF LoopOK, Advance

LEMMA ReplyTyped ==
    ASSUME ResponsesOK, ChgOK, NEW m \in Request, NEW error \in Error, NEW load, Reply(m, error, load),
           m.from \in Server => load \subseteq Change /\ (error = "NO_ERROR" => load # {})
    PROVE  ResponsesOK' /\ ChgOK'
  <1>1. ChgOK'
    BY DEF Reply, ChgOK
  <1>2. m.key.key \in Key
    BY DEF Request, AllKey
  <1>3. ResponsesOK'
    <2>1. CASE m.from \in Server
      BY <1>2, <2>1, SMTT(30) DEF Reply, ResponsesOK
    <2>2. CASE m.from \notin Server
      BY <2>2 DEF Reply, ResponsesOK
    <2>q. QED BY <2>1, <2>2, SMTT(30)
  <1>q. QED BY <1>1, <1>3, SMTT(30)

LEMMA KilledTyped ==
    ASSUME NEW p \in Server, NEW view, NEW f, NEW Ks, NEW tiers
    PROVE  Killed(p, view, f, Ks, tiers) \subseteq Server
  BY DEF Killed, Server

LEMMA ThreadsAreServers ==
    ASSUME NEW view, NEW f, NEW K, NEW tiers
    PROVE  Threads(view, f, K, tiers) \subseteq Server
  <1>1. \A t, g, l : Replicas(view, K, t, g, l) \subseteq Server
    BY DEF Replicas, FirstOf, TierRing, Members, Server
  <1>q. QED BY <1>1 DEF Threads, MetaThreads

\* What is asked of the keys of a set.
LEMMA KeysOf == ASSUME NEW Ks, Ks \subseteq AllKey PROVE {K.key : K \in Ks} \subseteq Key
  BY SMTT(30) DEF AllKey

-----------------------------------------------------------------------------
(* The handlers preserve KInd.                                             *)

LEMMA UserRequestTyped ==
    ASSUME KInd, NEW p \in Server, NEW m \in requests, UserRequest(p, m) PROVE KInd'
  <1>1. m \in Request /\ Asked(m) /\ m.key \in AllKey /\ m.key.key \in Key /\ m.load \subseteq Update
    BY SMTT(30) DEF KInd, RequestsOK, Request, AllKey
  <1>2. /\ joining' = joining /\ dead' = dead /\ tries' = tries /\ gossips' = gossips
        /\ changes' = changes
    BY DEF UserRequest, AnswerGet, ApplyPut, RefuseMeta, MakePending
  <1>3. JoiningOK' /\ DeadOK' /\ TriesOK' /\ GossipsOK' /\ ChangesOK'
    BY <1>2 DEF KInd, joining, JoiningOK, DeadOK, TriesOK, GossipsOK, ChangesOK
  <1>4. LoopOK'
    <2>1. Advance(p, 3)
      BY DEF UserRequest
    <2>q. QED BY <2>1, AdvanceTyped, SMTT(30) DEF KInd
  <1>5. CASE AnswerGet(p, m)
    <2>1. stored[p][m.key] \subseteq Update /\ (m.from \in Server => stored[p][m.key] \subseteq Change)
      BY <1>1, SMTT(30) DEF KInd, ThreadOK, Value, Asked
    <2>2. ResponsesOK' /\ ChgOK'
      BY <1>1, <1>5, <2>1, ReplyTyped, SMTT(30) DEF AnswerGet, KInd, Error
    <2>3. ThreadOK'
      BY <1>5, SMTT(30) DEF AnswerGet, thread, KInd, ThreadOK
    <2>4. RequestsOK'
      BY <1>5 DEF AnswerGet, KInd, RequestsOK
    <2>q. QED BY <1>3, <1>4, <2>2, <2>3, <2>4, SMTT(30) DEF KInd
  <1>6. CASE m.type = "PUT" /\ ApplyPut(p, m)
    <2>1. m.from \notin Server
      BY <1>1, <1>6 DEF Asked
    <2>2. ResponsesOK' /\ ChgOK'
      BY <1>1, <1>6, <2>1, ReplyTyped DEF ApplyPut, KInd, Error
    <2>3. stored' \in [Server -> Value]
      <3>1. [stored[p] EXCEPT ![m.key] = @ \cup m.load] \in Value
        <4>1. stored[p] \in [AllKey -> SUBSET Update] /\ \A K \in AllKey : K.meta => stored[p][K] \subseteq Change
          BY DEF KInd, ThreadOK, Value
        <4>2. m.key.meta => stored[p][m.key] \cup m.load \subseteq Change
          BY <1>1, <4>1 DEF Asked
        <4>q. QED BY <1>1, <4>1, <4>2 DEF Value
      <3>q. QED BY <1>6, <3>1, Zenon DEF ApplyPut, KInd, ThreadOK
    <2>4. local_changeset' \in [Server -> SUBSET AllKey]
      <3>1. \/ local_changeset' = local_changeset
            \/ local_changeset' = [local_changeset EXCEPT ![p] = @ \cup {m.key}]
        BY <1>6 DEF ApplyPut
      <3>2. local_changeset \in [Server -> SUBSET AllKey]
        BY DEF KInd, ThreadOK
      <3>q. QED BY <1>1, <3>1, <3>2, SMTT(30)
    <2>6. ThreadOK'
      BY <1>6, <2>3, <2>4, Zenon DEF ApplyPut, KInd, ThreadOK
    <2>5. RequestsOK'
      BY <1>6, SMTT(30) DEF ApplyPut, KInd, RequestsOK
    <2>q. QED BY <1>3, <1>4, <2>2, <2>5, <2>6, SMTT(30) DEF KInd
  <1>7. CASE RefuseMeta(p, m)
    <2>1. ResponsesOK' /\ ChgOK'
      BY <1>1, <1>7, ReplyTyped, SMTT(30) DEF RefuseMeta, KInd, Error
    <2>2. ThreadOK'
      BY <1>7 DEF RefuseMeta, thread, KInd, ThreadOK
    <2>3. RequestsOK'
      BY <1>7 DEF RefuseMeta, KInd, RequestsOK
    <2>q. QED BY <1>3, <1>4, <2>1, <2>2, <2>3 DEF KInd
  <1>8. CASE ~ m.key.meta /\ MakePending(p, m)
    <2>1. PICK asks \in Asks(p, ring[p], {m.key.key}) : requests' = (requests \ {m}) \cup asks
      BY <1>8 DEF MakePending
    <2>2. RequestsOK'
      BY <1>1, <2>1, AskedTyped DEF KInd
    <2>3. m.key = Data(m.key.key)
      BY <1>1, <1>8, ZenonT(30) DEF AllKey, Data
    <2> DEFINE q == pending_requests[p][m.key.key]
    <2>4. q \in Seq(Request) /\ \A i \in DOMAIN q : q[i].key = Data(m.key.key)
      BY <1>1, SMTT(30) DEF KInd, ThreadOK
    <2>5. /\ Append(q, m) \in Seq(Request)
          /\ \A i \in DOMAIN Append(q, m) : Append(q, m)[i].key = Data(m.key.key)
      BY <1>1, <2>3, <2>4, SMTT(30)
    <2>6. pending_requests' = [pending_requests EXCEPT ![p][m.key.key] = Append(q, m)]
      BY <1>8 DEF MakePending
    <2>7. /\ pending_requests' \in [Server -> [Key -> Seq(Request)]]
          /\ \A r \in Server, k \in Key : \A i \in DOMAIN pending_requests'[r][k] :
               pending_requests'[r][k][i].key = Data(k)
      BY <1>1, <2>5, <2>6, Zenon DEF KInd, ThreadOK
    <2>8. ThreadOK'
      BY <1>8, <2>7, Zenon DEF MakePending, KInd, ThreadOK
    <2>9. ResponsesOK' /\ ChgOK'
      BY <1>8 DEF MakePending, outside, KInd, ResponsesOK, ChgOK
    <2>q. QED BY <1>3, <1>4, <2>2, <2>8, <2>9, SMTT(30) DEF KInd
  <1>q. QED BY <1>5, <1>6, <1>7, <1>8, SMTT(30) DEF UserRequest

LEMMA GossipTyped ==
    ASSUME KInd, NEW p \in Server, NEW m \in gossips, GossipHandler(p, m) PROVE KInd'
  <1> DEFINE Ks == {K \in AllKey : m.data[K] # {}}
             own == {K \in Ks : Responsible(ring[p], factor[p], K, p, SelfTier(p))}
             kept == {K.key : K \in {J \in Ks \ own : ~ J.meta}}
             passed(t) == {K \in Ks \ own : K.meta /\ t \in MetaThreads(ring[p], K)}
  <1>1. m.data \in [AllKey -> SUBSET Update] /\ \A K \in AllKey : K.meta => m.data[K] \subseteq Change
    BY DEF KInd, GossipsOK, Value
  <1>2. kept \subseteq Key
    BY DEF AllKey
  <1>3. stored' \in [Server -> Value]
    <2> DEFINE new == [K \in AllKey |-> IF K \in own THEN MergeAll(stored[p][K], <<m.data[K]>>)
                                        ELSE stored[p][K]]
    <2>1. stored[p] \in [AllKey -> SUBSET Update] /\ \A K \in AllKey : K.meta => stored[p][K] \subseteq Change
      BY DEF KInd, ThreadOK, Value
    <2>2. ASSUME NEW K \in AllKey
          PROVE  new[K] \subseteq Update /\ (K.meta => new[K] \subseteq Change)
      <3>1. MergeAll(stored[p][K], <<m.data[K]>>) \subseteq Update
        BY <1>1, <2>1, MergeTyped, SMTT(30)
      <3>2. K.meta => MergeAll(stored[p][K], <<m.data[K]>>) \subseteq Change
        BY <1>1, <2>1, MergeTyped
      <3>q. QED BY <2>1, <3>1, <3>2, Zenon
    <2>3. new \in Value
      <3> HIDE DEF own
      <3>q. QED BY <2>2, Zenon DEF Value
    <2>4. stored' = [stored EXCEPT ![p] = new]
      BY Zenon DEF GossipHandler
    <2> HIDE DEF new
    <2>q. QED BY <2>3, <2>4 DEF KInd, ThreadOK
  <1>4. pending_gossip' \in [Server -> [Key -> Seq(SUBSET Update)]]
    <2> DEFINE new == [k \in Key |-> IF k \in kept THEN Append(pending_gossip[p][k], m.data[Data(k)])
                                     ELSE pending_gossip[p][k]]
    <2>0. \A k \in Key : Data(k) \in AllKey
      BY SMTT(30) DEF Data, AllKey
    <2>1. \A k \in Key : m.data[Data(k)] \in SUBSET Update /\ pending_gossip[p][k] \in Seq(SUBSET Update)
      BY <1>1, <2>0 DEF KInd, ThreadOK
    <2>2. pending_gossip' = [pending_gossip EXCEPT ![p] = new]
      BY Zenon DEF GossipHandler
    <2> HIDE DEF kept
    <2>3. new \in [Key -> Seq(SUBSET Update)]
      BY <2>1
    <2>q. QED BY <2>2, <2>3 DEF KInd, ThreadOK
  <1>5. ThreadOK'
    <2>1. /\ factor' = factor /\ pending_requests' = pending_requests
          /\ local_changeset' = local_changeset
      BY Zenon DEF GossipHandler
    <2>q. QED BY <1>3, <1>4, <2>1 DEF KInd, ThreadOK
  <1>6. GossipsOK'
    <2>1. \A t : [K \in AllKey |-> IF K \in passed(t) THEN m.data[K] ELSE {}] \in Value
      BY <1>1 DEF Value
    <2>2. gossips' = (gossips \ {m}) \cup
            {[to |-> t, data |-> [K \in AllKey |-> IF K \in passed(t) THEN m.data[K] ELSE {}]] :
               t \in {u \in Server : passed(u) # {}}}
      BY Zenon DEF GossipHandler
    <2> HIDE DEF passed
    <2>q. QED BY <2>1, <2>2, SMTT(30) DEF KInd, GossipsOK
  <1>7. RequestsOK'
    <2>1. PICK asks \in Asks(p, ring[p], kept) : requests' = requests \cup asks
      BY Zenon DEF GossipHandler
    <2> HIDE DEF kept
    <2>q. QED BY <1>2, <2>1, AskedTyped DEF KInd
  <1>8. LoopOK'
    <2>1. Advance(p, 4)
      BY Zenon DEF GossipHandler
    <2>q. QED BY <2>1, AdvanceTyped DEF KInd
  <1>9. JoiningOK' /\ DeadOK' /\ TriesOK' /\ ResponsesOK' /\ ChangesOK' /\ ChgOK'
    BY Zenon DEF GossipHandler, joining, outside, KInd, JoiningOK, DeadOK, TriesOK, ResponsesOK, ChangesOK, ChgOK
  <1>q. QED BY <1>5, <1>6, <1>7, <1>8, <1>9, SMTT(30) DEF KInd

\* The factor found is a known one.
LEMMA FactorFound ==
    ASSUME ResponsesOK, NEW m \in responses, m.error # "WRONG_THREAD"
    PROVE  m.key \in Key /\ NewFactor(m) \in Known
  <1>1. m.key \in Key /\ m.load \subseteq Change /\ (m.error = "NO_ERROR" => m.load # {})
    BY DEF ResponsesOK
  <1>2. m.error = "NO_ERROR" => Latest(m.load) \in Change
    BY <1>1, LatestOne
  <1>q. QED BY <1>1, <1>2 DEF NewFactor, Known

LEMMA ResponseTyped ==
    ASSUME KInd, NEW p \in Server, NEW m \in responses, ReplicationResponse(p, m) PROVE KInd'
  <1>1. m.key \in Key /\ Data(m.key) \in AllKey /\ ~ Data(m.key).meta
    BY DEF KInd, ResponsesOK, Data, AllKey
  <1>2. LoopOK'
    <2>1. Advance(p, 5)
      BY DEF ReplicationResponse
    <2>q. QED BY <2>1, AdvanceTyped DEF KInd
  <1>3. JoiningOK' /\ DeadOK' /\ TriesOK' /\ ChangesOK' /\ ChgOK'
    BY DEF ReplicationResponse, joining, KInd, JoiningOK, DeadOK, TriesOK, ChangesOK, ChgOK
  <1>4. ResponsesOK'
    BY DEF ReplicationResponse, KInd, ResponsesOK
  <1>5. CASE Retry(p, m)
    <2>1. PICK asks \in Asks(p, ring[p], {m.key}) : requests' = requests \cup asks
      BY <1>5 DEF Retry
    <2>2. RequestsOK'
      BY <1>1, <2>1, AskedTyped, SMTT(30) DEF KInd
    <2>3. ThreadOK' /\ GossipsOK'
      BY <1>5 DEF Retry, thread, KInd, ThreadOK, GossipsOK
    <2>q. QED BY <1>2, <1>3, <1>4, <2>2, <2>3, SMTT(30) DEF KInd
  <1>6. CASE Resume(p, m)
    <2> DEFINE k == m.key
               q == pending_requests[p][k]
               g == pending_gossip[p][k]
               loads == [i \in DOMAIN q |-> q[i].load]
               threads == Threads(ring[p], factor'[p], Data(k), SelfTier(p))
               own == p \in threads
               after == MergeAll(stored[p][Data(k)], loads)
    <2>1. factor' \in [Server -> [Key -> Known \cup {NoFactor}]]
      BY <1>1, <1>6, FactorFound, ZenonT(30) DEF Resume, KInd, ThreadOK
    <2>2. MergeAll(after, g) \subseteq Update
      <3>1. stored[p][Data(k)] \subseteq Update
        BY <1>1, SMTT(30) DEF KInd, ThreadOK, Value
      <3>2. \A i \in DOMAIN q : q[i].load \subseteq Update
        <4>1. q \in Seq(Request)
          BY <1>1 DEF KInd, ThreadOK
        <4>2. \A i \in DOMAIN q : q[i] \in Request
          BY <4>1, SMTT(30)
        <4>q. QED BY <4>2, SMTT(30) DEF Request
      <3>3. \A i \in DOMAIN loads : loads[i] \subseteq Update
        BY <3>2, SMTT(30)
      <3>4. after \subseteq Update
        BY <3>1, <3>3, MergeTyped
      <3>5. g \in Seq(SUBSET Update)
        BY <1>1 DEF KInd, ThreadOK
      <3>6. \A i \in DOMAIN g : g[i] \subseteq Update
        BY <3>5
      <3>q. QED BY <3>4, <3>6, MergeTyped, SMTT(30)
    <2>3. stored' \in [Server -> Value]
      <3>1. stored' = IF own THEN [stored EXCEPT ![p][Data(k)] = MergeAll(after, g)] ELSE stored
        BY <1>6, Zenon DEF Resume
      <3>2. stored \in [Server -> Value] /\ stored[p] \in [AllKey -> SUBSET Update]
            /\ \A K \in AllKey : K.meta => stored[p][K] \subseteq Change
        BY DEF KInd, ThreadOK, Value
      <3> HIDE DEF own, after, g
      <3>3. [stored[p] EXCEPT ![Data(k)] = MergeAll(after, g)] \in Value
        BY <1>1, <2>2, <3>2 DEF Value
      <3>q. QED BY <3>1, <3>2, <3>3
    <2>4. local_changeset' \in [Server -> SUBSET AllKey]
      <3>1. \/ local_changeset' = local_changeset
            \/ local_changeset' = [local_changeset EXCEPT ![p] = @ \cup {Data(k)}]
        BY <1>6, Zenon DEF Resume
      <3>2. local_changeset \in [Server -> SUBSET AllKey]
        BY DEF KInd, ThreadOK
      <3>q. QED BY <1>1, <3>1, <3>2
    <2>5. pending_gossip' \in [Server -> [Key -> Seq(SUBSET Update)]]
      <3>1. pending_gossip' = [pending_gossip EXCEPT ![p][k] = <<>>]
        BY <1>6, Zenon DEF Resume
      <3>2. pending_gossip \in [Server -> [Key -> Seq(SUBSET Update)]] /\ <<>> \in Seq(SUBSET Update)
        BY DEF KInd, ThreadOK
      <3>q. QED BY <1>1, <3>1, <3>2
    <2>6. /\ pending_requests' \in [Server -> [Key -> Seq(Request)]]
          /\ \A r \in Server, j \in Key : \A i \in DOMAIN pending_requests'[r][j] :
               pending_requests'[r][j][i].key = Data(j)
      <3>1. pending_requests' = [pending_requests EXCEPT ![p][k] = <<>>]
        BY <1>6, Zenon DEF Resume
      <3>2. pending_requests \in [Server -> [Key -> Seq(Request)]] /\ <<>> \in Seq(Request)
            /\ \A r \in Server, j \in Key : \A i \in DOMAIN pending_requests[r][j] :
                 pending_requests[r][j][i].key = Data(j)
        BY DEF KInd, ThreadOK
      <3>q. QED BY <1>1, <3>1, <3>2
    <2>7. ThreadOK'
      BY <2>1, <2>3, <2>4, <2>5, <2>6 DEF ThreadOK
    <2>8. GossipsOK'
      <3>1. threads \subseteq Server
        BY ThreadsAreServers, SMTT(30)
      <3>2. g \in Seq(SUBSET Update)
        BY <1>1 DEF KInd, ThreadOK
      <3>3. \A i \in DOMAIN g : g[i] \subseteq Update
        BY <3>2
      <3>4. \A i \in DOMAIN g : [K \in AllKey |-> IF K = Data(k) THEN g[i] ELSE {}] \in Value
        BY <1>1, <3>3 DEF Value
      <3>5. gossips' = gossips \cup (IF own THEN {} ELSE Forward(k, g, threads))
        BY <1>6, Zenon DEF Resume
      <3> HIDE DEF threads, g, own
      <3>6. Forward(k, g, threads) \subseteq [to : Server, data : Value]
        BY <3>1, <3>4 DEF Forward
      <3>q. QED BY <3>5, <3>6 DEF KInd, GossipsOK
    <2>9. RequestsOK'
      BY <1>6, Zenon DEF Resume, KInd, RequestsOK
    <2>q. QED BY <1>2, <1>3, <1>4, <2>7, <2>8, <2>9, SMTT(30) DEF KInd
  <1>q. QED BY <1>5, <1>6 DEF ReplicationResponse

LEMMA PassOnTyped ==
    ASSUME ChangesOK, NEW p \in Server, NEW m \in changes
    PROVE  m.change \in Change /\ PassOn(p, m) \subseteq [to : Server, change : Change]
  <1>1. m.change \in Change
    BY DEF ChangesOK
  <1>2. Workers(p[1]) \subseteq Server
    BY MembershipAssumption DEF Workers, Server, Tids
  <1>q. QED BY <1>1, <1>2 DEF PassOn

LEMMA ChangeTyped ==
    ASSUME KInd, NEW p \in Server, NEW m \in changes, ReplicationChange(p, m) PROVE KInd'
  <1> DEFINE k == ChangeKey[m.change]
             f == [factor[p] EXCEPT ![k] = ChangeFactor[m.change]]
             here == stored[p][Data(k)] # {}
             held == here /\ factor[p][k] # NoFactor
             leaves == held /\ Leaves(p, k, f)
             targets == IF held THEN Targets(p, k, f) ELSE {}
             asked == IF here /\ ~ held THEN {k} ELSE {}
  <1>1. m.change \in Change /\ k \in Key /\ ChangeFactor[m.change] \in Known
    BY PassOnTyped, KvsAssumption, SMTT(30) DEF KInd, Known
  <1>2. Data(k) \in AllKey /\ ~ Data(k).meta
    BY <1>1, SMTT(30) DEF Data, AllKey
  <1>3. factor' \in [Server -> [Key -> Known \cup {NoFactor}]]
    <2>1. factor' = [factor EXCEPT ![p] = f]
      BY ZenonT(30) DEF ReplicationChange
    <2>2. factor \in [Server -> [Key -> Known \cup {NoFactor}]]
      BY SMTT(30) DEF KInd, ThreadOK
    <2>3. f \in [Key -> Known \cup {NoFactor}]
      BY <1>1, <2>2, SMTT(30)
    <2>q. QED BY <2>1, <2>2, <2>3, SMTT(30)
  <1>4. stored' \in [Server -> Value]
    <2>1. stored' = IF leaves THEN [stored EXCEPT ![p][Data(k)] = {}] ELSE stored
      BY Zenon DEF ReplicationChange
    <2>2. stored \in [Server -> Value] /\ stored[p] \in [AllKey -> SUBSET Update]
          /\ \A K \in AllKey : K.meta => stored[p][K] \subseteq Change
      BY DEF KInd, ThreadOK, Value
    <2>3. [stored[p] EXCEPT ![Data(k)] = {}] \in Value
      BY <1>2, <2>2 DEF Value
    <2> HIDE DEF leaves
    <2>q. QED BY <2>1, <2>2, <2>3
  <1>5. local_changeset' \in [Server -> SUBSET AllKey]
    <2>1. \/ local_changeset' = local_changeset
          \/ local_changeset' = [local_changeset EXCEPT ![p] = @ \ {Data(k)}]
      BY Zenon DEF ReplicationChange
    <2>2. local_changeset \in [Server -> SUBSET AllKey]
      BY DEF KInd, ThreadOK
    <2>q. QED BY <2>1, <2>2
  <1>6. ThreadOK'
    <2>1. pending_requests' = pending_requests /\ pending_gossip' = pending_gossip
      BY ZenonT(30) DEF ReplicationChange
    <2>q. QED BY <1>3, <1>4, <1>5, <2>1 DEF KInd, ThreadOK
  <1>7. GossipsOK'
    <2>1. gossips' = gossips \cup Send(p, [t \in Server |-> IF t \in targets THEN {Data(k)} ELSE {}])
      BY Zenon DEF ReplicationChange
    <2> HIDE DEF targets
    <2>q. QED BY <2>1, SendTyped DEF KInd, GossipsOK
  <1>8. RequestsOK'
    <2>1. PICK asks \in Asks(p, ring[p], asked) : requests' = requests \cup asks
      BY Zenon DEF ReplicationChange
    <2>2. asked \subseteq Key
      BY <1>1, Zenon
    <2> HIDE DEF asked
    <2>q. QED BY <2>1, <2>2, AskedTyped DEF KInd
  <1>9. ChangesOK'
    BY PassOnTyped, Zenon DEF ReplicationChange, KInd, ChangesOK
  <1>10. LoopOK'
    <2>1. Advance(p, 6)
      BY Zenon DEF ReplicationChange
    <2>q. QED BY <2>1, AdvanceTyped DEF KInd
  <1>11. JoiningOK' /\ DeadOK' /\ TriesOK' /\ ResponsesOK' /\ ChgOK'
    BY Zenon DEF ReplicationChange, joining, outside, KInd, JoiningOK, DeadOK, TriesOK, ResponsesOK, ChgOK
  <1>q. QED BY <1>6, <1>7, <1>8, <1>9, <1>10, <1>11, SMTT(30) DEF KInd

LEMMA PeriodicTyped == ASSUME KInd, NEW p \in Server, PeriodicGossip(p) PROVE KInd'
  <1> DEFINE Ks == local_changeset[p]
             asked == {K.key : K \in {J \in Ks : Unknown(factor[p], J)}}
  <1>1. Ks \subseteq AllKey
    BY DEF KInd, ThreadOK
  <1>2. asked \subseteq Key
    BY <1>1, Zenon DEF AllKey
  <1>3. RequestsOK'
    <2>1. PICK asks \in Asks(p, ring[p], asked) : requests' = requests \cup asks
      BY Zenon DEF PeriodicGossip
    <2> HIDE DEF asked
    <2>q. QED BY <1>2, <2>1, AskedTyped DEF KInd
  <1>4. GossipsOK'
    BY SendTyped, Zenon DEF PeriodicGossip, KInd, GossipsOK
  <1>5. ThreadOK'
    BY Zenon DEF PeriodicGossip, KInd, ThreadOK
  <1>6. LoopOK'
    <2>1. Advance(p, 9)
      BY Zenon DEF PeriodicGossip
    <2>q. QED BY <2>1, AdvanceTyped DEF KInd
  <1>7. JoiningOK' /\ DeadOK' /\ TriesOK' /\ ResponsesOK' /\ ChangesOK' /\ ChgOK'
    BY Zenon DEF PeriodicGossip, joining, outside, KInd, JoiningOK, DeadOK, TriesOK, ResponsesOK, ChangesOK, ChgOK
  <1>q. QED BY <1>3, <1>4, <1>5, <1>6, <1>7 DEF KInd

LEMMA RedistributeTyped == ASSUME KInd, NEW p \in Server, Redistribute(p) PROVE KInd'
  <1> DEFINE map == join_gossip_map[p]
             left == [t \in Server |-> Remaining(map[t])]
             finished == left = Idle(p)
  <1>1. JoiningOK'
    <2>1. join_gossip_map \in [Server -> [Server -> SUBSET AllKey]]
          /\ join_remove_set \in [Server -> SUBSET AllKey]
      BY DEF KInd, JoiningOK
    <2>2. left \in [Server -> SUBSET AllKey]
      BY <2>1, SMTT(30) DEF Remaining
    <2>3. join_gossip_map' = [join_gossip_map EXCEPT ![p] = left]
      BY SMTT(30) DEF Redistribute
    <2>4. \/ join_remove_set' = [join_remove_set EXCEPT ![p] = {}]
          \/ join_remove_set' = join_remove_set
      BY DEF Redistribute
    <2> HIDE DEF left
    <2>5. join_gossip_map' \in [Server -> [Server -> SUBSET AllKey]]
      BY <2>1, <2>2, <2>3
    <2>6. join_remove_set' \in [Server -> SUBSET AllKey]
      BY <2>1, <2>4
    <2>q. QED BY <2>5, <2>6 DEF JoiningOK
  <1>2. stored' \in [Server -> Value]
    <2> DEFINE new == [K \in AllKey |-> IF K \in join_remove_set[p] THEN {} ELSE stored[p][K]]
    <2>1. stored' = IF finished THEN [stored EXCEPT ![p] = new] ELSE stored
      BY DEF Redistribute
    <2>2. stored \in [Server -> Value] /\ stored[p] \in Value
      BY DEF KInd, ThreadOK
    <2>3. new \in Value
      BY <2>2, Zenon DEF Value
    <2> HIDE DEF new, finished
    <2>q. QED BY <2>1, <2>2, <2>3, SMTT(30)
  <1>3. ThreadOK'
    <2>1. /\ factor' = factor /\ pending_requests' = pending_requests
          /\ pending_gossip' = pending_gossip /\ local_changeset' = local_changeset
      BY SMTT(30) DEF Redistribute
    <2>q. QED BY <1>2, <2>1, SMTT(30) DEF KInd, ThreadOK
  <1>4. GossipsOK'
    BY SendTyped DEF Redistribute, KInd, GossipsOK
  <1>5. DeadOK'
    <2>1. dead' = dead \/ dead' = dead \cup ({p[1]} \X Tids)
      BY SMTT(30) DEF Redistribute
    <2>q. QED BY <2>1, SMTT(30) DEF KInd, DeadOK, Server
  <1>6. LoopOK'
    BY SMTT(30) DEF Redistribute, KInd, LoopOK
  <1>7. TriesOK' /\ RequestsOK' /\ ResponsesOK' /\ ChangesOK' /\ ChgOK'
    BY DEF Redistribute, outside, KInd, TriesOK, RequestsOK, ResponsesOK, ChangesOK, ChgOK
  <1>q. QED BY <1>1, <1>3, <1>4, <1>5, <1>6, <1>7 DEF KInd

LEMMA StuckTyped ==
    ASSUME KInd, NEW p \in Server,
           Stuck(p) \/ \E m \in changes : StuckInChange(p, m)
    PROVE  KInd'
  <1>0. \A f, Ks, tiers : StoppedBy(p, f, Ks, tiers) \subseteq Server
    BY KilledTyped, SMTT(30) DEF StoppedBy
  <1>1. CASE Stuck(p)
    <2>1. \A Ks : StoppedByAny(p, Ks) \subseteq Server
      BY <1>0, Zenon DEF StoppedByAny
    <2>2. \A m : StoppedByResponse(p, m) \subseteq Server
      BY <1>0, Zenon DEF StoppedByResponse
    <2>3. PICK stopped : stopped \subseteq Server /\ dead' = dead \cup stopped
      BY <1>0, <1>1, <2>1, <2>2, Zenon DEF Stuck
    <2>4. DeadOK'
      BY <2>3 DEF KInd, DeadOK
    <2>5. UNCHANGED <<thread, joining, loop, sockets, outside>>
      BY <1>1, ZenonT(30) DEF Stuck
    <2>q. QED BY <2>4, <2>5, ZenonT(30) DEF thread, joining, sockets, outside, KInd, ThreadOK, JoiningOK, LoopOK,
                RequestsOK, GossipsOK, ResponsesOK, ChangesOK, TriesOK, ChgOK
  <1>2. ASSUME NEW m \in changes, StuckInChange(p, m) PROVE KInd'
    <2>1. StoppedByChange(p, m) \subseteq Server
      BY <1>0, Zenon DEF StoppedByChange
    <2>2. DeadOK'
      BY <1>2, <2>1, SMTT(30) DEF StuckInChange, KInd, DeadOK
    <2>3. ChangesOK'
      BY <1>2, PassOnTyped, SMTT(30) DEF StuckInChange, KInd, ChangesOK
    <2>4. UNCHANGED <<thread, joining, loop, requests, gossips, responses, outside>>
      BY <1>2 DEF StuckInChange
    <2>q. QED BY <2>2, <2>3, <2>4 DEF thread, joining, outside, KInd, ThreadOK, JoiningOK, LoopOK,
                RequestsOK, GossipsOK, ResponsesOK, TriesOK, ChgOK
  <1>q. QED BY <1>1, <1>2

LEMMA JoinTyped == ASSUME KInd, NEW p \in Server, NEW m, ServerJoin(p, m) PROVE KInd'
  <1> DEFINE news == Inserts(ring[p], m.node, m.count) /\ TierOf[m.node] = TierOf[p[1]]
             Ks == IF news THEN Stored(p) ELSE {}
             asked == {K.key : K \in {J \in Ks : Unknown(factor[p], J)}}
  <1>1. Ks \subseteq AllKey
    BY DEF Stored
  <1>2. asked \subseteq Key
    BY <1>1 DEF AllKey
  <1>3. JoiningOK'
    <2> DEFINE view == ring'[p]
               owners(K) == Threads(view, factor[p], K, SelfTier(p))
               lost == {K \in Ks : m.count = 0 /\ ~ Unknown(factor[p], K) /\ p \notin owners(K)}
               back(t) == {K \in Ks : m.count > 0 /\ t[1] = m.node
                                      /\ Responsible(view, factor[p], K, t, SelfTier(p))}
               plan == [t \in Server |-> join_gossip_map[p][t] \cup back(t) \cup {K \in lost : t \in owners(K)}]
    <2>1. JoinPlan(p, m, Ks)
      BY Zenon DEF ServerJoin
    <2>2. join_gossip_map' = [join_gossip_map EXCEPT ![p] = plan]
          /\ join_remove_set' = [join_remove_set EXCEPT ![p] = @ \cup lost]
      BY <2>1, Zenon DEF JoinPlan
    <2>3. join_gossip_map \in [Server -> [Server -> SUBSET AllKey]]
          /\ join_remove_set \in [Server -> SUBSET AllKey]
      BY DEF KInd, JoiningOK
    <2>4. plan \in [Server -> SUBSET AllKey] /\ lost \subseteq AllKey
      BY <1>1, <2>3, Zenon
    <2> HIDE DEF plan, lost
    <2>5. join_gossip_map' \in [Server -> [Server -> SUBSET AllKey]]
      BY <2>2, <2>3, <2>4
    <2>6. join_remove_set' \in [Server -> SUBSET AllKey]
      BY <2>2, <2>3, <2>4
    <2>q. QED BY <2>5, <2>6 DEF JoiningOK
  <1>4. RequestsOK'
    <2>1. PICK asks \in Asks(p, ring'[p], asked) : requests' = requests \cup asks
      BY Zenon DEF ServerJoin
    <2> HIDE DEF asked
    <2>q. QED BY <1>2, <2>1, AskedTyped DEF KInd
  <1>5. DeadOK'
    <2>1. dead' = dead \cup Killed(p, ring'[p], factor[p], Ks, SelfTier(p))
      BY Zenon DEF ServerJoin
    <2> HIDE DEF Ks
    <2>q. QED BY <2>1, KilledTyped, Zenon DEF KInd, DeadOK
  <1>6. LoopOK'
    <2>1. Advance(p, 0)
      BY Zenon DEF ServerJoin
    <2>q. QED BY <2>1, AdvanceTyped DEF KInd
  <1>7. UNCHANGED <<thread, gossips, responses, changes, outside>>
    BY Zenon DEF ServerJoin
  <1>8. ThreadOK' /\ GossipsOK' /\ ResponsesOK' /\ ChangesOK' /\ TriesOK' /\ ChgOK'
    BY <1>7, SMTT(30) DEF thread, outside, KInd, ThreadOK, GossipsOK, ResponsesOK, ChangesOK, TriesOK, ChgOK
  <1>q. QED BY <1>3, <1>4, <1>5, <1>6, <1>8, SMTT(30) DEF KInd

LEMMA DepartTyped == ASSUME KInd, NEW p \in Server, NEW m, ServerDepart(p, m) PROVE KInd'
  <1>1. LoopOK'
    <2>1. Advance(p, 1)
      BY DEF ServerDepart
    <2>q. QED BY <2>1, AdvanceTyped DEF KInd
  <1>2. UNCHANGED <<thread, joining, dead, sockets, outside>>
    BY DEF ServerDepart
  <1>q. QED BY <1>1, <1>2 DEF thread, joining, sockets, outside, KInd, ThreadOK, JoiningOK, DeadOK,
              RequestsOK, GossipsOK, ResponsesOK, ChangesOK, TriesOK, ChgOK

LEMMA SelfDepartTyped == ASSUME KInd, NEW p \in Server, NEW m, ServerSelfDepart(p, m) PROVE KInd'
  <1> DEFINE view == ring'[p]
             stalled == Killed(p, view, factor[p], Stored(p), Tier)
             asked == {K.key : K \in {J \in Stored(p) : Unknown(factor[p], J)}}
  <1>1. asked \subseteq Key
    BY DEF Stored, AllKey
  <1>2. RequestsOK'
    <2>1. PICK asks \in Asks(p, view, asked) : requests' = requests \cup asks
      BY Zenon DEF ServerSelfDepart
    <2> HIDE DEF asked, view
    <2>q. QED BY <1>1, <2>1, AskedTyped DEF KInd
  <1>3. DeadOK'
    BY KilledTyped, Zenon DEF ServerSelfDepart, KInd, DeadOK
  <1>4. GossipsOK'
    <2>1. gossips' = gossips \/ gossips' = gossips \cup Send(p, ToThreads(view, factor[p], Stored(p), Tier, {}))
      BY Zenon DEF ServerSelfDepart
    <2>q. QED BY <2>1, SendTyped, Zenon DEF KInd, GossipsOK
  <1>5. UNCHANGED <<thread, joining, loop, responses, changes, outside>>
    BY Zenon DEF ServerSelfDepart
  <1>6. ThreadOK' /\ JoiningOK' /\ LoopOK' /\ ResponsesOK' /\ ChangesOK' /\ TriesOK' /\ ChgOK'
    BY <1>5 DEF thread, joining, outside, KInd, ThreadOK, JoiningOK, LoopOK, ResponsesOK, ChangesOK, TriesOK, ChgOK
  <1>q. QED BY <1>2, <1>3, <1>4, <1>6 DEF KInd

LEMMA CrashTyped == ASSUME KInd, NEW n, ServerCrash(n) PROVE KInd'
  <1>1. [K \in AllKey |-> {}] \in Value
    BY DEF Value
  <1>2. stored' \in [Server -> Value]
    BY <1>1, Zenon DEF ServerCrash, KInd, ThreadOK
  <1>3. /\ factor' \in [Server -> [Key -> Known \cup {NoFactor}]]
        /\ local_changeset' \in [Server -> SUBSET AllKey]
    BY Zenon DEF ServerCrash, KInd, ThreadOK
  <1>4. /\ pending_requests' \in [Server -> [Key -> Seq(Request)]]
        /\ \A p \in Server, k \in Key : \A i \in DOMAIN pending_requests'[p][k] :
             pending_requests'[p][k][i].key = Data(k)
        /\ pending_gossip' \in [Server -> [Key -> Seq(SUBSET Update)]]
    <2> DEFINE none == [k \in Key |-> <<>>]
    <2>1. /\ pending_requests' = [p \in Server |-> IF p[1] = n THEN none ELSE pending_requests[p]]
          /\ pending_gossip' = [p \in Server |-> IF p[1] = n THEN none ELSE pending_gossip[p]]
      BY Zenon DEF ServerCrash
    <2>2. none \in [Key -> Seq(Request)] /\ none \in [Key -> Seq(SUBSET Update)]
          /\ \A k \in Key : DOMAIN none[k] = {}
      OBVIOUS
    <2> HIDE DEF none
    <2>3. pending_gossip' \in [Server -> [Key -> Seq(SUBSET Update)]]
      BY <2>1, <2>2, SMTT(30) DEF KInd, ThreadOK
    <2>4. pending_requests' \in [Server -> [Key -> Seq(Request)]]
      BY <2>1, <2>2, SMTT(30) DEF KInd, ThreadOK
    <2>5. ASSUME NEW p \in Server, NEW k \in Key, NEW i \in DOMAIN pending_requests'[p][k]
          PROVE  pending_requests'[p][k][i].key = Data(k)
      <3>1. CASE p[1] = n
        BY <2>1, <2>2, <2>5, <3>1, SMTT(30)
      <3>2. CASE p[1] # n
        BY <2>1, <2>5, <3>2, SMTT(30) DEF KInd, ThreadOK
      <3>q. QED BY <3>1, <3>2, SMTT(30)
    <2>q. QED BY <2>3, <2>4, <2>5
  <1>5. ThreadOK'
    BY <1>2, <1>3, <1>4 DEF ThreadOK
  <1>6. JoiningOK'
    BY Zenon DEF ServerCrash, KInd, JoiningOK, Idle
  <1>7. LoopOK' /\ DeadOK'
    <2>1. loop' = [p \in Server |-> IF p[1] = n THEN 0 ELSE loop[p]] /\ dead' \subseteq dead
      BY Zenon DEF ServerCrash
    <2>2. LoopOK'
      BY <2>1 DEF KInd, LoopOK
    <2>3. DeadOK'
      BY <2>1 DEF KInd, DeadOK
    <2>q. QED BY <2>2, <2>3
  <1>8. /\ requests' \subseteq requests /\ gossips' \subseteq gossips
        /\ responses' \subseteq responses /\ changes' \subseteq changes
    BY Zenon DEF ServerCrash
  <1>9. RequestsOK' /\ GossipsOK' /\ ResponsesOK' /\ ChangesOK'
    BY <1>8 DEF KInd, RequestsOK, GossipsOK, ResponsesOK, ChangesOK
  <1>10. TriesOK' /\ ChgOK'
    BY Zenon DEF ServerCrash, outside, KInd, TriesOK, ChgOK
  <1>q. QED BY <1>5, <1>6, <1>7, <1>9, <1>10, SMTT(30) DEF KInd

LEMMA ClientTyped == ASSUME KInd, NEW o \in Op, NEW p \in Server, ClientSend(o, p) PROVE KInd'
  <1> DEFINE q == [to |-> p, type |-> IF OpType[o] = "GET" THEN "GET" ELSE "PUT", key |-> Data(OpKey[o]),
                   load |-> IF OpType[o] = "GET" THEN {} ELSE {o}, from |-> <<o, tries[o] + 1>>]
  <1>1. Data(OpKey[o]) \in AllKey /\ ~ Data(OpKey[o]).meta
    BY KvsAssumption DEF Data, AllKey
  <1>2. tries[o] + 1 \in 1..MaxTries /\ tries \in [Op -> 0..MaxTries]
    <2>1. tries[o] < MaxTries
      BY Zenon DEF ClientSend
    <2>2. tries \in [Op -> 0..MaxTries] /\ MaxTries \in Nat
      BY KvsAssumption DEF KInd, TriesOK
    <2>q. QED BY <2>1, <2>2
  <1>3. <<o, tries[o] + 1>> \in Tag
    BY <1>2 DEF Tag
  <1>4. q \in Request
    BY <1>1, <1>3, Zenon DEF Request, Update
  <1>5. q.from \notin Server
    BY ChangeAssumption DEF Server
  <1>6. Asked(q)
    BY <1>1, <1>5, Zenon DEF Asked
  <1>7. requests' = requests \cup {q}
    BY Zenon DEF ClientSend
  <1> HIDE DEF q
  <1>8. RequestsOK'
    BY <1>4, <1>6, <1>7, SMTT(30) DEF KInd, RequestsOK
  <1>9. TriesOK'
    <2>1. tries' = [tries EXCEPT ![o] = @ + 1]
      BY Zenon DEF ClientSend
    <2>2. tries[o] + 1 \in 0..MaxTries
      BY <1>2, KvsAssumption
    <2>q. QED BY <1>2, <2>1, <2>2 DEF TriesOK
  <1>10. UNCHANGED <<thread, joining, loop, dead, gossips, responses, changes, chg>>
    BY Zenon DEF ClientSend
  <1>q. QED BY <1>8, <1>9, <1>10, ZenonT(30) DEF thread, joining, KInd, ThreadOK, JoiningOK, LoopOK, DeadOK,
              GossipsOK, ResponsesOK, ChangesOK, ChgOK

LEMMA MonitorTyped ==
    ASSUME KInd, NEW p \in MonitorThread, NEW c \in Change,
           MonitorStore(p, c) \/ MonitorTell(p, c) \/ MonitorTimeout(p, c)
    PROVE  KInd'
  <1>1. UNCHANGED <<thread, joining, loop, dead, gossips, responses, tries>>
    BY Zenon DEF MonitorStore, MonitorTell, MonitorTimeout, sockets
  <1>2. ThreadOK' /\ JoiningOK' /\ LoopOK' /\ DeadOK' /\ GossipsOK' /\ ResponsesOK' /\ TriesOK'
    BY <1>1, Zenon DEF thread, joining, KInd, ThreadOK, JoiningOK, LoopOK, DeadOK, GossipsOK, ResponsesOK, TriesOK
  <1>3. ChgOK'
    BY Zenon DEF MonitorStore, MonitorTell, MonitorTimeout, KInd, ChgOK
  <1>4. RequestsOK'
    <2>1. CASE requests' = requests
      BY <2>1 DEF KInd, RequestsOK
    <2>2. CASE requests' # requests
      <3>1. MonitorStore(p, c)
        BY <2>2, Zenon DEF MonitorTell, MonitorTimeout, sockets
      <3> DEFINE K == Meta(ChangeKey[c])
                 q(t) == [to |-> t, type |-> "PUT", key |-> K, load |-> {c}, from |-> <<c, 0>>]
      <3>2. \E t \in MetaThreads(ring[p], K) : requests' = requests \cup {q(t)}
        BY <2>2, <3>1, ZenonT(30) DEF MonitorStore
      <3>3. PICK t \in MetaThreads(ring[p], K) : requests' = requests \cup {q(t)}
        BY <3>2, SMTT(30)
      <3>4. K \in AllKey /\ K.meta
        BY KvsAssumption DEF Meta, AllKey
      <3>5. t \in Server
        BY <3>3, Zenon DEF MetaThreads, Replicas, FirstOf, TierRing, Members, Server
      <3>6. <<c, 0>> \in Tag
        BY SMTT(30) DEF Tag
      <3>7. q(t) \in Request
        BY <3>4, <3>5, <3>6, SMTT(30) DEF Request, Update
      <3>8. Asked(q(t))
        BY ChangeAssumption DEF Asked, Server
      <3> HIDE DEF q
      <3>q. QED BY <3>3, <3>7, <3>8 DEF KInd, RequestsOK
    <2>q. QED BY <2>1, <2>2
  <1>5. ChangesOK'
    <2>1. CASE changes' = changes
      BY <2>1, SMTT(30) DEF KInd, ChangesOK
    <2>2. CASE changes' # changes
      <3>1. MonitorTell(p, c)
        BY <2>2, Zenon DEF MonitorStore, MonitorTimeout, sockets
      <3>2. PICK told : told \subseteq Node /\ changes' = changes \cup {[to |-> t, change |-> c] : t \in Front(told)}
        BY <3>1, Zenon DEF MonitorTell, FirstOf, TierRing, Members
      <3>3. Front(told) \subseteq Server
        <4>1. 0 \in Tids
          BY MembershipAssumption DEF Tids
        <4>q. QED BY <3>2, <4>1, Zenon DEF Front, Server
      <3>4. ASSUME NEW t \in Front(told) PROVE [to |-> t, change |-> c] \in [to : Server, change : Change]
        BY <3>3
      <3>q. QED BY <3>2, <3>4, ZenonT(30) DEF KInd, ChangesOK
    <2>q. QED BY <2>1, <2>2
  <1>q. QED BY <1>2, <1>3, <1>4, <1>5 DEF KInd

LEMMA AsideTyped == ASSUME KInd, Aside PROVE KInd'
  BY ZenonT(30) DEF Aside, thread, joining, sockets, outside, KInd, ThreadOK, JoiningOK, LoopOK, DeadOK,
         RequestsOK, GossipsOK, ResponsesOK, ChangesOK, TriesOK, ChgOK

LEMMA InitTyped == KInit => KInd
  <1> SUFFICES ASSUME KInit PROVE KInd
    OBVIOUS
  <1>1. [K \in AllKey |-> {}] \in Value
    BY SMTT(30) DEF Value
  <1>2. ThreadOK
    BY <1>1, SMTT(30) DEF KInit, ThreadOK
  <1>q. QED BY <1>2, KvsAssumption DEF KInit, KInd, JoiningOK, Idle, LoopOK, DeadOK,
              RequestsOK, GossipsOK, ResponsesOK, ChangesOK, TriesOK, ChgOK

\* What the actions of KNext do, by the lemmas above.
LEMMA NextTyped == KInd /\ [KNext]_kvars => KInd'
  <1> SUFFICES ASSUME KInd, [KNext]_kvars PROVE KInd'
    OBVIOUS
  <1>1. CASE UNCHANGED kvars
    BY <1>1, AsideTyped, SMTT(30) DEF kvars, Aside
  <1>2. ASSUME NEW p \in Server, Serve(p) PROVE KInd'
    BY SMTT(30), <1>2, JoinTyped, DepartTyped, SelfDepartTyped, UserRequestTyped, GossipTyped, ResponseTyped,
       ChangeTyped, StuckTyped, PeriodicTyped, RedistributeTyped DEF Serve
  <1>3. ASSUME NEW p, Start(p) PROVE KInd'
    BY <1>3, AsideTyped DEF Start
  <1>4. ASSUME NEW p, NEW m, Bystander(p, m) PROVE KInd'
    BY <1>4, AsideTyped DEF Bystander
  <1>5. ASSUME NEW p, NEW n, Shrink(p, n) \/ ServerExit(n) PROVE KInd'
    BY <1>5, AsideTyped DEF Shrink, ServerExit
  <1>q. QED BY <1>1, <1>2, <1>3, <1>4, <1>5, CrashTyped, ClientTyped, MonitorTyped, SMTT(30) DEF KNext

LEMMA KInductive == KSpec => []KInd
  BY InitTyped, NextTyped, PTL DEF KSpec

(* No handler of a storage thread, no client and no policy action stores   *)
(* or sends a value of a wrong type, in particular no replication factor   *)
(* that was neither the default nor chosen by the monitor.                 *)
THEOREM KTypeCorrect == KSpec => []KTypeOK
  <1>1. KInd => KTypeOK
    <2> SUFFICES ASSUME KInd PROVE KTypeOK
      BY SMTT(30)
    <2>1. \A p \in Server, k \in Key :
            /\ \A i \in DOMAIN pending_requests[p][k] :
                 pending_requests[p][k][i] \in Request /\ pending_requests[p][k][i].key = Data(k)
            /\ \A i \in DOMAIN pending_gossip[p][k] : pending_gossip[p][k][i] \subseteq Update
      <3> SUFFICES ASSUME NEW p \in Server, NEW k \in Key
                   PROVE /\ \A i \in DOMAIN pending_requests[p][k] : pending_requests[p][k][i] \in Request
                         /\ \A i \in DOMAIN pending_gossip[p][k] : pending_gossip[p][k][i] \subseteq Update
        BY Zenon DEF KInd, ThreadOK
      <3>1. pending_requests[p][k] \in Seq(Request) /\ pending_gossip[p][k] \in Seq(SUBSET Update)
        BY DEF KInd, ThreadOK
      <3>q. QED BY <3>1
    <2>2. stored \in [Server -> [AllKey -> SUBSET Update]]
      BY DEF KInd, ThreadOK, Value
    <2>3. factor \in [Server -> [Key -> {DefaultFactor, NoFactor} \cup {ChangeFactor[c] : c \in Change}]]
      <3>1. Known \cup {NoFactor} = {DefaultFactor, NoFactor} \cup {ChangeFactor[c] : c \in Change}
        BY DEF Known
      <3>q. QED BY <3>1, Zenon DEF KInd, ThreadOK
    <2>4. gossips \subseteq [to : Server, data : [AllKey -> SUBSET Update]]
      BY DEF KInd, GossipsOK, Value
    <2>5. responses \subseteq [to : Server, key : Key, error : Error, load : SUBSET Update]
      BY DEF KInd, ResponsesOK, Update
    <2>q. QED BY <2>1, <2>2, <2>3, <2>4, <2>5, Zenon DEF KInd, ThreadOK, JoiningOK, LoopOK, DeadOK,
                RequestsOK, ChangesOK, TriesOK, ChgOK, KTypeOK
  <1>q. QED BY <1>1, KInductive, PTL

(* The handlers of the storage threads do more than Membership says: they  *)
(* look factors up, hand keys over, stop for ever in a walk or end the     *)
(* process.  Through all of it counts stay real, a running thread keeps    *)
(* its own node, only departed nodes are forgotten, and the views agree    *)
(* once the joins have been handled.                                       *)
THEOREM ServersKeepMembership ==
    KSpec => [](CountsReal /\ SelfInRing /\ ViewsAgree) /\ OnlyDepartedForgotten
  BY ServersImplementMembership, CountsAreReal, SelfStaysInRing, ViewsConverge, ForgetsOnlyDeparted, PTL

==============================================================================
