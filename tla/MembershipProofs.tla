-------------------------- MODULE MembershipProofs --------------------------
(***************************************************************************)
(* Proofs about Membership for any number of nodes, threads, restarts and  *)
(* departures: types, the own node in the ring, real join counts, what may *)
(* be forgotten, and that the views agree once the gossip has ended.       *)
(***************************************************************************)
EXTENDS Membership, TLAPS

(* What a message in flight promises: a join count was really used; a      *)
(* depart is about a node that has gone and never reaches that node; a     *)
(* request to depart reaches the node it names, and the workers of that    *)
(* node only once thread 0 has gone.                                       *)
Honest(m, st, ic) ==
    /\ m \in Message
    /\ m.kind = "join" => m.count <= ic[m.node]
    /\ m.kind = "depart" => st[<<m.node, 0>>] = "gone" /\ m.to[1] # m.node
    /\ m.kind = "self_depart" =>
          /\ m.to \in Server /\ m.to[1] = m.node
          /\ m.to[2] # 0 => st[<<m.node, 0>>] = "gone"

(* What a thread p in state s knows: only join counts that were used, its  *)
(* own node under its current count while it runs, nobody while it is off. *)
View == [Node -> Count \cup {Absent}]
Knows(p, s, view, ic) ==
    /\ view \in View
    /\ \A n \in Node : view[n] <= ic[n]
    /\ p \in Server /\ s \in {"seeded", "up"} => view[p[1]] = ic[p[1]]
    /\ s = "off" => \A n \in Node : view[n] = Absent

(* The inductive invariant.                                                *)
IndInv ==
    /\ status \in [Proc -> Status] /\ inc \in [Node -> Count]
    /\ ring \in [Proc -> View]
    /\ \A p \in Proc : Knows(p, status[p], ring[p], inc)
    /\ \A m \in mnet : Honest(m, status, inc)

-----------------------------------------------------------------------------
(* Threads and messages.                                                   *)

LEMMA ThreadFacts ==
    /\ 0 \in Tids /\ 0 \in Count
    /\ \A p \in Server : p \in Proc /\ p[1] \in Node /\ p[2] \in Tids /\ p = <<p[1], p[2]>>
    /\ \A n \in Node, t \in Tids : <<n, t>> \in Server
    /\ \A p \in RouterThread : p \in Proc /\ p[1] \in Router /\ p[1] \notin Node /\ p \notin Server
    /\ \A p \in MonitorThread : p \in Proc /\ p[1] \in Monitor /\ p[1] \notin Node /\ p \notin Server
    /\ <<SeedRouter, 0>> \in RouterThread
  BY MembershipAssumption DEF Tids, Count, Server, RouterThread, MonitorThread, Proc

LEMMA AddresseeFacts ==
    /\ \A N : N \subseteq Node \cup Router \cup Monitor =>
           \A q \in Front(N) : q \in Proc /\ q[1] \in N /\ q[2] = 0
    /\ \A n \in Node : \A q \in Workers(n) : q \in Server /\ q[1] = n /\ q[2] # 0
    /\ \A r \in Router : \A q \in RouterWorkers(r) : q \in RouterThread /\ q[1] = r
  <1>1. ASSUME NEW N, N \subseteq Node \cup Router \cup Monitor, NEW q \in Front(N)
        PROVE  q \in Proc /\ q[1] \in N /\ q[2] = 0
    BY <1>1, MembershipAssumption DEF Front, Proc, Server, RouterThread, MonitorThread, Tids
  <1>2. ASSUME NEW n \in Node, NEW q \in Workers(n)
        PROVE  q \in Server /\ q[1] = n /\ q[2] # 0
    BY <1>2, MembershipAssumption DEF Workers, Server, Tids
  <1>3. ASSUME NEW r \in Router, NEW q \in RouterWorkers(r)
        PROVE  q \in RouterThread /\ q[1] = r
    BY <1>3, MembershipAssumption DEF RouterWorkers, RouterThread
  <1>q. QED BY <1>1, <1>2, <1>3

LEMMA MsgFacts ==
    ASSUME NEW k \in Kind, NEW from \in Proc, NEW to \in Proc, NEW n \in Node, NEW c \in Count
    PROVE  /\ Msg(k, from, to, n, c) \in Message
           /\ Msg(k, from, to, n, c).kind = k
           /\ Msg(k, from, to, n, c).to = to
           /\ Msg(k, from, to, n, c).from = from
           /\ Msg(k, from, to, n, c).node = n
           /\ Msg(k, from, to, n, c).count = c
  BY DEF Msg, Message

LEMMA MessageFields ==
    \A m \in Message : m.kind \in Kind /\ m.from \in Proc /\ m.to \in Proc
                       /\ m.node \in Node /\ m.count \in Count
  BY DEF Message

-----------------------------------------------------------------------------
(* The ring of one thread.                                                 *)

LEMMA CountFacts ==
    /\ \A c \in Count : c \in Int /\ 0 <= c /\ c # Absent
    /\ Absent \in Int /\ \A c \in Count \cup {Absent} : c \in Int
  BY MembershipAssumption DEF Count, Absent

LEMMA EntryFacts ==
    ASSUME NEW v \in View, NEW n \in Node
    PROVE  v[n] \in Int /\ v[n] >= Absent /\ ~ (v[n] < v[n])
  <1>1. v[n] \in Count \cup {Absent}
    BY DEF View
  <1>2. Absent = -1 /\ \A c \in Count : c \in Int /\ 0 <= c
    BY CountFacts DEF Absent
  <1>3. v[n] \in Int /\ v[n] >= -1
    BY <1>1, <1>2
  <1>q. QED BY <1>2, <1>3

LEMMA InsertFacts ==
    ASSUME NEW v \in View, NEW n \in Node, NEW c \in Count
    PROVE  /\ Insert(v, n, c) \in View
           /\ Insert(v, n, c)[n] >= v[n]
           /\ Insert(v, n, c)[n] \in {c, v[n]}
           /\ v[n] >= c => Insert(v, n, c)[n] = v[n]
           /\ v[n] < c => Insert(v, n, c)[n] = c
           /\ \A i \in Node \ {n} : Insert(v, n, c)[i] = v[i]
  BY CountFacts DEF View, Insert, Inserts

LEMMA RemoveFacts ==
    ASSUME NEW v \in View, NEW n \in Node
    PROVE  /\ Remove(v, n) \in View
           /\ Remove(v, n)[n] = Absent
           /\ \A i \in Node \ {n} : Remove(v, n)[i] = v[i]
  BY DEF View, Remove

LEMMA MembersFacts == \A v : Members(v) \subseteq Node
  BY DEF Members

-----------------------------------------------------------------------------
(* The inductive invariant.                                                *)

LEMMA IndInvImplies == IndInv => TypeOK /\ SelfInRing /\ CountsReal
  <1> SUFFICES ASSUME IndInv PROVE TypeOK /\ SelfInRing /\ CountsReal
    OBVIOUS
  <1>1. TypeOK
    BY Zenon DEF IndInv, TypeOK, Honest, View
  <1>2. SelfInRing
    BY ThreadFacts DEF IndInv, SelfInRing, Knows
  <1>3. CountsReal
    BY Zenon DEF IndInv, CountsReal, Knows, Honest
  <1>q. QED BY <1>1, <1>2, <1>3

LEMMA InitIndInv == Init => IndInv
  <1> SUFFICES ASSUME Init PROVE IndInv
    OBVIOUS
  <1>1. status \in [Proc -> Status] /\ inc \in [Node -> Count]
    BY ThreadFacts DEF Init, Status
  <1>2. ring \in [Proc -> View]
    BY ThreadFacts DEF Init, View
  <1>3. ASSUME NEW p \in Proc PROVE Knows(p, status[p], ring[p], inc)
    <2>1. \A n \in Node : ring[p][n] = IF status[p] = "up" /\ n \in Initial THEN 0 ELSE Absent
      BY DEF Init
    <2>2. \A n \in Node : inc[n] = 0
      BY DEF Init
    <2>3. p \in Server => status[p] \in {"off", "up"} /\ (status[p] = "up" => p[1] \in Initial)
      BY DEF Init
    <2>4. ring[p] \in View
      BY <1>2
    <2>q. QED BY <2>1, <2>2, <2>3, <2>4, ThreadFacts DEF Knows, Absent
  <1>q. QED BY <1>1, <1>2, <1>3, Zenon DEF IndInv, Init

(* A step of one thread p: its state and ring may change, messages may be  *)
(* consumed and new honest ones sent.                                      *)
LEMMA LocalStep ==
    ASSUME IndInv, NEW p \in Proc, NEW s \in Status, NEW view, NEW new,
           status' = [status EXCEPT ![p] = s],
           ring' = [ring EXCEPT ![p] = view],
           inc' = inc,
           mnet' \subseteq mnet \cup new,
           status[p] = "gone" => s = "gone",
           Knows(p, s, view, inc),
           \A m \in new : Honest(m, status', inc)
    PROVE  IndInv'
  <1>1. status' \in [Proc -> Status] /\ inc' \in [Node -> Count]
    BY DEF IndInv
  <1>2. ring' \in [Proc -> View]
    BY DEF IndInv, Knows
  <1>3. \A q \in Proc : Knows(q, status'[q], ring'[q], inc')
    <2> TAKE q \in Proc
    <2>1. CASE q = p
      BY <2>1 DEF IndInv
    <2>2. CASE q # p
      BY <2>2 DEF IndInv
    <2>q. QED BY <2>1, <2>2
  <1>4. \A x \in Proc : status[x] = "gone" => status'[x] = "gone"
    BY DEF IndInv
  <1>5. \A m \in mnet' : Honest(m, status', inc')
    <2> TAKE m \in mnet'
    <2>1. CASE m \in new
      BY <2>1, Zenon
    <2>2. CASE m \in mnet
      <3>1. Honest(m, status, inc)
        BY <2>2 DEF IndInv
      <3>2. <<m.node, 0>> \in Proc
        BY <3>1, MessageFields, ThreadFacts DEF Honest
      <3>q. QED BY <3>1, <3>2, <1>4 DEF Honest
    <2>q. QED BY <2>1, <2>2
  <1>q. QED BY <1>1, <1>2, <1>3, <1>5, Zenon DEF IndInv

LEMMA SilentStep ==
    ASSUME IndInv, NEW p \in Proc, NEW s \in Status, NEW view,
           status' = [status EXCEPT ![p] = s],
           ring' = [ring EXCEPT ![p] = view],
           inc' = inc,
           mnet' \subseteq mnet,
           status[p] = "gone" => s = "gone",
           Knows(p, s, view, inc)
    PROVE  IndInv'
  <1> DEFINE new == {}
  <1>1. mnet' \subseteq mnet \cup new /\ \A m \in new : Honest(m, status', inc)
    OBVIOUS
  <1> HIDE DEF new
  <1>q. QED BY <1>1, LocalStep, Zenon

(* What an up thread that receives a message may rely on.                  *)
LEMMA ReceiverFacts ==
    ASSUME IndInv, NEW p \in Proc, NEW m, NEW k, Receives(p, m, k)
    PROVE  /\ Knows(p, "up", ring[p], inc) /\ ring[p] \in View
           /\ Honest(m, status, inc) /\ m.node \in Node /\ m.count \in Count /\ m.from \in Proc
           /\ m.to = p /\ m.kind = k
           /\ status = [status EXCEPT ![p] = "up"] /\ status[p] = "up"
           /\ \A n \in Node : inc[n] \in Count
  <1>1. Honest(m, status, inc) /\ m.to = p /\ m.kind = k /\ status[p] = "up"
    BY DEF Receives, IndInv
  <1>2. m.node \in Node /\ m.count \in Count /\ m.from \in Proc
    BY <1>1, MessageFields DEF Honest
  <1>3. Knows(p, "up", ring[p], inc) /\ ring[p] \in View
    BY <1>1 DEF IndInv
  <1>4. status = [status EXCEPT ![p] = "up"]
    BY <1>1 DEF IndInv
  <1>q. QED BY <1>1, <1>2, <1>3, <1>4 DEF IndInv

(* Inserting an honest count keeps what a thread knows true.               *)
LEMMA InsertKeepsKnows ==
    ASSUME NEW p \in Proc, NEW view, NEW ic \in [Node -> Count], Knows(p, "up", view, ic),
           NEW n \in Node, NEW c \in Count, c <= ic[n]
    PROVE  Knows(p, "up", Insert(view, n, c), ic)
  <1> DEFINE w == Insert(view, n, c)
  <1>1. view \in View
    BY DEF Knows
  <1>2. /\ w \in View
        /\ w[n] \in {c, view[n]}
        /\ view[n] >= c => w[n] = view[n]
        /\ \A i \in Node \ {n} : w[i] = view[i]
    BY <1>1, InsertFacts
  <1>3. \A i \in Node : w[i] <= ic[i]
    BY <1>2 DEF Knows
  <1>4. p \in Server => w[p[1]] = ic[p[1]]
    BY <1>2, ThreadFacts DEF Knows
  <1>q. QED BY <1>2, <1>3, <1>4 DEF Knows

LEMMA RemoveKeepsKnows ==
    ASSUME NEW p \in Proc, NEW view, NEW ic \in [Node -> Count], Knows(p, "up", view, ic),
           NEW n \in Node, NEW s \in {"up", "gone"}, p \in Server /\ s = "up" => n # p[1]
    PROVE  Knows(p, s, Remove(view, n), ic)
  <1> DEFINE w == Remove(view, n)
  <1>1. view \in View
    BY DEF Knows
  <1>2. w \in View /\ w[n] = Absent /\ \A i \in Node \ {n} : w[i] = view[i]
    BY <1>1, RemoveFacts
  <1>3. \A i \in Node : w[i] <= ic[i]
    BY <1>2, CountFacts DEF Knows, Absent
  <1>q. QED BY <1>2, <1>3, ThreadFacts DEF Knows

LEMMA SeedStep == ASSUME IndInv, NEW p \in Proc, Seed(p) PROVE IndInv'
  <1> DEFINE known == [n \in Node |->
                         IF n \in Members(ring[<<SeedRouter, 0>>]) THEN 0 ELSE Absent]
             view == Insert(known, p[1], inc[p[1]])
  <1>1. p \in Server /\ p[1] \in Node /\ inc[p[1]] \in Count /\ inc \in [Node -> Count]
    BY ThreadFacts DEF Seed, IndInv
  <1>2. known \in View
    BY ThreadFacts DEF View
  <1>3. \A n \in Node : known[n] \in Int /\ known[n] <= 0
    BY DEF Absent
  <1> HIDE DEF known
  <1>4. /\ view \in View
        /\ view[p[1]] >= known[p[1]]
        /\ view[p[1]] \in {inc[p[1]], known[p[1]]}
        /\ known[p[1]] < inc[p[1]] => view[p[1]] = inc[p[1]]
        /\ \A i \in Node \ {p[1]} : view[i] = known[i]
    BY <1>1, <1>2, InsertFacts
  <1> HIDE DEF view
  <1>5. view[p[1]] = inc[p[1]]
    BY <1>1, <1>3, <1>4, CountFacts
  <1>6. \A n \in Node : view[n] <= inc[n]
    <2> TAKE n \in Node
    <2>1. inc[n] \in Count
      BY <1>1
    <2>q. QED BY <2>1, <1>3, <1>4, <1>5, CountFacts
  <1>7. Knows(p, "seeded", view, inc)
    BY <1>4, <1>5, <1>6 DEF Knows
  <1>8. /\ status' = [status EXCEPT ![p] = "seeded"] /\ status[p] # "gone"
        /\ ring' = [ring EXCEPT ![p] = view] /\ inc' = inc /\ mnet' = mnet
    BY DEF Seed, known, view
  <1>9. "seeded" \in Status
    BY DEF Status
  <1>q. QED BY <1>7, <1>8, <1>9, SilentStep, Zenon

LEMMA AnnounceStep == ASSUME IndInv, NEW p \in Proc, Announce(p) PROVE IndInv'
  <1> DEFINE new == {Msg("join", p, q, p[1], inc[p[1]]) :
                       q \in Front((Members(ring[p]) \ {p[1]}) \cup Router \cup Monitor)}
  <1>1. p \in Server /\ p[1] \in Node /\ inc[p[1]] \in Count
    BY ThreadFacts DEF Announce, IndInv
  <1>2. Knows(p, "seeded", ring[p], inc)
    BY DEF Announce, IndInv
  <1>3. Knows(p, "up", ring[p], inc)
    BY <1>2 DEF Knows
  <1>4. \A m \in new : Honest(m, status', inc)
    <2> TAKE m \in new
    <2>1. PICK q \in Front((Members(ring[p]) \ {p[1]}) \cup Router \cup Monitor) :
              m = Msg("join", p, q, p[1], inc[p[1]])
      OBVIOUS
    <2>2. q \in Proc
      BY AddresseeFacts, MembersFacts
    <2>3. m \in Message /\ m.kind = "join" /\ m.node = p[1] /\ m.count = inc[p[1]]
      BY <1>1, <2>1, <2>2, MsgFacts DEF Kind
    <2>q. QED BY <2>3, <1>1, CountFacts DEF Honest
  <1>5. /\ status' = [status EXCEPT ![p] = "up"] /\ status[p] # "gone"
        /\ ring' = [ring EXCEPT ![p] = ring[p]] /\ inc' = inc /\ mnet' \subseteq mnet \cup new
    BY Zenon DEF Announce, IndInv
  <1>q. QED BY <1>3, <1>4, <1>5, LocalStep, Zenon DEF Status

(* Messages a thread may send: joins with an honest count, departs of a    *)
(* node that has gone, departure requests and their acknowledgements.      *)
LEMMA HonestJoin ==
    ASSUME NEW from \in Proc, NEW to \in Proc, NEW n \in Node, NEW c \in Count, NEW st, NEW ic,
           c <= ic[n]
    PROVE  Honest(Msg("join", from, to, n, c), st, ic)
  BY MsgFacts DEF Honest, Kind

LEMMA HonestDepart ==
    ASSUME NEW from \in Proc, NEW to \in Proc, NEW n \in Node, NEW st, NEW ic,
           st[<<n, 0>>] = "gone", to[1] # n
    PROVE  Honest(Msg("depart", from, to, n, 0), st, ic)
  <1> DEFINE msg == Msg("depart", from, to, n, 0)
  <1>1. /\ msg \in Message /\ msg.kind = "depart"
        /\ msg.to = to /\ msg.node = n /\ msg.count = 0
    BY MsgFacts, ThreadFacts DEF Kind
  <1> HIDE DEF msg
  <1>2. Honest(msg, st, ic)
    BY <1>1 DEF Honest
  <1>q. QED BY <1>2 DEF msg

LEMMA HonestSelfDepart ==
    ASSUME NEW from \in Proc, NEW to \in Server, NEW st, NEW ic,
           to[2] # 0 => st[<<to[1], 0>>] = "gone"
    PROVE  Honest(Msg("self_depart", from, to, to[1], 0), st, ic)
  <1> DEFINE msg == Msg("self_depart", from, to, to[1], 0)
  <1>1. /\ msg \in Message /\ msg.kind = "self_depart"
        /\ msg.to = to /\ msg.node = to[1] /\ msg.count = 0
    BY MsgFacts, ThreadFacts DEF Kind
  <1> HIDE DEF msg
  <1>2. Honest(msg, st, ic)
    BY <1>1 DEF Honest
  <1>q. QED BY <1>2 DEF msg

LEMMA HonestDone ==
    ASSUME NEW from \in Proc, NEW to \in Proc, NEW n \in Node, NEW st, NEW ic
    PROVE  Honest(Msg("depart_done", from, to, n, 0), st, ic)
  BY MsgFacts, ThreadFacts DEF Honest, Kind

LEMMA NodeJoinStep == ASSUME IndInv, NEW p \in Proc, NEW m, NodeJoin(p, m) PROVE IndInv'
  <1> DEFINE view == Insert(ring[p], m.node, m.count)
             others == Front(Members(view) \ {p[1], m.node}) \cup Workers(p[1])
             new == {Msg("join", p, <<m.node, 0>>, p[1], inc[p[1]])}
                    \cup {Msg("join", p, q, m.node, m.count) : q \in others}
  <1>1. p \in Server /\ Receives(p, m, "join")
    BY DEF NodeJoin
  <1>2. /\ Knows(p, "up", ring[p], inc) /\ Honest(m, status, inc) /\ m.kind = "join"
        /\ m.node \in Node /\ m.count \in Count
        /\ status = [status EXCEPT ![p] = "up"] /\ status[p] = "up"
    BY <1>1, ReceiverFacts
  <1>3. m.count <= inc[m.node] /\ inc \in [Node -> Count] /\ p[1] \in Node
    BY <1>1, <1>2, ThreadFacts DEF Honest, IndInv
  <1>4. Knows(p, "up", view, inc)
    BY <1>2, <1>3, InsertKeepsKnows
  <1>5. others \subseteq Proc
    BY <1>3, AddresseeFacts, MembersFacts, ThreadFacts
  <1>6. \A x \in new : Honest(x, status', inc)
    <2>1. Honest(Msg("join", p, <<m.node, 0>>, p[1], inc[p[1]]), status', inc)
      BY <1>2, <1>3, HonestJoin, ThreadFacts, CountFacts
    <2>2. \A q \in others : Honest(Msg("join", p, q, m.node, m.count), status', inc)
      BY <1>2, <1>3, <1>5, HonestJoin
    <2>q. QED BY <2>1, <2>2
  <1>7. /\ status' = [status EXCEPT ![p] = "up"] /\ inc' = inc
        /\ ring' = [ring EXCEPT ![p] = view] /\ mnet' \subseteq mnet \cup new
    <2>1. status' = status /\ inc' = inc /\ ring' = [ring EXCEPT ![p] = view]
      BY DEF NodeJoin
    <2>2. ring'[p] = view
      BY <2>1 DEF IndInv
    <2>q. QED BY <1>2, <2>1, <2>2, Zenon DEF NodeJoin, JoinGossip
  <1>8. "up" \in Status
    BY DEF Status
  <1> HIDE DEF view, new
  <1>q. QED BY <1>2, <1>4, <1>6, <1>7, <1>8, LocalStep, Zenon

LEMMA NodeDepartStep == ASSUME IndInv, NEW p \in Proc, NEW m, NodeDepart(p, m) PROVE IndInv'
  <1> DEFINE view == Remove(ring[p], m.node)
             new == {Msg("depart", p, q, m.node, 0) : q \in Workers(p[1])}
  <1>1. p \in Server /\ Receives(p, m, "depart")
    BY DEF NodeDepart
  <1>2. /\ Knows(p, "up", ring[p], inc) /\ Honest(m, status, inc) /\ m.kind = "depart"
        /\ m.node \in Node /\ m.to = p
        /\ status = [status EXCEPT ![p] = "up"] /\ status[p] = "up"
    BY <1>1, ReceiverFacts
  <1>3. p[1] # m.node /\ status[<<m.node, 0>>] = "gone" /\ p[1] \in Node /\ inc \in [Node -> Count]
    BY <1>1, <1>2, ThreadFacts DEF Honest, IndInv
  <1>4. Knows(p, "up", view, inc)
    BY <1>2, <1>3, RemoveKeepsKnows
  <1>5. /\ status' = status /\ inc' = inc
        /\ ring' = [ring EXCEPT ![p] = view] /\ mnet' \subseteq mnet \cup new
    BY DEF NodeDepart
  <1>6. \A x \in new : Honest(x, status', inc)
    <2>1. \A q \in Workers(p[1]) : q \in Proc /\ q[1] = p[1]
      BY <1>3, AddresseeFacts, ThreadFacts
    <2>q. QED BY <2>1, <1>2, <1>3, <1>5, HonestDepart
  <1>7. "up" \in Status
    BY DEF Status
  <1> HIDE DEF view, new
  <1>q. QED BY <1>2, <1>4, <1>5, <1>6, <1>7, LocalStep, Zenon

LEMMA SelfDepartStep == ASSUME IndInv, NEW p \in Proc, NEW m, SelfDepart(p, m) PROVE IndInv'
  <1> DEFINE view == Remove(ring[p], p[1])
             others == Front(Members(view) \cup Router \cup Monitor)
             done == Msg("depart_done", p, m.from, p[1], 0)
             departs == {Msg("depart", p, q, p[1], 0) : q \in others}
             requests == {Msg("self_depart", m.from, q, p[1], 0) : q \in Workers(p[1])}
             new == {done} \cup (IF p[2] = 0 THEN departs \cup requests ELSE {})
  <1>1. p \in Server /\ Receives(p, m, "self_depart")
    BY DEF SelfDepart
  <1>2. /\ Knows(p, "up", ring[p], inc) /\ m.from \in Proc /\ ring[p] \in View
        /\ status[p] = "up" /\ p[1] \in Node /\ inc \in [Node -> Count] /\ p = <<p[1], p[2]>>
    BY <1>1, ReceiverFacts, ThreadFacts DEF IndInv
  <1>3. Knows(p, "gone", view, inc)
    BY <1>2, RemoveKeepsKnows
  <1>4. /\ status' = [status EXCEPT ![p] = "gone"] /\ inc' = inc
        /\ ring' = [ring EXCEPT ![p] = view] /\ mnet' \subseteq mnet \cup new
    <2>1. status' = [status EXCEPT ![p] = "gone"] /\ inc' = inc /\ ring' = [ring EXCEPT ![p] = view]
      BY DEF SelfDepart
    <2>2. ring'[p] = view
      BY <2>1 DEF IndInv
    <2>q. QED BY <2>1, <2>2, SMTT(30) DEF SelfDepart
  <1>5. \A x \in new : Honest(x, status', inc)
    <2>1. Honest(done, status', inc)
      BY <1>2, HonestDone, SMTT(30)
    <2>2. ASSUME p[2] = 0 PROVE \A x \in departs \cup requests : Honest(x, status', inc)
      <3>1. status'[<<p[1], 0>>] = "gone"
        BY <2>2, <1>2, <1>4 DEF IndInv
      <3>2. p[1] \notin Members(view)
        BY <1>2, RemoveFacts DEF Members
      <3>3. \A q \in others : q \in Proc /\ q[1] # p[1]
        BY <1>2, <3>2, AddresseeFacts, MembersFacts, MembershipAssumption
      <3>4. \A x \in departs : Honest(x, status', inc)
        <4> HIDE DEF others
        <4>q. QED BY <3>1, <3>3, <1>2, HonestDepart
      <3>5. \A q \in Workers(p[1]) : q \in Server /\ q[1] = p[1]
        BY <1>2, AddresseeFacts
      <3>6. \A x \in requests : Honest(x, status', inc)
        BY <3>1, <3>5, <1>2, HonestSelfDepart, Zenon
      <3>q. QED BY <3>4, <3>6
    <2> HIDE DEF done, departs, requests
    <2>q. QED BY <2>1, <2>2
  <1>6. "gone" \in Status
    BY DEF Status
  <1> HIDE DEF view, new
  <1>q. QED BY <1>3, <1>4, <1>5, <1>6, LocalStep, Zenon

LEMMA RouteJoinStep == ASSUME IndInv, NEW p \in Proc, NEW m, RouteJoin(p, m) PROVE IndInv'
  <1> DEFINE view == Insert(ring[p], m.node, m.count)
             others == Front(Members(view) \ {m.node}) \cup RouterWorkers(p[1])
             new == {Msg("join", p, q, m.node, m.count) : q \in others}
  <1>1. p \in RouterThread /\ Receives(p, m, "join")
    BY DEF RouteJoin
  <1>2. /\ Knows(p, "up", ring[p], inc) /\ Honest(m, status, inc) /\ m.kind = "join"
        /\ m.node \in Node /\ m.count \in Count
        /\ status = [status EXCEPT ![p] = "up"] /\ status[p] = "up"
    BY <1>1, ReceiverFacts
  <1>3. m.count <= inc[m.node] /\ inc \in [Node -> Count] /\ p[1] \in Router
    BY <1>1, <1>2, ThreadFacts, SMTT(30) DEF Honest, IndInv
  <1>4. Knows(p, "up", view, inc)
    BY <1>2, <1>3, InsertKeepsKnows
  <1>5. others \subseteq Proc
    BY <1>3, AddresseeFacts, MembersFacts, ThreadFacts
  <1>6. \A x \in new : Honest(x, status', inc)
    <2> HIDE DEF others
    <2>q. QED BY <1>2, <1>3, <1>5, HonestJoin
  <1>7. /\ status' = status /\ inc' = inc
        /\ ring' = [ring EXCEPT ![p] = view] /\ mnet' \subseteq mnet \cup new
    <2>1. status' = status /\ inc' = inc /\ ring' = [ring EXCEPT ![p] = view]
      BY DEF RouteJoin
    <2>2. ring'[p] = view
      BY <2>1 DEF IndInv
    <2>q. QED BY <2>1, <2>2, SMTT(30) DEF RouteJoin
  <1>8. "up" \in Status
    BY DEF Status
  <1> HIDE DEF view, new
  <1>q. QED BY <1>2, <1>4, <1>6, <1>7, <1>8, LocalStep, Zenon

LEMMA RouteDepartStep == ASSUME IndInv, NEW p \in Proc, NEW m, RouteDepart(p, m) PROVE IndInv'
  <1> DEFINE view == Remove(ring[p], m.node)
             new == {Msg("depart", p, q, m.node, 0) : q \in RouterWorkers(p[1])}
  <1>1. p \in RouterThread /\ Receives(p, m, "depart")
    BY DEF RouteDepart
  <1>2. /\ Knows(p, "up", ring[p], inc) /\ Honest(m, status, inc) /\ m.kind = "depart"
        /\ m.node \in Node
        /\ status = [status EXCEPT ![p] = "up"] /\ status[p] = "up"
    BY <1>1, ReceiverFacts
  <1>3. /\ status[<<m.node, 0>>] = "gone" /\ p[1] \in Router /\ p \notin Server
        /\ inc \in [Node -> Count]
    BY <1>1, <1>2, ThreadFacts DEF Honest, IndInv
  <1>4. Knows(p, "up", view, inc)
    BY <1>2, <1>3, RemoveKeepsKnows
  <1>5. /\ status' = status /\ inc' = inc
        /\ ring' = [ring EXCEPT ![p] = view] /\ mnet' \subseteq mnet \cup new
    BY DEF RouteDepart
  <1>6. \A x \in new : Honest(x, status', inc)
    <2>1. \A q \in RouterWorkers(p[1]) : q \in Proc /\ q[1] # m.node
      BY <1>2, <1>3, AddresseeFacts, ThreadFacts
    <2>q. QED BY <2>1, <1>2, <1>3, <1>5, HonestDepart
  <1>7. "up" \in Status
    BY DEF Status
  <1> HIDE DEF view, new
  <1>q. QED BY <1>2, <1>4, <1>5, <1>6, <1>7, LocalStep, Zenon

LEMMA MonitorStep ==
    ASSUME IndInv, NEW p \in Proc, NEW m,
           MonitorJoin(p, m) \/ MonitorDepart(p, m) \/ DepartDone(p, m)
    PROVE  IndInv'
  <1>0. "up" \in Status /\ "killed" \in Status /\ 0 \in Count /\ inc \in [Node -> Count]
    BY ThreadFacts DEF Status, IndInv
  <1>1. CASE MonitorJoin(p, m)
    <2>1. /\ Knows(p, "up", ring[p], inc) /\ m.node \in Node /\ 0 <= inc[m.node]
          /\ status = [status EXCEPT ![p] = "up"] /\ status[p] = "up"
      BY <1>1, ReceiverFacts, CountFacts DEF MonitorJoin
    <2>2. Knows(p, "up", Insert(ring[p], m.node, 0), inc)
      BY <1>0, <2>1, InsertKeepsKnows
    <2>q. QED BY <1>0, <1>1, <2>1, <2>2, SilentStep, Zenon DEF MonitorJoin
  <1>2. CASE MonitorDepart(p, m)
    <2>1. /\ Knows(p, "up", ring[p], inc) /\ m.node \in Node /\ p \notin Server
          /\ status = [status EXCEPT ![p] = "up"] /\ status[p] = "up"
      BY <1>2, ReceiverFacts, ThreadFacts DEF MonitorDepart
    <2>2. Knows(p, "up", Remove(ring[p], m.node), inc)
      BY <1>0, <2>1, RemoveKeepsKnows
    <2>q. QED BY <1>0, <1>2, <2>1, <2>2, SilentStep, Zenon DEF MonitorDepart
  <1>3. CASE DepartDone(p, m)
    <2>1. Knows(p, "up", ring[p], inc) /\ status[p] = "up" /\ p \notin Server
      BY <1>3, ReceiverFacts, ThreadFacts DEF DepartDone
    <2>2. Knows(p, "killed", ring[p], inc)
      BY <2>1 DEF Knows
    <2>3. ring' = [ring EXCEPT ![p] = ring[p]]
      BY <1>3 DEF DepartDone, IndInv
    <2>q. QED BY <1>0, <1>3, <2>1, <2>2, <2>3, SilentStep, Zenon DEF DepartDone
  <1>q. QED BY <1>1, <1>2, <1>3

LEMMA RemoveNodeStep ==
    ASSUME IndInv, NEW p \in Proc, NEW n \in Node, RemoveNode(p, n) PROVE IndInv'
  <1> DEFINE new == {Msg("self_depart", p, <<n, 0>>, n, 0)}
  <1>1. /\ status' = [status EXCEPT ![p] = "up"] /\ ring' = [ring EXCEPT ![p] = ring[p]]
        /\ inc' = inc /\ mnet' = mnet \cup new /\ status[p] = "up"
        /\ Knows(p, "up", ring[p], inc)
    BY DEF RemoveNode, IndInv
  <1>2. <<n, 0>> \in Server
    BY ThreadFacts
  <1>3. \A x \in new : Honest(x, status', inc)
    <2> DEFINE to == <<n, 0>>
    <2>1. to \in Server /\ to[2] = 0 /\ to[1] = n
      BY <1>2
    <2> HIDE DEF to
    <2>2. Honest(Msg("self_depart", p, to, to[1], 0), status', inc)
      BY <2>1, HonestSelfDepart, Zenon
    <2>q. QED BY <2>1, <2>2 DEF to
  <1>4. "up" \in Status
    BY DEF Status
  <1> HIDE DEF new
  <1>q. QED BY <1>1, <1>3, <1>4, LocalStep, Zenon

LEMMA ProcessExitStep == ASSUME IndInv, NEW n \in Node, ProcessExit(n) PROVE IndInv'
  <1>1. <<n, 1>> \in Proc
    BY MembershipAssumption, ThreadFacts DEF ProcessExit, Tids
  <1>2. Knows(<<n, 1>>, status[<<n, 1>>], ring[<<n, 1>>], inc)
    BY <1>1 DEF IndInv
  <1>3. Knows(<<n, 1>>, "killed", ring[<<n, 1>>], inc)
    BY <1>2 DEF Knows
  <1>4. /\ status' = [status EXCEPT ![<<n, 1>>] = "killed"] /\ status[<<n, 1>>] # "gone"
        /\ ring' = [ring EXCEPT ![<<n, 1>>] = ring[<<n, 1>>]] /\ inc' = inc /\ mnet' = mnet
    BY <1>1 DEF ProcessExit, IndInv
  <1>5. "killed" \in Status
    BY DEF Status
  <1>q. QED BY <1>1, <1>3, <1>4, <1>5, SilentStep, Zenon

LEMMA CrashStep == ASSUME IndInv, NEW n \in Node, Crash(n) PROVE IndInv'
  <1>1. inc' = [inc EXCEPT ![n] = inc[n] + 1] /\ inc \in [Node -> Count] /\ inc[n] < MaxCount
    BY DEF Crash, IndInv
  <1>2. inc' \in [Node -> Count] /\ \A i \in Node : inc[i] <= inc'[i] /\ (i # n => inc'[i] = inc[i])
    BY <1>1, MembershipAssumption, SMTT(30) DEF Count
  <1>3. /\ status' = [p \in Proc |-> IF p \in Server /\ p[1] = n THEN "off" ELSE status[p]]
        /\ ring' = [p \in Proc |-> IF p \in Server /\ p[1] = n
                                     THEN [i \in Node |-> Absent] ELSE ring[p]]
        /\ mnet' \subseteq mnet
    BY DEF Crash
  <1>4. [i \in Node |-> Absent] \in View
    BY DEF View
  <1>5. status' \in [Proc -> Status] /\ ring' \in [Proc -> View]
    BY <1>3, <1>4 DEF IndInv, Status
  <1>6. ASSUME NEW p \in Proc PROVE Knows(p, status'[p], ring'[p], inc')
    <2>1. CASE p \in Server /\ p[1] = n
      <3>1. status'[p] = "off" /\ ring'[p] = [i \in Node |-> Absent]
        BY <2>1, <1>3
      <3>2. \A i \in Node : ring'[p][i] = Absent /\ Absent <= inc'[i]
        BY <3>1, <1>2, CountFacts, SMTT(30) DEF Absent
      <3>q. QED BY <3>1, <3>2, <1>4 DEF Knows
    <2>2. CASE ~ (p \in Server /\ p[1] = n)
      <3>1. status'[p] = status[p] /\ ring'[p] = ring[p]
        BY <2>2, <1>3
      <3>2. Knows(p, status[p], ring[p], inc)
        BY DEF IndInv
      <3>3. \A i \in Node : ring[p][i] \in Int /\ inc[i] \in Int /\ inc'[i] \in Int
        BY <1>1, <1>2, <3>2, CountFacts, SMTT(30) DEF Knows, View
      <3>q. QED BY <2>2, <1>2, <3>1, <3>2, <3>3, ThreadFacts DEF Knows
    <2>q. QED BY <2>1, <2>2
  <1>7. ASSUME NEW m \in mnet' PROVE Honest(m, status', inc')
    <2>1. Honest(m, status, inc)
      BY <1>3 DEF IndInv
    <2>2. m.node \in Node /\ m.count \in Count /\ <<m.node, 0>> \in Server
      BY <2>1, MessageFields, ThreadFacts DEF Honest
    <2>3. m.kind = "join" => m.count <= inc'[m.node]
      BY <2>1, <2>2, <1>1, <1>2, CountFacts DEF Honest
    <2>4. status[<<m.node, 0>>] = "gone" => status'[<<m.node, 0>>] = "gone"
      <3>1. status[<<n, 0>>] # "gone"
        BY DEF Crash
      <3>q. QED BY <3>1, <2>2, <1>3, ThreadFacts
    <2>q. QED BY <2>1, <2>3, <2>4 DEF Honest
  <1>q. QED BY <1>2, <1>5, <1>6, <1>7, SMTT(30) DEF IndInv

LEMMA NextIndInv == IndInv /\ [Next]_mvars => IndInv'
  <1> SUFFICES ASSUME IndInv, [Next]_mvars PROVE IndInv'
    OBVIOUS
  <1>1. CASE UNCHANGED mvars
    BY <1>1 DEF mvars, IndInv
  <1>2. ASSUME NEW p \in Proc, Seed(p) PROVE IndInv'
    BY <1>2, SeedStep
  <1>3. ASSUME NEW p \in Proc, Announce(p) PROVE IndInv'
    BY <1>3, AnnounceStep
  <1>4. ASSUME NEW p \in Proc, Handle(p) PROVE IndInv'
    <2>1. PICK m \in mnet :
              \/ NodeJoin(p, m) \/ NodeDepart(p, m) \/ SelfDepart(p, m)
              \/ RouteJoin(p, m) \/ RouteDepart(p, m)
              \/ MonitorJoin(p, m) \/ MonitorDepart(p, m) \/ DepartDone(p, m)
      BY <1>4 DEF Handle
    <2>q. QED BY <2>1, NodeJoinStep, NodeDepartStep, SelfDepartStep,
                 RouteJoinStep, RouteDepartStep, MonitorStep
  <1>5. ASSUME NEW p \in Proc, NEW n \in Node, RemoveNode(p, n) PROVE IndInv'
    BY <1>5, RemoveNodeStep
  <1>6. ASSUME NEW n \in Node, ProcessExit(n) \/ Crash(n) PROVE IndInv'
    BY <1>6, ProcessExitStep, CrashStep
  <1>q. QED BY <1>1, <1>2, <1>3, <1>4, <1>5, <1>6 DEF Next

LEMMA Inductive == Spec => []IndInv
  BY InitIndInv, NextIndInv, PTL DEF Spec

-----------------------------------------------------------------------------
(* The theorems.                                                           *)

(* Type correctness: statuses, join counts, rings and messages stay in     *)
(* their types, whatever the cluster.                                      *)
THEOREM TypeCorrect == Spec => []TypeOK
  BY Inductive, IndInvImplies, PTL

(* No message sequence makes a serving thread drop or demote its own node  *)
(* (node_join_handler, node_depart_handler, self_depart_handler).          *)
THEOREM SelfStaysInRing == Spec => []SelfInRing
  BY Inductive, IndInvImplies, PTL

(* Join counts known or in flight were really used by their node           *)
(* (HashRing::insert, the join handlers and the restart of a node).        *)
THEOREM CountsAreReal == Spec => []CountsReal
  BY Inductive, IndInvImplies, PTL

(* A ring entry only moves to a later join count, and a running thread     *)
(* loses one only for a node whose thread 0 has departed.                  *)
THEOREM ForgetsOnlyDeparted == Spec => OnlyDepartedForgotten
  <1> DEFINE Step == \A p \in Proc, n \in Node : RingStep(p, n)
  <1>1. IndInv /\ [Next]_mvars => [Step]_mvars
    <2> SUFFICES ASSUME IndInv, [Next]_mvars, ~ UNCHANGED mvars, NEW q \in Proc, NEW i \in Node,
                        ring'[q][i] < ring[q][i]
                 PROVE  /\ ring'[q][i] = Absent
                        /\ status'[<<i, 0>>] = "gone" \/ status'[q] = "off"
      BY DEF RingStep
    <2>0. /\ Next /\ ring \in [Proc -> View] /\ inc \in [Node -> Count]
          /\ ring[q][i] \in Int /\ ~ (ring[q][i] < ring[q][i])
      <3>1. Next /\ ring \in [Proc -> View] /\ inc \in [Node -> Count]
        BY DEF IndInv
      <3>2. ring[q] \in View
        BY <3>1
      <3>q. QED BY <3>1, <3>2, EntryFacts
    <2>1. ASSUME NEW p \in Proc, Seed(p) PROVE FALSE
      <3>1. q = p /\ ring[p][i] = Absent
        BY <2>0, <2>1, SMTT(30) DEF Seed, IndInv, Knows
      <3>2. ring' \in [Proc -> View]
        BY <2>1, SeedStep DEF IndInv
      <3>3. ring'[q] \in View
        BY <3>2, SMTT(30)
      <3>4. ring'[q][i] \in Int /\ ring'[q][i] >= Absent
        BY <3>3, EntryFacts, SMTT(30)
      <3>q. QED BY <3>1, <3>4, CountFacts, SMTT(30)
    <2>2. ASSUME NEW p \in Proc, Announce(p) PROVE FALSE
      BY <2>0, <2>2, SMTT(30) DEF Announce
    <2>3. ASSUME NEW p \in Proc, NEW m \in mnet, NEW c \in Count, m.node \in Node,
                 ring' = [ring EXCEPT ![p] = Insert(@, m.node, c)]
          PROVE  FALSE
      <3>1. q = p
        BY <2>0, <2>3, SMTT(30)
      <3>2. /\ Insert(ring[p], m.node, c)[m.node] >= ring[p][m.node]
            /\ \A j \in Node \ {m.node} : Insert(ring[p], m.node, c)[j] = ring[p][j]
        <4>1. ring[p] \in View
          BY <2>0, SMTT(30)
        <4>q. QED BY <2>3, <4>1, InsertFacts, SMTT(30)
      <3>3. ring'[q] = Insert(ring[p], m.node, c)
        BY <2>0, <2>3, <3>1, SMTT(30)
      <3>4. Insert(ring[p], m.node, c) \in View
        BY <2>0, <2>3, InsertFacts, SMTT(30)
      <3>5. ring'[q] \in View
        BY <3>3, <3>4, SMTT(30)
      <3>6. ring'[q][i] \in Int
        BY <3>5, EntryFacts, SMTT(30)
      <3>7. Insert(ring[p], m.node, c)[i] >= ring[p][i]
        BY <2>0, <2>3, <3>1, <3>2, <3>3, <3>6, SMTT(30)
      <3>q. QED BY <2>0, <3>1, <3>3, <3>6, <3>7, SMTT(30)
    <2>4. ASSUME NEW p \in Proc, NEW n \in Node, status'[<<n, 0>>] = "gone",
                 ring' = [ring EXCEPT ![p] = Remove(@, n)]
          PROVE  ring'[q][i] = Absent /\ status'[<<i, 0>>] = "gone"
      <3>1. q = p /\ ring'[q] = Remove(ring[p], n)
        BY <2>0, <2>4, SMTT(30)
      <3>2. i = n
        <4>1. ring[p] \in View
          BY <2>0, SMTT(30)
        <4>2. i # n => Remove(ring[p], n)[i] = ring[p][i]
          BY <4>1, RemoveFacts, SMTT(30)
        <4>q. QED BY <2>0, <3>1, <4>2
      <3>q. QED BY <2>0, <2>4, <3>1, <3>2, RemoveFacts, SMTT(30)
    <2>5. ASSUME NEW p \in Proc, Handle(p)
          PROVE  ring'[q][i] = Absent /\ status'[<<i, 0>>] = "gone"
      <3>1. PICK m \in mnet :
              \/ NodeJoin(p, m) \/ NodeDepart(p, m) \/ SelfDepart(p, m)
              \/ RouteJoin(p, m) \/ RouteDepart(p, m)
              \/ MonitorJoin(p, m) \/ MonitorDepart(p, m) \/ DepartDone(p, m)
        BY <2>5, SMTT(30) DEF Handle
      <3>2. m.node \in Node /\ m.count \in Count /\ 0 \in Count /\ Honest(m, status, inc)
        BY MessageFields, ThreadFacts, SMTT(30) DEF IndInv, Honest
      <3>3. CASE NodeJoin(p, m) \/ RouteJoin(p, m)
        BY <3>2, <3>3, <2>3, SMTT(30) DEF NodeJoin, RouteJoin
      <3>4. CASE MonitorJoin(p, m)
        BY <3>2, <3>4, <2>3, Zenon DEF MonitorJoin
      <3>5. CASE NodeDepart(p, m) \/ RouteDepart(p, m) \/ MonitorDepart(p, m)
        <4>1. status'[<<m.node, 0>>] = "gone"
          BY <3>2, <3>5 DEF NodeDepart, RouteDepart, MonitorDepart, Receives, Honest
        <4>q. QED BY <3>2, <3>5, <4>1, <2>4 DEF NodeDepart, RouteDepart, MonitorDepart
      <3>6. CASE SelfDepart(p, m)
        <4>1. p \in Server /\ p[1] \in Node /\ m.node = p[1] /\ p = <<p[1], p[2]>>
              /\ <<p[1], 0>> \in Proc
          BY <3>2, <3>6, ThreadFacts DEF SelfDepart, Receives, Honest
        <4>2. status'[<<p[1], 0>>] = "gone"
          <5>1. CASE p[2] = 0
            BY <5>1, <4>1, <3>6 DEF SelfDepart, IndInv
          <5>2. CASE p[2] # 0
            BY <5>2, <4>1, <3>2, <3>6 DEF SelfDepart, Receives, Honest, IndInv
          <5>q. QED BY <5>1, <5>2
        <4>q. QED BY <3>6, <4>1, <4>2, <2>4, Zenon DEF SelfDepart
      <3>7. CASE DepartDone(p, m)
        BY <2>0, <3>7, SMTT(30) DEF DepartDone
      <3>q. QED BY <3>1, <3>3, <3>4, <3>5, <3>6, <3>7, SMTT(30)
    <2>6. ASSUME NEW p \in Proc, NEW n \in Node, RemoveNode(p, n) PROVE FALSE
      BY <2>0, <2>6 DEF RemoveNode
    <2>7. ASSUME NEW n \in Node, ProcessExit(n) PROVE FALSE
      BY <2>0, <2>7, SMTT(30) DEF ProcessExit
    <2>8. ASSUME NEW n \in Node, Crash(n) PROVE ring'[q][i] = Absent /\ status'[q] = "off"
      BY <2>0, <2>8 DEF Crash
    <2>q. QED BY <2>0, <2>1, <2>2, <2>5, <2>6, <2>7, <2>8, SMTT(30) DEF Next
  <1>2. OnlyDepartedForgotten <=> [][Step]_mvars
    BY DEF OnlyDepartedForgotten
  <1> HIDE DEF Step
  <1>q. QED BY <1>1, <1>2, Inductive, PTL DEF Spec

-----------------------------------------------------------------------------
(* Views agree.                                                            *)
(*                                                                         *)
(* Thread 0 of a node is told of node x when a join of x under its current *)
(* count is on its way to it.  The argument goes by pairs: for two running *)
(* nodes, one of them knows the other, or is being told of it, or the seed *)
(* routing node is (AllLinked); and the node that knows has sent its own   *)
(* record back (Returned).  The seed routing node passes a join on only if *)
(* it is news, so it must not know the sender when the join arrives        *)
(* (Once), which holds because nobody knows a run before it is announced   *)
(* (Fresh) and a run is announced to a routing node once (OwnJoins).       *)

Told(net, ic, x, q) == \E m \in net : m.kind = "join" /\ m.to = q /\ m.node = x /\ m.count = ic[x]
Unannounced(st, n) == st[<<n, 0>>] \in {"off", "seeded"}
Works(st, n) == st[<<n, 0>>] = "up"
SeedFront == <<SeedRouter, 0>>

RoutersUp(st) == \A r \in RouterThread : st[r] = "up"

Fresh(st, ic, rg, net) ==
    \A n \in Node : Unannounced(st, n) =>
        /\ \A q \in Proc : q[1] # n => rg[q][n] < ic[n]
        /\ \A m \in net : m.kind = "join" /\ m.node = n => m.count < ic[n]

OwnJoins(net) ==
    \A m \in net : m.kind = "join" /\ m.to \in Front(Router) => m.from = <<m.node, 0>>

Once(ic, rg, net) ==
    \A n \in Node : Told(net, ic, n, SeedFront) => rg[SeedFront][n] < ic[n]

RoutersKnow(st, ic, rg, net) ==
    \A r \in Router, n \in Node :
        Works(st, n) => rg[<<r, 0>>][n] = ic[n] \/ Told(net, ic, n, <<r, 0>>)

RouterWorkersKnow(st, ic, rg, net) ==
    \A r \in Router, n \in Node : \A w \in RouterWorkers(r) :
        Works(st, n) /\ rg[<<r, 0>>][n] = ic[n] => rg[w][n] = ic[n] \/ Told(net, ic, n, w)

Returned(st, ic, rg, net) ==
    \A n, i \in Node :
        n # i /\ Works(st, n) /\ Works(st, i) /\ rg[<<n, 0>>][i] = ic[i] =>
            rg[<<i, 0>>][n] = ic[n] \/ Told(net, ic, n, <<i, 0>>)

Reaches(ic, rg, net, n, i) ==
    rg[<<i, 0>>][n] = ic[n] \/ Told(net, ic, n, <<i, 0>>) \/ Told(net, ic, n, SeedFront)

AllLinked(st, ic, rg, net) ==
    \A n, i \in Node :
        n # i /\ Works(st, n) /\ Works(st, i) => Reaches(ic, rg, net, n, i) \/ Reaches(ic, rg, net, i, n)

Agree(st, ic, rg, net) ==
    /\ RoutersUp(st) /\ Fresh(st, ic, rg, net) /\ OwnJoins(net) /\ Once(ic, rg, net)
    /\ RoutersKnow(st, ic, rg, net) /\ RouterWorkersKnow(st, ic, rg, net)
    /\ Returned(st, ic, rg, net) /\ AllLinked(st, ic, rg, net)

IndAgree == Agree(status, inc, ring, mnet)

LEMMA NodeFront == \A n \in Node : <<n, 0>> \in Server /\ <<n, 0>> \in Proc
  BY ThreadFacts

LEMMA RouterFront ==
    /\ \A r \in Router : <<r, 0>> \in RouterThread /\ <<r, 0>> \in Proc /\ <<r, 0>> \in Front(Router)
    /\ \A r \in Router : \A w \in RouterWorkers(r) : w \in RouterThread /\ w \notin Front(Router)
  BY MembershipAssumption DEF RouterThread, Proc, Front, RouterWorkers

LEMMA SeedFacts ==
    /\ SeedFront \in RouterThread /\ SeedFront \in Proc /\ SeedFront \in Front(Router)
    /\ \A n \in Node : SeedFront[1] # n
  BY MembershipAssumption DEF SeedFront, RouterThread, Proc, Front

LEMMA Apart ==
    /\ \A p \in Server : p \notin RouterThread /\ p \notin MonitorThread /\ p \notin Front(Router)
    /\ \A p \in RouterThread : p \notin MonitorThread
  BY MembershipAssumption DEF Server, RouterThread, MonitorThread, Front

LEMMA InitAgree == Init => IndAgree
  <1> SUFFICES ASSUME Init PROVE IndAgree
    OBVIOUS
  <1>1. /\ mnet = {} /\ \A n \in Node : inc[n] = 0
        /\ \A p \in Proc : status[p] = IF p \in Server /\ p[1] \notin Initial THEN "off" ELSE "up"
        /\ \A p \in Proc, n \in Node :
               ring[p][n] = IF status[p] = "up" /\ n \in Initial THEN 0 ELSE Absent
    BY DEF Init
  <1>2. /\ \A r \in RouterThread : status[r] = "up"
        /\ \A n \in Node : status[<<n, 0>>] = IF n \in Initial THEN "up" ELSE "off"
    BY <1>1, NodeFront, ThreadFacts
  <1>3. \A q \in Proc, n \in Node : n \notin Initial => ring[q][n] < inc[n]
    BY <1>1 DEF Absent
  <1>4. \A q \in Proc, n \in Node : status[q] = "up" /\ n \in Initial => ring[q][n] = inc[n]
    BY <1>1
  <1>5. RoutersUp(status)
    BY <1>2 DEF RoutersUp
  <1>6. Fresh(status, inc, ring, mnet)
    BY <1>1, <1>2, <1>3 DEF Fresh, Unannounced
  <1>7. OwnJoins(mnet) /\ Once(inc, ring, mnet)
    BY <1>1 DEF OwnJoins, Once, Told
  <1>8. RoutersKnow(status, inc, ring, mnet) /\ RouterWorkersKnow(status, inc, ring, mnet)
    BY <1>2, <1>4, RouterFront, ThreadFacts DEF RoutersKnow, RouterWorkersKnow, Works
  <1>9. Returned(status, inc, ring, mnet) /\ AllLinked(status, inc, ring, mnet)
    BY <1>2, <1>4, NodeFront DEF Returned, AllLinked, Reaches, Works
  <1>q. QED BY <1>5, <1>6, <1>7, <1>8, <1>9 DEF IndAgree, Agree

(* Steps that announce nobody, lose no join on its way to a server or a    *)
(* routing thread, and change no entry of a node that works.               *)
LEMMA QuietAgree ==
    ASSUME IndInv, IndAgree, inc' = inc,
           \A r \in RouterThread : status'[r] = "up",
           \A n \in Node : /\ Works(status', n) => Works(status, n)
                           /\ Unannounced(status', n) => Unannounced(status, n),
           \A m \in mnet' : m.kind = "join" => m \in mnet,
           \A m \in mnet : m.kind = "join" /\ m.to \notin MonitorThread => m \in mnet',
           \A q \in Server \cup RouterThread, n \in Node :
               status'[q] = "up" /\ Works(status', n) => ring'[q][n] = ring[q][n],
           \A q \in Proc, n \in Node : Unannounced(status', n) /\ q[1] # n => ring'[q][n] < inc[n],
           \A n \in Node : ring'[SeedFront][n] \in {ring[SeedFront][n], Absent}
    PROVE  IndAgree'
  <1>1. \A x, q : q \notin MonitorThread => (Told(mnet', inc', x, q) <=> Told(mnet, inc, x, q))
    BY DEF Told
  <1>2. RoutersUp(status')
    BY DEF RoutersUp
  <1>3. Fresh(status', inc', ring', mnet')
    BY DEF Fresh, IndAgree, Agree
  <1>4. OwnJoins(mnet')
    BY DEF OwnJoins, IndAgree, Agree
  <1>5. Once(inc', ring', mnet')
    <2> SUFFICES ASSUME NEW n \in Node, Told(mnet', inc', n, SeedFront)
                 PROVE  ring'[SeedFront][n] < inc'[n]
      BY DEF Once
    <2>1. ring[SeedFront][n] < inc[n]
      <3>1. SeedFront \notin MonitorThread
        BY SeedFacts, Apart
      <3>q. QED BY <3>1, <1>1, Zenon DEF Once, IndAgree, Agree
    <2>2. inc[n] \in Count
      BY DEF IndInv
    <2>q. QED BY <2>1, <2>2, CountFacts DEF Absent
  <1>6. RoutersKnow(status', inc', ring', mnet')
    BY <1>1, RouterFront, Apart, Zenon DEF RoutersKnow, IndAgree, Agree
  <1>7. RouterWorkersKnow(status', inc', ring', mnet')
    BY <1>1, RouterFront, Apart, Zenon DEF RouterWorkersKnow, IndAgree, Agree
  <1>8. \A n, i \in Node : Works(status', n) /\ Works(status', i) =>
            ring'[<<n, 0>>][i] = ring[<<n, 0>>][i]
    BY NodeFront DEF Works
  <1>9. Returned(status', inc', ring', mnet')
    BY <1>1, <1>8, NodeFront, Apart, Zenon DEF Returned, IndAgree, Agree
  <1>10. AllLinked(status', inc', ring', mnet')
    BY <1>1, <1>8, NodeFront, Apart, SeedFacts, Zenon DEF AllLinked, Reaches, IndAgree, Agree
  <1>q. QED BY <1>2, <1>3, <1>4, <1>5, <1>6, <1>7, <1>9, <1>10 DEF IndAgree, Agree

LEMMA SeedAgree == ASSUME IndInv, IndAgree, NEW p \in Proc, Seed(p) PROVE IndAgree'
  <1> DEFINE known == [n \in Node |-> IF n \in Members(ring[SeedFront]) THEN 0 ELSE Absent]
             view == Insert(known, p[1], inc[p[1]])
  <1>1. /\ p \in Server /\ p[1] \in Node /\ p = <<p[1], p[2]>> /\ inc[p[1]] \in Count
        /\ p \notin RouterThread /\ p # SeedFront /\ status[p] = "off"
    BY ThreadFacts, Apart, SeedFacts DEF Seed, IndInv
  <1>2. known \in View
    BY ThreadFacts DEF View
  <1>3. \A n \in Node \ {p[1]} : view[n] = known[n]
    <2> HIDE DEF known
    <2>q. QED BY <1>1, <1>2, InsertFacts
  <1>4. /\ inc' = inc /\ mnet' = mnet
        /\ \A q \in Proc : status'[q] = IF q = p THEN "seeded" ELSE status[q]
        /\ \A q \in Proc : ring'[q] = IF q = p THEN view ELSE ring[q]
    BY DEF Seed, IndInv, SeedFront
  <1>5. ASSUME NEW q \in Proc, NEW n \in Node, Unannounced(status', n), q[1] # n
        PROVE  ring'[q][n] < inc[n]
    <2>1. Unannounced(status, n)
      BY <1>1, <1>4, <1>5, NodeFront DEF Unannounced
    <2>2. ring[q][n] < inc[n] /\ ring[SeedFront][n] < inc[n]
      BY <1>5, <2>1, SeedFacts DEF IndAgree, Agree, Fresh
    <2>3. ring[SeedFront][n] \in Count \cup {Absent} /\ inc[n] \in Count
      BY SeedFacts DEF IndInv, View
    <2>4. known[n] < inc[n]
      BY <2>2, <2>3, CountFacts DEF Members, Absent
    <2> HIDE DEF known, view
    <2>5. CASE q = p
      BY <1>3, <1>4, <1>5, <2>4, <2>5
    <2>6. CASE q # p
      BY <1>4, <2>2, <2>6
    <2>q. QED BY <2>5, <2>6
  <1> HIDE DEF view
  <1>6. \A r \in RouterThread : status'[r] = "up"
    BY <1>1, <1>4, ThreadFacts DEF IndAgree, Agree, RoutersUp
  <1>7. \A n \in Node : /\ Works(status', n) => Works(status, n)
                        /\ Unannounced(status', n) => Unannounced(status, n)
    BY <1>1, <1>4, NodeFront, Zenon DEF Works, Unannounced
  <1>8. /\ \A q \in Server \cup RouterThread, n \in Node :
               status'[q] = "up" /\ Works(status', n) => ring'[q][n] = ring[q][n]
        /\ \A n \in Node : ring'[SeedFront][n] \in {ring[SeedFront][n], Absent}
    BY <1>1, <1>4, SeedFacts, Apart, ThreadFacts
  <1>q. QED BY <1>4, <1>5, <1>6, <1>7, <1>8, QuietAgree

(* Thread p removes a node that has gone, and sends no join.               *)
LEMMA RemoveAgree ==
    ASSUME IndInv, IndAgree, NEW p \in Proc, NEW i \in Node, NEW s,
           s = status[p] \/ (p \in Server /\ s = "gone") \/ p \in MonitorThread,
           inc' = inc,
           status' = [status EXCEPT ![p] = s],
           ring' = [ring EXCEPT ![p] = Remove(@, i)],
           s = "up" /\ p \notin MonitorThread => status[<<i, 0>>] = "gone",
           \A m \in mnet' : m.kind = "join" => m \in mnet,
           \A m \in mnet : m.kind = "join" => m \in mnet'
    PROVE  IndAgree'
  <1>1. /\ \A q \in Proc : status'[q] = IF q = p THEN s ELSE status[q]
        /\ \A q \in Proc \ {p} : ring'[q] = ring[q]
        /\ ring'[p] = Remove(ring[p], i) /\ ring[p] \in View
        /\ \A n \in Node : inc[n] \in Count
    BY DEF IndInv
  <1>2. ring'[p][i] = Absent /\ \A n \in Node \ {i} : ring'[p][n] = ring[p][n]
    BY <1>1, RemoveFacts
  <1>3. /\ \A r \in RouterThread : status'[r] = "up"
        /\ p \in RouterThread => s = "up"
    BY <1>1, ThreadFacts, Apart DEF IndAgree, Agree, RoutersUp
  <1>4. \A n \in Node : /\ Works(status', n) => Works(status, n)
                        /\ Unannounced(status', n) => Unannounced(status, n)
    <2>1. \A n \in Node : <<n, 0>> \in Proc /\ (<<n, 0>> = p => s = status[p] \/ s = "gone")
      BY NodeFront, Apart, Zenon
    <2>q. QED BY <1>1, <2>1, Zenon DEF Works, Unannounced
  <1>5. \A q \in Server \cup RouterThread, n \in Node :
            status'[q] = "up" /\ Works(status', n) => ring'[q][n] = ring[q][n]
    BY <1>1, <1>2, <1>4, ThreadFacts, NodeFront, Apart DEF Works
  <1>6. ASSUME NEW q \in Proc, NEW n \in Node, Unannounced(status', n), q[1] # n
        PROVE  ring'[q][n] < inc[n]
    <2>1. ring[q][n] < inc[n]
      BY <1>4, <1>6 DEF IndAgree, Agree, Fresh
    <2>q. QED BY <1>1, <1>2, <2>1, CountFacts DEF Absent
  <1>7. \A n \in Node : ring'[SeedFront][n] \in {ring[SeedFront][n], Absent}
    BY <1>1, <1>2, SeedFacts
  <1>q. QED BY <1>3, <1>4, <1>5, <1>6, <1>7, QuietAgree, Zenon

(* Only the state of a thread other than thread 0 of a node, a routing     *)
(* thread or the request to depart changes.                                *)
LEMMA StatusAgree ==
    ASSUME IndInv, IndAgree, NEW p \in Proc, NEW s, p \notin RouterThread,
           \A n \in Node : p # <<n, 0>>,
           inc' = inc, ring' = ring, status' = [status EXCEPT ![p] = s],
           \A m \in mnet' : m.kind = "join" => m \in mnet,
           \A m \in mnet : m.kind = "join" => m \in mnet'
    PROVE  IndAgree'
  <1>1. \A q \in Proc : status'[q] = IF q = p THEN s ELSE status[q]
    BY DEF IndInv
  <1>3. \A r \in RouterThread : status'[r] = "up"
    BY <1>1, ThreadFacts DEF IndAgree, Agree, RoutersUp
  <1>4. \A n \in Node : /\ Works(status', n) => Works(status, n)
                        /\ Unannounced(status', n) => Unannounced(status, n)
    BY <1>1, NodeFront, Zenon DEF Works, Unannounced
  <1>5. \A q \in Proc, n \in Node : Unannounced(status', n) /\ q[1] # n => ring'[q][n] < inc[n]
    BY <1>4 DEF IndAgree, Agree, Fresh
  <1>q. QED BY <1>3, <1>4, <1>5, QuietAgree, Zenon

LEMMA MonitorJoinAgree == ASSUME IndInv, IndAgree, NEW p \in Proc, NEW m, MonitorJoin(p, m)
                          PROVE  IndAgree'
  <1>1. /\ p \in MonitorThread /\ p \notin Server /\ p \notin RouterThread /\ p # SeedFront
        /\ m \in mnet /\ m.to = p /\ m.node \in Node /\ m.count \in Count /\ m.kind = "join"
        /\ ring[p] \in View
    BY ReceiverFacts, Apart, SeedFacts DEF MonitorJoin, Receives
  <1>2. /\ inc' = inc /\ status' = status /\ mnet' = mnet \ {m}
        /\ \A q \in Proc \ {p} : ring'[q] = ring[q]
        /\ ring'[p] = Insert(ring[p], m.node, 0)
        /\ \A n \in Node : inc[n] \in Count
    BY DEF MonitorJoin, IndInv
  <1>3. /\ ring'[p][m.node] \in {0, ring[p][m.node]}
        /\ \A n \in Node \ {m.node} : ring'[p][n] = ring[p][n]
    BY <1>1, <1>2, InsertFacts, ThreadFacts
  <1>4. ASSUME NEW q \in Proc, NEW n \in Node, Unannounced(status', n), q[1] # n
        PROVE  ring'[q][n] < inc[n]
    <2>1. ring[q][n] < inc[n]
      BY <1>2, <1>4 DEF IndAgree, Agree, Fresh
    <2>2. m.node = n => m.count < inc[n] /\ 0 <= m.count /\ m.count \in Int /\ inc[n] \in Int
      BY <1>1, <1>2, <1>4, CountFacts, Zenon DEF IndAgree, Agree, Fresh
    <2>q. QED BY <1>1, <1>2, <1>3, <2>1, <2>2
  <1>5. \A r \in RouterThread : status'[r] = "up"
    BY <1>2, Zenon DEF IndAgree, Agree, RoutersUp
  <1>6. /\ \A q \in Server \cup RouterThread, n \in Node : ring'[q][n] = ring[q][n]
        /\ \A n \in Node : ring'[SeedFront][n] \in {ring[SeedFront][n], Absent}
    BY <1>1, <1>2, SeedFacts, Apart, ThreadFacts
  <1>7. \A x \in mnet : x.kind = "join" /\ x.to \notin MonitorThread => x \in mnet'
    BY <1>1, <1>2
  <1>q. QED BY <1>2, <1>4, <1>5, <1>6, <1>7, QuietAgree

LEMMA DepartAgree ==
    ASSUME IndInv, IndAgree, NEW p \in Proc, NEW m,
           NodeDepart(p, m) \/ RouteDepart(p, m) \/ MonitorDepart(p, m)
    PROVE  IndAgree'
  <1>1. Receives(p, m, "depart")
    BY DEF NodeDepart, RouteDepart, MonitorDepart
  <1>2. /\ m.kind = "depart" /\ m.node \in Node /\ status[<<m.node, 0>>] = "gone"
        /\ status = [status EXCEPT ![p] = "up"] /\ status[p] = "up"
    BY <1>1, ReceiverFacts DEF Honest
  <1>3. /\ inc' = inc /\ status' = [status EXCEPT ![p] = "up"]
        /\ ring' = [ring EXCEPT ![p] = Remove(@, m.node)]
    BY <1>2 DEF NodeDepart, RouteDepart, MonitorDepart
  <1>4. \A q, n : Msg("depart", p, q, n, 0).kind = "depart"
    BY DEF Msg
  <1>5. /\ \A x \in mnet' : x.kind = "join" => x \in mnet
        /\ \A x \in mnet : x.kind = "join" => x \in mnet'
    BY <1>2, <1>4 DEF NodeDepart, RouteDepart, MonitorDepart
  <1> DEFINE i == m.node
             s == status[p]
  <1>6. /\ i \in Node /\ inc' = inc /\ status' = [status EXCEPT ![p] = s]
        /\ ring' = [ring EXCEPT ![p] = Remove(@, i)]
    BY <1>2, <1>3
  <1>7. s = status[p] \/ (p \in Server /\ s = "gone") \/ p \in MonitorThread
    OBVIOUS
  <1>8. s = "up" /\ p \notin MonitorThread => status[<<i, 0>>] = "gone"
    BY <1>2
  <1> HIDE DEF i, s
  <1>q. QED BY <1>5, <1>6, <1>7, <1>8, RemoveAgree, Zenon

LEMMA SelfDepartAgree == ASSUME IndInv, IndAgree, NEW p \in Proc, NEW m, SelfDepart(p, m)
                         PROVE  IndAgree'
  <1>1. p \in Server /\ p[1] \in Node /\ m.kind = "self_depart"
    BY ThreadFacts DEF SelfDepart, Receives
  <1>2. /\ inc' = inc /\ status' = [status EXCEPT ![p] = "gone"]
        /\ ring' = [ring EXCEPT ![p] = Remove(@, p[1])]
    BY DEF SelfDepart
  <1>3. /\ \A q, n : Msg("depart", p, q, n, 0).kind = "depart"
        /\ \A q, n : Msg("depart_done", p, q, n, 0).kind = "depart_done"
        /\ \A f, q, n : Msg("self_depart", f, q, n, 0).kind = "self_depart"
    BY DEF Msg
  <1>4. /\ \A x \in mnet' : x.kind = "join" => x \in mnet
        /\ \A x \in mnet : x.kind = "join" => x \in mnet'
    BY <1>1, <1>3 DEF SelfDepart
  <1>q. QED BY <1>1, <1>2, <1>4, RemoveAgree, Zenon

LEMMA MessageEq ==
    ASSUME NEW a \in Message, NEW b \in Message, a.kind = b.kind, a.from = b.from, a.to = b.to,
           a.node = b.node, a.count = b.count
    PROVE  a = b
  BY DEF Message

LEMMA AnnounceAgree == ASSUME IndInv, IndAgree, NEW p \in Proc, Announce(p) PROVE IndAgree'
  <1>0. /\ p \in Server /\ p[1] \in Node /\ p = <<p[1], p[2]>> /\ p \notin RouterThread
        /\ status[p] = "seeded" /\ inc' = inc /\ ring' = ring
        /\ status' = [status EXCEPT ![p] = "up"]
        /\ \A n \in Node : inc[n] \in Count
    BY ThreadFacts, Apart DEF Announce, IndInv
  <1>1. CASE p[2] # 0
    <2>1. mnet' = mnet /\ \A n \in Node : p # <<n, 0>>
      BY <1>0, <1>1 DEF Announce
    <2>q. QED BY <1>0, <2>1, StatusAgree, Zenon
  <1>2. CASE p[2] = 0
    <2> DEFINE a == p[1]
               to == Front((Members(ring[p]) \ {a}) \cup Router \cup Monitor)
               new == {Msg("join", p, q, a, inc[a]) : q \in to}
    <2>1. mnet' = mnet \cup new /\ p = <<a, 0>> /\ a \in Node
      BY <1>0, <1>2 DEF Announce
    <2>2. \A q \in to : q \in Proc
      BY <1>0, AddresseeFacts, MembersFacts
    <2>3. \A q \in to : /\ Msg("join", p, q, a, inc[a]).kind = "join"
                        /\ Msg("join", p, q, a, inc[a]).to = q
                        /\ Msg("join", p, q, a, inc[a]).from = p
                        /\ Msg("join", p, q, a, inc[a]).node = a
                        /\ Msg("join", p, q, a, inc[a]).count = inc[a]
      BY <1>0, <2>2, MsgFacts DEF Kind
    <2>4. /\ \A n \in Members(ring[p]) \ {a} : <<n, 0>> \in to
          /\ \A r \in Router : <<r, 0>> \in to
          /\ SeedFront \in to
      BY MembershipAssumption DEF Front, SeedFront
    <2> HIDE DEF to
    <2>5. /\ \A m \in new : m.kind = "join" /\ m.node = a /\ m.from = p
          /\ \A q \in to : \E m \in new : m.kind = "join" /\ m.to = q /\ m.node = a /\ m.count = inc[a]
      BY <2>3
    <2> HIDE DEF new
    <2>6. /\ \A x, q : Told(mnet, inc, x, q) => Told(mnet', inc', x, q)
          /\ \A x, q : Told(mnet', inc', x, q) /\ x # a => Told(mnet, inc, x, q)
          /\ \A q \in to : Told(mnet', inc', a, q)
      BY <1>0, <2>1, <2>5 DEF Told
    <2>7. /\ \A q \in Proc : status'[q] = IF q = p THEN "up" ELSE status[q]
          /\ Unannounced(status, a) /\ ~ Unannounced(status', a)
          /\ \A n \in Node \ {a} : /\ Works(status', n) <=> Works(status, n)
                                   /\ Unannounced(status', n) <=> Unannounced(status, n)
      <3>1. \A q \in Proc : status'[q] = IF q = p THEN "up" ELSE status[q]
        BY <1>0 DEF IndInv
      <3>q. QED BY <1>0, <2>1, <3>1, NodeFront DEF Works, Unannounced
    <2>8. \A q \in Proc : q[1] # a => ring[q][a] < inc[a]
      BY <2>1, <2>7 DEF IndAgree, Agree, Fresh
    <2>9. \A q \in Proc : q[1] # a => ring[q][a] # inc[a]
      <3> TAKE q \in Proc
      <3>1. ring[q][a] \in Int
        BY <2>1, EntryFacts DEF IndInv
      <3>q. QED BY <3>1, <2>8
    <2>10. RoutersUp(status')
      BY <1>0, <2>7, ThreadFacts DEF RoutersUp, IndAgree, Agree
    <2>11. Fresh(status', inc', ring', mnet')
      <3> SUFFICES ASSUME NEW n \in Node, Unannounced(status', n)
                   PROVE  /\ \A q \in Proc : q[1] # n => ring[q][n] < inc[n]
                          /\ \A m \in mnet' : m.kind = "join" /\ m.node = n => m.count < inc[n]
        BY <1>0 DEF Fresh
      <3>1. n # a /\ Unannounced(status, n)
        BY <2>7
      <3>q. QED BY <3>1, <2>1, <2>5 DEF Fresh, IndAgree, Agree
    <2>12. OwnJoins(mnet')
      BY <2>1, <2>5 DEF OwnJoins, IndAgree, Agree
    <2>13. Once(inc', ring', mnet')
      BY <1>0, <2>1, <2>6, <2>8, SeedFacts DEF Once, IndAgree, Agree
    <2>14. RoutersKnow(status', inc', ring', mnet')
      BY <1>0, <2>4, <2>6, <2>7, Zenon DEF RoutersKnow, IndAgree, Agree
    <2>15. RouterWorkersKnow(status', inc', ring', mnet')
      <3>1. \A r \in Router : ring[<<r, 0>>][a] # inc[a]
        BY <2>1, <2>9, RouterFront, MembershipAssumption, Zenon
      <3>q. QED BY <1>0, <3>1, <2>6, <2>7, Zenon DEF RouterWorkersKnow, IndAgree, Agree
    <2>16. Returned(status', inc', ring', mnet')
      <3> SUFFICES ASSUME NEW n \in Node, NEW i \in Node, n # i, Works(status', n), Works(status', i),
                          ring[<<n, 0>>][i] = inc[i]
                   PROVE  ring[<<i, 0>>][n] = inc[n] \/ Told(mnet', inc', n, <<i, 0>>)
        BY <1>0 DEF Returned
      <3>1. i # a
        BY <2>9, NodeFront
      <3>2. CASE n = a
        <4>1. i \in Members(ring[p]) \ {a}
          BY <1>0, <2>1, <3>1, <3>2, CountFacts DEF Members
        <4>q. QED BY <4>1, <3>2, <2>4, <2>6
      <3>3. CASE n # a
        BY <3>1, <3>3, <2>6, <2>7, Zenon DEF Returned, IndAgree, Agree
      <3>q. QED BY <3>2, <3>3
    <2>17. AllLinked(status', inc', ring', mnet')
      BY <1>0, <2>4, <2>6, <2>7 DEF AllLinked, Reaches, IndAgree, Agree
    <2>q. QED BY <2>10, <2>11, <2>12, <2>13, <2>14, <2>15, <2>16, <2>17 DEF IndAgree, Agree
  <1>q. QED BY <1>1, <1>2

LEMMA CrashAgree == ASSUME IndInv, IndAgree, NEW a \in Node, Crash(a) PROVE IndAgree'
  <1>1. /\ inc' = [inc EXCEPT ![a] = inc[a] + 1] /\ inc \in [Node -> Count]
        /\ status' = [p \in Proc |-> IF p \in Server /\ p[1] = a THEN "off" ELSE status[p]]
        /\ ring' = [p \in Proc |-> IF p \in Server /\ p[1] = a
                                     THEN [i \in Node |-> Absent] ELSE ring[p]]
        /\ mnet' \subseteq mnet /\ \A m \in mnet : m.to[1] # a => m \in mnet'
    BY DEF Crash, IndInv
  <1>2. /\ \A n \in Node \ {a} : inc'[n] = inc[n]
        /\ inc'[a] = inc[a] + 1 /\ inc[a] \in Int
    BY <1>1, CountFacts
  <1>3. /\ \A q \in Proc : q[1] # a => status'[q] = status[q] /\ ring'[q] = ring[q]
        /\ \A q \in Proc, n \in Node : ring'[q][n] = ring[q][n] \/ ring'[q][n] = Absent
        /\ status'[<<a, 0>>] = "off"
    BY <1>1, NodeFront
  <1>4. \A n \in Node \ {a} : /\ Works(status', n) <=> Works(status, n)
                              /\ Unannounced(status', n) <=> Unannounced(status, n)
    BY <1>3, NodeFront, Zenon DEF Works, Unannounced
  <1>5. ~ Works(status', a)
    BY <1>3 DEF Works
  <1>6. /\ \A x \in Node \ {a} : \A q : Told(mnet', inc', x, q) => Told(mnet, inc, x, q)
        /\ \A x \in Node \ {a} : \A q : Told(mnet, inc, x, q) /\ q[1] # a => Told(mnet', inc', x, q)
    BY <1>1, <1>2 DEF Told
  <1>7. \A m \in mnet' : m.kind = "join" /\ m.node = a => m.count < inc'[a]
    <2> TAKE m \in mnet'
    <2>1. Honest(m, status, inc)
      BY <1>1 DEF IndInv
    <2>2. m.count \in Int
      BY <2>1, MessageFields, CountFacts DEF Honest
    <2>q. QED BY <2>1, <2>2, <1>2 DEF Honest
  <1>8. \A q \in Proc : ring'[q][a] < inc'[a]
    <2> TAKE q \in Proc
    <2>1. ring[q][a] <= inc[a] /\ ring[q][a] \in Int
      BY EntryFacts DEF IndInv, Knows
    <2>2. inc[a] >= 0
      BY <1>1, CountFacts
    <2>q. QED BY <1>2, <1>3, <2>1, <2>2 DEF Absent
  <1>9. RoutersUp(status')
    BY <1>3, ThreadFacts DEF RoutersUp, IndAgree, Agree
  <1>10. Fresh(status', inc', ring', mnet')
    <2> SUFFICES ASSUME NEW n \in Node, Unannounced(status', n)
                 PROVE  /\ \A q \in Proc : q[1] # n => ring'[q][n] < inc'[n]
                        /\ \A m \in mnet' : m.kind = "join" /\ m.node = n => m.count < inc'[n]
      BY DEF Fresh
    <2>1. CASE n = a
      BY <2>1, <1>7, <1>8
    <2>2. CASE n # a
      <3>1. \A q \in Proc : q[1] # n => ring[q][n] < inc[n]
        BY <2>2, <1>4 DEF Fresh, IndAgree, Agree
      <3>2. Absent < inc[n]
        BY <1>1, CountFacts DEF Absent
      <3>3. \A m \in mnet' : m.kind = "join" /\ m.node = n => m.count < inc[n]
        BY <2>2, <1>1, <1>4, Zenon DEF Fresh, IndAgree, Agree
      <3>q. QED BY <2>2, <1>2, <1>3, <3>1, <3>2, <3>3
    <2>q. QED BY <2>1, <2>2
  <1>11. OwnJoins(mnet')
    BY <1>1, Zenon DEF OwnJoins, IndAgree, Agree
  <1>12. Once(inc', ring', mnet')
    BY <1>2, <1>3, <1>6, <1>8, SeedFacts, Zenon DEF Once, IndAgree, Agree
  <1>13. /\ \A r \in Router : <<r, 0>> \in Proc /\ <<r, 0>>[1] # a
         /\ \A r \in Router : \A w \in RouterWorkers(r) : w \in Proc /\ w[1] # a
         /\ \A n \in Node \ {a} : <<n, 0>> \in Proc /\ <<n, 0>>[1] # a
         /\ SeedFront[1] # a
    BY NodeFront, RouterFront, SeedFacts, ThreadFacts, MembershipAssumption
  <1>14. RoutersKnow(status', inc', ring', mnet')
    BY <1>2, <1>3, <1>4, <1>5, <1>6, <1>13, Zenon DEF RoutersKnow, IndAgree, Agree
  <1>15. RouterWorkersKnow(status', inc', ring', mnet')
    BY <1>2, <1>3, <1>4, <1>5, <1>6, <1>13, Zenon DEF RouterWorkersKnow, IndAgree, Agree
  <1>16. Returned(status', inc', ring', mnet')
    BY <1>2, <1>3, <1>4, <1>5, <1>6, <1>13, Zenon DEF Returned, IndAgree, Agree
  <1>17. AllLinked(status', inc', ring', mnet')
    BY <1>2, <1>3, <1>4, <1>5, <1>6, <1>13, Zenon DEF AllLinked, Reaches, IndAgree, Agree
  <1>q. QED BY <1>9, <1>10, <1>11, <1>12, <1>14, <1>15, <1>16, <1>17 DEF IndAgree, Agree

(* A thread p handles the join m: the entry of m.node at p is the larger   *)
(* of the two counts, and m is consumed.                                   *)
LEMMA JoinEffect ==
    ASSUME IndInv, IndAgree, NEW p \in Proc, NEW m, Receives(p, m, "join"), NEW new,
           status' = status, inc' = inc,
           ring' = [ring EXCEPT ![p] = Insert(@, m.node, m.count)],
           mnet' = (mnet \ {m}) \cup new,
           \A j \in new : j.kind = "join" /\ j.node = m.node => j.count = m.count \/ ~ Unannounced(status, m.node),
           \A j \in new : j.kind = "join" /\ j.node # m.node => ~ Unannounced(status, j.node)
    PROVE  /\ \A q \in Proc, n \in Node : ring[q][n] = inc[n] => ring'[q][n] = inc[n]
           /\ \A q \in Proc, n \in Node : q # p \/ n # m.node => ring'[q][n] = ring[q][n]
           /\ m.count < inc[m.node] /\ ring[p][m.node] < inc[m.node] => ring'[p][m.node] < inc[m.node]
           /\ \A n \in Node : ring'[p][n] = inc[n] /\ ring[p][n] # inc[n] =>
                  n = m.node /\ m.count = inc[n] /\ Inserts(ring[p], n, m.count)
           /\ \A n \in Node : \A q : Told(mnet, inc, n, q) =>
                  \/ Told(mnet', inc', n, q)
                  \/ q = p /\ n = m.node /\ m.count = inc[n] /\ ring'[q][n] = inc[n]
           /\ Fresh(status', inc', ring', mnet')
  <1>1. /\ m \in mnet /\ m.to = p /\ m.node \in Node /\ m.count \in Count /\ m.kind = "join"
        /\ ring[p] \in View /\ Honest(m, status, inc)
        /\ \A n \in Node : inc[n] \in Count /\ ring[p][n] <= inc[n]
    BY ReceiverFacts DEF Receives, Knows
  <1>2. /\ \A q \in Proc \ {p} : ring'[q] = ring[q]
        /\ ring'[p] = Insert(ring[p], m.node, m.count)
    BY DEF IndInv
  <1>3. /\ ring'[p][m.node] \in {m.count, ring[p][m.node]}
        /\ ring[p][m.node] >= m.count => ring'[p][m.node] = ring[p][m.node]
        /\ ring[p][m.node] < m.count => ring'[p][m.node] = m.count
        /\ \A n \in Node \ {m.node} : ring'[p][n] = ring[p][n]
    BY <1>1, <1>2, InsertFacts
  <1>4. /\ \A n \in Node : ring[p][n] \in Int /\ inc[n] \in Int
        /\ m.count \in Int /\ m.count <= inc[m.node]
    BY <1>1, EntryFacts, CountFacts DEF Honest
  <1>5. \A q \in Proc, n \in Node : q # p \/ n # m.node => ring'[q][n] = ring[q][n]
    BY <1>2, <1>3, Zenon
  <1>6. \A q \in Proc, n \in Node : ring[q][n] = inc[n] => ring'[q][n] = inc[n]
    BY <1>1, <1>3, <1>4, <1>5, Zenon
  <1>7. m.count < inc[m.node] /\ ring[p][m.node] < inc[m.node] => ring'[p][m.node] < inc[m.node]
    BY <1>3, Zenon
  <1>8. \A n \in Node : ring'[p][n] = inc[n] /\ ring[p][n] # inc[n] =>
            n = m.node /\ m.count = inc[n] /\ Inserts(ring[p], n, m.count)
    <2> SUFFICES ASSUME NEW n \in Node, ring'[p][n] = inc[n], ring[p][n] # inc[n]
                 PROVE  n = m.node /\ m.count = inc[n] /\ Inserts(ring[p], n, m.count)
      OBVIOUS
    <2>1. n = m.node
      BY <1>5
    <2>2. ring[p][n] < m.count /\ m.count = inc[n]
      BY <2>1, <1>3, <1>4
    <2>q. QED BY <2>1, <2>2 DEF Inserts
  <1>9. m.count = inc[m.node] => ring'[p][m.node] = inc[m.node]
    BY <1>1, <1>3, <1>4
  <1>10. \A n \in Node : \A q : Told(mnet, inc, n, q) =>
             \/ Told(mnet', inc', n, q)
             \/ q = p /\ n = m.node /\ m.count = inc[n] /\ ring'[q][n] = inc[n]
    BY <1>1, <1>9 DEF Told
  <1>11. Fresh(status', inc', ring', mnet')
    <2> SUFFICES ASSUME NEW n \in Node, Unannounced(status, n)
                 PROVE  /\ \A q \in Proc : q[1] # n => ring'[q][n] < inc[n]
                        /\ \A j \in mnet' : j.kind = "join" /\ j.node = n => j.count < inc[n]
      BY DEF Fresh
    <2>1. /\ \A q \in Proc : q[1] # n => ring[q][n] < inc[n]
          /\ \A j \in mnet : j.kind = "join" /\ j.node = n => j.count < inc[n]
      BY DEF IndAgree, Agree, Fresh
    <2>2. n = m.node => m.count < inc[n]
      BY <1>1, <2>1
    <2>3. \A q \in Proc : q[1] # n => ring'[q][n] < inc[n]
      BY <1>5, <1>7, <2>1, <2>2
    <2>q. QED BY <2>1, <2>2, <2>3
  <1>q. QED BY <1>5, <1>6, <1>7, <1>8, <1>10, <1>11, Zenon

LEMMA NodeJoinAgree == ASSUME IndInv, IndAgree, NEW p \in Proc, NEW m, NodeJoin(p, m) PROVE IndAgree'
  <1> DEFINE news == Inserts(ring[p], m.node, m.count) /\ p[2] = 0
             others == Front(Members(ring'[p]) \ {p[1], m.node}) \cup Workers(p[1])
             reply == Msg("join", p, <<m.node, 0>>, p[1], inc[p[1]])
             new == IF news THEN {reply} \cup {Msg("join", p, q, m.node, m.count) : q \in others} ELSE {}
  <1>1. /\ p \in Server /\ Receives(p, m, "join") /\ p[1] \in Node /\ p = <<p[1], p[2]>>
        /\ status' = status /\ inc' = inc
        /\ ring' = [ring EXCEPT ![p] = Insert(@, m.node, m.count)]
        /\ mnet' = (mnet \ {m}) \cup new
    BY ThreadFacts, Zenon DEF NodeJoin, JoinGossip
  <1>2. m.node \in Node /\ m.count \in Count /\ status[p] = "up" /\ inc[p[1]] \in Count
    BY <1>1, ReceiverFacts
  <1>3. <<m.node, 0>> \in Server /\ others \subseteq Server
    <2>1. Front(Members(ring'[p]) \ {p[1], m.node}) \subseteq Server
      BY MembersFacts, NodeFront DEF Front
    <2>q. QED BY <1>1, <1>2, <2>1, NodeFront, AddresseeFacts, Zenon
  <1>4. /\ reply.kind = "join" /\ reply.to = <<m.node, 0>> /\ reply.node = p[1]
        /\ reply.count = inc[p[1]]
    BY DEF Msg
  <1>5. \A q \in others : /\ Msg("join", p, q, m.node, m.count).kind = "join"
                          /\ Msg("join", p, q, m.node, m.count).to = q
                          /\ Msg("join", p, q, m.node, m.count).node = m.node
                          /\ Msg("join", p, q, m.node, m.count).count = m.count
    BY DEF Msg
  <1> HIDE DEF others, reply
  <1>6. /\ \A j \in new : /\ news /\ j.to \in Server
                          /\ j = reply \/ (j.node = m.node /\ j.count = m.count)
        /\ news => reply \in new
    BY <1>3, <1>4, <1>5
  <1>7. news => status[<<p[1], 0>>] = "up"
    BY <1>1, <1>2
  <1> HIDE DEF new
  <1>8. /\ \A j \in new : j.kind = "join" /\ j.node = m.node =>
                              j.count = m.count \/ ~ Unannounced(status, m.node)
        /\ \A j \in new : j.kind = "join" /\ j.node # m.node => ~ Unannounced(status, j.node)
    BY <1>4, <1>6, <1>7 DEF Unannounced
  <1> HIDE DEF news
  <1>9. /\ \A q \in Proc, n \in Node : ring[q][n] = inc[n] => ring'[q][n] = inc[n]
        /\ \A q \in Proc, n \in Node : q # p \/ n # m.node => ring'[q][n] = ring[q][n]
        /\ m.count < inc[m.node] /\ ring[p][m.node] < inc[m.node] => ring'[p][m.node] < inc[m.node]
        /\ \A n \in Node : ring'[p][n] = inc[n] /\ ring[p][n] # inc[n] =>
               n = m.node /\ m.count = inc[n] /\ Inserts(ring[p], n, m.count)
        /\ \A n \in Node : \A q : Told(mnet, inc, n, q) =>
               \/ Told(mnet', inc', n, q)
               \/ q = p /\ n = m.node /\ m.count = inc[n] /\ ring'[q][n] = inc[n]
        /\ Fresh(status', inc', ring', mnet')
    BY <1>1, <1>8, JoinEffect, Zenon
  <1>10. /\ \A q \in RouterThread, n \in Node : ring'[q][n] = ring[q][n]
         /\ \A q \in RouterThread, n \in Node : Told(mnet, inc, n, q) <=> Told(mnet', inc', n, q)
    <2>1. \A q \in RouterThread : q \in Proc /\ q # p /\ q \notin Server
      BY <1>1, ThreadFacts
    <2>2. \A q \in RouterThread, n \in Node : Told(mnet', inc', n, q) => Told(mnet, inc, n, q)
      BY <1>1, <1>6, <2>1 DEF Told
    <2>q. QED BY <1>9, <2>1, <2>2, Zenon
  <1>11. OwnJoins(mnet')
    BY <1>1, <1>6, Apart DEF OwnJoins, IndAgree, Agree
  <1>12. Once(inc', ring', mnet')
    BY <1>1, <1>10, SeedFacts DEF Once, IndAgree, Agree
  <1>13. RoutersKnow(status', inc', ring', mnet') /\ RouterWorkersKnow(status', inc', ring', mnet')
    BY <1>1, <1>10, RouterFront, Zenon DEF RoutersKnow, RouterWorkersKnow, IndAgree, Agree
  <1>14. Returned(status', inc', ring', mnet')
    <2> SUFFICES ASSUME NEW n \in Node, NEW i \in Node, n # i, Works(status, n), Works(status, i),
                        ring'[<<n, 0>>][i] = inc[i]
                 PROVE  ring'[<<i, 0>>][n] = inc[n] \/ Told(mnet', inc', n, <<i, 0>>)
      BY <1>1, Zenon DEF Returned
    <2>1. CASE ring[<<n, 0>>][i] = inc[i]
      BY <2>1, <1>9, NodeFront, Zenon DEF Returned, IndAgree, Agree
    <2>2. CASE ring[<<n, 0>>][i] # inc[i]
      <3>0. <<n, 0>> \in Proc
        BY NodeFront, Zenon
      <3>1. <<n, 0>> = p /\ i = m.node /\ Inserts(ring[p], i, m.count)
        BY <2>2, <3>0, <1>9, Zenon
      <3>2. reply \in mnet' /\ p[1] = n
        BY <1>1, <1>6, <3>1 DEF news
      <3>q. QED BY <1>1, <1>4, <3>1, <3>2 DEF Told
    <2>q. QED BY <2>1, <2>2
  <1>15. AllLinked(status', inc', ring', mnet')
    <2>1. \A n, i \in Node : Reaches(inc, ring, mnet, n, i) => Reaches(inc', ring', mnet', n, i)
      <3> TAKE n, i \in Node
      <3>1. Told(mnet, inc, n, SeedFront) => Told(mnet', inc', n, SeedFront)
        BY <1>10, SeedFacts
      <3>2. Told(mnet, inc, n, <<i, 0>>) =>
                Told(mnet', inc', n, <<i, 0>>) \/ ring'[<<i, 0>>][n] = inc[n]
        BY <1>9, Zenon
      <3>3. ring[<<i, 0>>][n] = inc[n] => ring'[<<i, 0>>][n] = inc[n]
        <4>1. <<i, 0>> \in Proc
          BY NodeFront, Zenon
        <4>q. QED BY <4>1, <1>9, Zenon
      <3>q. QED BY <1>1, <3>1, <3>2, <3>3 DEF Reaches
    <2>q. QED BY <1>1, <2>1, Zenon DEF AllLinked, IndAgree, Agree
  <1>16. RoutersUp(status')
    BY <1>1 DEF IndAgree, Agree
  <1>q. QED BY <1>9, <1>11, <1>12, <1>13, <1>14, <1>15, <1>16, Zenon DEF IndAgree, Agree

LEMMA RouteJoinAgree == ASSUME IndInv, IndAgree, NEW p \in Proc, NEW m, RouteJoin(p, m) PROVE IndAgree'
  <1> DEFINE news == Inserts(ring[p], m.node, m.count) /\ p[2] = 0
             others == Front(Members(ring'[p]) \ {m.node}) \cup RouterWorkers(p[1])
             new == IF news THEN {Msg("join", p, q, m.node, m.count) : q \in others} ELSE {}
  <1>1. /\ p \in RouterThread /\ Receives(p, m, "join") /\ p[1] \in Router
        /\ status' = status /\ inc' = inc
        /\ ring' = [ring EXCEPT ![p] = Insert(@, m.node, m.count)]
        /\ mnet' = (mnet \ {m}) \cup new
    BY ThreadFacts, Zenon DEF RouteJoin
  <1>2. /\ m.node \in Node /\ m.count \in Count /\ m \in mnet /\ m.to = p /\ m.kind = "join"
        /\ \A n \in Node : inc[n] \in Count
    BY <1>1, ReceiverFacts, Zenon DEF Receives
  <1>3. \A q \in others : q \notin Front(Router)
    <2>1. Front(Members(ring'[p]) \ {m.node}) \subseteq Server
      BY MembersFacts, NodeFront DEF Front
    <2>q. QED BY <1>1, <2>1, RouterFront, Apart
  <1>4. /\ \A n \in Node : ring'[p][n] # Absent /\ n # m.node => <<n, 0>> \in others
        /\ \A w \in RouterWorkers(p[1]) : w \in others
    BY DEF Members, Front
  <1>5. \A q \in others : /\ Msg("join", p, q, m.node, m.count).kind = "join"
                          /\ Msg("join", p, q, m.node, m.count).to = q
                          /\ Msg("join", p, q, m.node, m.count).node = m.node
                          /\ Msg("join", p, q, m.node, m.count).count = m.count
    BY DEF Msg
  <1> HIDE DEF others
  <1>6. /\ \A j \in new : j.to \notin Front(Router) /\ j.node = m.node /\ j.count = m.count
        /\ news => \A q \in others : \E j \in new : j.kind = "join" /\ j.to = q
                                            /\ j.node = m.node /\ j.count = m.count
    BY <1>3, <1>5
  <1> HIDE DEF new
  <1>7. news /\ m.count = inc[m.node] => \A q \in others : Told(mnet', inc', m.node, q)
    BY <1>1, <1>6 DEF Told
  <1>8. \A j \in new : j.kind = "join" /\ j.node = m.node => j.count = m.count \/ ~ Unannounced(status, m.node)
    BY <1>6
  <1>9. \A j \in new : j.kind = "join" /\ j.node # m.node => ~ Unannounced(status, j.node)
    BY <1>6
  <1> HIDE DEF news
  <1>10. /\ \A q \in Proc, n \in Node : ring[q][n] = inc[n] => ring'[q][n] = inc[n]
         /\ \A q \in Proc, n \in Node : q # p \/ n # m.node => ring'[q][n] = ring[q][n]
         /\ m.count < inc[m.node] /\ ring[p][m.node] < inc[m.node] => ring'[p][m.node] < inc[m.node]
         /\ \A n \in Node : ring'[p][n] = inc[n] /\ ring[p][n] # inc[n] =>
                n = m.node /\ m.count = inc[n] /\ Inserts(ring[p], n, m.count)
         /\ \A n \in Node : \A q : Told(mnet, inc, n, q) =>
                \/ Told(mnet', inc', n, q)
                \/ q = p /\ n = m.node /\ m.count = inc[n] /\ ring'[q][n] = inc[n]
         /\ Fresh(status', inc', ring', mnet')
    BY <1>1, <1>8, <1>9, JoinEffect, Zenon
  <1>11. OwnJoins(mnet')
    BY <1>1, <1>6, Zenon DEF OwnJoins, IndAgree, Agree
  <1>12. Once(inc', ring', mnet')
    <2> SUFFICES ASSUME NEW n \in Node, Told(mnet', inc', n, SeedFront)
                 PROVE  ring'[SeedFront][n] < inc[n]
      BY <1>1, Zenon DEF Once
    <2>1. PICK j \in mnet' : j.kind = "join" /\ j.to = SeedFront /\ j.node = n /\ j.count = inc[n]
      BY <1>1 DEF Told
    <2>2. j \in mnet /\ j # m
      BY <1>1, <1>6, <2>1, SeedFacts
    <2>3. ring[SeedFront][n] < inc[n]
      BY <2>1, <2>2, Zenon DEF Told, Once, IndAgree, Agree
    <2>4. CASE SeedFront = p /\ n = m.node
      <3>1. m.count # inc[n]
        <4> SUFFICES ASSUME m.count = inc[n] PROVE FALSE
          OBVIOUS
        <4>1. j \in Message /\ m \in Message
          BY <1>2, <2>2, Zenon DEF IndInv, Honest
        <4>2. j.from = <<n, 0>> /\ m.from = <<n, 0>>
          BY <1>2, <2>1, <2>2, <2>4, SeedFacts, Zenon DEF OwnJoins, IndAgree, Agree
        <4>q. QED BY <1>2, <2>1, <2>2, <2>4, <4>1, <4>2, MessageEq
      <3>2. m.count <= inc[n] /\ m.count \in Int /\ inc[n] \in Int
        BY <1>2, <2>4, CountFacts, Zenon DEF IndInv, Honest
      <3>3. m.count < inc[n]
        BY <3>1, <3>2
      <3>4. m.count < inc[m.node] /\ ring[p][m.node] < inc[m.node]
        BY <2>3, <2>4, <3>3
      <3>5. ring'[p][m.node] < inc[m.node]
        BY <3>4, <1>10, Zenon
      <3>q. QED BY <2>4, <3>5
    <2>5. CASE ~ (SeedFront = p /\ n = m.node)
      BY <1>10, <2>3, <2>5, SeedFacts, Zenon
    <2>q. QED BY <2>4, <2>5
  <1>13. RoutersKnow(status', inc', ring', mnet')
    <2> SUFFICES ASSUME NEW r \in Router, NEW n \in Node, Works(status, n)
                 PROVE  ring'[<<r, 0>>][n] = inc[n] \/ Told(mnet', inc', n, <<r, 0>>)
      BY <1>1, Zenon DEF RoutersKnow
    <2>1. ring[<<r, 0>>][n] = inc[n] \/ Told(mnet, inc, n, <<r, 0>>)
      BY Zenon DEF RoutersKnow, IndAgree, Agree
    <2>2. <<r, 0>> \in Proc
      BY RouterFront, Zenon
    <2>3. Told(mnet, inc, n, <<r, 0>>) =>
              Told(mnet', inc', n, <<r, 0>>) \/ ring'[<<r, 0>>][n] = inc[n]
      BY <1>10, Zenon
    <2>4. ring[<<r, 0>>][n] = inc[n] => ring'[<<r, 0>>][n] = inc[n]
      BY <2>2, <1>10, Zenon
    <2>q. QED BY <2>1, <2>3, <2>4
  <1>14. RouterWorkersKnow(status', inc', ring', mnet')
    <2> SUFFICES ASSUME NEW r \in Router, NEW n \in Node, NEW w \in RouterWorkers(r),
                        Works(status, n), ring'[<<r, 0>>][n] = inc[n]
                 PROVE  ring'[w][n] = inc[n] \/ Told(mnet', inc', n, w)
      BY <1>1, Zenon DEF RouterWorkersKnow
    <2>0. w \in Proc /\ <<r, 0>> \in Proc
      BY RouterFront, ThreadFacts
    <2>1. CASE ring[<<r, 0>>][n] = inc[n]
      <3>1. ring[w][n] = inc[n] \/ Told(mnet, inc, n, w)
        BY <2>1, Zenon DEF RouterWorkersKnow, IndAgree, Agree
      <3>q. QED BY <3>1, <2>0, <1>10, Zenon
    <2>2. CASE ring[<<r, 0>>][n] # inc[n]
      <3>1. <<r, 0>> = p
        BY <2>0, <2>2, <1>10, Zenon
      <3>2. n = m.node /\ m.count = inc[n] /\ Inserts(ring[p], n, m.count)
        BY <2>2, <3>1, <1>10, Zenon
      <3>3. news /\ w \in others
        BY <3>1, <3>2, <1>4 DEF news
      <3>q. QED BY <3>2, <3>3, <1>7, Zenon
    <2>q. QED BY <2>1, <2>2, Zenon
  <1>15. \A n, i \in Node :
             /\ ring'[<<i, 0>>][n] = ring[<<i, 0>>][n]
             /\ Told(mnet, inc, n, <<i, 0>>) => Told(mnet', inc', n, <<i, 0>>)
    <2>1. \A i \in Node : <<i, 0>> \in Proc /\ <<i, 0>> # p
      BY <1>1, NodeFront, Apart, ThreadFacts, Zenon
    <2>q. QED BY <2>1, <1>10, Zenon
  <1>16. Returned(status', inc', ring', mnet')
    BY <1>1, <1>15, Zenon DEF Returned, IndAgree, Agree
  <1>17. AllLinked(status', inc', ring', mnet')
    <2>1. ASSUME NEW n \in Node, NEW i \in Node, n # i, Works(status, n), Works(status, i),
                 Reaches(inc, ring, mnet, n, i)
          PROVE  Reaches(inc', ring', mnet', n, i) \/ Reaches(inc', ring', mnet', i, n)
      <3>1. CASE ~ Told(mnet, inc, n, SeedFront) \/ Told(mnet', inc', n, SeedFront)
        BY <1>1, <1>15, <2>1, <3>1, Zenon DEF Reaches
      <3>2. CASE Told(mnet, inc, n, SeedFront) /\ ~ Told(mnet', inc', n, SeedFront)
        <4>1. SeedFront = p /\ n = m.node /\ m.count = inc[n]
          BY <3>2, <1>10, Zenon
        <4>2. ring[p][n] < inc[n]
          BY <3>2, <4>1, Zenon DEF Once, IndAgree, Agree
        <4>3. news
          BY <4>1, <4>2 DEF news, Inserts, SeedFront
        <4>4. CASE ring[SeedFront][i] = inc[i]
          <5>1. ring'[p][i] # Absent
            BY <2>1, <4>1, <4>4, <1>2, <1>10, CountFacts, Zenon
          <5>2. Told(mnet', inc', n, <<i, 0>>)
            BY <5>1, <2>1, <4>1, <4>3, <1>4, <1>7, Zenon
          <5>q. QED BY <5>2 DEF Reaches
        <4>5. CASE ring[SeedFront][i] # inc[i]
          <5>1. Told(mnet, inc, i, SeedFront)
            BY <2>1, <4>5, MembershipAssumption, Zenon DEF RoutersKnow, IndAgree, Agree, SeedFront
          <5>2. Told(mnet', inc', i, SeedFront)
            BY <5>1, <2>1, <4>1, <1>10, Zenon
          <5>q. QED BY <5>2 DEF Reaches
        <4>q. QED BY <4>4, <4>5
      <3>q. QED BY <3>1, <3>2
    <2>q. QED BY <1>1, <2>1, Zenon DEF AllLinked, IndAgree, Agree
  <1>18. RoutersUp(status')
    BY <1>1 DEF IndAgree, Agree
  <1>q. QED BY <1>10, <1>11, <1>12, <1>13, <1>14, <1>16, <1>17, <1>18, Zenon DEF IndAgree, Agree

LEMMA NextAgree == IndInv /\ IndAgree /\ [Next]_mvars => IndAgree'
  <1> SUFFICES ASSUME IndInv, IndAgree, [Next]_mvars PROVE IndAgree'
    OBVIOUS
  <1>1. CASE UNCHANGED mvars
    BY <1>1 DEF mvars, IndAgree
  <1>2. ASSUME NEW p \in Proc, Seed(p) PROVE IndAgree'
    BY <1>2, SeedAgree
  <1>3. ASSUME NEW p \in Proc, Announce(p) PROVE IndAgree'
    BY <1>3, AnnounceAgree
  <1>4. ASSUME NEW p \in Proc, Handle(p) PROVE IndAgree'
    <2>1. PICK m \in mnet :
              \/ NodeJoin(p, m) \/ NodeDepart(p, m) \/ SelfDepart(p, m)
              \/ RouteJoin(p, m) \/ RouteDepart(p, m)
              \/ MonitorJoin(p, m) \/ MonitorDepart(p, m) \/ DepartDone(p, m)
      BY <1>4 DEF Handle
    <2>2. CASE DepartDone(p, m)
      <3>1. /\ p \notin RouterThread /\ (\A n \in Node : p # <<n, 0>>)
            /\ inc' = inc /\ ring' = ring /\ status' = [status EXCEPT ![p] = "killed"]
            /\ mnet' = mnet \ {m} /\ m.kind # "join"
        BY <2>2, NodeFront, Apart DEF DepartDone, Receives
      <3>q. QED BY <3>1, StatusAgree, Zenon
    <2>q. QED BY <2>1, <2>2, NodeJoinAgree, DepartAgree, SelfDepartAgree, RouteJoinAgree, MonitorJoinAgree
  <1>5. ASSUME NEW p \in Proc, NEW n \in Node, RemoveNode(p, n) PROVE IndAgree'
    <2>1. /\ p \notin RouterThread /\ (\A i \in Node : p # <<i, 0>>)
          /\ inc' = inc /\ ring' = ring /\ status' = [status EXCEPT ![p] = status[p]]
          /\ mnet' = mnet \cup {Msg("self_depart", p, <<n, 0>>, n, 0)}
      BY <1>5, NodeFront, Apart DEF RemoveNode, IndInv
    <2>2. Msg("self_depart", p, <<n, 0>>, n, 0).kind # "join"
      BY DEF Msg
    <2>q. QED BY <2>1, <2>2, StatusAgree, Zenon
  <1>6. ASSUME NEW n \in Node, ProcessExit(n) PROVE IndAgree'
    <2>1. <<n, 1>> \in Server
      BY <1>6, MembershipAssumption, ThreadFacts DEF ProcessExit, Tids
    <2>2. <<n, 1>> \in Proc /\ <<n, 1>> \notin RouterThread /\ \A i \in Node : <<n, 1>> # <<i, 0>>
      BY <2>1, Apart, ThreadFacts
    <2>q. QED BY <1>6, <2>2, StatusAgree, Zenon DEF ProcessExit
  <1>7. ASSUME NEW n \in Node, Crash(n) PROVE IndAgree'
    BY <1>7, CrashAgree
  <1>q. QED BY <1>1, <1>2, <1>3, <1>4, <1>5, <1>6, <1>7 DEF Next

LEMMA InductiveAgree == Spec => []IndAgree
  BY InitAgree, NextAgree, Inductive, PTL DEF Spec

LEMMA AgreeImplies == IndInv /\ IndAgree => ViewsAgree
  <1> SUFFICES ASSUME IndInv, IndAgree, Settled, NEW p \in Listening, NEW n \in Node, Serving(n),
                      p \in Server => p[2] = 0
               PROVE  ring[p][n] = inc[n]
    BY DEF ViewsAgree
  <1>1. Works(status, n) /\ status[p] = "up" /\ p \in Server \cup RouterThread
    BY ThreadFacts DEF Serving, Works, Listening
  <1>2. \A x, q : status[q] = "up" => ~ Told(mnet, inc, x, q)
    BY DEF Settled, Told
  <1>3. CASE p \in Server
    <2>1. PICK i \in Node : p = <<i, 0>>
      BY <1>3, ThreadFacts
    <2>2. CASE i = n
      BY <1>1, <2>1, <2>2, ThreadFacts DEF IndInv, Knows
    <2>3. CASE i # n
      <3>1. Works(status, i)
        BY <1>1, <2>1, Zenon DEF Works
      <3>2. ~ Told(mnet, inc, n, <<i, 0>>) /\ ~ Told(mnet, inc, i, <<n, 0>>)
        BY <1>1, <1>2, <3>1 DEF Works
      <3>3. ~ Told(mnet, inc, n, SeedFront) /\ ~ Told(mnet, inc, i, SeedFront)
        BY <1>2, SeedFacts, Zenon DEF IndAgree, Agree, RoutersUp
      <3>4. ring[<<i, 0>>][n] = inc[n] \/ ring[<<n, 0>>][i] = inc[i]
        BY <1>1, <2>3, <3>1, <3>2, <3>3, Zenon DEF AllLinked, Reaches, IndAgree, Agree
      <3>q. QED BY <1>1, <2>1, <2>3, <3>1, <3>2, <3>4, Zenon DEF Returned, IndAgree, Agree
    <2>q. QED BY <2>2, <2>3
  <1>4. CASE p \in RouterThread
    <2>1. PICK r \in Router : p[1] = r /\ (p = <<r, 0>> \/ p \in RouterWorkers(r))
      BY <1>4, MembershipAssumption DEF RouterThread, RouterWorkers
    <2>2. ring[<<r, 0>>][n] = inc[n]
      BY <1>1, <1>2, RouterFront, Zenon DEF RoutersKnow, RoutersUp, IndAgree, Agree
    <2>3. p \in RouterWorkers(r) => ring[p][n] = inc[n]
      BY <1>1, <1>2, <2>2, Zenon DEF RouterWorkersKnow, IndAgree, Agree
    <2>q. QED BY <2>1, <2>2, <2>3
  <1>q. QED BY <1>1, <1>3, <1>4

(* "Gossip the new node address between server nodes to ensure             *)
(* consistency" (node_join_handler): with any number of nodes, threads,    *)
(* crashes, restarts and departures, once no join is on its way to a       *)
(* running thread, thread 0 of every server and every routing thread holds *)
(* every serving node, under the join count of its current run.            *)
THEOREM ViewsConverge == Spec => []ViewsAgree
  BY Inductive, InductiveAgree, AgreeImplies, PTL

=============================================================================
