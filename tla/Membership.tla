----------------------------- MODULE Membership -----------------------------
(***************************************************************************)
(* Cluster membership: how server threads, routing threads and monitoring  *)
(* nodes learn which server nodes are in the hash rings.                   *)
(*                                                                         *)
(* Every thread of every process owns a private copy of the global hash    *)
(* rings.  A server node runs one thread per id in Tids; each thread asks  *)
(* the seed routing node for the membership, then thread 0 announces the   *)
(* node.  Joins are gossiped by thread 0 of the servers and of the routing *)
(* nodes, and passed on to their worker threads.                           *)
(*                                                                         *)
(* A ring is abstracted to the join count under which each node is known   *)
(* (HashRing.tla studies the positions on the ring).  Messages travel on   *)
(* ZeroMQ PUSH/PULL sockets: no order between senders or between sockets,  *)
(* so the network is a set, a message carrying its sender (FirstInLine     *)
(* gives the order where two kinds share a socket).                        *)
(***************************************************************************)
EXTENDS Integers, FiniteSets

CONSTANTS
    Node,       \* server nodes (a node is its pair of IP addresses)
    Router,     \* routing nodes
    Monitor,    \* monitoring nodes
    SeedRouter, \* the routing node of seed_ip in the configuration
    Initial,    \* nodes that have joined and settled before the behaviour starts
    TMax,       \* kThreadNum - 1: the largest server thread id
    RTMax,      \* kRoutingThreadCount - 1: the largest routing thread id
    MaxCount,   \* bound: the largest join count (number of restarts)
    MayCrash,   \* bound: nodes that may crash
    MayDepart   \* bound: nodes the monitor may remove

ASSUME MembershipAssumption ==
    /\ SeedRouter \in Router
    /\ Initial \subseteq Node
    /\ MayCrash \subseteq Node /\ MayDepart \subseteq Node
    /\ TMax \in Nat /\ RTMax \in Nat /\ MaxCount \in Nat
    /\ Node \cap Router = {} /\ Node \cap Monitor = {} /\ Router \cap Monitor = {}

Tids == 0..TMax
Server == Node \X Tids
RouterThread == Router \X (0..RTMax)
MonitorThread == Monitor \X {0}
Proc == Server \cup RouterThread \cup MonitorThread

Absent == -1
Count == 0..MaxCount

VARIABLES
    status, \* [Proc -> Status]
    inc,    \* [Node -> Count]: self_join_count of the node's current run
    ring,   \* [Proc -> [Node -> Count \cup {Absent}]]: each thread's hash rings
    mnet    \* membership messages in flight

mvars == <<status, inc, ring, mnet>>

Status == {"off", "seeded", "up", "gone", "killed"}
Kind == {"join", "depart", "self_depart", "depart_done"}
Message == [kind : Kind, from : Proc, to : Proc, node : Node, count : Count]

Msg(kind, from, to, n, c) ==
    [kind |-> kind, from |-> from, to |-> to, node |-> n, count |-> c]

-----------------------------------------------------------------------------
(* The ring of one thread.                                                 *)

\* get_unique_servers, over all tiers
Members(view) == {n \in Node : view[n] # Absent}

\* Mutation of Inserts: the join count of a known node is ignored
Inserts_NewOnly(view, n, c) == view[n] = Absent

\* HashRing::insert succeeds for an unknown server or a larger join count
Inserts(view, n, c) == view[n] < c
Insert(view, n, c) == IF Inserts(view, n, c) THEN [view EXCEPT ![n] = c] ELSE view

\* HashRing::remove forgets the join count as well
Remove(view, n) == [view EXCEPT ![n] = Absent]

Workers(n) == {n} \X (1..TMax)
RouterWorkers(r) == {r} \X (1..RTMax)
Front(N) == N \X {0}

-----------------------------------------------------------------------------
Init ==
    /\ status = [p \in Proc |-> IF p \in Server /\ p[1] \notin Initial THEN "off" ELSE "up"]
    /\ inc = [n \in Node |-> 0]
    /\ ring = [p \in Proc |-> [n \in Node |->
                 IF status[p] = "up" /\ n \in Initial THEN 0 ELSE Absent]]
    /\ mnet = {}

\* Mutation of Seed: the servers are inserted with the thread's own count
Seed_OwnCount(p) ==
    /\ p \in Server /\ status[p] = "off"
    /\ status' = [status EXCEPT ![p] = "seeded"]
    /\ LET known == [n \in Node |->
                       IF n \in Members(ring[<<SeedRouter, 0>>]) THEN inc[p[1]] ELSE Absent]
       IN  ring' = [ring EXCEPT ![p] = Insert(known, p[1], inc[p[1]])]
    /\ UNCHANGED <<inc, mnet>>

(* A starting server thread.  Every thread makes its own request to the    *)
(* seed node; the reply names the servers without their join counts, so    *)
(* they are inserted with 0, and the thread adds itself with its own count. *)
Seed(p) ==
    /\ p \in Server /\ status[p] = "off"
    /\ status' = [status EXCEPT ![p] = "seeded"]
    /\ LET known == [n \in Node |->
                       IF n \in Members(ring[<<SeedRouter, 0>>]) THEN 0 ELSE Absent]
       IN  ring' = [ring EXCEPT ![p] = Insert(known, p[1], inc[p[1]])]
    /\ UNCHANGED <<inc, mnet>>

(* Thread 0 announces the node to the servers it knows, the routing nodes  *)
(* and the monitoring nodes; every thread then enters its event loop.      *)
Announce(p) ==
    /\ p \in Server /\ status[p] = "seeded"
    /\ status' = [status EXCEPT ![p] = "up"]
    /\ mnet' = mnet \cup
         (IF p[2] = 0
            THEN {Msg("join", p, q, p[1], inc[p[1]]) :
                    q \in Front((Members(ring[p]) \ {p[1]}) \cup Router \cup Monitor)}
            ELSE {})
    /\ UNCHANGED <<inc, ring>>

Receives(p, m, kind) == m \in mnet /\ m.to = p /\ m.kind = kind /\ status[p] = "up"

(* What thread 0 sends for a node it did not know: its own record to the   *)
(* new node, the message to the servers it knows and to its workers.       *)
JoinGossip(p, m, view) ==
    {Msg("join", p, <<m.node, 0>>, p[1], inc[p[1]])}
    \cup {Msg("join", p, q, m.node, m.count) :
            q \in Front(Members(view) \ {p[1], m.node}) \cup Workers(p[1])}

(* node_join_handler: a new node or a larger count is inserted, and thread *)
(* 0 passes it on.                                                         *)
NodeJoin(p, m) ==
    /\ p \in Server /\ Receives(p, m, "join")
    /\ ring' = [ring EXCEPT ![p] = Insert(@, m.node, m.count)]
    /\ mnet' = (mnet \ {m}) \cup
         (IF Inserts(ring[p], m.node, m.count) /\ p[2] = 0
            THEN JoinGossip(p, m, ring'[p]) ELSE {})
    /\ UNCHANGED <<status, inc>>

\* Mutation of NodeDepart: the receiver removes its own addresses
NodeDepart_Own(p, m) ==
    /\ p \in Server /\ Receives(p, m, "depart")
    /\ ring' = [ring EXCEPT ![p] = Remove(@, p[1])]
    /\ mnet' = mnet \ {m}
    /\ UNCHANGED <<status, inc>>

(* node_depart_handler                                                     *)
NodeDepart(p, m) ==
    /\ p \in Server /\ Receives(p, m, "depart")
    /\ ring' = [ring EXCEPT ![p] = Remove(@, m.node)]
    /\ mnet' = (mnet \ {m}) \cup
         (IF p[2] = 0 THEN {Msg("depart", p, q, m.node, 0) : q \in Workers(p[1])} ELSE {})
    /\ UNCHANGED <<status, inc>>

(* self_depart_handler, after which run() returns.  The message's node is  *)
(* this node and its sender the monitoring node to acknowledge to.  The    *)
(* acknowledgement follows the hand-over of the keys, which may never end  *)
(* (KvsServer says when).                                                  *)
SelfDepart(p, m) ==
    /\ p \in Server /\ Receives(p, m, "self_depart")
    /\ ring' = [ring EXCEPT ![p] = Remove(@, p[1])]
    /\ \E done \in SUBSET {Msg("depart_done", p, m.from, p[1], 0)} :
         mnet' = (mnet \ {m}) \cup done \cup
           (IF p[2] = 0
              THEN {Msg("depart", p, q, p[1], 0) :
                      q \in Front(Members(ring'[p]) \cup Router \cup Monitor)}
                   \cup {Msg("self_depart", m.from, q, p[1], 0) : q \in Workers(p[1])}
              ELSE {})
    /\ status' = [status EXCEPT ![p] = "gone"]
    /\ UNCHANGED inc

(* main() after run(0) returned: the loop joins worker_threads[tid] for    *)
(* tid >= 1, but that vector holds thread tid at index tid - 1.  Threads   *)
(* 2..TMax are joined, thread 1 is not, and the last index is past the end *)
(* of the vector: the process may end with thread 1 still working.         *)
ProcessExit(n) ==
    /\ TMax > 0 /\ \A t \in Tids \ {1} : status[<<n, t>>] = "gone"
    /\ status[<<n, 1>>] \in {"off", "seeded", "up"}
    /\ status' = [status EXCEPT ![<<n, 1>>] = "killed"]
    /\ UNCHANGED <<inc, ring, mnet>>

-----------------------------------------------------------------------------
(* Routing and monitoring nodes receive joins and departs on one notify    *)
(* socket, so those of one sender arrive in the order they were sent, and  *)
(* a node's joins precede its depart.  (Servers have a socket for each.)   *)
FirstInLine(m) ==
    ~ \E j \in mnet : j.kind = "join" /\ j.from = m.from /\ j.to = m.to /\ j.node = m.node

(* Routing threads: membership_handler.                                    *)
RouteJoin(p, m) ==
    /\ p \in RouterThread /\ Receives(p, m, "join")
    /\ ring' = [ring EXCEPT ![p] = Insert(@, m.node, m.count)]
    /\ mnet' = (mnet \ {m}) \cup
         (IF Inserts(ring[p], m.node, m.count) /\ p[2] = 0
            THEN {Msg("join", p, q, m.node, m.count) :
                    q \in Front(Members(ring'[p]) \ {m.node}) \cup RouterWorkers(p[1])}
            ELSE {})
    /\ UNCHANGED <<status, inc>>

RouteDepart(p, m) ==
    /\ p \in RouterThread /\ Receives(p, m, "depart") /\ FirstInLine(m)
    /\ ring' = [ring EXCEPT ![p] = Remove(@, m.node)]
    /\ mnet' = (mnet \ {m}) \cup
         (IF p[2] = 0 THEN {Msg("depart", p, q, m.node, 0) : q \in RouterWorkers(p[1])} ELSE {})
    /\ UNCHANGED <<status, inc>>

(* Monitoring nodes ignore the join count of the message.                  *)
MonitorJoin(p, m) ==
    /\ p \in MonitorThread /\ Receives(p, m, "join")
    /\ ring' = [ring EXCEPT ![p] = Insert(@, m.node, 0)]
    /\ mnet' = mnet \ {m}
    /\ UNCHANGED <<status, inc>>

MonitorDepart(p, m) ==
    /\ p \in MonitorThread /\ Receives(p, m, "depart") /\ FirstInLine(m)
    /\ ring' = [ring EXCEPT ![p] = Remove(@, m.node)]
    /\ mnet' = mnet \ {m}
    /\ UNCHANGED <<status, inc>>

(* remove_node: a policy of the monitor asks a node it knows to depart.    *)
(* The policies keep one removal per tier under way; here one per node.    *)
RemoveNode(p, n) ==
    /\ p \in MonitorThread /\ status[p] = "up"
    /\ n \in MayDepart \cap Members(ring[p])
    /\ status[<<n, 0>>] = "up" /\ ~ \E m \in mnet : m.kind = "self_depart" /\ m.node = n
    /\ mnet' = mnet \cup {Msg("self_depart", p, <<n, 0>>, n, 0)}
    /\ UNCHANGED <<status, inc, ring>>

(* depart_done_handler calls stoi on the tier's name, which throws, and    *)
(* nothing catches it: the monitoring process ends.                        *)
DepartDone(p, m) ==
    /\ p \in MonitorThread /\ Receives(p, m, "depart_done")
    /\ status' = [status EXCEPT ![p] = "killed"]
    /\ mnet' = mnet \ {m}
    /\ UNCHANGED <<inc, ring>>

-----------------------------------------------------------------------------
(* A server node crashes, losing any of the messages already on their way  *)
(* to it, and is restarted with the next join count.  Messages sent later  *)
(* wait in the senders' sockets.                                           *)
Crash(n) ==
    /\ n \in MayCrash /\ inc[n] < MaxCount
    /\ status[<<n, 0>>] \in {"seeded", "up"}
    /\ \A t \in Tids : status[<<n, t>>] \in {"off", "seeded", "up"}
    /\ inc' = [inc EXCEPT ![n] = @ + 1]
    /\ status' = [p \in Proc |-> IF p \in Server /\ p[1] = n THEN "off" ELSE status[p]]
    /\ ring' = [p \in Proc |-> IF p \in Server /\ p[1] = n
                                 THEN [i \in Node |-> Absent] ELSE ring[p]]
    /\ \E lost \in SUBSET {m \in mnet : m.to[1] = n} : mnet' = mnet \ lost

Handle(p) ==
    \E m \in mnet :
        \/ NodeJoin(p, m) \/ NodeDepart(p, m) \/ SelfDepart(p, m)
        \/ RouteJoin(p, m) \/ RouteDepart(p, m)
        \/ MonitorJoin(p, m) \/ MonitorDepart(p, m) \/ DepartDone(p, m)

Next ==
    \/ \E p \in Proc : Seed(p) \/ Announce(p) \/ Handle(p)
    \/ \E p \in Proc, n \in Node : RemoveNode(p, n)
    \/ \E n \in Node : ProcessExit(n) \/ Crash(n)

Spec == Init /\ [][Next]_mvars

-----------------------------------------------------------------------------
(* Properties.                                                             *)

TypeOK ==
    /\ status \in [Proc -> Status]
    /\ inc \in [Node -> Count]
    /\ ring \in [Proc -> [Node -> Count \cup {Absent}]]
    /\ mnet \subseteq Message

(* While a server thread serves, its own node is in its rings, under the   *)
(* join count of the current run: no depart or stale join, from whatever   *)
(* sender, makes a running thread drop or demote itself.  On a memory node *)
(* it keeps "rand() % threads.size()" of the replication factor request    *)
(* away from zero.                                                         *)
SelfInRing ==
    \A p \in Server : status[p] \in {"seeded", "up"} => ring[p][p[1]] = inc[p[1]]

(* A join count known or travelling anywhere was really used by that node: *)
(* however late, forwarded or duplicated, a join never announces a restart *)
(* that did not happen (HashRing::insert would then refuse the real one).  *)
CountsReal ==
    /\ \A p \in Proc, n \in Node : ring[p][n] <= inc[n]
    /\ \A m \in mnet : m.kind = "join" => m.count <= inc[m.node]

(* HashRing::insert and remove, over all histories: what a thread knows of *)
(* a node only moves to a later join count, and a running thread forgets a *)
(* node only after that node's thread 0 has really departed.               *)
RingStep(p, n) ==
    ring'[p][n] < ring[p][n] =>
        /\ ring'[p][n] = Absent
        /\ status'[<<n, 0>>] = "gone" \/ status'[p] = "off"
OnlyDepartedForgotten == [][\A p \in Proc, n \in Node : RingStep(p, n)]_mvars

Serving(n) == \A t \in Tids : status[<<n, t>>] = "up"
Settled ==
    /\ \A m \in mnet : status[m.to] # "up"
    /\ \A n \in Node, t \in Tids : status[<<n, t>>] = status[<<n, 0>>] /\ status[<<n, t>>] # "seeded"
Listening == {p \in Server \cup RouterThread : status[p] = "up"}

(* "gossip the new node address between server nodes to ensure             *)
(* consistency": once every join message has been handled, the ring of     *)
(* thread 0 of every server and of every routing thread holds every        *)
(* serving node, under the join count of its current run.  (A worker       *)
(* thread that seeds itself late may miss a join for good.)                *)
ViewsAgree ==
    Settled => \A p \in Listening, n \in Node :
                   Serving(n) /\ (p \in Server => p[2] = 0) => ring[p][n] = inc[n]
=============================================================================
