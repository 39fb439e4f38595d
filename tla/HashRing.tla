------------------------------ MODULE HashRing ------------------------------
(***************************************************************************)
(* The consistent hash rings that every thread keeps for itself, and the   *)
(* walk around a ring that finds the servers responsible for a key.        *)
(*                                                                         *)
(* A ring is a sorted map from hash values to servers: each server is      *)
(* inserted once per virtual node.  Inserting does not replace an entry,   *)
(* erasing looks at the hash value alone.  A thread changes its ring and   *)
(* walks around it in the same event loop, so a walk sees one ring.        *)
(* KvsServer uses the result of the walk (FirstOf there); here the walk    *)
(* itself is checked.                                                      *)
(***************************************************************************)
EXTENDS Integers, FiniteSets, FiniteSetsExt, Sequences

CONSTANTS
    Thread,   \* the threads that keep a ring
    Walker,   \* bound: the threads whose lookups are followed
    Server,   \* the servers that may be on it
    Virtual,  \* the virtual nodes of a server
    Size,     \* hash values are 0..Size-1
    Hash,     \* [Server -> [Virtual -> Position]]
    MaxRep,   \* bound on the replication factors looked up
    Nobody    \* no entry at a position

Position == 0..(Size - 1)

ASSUME RingAssumption ==
    /\ Walker \subseteq Thread
    /\ Size \in Nat \ {0} /\ Virtual # {} /\ Nobody \notin Server /\ MaxRep \in Nat
    /\ Hash \in [Server -> [Virtual -> Position]]

VARIABLES
    nodes_,         \* [Thread -> [Position -> Server \cup {Nobody}]]
    unique_servers, \* [Thread -> SUBSET Server]
    walk            \* [Thread -> a record]: the lookup a thread is in, or has made
                    \* since it last changed its ring
vars == <<nodes_, unique_servers, walk>>

NoWalk == [from |-> 0, at |-> 0, rep |-> 0, threads |-> <<>>, done |-> TRUE]

Places(s) == {Hash[s][v] : v \in Virtual}
Occupied(ring) == {h \in Position : ring[h] # Nobody}
OnRing(ring) == {ring[h] : h \in Occupied(ring)}

\* Mutation of Insert: the last virtual node is left out
Insert_OneLess(p, s) ==
    /\ walk[p].done /\ s \notin unique_servers[p]
    /\ unique_servers' = [unique_servers EXCEPT ![p] = @ \cup {s}]
    /\ nodes_' = [nodes_ EXCEPT ![p] = [h \in Position |->
                    IF @[h] = Nobody /\ h \in Places(s) \ {Max(Places(s))} THEN s ELSE @[h]]]
    /\ walk' = [walk EXCEPT ![p] = NoWalk]

(* HashRing::insert of a server the ring does not have; for one it has     *)
(* only the join count can change (Membership).                            *)
Insert(p, s) ==
    /\ walk[p].done /\ s \notin unique_servers[p]
    /\ unique_servers' = [unique_servers EXCEPT ![p] = @ \cup {s}]
    /\ nodes_' = [nodes_ EXCEPT ![p] = [h \in Position |->
                    IF @[h] = Nobody /\ h \in Places(s) THEN s ELSE @[h]]]
    /\ walk' = [walk EXCEPT ![p] = NoWalk]

(* HashRing::remove, of any server: departures are announced by several    *)
(* threads and the server may be gone already.                             *)
Remove(p, s) ==
    /\ walk[p].done
    /\ unique_servers' = [unique_servers EXCEPT ![p] = @ \ {s}]
    /\ nodes_' = [nodes_ EXCEPT ![p] = [h \in Position |-> IF h \in Places(s) THEN Nobody ELSE @[h]]]
    /\ walk' = [walk EXCEPT ![p] = NoWalk]

\* lower_bound, and begin() when there is none
Find(ring, h) ==
    LET above == {x \in Occupied(ring) : x >= h}
    IN  IF above # {} THEN Min(above) ELSE Min(Occupied(ring))

\* Mutation of NextPos: the walk stays at the end
NextPos_NoWrap(ring, h) ==
    LET above == {x \in Occupied(ring) : x > h} IN IF above # {} THEN Min(above) ELSE h

\* ++pos, and begin() at the end
NextPos(ring, h) ==
    LET above == {x \in Occupied(ring) : x > h}
    IN  IF above # {} THEN Min(above) ELSE Min(Occupied(ring))

(* responsible_global and responsible_local, for a key with hash h: the    *)
(* loop of either, one iteration a step.                                   *)
Begin(p, h, rep) ==
    /\ walk[p].done
    /\ walk' = [walk EXCEPT ![p] =
          IF Occupied(nodes_[p]) = {} \/ rep = 0
            THEN [from |-> h, at |-> h, rep |-> 0, threads |-> <<>>, done |-> TRUE]
            ELSE [from |-> h, at |-> Find(nodes_[p], h), rep |-> rep, threads |-> <<>>, done |-> FALSE]]
    /\ UNCHANGED <<nodes_, unique_servers>>

\* Mutation of Step: a server met again is counted again
Step_Repeat(p) ==
    LET w == walk[p]
        found == Append(w.threads, nodes_[p][w.at])
    IN  /\ ~ w.done
        /\ walk' = [walk EXCEPT ![p] = [w EXCEPT !.threads = found, !.at = NextPos(nodes_[p], w.at),
                                                 !.done = Len(found) >= w.rep]]
        /\ UNCHANGED <<nodes_, unique_servers>>

Step(p) ==
    LET w == walk[p]
        s == nodes_[p][w.at]
        found == IF \E i \in DOMAIN w.threads : w.threads[i] = s THEN w.threads ELSE Append(w.threads, s)
    IN  /\ ~ w.done
        /\ walk' = [walk EXCEPT ![p] = [w EXCEPT !.threads = found, !.at = NextPos(nodes_[p], w.at),
                                                 !.done = Len(found) >= w.rep]]
        /\ UNCHANGED <<nodes_, unique_servers>>

Init ==
    /\ nodes_ = [p \in Thread |-> [h \in Position |-> Nobody]]
    /\ unique_servers = [p \in Thread |-> {}]
    /\ walk = [p \in Thread |-> NoWalk]

Next == \E p \in Thread :
    \/ \E s \in Server : Insert(p, s) \/ Remove(p, s)
    \/ p \in Walker /\ \E h \in Position, rep \in 0..MaxRep : Begin(p, h, rep)
    \/ Step(p)

Spec == Init /\ [][Next]_vars
FairSpec == Spec /\ \A p \in Thread : WF_vars(Step(p))

-----------------------------------------------------------------------------
(* Properties.                                                             *)

\* no other server has a virtual node at h
Alone(h, s) == \A r \in Server : h \in Places(r) => r = s

(* In whatever order servers were inserted and removed, an entry of the    *)
(* ring is a virtual node of a server the thread knows, and every virtual  *)
(* node of such a server is on the ring, unless it shares its hash value   *)
(* with another server: then the first to come keeps the entry, and the    *)
(* first to go takes it away from the other.                               *)
RingExact ==
    \A p \in Thread, h \in Position, s \in Server :
        /\ nodes_[p][h] = s => s \in unique_servers[p] /\ h \in Places(s)
        /\ s \in unique_servers[p] /\ h \in Places(s) /\ Alone(h, s) => nodes_[p][h] = s

\* the distance from h to the first virtual node of s
Distance(ring, h, s) == Min({(x - h + Size) % Size : x \in {y \in Occupied(ring) : ring[y] = s}})

(* The walk finds the servers closest to the key in the order of the ring, *)
(* each once and the closest first, also where it wraps around, and ends   *)
(* with as many as were asked for.                                         *)
WalkFindsClosest ==
    \A p \in Thread :
        LET w == walk[p]
            ring == nodes_[p]
            closer(s) == {r \in OnRing(ring) : Distance(ring, w.from, r) < Distance(ring, w.from, s)}
        IN  /\ w.done => Len(w.threads) = w.rep
            /\ \A i \in DOMAIN w.threads :
                 w.threads[i] \in OnRing(ring) /\ Cardinality(closer(w.threads[i])) = i - 1

(* A walk for no more servers than have an entry on the ring comes to an   *)
(* end (the servers the thread knows, unless hash values collide).         *)
WalkEnds ==
    \A p \in Thread :
        ~ walk[p].done /\ walk[p].rep <= Cardinality(OnRing(nodes_[p])) ~> walk[p].done
=============================================================================
