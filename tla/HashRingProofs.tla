--------------------------- MODULE HashRingProofs ---------------------------
(***************************************************************************)
(* Proofs about HashRing, for any number of threads, servers and virtual   *)
(* nodes and any hash function: what is on a ring, in whatever order       *)
(* servers came and went, and that a lookup finds the closest of them.     *)
(***************************************************************************)
EXTENDS HashRing, FiniteSetTheorems, TLAPS

\* the invariant: the types of the two maps, and the exact ring
RingInv ==
    /\ nodes_ \in [Thread -> [Position -> Server \cup {Nobody}]]
    /\ unique_servers \in [Thread -> SUBSET Server]
    /\ RingExact

(* Every step preserves the invariant: HashRing::insert fills only free    *)
(* positions of the new server, and HashRing::remove empties only          *)
(* positions of the removed server.                                        *)
Exact(ring, known, h, s) ==
    /\ ring[h] = s => s \in known /\ h \in Places(s)
    /\ s \in known /\ h \in Places(s) /\ Alone(h, s) => ring[h] = s

LEMMA RingInvStep == RingInv /\ [Next]_vars => RingInv'
<1> SUFFICES ASSUME RingInv, [Next]_vars PROVE RingInv'
  OBVIOUS
<1> USE RingAssumption DEF RingInv
<1>0. \A p \in Thread, h \in Position, s \in Server : Exact(nodes_[p], unique_servers[p], h, s)
  BY DEF RingExact, Exact
<1>1. ASSUME NEW p \in Thread, NEW s \in Server, Insert(p, s) PROVE RingInv'
  <2>1. /\ nodes_' \in [Thread -> [Position -> Server \cup {Nobody}]]
        /\ unique_servers' \in [Thread -> SUBSET Server]
    BY <1>1 DEF Insert
  <2>2. ASSUME NEW q \in Thread, NEW h \in Position, NEW r \in Server
        PROVE Exact(nodes_'[q], unique_servers'[q], h, r)
    <3>1. CASE q # p
      <4>1. nodes_'[q] = nodes_[q] /\ unique_servers'[q] = unique_servers[q]
        BY <1>1, <3>1 DEF Insert
      <4> QED
        BY <1>0, <4>1
    <3>2. CASE q = p
      <4>1. unique_servers'[p] = unique_servers[p] \cup {s}
        BY <1>1 DEF Insert
      <4>2. nodes_'[p][h] = IF nodes_[p][h] = Nobody /\ h \in Places(s) THEN s ELSE nodes_[p][h]
        BY <1>1 DEF Insert
      <4>3. h \in Places(s) /\ Alone(h, s) => nodes_[p][h] = Nobody
        <5> SUFFICES ASSUME h \in Places(s), Alone(h, s), nodes_[p][h] # Nobody PROVE FALSE
          OBVIOUS
        <5>1. nodes_[p][h] \in Server
          OBVIOUS
        <5>2. nodes_[p][h] \in unique_servers[p] /\ h \in Places(nodes_[p][h])
          BY <1>0, <5>1 DEF Exact
        <5>3. nodes_[p][h] # s
          BY <5>2, <1>1 DEF Insert
        <5> QED
          BY <5>1, <5>2, <5>3 DEF Alone
      <4>4. Exact(nodes_[p], unique_servers[p], h, r) /\ Nobody \notin Server
        BY <1>0
      <4> QED
        BY <3>2, <4>1, <4>2, <4>3, <4>4 DEF Exact
    <3> QED
      BY <3>1, <3>2
  <2> QED
    BY <2>1, <2>2 DEF RingExact, Exact
<1>2. ASSUME NEW p \in Thread, NEW s \in Server, Remove(p, s) PROVE RingInv'
  <2>1. /\ nodes_' \in [Thread -> [Position -> Server \cup {Nobody}]]
        /\ unique_servers' \in [Thread -> SUBSET Server]
    BY <1>2 DEF Remove
  <2>2. ASSUME NEW q \in Thread, NEW h \in Position, NEW r \in Server
        PROVE Exact(nodes_'[q], unique_servers'[q], h, r)
    <3>1. CASE q # p
      <4>1. nodes_'[q] = nodes_[q] /\ unique_servers'[q] = unique_servers[q]
        BY <1>2, <3>1 DEF Remove
      <4> QED
        BY <1>0, <4>1
    <3>2. CASE q = p
      <4>1. unique_servers'[p] = unique_servers[p] \ {s}
        BY <1>2 DEF Remove
      <4>2. nodes_'[p][h] = IF h \in Places(s) THEN Nobody ELSE nodes_[p][h]
        BY <1>2 DEF Remove
      <4>3. Exact(nodes_[p], unique_servers[p], h, r) /\ Nobody \notin Server
        BY <1>0
      <4>4. h \in Places(s) /\ Alone(h, r) => r = s
        BY DEF Alone
      <4> QED
        BY <3>2, <4>1, <4>2, <4>3, <4>4 DEF Exact
    <3> QED
      BY <3>1, <3>2
  <2> QED
    BY <2>1, <2>2 DEF RingExact, Exact
<1>3. ASSUME UNCHANGED <<nodes_, unique_servers>> PROVE RingInv'
  BY <1>3 DEF RingExact
<1> QED
  BY <1>1, <1>2, <1>3, Zenon DEF Next, Begin, Step, vars

(* A ring is made of the virtual nodes of the servers it knows, all of     *)
(* them but for those at a shared position, after any sequence of          *)
(* HashRing::insert and HashRing::remove and for any hash function.        *)
THEOREM RingIsExact == Spec => []RingExact
<1>1. Init => RingInv
  BY RingAssumption DEF Init, RingInv, RingExact
<1>2. RingInv => RingExact
  BY DEF RingInv
<1> QED
  BY <1>1, <1>2, RingInvStep, PTL DEF Spec

-----------------------------------------------------------------------------
(* The walk around the ring.                                               *)

(* How far a position is from a key's hash, in the order of the ring.      *)
Off(h, x) == (x - h + Size) % Size

(* The distance in plain arithmetic, around the end of the ring and not.   *)
LEMMA OffFacts ==
    ASSUME NEW h \in Position, NEW x \in Position
    PROVE  /\ Off(h, x) = IF x >= h THEN x - h ELSE x - h + Size
           /\ Off(h, x) \in 0..(Size - 1)
  <1>1. Size \in Nat /\ Size > 0 /\ h \in Int /\ x \in Int /\ 0 <= h /\ h < Size /\ 0 <= x /\ x < Size
    BY RingAssumption DEF Position
  <1>2. CASE x < h
    BY <1>1, <1>2 DEF Off
  <1>3. CASE x >= h
    BY <1>1, <1>3 DEF Off
  <1>q. QED BY <1>1, <1>2, <1>3

(* A set of positions that is not empty has a least element.               *)
LEMMA MinFacts ==
    ASSUME NEW S, S \subseteq Nat, S # {}
    PROVE  Min(S) \in S /\ \A y \in S : Min(S) <= y
  <1>1. PICK t \in S : \A y \in S : ~ (<<y, t>> \in OpToRel(<, Nat))
    BY WFMin, NatLessThanWellFounded, Zenon
  <1>2. \A y \in S : ~ (y < t)
    BY <1>1, Zenon DEF OpToRel
  <1>3. \A y \in S : t <= y
    BY <1>2
  <1>q. QED BY <1>3, Zenon DEF Min

(* A ring, and what a lookup on it is at every step: it has found servers  *)
(* of the ring, each once, each with the ones found earlier and no others  *)
(* closer to the key; and unless it has found all there are, it has found  *)
(* exactly those it passed between the key and the place it is at.         *)
Ring == [Position -> Server \cup {Nobody}]
Walk == [from : Position, at : Position, rep : Nat, threads : Seq(Server), done : BOOLEAN]

FoundBy(threads) == {threads[i] : i \in 1..Len(threads)}
Passed(ring, h, a) == {ring[x] : x \in {y \in Occupied(ring) : Off(h, y) < Off(h, a)}}
Closer(ring, h, r, s) == Distance(ring, h, r) < Distance(ring, h, s)

Ranked(ring, h, threads, i) ==
    /\ threads[i] \in OnRing(ring)
    /\ \A r \in OnRing(ring) : Closer(ring, h, r, threads[i]) <=> \E j \in 1..(i - 1) : r = threads[j]
    /\ \A j \in 1..Len(threads) : threads[i] = threads[j] => i = j
InOrder(ring, h, threads) == \A i \in 1..Len(threads) : Ranked(ring, h, threads, i)

WalkOK(ring, w) ==
    /\ w \in Walk
    /\ w.done => Len(w.threads) = w.rep
    /\ InOrder(ring, w.from, w.threads)
    /\ ~ w.done => /\ Len(w.threads) < w.rep /\ w.at \in Occupied(ring)
                   /\ \/ OnRing(ring) \subseteq FoundBy(w.threads)
                      \/ FoundBy(w.threads) = Passed(ring, w.from, w.at)

WalkInv ==
    /\ nodes_ \in [Thread -> Ring] /\ walk \in [Thread -> Walk]
    /\ \A p \in Thread : WalkOK(nodes_[p], walk[p])

(* The positions in use hold the servers of the ring.                      *)
LEMMA OccupiedFacts ==
    ASSUME NEW ring \in Ring
    PROVE  /\ Occupied(ring) \subseteq Position /\ Position \subseteq Nat
           /\ \A s \in OnRing(ring) : s \in Server /\ \E x \in Occupied(ring) : ring[x] = s
           /\ \A x \in Occupied(ring) : ring[x] \in OnRing(ring)
  BY RingAssumption DEF Occupied, OnRing, Ring, Position

(* The distance of a server is that of its closest virtual node.           *)
LEMMA DistanceFacts ==
    ASSUME NEW ring \in Ring, NEW h \in Position, NEW s \in OnRing(ring)
    PROVE  /\ Distance(ring, h, s) \in Nat
           /\ \E x \in Occupied(ring) : ring[x] = s /\ Off(h, x) = Distance(ring, h, s)
           /\ \A x \in Occupied(ring) : ring[x] = s => Distance(ring, h, s) <= Off(h, x)
  <1> DEFINE S == {Off(h, x) : x \in {y \in Occupied(ring) : ring[y] = s}}
  <1>1. \A x \in Occupied(ring) : Off(h, x) \in Nat
    BY OccupiedFacts, OffFacts, RingAssumption
  <1>2. S \subseteq Nat /\ S # {}
    BY <1>1, OccupiedFacts
  <1>3. Distance(ring, h, s) = Min(S)
    BY DEF Distance, Off
  <1>4. Min(S) \in S /\ \A y \in S : Min(S) <= y
    <2> HIDE DEF S
    <2>q. QED BY <1>2, MinFacts, Zenon
  <1>q. QED BY <1>2, <1>3, <1>4

(* The first position of a walk is the closest to the key.                 *)
LEMMA FindFacts ==
    ASSUME NEW ring \in Ring, NEW h \in Position, Occupied(ring) # {}
    PROVE  /\ Find(ring, h) \in Occupied(ring)
           /\ \A x \in Occupied(ring) : Off(h, Find(ring, h)) <= Off(h, x)
  <1> DEFINE above == {x \in Occupied(ring) : x >= h}
             a == Find(ring, h)
  <1>1. Occupied(ring) \subseteq Nat /\ Occupied(ring) \subseteq Position /\ above \subseteq Nat /\ h \in Nat
    BY OccupiedFacts
  <1>2. CASE above # {}
    <2>1. a = Min(above)
      BY <1>2 DEF Find
    <2>2. Min(above) \in above /\ \A y \in above : Min(above) <= y
      <3> HIDE DEF above
      <3>q. QED BY <1>1, <1>2, MinFacts, Zenon
    <2>3. a \in Occupied(ring) /\ a >= h /\ \A x \in Occupied(ring) : x >= h => a <= x
      BY <2>1, <2>2
    <2> HIDE DEF a
    <2>4. \A x \in Occupied(ring) : Off(h, a) <= Off(h, x)
      <3> TAKE x \in Occupied(ring)
      <3>1. Off(h, a) = a - h /\ Off(h, x) = IF x >= h THEN x - h ELSE x - h + Size
        BY <1>1, <2>3, OffFacts
      <3>2. a \in Nat /\ x \in Nat /\ a < Size /\ Size \in Nat
        BY <1>1, <2>3, RingAssumption DEF Position
      <3>q. QED BY <1>1, <2>3, <3>1, <3>2
    <2>q. QED BY <2>3, <2>4 DEF a
  <1>3. CASE above = {}
    <2>1. a = Min(Occupied(ring))
      BY <1>3 DEF Find
    <2>2. Min(Occupied(ring)) \in Occupied(ring) /\ \A y \in Occupied(ring) : Min(Occupied(ring)) <= y
      BY <1>1, MinFacts
    <2>3. a \in Occupied(ring) /\ \A x \in Occupied(ring) : a <= x /\ ~ (x >= h)
      BY <1>3, <2>1, <2>2
    <2> HIDE DEF a
    <2>4. \A x \in Occupied(ring) : Off(h, a) <= Off(h, x)
      <3> TAKE x \in Occupied(ring)
      <3>1. Off(h, a) = a - h + Size /\ Off(h, x) = x - h + Size
        BY <1>1, <2>3, OffFacts
      <3>2. a \in Nat /\ x \in Nat /\ Size \in Nat
        BY <1>1, <2>3, RingAssumption
      <3>q. QED BY <1>1, <2>3, <3>1, <3>2
    <2>q. QED BY <2>3, <2>4 DEF a
  <1>q. QED BY <1>2, <1>3

(* The next position is the next one away from the key, unless the walk    *)
(* was at the last one.                                                    *)
LEMMA NextPosFacts ==
    ASSUME NEW ring \in Ring, NEW h \in Position, NEW a \in Occupied(ring)
    PROVE  LET b == NextPos(ring, a)
           IN  /\ b \in Occupied(ring)
               /\ \/ \A x \in Occupied(ring) : Off(h, x) <= Off(h, a)
                  \/ \A x \in Occupied(ring) : Off(h, x) < Off(h, b) <=> Off(h, x) <= Off(h, a)
  <1> DEFINE above == {x \in Occupied(ring) : x > a}
             b == NextPos(ring, a)
  <1>1. Occupied(ring) \subseteq Nat /\ Occupied(ring) \subseteq Position /\ above \subseteq Nat
    BY OccupiedFacts
  <1>2. /\ b \in Occupied(ring)
        /\ \/ b > a /\ \A x \in Occupied(ring) : ~ (a < x /\ x < b)
           \/ \A x \in Occupied(ring) : b <= x /\ x <= a
    <2>1. CASE above # {}
      <3>1. b = Min(above)
        BY <2>1 DEF NextPos
      <3>2. Min(above) \in above /\ \A y \in above : Min(above) <= y
        <4> HIDE DEF above
        <4>q. QED BY <1>1, <2>1, MinFacts, Zenon
      <3>3. b \in Occupied(ring) /\ b > a /\ \A x \in Occupied(ring) : x > a => b <= x
        BY <3>1, <3>2
      <3> HIDE DEF b
      <3>q. QED BY <1>1, <3>3
    <2>2. CASE above = {}
      <3>1. b = Min(Occupied(ring))
        BY <2>2 DEF NextPos
      <3>2. Min(Occupied(ring)) \in Occupied(ring) /\ \A y \in Occupied(ring) : Min(Occupied(ring)) <= y
        BY <1>1, MinFacts
      <3>3. b \in Occupied(ring) /\ \A x \in Occupied(ring) : b <= x /\ ~ (x > a)
        BY <2>2, <3>1, <3>2
      <3> HIDE DEF b
      <3>q. QED BY <1>1, <3>3
    <2>q. QED BY <2>1, <2>2
  <1> HIDE DEF above, b
  <1>3. /\ \A x \in Occupied(ring) : Off(h, x) = IF x >= h THEN x - h ELSE x - h + Size
        /\ \A x \in Occupied(ring) : x \in Nat /\ x < Size
        /\ h \in Nat /\ Size \in Nat
    <2>1. \A x \in Occupied(ring) : Off(h, x) = IF x >= h THEN x - h ELSE x - h + Size
      BY <1>1, OffFacts
    <2>q. QED BY <1>1, <2>1, RingAssumption DEF Position
  <1>4. CASE b > a /\ \A x \in Occupied(ring) : ~ (a < x /\ x < b)
    <2>1. CASE a < h /\ h <= b
      <3>1. \A x \in Occupied(ring) : Off(h, x) <= Off(h, a)
        BY <1>2, <1>3, <1>4, <2>1
      <3>q. QED BY <1>2, <3>1 DEF b
    <2>2. CASE ~ (a < h /\ h <= b)
      <3>1. \A x \in Occupied(ring) : Off(h, x) < Off(h, b) <=> Off(h, x) <= Off(h, a)
        BY <1>2, <1>3, <1>4, <2>2
      <3>q. QED BY <1>2, <3>1 DEF b
    <2>q. QED BY <2>1, <2>2
  <1>5. CASE \A x \in Occupied(ring) : b <= x /\ x <= a
    <2>1. CASE b < h /\ h <= a
      <3>1. \A x \in Occupied(ring) : Off(h, x) < Off(h, b) <=> Off(h, x) <= Off(h, a)
        BY <1>2, <1>3, <1>5, <2>1
      <3>q. QED BY <1>2, <3>1 DEF b
    <2>2. CASE ~ (b < h /\ h <= a)
      <3>1. \A x \in Occupied(ring) : Off(h, x) <= Off(h, a)
        BY <1>2, <1>3, <1>5, <2>2
      <3>q. QED BY <1>2, <3>1 DEF b
    <2>q. QED BY <2>1, <2>2
  <1>q. QED BY <1>2, <1>4, <1>5


(* A walk begins with nothing found, at the first position after the key.  *)
LEMMA BeginOK ==
    ASSUME NEW ring \in Ring, NEW h \in Position, NEW n \in Nat, n # 0, Occupied(ring) # {}
    PROVE  WalkOK(ring, [from |-> h, at |-> Find(ring, h), rep |-> n, threads |-> <<>>, done |-> FALSE])
  <1> DEFINE w == [from |-> h, at |-> Find(ring, h), rep |-> n, threads |-> <<>>, done |-> FALSE]
  <1>1. Find(ring, h) \in Occupied(ring) /\ \A x \in Occupied(ring) : Off(h, Find(ring, h)) <= Off(h, x)
    BY FindFacts
  <1>2. w \in Walk
    BY <1>1, OccupiedFacts DEF Walk
  <1>3. Len(<<>>) = 0 /\ FoundBy(<<>>) = {} /\ InOrder(ring, h, <<>>)
    BY DEF FoundBy, InOrder
  <1>4. Passed(ring, h, Find(ring, h)) = {}
    <2>1. \A x \in Occupied(ring) : Off(h, x) \in Int
      BY OccupiedFacts, OffFacts, RingAssumption
    <2>q. QED BY <1>1, <2>1 DEF Passed
  <1>5. w.from = h /\ w.at = Find(ring, h) /\ w.rep = n /\ w.threads = <<>> /\ w.done = FALSE /\ 0 < n
    OBVIOUS
  <1> HIDE DEF w
  <1>6. WalkOK(ring, w)
    BY <1>1, <1>2, <1>3, <1>4, <1>5, Zenon DEF WalkOK
  <1>q. QED BY <1>6 DEF w

(* A walk that is not under way, on any ring.                              *)
LEMMA IdleOK ==
    ASSUME NEW ring, NEW h \in Position
    PROVE  WalkOK(ring, [from |-> h, at |-> h, rep |-> 0, threads |-> <<>>, done |-> TRUE])
  BY DEF WalkOK, Walk, InOrder

(* A server met for the first time is farther from the key than exactly    *)
(* the servers found before it.                                            *)
LEMMA NewServer ==
    ASSUME NEW ring \in Ring, NEW h \in Position, NEW a \in Occupied(ring), NEW threads \in Seq(Server),
           FoundBy(threads) = Passed(ring, h, a), ring[a] \notin FoundBy(threads)
    PROVE  \A r \in OnRing(ring) : Closer(ring, h, r, ring[a]) <=> r \in FoundBy(threads)
  <1> DEFINE s == ring[a]
  <1>1. s \in OnRing(ring)
    BY OccupiedFacts
  <1>2. \A x \in Occupied(ring) : Off(h, x) \in Nat
    BY OccupiedFacts, OffFacts, RingAssumption
  <1>3. \A r : r \in FoundBy(threads) <=> \E x \in Occupied(ring) : ring[x] = r /\ Off(h, x) < Off(h, a)
    BY DEF Passed
  <1>4. Distance(ring, h, s) = Off(h, a)
    <2>1. Distance(ring, h, s) \in Nat /\ Distance(ring, h, s) <= Off(h, a)
      BY <1>1, DistanceFacts
    <2>2. PICK x \in Occupied(ring) : ring[x] = s /\ Off(h, x) = Distance(ring, h, s)
      BY <1>1, DistanceFacts
    <2>3. ~ (Off(h, x) < Off(h, a))
      BY <1>3, <2>2
    <2>q. QED BY <1>2, <2>1, <2>2, <2>3
  <1>5. ASSUME NEW r \in OnRing(ring)
        PROVE  Closer(ring, h, r, s) <=> r \in FoundBy(threads)
    <2>1. /\ Distance(ring, h, r) \in Nat
          /\ \E x \in Occupied(ring) : ring[x] = r /\ Off(h, x) = Distance(ring, h, r)
          /\ \A x \in Occupied(ring) : ring[x] = r => Distance(ring, h, r) <= Off(h, x)
      BY DistanceFacts
    <2>2. Closer(ring, h, r, s) <=> Distance(ring, h, r) < Off(h, a)
      BY <1>4 DEF Closer
    <2>q. QED BY <1>2, <1>3, <2>1, <2>2
  <1>q. QED BY <1>5

(* What is passed at the next position: what was, and the server here;     *)
(* unless the position was the last one, when every server was passed.     *)
LEMMA PassedNext ==
    ASSUME NEW ring \in Ring, NEW h \in Position, NEW a \in Occupied(ring)
    PROVE  \/ OnRing(ring) = Passed(ring, h, a) \cup {ring[a]}
           \/ Passed(ring, h, NextPos(ring, a)) = Passed(ring, h, a) \cup {ring[a]}
  <1>1. \A x \in Occupied(ring) : Off(h, x) \in Nat
    BY OccupiedFacts, OffFacts, RingAssumption
  <1>2. \A x \in Occupied(ring) : Off(h, x) = Off(h, a) => x = a
    <2> TAKE x \in Occupied(ring)
    <2>1. x \in Position /\ a \in Position
      BY OccupiedFacts
    <2>2. /\ Off(h, x) = IF x >= h THEN x - h ELSE x - h + Size
          /\ Off(h, a) = IF a >= h THEN a - h ELSE a - h + Size
      BY <2>1, OffFacts
    <2>3. Size \in Nat /\ h \in Nat /\ x \in Nat /\ a \in Nat /\ x < Size /\ a < Size /\ h < Size
      BY <2>1, RingAssumption DEF Position
    <2>q. QED BY <2>2, <2>3
  <1>3. \A x \in Occupied(ring) : Off(h, x) <= Off(h, a) <=> Off(h, x) < Off(h, a) \/ x = a
    BY <1>1, <1>2
  <1>4. CASE \A x \in Occupied(ring) : Off(h, x) <= Off(h, a)
    BY <1>3, <1>4 DEF OnRing, Passed
  <1>5. CASE \A x \in Occupied(ring) : Off(h, x) < Off(h, NextPos(ring, a)) <=> Off(h, x) <= Off(h, a)
    BY <1>3, <1>5 DEF Passed
  <1>q. QED BY <1>4, <1>5, NextPosFacts

(* One iteration of the loop keeps the walk in order.                      *)
LEMMA StepOK ==
    ASSUME NEW ring \in Ring, NEW w, WalkOK(ring, w), ~ w.done,
           NEW found, found = IF \E i \in DOMAIN w.threads : w.threads[i] = ring[w.at]
                                THEN w.threads ELSE Append(w.threads, ring[w.at])
    PROVE  WalkOK(ring, [w EXCEPT !.threads = found, !.at = NextPos(ring, w.at), !.done = Len(found) >= w.rep])
  <1> DEFINE s == ring[w.at]
             old == w.threads
             h == w.from
             b == NextPos(ring, w.at)
             v == [w EXCEPT !.threads = found, !.at = b, !.done = Len(found) >= w.rep]
  <1>1. /\ w \in Walk /\ InOrder(ring, h, old) /\ Len(old) < w.rep /\ w.at \in Occupied(ring)
        /\ OnRing(ring) \subseteq FoundBy(old) \/ FoundBy(old) = Passed(ring, h, w.at)
    BY DEF WalkOK
  <1>2. /\ h \in Position /\ w.rep \in Nat /\ old \in Seq(Server) /\ Len(old) \in Nat
        /\ DOMAIN old = 1..Len(old)
    BY <1>1 DEF Walk
  <1>3. s \in OnRing(ring) /\ s \in Server /\ b \in Occupied(ring) /\ b \in Position
    BY <1>1, <1>2, OccupiedFacts, NextPosFacts
  <1>4. s \in FoundBy(old) <=> \E i \in DOMAIN old : old[i] = s
    BY <1>2, Zenon DEF FoundBy
  <1>5. found \in Seq(Server) /\ FoundBy(found) = FoundBy(old) \cup {s} /\ Len(found) \in {Len(old), Len(old) + 1}
    <2>1. CASE s \in FoundBy(old)
      BY <1>2, <1>4, <2>1
    <2>2. CASE s \notin FoundBy(old)
      BY <1>2, <1>3, <1>4, <2>2 DEF FoundBy
    <2>q. QED BY <2>1, <2>2
  <1>6. InOrder(ring, h, found)
    <2>1. CASE s \in FoundBy(old)
      BY <1>1, <1>4, <2>1
    <2>2. CASE s \notin FoundBy(old)
      <3>1. FoundBy(old) = Passed(ring, h, w.at)
        BY <1>1, <1>3, <2>2
      <3>2. \A r \in OnRing(ring) : Closer(ring, h, r, s) <=> r \in FoundBy(old)
        BY <1>1, <1>2, <2>2, <3>1, NewServer
      <3>3. found = Append(old, s)
        BY <1>4, <2>2
      <3>4. /\ Len(found) = Len(old) + 1 /\ found[Len(old) + 1] = s
            /\ \A i \in 1..Len(old) : found[i] = old[i]
        BY <1>2, <1>3, <3>3
      <3>5. ASSUME NEW i \in 1..Len(found)
            PROVE  Ranked(ring, h, found, i)
        <4>1. CASE i \in 1..Len(old)
          <5>1. /\ old[i] \in OnRing(ring)
                /\ \A r \in OnRing(ring) : Closer(ring, h, r, old[i]) <=> \E j \in 1..(i - 1) : r = old[j]
                /\ \A j \in 1..Len(old) : old[i] = old[j] => i = j
            BY <1>1, <4>1 DEF InOrder, Ranked
          <5>2. \A j \in 1..(i - 1) : j \in 1..Len(old) /\ found[j] = old[j]
            BY <1>2, <3>4, <4>1
          <5>3. \A j \in 1..Len(found) : j \in 1..Len(old) \/ j = Len(old) + 1
            BY <1>2, <3>4
          <5>4. old[i] # s /\ found[i] = old[i]
            BY <2>2, <3>4, <4>1 DEF FoundBy
          <5>5. \A j \in 1..Len(found) : found[i] = found[j] => i = j
            BY <3>4, <5>1, <5>3, <5>4
          <5>6. \A r \in OnRing(ring) : Closer(ring, h, r, found[i]) <=> \E j \in 1..(i - 1) : r = found[j]
            BY <5>1, <5>2, <5>4
          <5>q. QED BY <5>1, <5>4, <5>5, <5>6 DEF Ranked
        <4>2. CASE i = Len(old) + 1
          <5>1. found[i] = s
            BY <3>4, <4>2
          <5>2. \A j \in 1..Len(found) : j \in 1..Len(old) \/ j = i
            BY <1>2, <3>4, <4>2
          <5>3. \A j \in 1..Len(old) : old[j] # s /\ found[j] = old[j]
            BY <2>2, <3>4 DEF FoundBy
          <5>4. i - 1 = Len(old)
            BY <1>2, <4>2
          <5>5. \A r : r \in FoundBy(old) <=> \E j \in 1..(i - 1) : r = found[j]
            BY <5>3, <5>4 DEF FoundBy
          <5>6. \A j \in 1..Len(found) : found[i] = found[j] => i = j
            BY <5>1, <5>2, <5>3
          <5>7. \A r \in OnRing(ring) : Closer(ring, h, r, found[i]) <=> \E j \in 1..(i - 1) : r = found[j]
            BY <3>2, <5>1, <5>5, Zenon
          <5>8. found[i] \in OnRing(ring)
            BY <1>3, <5>1
          <5>q. QED BY <5>6, <5>7, <5>8 DEF Ranked
        <4>3. i \in 1..Len(old) \/ i = Len(old) + 1
          BY <1>2, <3>4
        <4>q. QED BY <4>1, <4>2, <4>3
      <3>q. QED BY <3>5 DEF InOrder
    <2>q. QED BY <2>1, <2>2
  <1>7. OnRing(ring) \subseteq FoundBy(found) \/ FoundBy(found) = Passed(ring, h, b)
    <2>1. OnRing(ring) = Passed(ring, h, w.at) \cup {s} \/ Passed(ring, h, b) = Passed(ring, h, w.at) \cup {s}
      BY <1>1, <1>2, PassedNext
    <2>q. QED BY <1>1, <1>5, <2>1, Zenon
  <1> HIDE DEF b
  <1> DEFINE full == Len(found) >= w.rep
             u == [w EXCEPT !.threads = found, !.at = b, !.done = full]
  <1>9. full \in BOOLEAN /\ (full => Len(found) = w.rep) /\ (~ full => Len(found) < w.rep)
    BY <1>1, <1>2, <1>5
  <1> HIDE DEF full
  <1>8. /\ u \in Walk /\ u.threads = found /\ u.at = b /\ u.from = h /\ u.rep = w.rep
        /\ u.done = full
    BY <1>1, <1>3, <1>5, <1>9, Zenon DEF Walk
  <1>10. u = v
    BY DEF full
  <1> HIDE DEF v, u
  <1>11. WalkOK(ring, u)
    BY <1>3, <1>6, <1>7, <1>8, <1>9 DEF WalkOK
  <1>q. QED BY <1>10, <1>11 DEF v, b

(* Every step keeps every walk in order: a thread changes its ring only    *)
(* between lookups, so a walk is on one ring from its begin to its end.    *)
LEMMA WalkInvStep == WalkInv /\ [Next]_vars => WalkInv'
  <1> SUFFICES ASSUME WalkInv, [Next]_vars PROVE WalkInv'
    OBVIOUS
  <1>0. /\ nodes_ \in [Thread -> Ring] /\ walk \in [Thread -> Walk]
        /\ \A p \in Thread : WalkOK(nodes_[p], walk[p])
        /\ 0 \in Position
    BY RingAssumption DEF WalkInv, Position
  <1>1. ASSUME NEW p \in Thread, NEW ring \in Ring, NEW w, WalkOK(ring, w),
               nodes_' = [nodes_ EXCEPT ![p] = ring], walk' = [walk EXCEPT ![p] = w]
        PROVE  WalkInv'
    <2>1. w \in Walk
      BY <1>1 DEF WalkOK
    <2>2. nodes_' \in [Thread -> Ring] /\ walk' \in [Thread -> Walk]
      BY <1>0, <1>1, <2>1
    <2>3. ASSUME NEW q \in Thread PROVE WalkOK(nodes_'[q], walk'[q])
      <3>1. CASE q = p
        <4>1. nodes_'[q] = ring /\ walk'[q] = w
          BY <1>0, <1>1, <3>1
        <4>q. QED BY <1>1, <4>1
      <3>2. CASE q # p
        <4>1. nodes_'[q] = nodes_[q] /\ walk'[q] = walk[q]
          BY <1>0, <1>1, <3>2
        <4>q. QED BY <1>0, <4>1
      <3>q. QED BY <3>1, <3>2
    <2>q. QED BY <2>2, <2>3 DEF WalkInv
  <1>2. ASSUME NEW p \in Thread, NEW w, WalkOK(nodes_[p], w),
               UNCHANGED nodes_, walk' = [walk EXCEPT ![p] = w]
        PROVE  WalkInv'
    <2>1. nodes_' = [nodes_ EXCEPT ![p] = nodes_[p]] /\ nodes_[p] \in Ring
      BY <1>0, <1>2
    <2>q. QED BY <1>1, <1>2, <2>1, Zenon
  <1>3. ASSUME NEW ring PROVE WalkOK(ring, NoWalk)
    BY <1>0, IdleOK DEF NoWalk
  <1>4. ASSUME NEW p \in Thread, NEW s \in Server, Insert(p, s) PROVE WalkInv'
    <2> DEFINE ring == [h \in Position |-> IF nodes_[p][h] = Nobody /\ h \in Places(s) THEN s ELSE nodes_[p][h]]
    <2>1. nodes_' = [nodes_ EXCEPT ![p] = ring] /\ walk' = [walk EXCEPT ![p] = NoWalk]
      BY <1>4 DEF Insert
    <2>2. ring \in Ring
      BY <1>0 DEF Ring
    <2> HIDE DEF ring
    <2>q. QED BY <1>1, <1>3, <2>1, <2>2, Zenon
  <1>5. ASSUME NEW p \in Thread, NEW s \in Server, Remove(p, s) PROVE WalkInv'
    <2> DEFINE ring == [h \in Position |-> IF h \in Places(s) THEN Nobody ELSE nodes_[p][h]]
    <2>1. nodes_' = [nodes_ EXCEPT ![p] = ring] /\ walk' = [walk EXCEPT ![p] = NoWalk]
      BY <1>5 DEF Remove
    <2>2. ring \in Ring
      BY <1>0 DEF Ring
    <2> HIDE DEF ring
    <2>q. QED BY <1>1, <1>3, <2>1, <2>2
  <1>6. ASSUME NEW p \in Thread, NEW h \in Position, NEW rep \in 0..MaxRep, Begin(p, h, rep) PROVE WalkInv'
    <2>1. CASE Occupied(nodes_[p]) = {} \/ rep = 0
      <3> DEFINE w == [from |-> h, at |-> h, rep |-> 0, threads |-> <<>>, done |-> TRUE]
      <3>1. UNCHANGED nodes_ /\ walk' = [walk EXCEPT ![p] = w]
        BY <1>6, <2>1, Zenon DEF Begin
      <3>2. WalkOK(nodes_[p], w)
        BY IdleOK
      <3> HIDE DEF w
      <3>q. QED BY <1>2, <3>1, <3>2, Zenon
    <2>2. CASE ~ (Occupied(nodes_[p]) = {} \/ rep = 0)
      <3> DEFINE w == [from |-> h, at |-> Find(nodes_[p], h), rep |-> rep, threads |-> <<>>, done |-> FALSE]
      <3>1. UNCHANGED nodes_ /\ walk' = [walk EXCEPT ![p] = w]
        BY <1>6, <2>2 DEF Begin
      <3>2. nodes_[p] \in Ring /\ rep \in Nat
        BY <1>0, RingAssumption
      <3>3. WalkOK(nodes_[p], w)
        BY <2>2, <3>2, BeginOK
      <3> HIDE DEF w
      <3>q. QED BY <1>2, <3>1, <3>3, Zenon
    <2>q. QED BY <2>1, <2>2
  <1>7. ASSUME NEW p \in Thread, Step(p) PROVE WalkInv'
    <2> DEFINE w == walk[p]
               found == IF \E i \in DOMAIN w.threads : w.threads[i] = nodes_[p][w.at]
                          THEN w.threads ELSE Append(w.threads, nodes_[p][w.at])
               v == [w EXCEPT !.threads = found, !.at = NextPos(nodes_[p], w.at), !.done = Len(found) >= w.rep]
    <2>1. UNCHANGED nodes_ /\ walk' = [walk EXCEPT ![p] = v] /\ ~ w.done
      BY <1>7 DEF Step
    <2>2. nodes_[p] \in Ring /\ WalkOK(nodes_[p], w)
      BY <1>0
    <2>3. WalkOK(nodes_[p], v)
      <3> HIDE DEF w
      <3>q. QED BY <2>1, <2>2, StepOK, Zenon
    <2> HIDE DEF v
    <2>q. QED BY <1>2, <2>1, <2>3, Zenon
  <1>8. ASSUME UNCHANGED vars PROVE WalkInv'
    BY <1>0, <1>8 DEF WalkInv, vars
  <1>q. QED BY <1>4, <1>5, <1>6, <1>7, <1>8, Zenon DEF Next

(* What is in order at a place has as many closer servers as places        *)
(* before it.                                                              *)
LEMMA CloserCount ==
    ASSUME NEW ring, NEW h, NEW threads \in Seq(Server), InOrder(ring, h, threads), NEW i \in 1..Len(threads)
    PROVE  Cardinality({r \in OnRing(ring) : Closer(ring, h, r, threads[i])}) = i - 1
  <1> DEFINE C == {r \in OnRing(ring) : Closer(ring, h, r, threads[i])}
             f == [j \in 1..(i - 1) |-> threads[j]]
  <1>1. i \in Nat /\ i - 1 \in Nat /\ \A j \in 1..(i - 1) : j \in 1..Len(threads)
    BY Len(threads) \in Nat
  <1>2. /\ \A r \in OnRing(ring) : Closer(ring, h, r, threads[i]) <=> \E j \in 1..(i - 1) : r = threads[j]
        /\ \A j \in 1..(i - 1) : threads[j] \in OnRing(ring)
        /\ \A j, k \in 1..(i - 1) : threads[j] = threads[k] => j = k
    BY <1>1 DEF InOrder, Ranked
  <1>3. \A r : r \in C <=> \E j \in 1..(i - 1) : r = threads[j]
    BY <1>2
  <1> HIDE DEF C
  <1>4. f \in [1..(i - 1) -> C] /\ \A j \in 1..(i - 1) : f[j] = threads[j]
    BY <1>3
  <1> HIDE DEF f
  <1>5. f \in Bijection(1..(i - 1), C)
    BY <1>2, <1>3, <1>4, Zenon DEF Bijection, Injection, Surjection, IsInjective
  <1>6. ExistsBijection(1..(i - 1), C)
    BY <1>5 DEF ExistsBijection
  <1>7. Cardinality(C) = i - 1
    BY <1>1, <1>6, FS_CountingElements
  <1>q. QED BY <1>7 DEF C

(* HashRing::responsible_global and responsible_local find the servers     *)
(* closest to the key, the closest first and each once, whatever the       *)
(* hashes of servers and keys are, also where hash values collide and      *)
(* where the walk wraps around; and a walk that ends has as many as asked. *)
THEOREM WalksFindTheClosest == Spec => []WalkFindsClosest
  <1>1. Init => WalkInv
    <2> SUFFICES ASSUME Init PROVE WalkInv
      OBVIOUS
    <2>1. 0 \in Position
      BY RingAssumption DEF Position
    <2>2. nodes_ \in [Thread -> Ring] /\ walk = [p \in Thread |-> NoWalk]
      BY DEF Init, Ring
    <2>3. \A ring : WalkOK(ring, NoWalk)
      BY <2>1, IdleOK DEF NoWalk
    <2>4. NoWalk \in Walk
      BY <2>1 DEF NoWalk, Walk
    <2>q. QED BY <2>2, <2>3, <2>4 DEF WalkInv
  <1>2. WalkInv => WalkFindsClosest
    <2> SUFFICES ASSUME WalkInv, NEW p \in Thread
                 PROVE  LET w == walk[p]
                            ring == nodes_[p]
                            closer(s) == {r \in OnRing(ring) :
                                            Distance(ring, w.from, r) < Distance(ring, w.from, s)}
                        IN  /\ w.done => Len(w.threads) = w.rep
                            /\ \A i \in DOMAIN w.threads :
                                 w.threads[i] \in OnRing(ring) /\ Cardinality(closer(w.threads[i])) = i - 1
      BY DEF WalkFindsClosest
    <2> DEFINE w == walk[p]
               ring == nodes_[p]
    <2>1. /\ w.done => Len(w.threads) = w.rep
          /\ w.threads \in Seq(Server) /\ InOrder(ring, w.from, w.threads)
          /\ DOMAIN w.threads = 1..Len(w.threads)
      BY DEF WalkInv, WalkOK, Walk
    <2> HIDE DEF w, ring
    <2>2. ASSUME NEW i \in DOMAIN w.threads
          PROVE  /\ w.threads[i] \in OnRing(ring)
                 /\ Cardinality({r \in OnRing(ring) : Closer(ring, w.from, r, w.threads[i])}) = i - 1
      <3>1. i \in 1..Len(w.threads)
        BY <2>1
      <3>2. w.threads[i] \in OnRing(ring)
        BY <2>1, <3>1 DEF InOrder, Ranked
      <3>q. QED BY <2>1, <3>1, <3>2, CloserCount
    <2>3. ASSUME NEW i \in DOMAIN w.threads
          PROVE  Cardinality({r \in OnRing(ring) :
                    Distance(ring, w.from, r) < Distance(ring, w.from, w.threads[i])}) = i - 1
      BY <2>2 DEF Closer
    <2>q. QED BY <2>1, <2>2, <2>3, Zenon DEF w, ring
  <1>3. WalkInv /\ [Next]_vars => WalkInv'
    BY WalkInvStep
  <1>q. QED BY <1>1, <1>2, <1>3, PTL DEF Spec
=============================================================================
