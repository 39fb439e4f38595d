----------------------------- MODULE StoreProofs ----------------------------
(***************************************************************************)
(* Proofs about Store, for all six lattice types and any number of         *)
(* replicas, values, clients and writes: no merge takes a copy back, and a *)
(* copy holds what it should of the writes merged into it.                 *)
(***************************************************************************)
EXTENDS Store, TLAPS

(* That no merge takes a copy back holds of all six lattices.  A type uses *)
(* some of the fields only; the others keep their initial value, which is  *)
(* what makes an assignment of the incoming element harmless.              *)

\* the elements of type k
OfKind(k) ==
    {e \in Element :
        /\ k \notin {"LWW", "PRIORITY"} => e.stamp = 0
        /\ k \notin {"SINGLE_CAUSAL", "MULTI_CAUSAL"} => e.clock = NoTime}

KindInv ==
    /\ kind \in Kinds
    /\ value \in [Replica -> OfKind(kind)]
    /\ exists \subseteq Replica

\* y is not behind x
NotBehind(k, x, y) ==
    /\ IF k = "PRIORITY" THEN y.stamp <= x.stamp ELSE x.stamp <= y.stamp
    /\ \A c \in Client : x.clock[c] <= y.clock[c]

(* The merge of two clocks is a clock, not below either.                   *)
LEMMA ClockGrows ==
    ASSUME NEW x \in Clock, NEW y \in Clock
    PROVE  /\ MergeClock(x, y) \in Clock
           /\ \A c \in Client : x[c] <= MergeClock(x, y)[c]
           /\ \A c \in Client : y[c] <= MergeClock(x, y)[c]
  BY DEF MergeClock, Clock

(* Each do_merge gives an element of the type that is not behind the       *)
(* stored one.                                                             *)
LEMMA MergeGrows ==
    ASSUME NEW k \in Kinds, NEW e \in OfKind(k), NEW p \in OfKind(k)
    PROVE  Merge(k, e, p) \in OfKind(k) /\ NotBehind(k, e, Merge(k, e, p))
<1>1. k \in Kind
  BY StoreAssumption
<1>2. e \in Element /\ p \in Element /\ NoTime \in Clock
  BY DEF OfKind, NoTime, Clock
<1>3. e.stamp \in Nat /\ p.stamp \in Nat /\ e.clock \in Clock /\ p.clock \in Clock /\ e.dep \in Clock /\ p.dep \in Clock
      /\ e.val \in SUBSET Value /\ p.val \in SUBSET Value
  BY <1>2 DEF Element
<1>4. \A c \in Client : e.clock[c] \in Nat /\ p.clock[c] \in Nat
  BY <1>3 DEF Clock
<1>5. CASE k = "LWW"
  <2>1. e.clock = NoTime /\ p.clock = NoTime /\ Merge(k, e, p) = IF p.stamp >= e.stamp THEN p ELSE e
    BY <1>5 DEF OfKind, Merge, MergeLWW
  <2> QED
    BY <1>3, <1>4, <1>5, <2>1 DEF NotBehind
<1>6. CASE k = "PRIORITY"
  <2>1. e.clock = NoTime /\ p.clock = NoTime /\ Merge(k, e, p) = IF p.stamp < e.stamp THEN p ELSE e
    BY <1>6 DEF OfKind, Merge, MergePriority
  <2> QED
    BY <1>3, <1>4, <1>6, <2>1 DEF NotBehind
<1>7. CASE k \in {"SET", "ORDERED_SET"}
  <2>1. Merge(k, e, p) = [e EXCEPT !.val = @ \cup p.val]
    BY <1>7 DEF Merge, MergeSet
  <2> QED
    BY <1>2, <1>3, <1>4, <1>7, <2>1 DEF NotBehind, OfKind, Element
<1>8. CASE k \in {"SINGLE_CAUSAL", "MULTI_CAUSAL"}
  <2> DEFINE clock == MergeClock(e.clock, p.clock)
             both == MergeCausal(e, p)
             joined == [e EXCEPT !.clock = clock, !.val = @ \cup p.val]
  <2>1. clock \in Clock /\ \A c \in Client : e.clock[c] <= clock[c]
    BY <1>3, ClockGrows
  <2>2. e.stamp = 0 /\ p.stamp = 0
    BY <1>8 DEF OfKind
  <2>3. joined \in OfKind(k) /\ joined.clock = clock /\ joined.stamp = 0
    BY <1>2, <1>3, <1>8, <2>1, <2>2, Zenon DEF OfKind, Element
  <2>4. \/ both = p /\ clock = p.clock
        \/ both = e
        \/ both = joined
    BY DEF MergeCausal
  <2>5. both \in OfKind(k) /\ NotBehind(k, e, both)
    <3> HIDE DEF clock, both, joined
    <3>1. CASE both = p /\ clock = p.clock
      BY <1>8, <2>1, <2>2, <3>1 DEF NotBehind
    <3>2. CASE both = e
      BY <1>4, <1>8, <2>2, <3>2 DEF NotBehind
    <3>3. CASE both = joined
      BY <1>8, <2>1, <2>2, <2>3, <3>3 DEF NotBehind
    <3> QED
      BY <2>4, <3>1, <3>2, <3>3
  <2>6. MergeClock(e.dep, p.dep) \in Clock
    BY <1>3, ClockGrows
  <2>7. [both EXCEPT !.dep = MergeClock(e.dep, p.dep)] \in OfKind(k)
    BY <2>5, <2>6 DEF OfKind, Element
  <2>8. NotBehind(k, e, [both EXCEPT !.dep = MergeClock(e.dep, p.dep)])
    BY <2>5 DEF NotBehind, OfKind, Element
  <2>9. Merge(k, e, p) \in {both, [both EXCEPT !.dep = MergeClock(e.dep, p.dep)]}
    BY <1>8 DEF Merge, MergeMultiCausal
  <2> QED
    BY <2>5, <2>7, <2>8, <2>9
<1> QED
  BY <1>1, <1>5, <1>6, <1>7, <1>8 DEF Kind

(* What is put is of the type: the default element, a message of the type, *)
(* and what a serializer makes of them.                                    *)
LEMMA BottomOfKind == ASSUME NEW k \in Kinds PROVE Bottom(k) \in OfKind(k)
<1>1. NoTime \in Clock /\ IntMax \in Nat
  BY StoreAssumption DEF NoTime, Clock
<1> QED
  BY <1>1 DEF Bottom, OfKind, Element

LEMMA SerializedOfKind == ASSUME NEW k \in Kinds, NEW w \in Written PROVE Serialized(k, w) \in OfKind(k)
<1>1. NoTime \in Clock /\ w \in Element
  BY StoreAssumption DEF NoTime, Clock
<1>2. w.stamp \in Nat /\ w.clock \in Clock /\ w.dep \in Clock /\ w.val \in SUBSET Value
  BY <1>1 DEF Element
<1>3. Serialized(k, w) \in Element
  BY <1>1, <1>2 DEF Serialized, Element
<1> QED
  BY <1>3 DEF Serialized, OfKind

LEMMA PutGrows ==
    ASSUME KindInv, NEW r \in Replica, NEW p \in OfKind(kind)
    PROVE  Put(r, p) \in OfKind(kind) /\ (r \in exists => NotBehind(kind, value[r], Put(r, p)))
<1> USE DEF KindInv
<1>1. CASE r \in exists
  BY <1>1, MergeGrows DEF Put
<1>2. CASE r \notin exists /\ r \notin OnDisk[kind]
  BY <1>2, MergeGrows, BottomOfKind DEF Put
<1>3. CASE r \notin exists /\ r \in OnDisk[kind]
  <2>1. Put(r, p) = FirstWrite(kind, p)
    BY <1>3 DEF Put
  <2>2. [Bottom(kind) EXCEPT !.stamp = 0] \in OfKind(kind)
    BY BottomOfKind DEF OfKind, Element
  <2> QED
    BY <1>3, <2>1, <2>2 DEF FirstWrite, MergePriority
<1> QED
  BY <1>1, <1>2, <1>3

LEMMA KindStep ==
    ASSUME KindInv, [Next]_vars
    PROVE  /\ KindInv'
           /\ kind' = kind
           /\ \A r \in Replica : r \in exists /\ r \in exists' => NotBehind(kind, value[r], value'[r])
<1>1. \A r \in Replica : NotBehind(kind, value[r], value[r])
  BY DEF KindInv, NotBehind, OfKind, Element, Clock
<1>2. ASSUME NEW r \in Replica, NEW p \in OfKind(kind), UNCHANGED kind, exists' = exists \cup {r},
             value' = [value EXCEPT ![r] = Put(r, p)]
      PROVE  KindInv' /\ \A s \in Replica : s \in exists => NotBehind(kind, value[s], value'[s])
  BY <1>1, <1>2, PutGrows DEF KindInv
<1>3. ASSUME NEW r \in Replica, NEW w \in Written, ClientPut(r, w)
      PROVE  KindInv' /\ UNCHANGED kind /\ \A s \in Replica : s \in exists => NotBehind(kind, value[s], value'[s])
  <2>1. Serialized(kind, w) \in OfKind(kind)
    BY SerializedOfKind DEF KindInv
  <2> QED
    BY <1>2, <1>3, <2>1, Zenon DEF ClientPut
<1>4. ASSUME NEW r \in Replica, NEW s \in Replica, Gossip(r, s)
      PROVE  KindInv' /\ UNCHANGED kind /\ \A q \in Replica : q \in exists => NotBehind(kind, value[q], value'[q])
  <2>1. value[r] \in OfKind(kind)
    BY DEF KindInv
  <2> QED
    BY <1>2, <1>4, <2>1, Zenon DEF Gossip
<1>5. ASSUME NEW r \in Replica, Remove(r)
      PROVE  KindInv' /\ UNCHANGED kind
             /\ \A s \in Replica : s \in exists /\ s \in exists' => NotBehind(kind, value[s], value'[s])
  <2>1. Bottom(kind) \in OfKind(kind)
    BY BottomOfKind DEF KindInv
  <2> QED
    BY <1>1, <1>5, <2>1 DEF Remove, KindInv
<1>6. CASE UNCHANGED vars
  BY <1>1, <1>6 DEF vars, KindInv
<1> QED
  BY <1>3, <1>4, <1>5, <1>6 DEF Next

(* As long as a copy is kept its timestamp and its vector clock never      *)
(* shrink and its priority never becomes less urgent, whatever is put or   *)
(* gossiped into it and in whatever order: do_merge of all six lattices,   *)
(* in memory and on disk.                                                  *)
THEOREM CopiesNeverGoBack == Spec => NeverBack
<1>1. Init => KindInv
  BY BottomOfKind DEF Init, KindInv
<1>2. KindInv /\ [Next]_vars => KindInv'
  BY KindStep
<1>3. KindInv /\ [Next]_vars =>
        [\A r \in Replica : r \in exists /\ r \in exists' =>
            /\ IF kind = "PRIORITY" THEN value'[r].stamp <= value[r].stamp ELSE value[r].stamp <= value'[r].stamp
            /\ \A c \in Client : value[r].clock[c] <= value'[r].clock[c]]_vars
  BY KindStep DEF NotBehind
<1> QED
  BY <1>1, <1>2, <1>3, PTL DEF Spec, NeverBack

-----------------------------------------------------------------------------
(* What a copy holds of the writes merged into it.                         *)

\* the disk copies of the priority type, whose serializer never stores a value
Dropping(k, r) == k = "PRIORITY" /\ r \in OnDisk[k]

HoldInv ==
    /\ KindInv
    /\ merged \in [Replica -> SUBSET Written]
    /\ \A r \in Replica : r \notin exists => value[r] = Bottom(kind) /\ merged[r] = {}
    /\ \A r \in Replica : ~Dropping(kind, r) =>
          /\ merged[r] = {} => value[r] = Bottom(kind)
          /\ Holds(kind, value[r], merged[r])
    /\ \A r \in Replica : Dropping(kind, r) /\ r \in exists => value[r].stamp = 0 /\ value[r].val = {}

(* The fields of a write and of an element of a type.                      *)
LEMMA WriteFields ==
    ASSUME NEW w \in Written
    PROVE  /\ w.stamp \in Nat /\ w.stamp < IntMax /\ IntMax \in Nat
           /\ \A c \in Client : w.clock[c] \in Nat
  BY StoreAssumption DEF Element, Clock

LEMMA ElementFields ==
    ASSUME NEW k, NEW e \in OfKind(k)
    PROVE  /\ e \in Element /\ e.stamp \in Nat /\ e.clock \in Clock
           /\ \A c \in Client : e.clock[c] \in Nat
  BY DEF OfKind, Element, Clock

(* Covers is a preorder on clocks.                                         *)
LEMMA CoversTransitive ==
    ASSUME NEW x, NEW y, NEW z, \A c \in Client : x[c] \in Nat /\ y[c] \in Nat /\ z[c] \in Nat,
           Covers(x, y), Covers(y, z)
    PROVE  Covers(x, z)
  BY DEF Covers

(* The default element holds no writes and has no value.                   *)
LEMMA BottomHolds == ASSUME NEW k \in Kinds PROVE Holds(k, Bottom(k), {}) /\ Bottom(k).val = {}
<1>1. Bottom(k).val = {} /\ Bottom(k).clock = NoTime
  BY DEF Bottom
<1>2. HoldsAll(Bottom(k), {})
  BY <1>1 DEF HoldsAll
<1>3. HoldsFirst(k, Bottom(k), {})
  BY <1>1 DEF HoldsFirst
<1>4. HoldsVersions(Bottom(k), {})
  BY <1>1 DEF HoldsVersions, NoTime
<1> QED
  BY <1>1, <1>2, <1>3, <1>4, Zenon DEF Holds

(* The message of one write holds that write: serialize and deserialize    *)
(* keep the fields of the type.                                            *)
LEMMA OneWrite == ASSUME NEW k \in Kinds, NEW w \in Written PROVE Holds(k, Serialized(k, w), {w})
<1>1. Serialized(k, w).val = w.val
  BY DEF Serialized
<1>2. UNION {x.val : x \in {w}} = w.val
  BY Zenon
<1>3. HoldsAll(Serialized(k, w), {w})
  BY <1>1, <1>2, Zenon DEF HoldsAll
<1>4. CASE k \in {"LWW", "PRIORITY"}
  <2>1. Serialized(k, w).stamp = w.stamp /\ w.stamp <= w.stamp
    BY <1>4, WriteFields DEF Serialized
  <2>2. HoldsFirst(k, Serialized(k, w), {w})
    BY <1>1, <2>1, Zenon DEF HoldsFirst
  <2> QED
    BY <1>4, <2>2, Zenon DEF Holds
<1>5. CASE k \in {"SINGLE_CAUSAL", "MULTI_CAUSAL"}
  <2>1. Serialized(k, w).clock = w.clock /\ Covers(w.clock, w.clock)
    BY <1>5, WriteFields DEF Serialized, Covers
  <2>2. HoldsVersions(Serialized(k, w), {w})
    BY <1>1, <1>2, <2>1, Zenon DEF HoldsVersions
  <2> QED
    BY <1>5, <2>2, Zenon DEF Holds
<1>6. CASE k \in {"SET", "ORDERED_SET"}
  BY <1>3, <1>6, Zenon DEF Holds
<1> QED
  BY <1>4, <1>5, <1>6, StoreAssumption, Zenon DEF Kind

(* do_merge of the last-writer-wins and of the priority lattice leaves one *)
(* of the first of all the writes.                                         *)
LEMMA MergeFirst ==
    ASSUME NEW k \in Kinds, k \in {"LWW", "PRIORITY"}, NEW e \in OfKind(k), NEW p \in OfKind(k),
           NEW S \in SUBSET Written, NEW T \in SUBSET Written, T # {},
           S = {} => e = Bottom(k), HoldsFirst(k, e, S), HoldsFirst(k, p, T)
    PROVE  HoldsFirst(k, Merge(k, e, p), S \cup T)
<1>1. \A w \in Written : w.stamp \in Nat /\ w.stamp < IntMax /\ IntMax \in Nat
  BY WriteFields
<1>2. PICK v \in T : /\ p.val = v.val /\ p.stamp = v.stamp
                     /\ \A x \in T : IF k = "LWW" THEN x.stamp <= v.stamp ELSE v.stamp <= x.stamp
  BY Zenon DEF HoldsFirst
<1>3. Merge(k, e, p) = IF (IF k = "LWW" THEN p.stamp >= e.stamp ELSE p.stamp < e.stamp) THEN p ELSE e
  BY DEF Merge, MergeLWW, MergePriority
<1>4. CASE S = {}
  <2>1. Merge(k, e, p) = p
    BY <1>1, <1>2, <1>3, <1>4 DEF Bottom
  <2> QED
    BY <1>4, <2>1
<1>5. CASE S # {}
  <2>1. PICK u \in S : /\ e.val = u.val /\ e.stamp = u.stamp
                       /\ \A x \in S : IF k = "LWW" THEN x.stamp <= u.stamp ELSE u.stamp <= x.stamp
    BY <1>5, Zenon DEF HoldsFirst
  <2> DEFINE m == Merge(k, e, p)
  <2>2. PICK w \in S \cup T : /\ m.val = w.val /\ m.stamp = w.stamp
                              /\ \A x \in S \cup T : IF k = "LWW" THEN x.stamp <= w.stamp ELSE w.stamp <= x.stamp
    <3>1. CASE m = p
      <4>1. \A x \in S \cup T : IF k = "LWW" THEN x.stamp <= v.stamp ELSE v.stamp <= x.stamp
        <5>1. IF k = "LWW" THEN u.stamp <= v.stamp ELSE v.stamp <= u.stamp
          BY <1>1, <1>2, <1>3, <2>1, <3>1
        <5> QED
          BY <1>1, <1>2, <2>1, <5>1
      <4> QED
        BY <1>2, <3>1, <4>1, Zenon
    <3>2. CASE m = e /\ m # p
      <4>1. \A x \in S \cup T : IF k = "LWW" THEN x.stamp <= u.stamp ELSE u.stamp <= x.stamp
        <5>1. IF k = "LWW" THEN v.stamp <= u.stamp ELSE u.stamp <= v.stamp
          BY <1>1, <1>2, <1>3, <2>1, <3>2
        <5> QED
          BY <1>1, <1>2, <2>1, <5>1
      <4> QED
        BY <2>1, <3>2, <4>1, Zenon
    <3> QED
      BY <1>3, <3>1, <3>2, Zenon
  <2>3. S \cup T # {}
    OBVIOUS
  <2> HIDE DEF m
  <2>4. HoldsFirst(k, m, S \cup T)
    BY <2>2, <2>3, Zenon DEF HoldsFirst
  <2> QED
    BY <2>4 DEF m
<1> QED
  BY <1>4, <1>5

(* What do_merge of the causal lattices returns, in terms of the three     *)
(* outcomes: assigned, merged, ignored.                                    *)
LEMMA CausalOutcome ==
    ASSUME NEW k \in {"SINGLE_CAUSAL", "MULTI_CAUSAL"}, NEW e \in OfKind(k), NEW p \in OfKind(k)
    PROVE  LET m == Merge(k, e, p)
           IN  /\ m.clock = MergeClock(e.clock, p.clock)
               /\ \/ m.val = p.val /\ m.clock = p.clock
                  \/ m.val = e.val \cup p.val
                  \/ m.val = e.val /\ m.clock = e.clock /\ m.clock # p.clock
<1> DEFINE clock == MergeClock(e.clock, p.clock)
           both == MergeCausal(e, p)
           joined == [e EXCEPT !.clock = clock, !.val = @ \cup p.val]
           dep == MergeClock(e.dep, p.dep)
<1>1. e \in Element /\ p \in Element
  BY ElementFields
<1>2. /\ joined.clock = clock /\ joined.val = e.val \cup p.val
      /\ DOMAIN joined = {"stamp", "clock", "dep", "val"}
  <2> HIDE DEF clock
  <2> QED
    BY <1>1 DEF Element
<1>3. \/ both = p /\ clock = p.clock
      \/ both = e /\ clock = e.clock /\ clock # p.clock
      \/ both = joined
  BY DEF MergeCausal
<1>4. \/ Merge(k, e, p) = both
      \/ both = joined /\ Merge(k, e, p) = [both EXCEPT !.dep = dep]
  <2> HIDE DEF joined, clock
  <2>1. both \in {e, p} \/ both = joined
    BY <1>3
  <2> HIDE DEF both, dep
  <2>2. Merge(k, e, p) = IF k = "SINGLE_CAUSAL" \/ both \in {e, p} THEN both ELSE [both EXCEPT !.dep = dep]
    BY DEF Merge, MergeMultiCausal, both, dep
  <2> QED
    BY <2>1, <2>2
<1>5. /\ [joined EXCEPT !.dep = dep].clock = clock
      /\ [joined EXCEPT !.dep = dep].val = e.val \cup p.val
  <2> HIDE DEF dep, clock, joined
  <2> QED
    BY <1>2
<1> HIDE DEF clock, both, joined, dep
<1>6. CASE Merge(k, e, p) = both
  <2>1. CASE both = p /\ clock = p.clock
    BY <1>6, <2>1 DEF clock
  <2>2. CASE both = e /\ clock = e.clock /\ clock # p.clock
    BY <1>6, <2>2 DEF clock
  <2>3. CASE both = joined
    BY <1>2, <1>6, <2>3 DEF clock
  <2> QED
    BY <1>3, <2>1, <2>2, <2>3
<1>7. CASE both = joined /\ Merge(k, e, p) = [both EXCEPT !.dep = dep]
  BY <1>5, <1>7 DEF clock
<1> QED
  BY <1>4, <1>6, <1>7

(* A version dropped by a merge with an element that covers it is          *)
(* superseded: the count by which the version is known was reached by a    *)
(* write in the other element, and whoever wrote that had seen it.         *)
LEMMA Superseded ==
    ASSUME VectorClocks, NEW e, NEW p, NEW S \in SUBSET Written, NEW T \in SUBSET Written, T # {},
           \A c \in Client : e.clock[c] \in Nat /\ p.clock[c] \in Nat,
           HoldsVersions(e, S), HoldsVersions(p, T), Covers(p.clock, e.clock), NEW w \in S
    PROVE  w.val \subseteq p.val \/ \E x \in (S \cup T) \ {w} : Covers(x.clock, w.clock)
<1>1. PICK a \in Client : \A x \in Written : w.clock[a] <= x.clock[a] => Covers(x.clock, w.clock)
  BY Zenon DEF VectorClocks
<1>2. \A x \in Written : x.clock[a] \in Nat
  BY WriteFields
<1>3. w.clock[a] <= e.clock[a] /\ e.clock[a] <= p.clock[a]
  BY Zenon DEF HoldsVersions, Covers
<1>4. w.clock[a] <= p.clock[a]
  BY <1>2, <1>3
<1>5. PICK x \in T : w.clock[a] <= x.clock[a]
  <2>1. CASE p.clock[a] = 0
    <3>1. PICK x \in T : TRUE
      OBVIOUS
    <3> QED
      BY <1>2, <1>4, <2>1, <3>1
  <2>2. CASE \E x \in T : x.clock[a] = p.clock[a]
    BY <1>4, <2>2
  <2> QED
    BY <2>1, <2>2, Zenon DEF HoldsVersions
<1>6. Covers(x.clock, w.clock)
  BY <1>1, <1>5
<1>7. CASE x # w
  BY <1>6, <1>7
<1>8. CASE x = w
  <2>1. w \in T
    BY <1>5, <1>8
  <2> QED
    BY <2>1, Zenon DEF HoldsVersions
<1> QED
  BY <1>7, <1>8

(* do_merge of the causal lattices holds the versions of both elements.    *)
LEMMA MergeVersions ==
    ASSUME NEW k \in {"SINGLE_CAUSAL", "MULTI_CAUSAL"}, NEW e \in OfKind(k), NEW p \in OfKind(k),
           NEW S \in SUBSET Written, NEW T \in SUBSET Written, T # {}, S = {} => e = Bottom(k),
           HoldsVersions(e, S), HoldsVersions(p, T)
    PROVE  HoldsVersions(Merge(k, e, p), S \cup T)
<1> DEFINE m == Merge(k, e, p)
<1>1. \A c \in Client : e.clock[c] \in Nat /\ p.clock[c] \in Nat
  BY ElementFields
<1>2. \A w \in Written : \A c \in Client : w.clock[c] \in Nat
  BY WriteFields
<1>3. m.clock = MergeClock(e.clock, p.clock)
  BY CausalOutcome
<1>4. \/ m.val = p.val /\ m.clock = p.clock
      \/ m.val = e.val \cup p.val
      \/ m.val = e.val /\ m.clock = e.clock /\ m.clock # p.clock
  BY CausalOutcome
<1> HIDE DEF m
<1>5. \A c \in Client : /\ e.clock[c] <= m.clock[c] /\ p.clock[c] <= m.clock[c] /\ m.clock[c] \in Nat
                        /\ m.clock[c] = e.clock[c] \/ m.clock[c] = p.clock[c]
  BY <1>1, <1>3 DEF MergeClock
<1>6. Covers(m.clock, e.clock) /\ Covers(m.clock, p.clock)
  BY <1>5 DEF Covers
<1>7. m.val \subseteq UNION {w.val : w \in S \cup T}
  <2>1. e.val \subseteq UNION {w.val : w \in S} /\ p.val \subseteq UNION {w.val : w \in T}
    BY Zenon DEF HoldsVersions
  <2>2. m.val \subseteq e.val \cup p.val
    BY <1>4, Zenon
  <2> QED
    BY <2>1, <2>2, Zenon
<1>8. \A w \in S \cup T : Covers(m.clock, w.clock)
  <2> SUFFICES ASSUME NEW w \in S \cup T PROVE Covers(m.clock, w.clock)
    OBVIOUS
  <2>1. Covers(e.clock, w.clock) \/ Covers(p.clock, w.clock)
    BY Zenon DEF HoldsVersions
  <2>2. \A c \in Client : w.clock[c] \in Nat
    BY <1>2
  <2> QED
    BY <1>1, <1>5, <1>6, <2>1, <2>2, CoversTransitive
<1>9. \A c \in Client : m.clock[c] = 0 \/ \E w \in S \cup T : w.clock[c] = m.clock[c]
  <2> SUFFICES ASSUME NEW c \in Client PROVE m.clock[c] = 0 \/ \E w \in S \cup T : w.clock[c] = m.clock[c]
    OBVIOUS
  <2>1. e.clock[c] = 0 \/ \E w \in S : w.clock[c] = e.clock[c]
    BY Zenon DEF HoldsVersions
  <2>2. p.clock[c] = 0 \/ \E w \in T : w.clock[c] = p.clock[c]
    BY Zenon DEF HoldsVersions
  <2> QED
    BY <1>5, <2>1, <2>2, Zenon
<1>10. ASSUME VectorClocks, NEW w \in S \cup T
       PROVE  w.val \subseteq m.val \/ \E x \in (S \cup T) \ {w} : Covers(x.clock, w.clock)
  <2>1. w \in S => w.val \subseteq e.val \/ \E x \in S \ {w} : Covers(x.clock, w.clock)
    BY <1>10, Zenon DEF HoldsVersions
  <2>2. w \in T => w.val \subseteq p.val \/ \E x \in T \ {w} : Covers(x.clock, w.clock)
    BY <1>10, Zenon DEF HoldsVersions
  <2>3. CASE m.val = e.val \cup p.val
    BY <2>1, <2>2, <2>3, Zenon
  <2>4. CASE m.val = p.val /\ m.clock = p.clock
    <3>1. Covers(p.clock, e.clock)
      BY <1>6, <2>4
    <3>2. w \in S => w.val \subseteq p.val \/ \E x \in (S \cup T) \ {w} : Covers(x.clock, w.clock)
      BY <1>1, <1>10, <3>1, Superseded
    <3> QED
      BY <2>2, <2>4, <3>2, Zenon
  <2>5. CASE m.val = e.val /\ m.clock = e.clock /\ m.clock # p.clock
    <3>1. Covers(e.clock, p.clock)
      BY <1>6, <2>5
    <3>2. CASE S # {}
      <4>1. w \in T => w.val \subseteq e.val \/ \E x \in (T \cup S) \ {w} : Covers(x.clock, w.clock)
        BY <1>1, <1>10, <3>1, <3>2, Superseded
      <4>2. T \cup S = S \cup T
        OBVIOUS
      <4> QED
        BY <2>1, <2>5, <4>1, <4>2, Zenon
    <3>3. CASE S = {}
      <4>1. \A c \in Client : e.clock[c] = 0
        BY <3>3 DEF Bottom, NoTime
      <4>2. \A c \in Client : p.clock[c] = e.clock[c]
        BY <1>1, <3>1, <4>1 DEF Covers
      <4>3. p.clock \in Clock /\ e.clock \in Clock
        BY ElementFields
      <4>4. p.clock = e.clock
        BY <4>2, <4>3 DEF Clock
      <4> QED
        BY <2>5, <4>4
    <3> QED
      BY <3>2, <3>3
  <2> QED
    BY <1>4, <2>3, <2>4, <2>5
<1>11. HoldsVersions(m, S \cup T)
  BY <1>7, <1>8, <1>9, <1>10, Zenon DEF HoldsVersions
<1> QED
  BY <1>11 DEF m

(* do_merge of the set lattices holds the elements of both.                *)
LEMMA MergeAll ==
    ASSUME NEW k \in {"SET", "ORDERED_SET"}, NEW e \in OfKind(k), NEW p, NEW S, NEW T,
           HoldsAll(e, S), HoldsAll(p, T)
    PROVE  HoldsAll(Merge(k, e, p), S \cup T)
<1>1. Merge(k, e, p) = [e EXCEPT !.val = @ \cup p.val]
  BY DEF Merge, MergeSet
<1>2. Merge(k, e, p).val = e.val \cup p.val
  BY <1>1, ElementFields DEF Element
<1>3. (UNION {w.val : w \in S}) \cup (UNION {w.val : w \in T}) = UNION {w.val : w \in S \cup T}
  BY Zenon
<1> QED
  BY <1>2, <1>3, Zenon DEF HoldsAll

LEMMA MergeHolds ==
    ASSUME NEW k \in Kinds, NEW e \in OfKind(k), NEW p \in OfKind(k),
           NEW S \in SUBSET Written, NEW T \in SUBSET Written, T # {}, S = {} => e = Bottom(k),
           Holds(k, e, S), Holds(k, p, T)
    PROVE  Holds(k, Merge(k, e, p), S \cup T)
<1>1. CASE k \in {"SET", "ORDERED_SET"}
  <2>1. HoldsAll(e, S) /\ HoldsAll(p, T)
    BY <1>1, Zenon DEF Holds
  <2>2. HoldsAll(Merge(k, e, p), S \cup T)
    BY <1>1, <2>1, MergeAll
  <2> QED
    BY <1>1, <2>2, Zenon DEF Holds
<1>2. CASE k \in {"LWW", "PRIORITY"}
  <2>1. HoldsFirst(k, e, S) /\ HoldsFirst(k, p, T)
    BY <1>2, Zenon DEF Holds
  <2>2. HoldsFirst(k, Merge(k, e, p), S \cup T)
    BY <1>2, <2>1, MergeFirst
  <2> QED
    BY <1>2, <2>2, Zenon DEF Holds
<1>3. CASE k \in {"SINGLE_CAUSAL", "MULTI_CAUSAL"}
  <2>1. HoldsVersions(e, S) /\ HoldsVersions(p, T)
    BY <1>3, Zenon DEF Holds
  <2>2. HoldsVersions(Merge(k, e, p), S \cup T)
    BY <1>3, <2>1, MergeVersions
  <2> QED
    BY <1>3, <2>2, Zenon DEF Holds
<1> QED
  BY <1>1, <1>2, <1>3, StoreAssumption, Zenon DEF Kind

(* A serializer's put leaves an element that holds the writes of both, in  *)
(* memory and on disk, and nothing where the disk drops what is written.   *)
LEMMA PutHolds ==
    ASSUME HoldInv, NEW r \in Replica, NEW p \in OfKind(kind), NEW T \in SUBSET Written, T # {},
           Holds(kind, p, T), ~Dropping(kind, r)
    PROVE  Holds(kind, Put(r, p), merged[r] \cup T)
<1>1. /\ kind \in Kinds /\ value[r] \in OfKind(kind) /\ merged[r] \in SUBSET Written
      /\ merged[r] = {} => value[r] = Bottom(kind)
      /\ Holds(kind, value[r], merged[r])
      /\ r \notin exists => value[r] = Bottom(kind) /\ merged[r] = {}
  BY DEF HoldInv, KindInv
<1>2. CASE r \in exists \/ r \notin OnDisk[kind]
  <2>1. Put(r, p) = Merge(kind, value[r], p)
    BY <1>1, <1>2 DEF Put
  <2> QED
    BY <1>1, <2>1, MergeHolds
<1>3. CASE r \notin exists /\ r \in OnDisk[kind]
  <2>1. Put(r, p) = p
    BY <1>3 DEF Put, FirstWrite, Dropping
  <2>2. merged[r] \cup T = T
    BY <1>1, <1>3
  <2> QED
    BY <2>1, <2>2
<1> QED
  BY <1>2, <1>3

LEMMA PutDrops ==
    ASSUME HoldInv, NEW r \in Replica, NEW p \in OfKind(kind), Dropping(kind, r)
    PROVE  Put(r, p).stamp = 0 /\ Put(r, p).val = {}
<1>1. p.stamp \in Nat /\ kind = "PRIORITY" /\ r \in OnDisk[kind]
  BY ElementFields DEF Dropping
<1>2. CASE r \in exists
  <2>1. value[r].stamp = 0 /\ value[r].val = {}
    BY <1>2 DEF HoldInv
  <2>2. Put(r, p) = IF p.stamp < value[r].stamp THEN p ELSE value[r]
    BY <1>1, <1>2 DEF Put, Merge, MergePriority
  <2> QED
    BY <1>1, <2>1, <2>2
<1>3. CASE r \notin exists
  <2> DEFINE new == [Bottom(kind) EXCEPT !.stamp = 0]
  <2>1. new.stamp = 0 /\ new.val = {}
    BY DEF Bottom
  <2>2. Put(r, p) = IF p.stamp < new.stamp THEN p ELSE new
    BY <1>1, <1>3 DEF Put, FirstWrite, MergePriority
  <2> HIDE DEF new
  <2> QED
    BY <1>1, <2>1, <2>2
<1> QED
  BY <1>2, <1>3

(* A put of an element that holds the writes T keeps the invariant.        *)
LEMMA PutKeeps ==
    ASSUME HoldInv, NEW r \in Replica, NEW p \in OfKind(kind), NEW T \in SUBSET Written, T # {},
           Holds(kind, p, T), KindInv', UNCHANGED kind,
           value' = [value EXCEPT ![r] = Put(r, p)], exists' = exists \cup {r},
           merged' = [merged EXCEPT ![r] = @ \cup T]
    PROVE  HoldInv'
<1>1. value \in [Replica -> OfKind(kind)] /\ merged \in [Replica -> SUBSET Written]
  BY DEF HoldInv, KindInv
<1>2. /\ value'[r] = Put(r, p) /\ merged'[r] = merged[r] \cup T
      /\ \A s \in Replica \ {r} : value'[s] = value[s] /\ merged'[s] = merged[s] /\ (s \in exists' <=> s \in exists)
  BY <1>1
<1>3. merged' \in [Replica -> SUBSET Written] /\ merged'[r] # {}
  BY <1>1, <1>2
<1>4. ~Dropping(kind, r) => Holds(kind, value'[r], merged'[r])
  BY <1>2, PutHolds
<1>5. Dropping(kind, r) => value'[r].stamp = 0 /\ value'[r].val = {}
  BY <1>2, PutDrops
<1>6. \A s \in Replica : s \notin exists' => value'[s] = Bottom(kind) /\ merged'[s] = {}
  BY <1>2, Zenon DEF HoldInv
<1>7. \A s \in Replica : ~Dropping(kind, s) =>
          /\ merged'[s] = {} => value'[s] = Bottom(kind)
          /\ Holds(kind, value'[s], merged'[s])
  BY <1>2, <1>3, <1>4, Zenon DEF HoldInv
<1>8. \A s \in Replica : Dropping(kind, s) /\ s \in exists' => value'[s].stamp = 0 /\ value'[s].val = {}
  BY <1>2, <1>5, Zenon DEF HoldInv
<1>9. kind' = kind
  OBVIOUS
<1> QED
  BY <1>3, <1>6, <1>7, <1>8, <1>9, Zenon DEF HoldInv

(* Every step keeps it.                                                    *)
LEMMA HoldStep == HoldInv /\ [Next]_vars => HoldInv'
<1> SUFFICES ASSUME HoldInv, [Next]_vars PROVE HoldInv'
  OBVIOUS
<1>1. KindInv /\ KindInv' /\ kind \in Kinds
  BY KindStep DEF HoldInv, KindInv
<1>2. ASSUME NEW r \in Replica, NEW w \in Written, ClientPut(r, w) PROVE HoldInv'
  <2>1. Serialized(kind, w) \in OfKind(kind) /\ Holds(kind, Serialized(kind, w), {w})
    BY <1>1, SerializedOfKind, OneWrite
  <2>2. {w} \in SUBSET Written /\ {w} # {}
    OBVIOUS
  <2> QED
    BY <1>1, <1>2, <2>1, <2>2, PutKeeps, Zenon DEF ClientPut
<1>3. ASSUME NEW r \in Replica, NEW s \in Replica, Gossip(r, s) PROVE HoldInv'
  <2>1. r \in exists /\ value[r].val # {}
    BY <1>3 DEF Gossip, Present
  <2>2. ~Dropping(kind, r)
    BY <2>1, Zenon DEF HoldInv
  <2>3. value[r] \in OfKind(kind) /\ merged[r] \in SUBSET Written /\ Holds(kind, value[r], merged[r])
    BY <1>1, <2>2 DEF HoldInv, KindInv
  <2>4. merged[r] # {}
    BY <1>1, <2>1, <2>2, BottomHolds, Zenon DEF HoldInv
  <2> QED
    BY <1>1, <1>3, <2>3, <2>4, PutKeeps, Zenon DEF Gossip
<1>4. ASSUME NEW r \in Replica, Remove(r) PROVE HoldInv'
  <2>1. Holds(kind, Bottom(kind), {})
    BY <1>1, BottomHolds
  <2>2. value \in [Replica -> OfKind(kind)] /\ merged \in [Replica -> SUBSET Written]
    BY DEF HoldInv, KindInv
  <2>3. /\ value'[r] = Bottom(kind) /\ merged'[r] = {} /\ r \notin exists' /\ kind' = kind
        /\ merged' \in [Replica -> SUBSET Written]
        /\ \A s \in Replica \ {r} : value'[s] = value[s] /\ merged'[s] = merged[s] /\ (s \in exists' <=> s \in exists)
    BY <1>4, <2>2 DEF Remove
  <2> QED
    BY <1>1, <2>1, <2>3, Zenon DEF HoldInv
<1>5. ASSUME UNCHANGED vars PROVE HoldInv'
  BY <1>1, <1>5 DEF vars, HoldInv
<1> QED
  BY <1>2, <1>3, <1>4, <1>5, Zenon DEF Next

(* Whatever the order, the repetitions and the ways in which writes are    *)
(* merged into a copy, it holds all elements of a set, one of the latest   *)
(* or most urgent values, or all the causal versions that no other         *)
(* supersedes: do_merge of the six lattices and the serializers in memory  *)
(* and on disk, the disk serializer of priorities apart.                   *)
THEOREM CopiesKeepWrites == Spec => []KeepsWrites
<1>1. Init => HoldInv
  <2> SUFFICES ASSUME Init PROVE HoldInv
    OBVIOUS
  <2>1. kind \in Kinds /\ exists = {} /\ Bottom(kind) \in OfKind(kind) /\ Holds(kind, Bottom(kind), {})
    BY BottomOfKind, BottomHolds DEF Init
  <2>2. \A r \in Replica : value[r] = Bottom(kind) /\ merged[r] = {}
    BY DEF Init
  <2>3. KindInv /\ merged \in [Replica -> SUBSET Written]
    BY <2>1 DEF Init, KindInv
  <2> QED
    BY <2>1, <2>2, <2>3, Zenon DEF HoldInv
<1>2. HoldInv /\ [Next]_vars => HoldInv'
  BY HoldStep
<1>3. HoldInv => KeepsWrites
  BY Zenon DEF HoldInv, KeepsWrites, Dropping
<1> QED
  BY <1>1, <1>2, <1>3, PTL DEF Spec
=============================================================================
