------------------------------- MODULE Store --------------------------------
(***************************************************************************)
(* The lattices and the serializers: what the copies of one key hold after *)
(* PUTs, gossip between the copies and removals, in any order and repeated *)
(* at will.  A copy is in memory (a KVStore of lattices) or on disk (a     *)
(* file with the serialized lattice).                                      *)
(*                                                                         *)
(* An element is a record with the fields of all the lattices; each kind   *)
(* of lattice uses its own.  A vector clock maps clients to numbers, 0 for *)
(* a client that is not in the map; a dependency map has the same form.    *)
(***************************************************************************)
EXTENDS Integers, FiniteSets

CONSTANTS
    Replica,  \* the copies of the key
    OnDisk,   \* [Kind -> SUBSET Replica]: where the copies kept by disk serializers are
    Kinds,    \* the lattice types to consider, one in each behaviour
    Written,  \* the elements clients write
    Client,   \* the clients of vector clocks
    Value,    \* the values in an element
    IntMax    \* INT_MAX, the initial priority

Kind == {"LWW", "SET", "ORDERED_SET", "SINGLE_CAUSAL", "MULTI_CAUSAL", "PRIORITY"}
Clock == [Client -> Nat]
Element == [stamp : Nat, clock : Clock, dep : Clock, val : SUBSET Value]

ASSUME StoreAssumption ==
    /\ OnDisk \in [Kind -> SUBSET Replica] /\ Kinds \subseteq Kind /\ IntMax \in Nat
    /\ Written \subseteq {e \in Element : e.val # {} /\ e.stamp < IntMax}

VARIABLES
    kind,   \* the lattice type of the key
    value,  \* [Replica -> Element]: the element, or the contents of the file
    exists, \* the replicas with an entry in db, or a file
    merged  \* [Replica -> SUBSET Written]: what was merged into the copy, directly or not
vars == <<kind, value, exists, merged>>

NoTime == [c \in Client |-> 0]

\* the default constructors
Bottom(k) == [stamp |-> IF k = "PRIORITY" THEN IntMax ELSE 0, clock |-> NoTime, dep |-> NoTime, val |-> {}]

\* MapLattice over MaxLattice
MergeClock(x, y) == [c \in Client |-> IF x[c] < y[c] THEN y[c] ELSE x[c]]

\* serialize and deserialize: the fields that a message of the type carries
Serialized(k, w) ==
    [stamp |-> IF k \in {"LWW", "PRIORITY"} THEN w.stamp ELSE 0,
     clock |-> IF k \in {"SINGLE_CAUSAL", "MULTI_CAUSAL"} THEN w.clock ELSE NoTime,
     dep |-> IF k = "MULTI_CAUSAL" THEN w.dep ELSE NoTime,
     val |-> w.val]

-----------------------------------------------------------------------------
(* do_merge of the lattices.                                               *)

\* Mutation of MergeLWW: the first write wins
MergeLWW_Less(e, p) == IF p.stamp <= e.stamp \/ e.val = {} THEN p ELSE e

MergeLWW(e, p) == IF p.stamp >= e.stamp THEN p ELSE e

MergePriority(e, p) == IF p.stamp < e.stamp THEN p ELSE e

MergeSet(e, p) == [e EXCEPT !.val = @ \cup p.val]

\* Mutation of MergeCausal: a concurrent version replaces the stored one
MergeCausal_Assign(e, p) ==
    LET clock == MergeClock(e.clock, p.clock)
    IN  IF clock # e.clock \/ clock = p.clock THEN [p EXCEPT !.clock = clock] ELSE e

\* an incoming version that dominates is assigned, a concurrent one is merged, an
\* older one is ignored
MergeCausal(e, p) ==
    LET clock == MergeClock(e.clock, p.clock)
    IN  IF clock = p.clock THEN p
        ELSE IF clock # e.clock THEN [e EXCEPT !.clock = clock, !.val = @ \cup p.val]
        ELSE e

\* the same, with the dependencies
MergeMultiCausal(e, p) ==
    LET both == MergeCausal(e, p)
    IN  IF both \in {e, p} THEN both ELSE [both EXCEPT !.dep = MergeClock(e.dep, p.dep)]

Merge(k, e, p) ==
    CASE k = "LWW" -> MergeLWW(e, p)
      [] k = "PRIORITY" -> MergePriority(e, p)
      [] k \in {"SET", "ORDERED_SET"} -> MergeSet(e, p)
      [] k = "SINGLE_CAUSAL" -> MergeCausal(e, p)
      [] k = "MULTI_CAUSAL" -> MergeMultiCausal(e, p)

-----------------------------------------------------------------------------
(* The serializers.  A memory serializer merges into the entry, which      *)
(* starts at bottom.  A disk serializer writes a key it has no file of as  *)
(* it is, except DiskPrioritySerializer: it creates the file and reads it  *)
(* back as a message with the default priority 0.                          *)
FirstWrite(k, p) == IF k = "PRIORITY" THEN MergePriority([Bottom(k) EXCEPT !.stamp = 0], p) ELSE p

Put(r, p) ==
    IF r \in OnDisk[kind] /\ r \notin exists THEN FirstWrite(kind, p)
    ELSE Merge(kind, IF r \in exists THEN value[r] ELSE Bottom(kind), p)

\* get: an empty value is KEY_DNE
Present(r) == r \in exists /\ value[r].val # {}

(* process_put, of an element a client wrote.                              *)
ClientPut(r, w) ==
    /\ value' = [value EXCEPT ![r] = Put(r, Serialized(kind, w))]
    /\ exists' = exists \cup {r}
    /\ merged' = [merged EXCEPT ![r] = @ \cup {w}]
    /\ UNCHANGED kind

(* send_gossip: what process_get returns is put at another replica.        *)
Gossip(r, s) ==
    /\ r # s /\ Present(r)
    /\ value' = [value EXCEPT ![s] = Put(s, value[r])]
    /\ exists' = exists \cup {s}
    /\ merged' = [merged EXCEPT ![s] = @ \cup merged[r]]
    /\ UNCHANGED kind

(* remove: the entry is erased from db, the file deleted.                  *)
Remove(r) ==
    /\ r \in exists
    /\ value' = [value EXCEPT ![r] = Bottom(kind)]
    /\ exists' = exists \ {r}
    /\ merged' = [merged EXCEPT ![r] = {}]
    /\ UNCHANGED kind

Init ==
    /\ kind \in Kinds
    /\ value = [r \in Replica |-> Bottom(kind)]
    /\ exists = {}
    /\ merged = [r \in Replica |-> {}]

Next == \E r \in Replica :
    \/ \E w \in Written : ClientPut(r, w)
    \/ \E s \in Replica : Gossip(r, s)
    \/ Remove(r)

Spec == Init /\ [][Next]_vars

-----------------------------------------------------------------------------
(* Properties.                                                             *)

\* a version with clock x has seen all that one with clock y has
Covers(x, y) == \A c \in Client : y[c] <= x[c]

\* what clients take vector clocks for: each version is counted by one of them, so
\* that whoever has seen that count has seen all that the version has
VectorClocks ==
    \A w \in Written : \E a \in Client :
        \A x \in Written : w.clock[a] <= x.clock[a] => Covers(x.clock, w.clock)

\* what an element e holds of the writes S merged into it, by lattice type
HoldsAll(e, S) == e.val = UNION {w.val : w \in S}

HoldsFirst(k, e, S) ==
    IF S = {} THEN e.val = {}
    ELSE \E w \in S :
           /\ e.val = w.val /\ e.stamp = w.stamp
           /\ \A x \in S : IF k = "LWW" THEN x.stamp <= w.stamp ELSE w.stamp <= x.stamp

HoldsVersions(e, S) ==
    /\ e.val \subseteq UNION {w.val : w \in S}
    /\ \A w \in S : Covers(e.clock, w.clock)
    /\ \A c \in Client : e.clock[c] = 0 \/ \E w \in S : w.clock[c] = e.clock[c]
    /\ VectorClocks => \A w \in S : w.val \subseteq e.val \/ \E x \in S \ {w} : Covers(x.clock, w.clock)

Holds(k, e, S) ==
    CASE k \in {"SET", "ORDERED_SET"} -> HoldsAll(e, S)
      [] k \in {"LWW", "PRIORITY"} -> HoldsFirst(k, e, S)
      [] OTHER -> HoldsVersions(e, S)

(* Whatever the order, the repetitions and the ways in which writes are    *)
(* merged into a copy, it holds: of a set, all elements; of a timestamped  *)
(* or prioritized value, one of the latest or of the most urgent; of       *)
(* causal versions, each that no other supersedes (and perhaps some that   *)
(* are superseded), under the least clock that covers them all.  A disk    *)
(* copy of the priority type is left out: it drops what is written.        *)
KeepsWrites ==
    \A r \in Replica :
        (kind = "PRIORITY" => r \notin OnDisk[kind]) => Holds(kind, value[r], merged[r])

(* "lattice data structures, which have associative, commutative, and      *)
(* idempotent merge functions": two copies into which the same writes were *)
(* merged hold the same value.                                             *)
SameWritesSameValue ==
    \A r, s \in Replica : merged[r] = merged[s] => value[r] = value[s]

(* A merge never takes a copy back: the timestamp and the vector clock     *)
(* only grow, the priority only becomes more urgent, until the removal.    *)
NeverBack ==
    [][\A r \in Replica : r \in exists /\ r \in exists' =>
          /\ IF kind = "PRIORITY" THEN value'[r].stamp <= value[r].stamp ELSE value[r].stamp <= value'[r].stamp
          /\ \A c \in Client : value[r].clock[c] <= value'[r].clock[c]]_vars

=============================================================================
