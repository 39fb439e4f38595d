------------------------------- MODULE Routing ------------------------------
(***************************************************************************)
(* The routing threads as clients see them: address requests, the lookup   *)
(* of the replication factor of a key, and the requests that wait for it.  *)
(*                                                                         *)
(* How a routing thread learns of servers is the subject of Membership;    *)
(* here a ring may gain and lose servers at any time.  The server threads  *)
(* that answer a lookup are the subject of KvsServer; here they answer     *)
(* with the stored factor, refuse, or never answer.  A server is one       *)
(* thread.  Messages in flight are bags, delivered in any order.           *)
(***************************************************************************)
EXTENDS Integers, Sequences, SequencesExt, FiniteSets, Bags

CONSTANTS
    Key,
    RThread,       \* the threads of a routing node, of which
    Lead,          \* one is thread 0
    Worker,        \* server threads
    TierOf,        \* [Worker -> Tier]
    Walk,          \* [Key -> Seq(Worker)]: the servers in the order of the walk
    Known,         \* [RThread -> SUBSET Worker]: the rings at first
    MayJoin, MayDepart,
    Factors,       \* a sequence of factors: the default, and those the monitor sets
    NoFactor,
    MaxRefusals    \* bound: how often a server thread refuses

Tier == {"MEMORY", "DISK"}

ASSUME RoutingAssumption ==
    /\ Lead \in RThread /\ TierOf \in [Worker -> Tier] /\ Walk \in [Key -> Seq(Worker)]
    /\ \A k \in Key : Range(Walk[k]) = Worker /\ IsInjective(Walk[k])
    /\ Known \in [RThread -> SUBSET Worker] /\ MayJoin \subseteq Worker /\ MayDepart \subseteq Worker
    /\ Factors \in Seq([Tier -> Nat]) /\ Factors # <<>> /\ NoFactor \notin Range(Factors)
    /\ MaxRefusals \in Nat

VARIABLES
    global_hash_rings,   \* [RThread -> SUBSET Worker]
    joined,              \* [RThread -> SUBSET Worker]: whose join message was handled
    key_replication_map, \* [RThread -> [Key -> a factor or NoFactor]]
    pending_requests,    \* [RThread -> [Key -> Nat]]: address requests that wait
    stopped,             \* routing threads in an endless walk, or ended
    stored,              \* [Key -> DOMAIN Factors]: the factor the servers store
    refusals,
    lookups, responses,  \* factor requests and their answers,
    changes,             \* factor changes,
    queries, addresses   \* and address requests and their answers in flight

rvars == <<global_hash_rings, joined, key_replication_map, pending_requests, stopped, stored,
           refusals, lookups, responses, changes, queries, addresses>>

One(m) == SetToBag({m})
Running(r) == r \notin stopped

\* what get_responsible_threads returns for one tier, and that it never does
InTier(R, t) == {w \in R : TierOf[w] = t}
Replicas(R, f, k, t) ==
    LET tier == {i \in DOMAIN Walk[k] : Walk[k][i] \in InTier(R, t)}
    IN  {Walk[k][i] : i \in {j \in tier : Cardinality({h \in tier : h < j}) < f[t]}}
Endless(R, f, t) == InTier(R, t) # {} /\ f[t] > Cardinality(InTier(R, t))

\* the tier whose threads are returned: the first with any
AnswerTier(R, f) == IF InTier(R, "MEMORY") = {} \/ f["MEMORY"] = 0 THEN "DISK" ELSE "MEMORY"
AddressesOf(R, f, k) == Replicas(R, f, k, AnswerTier(R, f))

Address(k, e, ips) == [key |-> k, error |-> e, ips |-> ips]

RInit ==
    /\ global_hash_rings = Known /\ joined = Known
    /\ key_replication_map = [r \in RThread |-> [k \in Key |-> NoFactor]]
    /\ pending_requests = [r \in RThread |-> [k \in Key |-> 0]]
    /\ stopped = {} /\ stored = [k \in Key |-> 1] /\ refusals = 0
    /\ lookups = EmptyBag /\ responses = EmptyBag /\ changes = EmptyBag
    /\ queries = EmptyBag /\ addresses = EmptyBag

-----------------------------------------------------------------------------
(* address_handler: without servers say so, with the factor answer, and    *)
(* without it ask for the factor and keep the request.                     *)
NoServers(r, q) ==
    /\ global_hash_rings[r] = {}
    /\ addresses' = addresses (+) One(Address(q.key, "NO_SERVERS", {}))
    /\ UNCHANGED <<pending_requests, lookups, stopped>>

Locate(r, q) ==
    LET f == key_replication_map[r][q.key]
        R == global_hash_rings[r]
    IN  /\ R # {} /\ f # NoFactor /\ ~ Endless(R, f, AnswerTier(R, f))
        /\ addresses' = addresses (+) One(Address(q.key, "NO_ERROR", AddressesOf(R, f, q.key)))
        /\ UNCHANGED <<pending_requests, lookups, stopped>>

Postpone(r, q) ==
    /\ InTier(global_hash_rings[r], "MEMORY") # {} /\ key_replication_map[r][q.key] = NoFactor
    /\ lookups' = lookups (+) One([from |-> r, key |-> q.key])
    /\ pending_requests' = [pending_requests EXCEPT ![r][q.key] = @ + 1]
    /\ UNCHANGED <<addresses, stopped>>

\* an endless walk stops the thread, a lookup without memory servers (the
\* remainder by zero) the process
AddressFails(r, q) ==
    LET f == key_replication_map[r][q.key]
        R == global_hash_rings[r]
    IN  /\ R # {}
        /\ IF f = NoFactor THEN InTier(R, "MEMORY") = {} ELSE Endless(R, f, AnswerTier(R, f))
        /\ stopped' = IF f = NoFactor THEN RThread ELSE stopped \cup {r}
        /\ UNCHANGED <<addresses, pending_requests, lookups>>

address_handler(r) ==
    /\ Running(r)
    /\ \E q \in BagToSet(queries) :
         /\ q.to = r /\ queries' = queries (-) One(q)
         /\ NoServers(r, q) \/ Locate(r, q) \/ Postpone(r, q) \/ AddressFails(r, q)
    /\ UNCHANGED <<global_hash_rings, joined, key_replication_map, stored, refusals, responses, changes>>

(* replication_response_handler: a refused lookup is issued again, an      *)
(* answered one resumes all requests that wait for the key.                *)
\* Mutation of Reissue: a refused lookup is given up
Reissue_Drop(r, m) == m.factor = NoFactor /\ UNCHANGED <<key_replication_map, pending_requests, addresses, lookups, stopped>>

Reissue(r, m) ==
    /\ m.factor = NoFactor
    /\ IF InTier(global_hash_rings[r], "MEMORY") = {}
         THEN stopped' = RThread /\ UNCHANGED lookups
         ELSE lookups' = lookups (+) One([from |-> r, key |-> m.key]) /\ UNCHANGED stopped
    /\ UNCHANGED <<key_replication_map, pending_requests, addresses>>

Resume(r, m) ==
    LET R == global_hash_rings[r]
        waiting == pending_requests[r][m.key]
        endless == waiting > 0 /\ Endless(R, m.factor, AnswerTier(R, m.factor))
        answer == Address(m.key, "NO_ERROR", AddressesOf(R, m.factor, m.key))
    IN  /\ m.factor # NoFactor
        /\ key_replication_map' = [key_replication_map EXCEPT ![r][m.key] = m.factor]
        /\ IF endless \/ waiting = 0 THEN UNCHANGED <<addresses, pending_requests>>
           ELSE /\ addresses' = addresses (+) [x \in {answer} |-> waiting]
                /\ pending_requests' = [pending_requests EXCEPT ![r][m.key] = 0]
        /\ stopped' = IF endless THEN stopped \cup {r} ELSE stopped
        /\ UNCHANGED lookups

replication_response_handler(r) ==
    /\ Running(r)
    /\ \E m \in BagToSet(responses) :
         /\ m.to = r /\ responses' = responses (-) One(m)
         /\ Reissue(r, m) \/ Resume(r, m)
    /\ UNCHANGED <<global_hash_rings, joined, stored, refusals, changes, queries>>

(* replication_change_handler: requests that wait are not resumed.         *)
replication_change_handler(r) ==
    /\ Running(r)
    /\ \E m \in BagToSet(changes) :
         /\ m.to = r
         /\ changes' = (changes (-) One(m)) (+)
              SetToBag(IF r = Lead THEN {[m EXCEPT !.to = s] : s \in RThread \ {Lead}} ELSE {})
         /\ key_replication_map' = [key_replication_map EXCEPT ![r][m.key] = m.factor]
    /\ UNCHANGED <<global_hash_rings, joined, pending_requests, stopped, stored, refusals,
                   lookups, responses, queries, addresses>>

(* membership_handler: a join is handled once, a depart after it.          *)
membership_join(r, w) ==
    /\ Running(r) /\ w \in MayJoin \ joined[r]
    /\ joined' = [joined EXCEPT ![r] = @ \cup {w}]
    /\ global_hash_rings' = [global_hash_rings EXCEPT ![r] = @ \cup {w}]
    /\ UNCHANGED <<key_replication_map, pending_requests, stopped, stored, refusals,
                   lookups, responses, changes, queries, addresses>>

membership_depart(r, w) ==
    /\ Running(r) /\ w \in MayDepart \cap global_hash_rings[r]
    /\ global_hash_rings' = [global_hash_rings EXCEPT ![r] = @ \ {w}]
    /\ UNCHANGED <<joined, key_replication_map, pending_requests, stopped, stored, refusals,
                   lookups, responses, changes, queries, addresses>>

(* A server thread answers a lookup: with the factor that is stored, with  *)
(* KEY_DNE, on which init_replication takes the default, or, while the     *)
(* metadata moves, with WRONG_THREAD (here NoFactor).                      *)
ServerAnswers(m, f) ==
    /\ f = Factors[stored[m.key]] \/ (f = NoFactor /\ refusals < MaxRefusals)
    /\ lookups' = lookups (-) One(m)
    /\ responses' = responses (+) One([to |-> m.from, key |-> m.key, factor |-> f])
    /\ refusals' = IF f = NoFactor THEN refusals + 1 ELSE refusals
    /\ UNCHANGED <<global_hash_rings, joined, key_replication_map, pending_requests, stopped, stored,
                   changes, queries, addresses>>

(* The monitor stores a new factor and tells thread 0.                     *)
MonitorChanges(k) ==
    /\ stored[k] < Len(Factors)
    /\ stored' = [stored EXCEPT ![k] = @ + 1]
    /\ changes' = changes (+) One([to |-> Lead, key |-> k, factor |-> Factors[stored[k] + 1]])
    /\ UNCHANGED <<global_hash_rings, joined, key_replication_map, pending_requests, stopped, refusals,
                   lookups, responses, queries, addresses>>

RouterStep(r) ==
    \/ address_handler(r) \/ replication_response_handler(r) \/ replication_change_handler(r)
    \/ \E w \in Worker : membership_join(r, w) \/ membership_depart(r, w)

RNext ==
    \/ \E r \in RThread : RouterStep(r)
    \/ \E m \in BagToSet(lookups), f \in Range(Factors) \cup {NoFactor} : ServerAnswers(m, f)
    \/ \E k \in Key : MonitorChanges(k)
-----------------------------------------------------------------------------
(* An address request that waits at a running routing thread has a lookup  *)
(* of its factor, or the answer, under way: a change of the factor, which  *)
(* does not resume it, does not take its lookup away either.               *)
AddressLookupUnderWay ==
    \A r \in RThread \ stopped, k \in Key : pending_requests[r][k] > 0 =>
        \/ BagIn([from |-> r, key |-> k], lookups)
        \/ \E m \in BagToSet(responses) : m.to = r /\ m.key = k
=============================================================================
