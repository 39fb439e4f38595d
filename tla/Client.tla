------------------------------- MODULE Client -------------------------------
(***************************************************************************)
(* The client library (kvs_client.hpp) together with the routing threads.  *)
(* A client sends an operation to a server thread of its address cache,    *)
(* asks a routing thread when the cache has none, tries again when the     *)
(* server thread refuses, and gives up when no answer came for a while.    *)
(*                                                                         *)
(* Server threads answer, refuse with WRONG_THREAD, order the cache entry  *)
(* to be dropped, or never answer; KvsServer says when they do which.      *)
(***************************************************************************)
EXTENDS Routing

CONSTANTS
    Get, Put,      \* the calls of get_async and put_async
    CallKey,       \* [Get \cup Put -> Key]
    IpOf,          \* [Worker -> the host part of its address]
    None

Call == Get \cup Put

ASSUME ClientAssumption ==
    /\ Get \cap Put = {} /\ CallKey \in [Call -> Key] /\ None \notin Call \cup Worker
    /\ DOMAIN IpOf = Worker

VARIABLES
    key_address_cache,    \* [Key -> SUBSET Worker]
    pending_request,      \* [Key -> Seq(Call)]: calls that wait for an address
    pending_get_response, \* [Key -> the GET that was sent first, and where to last]
    pending_put_response, \* [Put -> where it was sent, or None]
    requests, answers,    \* key requests and their answers in flight
    called,               \* calls made
    open,                 \* calls the user has heard nothing of
    lost,                 \* calls the client dropped without a word
    acked,                \* PUTs a server's answer was returned for
    again,                \* those of them that were reported once more
    crashed               \* the client used memory it had freed

cvars == <<key_address_cache, pending_request, pending_get_response, pending_put_response,
           requests, answers, called, open, lost, acked, again, crashed>>

NoGet == [call |-> None, worker |-> None]

(* The operations below map a state of the client to the states it may be  *)
(* in after them.  fresh names the pending entries whose time was just set.*)
State == [cache |-> key_address_cache, preq |-> pending_request, pget |-> pending_get_response,
          pput |-> pending_put_response, requests |-> requests, queries |-> queries,
          open |-> open, lost |-> lost, acked |-> acked, again |-> again, crashed |-> crashed, fresh |-> {}]

Becomes(s) ==
    /\ key_address_cache' = s.cache /\ pending_request' = s.preq
    /\ pending_get_response' = s.pget /\ pending_put_response' = s.pput
    /\ requests' = s.requests /\ queries' = s.queries
    /\ open' = s.open /\ lost' = s.lost /\ acked' = s.acked /\ again' = s.again /\ crashed' = s.crashed

Waits(k) == <<"ADDRESS", k>>
WaitsGet(k) == <<"GET", k>>
WaitsPut(c) == <<"PUT", c>>
Entry(c) == IF c \in Get THEN WaitsGet(CallKey[c]) ELSE WaitsPut(c)
Entries(s) == {Waits(k) : k \in {j \in Key : s.preq[j] # <<>>}}
              \cup {WaitsGet(k) : k \in {j \in Key : s.pget[j] # NoGet}}
              \cup {WaitsPut(c) : c \in {p \in Put : s.pput[p] # None}}

CInit ==
    /\ RInit
    /\ key_address_cache = [k \in Key |-> {}] /\ pending_request = [k \in Key |-> <<>>]
    /\ pending_get_response = [k \in Key |-> NoGet] /\ pending_put_response = [c \in Put |-> None]
    /\ requests = EmptyBag /\ answers = EmptyBag
    /\ called = {} /\ open = {} /\ lost = {} /\ acked = {} /\ again = {} /\ crashed = FALSE

-----------------------------------------------------------------------------
(* try_request: to a thread of the cache, or into the queue of the key,    *)
(* the first of which asks a routing thread.                               *)
query_routing_async(s, k) ==
    {[s EXCEPT !.queries = @ (+) One([to |-> r, key |-> k])] : r \in RThread}

Enqueue(s, c) ==
    LET k == CallKey[c]
        waiting == [s EXCEPT !.preq[k] = Append(@, c)]
    IN  IF s.preq[k] = <<>>
          THEN query_routing_async([waiting EXCEPT !.fresh = @ \cup {Waits(k)}], k)
          ELSE {waiting}

Send(s, c, w) ==
    LET k == CallKey[c]
        sent == [s EXCEPT !.requests = @ (+) One([call |-> c, to |-> w]),
                          !.fresh = IF Entry(c) \in Entries(s) THEN @ ELSE @ \cup {Entry(c)}]
    IN  IF c \in Put THEN [sent EXCEPT !.pput[c] = w]
        ELSE [sent EXCEPT !.pget[k] = [call |-> IF s.pget[k] = NoGet THEN c ELSE @.call, worker |-> w]]

try_request(s, c) ==
    LET workers == s.cache[CallKey[c]]
    IN  IF workers = {} THEN Enqueue(s, c) ELSE {Send(s, c, w) : w \in workers}

(* put_async and get_async, which does nothing while a GET of the key is   *)
(* not answered.                                                           *)
async(c) ==
    /\ ~ crashed /\ c \in Call \ called
    /\ called' = called \cup {c}
    /\ LET s == [State EXCEPT !.open = @ \cup {c}]
       IN  \E t \in (IF Entry(c) \in Entries(s) THEN {s} ELSE try_request(s, c)) : Becomes(t)
    /\ UNCHANGED <<answers, global_hash_rings, joined, key_replication_map, pending_requests, stopped,
                   stored, refusals, lookups, responses, changes, addresses>>

clear_cache ==
    /\ ~ crashed /\ key_address_cache # [k \in Key |-> {}]
    /\ key_address_cache' = [k \in Key |-> {}]
    /\ UNCHANGED <<rvars, pending_request, pending_get_response, pending_put_response, requests,
                   answers, called, open, lost, acked, again, crashed>>

-----------------------------------------------------------------------------
(* receive_async, first part: an address response.  Without addresses the  *)
(* calls are appended to the queue that is being walked, which is then     *)
(* erased, and with it the calls that are in no other map; with two or     *)
(* more of them the walk goes on in freed memory.                          *)
Forgotten(s, k) == {c \in Range(s.preq[k]) : Entry(c) \notin Entries(s)}
Forget(s, k) ==
    {[s EXCEPT !.preq[k] = <<>>, !.lost = @ \cup (Forgotten(s, k) \cap s.open)]}
    \cup (IF Len(s.preq[k]) > 1 THEN {[s EXCEPT !.crashed = TRUE]} ELSE {})

\* Mutation of SendQueue: only the first call of the queue is sent
SendQueue_First(s, k) ==
    {[t EXCEPT !.preq[k] = <<>>] : t \in try_request(s, Head(s.preq[k]))}

\* One try_request after another for the calls of the queue, each to some
\* thread of the cache.  Of the GETs the first is remembered, unless one was
\* already, with the thread the last of them was sent to.
SendQueue(s, k) ==
    LET queue == s.preq[k]
        gets == {i \in DOMAIN queue : queue[i] \in Get}
        sent(i, to) == [call |-> queue[i], to |-> to[i]]
        bag(to) == [m \in {sent(i, to) : i \in DOMAIN queue} |->
                      Cardinality({i \in DOMAIN queue : sent(i, to) = m})]
    IN  {[s EXCEPT !.preq[k] = <<>>,
                   !.requests = @ (+) bag(to),
                   !.pput = [c \in Put |-> IF c \in Range(queue)
                                           THEN to[Max({i \in DOMAIN queue : queue[i] = c})] ELSE @[c]],
                   !.pget[k] = IF gets = {} THEN @
                               ELSE [call |-> IF @ = NoGet THEN queue[Min(gets)] ELSE @.call,
                                     worker |-> to[Max(gets)]],
                   !.fresh = @ \cup ({Entry(c) : c \in Range(queue)} \ Entries(s))] :
            to \in [DOMAIN queue -> s.cache[k]]}

\* Mutation of AddressResponse: nobody is asked again when there is no server
AddressResponse_NoRetry(s, m) ==
    LET k == m.key
    IN  IF s.preq[k] = <<>> \/ m.error = "NO_SERVERS" THEN {s}
        ELSE IF s.cache[k] \cup m.ips = {} THEN Forget(s, k)
        ELSE SendQueue([s EXCEPT !.cache[k] = @ \cup m.ips], k)

AddressResponse(s, m) ==
    LET k == m.key
    IN  IF s.preq[k] = <<>> THEN {s}
        ELSE IF m.error = "NO_SERVERS"
          THEN query_routing_async([s EXCEPT !.fresh = @ \cup {Waits(k)}], k)
        ELSE IF s.cache[k] \cup m.ips = {} THEN Forget(s, k)
        ELSE SendQueue([s EXCEPT !.cache[k] = @ \cup m.ips], k)

(* Second part: an answer of a server, matched by key for a GET and by     *)
(* request for a PUT.                                                      *)
Answers(c) == IF c \in Put THEN {c} ELSE {g \in Get : CallKey[g] = CallKey[c]}
Report(s, C) == [s EXCEPT !.open = @ \ UNION {Answers(c) : c \in C}, !.again = @ \cup (C \cap s.acked)]

\* Mutation of Done: the entry of a PUT is not erased
Done_Keep(s, m) ==
    LET k == CallKey[m.call]
        told == [Report(s, {m.call}) EXCEPT !.cache[k] = IF m.invalidate THEN {} ELSE @]
    IN  IF m.call \in Get THEN [told EXCEPT !.pget[k] = NoGet]
        ELSE [told EXCEPT !.acked = @ \cup {m.call}]

Done(s, m) ==
    LET k == CallKey[m.call]
        told == [Report(s, {m.call}) EXCEPT !.cache[k] = IF m.invalidate THEN {} ELSE @]
    IN  IF m.call \in Get THEN [told EXCEPT !.pget[k] = NoGet]
        ELSE [told EXCEPT !.pput[m.call] = None, !.acked = @ \cup {m.call}]

KeyResponse(s, m) ==
    LET k == CallKey[m.call]
        call == IF m.call \in Get THEN s.pget[k].call ELSE m.call
    IN  IF Entry(m.call) \notin Entries(s) THEN {s}
        ELSE IF m.error = "WRONG_THREAD"
          THEN try_request([s EXCEPT !.cache[k] = {}, !.fresh = @ \cup {Entry(call)}], call)
        ELSE {Done(s, m)}

(* Last part: entries that are older than the timeout are reported and     *)
(* erased, and with them the cache entries with an address on the host     *)
(* that did not answer.                                                    *)
\* Mutation of TimedOut: calls that wait for an address are dropped silently
TimedOut_Sent(s, X) ==
    {s.pget[k].call : k \in {j \in Key : WaitsGet(j) \in X}} \cup {c \in Put : WaitsPut(c) \in X}

TimedOut(s, X) ==
    (UNION {Range(s.preq[k]) : k \in {j \in Key : Waits(j) \in X}})
    \cup {s.pget[k].call : k \in {j \in Key : WaitsGet(j) \in X}}
    \cup {c \in Put : WaitsPut(c) \in X}

Suspect(s, X) ==
    {s.pget[k].worker : k \in {j \in Key : WaitsGet(j) \in X}}
    \cup {s.pput[c] : c \in {p \in Put : WaitsPut(p) \in X}}

Expire(s, X) ==
    [Report(s, TimedOut(s, X)) EXCEPT
        !.preq = [k \in Key |-> IF Waits(k) \in X THEN <<>> ELSE @[k]],
        !.pget = [k \in Key |-> IF WaitsGet(k) \in X THEN NoGet ELSE @[k]],
        !.pput = [c \in Put |-> IF WaitsPut(c) \in X THEN None ELSE @[c]],
        !.cache = [k \in Key |-> IF \E w \in @[k], v \in Suspect(s, X) : IpOf[w] = IpOf[v] THEN {} ELSE @[k]]]

Optional(messages) == BagToSet(messages) \cup {None}
Without(messages, m) == IF m = None THEN messages ELSE messages (-) One(m)

Receive(m, a, X) ==
    /\ \E s \in (IF m = None THEN {State} ELSE AddressResponse(State, m)) :
         IF s.crashed THEN a = None /\ X = {} /\ Becomes(s)
         ELSE \E t \in (IF a = None THEN {s} ELSE KeyResponse(s, a)) :
                X \subseteq Entries(t) \ t.fresh /\ Becomes(Expire(t, X))
    /\ addresses' = Without(addresses, m) /\ answers' = Without(answers, a)
    /\ UNCHANGED <<called, global_hash_rings, joined, key_replication_map, pending_requests, stopped,
                   stored, refusals, lookups, responses, changes>>

AllEntries == {Waits(k) : k \in Key} \cup {WaitsGet(k) : k \in Key} \cup {WaitsPut(c) : c \in Put}
receive_async ==
    /\ ~ crashed
    /\ \E m \in Optional(addresses), a \in Optional(answers), X \in SUBSET AllEntries : Receive(m, a, X)

(* A server thread answers a request.                                      *)
ServerReplies(q, refuse, invalidate) ==
    /\ refuse => refusals < MaxRefusals /\ ~ invalidate
    /\ requests' = requests (-) One(q)
    /\ answers' = answers (+) One([call |-> q.call, invalidate |-> invalidate,
                                   error |-> IF refuse THEN "WRONG_THREAD" ELSE "NO_ERROR"])
    /\ refusals' = IF refuse THEN refusals + 1 ELSE refusals
    /\ UNCHANGED <<key_address_cache, pending_request, pending_get_response, pending_put_response,
                   called, open, lost, acked, again, crashed, global_hash_rings, joined, key_replication_map,
                   pending_requests, stopped, stored, lookups, responses, changes, queries, addresses>>

CNext ==
    \/ RNext /\ UNCHANGED cvars
    \/ \E c \in Call : async(c)
    \/ clear_cache
    \/ receive_async
    \/ \E q \in BagToSet(requests), refuse, invalidate \in BOOLEAN : ServerReplies(q, refuse, invalidate)

(* The user keeps calling receive_async, which takes what has arrived; an  *)
(* entry expires when nothing arrives any more.  Nothing else is certain   *)
(* to happen: servers need not join, nor routing and server threads answer.*)
Quiet == addresses = EmptyBag /\ answers = EmptyBag
CFairness ==
    /\ WF_<<rvars, cvars>>(~ crashed /\ \E m \in BagToSet(addresses) : Receive(m, None, {}))
    /\ WF_<<rvars, cvars>>(~ crashed /\ \E a \in BagToSet(answers) : Receive(None, a, {}))
    /\ \A x \in AllEntries : WF_<<rvars, cvars>>(~ crashed /\ Quiet /\ Receive(None, None, {x}))

CSpec == CInit /\ [][CNext]_<<rvars, cvars>> /\ CFairness
-----------------------------------------------------------------------------
(* Every call the user has heard nothing of is in a pending map of the     *)
(* client, so that it can be answered or time out, through refusals,       *)
(* retries, timeouts of other calls and cache invalidations.  The one      *)
(* exception is a call dropped with the queue of its key on an address     *)
(* response without addresses (Forget): no map has it any more.            *)
OpenIsPending ==
    ~ crashed => \A c \in open \ lost :
        Entry(c) \in Entries(State) \/ c \in Range(pending_request[CallKey[c]])

(* Once a server's answer to a PUT has been returned, the user hears       *)
(* nothing more of that PUT: no second answer, and no timeout from an      *)
(* entry that was left behind by a retry.                                  *)
AckedIsLast == again = {}

(* Calls that wait for an address have an address request, or an answer    *)
(* to one, on its way, or one that waits at a routing thread, as long as   *)
(* no routing thread has stopped; and no address is cached meanwhile.      *)
QueryUnderWay ==
    stopped = {} /\ ~ crashed => \A k \in Key : pending_request[k] # <<>> =>
        /\ key_address_cache[k] = {}
        /\ \/ \E q \in BagToSet(queries) \cup BagToSet(addresses) : q.key = k
           \/ \E r \in RThread : pending_requests[r][k] > 0

(* The client keeps what Calls promises: no call is ever open again and an *)
(* answered PUT stays answered, and the user hears of every call that is   *)
(* not lost, if only that it timed out, although no routing or server      *)
(* thread need ever answer.  What must not go on for ever is NO_SERVERS,   *)
(* each of which restarts the clock of the calls that wait, and refusals   *)
(* (MaxRefusals), which do so too.  Several calls may be reported by one   *)
(* receive_async; a PUT may be answered after it was reported to have      *)
(* timed out, when a refusal had put it in the queue of its key; and a     *)
(* lost GET may be reported with a later GET of the key.                   *)
A == INSTANCE Calls WITH
        dead <- crashed,
        served <- \A r \in RThread : Running(r) => global_hash_rings[r] # {},
        status <- [c \in Call |-> IF c \in acked THEN "answered"
                                  ELSE IF c \in open THEN IF c \in lost THEN "lost" ELSE "open"
                                  ELSE IF c \in called THEN "reported" ELSE "idle"]
ImplementsCalls == A!Spec
=============================================================================
