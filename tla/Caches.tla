------------------------------- MODULE Caches -------------------------------
(***************************************************************************)
(* How a server thread learns which caches hold which keys, to send them   *)
(* updates of those keys.  At every report it asks the management node for *)
(* the caches there are; for each of them it reads, from the servers, the  *)
(* record in which the cache has published its keys; and it keeps the      *)
(* answers in two maps that are meant to be inverse to each other.         *)
(*                                                                         *)
(* The caches and the management node are external.  Answers about caches  *)
(* come from different server threads, in any order; a request may be      *)
(* refused, or its answer lost, until the next report asks again.          *)
(* Messages with the same content that are under way at once are one.      *)
(***************************************************************************)
EXTENDS Naturals, Sequences

CONSTANTS
    Cache, Key,
    Nothing,     \* what a cache has published that has published nothing yet
    MaxPending   \* bound: reports whose list is still to come or to be handled

ASSUME CachesAssumption == (\A keys \in SUBSET Key : Nothing # keys) /\ MaxPending \in Nat \ {0}

VARIABLES
    extant_caches,     \* the caches of the last list
    cache_ip_to_keys,  \* [Cache -> SUBSET Key]; no entry is the empty set
    key_to_cache_ips,  \* [Key -> SUBSET Cache]
    running,           \* the caches the management node knows of
    published,         \* [Cache -> SUBSET Key or Nothing]: the records of the caches
    asked,             \* reports the management node has to answer
    lists,             \* its answers, in order
    gets, responses    \* requests for the records, and the records sent back

thread == <<extant_caches, cache_ip_to_keys, key_to_cache_ips>>
world == <<running, published>>
vars == <<thread, world, asked, lists, gets, responses>>

Init ==
    /\ extant_caches = {}
    /\ cache_ip_to_keys = [c \in Cache |-> {}] /\ key_to_cache_ips = [k \in Key |-> {}]
    /\ running = {} /\ published = [c \in Cache |-> Nothing]
    /\ asked = 0 /\ lists = <<>> /\ gets = {} /\ responses = {}

-----------------------------------------------------------------------------
(* The thread: the end of its report, and the two handlers.                *)
report ==
    /\ asked + Len(lists) < MaxPending /\ asked' = asked + 1
    /\ UNCHANGED <<thread, world, lists, gets, responses>>

management_node_response_handler ==
    LET new == Head(lists)
        deleted_caches == extant_caches \ new
    IN  /\ lists # <<>> /\ lists' = Tail(lists)
        /\ extant_caches' = new
        /\ cache_ip_to_keys' = [c \in Cache |-> IF c \in deleted_caches THEN {} ELSE cache_ip_to_keys[c]]
        /\ key_to_cache_ips' = [k \in Key |-> key_to_cache_ips[k] \ deleted_caches]
        /\ gets' = gets \cup new
        /\ UNCHANGED <<world, asked, responses>>

\* Mutation of Replace: keys the cache has dropped stay in key_to_cache_ips
Replace_KeepDropped(c, keys) ==
    [k \in Key |-> IF k \in keys THEN key_to_cache_ips[k] \cup {c} ELSE key_to_cache_ips[k]]

Replace(c, keys) ==
    LET deleted_keys == cache_ip_to_keys[c] \ keys
    IN  [k \in Key |-> IF k \in keys THEN key_to_cache_ips[k] \cup {c}
                       ELSE IF k \in deleted_keys THEN key_to_cache_ips[k] \ {c}
                       ELSE key_to_cache_ips[k]]

\* Mutation of cache_ip_response_handler: a cache that is known is not updated
cache_ip_response_handler_Once(r) ==
    /\ r \in responses /\ responses' = responses \ {r}
    /\ IF cache_ip_to_keys[r.cache] = {}
         THEN /\ key_to_cache_ips' = Replace(r.cache, r.keys)
              /\ cache_ip_to_keys' = [cache_ip_to_keys EXCEPT ![r.cache] = r.keys]
         ELSE UNCHANGED <<key_to_cache_ips, cache_ip_to_keys>>
    /\ UNCHANGED <<extant_caches, world, asked, lists, gets>>

cache_ip_response_handler(r) ==
    /\ r \in responses /\ responses' = responses \ {r}
    /\ key_to_cache_ips' = Replace(r.cache, r.keys)
    /\ cache_ip_to_keys' = [cache_ip_to_keys EXCEPT ![r.cache] = r.keys]
    /\ UNCHANGED <<extant_caches, world, asked, lists, gets>>

-----------------------------------------------------------------------------
(* The management node, the servers that hold the records, and the caches. *)
Answer_list ==
    /\ asked > 0 /\ asked' = asked - 1
    /\ lists' = Append(lists, running)
    /\ UNCHANGED <<thread, world, gets, responses>>

Answer_get(c) ==
    /\ c \in gets /\ published[c] # Nothing
    /\ gets' = gets \ {c} /\ responses' = responses \cup {[cache |-> c, keys |-> published[c]]}
    /\ UNCHANGED <<thread, world, asked, lists>>

\* The record does not exist, the server is not responsible (both ignored
\* by the handler), or a message is lost.
Refuse_get(c) ==
    /\ c \in gets /\ gets' = gets \ {c}
    /\ UNCHANGED <<thread, world, asked, lists, responses>>

Publish(c, keys) ==
    /\ c \in running /\ published' = [published EXCEPT ![c] = keys]
    /\ UNCHANGED <<thread, running, asked, lists, gets, responses>>

Start(c) ==
    /\ running' = running \cup {c}
    /\ UNCHANGED <<thread, published, asked, lists, gets, responses>>

Stop(c) ==
    /\ running' = running \ {c}
    /\ UNCHANGED <<thread, published, asked, lists, gets, responses>>

Next ==
    \/ report \/ management_node_response_handler
    \/ \E r \in responses : cache_ip_response_handler(r)
    \/ Answer_list
    \/ \E c \in Cache : Answer_get(c) \/ Refuse_get(c) \/ Start(c) \/ Stop(c)
    \/ \E c \in Cache, keys \in SUBSET Key : Publish(c, keys)

(* The loop reports periodically and polls its sockets in every turn, the  *)
(* management node answers, and a request that is repeated for ever is     *)
(* answered at some time.                                                  *)
Fairness ==
    /\ WF_vars(report) /\ WF_vars(Answer_list) /\ WF_vars(management_node_response_handler)
    /\ \A c \in Cache : SF_vars(Answer_get(c))
    /\ \A c \in Cache, keys \in SUBSET Key : WF_vars(cache_ip_response_handler([cache |-> c, keys |-> keys]))

Spec == Init /\ [][Next]_vars /\ Fairness

-----------------------------------------------------------------------------
(* The maps are inverse to each other, whatever order lists and records    *)
(* arrive in: no key is sent to a cache that is not recorded with it, and  *)
(* none of a recorded cache is missed (server.cpp, key_to_cache_ips).      *)
InverseMaps == \A c \in Cache, k \in Key : k \in cache_ip_to_keys[c] <=> c \in key_to_cache_ips[k]

(* A cache that keeps running, and keeps its published keys, is at last    *)
(* tracked with exactly those keys: refused requests and records that      *)
(* arrive late or out of order are made good by a later report.            *)
Tracked ==
    \A c \in Cache, keys \in SUBSET Key :
        <>[](c \in running /\ published[c] = keys)
            => <>[](\A k \in Key : c \in key_to_cache_ips[k] <=> k \in keys)
=============================================================================
