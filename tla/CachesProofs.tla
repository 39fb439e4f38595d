---------------------------- MODULE CachesProofs ----------------------------
(***************************************************************************)
(* The two maps of a server thread are inverse, for any caches and keys.   *)
(***************************************************************************)
EXTENDS Caches, TLAPS

\* the maps are functions, and records are sets of keys
MapsTyped ==
    /\ cache_ip_to_keys \in [Cache -> SUBSET Key]
    /\ key_to_cache_ips \in [Key -> SUBSET Cache]
    /\ published \in [Cache -> (SUBSET Key) \cup {Nothing}]
    /\ responses \subseteq [cache : Cache, keys : SUBSET Key]

IndMaps == MapsTyped /\ InverseMaps

(* Replacing the keys of a cache in both maps keeps them inverse: dropped  *)
(* keys lose the cache, new ones get it, other caches are left alone       *)
(* (cache_ip_response_handler).                                            *)
LEMMA ReplaceKeepsInverse ==
    ASSUME IndMaps, NEW r \in [cache : Cache, keys : SUBSET Key], cache_ip_response_handler(r)
    PROVE  IndMaps'
<1>1. cache_ip_to_keys' \in [Cache -> SUBSET Key] /\ key_to_cache_ips' \in [Key -> SUBSET Cache]
  BY DEF cache_ip_response_handler, Replace, IndMaps, MapsTyped
<1>2. published' = published /\ responses' \subseteq responses
  BY DEF cache_ip_response_handler, world
<1>3. ASSUME NEW c \in Cache, NEW k \in Key
      PROVE  k \in cache_ip_to_keys'[c] <=> c \in key_to_cache_ips'[k]
  <2>1. CASE c = r.cache
    BY <2>1 DEF cache_ip_response_handler, Replace, IndMaps, MapsTyped, InverseMaps
  <2>2. CASE c # r.cache
    BY <2>2 DEF cache_ip_response_handler, Replace, IndMaps, MapsTyped, InverseMaps
  <2> QED BY <2>1, <2>2
<1> QED BY <1>1, <1>2, <1>3 DEF IndMaps, MapsTyped, InverseMaps

(* A list that has lost caches takes them out of both maps                 *)
(* (management_node_response_handler).                                     *)
LEMMA DeletionKeepsInverse ==
    ASSUME IndMaps, management_node_response_handler
    PROVE  IndMaps'
<1>1. cache_ip_to_keys' \in [Cache -> SUBSET Key] /\ key_to_cache_ips' \in [Key -> SUBSET Cache]
  BY DEF management_node_response_handler, IndMaps, MapsTyped
<1>2. published' = published /\ responses' = responses
  BY DEF management_node_response_handler, world
<1>3. InverseMaps'
  BY DEF management_node_response_handler, IndMaps, MapsTyped, InverseMaps
<1> QED BY <1>1, <1>2, <1>3 DEF IndMaps, MapsTyped

(* Every step keeps the maps inverse; the other steps do not touch them.   *)
LEMMA MapsStep == IndMaps /\ [Next]_vars => IndMaps'
<1> SUFFICES ASSUME IndMaps, [Next]_vars PROVE IndMaps'
  OBVIOUS
<1> USE DEF IndMaps, MapsTyped, InverseMaps, thread, world
<1>1. CASE report
  BY <1>1 DEF report
<1>2. CASE management_node_response_handler
  BY <1>2, DeletionKeepsInverse
<1>3. ASSUME NEW r \in responses, cache_ip_response_handler(r) PROVE IndMaps'
  BY <1>3, ReplaceKeepsInverse
<1>4. CASE Answer_list
  BY <1>4 DEF Answer_list
<1>5. ASSUME NEW c \in Cache, Answer_get(c) PROVE IndMaps'
  BY <1>5 DEF Answer_get
<1>6. ASSUME NEW c \in Cache, Refuse_get(c) PROVE IndMaps'
  BY <1>6 DEF Refuse_get
<1>7. ASSUME NEW c \in Cache, Start(c) \/ Stop(c) PROVE IndMaps'
  BY <1>7 DEF Start, Stop
<1>8. ASSUME NEW c \in Cache, NEW keys \in SUBSET Key, Publish(c, keys) PROVE IndMaps'
  BY <1>8 DEF Publish
<1>9. CASE UNCHANGED vars
  BY <1>9 DEF vars
<1> QED BY <1>1, <1>2, <1>3, <1>4, <1>5, <1>6, <1>7, <1>8, <1>9 DEF Next

(* InverseMaps holds in every state: whatever order lists and records      *)
(* arrive in, cache_ip_to_keys and key_to_cache_ips stay inverse.          *)
THEOREM MapsAreInverse == Spec => []InverseMaps
<1>1. Init => IndMaps
  BY DEF Init, IndMaps, MapsTyped, InverseMaps
<1>2. IndMaps => InverseMaps
  BY DEF IndMaps
<1> QED BY <1>1, <1>2, MapsStep, PTL DEF Spec
=============================================================================
