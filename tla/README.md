# A TLA+ model of Anna

Anna is a key-value store without shared memory: every thread of every server
has its own hash rings, its own part of the keys and its own event loop, and
threads talk through ZeroMQ messages only. This directory holds TLA+ modules
that model it, from the client library to the monitor, configurations that check
them with TLC, and proofs checked with TLAPS. Paths below are relative to the
repository.

## The system

| part | state | operations | where |
|---|---|---|---|
| membership | a hash ring per thread with a join count per node | seed, announce, join, depart, self-depart, crash and restart | `src/kvs/server.cpp`, `node_join_handler.cpp`, `node_depart_handler.cpp`, `self_depart_handler.cpp`, `route/membership_handler.cpp`, `route/seed_handler.cpp`, `monitor/membership_handler.cpp`, `elasticity.cpp`, `depart_done_handler.cpp` |
| hash rings | sorted map from hash values to virtual nodes | insert, remove, the walk for responsible servers | `include/hash_ring.hpp`, `consistent_hash_map.hpp`, `src/hash_ring/hash_ring.cpp` |
| storage threads | stored keys, replication factors, pending requests and gossip, changes to gossip, keys to hand over | user request, gossip, replication response and change, periodic gossip, redistribution | `src/kvs/*.cpp` |
| lattices, serializers | one element per key, in memory or in a file | merge, get, put, remove | `common/include/lattices/`, `include/kvs/server_utils.hpp` |
| monitor | statistics, replication factors, nodes ordered and sent away | the epoch with its three policies, `change_replication_factor`, feedback of users | `src/monitor/` |
| routing | rings, replication factors, pending address requests | address request, factor response and change, seed | `src/route/` |
| client | address cache, three maps of pending requests | asynchronous GET and PUT with retries and timeouts | `common/include/client/kvs_client.hpp` |
| caches, management node | which cache holds which key | updates of the two maps | `cache_ip_response_handler.cpp`, `management_node_response_handler.cpp` |

They interact so. A starting server thread asks the routing node for the
servers, announces its node, and the join spreads by gossip. A client asks a
routing thread for the threads of a key and sends the request to one of them. A
server thread that does not know the replication factor of a key asks the
threads that hold the metadata key of the factor and keeps the request pending.
A PUT is merged, acknowledged, and sent to the other replicas in the next round
of gossip. When a node joins or a factor changes, threads that are no longer
responsible send their copies on and delete them; a departing thread sends all
it has. The monitor stores a new factor under the metadata key, waits for the
answer, and tells the servers; it orders nodes from the management node and
sends idle ones away. A server thread also asks the management node for the
caches there are and reads, for each, the record of the keys it holds.

What makes this hard to test: every thread learns of joins, departs and factors
at its own time and decides with what it knows; the state at the join is used
iterations later; the metadata that locates a key moves as the keys do; and
several sockets are served in a fixed order, so messages overtake each other.
What should hold: views meet again, an acknowledged write is never in nobody's
hands, replicas converge, requests are answered, nobody waits for an answer that
is not coming.

## Modules

**Membership** has the status (`off`, `seeded`, `up`, `gone`, `killed`), the ring
(join count or `Absent` of each node) and the messages of server, routing and
monitoring threads. One action per handler: `Seed`, `Announce` (the startup code
of `run`), `NodeJoin`, `NodeDepart`, `SelfDepart`, `RouteJoin`, `RouteDepart`,
`MonitorJoin`, `MonitorDepart`, `RemoveNode`, `DepartDone`, and `ProcessExit` for
the end of `main`. `Crash` is the environment: a process dies and is restarted
with the next count. A message to a thread that is not up stays in the network:
ZeroMQ keeps it until the peer connects. It is checked as a part of KvsServer,
which extends it.

**HashRing** looks inside the ring: virtual nodes at hash positions, `Insert`,
`Remove`, and the loop of `responsible_global` and `responsible_local` (`Begin`,
`Step`, one iteration a step). The other modules use the result of the walk.

**Store** is one key with several copies, each in memory or on disk, and the six
lattices with the serializers: `ClientPut`, `Gossip` (get at one copy, put at
another), `Remove`. An element is a record with the fields of all lattices.
Timestamps, priorities and clocks are small numbers.

**KvsServer** extends Membership with the data of the storage threads. A handler
of a membership message is the action of Membership together with what it does
to the data: `ServerJoin`, `ServerDepart`, `ServerSelfDepart`. The other handlers
are `UserRequest` (split into `AnswerGet`, `ApplyPut`, `RefuseMeta`,
`MakePending`), `GossipHandler`, `ReplicationResponse` (`Retry`, `Resume`) and
`ReplicationChange`; the timers are `PeriodicGossip` and `Redistribute`. A value
is the set of the updates merged into it, which abstracts every lattice; Store
says when that is right. `loop` is the place in the event loop: sockets are
served in the order of the code, one message each. It is kept only while a
redistribution waits at the end of the loop, where the order matters; otherwise
any socket may be next. A lookup with a factor above the number of known nodes
never returns: `Stuck` and `StuckInChange` put the thread into `dead`. The
monitor's `change_replication_factor` is `MonitorStore`, `MonitorTell` and
`MonitorTimeout`; when to change a factor is left open. Clients (`ClientSend`)
send an operation to any thread, up to `MaxTries` times, which includes all that
a stale address cache or a stale routing thread could make them do.

**Routing** is a routing node as clients see it: `address_handler`, the
`replication_response_handler` and `replication_change_handler` of its threads,
their factor caches and the address requests that wait for a factor. Rings gain
and lose servers at any time (`membership_join`, `membership_depart`: how is the
subject of Membership), and servers answer lookups, refuse them or stay silent.

**Client** extends Routing with `kvs_client.hpp`: the address cache and the three
pending maps, `put_async` and `get_async` (`async`), `clear_cache`, and
`receive_async` as one step with the parts of the code: an address response
(`AddressResponse`), a server's answer (`KeyResponse` with `Done` and the retry
of `check_tuple`), and the entries that have timed out (`Expire`). `lost` keeps the
calls the code drops (`Forget`). **Calls** is the abstract specification: a call is
idle, open, lost, reported or answered, and an open call is reported or lost at
last, provided that there are servers from some time on (`served`, a variable of
the environment). Client is shown to implement it.

**Monitor** has the four handlers of the monitoring process and its epoch in the
steps of the code: `collect_stats`, `storage_policy`, the three parts of
`movement_policy` (`promote`, `demote`, `dereplicate`) and `slo_policy`. An epoch
hears no message. The numbers the policies compare are abstracted to the outcome
of the comparison: `need` is the sign of the nodes required minus the nodes there
are, `access` is how a key compares with the two thresholds, and `user_latency`
whether what users reported met the SLO. Factors are
unsigned numbers modulo `Word`. `hung` and `ended` are the states in which the
monitor is in an endless walk, or has been ended by an exception.

**Caches** is how one server thread tracks caches: its report asks for the list of
caches, `management_node_response_handler` drops those that are gone and asks for
the records of the others, `cache_ip_response_handler` keeps the two maps.

`MC_*` modules give the constants their values. The network of each kind of
message is a set: messages arrive in any order, except where one socket and one
sender fix it (`FirstInLine`); two identical messages in flight at the same time
count as one. Routing and Client use bags instead, since there an address request
and its repetition are told apart.

## What TLC checks

| run | what happens | states |
|---|---|---|
| HashRing | two threads, three servers with two virtual nodes, one hash value shared | 19 348 |
| StoreCopies | one copy in memory, two on disk, four versions, concurrent and superseding | 28 458 |
| KvsReplicas | PUT and GET twice each, two local replicas and one on disk | 12 111 |
| KvsJoin | a node joins two keys under load | 8 186 |
| KvsChange | a factor grows and shrinks while a node joins | 105 296 |
| KvsDepart | the two-threaded owner of a key crashes, rejoins and is removed during a PUT | 210 699 |
| Client | a GET and a PUT, servers that join, leave, refuse or are silent, a factor that changes | 33 693 |
| Monitor | epochs with all policies and two replicas, or all but selective replication and one; up to four nodes of two tiers | 1 400 276 |
| Caches | two caches that come and go | 98 304 |

Three more runs end in a violation, and are described below: `StoreOrder`,
`KvsBatch`, `KvsFlap`.

*Membership* (in `KvsDepart`, where handlers also move data). `ViewsAgree`: when
all messages have been handled, thread 0 of every server and every routing thread
have every serving node, with the count of its current run. `CountsReal`: no
message or ring holds a count that was never used. `SelfInRing`: no message makes
a running thread drop itself. `OnlyDepartedForgotten`: a node is forgotten only
after it departed.

*Rings.* `RingExact`: whatever came and went in whatever order, a ring has the
virtual nodes of the servers it should have, except where two servers share a hash
value. `WalkFindsClosest`, `WalkEnds`: what a lookup returns, and when it ends.

*Copies.* `KeepsWrites`: whatever the order, repetition and path of merges, a copy
of a set has all elements, a timestamped or prioritized one has one of the latest
or most urgent writes, and a causal one has every version that no other
supersedes, under the least clock that covers what was merged. It may have
superseded ones too: that is what `StoreOrder` shows. `NeverBack`: no merge undoes
an earlier one.

*Storage.* `AckedDurable`: an acknowledged PUT is at every moment held by a thread
that is up, or by a message to one, as long as no thread has stopped in an endless
walk. `Converged`: when everything is handled, it is at every
responsible thread. `DropsOnlyUnowned`: a value is given up only by a thread that
is not responsible. `LookupUnderWay`: no lost wake-up, a pending request always
has a question or an answer on its way. `StoredFactorKnown`: the "should never
happen" branches of the join, depart and gossip code do not happen. `OneAnswer`:
no attempt is answered twice. `Answered`, `Quiesces`: every request is answered
and the messages die out, the flood of joins among them.

*Client and routing.* `ImplementsCalls`: once there are servers, the user hears of
every call that is not lost, if only that it timed out; no call is open twice, and
an answered PUT stays answered. `OpenIsPending`: a call the user has not heard of
and that is not lost is in a pending map. `AckedIsLast`: nothing is reported of a
PUT after its answer. `QueryUnderWay`: calls that wait for an address have an
address request, or its answer, under way. `AddressLookupUnderWay`: the same of
the factor lookups of routing threads.

*Monitor.* `TierSurvives`: the memory tier is never sent away as a whole, although
a node that was asked to leave stays in the ring for epochs. `OrdersCounted`: the
monitor never waits for nodes that have joined already. `NeverHangs`: with one
replica of each key, as the files in `conf/` configure it, the monitor never stops
in the walk of `change_replication_factor`, whatever moved, failed, came and went
before.

*Caches.* `InverseMaps`: the two maps are inverse to each other in whatever order
lists and records arrive. `Tracked`: a cache that stays is tracked at last with
exactly the keys it published.

### Where the code and its words disagree

* `StoreOrder`: "associative, commutative, and idempotent merge functions"
  (`README.md:15`). The causal merge (`single_key_causal_lattice.hpp:52`) is not
  associative. Versions with the clocks (1,0), (0,1) and (2,0) merged in this order
  leave all three values, since (2,0) is concurrent to (1,1); merged as (1,0),
  (2,0), (0,1) they leave two. `SameWritesSameValue` is violated.
* `KvsBatch`: "remove the keys we just dealt with" (`server.cpp:681`). They are
  erased from a copy of the set (`:668`): with more keys for one thread than
  `DATA_REDISTRIBUTE_THRESHOLD` the redistribution sends the same batch for ever
  and removes nothing. `Drains`, that it comes to an end, is violated with two keys
  and a threshold of one.
* `KvsFlap`: keys "I am no longer responsible for" (`node_join_handler.cpp:97`),
  marked at a join, are deleted even if the new node has departed meanwhile, so
  that a thread drops the only copy of a key it is responsible for again.
  `DropsOnlyUnowned`, which holds while nodes only join, is violated.

### Bounds

Two nodes are what the cases need: an old and a new owner, each of which is a
bystander to what the other does. One or two threads per node: thread 0
and a worker differ, two workers do not. One restart (`MaxCount`), two attempts
per operation (`MaxTries`; one where nodes leave), two factor changes, batches of one key (`Threshold`
stands for 50). Three servers on a ring let a walk skip, wrap and fall short, and
two of them meet at a position. Four versions are two of one client, one of
another that has seen neither, and one that supersedes all; two have the same
timestamp.

For the client, one call of each kind on one key makes every map and queue meet;
servers refuse at most `MaxRefusals` times. For the monitor, two memory nodes at
first is the least with one to send away, a third and a disk node may be ordered,
in batches of two (`kNodeAdditionBatchSize`), so that a batch may be half there;
`Word` is 16, far above every factor, so that a wrap is seen. `Configurations`
has one replica without selective replication, which otherwise undoes a demotion
in the same epoch, and two replicas with all policies. The key may be of size zero
(`Empty`). The two initial memory nodes are symmetric: all properties are
invariants that do not name them. A server
thread has at most `MaxPending` cache lists on their way; it asks again only at
its next report, seconds later.

### Fairness

Weak fairness of each handler of each thread: the event loop polls every socket
in every iteration, and a thread that is not in an endless walk comes round
again. Weak fairness of the startup code and of the messages the monitor sends
after its PUT was answered. Nothing is assumed of clients, crashes, departures,
or of when the monitor changes a factor.

In Client the user keeps calling `receive_async`, which takes what has arrived;
an entry expires when nothing arrives any more, since each call compares its age
with the timeout. No server or routing thread is assumed to answer, and none to
hear of servers: while a routing thread knows none, its `NO_SERVERS` answers
restart the clock (`kvs_client.hpp:126`) and a call stays open. Calls therefore
promises a report only under `<>[]served`. In Caches the report, the management node and the handlers
are weakly fair; a record is read at some time because every report asks for it
again (strong fairness of `Answer_get`). Monitor needs none.

`CHECK_DEADLOCK FALSE` is set where the system may come to rest: without further
requests or membership changes the servers idle, and the monitor may end.

## What is proved

`MembershipProofs`, for any number of nodes, threads, routers and restarts, from
`MembershipAssumption`: `TypeCorrect`, `SelfStaysInRing`, `CountsAreReal`,
`ForgetsOnlyDeparted`, `ViewsConverge`. Forgetting needs that a depart message in
the network names a node whose thread 0 is gone, and that a departed node does not
come back; counts need the same bound on messages as on rings. That views
converge needs, for each thread 0 or routing thread that lacks a serving node, a
message or a seed still to come that tells it.

`HashRingProofs`, for every hash function: `RingIsExact`, with the types of rings
and server sets, and `WalksFindTheClosest`. The invariant of the walk says that
what it has found so far is what lies between the key and its position.

`StoreProofs`, for any number of copies and any writes, with no assumption on
timestamps, priorities or clocks: `CopiesKeepWrites` and `CopiesNeverGoBack`. The
lemmas go type by type from one write over the merge to the serializer. For the
causal types the core is `Superseded`: when a merge assigns, the clock of the
incoming element covers that of the stored one, so for a version that is dropped
the count of its author was reached by another write that was merged, and what
vector clocks mean (`VectorClocks`) makes that write cover it.

`KvsProofs`, for any number of nodes, threads, keys, operations and factor
changes, from `MembershipAssumption`, `KvsAssumption` and `ChangeAssumption` (the
factor changes are numbered and there is a last one): `ServersKeepMembership`, the
membership theorems for the whole system, from the lemma that every step of a
handler is a step of Membership or leaves it alone; and `KTypeCorrect`. The
invariant `KInd` types each part of the state on its own (the threads, the pending
lists, each network, the operations, the changes), so that a handler is a few
short steps.

`KvsLookupProofs`, on top of `KInd`: `FactorAlwaysKnown`, since a data key is
merged only after a lookup that succeeded; `NoLostWakeUp`, since every handler
that makes something pending, or refuses an answer, asks again; and
`OneAnswerEach`, since an attempt is in the network, in one pending list or
answered, and never in two places.

`MonitorProofs`, for any number of nodes and keys and every set of policies:
`MemoryTierSurvives`, `OrdersAreCounted`, `MonitorNeverHangs`. The invariant of the
first adds that no memory node was asked to leave while `removing` is not set,
that once one was asked another is known that was not, and that only nodes that
were asked depart. The last rests on: every factor the monitor keeps has exactly
one replica, in one tier, since a promotion and a demotion move it, a
dereplication sets it back, a removal needs two nodes to shrink a factor that all
hold, and the branch that would add replicas is not taken.

`CachesProofs`, for any number of caches, keys and messages: `MapsAreInverse`,
with the types of maps and messages.

Only model-checked: durability, convergence and answers of KvsServer; Routing;
that Client implements Calls; and all liveness. Three things are out of the
prover's reach: liveness under fairness and `ENABLED`; induction over data; and
modules with `RECURSIVE` operators.

## Behaviours met while modelling

These follow from the code, are part of the models, and bound what is stated:

* A join message still being gossiped when its node departs puts the node back
  for good (`node_join_handler.cpp:36`): no property says that departed nodes are
  forgotten.
* Worker threads seed themselves; a worker seeded before another node is known
  misses it if thread 0, seeded later, has it already and so does not pass the
  join on. `ViewsAgree` is about thread 0 of the servers, and routing threads.
* `worker_threads[tid].join()` is off by one (`server.cpp:793`): worker 1 may be
  cut off (`ProcessExit`).
* Where the 32-bit hashes of two servers collide, the entry depends on the order of
  insertions, and removing one server removes the entry of the other. Threads that
  know the same servers may then disagree on who is responsible, while
  `stats_helpers.cpp:113` says "The hash ring should never be inconsistent".
* Equal timestamps make the LWW merge depend on the order.
* A factor above the number of nodes a thread knows stops that thread
  (`hash_ring.cpp:76`).
* A factor response sent before a factor change and handled after it undoes the
  change on that thread; `Converged` is checked without factor changes.
* A PUT of another lattice type is dropped and acknowledged. The runs write each
  key with one type, and ask for an answer to every PUT; the theorems cover both.
* A rejoining node is sent what its peers have stored, not what they keep in
  `pending_gossip`.
* The first PUT of a priority key on disk creates the file, reads it back as
  priority 0, and is dropped unless its priority is negative; it is acknowledged
  (`server_utils.hpp:787`). `KeepsWrites` is about priorities in memory.
* A PUT that was acknowledged and not gossiped yet when a node of its tier joins is
  handed over within the tier and removed; the next round of gossip skips the key
  (`utils.cpp:31`), so that the replicas of the other tier miss it. `Converged` is
  checked of joins in one tier.
* A departing thread serves its self-depart socket before its gossip socket, so
  gossip that is queued is lost with it: `AckedDurable` is checked of joins and
  factor changes.

Of the client and the routing threads:

* An address response without addresses makes the client append the waiting calls
  to the queue it walks and then erase it: two calls are a walk through freed
  memory, and one is forgotten: nothing is reported of it, not even a timeout. The
  models call it lost.
* A PUT that was refused and waits for an address may be reported twice: as timed
  out in one map, and later from the other. GETs are matched by key, so one
  answer serves all GETs of the key.
* `NO_SERVERS` is retried without a limit, and the timeout starts anew each time. A
  routing thread that is asked while
  it knows disk nodes only ends in the lookup of a factor.

Of the monitor:

* The reports of users are cleared (`monitoring.cpp:227`) before
  `collect_external_stats` reads them (`:241`). The branch of `slo_policy` for
  latencies above the SLO, "check latency to trigger elasticity or selective
  replication" (`slo_policy.cpp:29`), and with it the "selective replication of hot
  keys" of `README.md:23`, is never taken. `slo_missed` translates it and is not
  reached in any run either.
* `depart_done_handler.cpp:27` reads the name of a tier with `stoi`: the first
  departure that completes ends the monitor. Until then `removing` is never
  reset, which is what keeps a second node from being sent away.
* `remove_node` counts memory threads also for a disk node (`elasticity.cpp:33`).
* `storage_policy` may send the last disk node away, and `demote` moves keys to it
  in the same epoch. `dereplicate` undoes a demotion of the same epoch.
* With more than one replica, a memory node is sent away although a dereplication
  failed, or a key was missing from the statistics: its factor then exceeds the
  tier, and every lookup of it is endless, also that of the monitor (`hung`).
  `NeverHangs` is about one replica, as configured.
* A key with an empty value, of size zero, fits a disk tier without nodes and is
  moved there, against "assume [...] the requests are valid (rep factor <= total
  number of nodes in a tier)" (`replication_helpers.cpp:49`).
* A default memory factor two or more above `kMinimumReplicaNumber` makes the disk
  factor wrap (`slo_policy.cpp:126`).
* The join of a node nobody ordered lowers `new_memory_count`: another batch may
  be ordered too early, never too late.

Of caches:

* A record that arrives after its cache was deleted enters the maps again, and no
  later list removes it unless the cache comes back.
* An update gossiped to caches before a cache's record is read is not sent to it.

## Not modelled

* The sums and means of the statistics, and the report statistics and access
  tracker of the servers: numbers that only the policies compare, and whose
  outcomes Monitor chooses freely.
* A crash between truncating and writing a file: a restarted thread knows no keys
  and reads no file before the next PUT, which merges with what it finds.
* Address requests for several keys or for metadata keys, which the client library
  does not make.
* The transport (ZeroMQ, represented by sets and bags of messages), and the
  benchmark, the command line and the Python client, which keep no state of the
  system.
* Lattices that no key can have (Boolean, counting, bounded).
