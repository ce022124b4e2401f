# A TLA+ model of the Offline-First Internet Layer

The repository (`src/`, Node.js) is one node of a mesh that works without internet: it stores messages, discovers
peers by UDP, gossips and reconciles with them over HTTP, and pushes to a remote endpoint when connectivity appears.
This directory models the parts in which order, failure and time matter, checks them with TLC on small instances and
proves with TLAPS, for all values of the constants, what the store, the sync engine, discovery with the connectivity
monitor, anti-entropy, gossip, the event bus with its vector clocks, queries and sessions, and the CRDTs rest on.

Paths below are relative to `src/src/` of the repository unless they name a doc. Comments in the modules cite lines.

## The system

Everything in a node runs on one JavaScript thread. Methods of the store are synchronous inside, so they never
interleave with each other; everything that awaits a request (sync, connectivity probes, anti-entropy) does.

| Component | State | Operations | Talks to | What is hard | What makes it correct |
|---|---|---|---|---|---|
| Store `store.js`, log `wal.js`, clock `clock.js` | message array, type index, Lamport clock; snapshot, tmp and log files | `save`, `deleteMessages`, `markSynced`, `snapshot`, `clear`, the constructor | called by everything | crashes between file operations, failing writes, replaying an old log over a new snapshot | acknowledged writes survive, deletes stay, Lamport order is total, the index agrees |
| Sync engine `sync.js` | `_online`, `_syncing`, hotspot timer, the run in progress | tier listener, timer, own probe, `syncNow`, `_syncAll` | store, remote, monitor | triggers during awaits, lost answers, hanging requests | one run at a time, only accepted messages are marked, progress |
| Connectivity `connectivity.js`, wiring `index.js` | `_tier`, overlapping checks | `_check`, `_determineTier`, the `tier:change` listener | discovery, sync, anti-entropy | a slow check overtaken by a newer one, links that change between its probes | the tier settles, noticed partitions heal |
| Anti-entropy `antientropy.js`, `server.js` | none of its own; exchanges in flight | `digest`, `missing`, `reconcile`, `syncWithPeer`, two endpoints | stores of two nodes | writes and other exchanges between the rounds, losses | the delta suffices, each node's order stays total |
| Gossip `router.js`, `messenger.js`, `server.js` | packets in flight | `stampOrigin`, `shouldForward`, `selectPeers`, `broadcast`, `/receive` | peers | many paths, reordering, no memory of what was forwarded | simple paths, reach within the ttl, the flood ends |
| Event bus `eventbus.js` | document index, vector clock; the Lamport clock is the one of the store | `publish`, `ingest`, `reindex` | store, anti-entropy, clients through the store | all versions share an id; messages bypass the bus; saves that throw; restarts lose the index and the vector clock | served versions only advance, what was noted is served, the clock covers all known published events |
| Vector clocks `vclock.js` | counters per node | `increment`, `update`, `compare`, `buildCausalGraph` | event bus | gaps, late events, restarts | clocks are exact, the graph is a transitive reduction |
| CRDTs `crdt.js` | tags and tombstones; counts | `add`, `remove`, `merge`, `increment` | application | late and repeated merges | add wins, convergence, nothing counted twice |
| Compaction `compaction.js` | timer | `compact`, `trim`, `schedule` | store | what the other components remember of discarded messages | keeps the newest, never a CRDT message |
| Query engine `query.js` | sender and synced indexes | `index`, `rebuild`, `query` | store | indexes that lag behind | an index answers as a scan would |
| Sessions `consistency.js` | watermark and writes per session | `registerWrite`, `advanceRead`, `checkRead`, `destroySession` | application | a watermark that outlives its messages | no false alarms beyond the known ones |
| Discovery `discovery.js` | peers with times, broadcast and prune timers | beacons, pruning, restarts under a new nodeId | UDP, monitor, messenger | late and lost beacons, two timers of different periods | lateness drops nobody, nobody stays who is gone |
| Identity `identity.js` | the keys of the node | `sign`, `verify` | `server.js` | relays change a signed field | an authentic message verifies (it does not, see "Divergences") |
| Failure injector, benchmark, page | none | | | | not modelled, see below |

## The modules

| Module | Models | How it corresponds to the code |
|---|---|---|
| `Wal` | log entries and the replay loop of `Store._load` | the loop as one formula, `Replay`; `MCStore` has the loop itself, and `StoreProofs` proves that they agree |
| `Store` | the store, step by step | `pc` is the next file operation of the call in progress; `Crash` may come at every step; `Faults` names the file operations that may fail; `promise` records what callers were told |
| `MessageMap` | what the store promises about restarts | one durable map that calls change atomically and crashes do not; `Store!Abstract` is the refinement mapping: `stored` is what a restart would load, `served` the memory |
| `StoreProofs` | theorems about `Store` and the loop of `MCStore` | see "Proofs" |
| `Sync` | the sync engine | a run is a record (what is left to post, what is being posted, accepted or not, hanging or not); every await of `_syncAll` is a point between two actions |
| `Discovery` | beacons and the peer list, in ticks | `flight` is a datagram on its way, `age` is now minus `lastSeen`, `pruned` the phase of the prune timer |
| `Connectivity` | overlapping checks and the healing listener, over a list of peers that changes in any way | `probing[c]` is what the check waits for: WAN, a gateway by its place in the list, or the look at the peers; `fresh` and `settled` record whether something changed since |
| `Healing` | discovery and monitor wired together as in `index.js` | `Monitor` is `Connectivity` with discovery's list as its peers |
| `AntiEntropy` | exchanges `Ask` -> `Answer` -> `Ingest` -> `Push` | an exchange carries the digest, the missing messages and the delta it computed when it computed them |
| `Gossip` | write, receive and forward | a packet is id, ttl, path, addressee, the Lamport value it carries and the one that was signed |
| `Causality` | the operations of `vclock.js`, without state | a clock is a function that is 0 where the object has no entry |
| `EventBus` | publish, ingest, reindex of several nodes; clients' messages, exchanges, restarts | one store, Lamport clock, vector clock, document index per node, as in the code; a document is its message id, and the event in a message and the message around it have Lamport values of their own; `past` and `seen` are history variables: what an event really follows, what a bus was given; `indexed` says that no document bypassed the index |
| `ORSet`, `GCounter`, `Crdts` | the two CRDTs; both on one set of replicas | `known` is a history variable: the operations behind a state, an increment being named by the count it starts from; `Crdts` takes one of the two objects per behaviour since they share nothing |
| `SyncProofs`, `GossipProofs`, `AntiEntropyProofs`, `EventBusProofs`, `ReadsProofs`, `HealingProofs`, `CrdtsProofs` | theorems about the module of that name and what it is composed of | see "Proofs" |
| `Reads` | query engine, session monitor and the scheduled compaction pass over one store | the client follows the lifecycles in `query.js:44-49` and `consistency.js:45-49`; `stale` records which ids changed without `index()` or `rebuild()` |
| `MCStore`, `MCAntiEntropy`, `MCGossip`, `MCReads` | instances for TLC | symmetry sets, a topology, filters |

Operators preceded by "Seeded bug" are variants of the definition below them with a plausible mistake in it. No
specification uses them. Substituted for the correct definition, each one makes TLC report the property that
PROJECT.json lists with it, which shows that the property can fail.

Abstractions common to all modules: contents, names and timestamps are not represented except where a property needs
them; ids are model values; a signature is the one signed field that ever differs on the way, the Lamport value; rate limits, socket.io notifications and logging are left out. Handlers that
await only resolved promises are one step, since no other callback of the node can run between.

## What TLC checks

| Run | Instance | What it shows |
|---|---|---|
| `StoreCrash` | two ids, one type, three saves' worth of clock, three log entries, failing snapshot writes and truncations | `AckedSurvives`, `DeletedStaysGone`, `LamportOrder`, `IndexAgrees`; `StoreInv`, the inductive invariant of the proofs; `ReplayIsLoop`; `ImplementsMap`, the refinement |
| `StoreAppendFault` | one id, failing appends | finds `AckedSurvives` violated, see "Divergences" |
| `Sync` | two ids, with and without a connectivity monitor, two runs possible, trims, failing snapshots, restarts | `TypeOK`, `OneRun`, `SyncedMeansAccepted`, `NoNeedlessPush`; `RunsEnd` and `RegainedTierPushes` under fairness |
| `Healing` | one neighbour, beacons every 3 ticks, up to 1 tick late, ttl 4; two overlapping checks; WAN and the second of two gateways come and go | `TypeOK`, `GhostsLeave` (the bound of the code, not of the documents, see "Divergences"), `LateIsNotLost`; `OnlyStaleChecksFlap`; `TierSettles` and `NoticedPartitionHeals` under fairness |
| `AntiEntropy` | three nodes, two messages, two exchanges at once, one trim | `LamportOrder`, `DeltaSuffices` |
| `AntiEntropyCause` | the same without trims | finds `CausalOrder` violated |
| `Gossip` | five nodes, two paths between some of them, ttl 3 | `PathsAreSimple`, `HopsHold`; `FloodReaches`, `FloodEnds` under fairness |
| `GossipVerify` | the same | finds `AuthenticVerifies` violated |
| `Crdts` | three replicas, two adds, two increments each, one state under way | `CrdtInv`, `AddWins`, `Converges`, `CountsEachOnce` |
| `EventBus` | two nodes, one document, two other ids, a client that claims Lamport value 3, publishes up to Lamport value 4, restarts | `IndexCoversStore`, `DocsNeverRegress`, `ClockCovers`; `CausalityExact` until a restart, `GraphIsReduction` always |
| `EventBusConverge` | two nodes, one document | finds `DocsConverge` violated |
| `Reads` | a bus event, a client's event of the same document, a CRDT message, a plain one; one regular message is kept | `QueryMissesOnlyStale`, `OnlySupersededRegress`, `GcKeepsNewest` |

Why the bounds are enough. A lost write needs one id and a log of three entries (save, delete, save again); two ids
let one message be saved between the steps of another's history; the theorems cover all other sizes. Two runs are
enough to overlap; of two messages one can be under way while the other is ahead or behind in a run's list, trimmed or written
anew. An overtaken check needs two checks. With a beacon every 3 ticks, delays of 1 and a ttl of 4 one lost datagram can
cost an entry and none lost cannot, the prune timer (2 ticks) and the beacons drift against each other, and an entry
can outlive its ttl; the code has 5 s and 20 s, where it takes three or four datagrams in a row, and `LateIsNotLost` and
`GhostsLeave` are proved for every choice. With two gateways, of which the second may answer, links change between the probes of one check, also
between two gateways, and WAN can return behind a check that has passed it; `OnlyStaleChecksFlap` is proved for any number of gateways. Safety properties that are proved and typing, where a
proof covers it and no bug worth seeding breaks it, are not repeated in the runs of `Gossip`, `AntiEntropy`, `EventBus` and `Reads`.
The store runs with one type, so that `IndexAgrees` there is about membership in its bucket; for several types it is proved. Half a line
in the log is among the faults of `Store` and of the theorems that allow any fault, but of no run. Two exchanges of three nodes are the smallest case in which a node is in the middle of one
while it answers another. The gossip topology has a cycle, so that copies meet, and a node further than one hop
behind it. In `EventBus` the two nodes have one document to write concurrently and in several versions, and two ids, one on each side of
the document's in the order that breaks ties, for other events and for messages of clients, plain or JSON with the document's docId and a
Lamport value below, at or above those of the buses' versions. Three stored events make the shortest chain with a superfluous edge. In `Reads` the clock reaches 4
so that an event can be published twice (two ticks each), and `MaxCount = 1` so that every pass has something to discard.

The Lamport clocks of `Gossip` are unbounded: with finitely many messages and simple paths they stop by themselves.

Bounds that are not in the code: `MaxWal`, `MaxLamport` (a node with a full log or clock takes no
further calls), `MaxRuns`, `MaxExchanges`, `MaxTrims`, `MaxSnapshots`, `MaxIncrements`. `Gossip` stops
when everything was written and all packets are gone, hence without a deadlock check.

### Fairness

* `Sync`: weak fairness of the run's own steps, because a request is answered, fails, or is given up after the 8 s
  timeout (`sync.js:236-243`); strong fairness of the remote accepting a message it is asked for again and again. Nothing is
  assumed of tiers, users or timers: `RegainedTierPushes` takes the network's coming and going as its premise. It and `RunsEnd`
  also take as premise that no answer hangs, because the code does not exclude it.
* `Healing`: time goes on and due timers fire (`Clockwork`; `discovery.js:124-140`), the socket is read (`Arrival`), the
  check timer keeps firing, and each probe connects, is refused or times out (`connectivity.js:87-92,132-148`). Nothing is
  assumed of neighbours and links; `TierSettles` takes their standing still, and that no datagram is lost from then on, as its premise.
* `Gossip`: requests that are not lost are handled.

## Proofs

`StoreProofs` proves, for any sets of ids and types and any bounds:

* `StoreTyped` and `IndexCorrect`, for any failing file operations; the second with `clear()` as well.
* `StoreStaysSound`, `AckedWritesSurvive`, `DeletesSurvive`, `LamportsOrdered`, `StoreImplementsMap`, assuming `LogAppends`: appends to the
  log neither fail nor are torn. `StoreAppendFault` shows that the assumption is needed. Snapshot writes, renames and
  truncations may fail, and the process may die anywhere.

The invariants the callers care about are not inductive: that an acknowledged write is on disk now does not say that
the log entry which carries it will still be replayed after the next snapshot. `StoreInv` strengthens them:

* `LogInv`: what a restart would load equals what is served, up to synced marks, at every step; during a call up to that call's
  effect; and a snapshot that is about to be followed by a truncation holds everything.
* `ClockInv`: Lamport values are distinct in memory and on disk, and the clock covers them with the save in progress on top.
* `PromiseInv`: promises are kept on disk, and a call in progress concerns only ids nothing is promised of.
* `IndexInv`: the index is what a restart would build, and a save in progress is of a new id.

There is one lemma per step of the store, over lemmas of what `Replay` does with an appended entry and with a log replayed over
a snapshot it is part of (`ReplayDelete`, `ReplaySave`, `ReplayRewrite`). `StoreImplementsMap` maps each step to
`Add`, `Remove`, `Serve`, `Die` of `MessageMap` or to a stutter.

`LoopReplays` and `ReplayLoops` justify `Replay` itself: for every snapshot and every log the loop of `_load`, one entry at a time,
ends with the map that `Replay` names. An entry more at the end of the log is a turn more of the loop (`ReplayTurn`, from
`ReplayDelete`, `ReplaySave` and `ReplayKnown`), and the prefixes are compared in the order of their lengths.

`CrdtsProofs` proves of sets `AddsWin`, `StrongConvergence` and `TombstonesNeedAdds`, for any replicas, elements, tags and number
of states under way. The invariant `Inv` says that tags and tombstones are a function of the operations known
(`Explains`), that a remove brings along the adds it observed (`Closed`) and that tags are unique, for replicas and states
under way alike: a merge is then the union of two sets of operations. Of counters it proves `CountersCountOnce`, for finitely many
replicas and amounts that are not negative (`increment()` rejects none, and with negative ones a maximum forgets them; the type is
documented as grow-only). There the invariant is in units: a state holds exactly the units that the increments behind it added
(`Covered`), no two increments add the same unit, and nobody is ahead of a replica in its own partition. The maximum of two partitions
is then the union of two initial segments, and both sums, of the partitions and of the increments, count the same set (`TotalIsUnits`,
`CoveredSum`). `CrdtsInvariance` states both invariants of the composition.

The other proof modules assume only what the `ASSUME`s of their modules say (types of the
bounds, filters over known senders, `MaxDelay < Interval`, gateways numbered by naturals). Each has an inductive invariant `IInv` (`DInv`, `MInv` in `HealingProofs`), one lemma per
action, and takes the properties from it:

* `SyncProofs`: `SyncTyped`, `RunsDoNotOverlap`, `MarksAreTrue`, `PushesAreNeeded`. `OneRun` needs no more than itself, the marks
  need `AcceptedIsRemote` (a run that waits for a 2xx answer posts what the remote has), and `NoNeedlessPush` needs
  that the list of a run, what it posts and what was confirmed are disjoint (`ConfirmedIsMarked`): that holds only
  because there is one run.
* `GossipProofs`: `GossipTyped`, `SimplePaths`, `PathsHold`, for any topology and ttl.
* `AntiEntropyProofs`: `AntiEntropyTyped`, `OrderStaysTotal`, `ExchangesUnite`. A batch is ingested in one step, message by
  message; the lemmas about it describe the clocks after any prefix of the batch. `Covered` says for each step of an exchange what
  the two nodes hold, have trimmed, or are about to be handed.
* `EventBusProofs`: `EventBusTyped`, `ClocksCover`, `IndexCovers`, `DocsAdvance`, `ClocksTellCauses`, `GraphReduces`, for any nodes, documents,
  other ids and claims. `NodeFine` says of each node that messages are filed under their id, finitely many, covered by the clock, and
  `Genuine` (a published event or JSON of a client without vector clock), and that the index serves what it should unless it is behind.
  `CausalityExact` needs to know who knows what: until a restart a clock covers an event in its publisher's component exactly when its owner
  knows it, for the clocks of events and of nodes alike (`Knowledge`). A restart breaks that, since the bus counts from the start again, but
  not that the clock order on what a node stores is a strict order on a finite set, from which `GraphReduces` follows: between two ordered
  events there is one with no other in between (`Maximal`, `ParentBetween`), which is a direct parent, and the rest of the way is shorter.
  `Maximal` also gives the newest version that a reindex finds, and the highest value a restart seeds the clock with.
* `ReadsProofs`: `ReadsTyped`, `QueriesMissOnlyStale`, `SupersededRegress`, `PassesKeepNewest`. The invariant relates each index to the
  store up to `stale`. The last two are action properties: one rests on where the newest message can go in each kind of step, the
  other on distinct Lamport values (`Distinct`) and on counting: of a set with distinct numbers exactly `K` have fewer than `K` above (`KeptCount`).
* `HealingProofs`: `HealingTyped`, `GhostsGo`, `LatenessSpares`, `FreshChecksTellTruth`. `DInv` bounds the age of an entry by
  the datagrams lost since it was refreshed and by the phase of the prune timer (`Gap`, `Aged`); `Quotient` is the property of
  division it needs. `OnlyStaleChecksFlap` is proved of the monitor over a list that changes in any way (`Learned`: what a check that is not
  outdated has found so far of WAN and of the gateways before the present one is true); the lemma `HealingIsMonitor` carries it over to the list
  that discovery keeps. That lemma follows from how the two are composed and is not listed as a result.

Inductions over a sequence, a set or a number are proved from the least number principle, stated for a set rather than for an
operator, since the induction theorems of the library are out of reach. A fold of the library is the one function that satisfies its
recursion: the proofs exhibit the closed form, show that it satisfies the recursion too, and refute a smallest argument at which the
two differ.

Only model-checked: liveness (`RunsEnd`, `RegainedTierPushes`, `TierSettles`, `NoticedPartitionHeals`, `FloodReaches`,
`FloodEnds`), which is out of the prover's reach. Every invariant, action property and refinement that a passing run checks is
proved as well.

## Divergences

Four runs look for a violation and find it; PROJECT.json quotes the lines.

* `StoreAppendFault`: `wal.js:47-48` says a failed append costs durability but not correctness. After `delete x` is
  logged and `x` is saved again with a failing append, a restart replays the delete over the newer snapshot.
* `AntiEntropyCause`: `missing()` returns the newest message first and `reconcile()` saves in that order under fresh Lamport
  values, so a reply is ordered below the message it answers (`docs/OFIL-RFC-001.md:138`).
* `EventBusConverge`: two nodes publish a first version of one document each, with Lamport value 1, and each ingests the other's. Node 1 keeps its
  own, that of the lower sender. At node 2 `ingest` decides for node 1's version too (`eventbus.js:131`), but `_updateDocIndex` compares two versions
  with one id and one Lamport value, finds 0 and keeps what it has (233). Both were given the same events and serve different versions
  (`docs/OFIL-RFC-001.md:254,260-262`).
* `GossipVerify`: a relay forwards its own Lamport value under the writer's signature (`server.js:157-162`), so an authentic message does not verify at
  the second node. The result of `verify` is passed on as `verified` and decides nothing, while `docs/OFIL-RFC-001.md:174-176` and `CHANGELOG.md:33-34`
  say that what does not verify is rejected with 401. (The signature of `docs/OFIL-RFC-001.md:171` covers content, sender and timestamp; the code
  signs the Lamport value too, `identity.js:115-117`.)

Others met while modelling, described here and at the hazards in PROJECT.json but not kept as runs:

* `sync.js:228`: if a connection closes after the response headers, neither `end` nor the request's `error` comes, `_syncing` stays
  true and every later trigger returns at once, against README.md:156. `Sync!PostHangs` is that step.
* `sync.js:9` says messages are pushed immediately on WAN; only the tier event pushes, so a message written on a stable WAN
  connection waits.
* `store.js:202-208`: a synced mark is not logged and may be lost in a crash; the message is pushed twice.
* `store.js:243-248`: `clear()` truncates before it persists, `wal.js:73` says the opposite order.
* `store.js:85`: after a delete of the newest messages and a restart Lamport values are handed out again
  (`docs/OFIL-RFC-001.md:74`).
* `connectivity.js:13-14`: a check that began before a change of the network can announce the old tier after a newer check;
  `OnlyStaleChecksFlap` says that nothing else can.
* `index.js:89`: a peer that comes back while the tier is not `none` gets no anti-entropy (`docs/OFIL-RFC-001.md:243-244`).
* `store.js:139`: a received message gets the receiver's own Lamport value, so two nodes order the same messages
  differently (`store.js:9-11`).
* `router.js:21`: the default ttl is 5, `docs/OFIL-RFC-001.md:231` says 7; and there is no set of seen ids (lines 226-235).
* `discovery.js:21,129-138`: the ttl is 20 s and the prune timer has a period of half of it, so a silent peer is listed for up to 30 s;
  `docs/OFIL-RFC-001.md:201-202` and `CHANGELOG.md:38` say 15 s. `GhostsLeave` passes because it states the bound of the code, one and a half ttl
  for any ttl; no bound of the documents holds.
* `eventbus.js:83`: all versions of a document have one message id and the store ignores an id it has. A later version is served by its publisher,
  never stored, exchanged or kept over a restart; others serve the first version (`docs/OFIL-RFC-001.md:260-262` speaks only of nodes that received the same writes).
* `eventbus.js:98`: a publish whose save throws after memory and log took the message (`store.js:160`) reports an error; the document is stored and
  exchanged, but served only after a reindex. `indexed` in `EventBus` records it.
* `eventbus.js:217-220`: a reindex takes any stored JSON with a docId for an event, so a message of a client is served as a document if the Lamport value in its
  content is high enough, and versions the bus publishes afterwards may be below it: `ClockCovers` is about published events.
* `vclock.js:103-104` calls messages without a vector clock "concurrent with everything"; `buildCausalGraph` (113, 118) takes them for `{}`, which is before
  every clock with an entry, so the graph makes a client's message a parent of the first events.
* `eventbus.js:158`: nothing reindexes at start, so stored documents are not served until the next exchange.
* `eventbus.js:62`: the vector clock restarts at zero beside the stored events it stamped (`docs/OFIL-RFC-001.md:75`).
* `query.js:46-49` lists `index()` after saves and `rebuild()` after bulk changes; `markSynced` needs a rebuild too.
* `consistency.js:115`: publishing an event again under its id, or compacting the newest message as an old version, makes the
  monitor report a regression though nothing older was served. `OnlySupersededRegress` says these are the only ways.

## Not modelled

* The addresses in a discovery entry and malformed datagrams. `Gossip` and `AntiEntropy` take a fixed topology instead of
  discovery's list: a peer that is dropped is a packet that is lost.
* `identity.js`: key generation, the key file and the encodings, cryptography over byte strings; what a signature covers is in
  `Gossip`.
* `server.js`: authentication, rate limits, status pages, socket.io; a refused request is a lost one. `index.js`: starting and stopping.
* `failureinject.js`, `benchmark.js`, `public/index.html`: test transports, measurements, a page; no state of the node.
* In `EventBus`: JSON of a client that carries a vector clock or an id other than its message's; compaction (`Reads`, `AntiEntropy` and `Store` have it);
  several event types (the index and the graph keep them apart); a log that loses an append, so that a restart finds what was stored (`Store` has that);
  a message received under an id the node has, which only moves its clock.
* `compaction.trim({ maxAge })`: no caller in the node uses it. Order, offset and limit of query results and the
  string operators of predicates: no state.
* `clear()` is an action of `Store` (in `ClearSpec`) and covered by `IndexCorrect`, but in no run: no module of the node calls it.

## Order and what is left

Written in this order: `Wal`, `Store`, `MessageMap`, `StoreProofs`; `Sync`; `Connectivity`; `AntiEntropy`; `Gossip`; the
CRDTs and their proofs; `Causality` and `EventBus`; `Reads`; `Discovery`, `Healing`; marks, snapshots and restarts in `Sync`; Lamport values and
signatures in `Gossip`; the proof modules of `Sync`, `Gossip`, `AntiEntropy`, `Reads`, `Healing`, `EventBus`, and the proof of the replay loop.

Worth adding: gossip and anti-entropy of the same nodes together, with discovery's list as the topology; that two nodes
which trim at different times exchange for ever; the order and the pages of query results.
