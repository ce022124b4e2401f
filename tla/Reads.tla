------------------------------- MODULE Reads -------------------------------
(***************************************************************************)
(* What the clients of one node read: the query engine with its secondary   *)
(* indexes (src/query.js) and the session monitor (src/consistency.js),     *)
(* over a store that compaction prunes behind their backs                   *)
(* (src/compaction.js).                                                     *)
(*                                                                          *)
(* The client keeps to the lifecycles query.js:44-49 and consistency.js:45- *)
(* 49 describe: index() and registerWrite() after a write of its own,       *)
(* rebuild() some time after messages arrived otherwise, advanceRead()      *)
(* after a read that checkRead() found in order.                            *)
(*                                                                          *)
(* The messages are in the order of their Lamport values, as each save      *)
(* gives a larger one than all before (Store!LamportOrder).                 *)
(***************************************************************************)
EXTENDS Naturals, FiniteSets, FiniteSetsExt

CONSTANTS Ids, Senders,
          CrdtIds,      \* the messages whose type starts with "crdt:"
          Docs,         \* for every document the messages that are its events
          BusIds,       \* the ids "type:docId", under which the bus publishes
          Author,       \* per id: the sender of a message under a UUID
          MaxCount,     \* trim's maxCount
          Filters,      \* the filters of the queries: sequences of predicates
          MaxVersion,   \* bound on the Lamport values inside document events
          MaxLamport    \* bound on the clock

ASSUME ReadsAssumption ==
    /\ CrdtIds \subseteq Ids /\ BusIds \subseteq UNION Docs
    /\ \A D \in Docs : D \subseteq Ids \ CrdtIds
    /\ Author \in [Ids -> Senders]
    /\ MaxCount \in Nat \ {0} /\ MaxLamport \in Nat /\ MaxVersion \in 0..MaxLamport

ASSUME FiltersAssumption ==
    \A filter \in Filters : DOMAIN filter \subseteq Nat /\ \A n \in DOMAIN filter :
        /\ filter[n].field = "sender" => filter[n].value \in Senders
        /\ filter[n].field = "synced" => filter[n].value \in BOOLEAN

VARIABLES messages,   \* the store's messages by id
          clock,      \* the store's Lamport clock
          known,      \* the ids in use anywhere: a new UUID is none of them
          bySender,   \* _senderIndex
          bySynced,   \* _syncedIndex
          stale,      \* the ids that changed without index() or rebuild()
          session     \* the monitor's record of the client's session

store  == <<messages, clock, known>>
engine == <<bySender, bySynced, stale>>
vars   == <<store, engine, session>>

\* version: the Lamport value inside the content of a document event, 0 for any
\* other message.
Message == [sender : Senders, synced : BOOLEAN, lamport : 1..MaxLamport,
            version : 0..MaxLamport]

Held == DOMAIN messages
Top  == Max({0} \cup {messages[i].lamport : i \in Held})

\* A session nobody used yet is checked like one that wrote and saw nothing.
NewSession == [highWatermark |-> 0, writes |-> {}]

TypeOK ==
    /\ messages \in [Held -> Message]
    /\ clock \in 0..MaxLamport /\ Top <= clock
    /\ Held \subseteq known /\ known \subseteq Ids
    /\ bySender \in [Senders -> SUBSET Ids] /\ bySynced \in [BOOLEAN -> SUBSET Ids]
    /\ stale \subseteq Ids
    /\ session \in [highWatermark : 0..MaxLamport, writes : SUBSET Ids]

SendersOf(ms) == [s \in Senders |-> {i \in DOMAIN ms : ms[i].sender = s}]
SyncedOf(ms)  == [b \in BOOLEAN |-> {i \in DOMAIN ms : ms[i].synced = b}]

Init ==
    /\ messages = [i \in {} |-> {}] /\ clock = 0 /\ known = {}
    /\ bySender = SendersOf(messages) /\ bySynced = SyncedOf(messages)
    /\ stale = {} /\ session = NewSession

-----------------------------------------------------------------------------
(* Writes, local and otherwise.                                             *)

Larger(a, b) == IF a >= b THEN a ELSE b

\* save(): a message under an id that is held is ignored.
Save(id, m) ==
    /\ messages' = IF id \in Held THEN messages
                   ELSE [i \in Held \cup {id} |-> IF i = id THEN m ELSE messages[i]]
    /\ clock' = m.lamport
    /\ known' = known \cup {id}

\* Seeded bug: messages are indexed by sender only.
IndexSenderOnly(id, s, synced) ==
    /\ bySender' = [bySender EXCEPT ![s] = @ \cup {id}]
    /\ UNCHANGED bySynced
    /\ stale' = stale \ {id}

\* index(): buckets only grow.
Index(id, s, synced) ==
    /\ bySender' = [bySender EXCEPT ![s] = @ \cup {id}]
    /\ bySynced' = [bySynced EXCEPT ![synced] = @ \cup {id}]
    /\ stale' = IF id \in Held THEN stale ELSE stale \ {id}

registerWrite(id, lamport) ==
    session' = [highWatermark |-> Larger(session.highWatermark, lamport),
                writes |-> session.writes \cup {id}]

\* A message under a UUID, whose content the client may have made a document
\* event.
Post(id, v) ==
    LET m == [sender |-> Author[id], synced |-> FALSE, lamport |-> clock + 1, version |-> v] IN
    /\ id \notin known \cup BusIds /\ m.lamport <= MaxLamport
    /\ v > 0 <=> id \in UNION Docs
    /\ Save(id, m) /\ Index(id, m.sender, FALSE) /\ registerWrite(id, m.lamport)

\* A document event: publish() ticks for the event, save() again for the
\* message around it.
Publish(id, s) ==
    LET m == [sender |-> s, synced |-> FALSE, lamport |-> clock + 2, version |-> clock + 1] IN
    /\ id \in BusIds /\ m.lamport <= MaxLamport
    /\ Save(id, m) /\ Index(id, s, FALSE) /\ registerWrite(id, m.version)

\* A message of another node, saved by the gossip or the reconciliation handler.
Receive(id, s, synced, v, remote) ==
    LET m == [sender |-> s, synced |-> synced, lamport |-> Larger(clock, remote) + 1,
              version |-> v] IN
    /\ m.lamport <= MaxLamport /\ (id \in BusIds \/ s = Author[id])
    /\ v > 0 <=> id \in UNION Docs
    /\ Save(id, m)
    /\ stale' = IF id \in Held THEN stale ELSE stale \cup {id}
    /\ UNCHANGED <<bySender, bySynced, session>>

MarkSynced(id) ==
    /\ id \in Held
    /\ messages' = [messages EXCEPT ![id].synced = TRUE]
    /\ stale' = IF messages[id].synced THEN stale ELSE stale \cup {id}
    /\ UNCHANGED <<clock, known, bySender, bySynced, session>>

Rebuild ==
    /\ bySender' = SendersOf(messages) /\ bySynced' = SyncedOf(messages)
    /\ stale' = {}
    /\ UNCHANGED <<store, session>>

-----------------------------------------------------------------------------
(* Compaction.                                                              *)

Newer(i, j) == messages[i].lamport > messages[j].lamport

\* The scan keeps an event until one with a larger version comes.
Beats(i, j) ==
    \/ messages[i].version > messages[j].version
    \/ messages[i].version = messages[j].version /\ Newer(j, i)

Superseded == {j \in Held : \E D \in Docs : j \in D /\ \E i \in D \cap Held : Beats(i, j)}

\* Seeded bug: the sort is the wrong way round and the oldest are kept.
TrimmedFromNewest(ids) ==
    {i \in ids \ CrdtIds : Cardinality({j \in ids \ CrdtIds : Newer(i, j)}) >= MaxCount}

\* trim({ maxCount }): the regular messages that are not among the newest.
TrimmedFrom(ids) ==
    {i \in ids \ CrdtIds : Cardinality({j \in ids \ CrdtIds : Newer(j, i)}) >= MaxCount}

\* Seeded bug: the pass trims before it compacts.
DiscardedTrimFirst == TrimmedFrom(Held) \cup Superseded

Discarded == Superseded \cup TrimmedFrom(Held \ Superseded)

\* One scheduled pass, compact() and then trim().
Gc ==
    /\ messages' = [i \in Held \ Discarded |-> messages[i]]
    /\ UNCHANGED <<clock, known, engine, session>>

-----------------------------------------------------------------------------
(* Reads.                                                                   *)

Kind(i) == IF i \in CrdtIds THEN "crdt" ELSE "general"

\* _applyOne for equality and inequality on the indexed fields and, as a field
\* no index serves, a lower bound on the Lamport value.
Holds(i, p) ==
    CASE p.field = "type" -> (Kind(i) = p.value) = (p.op = "eq")
      [] p.field = "sender" -> (messages[i].sender = p.value) = (p.op = "eq")
      [] p.field = "synced" -> (messages[i].synced = p.value) = (p.op = "eq")
      [] p.field = "lamport" -> messages[i].lamport > p.value

Bucket(p) ==
    CASE p.field = "type" -> {i \in Held : Kind(i) = p.value}
      [] p.field = "sender" -> bySender[p.value]
      [] p.field = "synced" -> bySynced[p.value]

Indexable(filter) ==
    {n \in DOMAIN filter :
        filter[n].op = "eq" /\ filter[n].field \in {"type", "sender", "synced"}}

\* _plan: the bucket of the first indexable predicate, else a full scan.
Candidates(filter) ==
    IF Indexable(filter) = {} THEN Held
    ELSE Held \cap Bucket(filter[Min(Indexable(filter))])

Query(filter) == {i \in Candidates(filter) : \A n \in DOMAIN filter : Holds(i, filter[n])}

\* checkRead of everything the store holds.
Monotonic      == Top >= session.highWatermark \/ Held = {}
ReadYourWrites == session.writes \subseteq Held

\* A read of everything, and advanceRead to the newest message if it is ok.
Read ==
    /\ Monotonic /\ ReadYourWrites
    /\ session' = [session EXCEPT !.highWatermark = Larger(@, Top)]
    /\ UNCHANGED <<store, engine>>

destroySession == session' = NewSession /\ UNCHANGED <<store, engine>>

\* The process starts over with the messages it holds on disk.
Restart ==
    /\ clock' = IF Top = 0 THEN 0 ELSE Top + 1
    /\ clock' <= MaxLamport
    /\ bySender' = SendersOf(messages) /\ bySynced' = SyncedOf(messages)
    /\ stale' = {} /\ session' = NewSession
    /\ UNCHANGED <<messages, known>>

Next ==
    \/ \E id \in Ids :
          \/ MarkSynced(id)
          \/ \E v \in 0..MaxVersion : Post(id, v)
          \/ \E s \in Senders :
                \/ Publish(id, s)
                \/ \E synced \in BOOLEAN, v \in 0..MaxVersion, remote \in 1..MaxLamport :
                      Receive(id, s, synced, v, remote)
    \/ Rebuild \/ Gc \/ Read \/ destroySession \/ Restart

Spec == Init /\ [][Next]_vars

-----------------------------------------------------------------------------
(* Properties.                                                              *)

\* A query answered through an index finds what a scan of the store finds, but
\* for messages that arrived or were marked since the last rebuild(): entries
\* left behind by deletes, marks and ids saved anew never show.
QueryMissesOnlyStale ==
    \A filter \in Filters :
        LET scan == {i \in Held : \A n \in DOMAIN filter : Holds(i, filter[n])}
        IN  Query(filter) \subseteq scan /\ scan \ Query(filter) \subseteq stale

\* A session that reads only this node goes from monotonic to not monotonic
\* neither by an arrival, a mark, a restart nor by trimming: only when an event
\* is published again under its id, which the store ignores, or when the newest
\* message is compacted away as an old version.
OnlySupersededRegress ==
    [][Monotonic /\ ~Monotonic' =>
          \/ /\ session'.highWatermark > session.highWatermark
             /\ BusIds \cap Held \cap session'.writes # {}
          \/ \E i \in Superseded \ DOMAIN messages' : messages[i].lamport = Top]_vars

\* Whatever a pass discards is no CRDT message, and either an event of a document
\* that had a newer one or older than MaxCount messages that stay.
GcKeepsNewest ==
    [][\A i \in Held \ DOMAIN messages' :
          /\ i \notin CrdtIds
          /\ \/ i \in Superseded
             \/ Cardinality({j \in DOMAIN messages' \ CrdtIds : Newer(j, i)}) = MaxCount]_vars
=============================================================================
