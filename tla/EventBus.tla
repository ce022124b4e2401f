------------------------------ MODULE EventBus ------------------------------
(***************************************************************************)
(* The event bus (src/eventbus.js) of several nodes over their stores:      *)
(* publish, ingest and reindex, with the document index, the vector clock   *)
(* and the Lamport clock the bus shares with the store; messages of clients *)
(* (POST /api/messages) that reach the bus through the store only; and      *)
(* exchanges, after which the bus may index what they left in the store.    *)
(*                                                                          *)
(* All versions of a document are events and messages with one id,          *)
(* `type:docId`; other events and messages have fresh UUIDs.  An event is   *)
(* the JSON in the content of a message, with the publisher's Lamport value;*)
(* the message around it has the value the store gave it when it was saved. *)
(* All events are of one type: index and graph keep the types apart.        *)
(*                                                                          *)
(* Every published event carries the history variable past: itself and the  *)
(* events it follows, because its publisher's bus had published, ingested   *)
(* or reindexed them, or an event that follows them.                        *)
(***************************************************************************)
EXTENDS Causality

CONSTANTS Docs,        \* the documents, by message id
          Uuids,       \* the ids of the other events and messages
          Claims,      \* the Lamport values the JSON of a client's message claims
          MaxLamport   \* bound: a clock beyond it takes no further call

None == 0              \* the docId of an event that is no document

ASSUME EventBusAssumption ==
    /\ Nodes \subseteq Nat         \* ties are broken by the sender's id
    /\ Docs \subseteq Nat \ {None} /\ Uuids \subseteq Nat \ {None} \* and by the event's
    /\ Docs \cap Uuids = {}
    /\ Claims \subseteq Nat /\ MaxLamport \in Nat

Ids     == Docs \cup Uuids
Names   == Nodes \X Nat
Event   == [id : Ids, doc : Docs \cup {None}, lamport : Nat, sender : Nodes,
            vclock : VClocks, past : SUBSET Names]
Message == [lamport : Nat, event : Event]

VARIABLES store,      \* per node: the messages it stores, by id
          clock,      \* per node: the Lamport clock, shared by store and bus
          docs,       \* per node: the document index, this._docs
          vclock,     \* per node: this._vclock
          indexed,    \* per node: no document bypassed the index since the last reindex
          published,  \* every event a bus published
          seen,       \* per node: the events its bus has been given, and their pasts
          restarted   \* the nodes whose process has restarted

vars == <<store, clock, docs, vclock, indexed, published, seen, restarted>>

TypeOK ==
    /\ store \in [Nodes -> UNION {[S -> Message] : S \in SUBSET Ids}]
    /\ clock \in [Nodes -> Nat]
    /\ docs \in [Nodes -> UNION {[S -> Event] : S \in SUBSET Docs}]
    /\ vclock \in [Nodes -> VClocks]
    /\ indexed \in [Nodes -> BOOLEAN]
    /\ published \subseteq Event
    /\ seen \in [Nodes -> SUBSET Names]
    /\ restarted \subseteq Nodes

Nothing == [i \in {} |-> 0]

Init ==
    /\ store = [n \in Nodes |-> Nothing] /\ clock = [n \in Nodes |-> 0]
    /\ docs = [n \in Nodes |-> Nothing] /\ vclock = [n \in Nodes |-> Zero]
    /\ indexed = [n \in Nodes |-> TRUE]
    /\ published = {} /\ seen = [n \in Nodes |-> {}] /\ restarted = {}

-----------------------------------------------------------------------------
\* A node's Lamport values are distinct until it restarts.
Name(e) == <<e.sender, e.lamport>>

Stored(n) == {store[n][i].event : i \in DOMAIN store[n]}

Highest(S) == CHOOSE k \in S : \A l \in S : l <= k

Put(f, d, v) == [k \in DOMAIN f \cup {d} |-> IF k = d THEN v ELSE f[k]]

\* LamportClock.compare(e, cur) > 0.
Exceeds(e, cur) == e.lamport > cur.lamport \/ (e.lamport = cur.lamport /\ e.id > cur.id)

\* Seeded bug: the last event handed over replaces, whatever its Lamport value.
UpdatedAlways(index, e) == IF e.doc = None THEN index ELSE Put(index, e.doc, e)

\* _updateDocIndex, for an event with a docId.
Updated(index, e) ==
    IF e.doc = None \/ (e.doc \in DOMAIN index /\ ~Exceeds(e, index[e.doc]))
    THEN index ELSE Put(index, e.doc, e)

\* store.save of an event under the Lamport value l, the clock being at c: the
\* clock moves in any case, a message with a known id is dropped.
SaveAt(n, e, c, l) ==
    /\ clock' = [clock EXCEPT ![n] = Larger(c, l) + 1]
    /\ store' = IF e.id \in DOMAIN store[n] THEN store
                ELSE [store EXCEPT ![n] =
                        Put(@, e.id, [lamport |-> clock'[n], event |-> e])]

\* publish(): the save of a new message may throw after memory and log took it
\* (the snapshot fails); the document then stays out of the index.
Publish(n, i) ==
    LET l == clock[n] + 1
        v == [vclock[n] EXCEPT ![n] = @ + 1]
        p == seen[n] \cup {<<n, l>>}
        e == [id |-> i, doc |-> IF i \in Docs THEN i ELSE None, lamport |-> l,
              sender |-> n, vclock |-> v, past |-> p] IN
    /\ i \in Uuids => \A m \in Nodes : i \notin DOMAIN store[m]
    /\ clock[n] <= MaxLamport
    /\ SaveAt(n, e, l, l)
    /\ vclock' = [vclock EXCEPT ![n] = v]
    /\ seen' = [seen EXCEPT ![n] = p]
    /\ published' = published \cup {e}
    /\ \/ docs' = [docs EXCEPT ![n] = Updated(@, e)] /\ UNCHANGED indexed
       \/ /\ i \notin DOMAIN store[n]
          /\ indexed' = [indexed EXCEPT ![n] = @ /\ e.doc = None] /\ UNCHANGED docs
    /\ UNCHANGED restarted

\* The version in the index wins over an event with its docId.
Wins(cur, e) == Exceeds(cur, e) \/ (~Exceeds(e, cur) /\ cur.sender <= e.sender)

\* Seeded bug: the vector clock takes in only what was accepted.
IngestAccepted(n, e) ==
    LET c == Larger(clock[n], e.lamport) + 1 IN
    /\ e.sender # n /\ c <= MaxLamport + 1
    /\ seen' = [seen EXCEPT ![n] = @ \cup e.past]
    /\ IF e.doc \in DOMAIN docs[n] /\ Wins(docs[n][e.doc], e)
       THEN clock' = [clock EXCEPT ![n] = c] /\ UNCHANGED <<store, docs, vclock>>
       ELSE /\ SaveAt(n, e, c, e.lamport) /\ docs' = [docs EXCEPT ![n] = Updated(@, e)]
            /\ vclock' = [vclock EXCEPT ![n] = update(@, e.vclock)]
    /\ UNCHANGED <<indexed, published, restarted>>

\* ingest() of another node's event: the clocks take it in, then a document is
\* accepted or not, and indexed before it is saved.  Nothing in the node calls it;
\* it is there for embedders.
Ingest(n, e) ==
    LET c == Larger(clock[n], e.lamport) + 1 IN
    /\ e.sender # n /\ c <= MaxLamport + 1
    /\ vclock' = [vclock EXCEPT ![n] = update(@, e.vclock)]
    /\ seen' = [seen EXCEPT ![n] = @ \cup e.past]
    /\ IF e.doc \in DOMAIN docs[n] /\ Wins(docs[n][e.doc], e)
       THEN clock' = [clock EXCEPT ![n] = c] /\ UNCHANGED <<store, docs>>
       ELSE SaveAt(n, e, c, e.lamport) /\ docs' = [docs EXCEPT ![n] = Updated(@, e)]
    /\ UNCHANGED <<indexed, published, restarted>>

\* A message comes in from another node, by an exchange or by gossip: it is saved
\* and the bus does not hear of it.
Receive(m, n, i) ==
    LET copy == store[m][i] IN
    /\ m # n /\ i \in DOMAIN store[m] \ DOMAIN store[n]
    /\ Larger(clock[n], copy.lamport) <= MaxLamport
    /\ SaveAt(n, copy.event, clock[n], copy.lamport)
    /\ indexed' = [indexed EXCEPT ![n] = @ /\ copy.event.doc = None]
    /\ UNCHANGED <<docs, vclock, published, seen, restarted>>

\* POST /api/messages: a client's message, whose content is plain (no docId) or
\* JSON that the bus takes for a version of a document, with the Lamport value it
\* claims and no vector clock.
Post(n, i, d, claim) ==
    LET e == [id |-> i, doc |-> d, lamport |-> claim, sender |-> n,
              vclock |-> Zero, past |-> {}] IN
    /\ \A m \in Nodes : i \notin DOMAIN store[m]
    /\ clock[n] <= MaxLamport
    /\ SaveAt(n, e, clock[n], 0)
    /\ indexed' = [indexed EXCEPT ![n] = @ /\ d = None]
    /\ UNCHANGED <<docs, vclock, published, seen, restarted>>

Newest(events) == CHOOSE e \in events : \A f \in events : ~Exceeds(f, e)

Versions(n, d) == {e \in Stored(n) : e.doc = d}

\* The index entry of a document once all its stored versions are handed over.
Reindexed(n, d) ==
    IF Versions(n, d) = {} THEN docs[n][d] ELSE Updated(docs[n], Newest(Versions(n, d)))[d]

LearnStored(n) ==
    /\ vclock' = [vclock EXCEPT ![n] =
          [m \in Nodes |-> Highest({@[m]} \cup {e.vclock[m] : e \in Stored(n)})]]
    /\ seen' = [seen EXCEPT ![n] = @ \cup UNION {e.past : e \in Stored(n)}]
    /\ indexed' = [indexed EXCEPT ![n] = TRUE]
    /\ UNCHANGED <<store, clock, published, restarted>>

\* Seeded bug: only documents already in the index are looked up.
ReindexKnown(n) ==
    docs' = [docs EXCEPT ![n] = [d \in DOMAIN @ |-> Reindexed(n, d)]] /\ LearnStored(n)

\* reindex(): every stored message whose content is JSON is handed to the index if
\* it has a docId, and to the vector clock if it has one.
Reindex(n) ==
    /\ docs' = [docs EXCEPT ![n] =
          [d \in DOMAIN @ \cup {d \in Docs : Versions(n, d) # {}} |-> Reindexed(n, d)]]
    /\ LearnStored(n)

\* A new process, with what is in the store.
RestartAt(n, c) ==
    /\ docs' = [docs EXCEPT ![n] = Nothing]
    /\ vclock' = [vclock EXCEPT ![n] = Zero]
    /\ seen' = [seen EXCEPT ![n] = {}]
    /\ indexed' = [indexed EXCEPT ![n] = store[n] = Nothing]
    /\ clock' = [clock EXCEPT ![n] = c]
    /\ restarted' = restarted \cup {n}
    /\ UNCHANGED <<store, published>>

\* Seeded bug: the clock is not seeded from the store.
RestartUnseeded(n) == RestartAt(n, 0)

\* The process restarts: the index is gone, and nothing rebuilds it.
Restart(n) ==
    RestartAt(n, IF store[n] = Nothing THEN 0
                 ELSE 1 + Highest({store[n][i].lamport : i \in DOMAIN store[n]}))

\* Reindexing follows the end of an exchange with some peer.
AfterExchange(n) == \E m \in Nodes \ {n} : Reindex(n)

Next ==
    \E n \in Nodes :
        \/ \E i \in Ids : Publish(n, i) \/ \E m \in Nodes : Receive(m, n, i)
        \/ \E e \in published : Ingest(n, e)
        \/ \E i \in Uuids : \/ Post(n, i, None, clock[n] + 1)
                            \/ \E d \in Docs, claim \in Claims : Post(n, i, d, claim)
        \/ AfterExchange(n)
        \/ Restart(n)

Spec == Init /\ [][Next]_vars

-----------------------------------------------------------------------------
(* Properties.                                                              *)

\* No published event a node knows, in its index or in its store, is ahead of its
\* clock, and no message of its store is: what a bus publishes next wins over every
\* published version it knows, across restarts that lose the index and seed the
\* clock from the store.  (Client JSON can claim any value: the next version a bus
\* publishes may then lose to it.)
ClockCovers ==
    \A n \in Nodes :
        /\ \A d \in DOMAIN docs[n] :
              docs[n][d] \in published => docs[n][d].lamport <= clock[n]
        /\ \A i \in DOMAIN store[n] :
              /\ store[n][i].lamport <= clock[n]
              /\ store[n][i].event \in published =>
                    store[n][i].event.lamport < store[n][i].lamport

\* A served document never goes back to an older version while the process runs.
DocsNeverRegress ==
    [][\A n \in Nodes : \A d \in DOMAIN docs[n] \cap DOMAIN docs'[n] :
          docs'[n][d].lamport >= docs[n][d].lamport]_vars

\* Unless a document bypassed the index since the last reindex (a batch, a client's
\* message, a publish whose save threw) or the process restarted, every document in
\* the store is served, in a version at least as new as every stored one.
IndexCoversStore ==
    \A n \in Nodes : indexed[n] => \A e \in Stored(n) :
        e.doc # None => e.doc \in DOMAIN docs[n] /\ ~Exceeds(e, docs[n][e.doc])

\* As long as no process restarts, one published event is before another by its
\* vector clock exactly when the other follows it ("Tracks causal ancestry across
\* multiple writers", docs/OFIL-RFC-001.md:75), although events arrive in any order
\* and with gaps, documents and other events share the clocks, and the versions of
\* a document are stored and exchanged as one message.
CausalityExact ==
    restarted = {} => \A e, f \in published :
        compare(e.vclock, f.vclock) = "before" <=> e # f /\ Name(e) \in f.past

\* The graph of direct parents a node computes from what it happens to store has a
\* path between two entries exactly when the clock of one is before that of the
\* other, and no edge that another path makes superfluous.  (Messages of clients
\* have no vector clock and are before every event.)
GraphIsReduction ==
    \A n \in Nodes :
        LET held  == Stored(n)
            ids   == {e.id : e \in held}
            edges == Edges(held)
        IN  /\ \A e, f \in held : Leads(edges, ids, e.id, f.id) <=> Before(e, f)
            /\ \A g \in edges : ~ Leads(edges \ {g}, ids, g[1], g[2])

\* Two nodes whose buses have been given the same events, with nothing behind their
\* indexes, serve the same versions ("Two nodes A and B that have both received the
\* same set of writes will hold identical state (same messages, same CRDT values,
\* same document versions)", docs/OFIL-RFC-001.md:260-262).
DocsConverge ==
    \A m, n \in Nodes : indexed[m] /\ indexed[n] /\ seen[m] = seen[n] => docs[m] = docs[n]
=============================================================================
