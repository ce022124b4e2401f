---------------------------- MODULE AntiEntropy ----------------------------
(***************************************************************************)
(* Digest-based reconciliation between the nodes of a cell                  *)
(* (src/antientropy.js and its endpoints in src/server.js), on top of what  *)
(* a store does with a message it is handed: keep the first copy of an id,  *)
(* under a Lamport value of its own.                                        *)
(*                                                                          *)
(* One exchange goes Ask -> Answer -> Ingest -> Push; between two of these  *)
(* steps the nodes go on writing, trimming and exchanging, and any request  *)
(* or answer may be lost.  A node handles one request at a time: the loops  *)
(* in reconcile() await only resolved promises.                             *)
(***************************************************************************)
EXTENDS Naturals, Sequences, FiniteSets, SequencesExt

CONSTANTS Nodes, Ids,
          MaxLamport,    \* bound on the clocks
          MaxTrims,      \* bound on the trims
          MaxExchanges   \* bound on the exchanges in progress

ASSUME ExchangeAssumption ==
    MaxLamport \in Nat /\ MaxTrims \in Nat /\ MaxExchanges \in Nat

VARIABLES store,      \* per node: the Lamport value of every id it holds
          clock,      \* per node: the Lamport clock
          exchanges,  \* the exchanges in progress
          cause,      \* <<i, j>>: i was held where and when j was written
          trimmed     \* <<n, i>>: node n has trimmed i, once at most

vars == <<store, clock, exchanges, cause, trimmed>>

Held(n) == DOMAIN store[n]

Copy == [id : Ids, lamport : 1..MaxLamport]

Stores == UNION {[S -> 1..MaxLamport] : S \in SUBSET Ids}

\* The stages of an exchange.
Shape(x) ==
    /\ x.from \in Nodes /\ x.to \in Nodes \ {x.from}
    /\ \/ x.step = "asked" /\ x.ids \subseteq Ids
       \/ x.step = "answered" /\ x.missing \in Seq(Copy) /\ x.peerIds \subseteq Ids
       \/ /\ x.step = "pushing" /\ x.delta \in Seq(Copy)
          /\ x.peerIds \subseteq Ids /\ x.had \subseteq Ids

TypeOK ==
    /\ store \in [Nodes -> Stores]
    /\ clock \in [Nodes -> 0..MaxLamport]
    /\ \A x \in exchanges : Shape(x)
    /\ Cardinality(exchanges) <= MaxExchanges
    /\ cause \subseteq Ids \X Ids /\ trimmed \subseteq Nodes \X Ids

Init ==
    /\ store = [n \in Nodes |-> [i \in {} |-> 0]]
    /\ clock = [n \in Nodes |-> 0]
    /\ exchanges = {} /\ cause = {} /\ trimmed = {}

-----------------------------------------------------------------------------
(* What a store does with a batch.                                          *)

Later(a, b) == IF a >= b THEN a ELSE b

\* Seeded bug: the clock is merged but not advanced.
ClocksStill(c, q) ==
    LET f[k \in 0..Len(q)] == IF k = 0 THEN c ELSE Later(f[k - 1], q[k].lamport)
    IN  f

\* The clock after each save of the batch q: every save advances it, the
\* duplicates too.
Clocks(c, q) ==
    LET f[k \in 0..Len(q)] == IF k = 0 THEN c ELSE Later(f[k - 1], q[k].lamport) + 1
    IN  f

\* The store after the batch: an id it has not is added under the new clock.
Saved(s, c, q) ==
    LET at(i) == CHOOSE k \in 1..Len(q) : q[k].id = i
    IN  [i \in DOMAIN s \cup {q[k].id : k \in 1..Len(q)} |->
            IF i \in DOMAIN s THEN s[i] ELSE Clocks(c, q)[at(i)]]

Reconcile(n, q) ==
    /\ Clocks(clock[n], q)[Len(q)] <= MaxLamport
    /\ store' = [store EXCEPT ![n] = Saved(@, clock[n], q)]
    /\ clock' = [clock EXCEPT ![n] = Clocks(@, q)[Len(q)]]

\* getAll() returns the newest first.
NewestFirst(copies) ==
    CHOOSE q \in SetToSeqs(copies) :
        \A j, k \in DOMAIN q : j < k => q[j].lamport >= q[k].lamport

\* Seeded bug: only the newest message that is missing is handed over.
MissingNewest(s, known) ==
    LET q == NewestFirst({[id |-> i, lamport |-> s[i]] : i \in DOMAIN s \ known})
    IN  IF q = <<>> THEN q ELSE <<q[1]>>

\* missing(): what s holds beyond the known ids.
Missing(s, known) == NewestFirst({[id |-> i, lamport |-> s[i]] : i \in DOMAIN s \ known})

-----------------------------------------------------------------------------
(* The nodes.                                                               *)

Write(n, id) ==
    /\ \A m \in Nodes : id \notin Held(m)
    /\ \A p \in cause : p[2] # id
    /\ clock[n] < MaxLamport
    /\ clock' = [clock EXCEPT ![n] = @ + 1]
    /\ store' = [store EXCEPT ![n] =
          [i \in DOMAIN @ \cup {id} |-> IF i = id THEN clock'[n] ELSE @[i]]]
    /\ cause' = cause \cup (Held(n) \X {id}) \cup {<<id, id>>}
    /\ UNCHANGED <<exchanges, trimmed>>

Trim(n, id) ==
    /\ id \in Held(n)
    /\ <<n, id>> \notin trimmed /\ Cardinality(trimmed) < MaxTrims
    /\ trimmed' = trimmed \cup {<<n, id>>}
    /\ store' = [store EXCEPT ![n] = [i \in DOMAIN @ \ {id} |-> @[i]]]
    /\ UNCHANGED <<clock, exchanges, cause>>

Becomes(x, y) == exchanges' = (exchanges \ {x}) \cup {y}

\* Round 1: the digest is taken when the exchange starts.
Ask(a, b) ==
    /\ a # b /\ Cardinality(exchanges) < MaxExchanges
    /\ exchanges' = exchanges \cup
          {[from |-> a, to |-> b, step |-> "asked", ids |-> Held(a)]}
    /\ UNCHANGED <<store, clock, cause, trimmed>>

\* POST /api/reconcile at the peer.
Answer(x) ==
    /\ x.step = "asked"
    /\ Becomes(x, [from |-> x.from, to |-> x.to, step |-> "answered",
                   missing |-> Missing(store[x.to], x.ids), peerIds |-> Held(x.to)])
    /\ UNCHANGED <<store, clock, cause, trimmed>>

\* The answer arrives: ingest it, then compute the delta for the peer from what
\* is held now.
Ingest(x) ==
    /\ x.step = "answered"
    /\ Reconcile(x.from, x.missing)
    /\ LET delta == Missing(store'[x.from], x.peerIds) IN
       IF delta = <<>> THEN exchanges' = exchanges \ {x}
       ELSE Becomes(x, [from |-> x.from, to |-> x.to, step |-> "pushing",
                        delta |-> delta, peerIds |-> x.peerIds,
                        had |-> DOMAIN store'[x.from]])
    /\ UNCHANGED <<cause, trimmed>>

\* POST /api/push at the peer.
Push(x) ==
    /\ x.step = "pushing"
    /\ Reconcile(x.to, x.delta)
    /\ exchanges' = exchanges \ {x}
    /\ UNCHANGED <<cause, trimmed>>

\* A request or an answer is lost or times out: the exchange is given up.
Lose(x) ==
    /\ exchanges' = exchanges \ {x}
    /\ UNCHANGED <<store, clock, cause, trimmed>>

Next ==
    \/ \E n \in Nodes, id \in Ids : Write(n, id) \/ Trim(n, id)
    \/ \E a, b \in Nodes : Ask(a, b)
    \/ \E x \in exchanges : Answer(x) \/ Ingest(x) \/ Push(x) \/ Lose(x)

Spec == Init /\ [][Next]_vars

-----------------------------------------------------------------------------
(* Properties.                                                              *)

\* On one node no two messages share a Lamport value and none is ahead of the
\* clock, whatever batches were ingested: the node's own order is total.
LamportOrder ==
    \A n \in Nodes :
        /\ \A i \in Held(n) : store[n][i] <= clock[n]
        /\ \A i, j \in Held(n) : store[n][i] = store[n][j] => i = j

TrimmedAt(n) == {id \in Ids : <<n, id>> \in trimmed}

\* An exchange that reaches its last message unites the two nodes but for what
\* they trimmed, whatever was written or exchanged on the way: the initiator has
\* all the peer had when it answered, and the push carries all the initiator had
\* that the peer still lacks.
DeltaSuffices ==
    \A x \in exchanges : x.step = "pushing" =>
        /\ x.peerIds \subseteq Held(x.from) \cup TrimmedAt(x.from)
        /\ x.had \subseteq Held(x.to) \cup TrimmedAt(x.to) \cup
                {x.delta[k].id : k \in 1..Len(x.delta)}

\* A message written where another was already held comes after it on every
\* node ("Use this for causal ordering", docs/OFIL-RFC-001.md:138).
CausalOrder ==
    \A n \in Nodes : \A p \in cause :
        p[1] # p[2] /\ p[1] \in Held(n) /\ p[2] \in Held(n)
            => store[n][p[1]] < store[n][p[2]]
=============================================================================
