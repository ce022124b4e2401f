------------------------------- MODULE Gossip -------------------------------
(***************************************************************************)
(* Gossip of messages between nodes: the router (src/router.js), the        *)
(* messenger's broadcast (src/messenger.js) and the two HTTP handlers that  *)
(* call them, POST /api/messages and POST /api/messages/receive             *)
(* (src/server.js).                                                         *)
(*                                                                          *)
(* A packet is a message id with its ttl, the nodes it went through, the    *)
(* node it is for, the Lamport value it carries and the one its writer has  *)
(* signed.  Packets travel independently, so they overtake one another, and *)
(* are lost when a request times out or the receiver's rate limiter refuses *)
(* it.                                                                      *)
(***************************************************************************)
EXTENDS Naturals, Sequences, FiniteSets

CONSTANTS Nodes, Ids,
          Peers,        \* per node: the peers its discovery lists
          DEFAULT_TTL   \* the ttl of a new message, 5 in the code

ASSUME GossipAssumption ==
    /\ Peers \in [Nodes -> SUBSET Nodes]
    /\ \A n \in Nodes : n \notin Peers[n]
    /\ DEFAULT_TTL \in Nat \ {0}

VARIABLES held,     \* per node: the ids in its store
          clock,    \* per node: the Lamport clock of its store
          origin,   \* per written id: the node that wrote it
          packets,  \* the requests under way
          lost      \* the ids of packets that were lost

vars == <<held, clock, origin, packets, lost>>

Elements(s) == {s[k] : k \in DOMAIN s}

Packet == [id : Ids, ttl : Nat, hops : Seq(Nodes), to : Nodes,
           lamport : Nat, signed : Nat]

TypeOK ==
    /\ held \in [Nodes -> SUBSET Ids] /\ clock \in [Nodes -> Nat]
    /\ origin \in UNION {[S -> Nodes] : S \in SUBSET Ids}
    /\ packets \subseteq Packet
    /\ lost \subseteq Ids

Init ==
    /\ held = [n \in Nodes |-> {}] /\ clock = [n \in Nodes |-> 0]
    /\ origin = [i \in {} |-> 0]
    /\ packets = {} /\ lost = {}

-----------------------------------------------------------------------------
shouldAccept(n, hops) == n \notin Elements(hops)

\* Seeded bug: a copy is forwarded once too seldom.
shouldForwardEarly(n, ttl, hops) == ttl > 1 /\ shouldAccept(n, hops)

shouldForward(n, ttl, hops) == ttl > 0 /\ shouldAccept(n, hops)

\* Seeded bug: the nodes on the path are not left out.
selectAllPeers(n, hops) == Peers[n]

selectPeers(n, hops) == Peers[n] \ Elements(hops)

\* Identity.verify: of the signed fields only the Lamport value ever differs.
Verified(p) == p.lamport = p.signed

\* broadcast() and prepareForward(): one copy, one hop further, to every peer not
\* yet on the path.
Broadcast(n, m) ==
    {[m EXCEPT !.ttl = @ - 1, !.hops = Append(@, n), !.to = p] :
        p \in selectPeers(n, m.hops)}

\* POST /api/messages: a user writes, the store ticks; stampOrigin gives a full
\* ttl and no hops, and the node signs what it sends.
Write(n, id) ==
    /\ id \notin DOMAIN origin
    /\ clock' = [clock EXCEPT ![n] = @ + 1]
    /\ held' = [held EXCEPT ![n] = @ \cup {id}]
    /\ origin' = [i \in DOMAIN origin \cup {id} |-> IF i = id THEN n ELSE origin[i]]
    /\ packets' = packets \cup
          Broadcast(n, [id |-> id, ttl |-> DEFAULT_TTL, hops |-> <<>>, to |-> n,
                        lamport |-> clock'[n], signed |-> clock'[n]])
    /\ UNCHANGED lost

Later(a, b) == IF a >= b THEN a ELSE b

\* store.save(): the clock moves on even when the id is known.
Save(n, id, lamport) ==
    /\ clock' = [clock EXCEPT ![n] = Later(@, lamport) + 1]
    /\ held' = [held EXCEPT ![n] = @ \cup {id}]

\* What save() returned goes on: the Lamport value is this node's, the signature
\* is the writer's.
Forward(p) ==
    IF shouldForward(p.to, p.ttl, p.hops)
    THEN Broadcast(p.to, [p EXCEPT !.lamport = clock'[p.to]]) ELSE {}

\* Seeded bug: a relay forwards what it does not keep.
ReceiveRelayOnly(p) ==
    /\ clock' = [clock EXCEPT ![p.to] = Later(@, p.lamport) + 1]
    /\ held' = IF shouldForward(p.to, p.ttl, p.hops)
               THEN held ELSE [held EXCEPT ![p.to] = @ \cup {p.id}]
    /\ packets' = (packets \ {p}) \cup Forward(p)
    /\ UNCHANGED <<origin, lost>>

\* Seeded bug: a known message is answered with an error, and sent again.
ReceiveRetried(p) ==
    /\ p.id \notin held[p.to]
    /\ Save(p.to, p.id, p.lamport)
    /\ packets' = (packets \ {p}) \cup Forward(p)
    /\ UNCHANGED <<origin, lost>>

\* POST /api/messages/receive: a looping copy is answered and dropped; any other
\* is saved and forwarded, whether its id is known or not.
Receive(p) ==
    /\ IF shouldAccept(p.to, p.hops) THEN Save(p.to, p.id, p.lamport)
       ELSE UNCHANGED <<held, clock>>
    /\ packets' = (packets \ {p}) \cup Forward(p)
    /\ UNCHANGED <<origin, lost>>

Lose(p) ==
    /\ packets' = packets \ {p} /\ lost' = lost \cup {p.id}
    /\ UNCHANGED <<held, clock, origin>>

Next ==
    \/ \E n \in Nodes, id \in Ids : Write(n, id)
    \/ \E p \in packets : Receive(p) \/ Lose(p)

Spec == Init /\ [][Next]_vars

\* Every request that is not lost is handled.
LiveSpec == Spec /\ WF_vars(\E p \in packets : Receive(p))

-----------------------------------------------------------------------------
(* Properties.                                                              *)

\* A packet walks a simple path of peers that starts at the writer, spends one
\* ttl per hop, and is never for a node it went through.
PathsAreSimple ==
    \A p \in packets :
        /\ p.hops[1] = origin[p.id]
        /\ Cardinality(Elements(p.hops)) = Len(p.hops)
        /\ p.to \notin Elements(p.hops)
        /\ p.to \in Peers[p.hops[Len(p.hops)]]
        /\ p.ttl + Len(p.hops) = DEFAULT_TTL

\* Every node on the path of a packet has stored the message, so that it can
\* still hand it on by anti-entropy when the packet is lost.
HopsHold == \A p \in packets : \A n \in Elements(p.hops) : p.id \in held[n]

\* What a writer signed verifies wherever it arrives ("Receiving nodes verify the
\* signature before accepting a message", docs/OFIL-RFC-001.md:174-176).
AuthenticVerifies == \A p \in packets : Verified(p)

\* The flood dies out, although nothing remembers which ids were forwarded.
FloodEnds == []<>(packets = {})

\* The nodes at most k hops away from n.
Ball(n, k) ==
    LET b[j \in 0..k] ==
          IF j = 0 THEN {n} ELSE b[j - 1] \cup UNION {Peers[m] : m \in b[j - 1]}
    IN  b[k]

\* A message none of whose packets is lost reaches every node within DEFAULT_TTL
\* hops of its writer, in whatever order its packets arrive.
FloodReaches ==
    \A n \in Nodes, id \in Ids :
        (id \in DOMAIN origin /\ origin[id] = n)
            ~> (id \in lost \/ \A m \in Ball(n, DEFAULT_TTL) : id \in held[m])
=============================================================================
