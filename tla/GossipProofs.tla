---------------------------- MODULE GossipProofs ----------------------------
(***************************************************************************)
(* Proofs about Gossip for any network of peers, any ttl and any number of  *)
(* messages: packets walk simple paths of nodes that hold the message.      *)
(***************************************************************************)
EXTENDS Gossip, FiniteSetTheorems, TLAPS

Typed ==
    /\ held \in [Nodes -> SUBSET Ids] /\ clock \in [Nodes -> Nat]
    /\ DOMAIN origin \subseteq Ids /\ origin \in [DOMAIN origin -> Nodes]
    /\ packets \subseteq Packet
    /\ lost \subseteq Ids

\* The path h is simple; finiteness is what makes its nodes countable.
Simple(h) == IsFiniteSet(Elements(h)) /\ Cardinality(Elements(h)) = Len(h)

\* What holds of one packet.
Walks(p) ==
    /\ p.id \in DOMAIN origin
    /\ Len(p.hops) > 0 /\ p.hops[1] = origin[p.id]
    /\ Simple(p.hops)
    /\ p.to \notin Elements(p.hops) /\ p.to \in Peers[p.hops[Len(p.hops)]]
    /\ p.ttl + Len(p.hops) = DEFAULT_TTL
    /\ \A n \in Elements(p.hops) : p.id \in held[n]

IInv == Typed /\ \A p \in packets : Walks(p)

-----------------------------------------------------------------------------
(* Paths.                                                                   *)

LEMMA Appended ==
    ASSUME NEW h \in Seq(Nodes), NEW n \in Nodes \ Elements(h), Simple(h)
    PROVE  LET g == Append(h, n) IN
           /\ g \in Seq(Nodes) /\ Len(g) = Len(h) + 1
           /\ g[Len(g)] = n
           /\ Len(h) > 0 => g[1] = h[1]
           /\ Elements(g) = Elements(h) \cup {n}
           /\ Simple(g)
<1>. DEFINE g == Append(h, n)
<1>1. g \in Seq(Nodes) /\ Len(g) = Len(h) + 1 /\ g[Len(g)] = n
  OBVIOUS
<1>2. Len(h) > 0 => g[1] = h[1]
  OBVIOUS
<1>3. Elements(g) = Elements(h) \cup {n}
  <2>1. DOMAIN g = DOMAIN h \cup {Len(h) + 1}
    OBVIOUS
  <2>2. \A k \in DOMAIN h : g[k] = h[k]
    OBVIOUS
  <2>. QED BY <1>1, <2>1, <2>2 DEF Elements
<1>4. Simple(g)
  BY <1>1, <1>3, FS_AddElement DEF Simple
<1>. QED BY <1>1, <1>2, <1>3, <1>4

LEMMA EmptyPath == <<>> \in Seq(Nodes) /\ Elements(<<>>) = {} /\ Simple(<<>>)
<1>1. Elements(<<>>) = {}
  BY DEF Elements
<1>. QED BY <1>1, FS_EmptySet DEF Simple

\* A broadcast makes one hop more, for peers that are not on the path.
LEMMA BroadcastHops ==
    ASSUME NEW n \in Nodes,
           NEW m \in [id : Ids, ttl : Nat \ {0}, hops : Seq(Nodes), to : Nodes,
                      lamport : Nat, signed : Nat],
           n \notin Elements(m.hops), Simple(m.hops),
           NEW q \in Broadcast(n, m)
    PROVE  /\ q \in Packet
           /\ q.id = m.id /\ q.ttl = m.ttl - 1 /\ q.hops = Append(m.hops, n)
           /\ q.lamport = m.lamport /\ q.signed = m.signed
           /\ q.to \in Peers[n] /\ q.to \notin Elements(q.hops)
<1>1. PICK p \in selectPeers(n, m.hops) :
        q = [m EXCEPT !.ttl = @ - 1, !.hops = Append(@, n), !.to = p]
  BY DEF Broadcast
<1>2. p \in Peers[n] /\ p \in Nodes /\ p # n /\ p \notin Elements(m.hops)
  BY <1>1, GossipAssumption DEF selectPeers
<1>3. /\ q.id = m.id /\ q.ttl = m.ttl - 1 /\ q.hops = Append(m.hops, n)
      /\ q.lamport = m.lamport /\ q.signed = m.signed /\ q.to = p
  BY <1>1
<1>4. q \in Packet
  <2>1. m.ttl - 1 \in Nat /\ Append(m.hops, n) \in Seq(Nodes)
    OBVIOUS
  <2>. QED BY <1>1, <1>2, <2>1 DEF Packet
<1>5. q.to \notin Elements(q.hops)
  BY <1>2, <1>3, Appended
<1>. QED BY <1>2, <1>3, <1>4, <1>5

-----------------------------------------------------------------------------
(* Steps.                                                                   *)

LEMMA InitInv == Init => IInv
BY DEF Init, IInv, Typed

\* What is under way stays right while nodes store more and more is written.
LEMMA UnderWay ==
    ASSUME IInv, NEW p \in packets,
           \A n \in Nodes : held[n] \subseteq held'[n],
           DOMAIN origin \subseteq DOMAIN origin',
           \A i \in DOMAIN origin : origin'[i] = origin[i]
    PROVE  Walks(p)'
<1>1. p \in Packet /\ Walks(p)
  BY DEF IInv, Typed
<1>2. Elements(p.hops) \subseteq Nodes
  BY <1>1 DEF Packet, Elements
<1>. QED BY <1>1, <1>2 DEF Walks

LEMMA WriteInv ==
    ASSUME IInv, NEW n \in Nodes, NEW id \in Ids, Write(n, id)
    PROVE  IInv'
<1>. DEFINE m == [id |-> id, ttl |-> DEFAULT_TTL, hops |-> <<>>, to |-> n,
                  lamport |-> clock'[n], signed |-> clock'[n]]
<1>1. clock' \in [Nodes -> Nat] /\ held' \in [Nodes -> SUBSET Ids]
  BY DEF Write, IInv, Typed
<1>2. /\ DOMAIN origin' = DOMAIN origin \cup {id} /\ origin'[id] = n
      /\ \A i \in DOMAIN origin : origin'[i] = origin[i]
      /\ origin' \in [DOMAIN origin' -> Nodes]
  BY DEF Write, IInv, Typed
<1>3. \A k \in Nodes : held[k] \subseteq held'[k]
  BY DEF Write, IInv, Typed
<1>4. id \in held'[n]
  BY DEF Write, IInv, Typed
<1>5. ASSUME NEW q \in Broadcast(n, m) PROVE q \in Packet /\ Walks(q)'
  <2>1. m \in [id : Ids, ttl : Nat \ {0}, hops : Seq(Nodes), to : Nodes,
               lamport : Nat, signed : Nat]
    BY <1>1, EmptyPath, GossipAssumption
  <2>a. m.id = id /\ m.ttl = DEFAULT_TTL /\ m.hops = <<>> /\ m.lamport = m.signed
    OBVIOUS
  <2>b. n \notin Elements(m.hops) /\ Simple(m.hops)
    BY <2>a, EmptyPath
  <2>2. /\ q \in Packet /\ q.id = id /\ q.ttl = DEFAULT_TTL - 1
        /\ q.hops = Append(<<>>, n) /\ q.lamport = q.signed
        /\ q.to \in Peers[n] /\ q.to \notin Elements(q.hops)
    <3>. HIDE DEF m
    <3>. QED BY <1>5, <2>1, <2>a, <2>b, BroadcastHops
  <2>3. /\ Len(q.hops) = 1 /\ q.hops[1] = n /\ Elements(q.hops) = {n} /\ Simple(q.hops)
    <3>1. n \in Nodes \ Elements(<<>>)
      BY EmptyPath
    <3>2. LET g == Append(<<>>, n) IN
          Len(g) = Len(<<>>) + 1 /\ g[Len(g)] = n /\ Elements(g) = Elements(<<>>) \cup {n}
          /\ Simple(g)
      BY <3>1, EmptyPath, Appended
    <3>. QED BY <2>2, <3>2, EmptyPath
  <2>. QED BY <1>2, <1>4, <2>2, <2>3, GossipAssumption DEF Walks
<1>6. packets' = packets \cup Broadcast(n, m)
  BY DEF Write
<1>7. \A p \in packets : Walks(p)'
  BY <1>2, <1>3, UnderWay
<1>. QED BY <1>1, <1>2, <1>5, <1>6, <1>7 DEF IInv, Typed, Write

LEMMA ReceiveInv == ASSUME IInv, NEW p \in packets, Receive(p) PROVE IInv'
<1>1. p \in Packet /\ Walks(p) /\ p.to \in Nodes /\ p.lamport \in Nat
  BY DEF IInv, Typed, Packet
<1>2. shouldAccept(p.to, p.hops)
  BY <1>1 DEF Walks, shouldAccept
<1>3. /\ clock' = [clock EXCEPT ![p.to] = Later(@, p.lamport) + 1]
      /\ held' = [held EXCEPT ![p.to] = @ \cup {p.id}]
      /\ UNCHANGED <<origin, lost>>
  BY <1>2 DEF Receive, Save
<1>4. /\ clock' \in [Nodes -> Nat] /\ clock'[p.to] > p.lamport
      /\ held' \in [Nodes -> SUBSET Ids] /\ p.id \in held'[p.to]
      /\ \A n \in Nodes : held[n] \subseteq held'[n]
  BY <1>1, <1>3 DEF IInv, Typed, Later, Packet
<1>5. ASSUME NEW q \in Forward(p) PROVE q \in Packet /\ Walks(q)'
  <2>. DEFINE m == [p EXCEPT !.lamport = clock'[p.to]]
  <2>1. q \in Broadcast(p.to, m) /\ p.ttl > 0
    BY <1>5 DEF Forward, shouldForward
  <2>2. /\ m \in [id : Ids, ttl : Nat \ {0}, hops : Seq(Nodes), to : Nodes,
                  lamport : Nat, signed : Nat]
        /\ m.id = p.id /\ m.ttl = p.ttl /\ m.hops = p.hops /\ m.signed = p.signed
        /\ m.lamport = clock'[p.to]
    <3>1. p.ttl \in Nat \ {0} /\ clock'[p.to] \in Nat
      BY <1>1, <1>4, <2>1 DEF Packet
    <3>. QED BY <1>1, <3>1 DEF Packet
  <2>3. p.to \notin Elements(p.hops) /\ Simple(p.hops)
    BY <1>1 DEF Walks
  <2>4. /\ q \in Packet /\ q.id = p.id /\ q.ttl = p.ttl - 1
        /\ q.hops = Append(p.hops, p.to) /\ q.lamport = clock'[p.to]
        /\ q.signed = p.signed /\ q.to \in Peers[p.to] /\ q.to \notin Elements(q.hops)
    BY <1>1, <2>1, <2>2, <2>3, BroadcastHops
  <2>5. /\ Len(q.hops) = Len(p.hops) + 1 /\ q.hops[Len(q.hops)] = p.to
        /\ Len(p.hops) > 0 => q.hops[1] = p.hops[1]
        /\ Elements(q.hops) = Elements(p.hops) \cup {p.to} /\ Simple(q.hops)
    BY <1>1, <2>3, <2>4, Appended DEF Packet
  <2>6. Elements(p.hops) \subseteq Nodes
    BY <1>1 DEF Packet, Elements
  <2>7. Walks(q)'
    <3>1. /\ q.id \in DOMAIN origin' /\ Len(q.hops) > 0 /\ q.hops[1] = origin'[q.id]
          /\ q.to \in Peers[q.hops[Len(q.hops)]]
      BY <1>1, <1>3, <2>4, <2>5 DEF Walks, Packet
    <3>2. q.ttl + Len(q.hops) = DEFAULT_TTL
      BY <1>1, <2>4, <2>5, GossipAssumption DEF Walks, Packet
    <3>3. \A n \in Elements(q.hops) : q.id \in held'[n]
      BY <1>1, <1>4, <2>4, <2>5, <2>6 DEF Walks
    <3>. QED BY <2>4, <2>5, <3>1, <3>2, <3>3 DEF Walks
  <2>. QED BY <2>4, <2>7
<1>6. packets' = (packets \ {p}) \cup Forward(p)
  BY DEF Receive
<1>7. \A r \in packets : Walks(r)'
  BY <1>3, <1>4, UnderWay
<1>8. packets' \subseteq Packet
  BY <1>5, <1>6 DEF IInv, Typed
<1>. QED BY <1>3, <1>4, <1>5, <1>6, <1>7, <1>8 DEF IInv, Typed

LEMMA LoseInv == ASSUME IInv, NEW p \in packets, Lose(p) PROVE IInv'
<1>1. p.id \in Ids
  BY DEF IInv, Typed, Packet
<1>2. \A r \in packets : Walks(r)'
  BY UnderWay DEF Lose
<1>. QED BY <1>1, <1>2 DEF Lose, IInv, Typed

LEMMA NextInv == ASSUME IInv, [Next]_vars PROVE IInv'
<1>1. CASE UNCHANGED vars
  BY <1>1 DEF vars, IInv, Typed, Walks
<1>. QED BY <1>1, WriteInv, ReceiveInv, LoseInv DEF Next

-----------------------------------------------------------------------------
(* The theorems.                                                            *)

LEMMA Invariance == Spec => []IInv
<1>. QED BY InitInv, NextInv, PTL DEF Spec

\* The type invariant; a ttl never gets below zero.
THEOREM GossipTyped == Spec => []TypeOK
<1>1. IInv => TypeOK
  BY DEF IInv, Typed, TypeOK
<1>. QED BY <1>1, Invariance, PTL

\* No packet passes a node twice, in whatever order copies arrive, and the ttl
\* counts the hops that are left.
THEOREM SimplePaths == Spec => []PathsAreSimple
<1>1. IInv => PathsAreSimple
  BY DEF IInv, Walks, Simple, PathsAreSimple
<1>. QED BY <1>1, Invariance, PTL

\* Every node on the path of a packet holds the message.
THEOREM PathsHold == Spec => []HopsHold
<1>1. IInv => HopsHold
  BY DEF IInv, Walks, HopsHold
<1>. QED BY <1>1, Invariance, PTL
=============================================================================
