----------------------------- MODULE Discovery -----------------------------
(***************************************************************************)
(* UDP peer discovery of one node in discrete time (src/discovery.js).      *)
(* Every neighbour broadcasts a HELLO at once when it starts and then every *)
(* Interval; the node lists whom it hears and drops, every half Ttl, whom   *)
(* it has not heard for more than Ttl.  Datagrams get lost or are late by   *)
(* up to MaxDelay.  Timers fire in the tick in which they are due, in any   *)
(* order with the datagrams of that tick.                                   *)
(*                                                                          *)
(* A neighbour is a nodeId: a process without NODE_ID that starts again has *)
(* another one (src/index.js:34).  The node ignores its own broadcasts.     *)
(***************************************************************************)
EXTENDS Naturals

CONSTANTS Neighbours,  \* the nodeIds of other processes
          Interval,    \* broadcastInterval, in ticks
          Ttl,         \* ttl, in ticks
          MaxDelay,    \* how long a datagram travels at most
          Off          \* no process, no datagram

ASSUME TimingAssumption ==
    /\ MaxDelay \in Nat /\ Interval \in Nat /\ MaxDelay < Interval
    /\ Ttl \in Nat \ {0} /\ Ttl % 2 = 0
    /\ Off \notin Nat

VARIABLES phase,   \* per neighbour: ticks since its last broadcast, or Off
          flight,  \* per neighbour: ticks its datagram has travelled, or Off
          age,     \* this._peers: per listed peer, the ticks since lastSeen
          pruned,  \* ticks since the prune timer fired
          lost     \* per neighbour: datagrams lost in a row, Many if it was off

discoveryVars == <<phase, flight, age, pruned, lost>>

Running == {n \in Neighbours : phase[n] # Off}
Listed  == DOMAIN age

\* Seeded bug: the timer has the period of the ttl.
PrunePeriodWhole == Ttl

PrunePeriod == Ttl \div 2

\* So many datagrams lost in a row leave a gap longer than Ttl.
Many == Ttl \div Interval

DiscoveryTypeOK ==
    /\ phase \in [Neighbours -> 0..Interval \cup {Off}]
    /\ flight \in [Neighbours -> 0..MaxDelay \cup {Off}]
    /\ Listed \subseteq Neighbours /\ age \in [Listed -> Nat]
    /\ pruned \in 0..PrunePeriod
    /\ lost \in [Neighbours -> 0..Many]

DiscoveryInit ==
    /\ phase = [n \in Neighbours |-> Off] /\ flight = [n \in Neighbours |-> Off]
    /\ age = [n \in {} |-> 0] /\ pruned = 0
    /\ lost = [n \in Neighbours |-> Many]

-----------------------------------------------------------------------------
(* The neighbours.                                                          *)

\* _broadcast, at the start and from the interval timer.
Broadcast(n) ==
    /\ phase[n] \in {Off, Interval} /\ flight[n] = Off
    /\ phase' = [phase EXCEPT ![n] = 0] /\ flight' = [flight EXCEPT ![n] = 0]
    /\ UNCHANGED <<age, pruned, lost>>

Vanish(n) ==
    /\ phase[n] # Off
    /\ phase' = [phase EXCEPT ![n] = Off] /\ lost' = [lost EXCEPT ![n] = Many]
    /\ UNCHANGED <<flight, age, pruned>>

\* The network loses a datagram.
Drop(n) ==
    /\ flight[n] # Off
    /\ flight' = [flight EXCEPT ![n] = Off]
    /\ lost' = [lost EXCEPT ![n] = IF @ < Many THEN @ + 1 ELSE @]
    /\ UNCHANGED <<phase, age, pruned>>

-----------------------------------------------------------------------------
(* The node.                                                                *)

\* _onMessage: the entry of the sender is made or replaced.
Hear(n) ==
    /\ flight[n] # Off
    /\ flight' = [flight EXCEPT ![n] = Off]
    /\ age' = [p \in Listed \cup {n} |-> IF p = n THEN 0 ELSE age[p]]
    /\ lost' = [lost EXCEPT ![n] = IF phase[n] = Off THEN Many ELSE 0]
    /\ UNCHANGED <<phase, pruned>>

\* Seeded bug: a peer goes in the moment its ttl is over.
ExpiredEarly == {n \in Listed : age[n] >= Ttl}

Expired == {n \in Listed : age[n] > Ttl}

\* The callback of the prune timer.
Prune ==
    /\ pruned = PrunePeriod /\ pruned' = 0
    /\ age' = [n \in Listed \ Expired |-> age[n]]
    /\ UNCHANGED <<phase, flight, lost>>

Tick ==
    /\ pruned < PrunePeriod
    /\ \A n \in Neighbours : phase[n] # Interval /\ flight[n] # MaxDelay
    /\ phase' = [n \in Neighbours |-> IF phase[n] = Off THEN Off ELSE phase[n] + 1]
    /\ flight' = [n \in Neighbours |-> IF flight[n] = Off THEN Off ELSE flight[n] + 1]
    /\ age' = [n \in Listed |-> age[n] + 1]
    /\ pruned' = pruned + 1
    /\ UNCHANGED lost

DiscoveryStep ==
    \/ \E n \in Neighbours : Broadcast(n) \/ Vanish(n) \/ Drop(n) \/ Hear(n)
    \/ Prune \/ Tick

-----------------------------------------------------------------------------
(* Properties.                                                              *)

\* A running neighbour is dropped only when so many datagrams in a row were lost
\* that, had the last one heard been sent at once and the next one be as late as
\* can be, the ttl would have run out: lateness alone costs nobody his entry.
LateIsNotLost ==
    [][\A n \in Listed \ DOMAIN age' :
          (lost[n] + 1) * Interval + MaxDelay > Ttl]_discoveryVars

\* A listed peer was heard within the last ttl and a half (_schedulePrune), so that
\* one that left is believed in no longer.  That is the code's own bound: with its
\* ttl of 20 s and a prune timer of ttl / 2 it is 30 s, twice the 15 s of
\* docs/OFIL-RFC-001.md:201-202 and CHANGELOG.md:38, which the code does not keep.
GhostsLeave == \A n \in Listed : 2 * age[n] <= 3 * Ttl
=============================================================================
