--------------------------- MODULE HealingProofs ---------------------------
(***************************************************************************)
(* Proofs about Discovery and Healing for any neighbours, links, checks and *)
(* times: who is late keeps his entry, who left loses it in time, and the   *)
(* monitor over discovery's list is right when nothing changes under it.  *)
(***************************************************************************)
EXTENDS Healing, WellFoundedInduction, TLAPS

\* A datagram in the air is as old as the last broadcast of its sender, unless
\* that has stopped since.
InStep == \A n \in Neighbours : phase[n] # Off /\ flight[n] # Off => flight[n] = phase[n]

\* Of a neighbour that is off so many datagrams are missing that it may go.
Gone == \A n \in Neighbours : phase[n] = Off => lost[n] = Many

\* How long a listed neighbour may not have been heard, from the datagrams lost.
Gap == \A n \in Listed : lost[n] < Many =>
           age[n] <= (IF flight[n] = Off THEN lost[n] ELSE lost[n] + 1) * Interval + phase[n]

Aged == \A n \in Listed : age[n] <= Ttl + pruned

DInv == DiscoveryTypeOK /\ InStep /\ Gone /\ Gap /\ Aged

LEMMA Times ==
    /\ Interval \in Nat \ {0} /\ MaxDelay \in Nat /\ MaxDelay < Interval
    /\ Ttl \in Nat /\ PrunePeriod \in Nat /\ Off \notin Nat
BY TimingAssumption DEF PrunePeriod

LEMMA Quotient ==
    ASSUME NEW a \in Nat, NEW b \in Nat, b > 0
    PROVE  a \div b \in Nat /\ ((a \div b) + 1) * b > a
<1>1. a \div b \in Nat
  OBVIOUS
<1>2. ((a \div b) + 1) * b > a
  BY SMTT(60)
<1>. QED BY <1>1, <1>2

\* Many lost datagrams in a row are more than the ttl.
LEMMA ManyIsMuch == Many \in Nat /\ (Many + 1) * Interval > Ttl
BY Times, Quotient DEF Many

\* What the type invariant says of one neighbour.
LEMMA One ==
    ASSUME DiscoveryTypeOK, NEW n \in Neighbours
    PROVE  /\ phase[n] = Off \/ phase[n] \in 0..Interval
           /\ phase[n] # Off => phase[n] \in Nat
           /\ flight[n] = Off \/ flight[n] \in 0..MaxDelay
           /\ flight[n] # Off => flight[n] \in Nat
           /\ lost[n] \in 0..Many /\ lost[n] \in Nat
           /\ n \in Listed => age[n] \in Nat
BY Times, ManyIsMuch DEF DiscoveryTypeOK

LEMMA Initially ==
    ASSUME DiscoveryInit PROVE DInv
<1>1. DOMAIN age = {} /\ age \in [{} -> Nat]
  BY DEF DiscoveryInit
<1>. QED BY <1>1, Times, ManyIsMuch
     DEF DiscoveryInit, DInv, DiscoveryTypeOK, InStep, Gone, Gap, Aged, Listed

LEMMA BroadcastKeeps ==
    ASSUME DInv, NEW n \in Neighbours, Broadcast(n) PROVE DInv'
<1>. USE Times, ManyIsMuch
<1>1. /\ phase[n] = Off \/ phase[n] = Interval
      /\ flight[n] = Off
      /\ phase' = [phase EXCEPT ![n] = 0] /\ flight' = [flight EXCEPT ![n] = 0]
      /\ UNCHANGED <<age, pruned, lost>> /\ Listed' = Listed
  BY DEF Broadcast, Listed
<1>2. DiscoveryTypeOK /\ InStep /\ Gone /\ Gap /\ Aged
  BY DEF DInv
<1>3. /\ phase'[n] = 0 /\ flight'[n] = 0
      /\ \A m \in Neighbours \ {n} : phase'[m] = phase[m] /\ flight'[m] = flight[m]
  BY <1>1, <1>2 DEF DiscoveryTypeOK
<1>4. DiscoveryTypeOK'
  BY <1>1, <1>2 DEF DiscoveryTypeOK
<1>5. InStep' /\ Gone' /\ Aged'
  BY <1>1, <1>2, <1>3 DEF InStep, Gone, Aged
<1>6. ASSUME NEW m \in Listed, lost[m] < Many
      PROVE  age[m] <= (IF flight'[m] = Off THEN lost[m] ELSE lost[m] + 1) * Interval + phase'[m]
  <2>1. m \in Neighbours /\ age[m] \in Nat /\ lost[m] \in Nat
    BY <1>2, <1>6, One DEF DiscoveryTypeOK
  <2>2. CASE m = n
    <3>1. phase[n] = Interval
      BY <1>1, <1>2, <1>6, <2>1, <2>2 DEF Gone
    <3>2. age[n] <= lost[n] * Interval + Interval
      BY <1>1, <1>2, <1>6, <2>2, <3>1 DEF Gap
    <3>3. (lost[n] + 1) * Interval + 0 = lost[n] * Interval + Interval
      BY <2>1, <2>2
    <3>. QED BY <1>3, <2>2, <3>2, <3>3
  <2>3. CASE m # n
    BY <1>2, <1>3, <1>6, <2>1, <2>3 DEF Gap
  <2>. QED BY <2>2, <2>3
<1>7. Gap'
  BY <1>1, <1>6 DEF Gap
<1>. QED BY <1>4, <1>5, <1>7 DEF DInv

LEMMA VanishKeeps ==
    ASSUME DInv, NEW n \in Neighbours, Vanish(n) PROVE DInv'
<1>. USE Times, ManyIsMuch
<1>1. /\ phase' = [phase EXCEPT ![n] = Off] /\ lost' = [lost EXCEPT ![n] = Many]
      /\ UNCHANGED <<flight, age, pruned>> /\ Listed' = Listed
  BY DEF Vanish, Listed
<1>2. DiscoveryTypeOK /\ InStep /\ Gone /\ Gap /\ Aged
  BY DEF DInv
<1>3. /\ phase'[n] = Off /\ lost'[n] = Many
      /\ \A m \in Neighbours \ {n} : phase'[m] = phase[m] /\ lost'[m] = lost[m]
  BY <1>1, <1>2 DEF DiscoveryTypeOK
<1>4. DiscoveryTypeOK'
  BY <1>1, <1>2 DEF DiscoveryTypeOK
<1>5. InStep' /\ Gone' /\ Aged'
  BY <1>1, <1>2, <1>3 DEF InStep, Gone, Aged
<1>6. Gap'
  BY <1>1, <1>2, <1>3 DEF Gap, DiscoveryTypeOK
<1>. QED BY <1>4, <1>5, <1>6 DEF DInv

LEMMA DropKeeps ==
    ASSUME DInv, NEW n \in Neighbours, Drop(n) PROVE DInv'
<1>. USE Times, ManyIsMuch
<1>1. /\ flight[n] # Off /\ flight' = [flight EXCEPT ![n] = Off]
      /\ lost' = [lost EXCEPT ![n] = IF lost[n] < Many THEN lost[n] + 1 ELSE lost[n]]
      /\ UNCHANGED <<phase, age, pruned>> /\ Listed' = Listed
  BY DEF Drop, Listed
<1>2. DiscoveryTypeOK /\ InStep /\ Gone /\ Gap /\ Aged /\ lost[n] \in 0..Many
  BY One DEF DInv
<1>3. /\ flight'[n] = Off /\ lost'[n] = IF lost[n] < Many THEN lost[n] + 1 ELSE lost[n]
      /\ \A m \in Neighbours \ {n} : flight'[m] = flight[m] /\ lost'[m] = lost[m]
  BY <1>1, <1>2 DEF DiscoveryTypeOK
<1>4. DiscoveryTypeOK'
  <2>1. lost'[n] \in 0..Many
    BY <1>2, <1>3
  <2>2. lost' \in [Neighbours -> 0..Many]
    BY <1>1, <1>2, <1>3, <2>1 DEF DiscoveryTypeOK
  <2>. QED BY <1>1, <1>2, <2>2 DEF DiscoveryTypeOK
<1>5. InStep' /\ Aged'
  BY <1>1, <1>2, <1>3 DEF InStep, Aged
<1>6. Gone'
  BY <1>1, <1>2, <1>3 DEF Gone
<1>7. ASSUME NEW m \in Listed, lost'[m] < Many
      PROVE  age[m] <= (IF flight'[m] = Off THEN lost'[m] ELSE lost'[m] + 1) * Interval + phase[m]
  <2>1. m \in Neighbours
    BY <1>2 DEF DiscoveryTypeOK
  <2>2. CASE m = n
    <3>1. lost[n] < Many /\ lost'[n] = lost[n] + 1
      BY <1>2, <1>3, <1>7, <2>2
    <3>. QED BY <1>1, <1>2, <1>3, <2>2, <3>1 DEF Gap
  <2>3. CASE m # n
    BY <1>2, <1>3, <1>7, <2>1, <2>3 DEF Gap
  <2>. QED BY <2>2, <2>3
<1>8. Gap'
  BY <1>1, <1>7 DEF Gap
<1>. QED BY <1>4, <1>5, <1>6, <1>8 DEF DInv

LEMMA HearKeeps ==
    ASSUME DInv, NEW n \in Neighbours, Hear(n) PROVE DInv'
<1>. USE Times, ManyIsMuch
<1>1. /\ flight[n] # Off /\ flight' = [flight EXCEPT ![n] = Off]
      /\ age' = [p \in Listed \cup {n} |-> IF p = n THEN 0 ELSE age[p]]
      /\ lost' = [lost EXCEPT ![n] = IF phase[n] = Off THEN Many ELSE 0]
      /\ UNCHANGED <<phase, pruned>>
  BY DEF Hear
<1>2. DiscoveryTypeOK /\ InStep /\ Gone /\ Gap /\ Aged
  BY DEF DInv
<1>3. /\ flight'[n] = Off /\ lost'[n] = IF phase[n] = Off THEN Many ELSE 0
      /\ \A m \in Neighbours \ {n} : flight'[m] = flight[m] /\ lost'[m] = lost[m]
  BY <1>1, <1>2 DEF DiscoveryTypeOK
<1>4. /\ Listed' = Listed \cup {n} /\ age'[n] = 0
      /\ \A m \in Listed \ {n} : age'[m] = age[m]
  BY <1>1 DEF Listed
<1>5. DiscoveryTypeOK'
  <2>1. age' \in [Listed' -> Nat]
    BY <1>1, <1>2, <1>4 DEF DiscoveryTypeOK
  <2>. QED BY <1>1, <1>2, <1>4, <2>1 DEF DiscoveryTypeOK
<1>6. InStep' /\ Gone'
  BY <1>1, <1>2, <1>3 DEF InStep, Gone
<1>7. Aged'
  BY <1>1, <1>2, <1>4 DEF Aged, DiscoveryTypeOK
<1>8. ASSUME NEW m \in Listed', lost'[m] < Many
      PROVE  age'[m] <= (IF flight'[m] = Off THEN lost'[m] ELSE lost'[m] + 1) * Interval + phase'[m]
  <2>1. m \in Neighbours
    BY <1>2, <1>4 DEF DiscoveryTypeOK
  <2>2. CASE m = n
    <3>1. phase[n] # Off /\ lost'[n] = 0
      BY <1>3, <1>8, <2>2
    <3>2. phase[n] \in Nat
      BY <1>2, <3>1, One
    <3>. QED BY <1>1, <1>3, <1>4, <2>2, <3>1, <3>2
  <2>3. CASE m # n
    BY <1>1, <1>2, <1>3, <1>4, <1>8, <2>1, <2>3 DEF Gap
  <2>. QED BY <2>2, <2>3
<1>9. Gap'
  BY <1>8 DEF Gap
<1>. QED BY <1>5, <1>6, <1>7, <1>9 DEF DInv

LEMMA PruneKeeps ==
    ASSUME DInv, Prune PROVE DInv'
<1>. USE Times, ManyIsMuch
<1>1. /\ pruned' = 0 /\ age' = [n \in Listed \ Expired |-> age[n]]
      /\ UNCHANGED <<phase, flight, lost>>
  BY DEF Prune
<1>2. DiscoveryTypeOK /\ InStep /\ Gone /\ Gap /\ Aged
  BY DEF DInv
<1>3. Listed' = Listed \ Expired /\ \A n \in Listed' : age'[n] = age[n]
  BY <1>1 DEF Listed
<1>4. DiscoveryTypeOK'
  <2>1. age' \in [Listed' -> Nat]
    BY <1>1, <1>2, <1>3 DEF DiscoveryTypeOK
  <2>. QED BY <1>1, <1>2, <1>3, <2>1 DEF DiscoveryTypeOK
<1>5. InStep' /\ Gone' /\ Gap'
  BY <1>1, <1>2, <1>3 DEF InStep, Gone, Gap
<1>6. Aged'
  <2>1. ASSUME NEW n \in Listed' PROVE age[n] <= Ttl
    BY <1>2, <1>3 DEF Expired, DiscoveryTypeOK
  <2>. QED BY <1>1, <1>3, <2>1 DEF Aged
<1>. QED BY <1>4, <1>5, <1>6 DEF DInv

LEMMA TickKeeps ==
    ASSUME DInv, Tick PROVE DInv'
<1>. USE Times, ManyIsMuch
<1>1. /\ pruned < PrunePeriod
      /\ \A n \in Neighbours : phase[n] # Interval /\ flight[n] # MaxDelay
      /\ phase' = [n \in Neighbours |-> IF phase[n] = Off THEN Off ELSE phase[n] + 1]
      /\ flight' = [n \in Neighbours |-> IF flight[n] = Off THEN Off ELSE flight[n] + 1]
      /\ age' = [n \in Listed |-> age[n] + 1]
      /\ pruned' = pruned + 1 /\ lost' = lost
  BY DEF Tick
<1>2. DiscoveryTypeOK /\ InStep /\ Gone /\ Gap /\ Aged
  BY DEF DInv
<1>3. Listed' = Listed /\ \A n \in Listed : age'[n] = age[n] + 1
  BY <1>1 DEF Listed
<1>4. ASSUME NEW n \in Neighbours
      PROVE  /\ phase'[n] \in 0..Interval \cup {Off} /\ flight'[n] \in 0..MaxDelay \cup {Off}
             /\ phase'[n] = Off <=> phase[n] = Off
             /\ flight'[n] = Off <=> flight[n] = Off
             /\ phase[n] # Off => phase'[n] = phase[n] + 1
             /\ flight[n] # Off => flight'[n] = flight[n] + 1
  <2>1. /\ phase[n] = Off \/ phase[n] \in 0..Interval
        /\ flight[n] = Off \/ flight[n] \in 0..MaxDelay
    BY <1>2, One
  <2>2. phase'[n] = (IF phase[n] = Off THEN Off ELSE phase[n] + 1)
        /\ flight'[n] = (IF flight[n] = Off THEN Off ELSE flight[n] + 1)
        /\ phase[n] # Interval /\ flight[n] # MaxDelay
    BY <1>1
  <2>. QED BY <2>1, <2>2
<1>5. DiscoveryTypeOK'
  <2>1. phase' \in [Neighbours -> 0..Interval \cup {Off}]
        /\ flight' \in [Neighbours -> 0..MaxDelay \cup {Off}]
    BY <1>1, <1>4
  <2>2. age' \in [Listed' -> Nat] /\ pruned' \in 0..PrunePeriod
    BY <1>1, <1>2, <1>3 DEF DiscoveryTypeOK
  <2>. QED BY <1>1, <1>2, <1>3, <2>1, <2>2 DEF DiscoveryTypeOK
<1>6. InStep' /\ Gone'
  BY <1>1, <1>2, <1>4 DEF InStep, Gone
<1>7. Aged'
  BY <1>1, <1>2, <1>3 DEF Aged, DiscoveryTypeOK
<1>8. ASSUME NEW n \in Listed, lost[n] < Many
      PROVE  age'[n] <= (IF flight'[n] = Off THEN lost[n] ELSE lost[n] + 1) * Interval + phase'[n]
  <2>1. n \in Neighbours /\ age[n] \in Nat /\ lost[n] \in Nat
    BY <1>2, One DEF DiscoveryTypeOK
  <2>2. phase[n] # Off
    BY <1>2, <1>8, <2>1 DEF Gone
  <2>. DEFINE k == (IF flight[n] = Off THEN lost[n] ELSE lost[n] + 1) * Interval
  <2>3. k \in Nat
    BY <2>1
  <2>4. age[n] <= k + phase[n] /\ phase[n] \in Nat
    BY <1>2, <1>8, <2>1, <2>2, One DEF Gap
  <2>. HIDE DEF k
  <2>5. age[n] + 1 <= k + (phase[n] + 1)
    BY <2>1, <2>3, <2>4
  <2>. QED BY <1>3, <1>4, <2>1, <2>2, <2>5 DEF k
<1>9. Gap'
  BY <1>1, <1>3, <1>8 DEF Gap
<1>. QED BY <1>5, <1>6, <1>7, <1>9 DEF DInv

LEMMA StepKeeps ==
    ASSUME DInv, DiscoveryStep \/ UNCHANGED discoveryVars PROVE DInv'
<1>1. CASE UNCHANGED discoveryVars
  BY <1>1 DEF discoveryVars, DInv, DiscoveryTypeOK, InStep, Gone, Gap, Aged, Listed
<1>2. CASE DiscoveryStep
  BY <1>2, BroadcastKeeps, VanishKeeps, DropKeeps, HearKeeps, PruneKeeps, TickKeeps
     DEF DiscoveryStep
<1>. QED BY <1>1, <1>2

\* Discovery as a part of Healing.
LEMMA PartOf ==
    ASSUME [Next]_vars PROVE DiscoveryStep \/ UNCHANGED discoveryVars
BY DEF Next, vars, Check, Discover, LinksChange

LEMMA DiscoveryInvariance == Spec => []DInv
<1>1. Init => DInv
  BY Initially DEF Init
<1>2. DInv /\ [Next]_vars => DInv'
  BY StepKeeps, PartOf
<1>. QED BY <1>1, <1>2, PTL DEF Spec

\* Who is not heard any more is believed in for a ttl and a half at most, whatever
\* ttl and prune timer are (src/discovery.js _schedulePrune); with the ones of the
\* code that is 30 s and not the 15 s of docs/OFIL-RFC-001.md:201-202.
THEOREM GhostsGo == Spec => []GhostsLeave
<1>1. DInv => GhostsLeave
  <2>. SUFFICES ASSUME DInv, NEW n \in Listed PROVE 2 * age[n] <= 3 * Ttl
    BY DEF GhostsLeave
  <2>1. age[n] <= Ttl + pruned /\ pruned \in 0..PrunePeriod /\ age[n] \in Nat
    BY DEF DInv, Aged, DiscoveryTypeOK
  <2>2. 2 * PrunePeriod = Ttl
    BY TimingAssumption DEF PrunePeriod
  <2>. QED BY <2>1, <2>2, Times
<1>. QED BY <1>1, DiscoveryInvariance, PTL

\* A running neighbour leaves the list only when too many of its datagrams in a
\* row were lost (src/discovery.js _schedulePrune, _onMessage).
THEOREM LatenessSpares == Spec => LateIsNotLost
<1>. DEFINE Excuse == \A n \in Listed \ DOMAIN age' : (lost[n] + 1) * Interval + MaxDelay > Ttl
<1>1. DInv /\ [Next]_vars => [Excuse]_discoveryVars
  <2>. SUFFICES ASSUME DInv, DiscoveryStep, NEW n \in Listed, n \notin DOMAIN age'
                PROVE  (lost[n] + 1) * Interval + MaxDelay > Ttl
    BY PartOf
  <2>1. age[n] > Ttl
    <3>1. Prune
      <4>1. ASSUME NEW m \in Neighbours, Broadcast(m) \/ Vanish(m) \/ Drop(m) PROVE FALSE
        BY <4>1 DEF Broadcast, Vanish, Drop, Listed
      <4>2. ASSUME NEW m \in Neighbours, Hear(m) PROVE FALSE
        BY <4>2 DEF Hear
      <4>3. ASSUME Tick PROVE FALSE
        BY <4>3 DEF Tick
      <4>. QED BY <4>1, <4>2, <4>3 DEF DiscoveryStep
    <3>. QED BY <3>1 DEF Prune, Expired
  <2>2. DiscoveryTypeOK /\ n \in Neighbours /\ age[n] \in Nat /\ lost[n] \in 0..Many
        /\ lost[n] \in Nat
    BY One DEF DInv, DiscoveryTypeOK
  <2>3. CASE lost[n] = Many
    BY <2>3, ManyIsMuch, Times
  <2>4. CASE lost[n] < Many
    <3>. DEFINE k == lost[n] * Interval
    <3>1. k \in Nat /\ (lost[n] + 1) * Interval = k + Interval
      BY <2>2, Times
    <3>2. phase[n] # Off /\ phase[n] \in 0..Interval
      BY <2>2, <2>4, One, ManyIsMuch DEF DInv, Gone
    <3>3. age[n] <= (IF flight[n] = Off THEN lost[n] ELSE lost[n] + 1) * Interval + phase[n]
      BY <2>4 DEF DInv, Gap
    <3>4. CASE flight[n] = Off
      <4>1. age[n] <= k + phase[n]
        BY <3>3, <3>4
      <4>. HIDE DEF k
      <4>. QED BY <2>1, <2>2, <3>1, <3>2, <4>1, Times
    <3>5. CASE flight[n] # Off
      <4>1. flight[n] = phase[n] /\ flight[n] \in 0..MaxDelay
        BY <2>2, <3>2, <3>5, One DEF DInv, InStep
      <4>2. age[n] <= (k + Interval) + phase[n]
        BY <3>1, <3>3, <3>5
      <4>. HIDE DEF k
      <4>. QED BY <2>1, <2>2, <3>1, <4>1, <4>2, Times
    <3>. QED BY <3>4, <3>5
  <2>. QED BY <2>2, <2>3, <2>4, ManyIsMuch
<1>. QED BY <1>1, DiscoveryInvariance, PTL DEF Spec, LateIsNotLost

-----------------------------------------------------------------------------
(* The monitor over discovery's list.                                       *)

\* What a check that is not outdated has learned so far is true.
Learned ==
    \A c \in Checks : fresh[c] /\ probing[c] # Idle => probing[c] <= Monitor!Stop

MInv == Monitor!TypeOK /\ Learned

LEMMA MonitorInitially ==
    ASSUME Monitor!Init PROVE MInv
BY DEF Monitor!Init, Monitor!MonitorInit, Monitor!TypeOK, Monitor!Tiers, MInv, Learned

\* The numbers of what is probed.
LEMMA Numbers ==
    /\ Gateways \in Nat /\ Links \subseteq 0..Gateways /\ Idle \notin Nat
    /\ Monitor!Wan = 0 /\ Monitor!Peers = Gateways + 1
BY LinksAssumption DEF Monitor!Wan, Monitor!Peers

\* Every set of natural numbers that is not empty has a least one.
LEMMA Least ==
    ASSUME NEW T \in SUBSET Nat, T # {}
    PROVE  \E n \in T : \A m \in T : n <= m
<1>1. PICK n \in T : \A m \in T : ~(<<m, n>> \in OpToRel(<, Nat))
  BY WFMin, NatLessThanWellFounded
<1>2. ASSUME NEW m \in T, m < n PROVE FALSE
  <2>1. <<m, n>> \in OpToRel(<, Nat)
    BY <1>2 DEF OpToRel
  <2>. QED BY <1>1, <2>1
<1>. QED BY <1>2

\* Probing stops at the first link that is up, or at the peer list.
LEMMA StopsAt ==
    ASSUME links \subseteq Links
    PROVE  /\ Monitor!Stop \in 0..Monitor!Peers
           /\ \A k \in links : Monitor!Stop <= k
           /\ Monitor!Stop = Monitor!Peers <=> links = {}
           /\ links # {} => Monitor!Stop \in links
<1>1. CASE links = {}
  BY <1>1, Numbers DEF Monitor!Stop
<1>2. CASE links # {}
  <2>1. \E k \in links : \A l \in links : k <= l
    <3>1. links \in SUBSET Nat
      BY Numbers
    <3>. QED BY <1>2, <3>1, Least
  <2>2. Monitor!Stop \in links /\ \A l \in links : Monitor!Stop <= l
    BY <1>2, <2>1 DEF Monitor!Stop
  <2>. QED BY <1>2, <2>2, Numbers
<1>. QED BY <1>1, <1>2

LEMMA BestTiers ==
    /\ Monitor!Wan \in links => Monitor!Best = "wan"
    /\ Monitor!Wan \notin links /\ links # {} => Monitor!Best = "hotspot"
    /\ links = {} => Monitor!Best = IF Listed # {} THEN "lan" ELSE "none"
BY DEF Monitor!Best, Monitor!TierOf

\* A check ends with the tier t: what a monitor step changes then.
LEMMA FinishKeeps ==
    ASSUME MInv, NEW c \in Checks, NEW t \in Monitor!Tiers, Monitor!Finish(c, t)
    PROVE  MInv'
<1>1. /\ probing' = [probing EXCEPT ![c] = Idle] /\ tier' = t
      /\ fresh' = [fresh EXCEPT ![c] = FALSE]
      /\ settled' = (settled \/ fresh[c])
      /\ behind' = IF tier = "none" /\ t # "none" THEN {} ELSE behind
      /\ links' = links /\ Listed' = Listed
  BY DEF Monitor!Finish
<1>2. Monitor!TypeOK /\ Learned /\ fresh[c] \in BOOLEAN
  BY DEF MInv, Monitor!TypeOK
<1>3. Monitor!TypeOK'
  BY <1>1, <1>2 DEF Monitor!TypeOK
<1>4. Monitor!Stop' = Monitor!Stop
  BY <1>1 DEF Monitor!Stop
<1>5. /\ probing'[c] = Idle
      /\ \A d \in Checks \ {c} : probing'[d] = probing[d] /\ fresh'[d] = fresh[d]
  BY <1>1, <1>2 DEF Monitor!TypeOK
<1>6. Learned'
  BY <1>2, <1>4, <1>5 DEF Learned
<1>. QED BY <1>3, <1>6 DEF MInv

\* A check goes on to another question, having learned the answer so far.
LEMMA GoesOnKeeps ==
    ASSUME MInv, NEW c \in Checks, NEW p \in 0..Monitor!Peers, NEW f \in BOOLEAN,
           probing' = [probing EXCEPT ![c] = p], fresh' = [fresh EXCEPT ![c] = f],
           UNCHANGED <<links, tier, settled, behind>>, Listed' = Listed,
           f => p <= Monitor!Stop
    PROVE  MInv'
<1>1. Monitor!TypeOK /\ Learned
  BY DEF MInv
<1>2. Monitor!Stop' = Monitor!Stop
  BY DEF Monitor!Stop
<1>3. Monitor!TypeOK'
  BY <1>1, Numbers DEF Monitor!TypeOK
<1>4. probing'[c] = p /\ fresh'[c] = f
      /\ \A d \in Checks \ {c} : probing'[d] = probing[d] /\ fresh'[d] = fresh[d]
  BY <1>1 DEF Monitor!TypeOK
<1>5. Learned'
  BY <1>1, <1>2, <1>4 DEF Learned
<1>. QED BY <1>3, <1>5 DEF MInv

\* A change in the network outdates what is learned, or leaves it true.
LEMMA ChangeKeeps ==
    ASSUME MInv, NEW ls \in SUBSET Links, NEW ps \in SUBSET Neighbours, Monitor!Change(ls, ps)
    PROVE  MInv'
<1>1. /\ links' = ls /\ Listed' = ps /\ tier' = tier /\ probing' = probing
      /\ behind' = (behind \cap Listed') \cup (Listed' \ Listed)
      /\ IF Monitor!Best' = Monitor!Best /\ Monitor!Stop' = Monitor!Stop
         THEN fresh' = fresh /\ settled' = settled
         ELSE fresh' = [c \in Checks |-> FALSE] /\ settled' = FALSE
  BY DEF Monitor!Change, Monitor!Noted
<1>2. Monitor!TypeOK /\ Learned
  BY DEF MInv
<1>3. Monitor!TypeOK'
  BY <1>1, <1>2 DEF Monitor!TypeOK
<1>4. Learned'
  <2>1. CASE Monitor!Stop' = Monitor!Stop /\ fresh' = fresh
    BY <1>1, <1>2, <2>1 DEF Learned
  <2>2. CASE fresh' = [c \in Checks |-> FALSE]
    BY <2>2 DEF Learned
  <2>. QED BY <1>1, <2>1, <2>2
<1>. QED BY <1>3, <1>4 DEF MInv

\* What a probe does: it ends the check with the best tier, or goes on, or the
\* check was outdated.
LEMMA ProbeCases ==
    ASSUME MInv, NEW c \in Checks, Monitor!Probe(c)
    PROVE  \/ \E t \in Monitor!Tiers :
                Monitor!Finish(c, t) /\ probing[c] # Idle /\ (fresh[c] => t = Monitor!Best)
           \/ \E p \in 0..Monitor!Peers :
                Monitor!ProbeFails(c, p) /\ (fresh[c] => p <= Monitor!Stop)
<1>0. /\ Monitor!TypeOK /\ Learned /\ links \subseteq Links
      /\ probing[c] = Idle \/ probing[c] \in 0..Monitor!Peers
  BY Numbers DEF MInv, Monitor!TypeOK
<1>1. CASE Monitor!ProbeWan(c)
  <2>1. CASE Monitor!Wan \in links
    BY <1>1, <2>1, Numbers, BestTiers DEF Monitor!ProbeWan, Monitor!Tiers
  <2>2. CASE Monitor!Wan \notin links
    <3>1. Monitor!ProbeFails(c, 1)
      BY <1>1, <2>2, Numbers DEF Monitor!ProbeWan
    <3>2. 1 \in 0..Monitor!Peers /\ 1 <= Monitor!Stop
      BY <1>0, <2>2, Numbers, StopsAt
    <3>. QED BY <3>1, <3>2
  <2>. QED BY <2>1, <2>2
<1>2. CASE Monitor!ProbeGateway(c)
  <2>1. probing[c] \in 1..Gateways /\ probing[c] # Idle
    BY <1>2, Numbers DEF Monitor!ProbeGateway
  <2>2. fresh[c] => probing[c] <= Monitor!Stop
    BY <1>0, <2>1 DEF Learned
  <2>3. CASE probing[c] \in links
    <3>1. Monitor!Finish(c, "hotspot")
      BY <1>2, <2>3 DEF Monitor!ProbeGateway
    <3>2. fresh[c] => Monitor!Wan \notin links
      BY <1>0, <2>1, <2>2, Numbers, StopsAt
    <3>3. fresh[c] => Monitor!Best = "hotspot"
      BY <2>3, <3>2, BestTiers
    <3>. QED BY <2>1, <3>1, <3>3 DEF Monitor!Tiers
  <2>4. CASE probing[c] \notin links
    <3>1. Monitor!ProbeFails(c, probing[c] + 1)
      BY <1>2, <2>4 DEF Monitor!ProbeGateway
    <3>2. probing[c] + 1 \in 0..Monitor!Peers
      BY <2>1, Numbers
    <3>3. probing[c] # Monitor!Stop
      BY <1>0, <2>1, <2>4, Numbers, StopsAt
    <3>4. fresh[c] => probing[c] + 1 <= Monitor!Stop
      BY <1>0, <2>1, <2>2, <3>3, Numbers, StopsAt
    <3>. QED BY <3>1, <3>2, <3>4
  <2>. QED BY <2>3, <2>4
<1>3. CASE Monitor!LookAtPeers(c)
  <2>0. probing[c] = Monitor!Peers /\ probing[c] # Idle
    BY <1>3, Numbers DEF Monitor!LookAtPeers
  <2>1. fresh[c] => links = {}
    BY <1>0, <2>0, Numbers, StopsAt DEF Learned
  <2>. DEFINE t == IF Listed # {} THEN "lan" ELSE "none"
  <2>2. Monitor!Finish(c, t) /\ probing[c] # Idle
    BY <1>3, <2>0 DEF Monitor!LookAtPeers
  <2>3. fresh[c] => t = Monitor!Best
    BY <2>1, BestTiers
  <2>4. t \in Monitor!Tiers
    BY DEF Monitor!Tiers
  <2>. HIDE DEF t
  <2>. QED BY <2>2, <2>3, <2>4
<1>. QED BY <1>1, <1>2, <1>3 DEF Monitor!Probe

LEMMA MonitorKeeps ==
    ASSUME MInv, Monitor!Next \/ UNCHANGED Monitor!vars PROVE MInv'
<1>1. CASE UNCHANGED Monitor!vars
  <2>1. Listed' = Listed /\ UNCHANGED <<links, tier, probing, fresh, settled, behind>>
    BY <1>1 DEF Monitor!vars, Monitor!monitorVars
  <2>2. Monitor!Stop' = Monitor!Stop
    BY <2>1 DEF Monitor!Stop
  <2>. QED BY <2>1, <2>2 DEF MInv, Learned, Monitor!TypeOK
<1>0. MInv => fresh \in [Checks -> BOOLEAN] /\ links \subseteq Links
  BY DEF MInv, Monitor!TypeOK
<1>2. ASSUME NEW c \in Checks, Monitor!StartCheck(c) PROVE MInv'
  <2>1. /\ probing' = [probing EXCEPT ![c] = 0] /\ fresh' = [fresh EXCEPT ![c] = TRUE]
        /\ UNCHANGED <<links, tier, settled, behind>> /\ Listed' = Listed
    BY <1>2, Numbers DEF Monitor!StartCheck
  <2>2. 0 \in 0..Monitor!Peers /\ 0 <= Monitor!Stop
    BY <1>0, Numbers, StopsAt
  <2>. QED BY <2>1, <2>2, GoesOnKeeps
<1>3. ASSUME NEW c \in Checks, Monitor!Probe(c) PROVE MInv'
  <2>1. ASSUME NEW t \in Monitor!Tiers, Monitor!Finish(c, t) PROVE MInv'
    BY <2>1, FinishKeeps
  <2>2. ASSUME NEW p \in 0..Monitor!Peers, Monitor!ProbeFails(c, p),
               fresh[c] => p <= Monitor!Stop
        PROVE  MInv'
    <3>1. /\ probing' = [probing EXCEPT ![c] = p] /\ fresh' = [fresh EXCEPT ![c] = fresh[c]]
          /\ UNCHANGED <<links, tier, settled, behind>> /\ Listed' = Listed
      BY <1>0, <2>2 DEF Monitor!ProbeFails
    <3>2. fresh[c] \in BOOLEAN
      BY <1>0
    <3>. QED BY <2>2, <3>1, <3>2, GoesOnKeeps
  <2>. QED BY <1>3, <2>1, <2>2, ProbeCases
<1>4. ASSUME NEW ls \in SUBSET Links, NEW ps \in SUBSET Neighbours, Monitor!Change(ls, ps)
      PROVE  MInv'
  BY <1>4, ChangeKeeps
<1>. QED BY <1>1, <1>2, <1>3, <1>4 DEF Monitor!Next

LEMMA MonitorInvariance == Monitor!Spec => []MInv
<1>1. Monitor!Init => MInv
  BY MonitorInitially
<1>2. MInv /\ [Monitor!Next]_(Monitor!vars) => MInv'
  BY MonitorKeeps
<1>. QED BY <1>1, <1>2, PTL DEF Monitor!Spec

\* Every step of the two together is a step of the monitor among peers that come
\* and go in any way, or none (src/index.js, src/connectivity.js _determineTier).
LEMMA HealingIsMonitor == Spec => Monitor!Spec
<1>1. Init => Monitor!Init
  BY DEF Init, DiscoveryInit, Monitor!Init, Listed
<1>2. ASSUME DInv, DInv', MInv, [Next]_vars PROVE [Monitor!Next]_(Monitor!vars)
  <2>1. CASE UNCHANGED vars
    BY <2>1 DEF vars, discoveryVars, Monitor!vars, Monitor!monitorVars, Listed
  <2>2. ASSUME NEW c \in Checks, Check(c) PROVE Monitor!Next
    BY <2>2 DEF Check, Monitor!Next
  <2>3. ASSUME Discover(DiscoveryStep) PROVE [Monitor!Next]_(Monitor!vars)
    <3>1. links' = links /\ Monitor!Noted
      BY <2>3 DEF Discover
    <3>2. CASE Listed' = Listed
      <4>1. Monitor!Best' = Monitor!Best /\ Monitor!Stop' = Monitor!Stop
        BY <3>1, <3>2 DEF Monitor!Best, Monitor!Stop
      <4>2. fresh' = fresh /\ settled' = settled /\ tier' = tier /\ probing' = probing
        BY <3>1, <4>1 DEF Monitor!Noted
      <4>3. behind' = behind
        BY <1>2, <3>1, <3>2 DEF Monitor!Noted, MInv, Monitor!TypeOK
      <4>. QED BY <3>1, <3>2, <4>2, <4>3 DEF Monitor!vars, Monitor!monitorVars
    <3>3. CASE Listed' # Listed
      <4>1. links \in SUBSET Links /\ Listed' \in SUBSET Neighbours
        BY <1>2 DEF MInv, Monitor!TypeOK, DInv, DiscoveryTypeOK
      <4>2. Monitor!vars' # Monitor!vars
        BY <3>3 DEF Monitor!vars
      <4>3. Monitor!Change(links, Listed')
        BY <3>1, <4>2 DEF Monitor!Change
      <4>. QED BY <4>1, <4>3 DEF Monitor!Next
    <3>. QED BY <3>2, <3>3
  <2>4. ASSUME LinksChange PROVE Monitor!Next
    <3>1. links' \in (SUBSET Links) \ {links} /\ UNCHANGED discoveryVars /\ Monitor!Noted
      BY <1>2, <2>4 DEF LinksChange, MInv, Monitor!TypeOK
    <3>2. Listed' = Listed /\ Listed \in SUBSET Neighbours
      BY <1>2, <3>1 DEF discoveryVars, Listed, DInv, DiscoveryTypeOK
    <3>3. Monitor!vars' # Monitor!vars
      BY <3>1 DEF Monitor!vars
    <3>4. Monitor!Change(links', Listed)
      BY <3>1, <3>2, <3>3 DEF Monitor!Change
    <3>. QED BY <3>1, <3>2, <3>4 DEF Monitor!Next
  <2>. QED BY <1>2, <2>1, <2>2, <2>3, <2>4 DEF Next
<1>3. Monitor!Init => MInv
  BY MonitorInitially
<1>4. ASSUME MInv, [Monitor!Next]_(Monitor!vars) PROVE MInv'
  BY <1>4, MonitorKeeps
<1>. QED BY <1>1, <1>2, <1>3, <1>4, DiscoveryInvariance, PTL
     DEF Spec, Monitor!Spec

\* The types of both parts.
THEOREM HealingTyped == Spec => []TypeOK
<1>1. DInv /\ MInv => TypeOK
  BY DEF DInv, MInv, TypeOK
<1>. QED BY <1>1, DiscoveryInvariance, HealingIsMonitor, MonitorInvariance, PTL

\* A check that saw nothing change announces nothing but the best tier there is
\* (src/connectivity.js _check).
THEOREM FreshChecksTellTruth == Spec => OnlyStaleChecksFlap
<1>. DEFINE Excuse ==
         settled /\ links' = links /\ Listed' = Listed /\ tier' # tier
           => \/ tier' = Monitor!Best
              \/ \E c \in Checks : ~fresh[c] /\ probing[c] # Idle /\ probing'[c] = Idle
<1>1. MInv /\ [Monitor!Next]_(Monitor!vars) => [Excuse]_(Monitor!vars)
  <2>. SUFFICES ASSUME MInv, Monitor!Next, links' = links, Listed' = Listed, tier' # tier
                PROVE  \/ tier' = Monitor!Best
                       \/ \E c \in Checks :
                             ~fresh[c] /\ probing[c] # Idle /\ probing'[c] = Idle
    OBVIOUS
  <2>1. PICK c \in Checks : Monitor!Probe(c)
    BY DEF Monitor!Next, Monitor!StartCheck, Monitor!Change, Monitor!Noted
  <2>2. PICK t \in Monitor!Tiers :
            Monitor!Finish(c, t) /\ probing[c] # Idle /\ (fresh[c] => t = Monitor!Best)
    BY <2>1, ProbeCases DEF Monitor!ProbeFails
  <2>3. tier' = t /\ probing'[c] = Idle
    BY <2>2 DEF Monitor!Finish, MInv, Monitor!TypeOK
  <2>. QED BY <2>2, <2>3
<1>2. Spec => [][Monitor!Next]_(Monitor!vars)
  BY HealingIsMonitor, PTL DEF Monitor!Spec
<1>3. Spec => []MInv
  BY HealingIsMonitor, MonitorInvariance, PTL
<1>. QED BY <1>1, <1>2, <1>3, PTL DEF OnlyStaleChecksFlap, Monitor!OnlyStaleChecksFlap
=============================================================================
