---------------------------- MODULE Connectivity ----------------------------
(***************************************************************************)
(* The connectivity monitor of one node (src/connectivity.js) and what the  *)
(* node does on a tier change (src/index.js): run anti-entropy with the     *)
(* peers it knows when the tier leaves "none".                              *)
(*                                                                          *)
(* A check starts every 10 s and probes WAN, then one gateway after the     *)
(* other, then looks at the peer list; each failed probe takes up to 3 s,   *)
(* so a check may last longer than the interval and a later one may         *)
(* overtake it.  What is probed has a number: 0 is the WAN address, and k   *)
(* the k-th gateway of the list.                                            *)
(*                                                                          *)
(* Links come and go and peers are listed and dropped in any way here;      *)
(* Healing has discovery keep the list.                                     *)
(***************************************************************************)
EXTENDS Naturals

CONSTANTS Checks,     \* the checks that may be in progress at the same time
          Gateways,   \* how many gateways, a natural number
          Links,      \* what may become reachable, of WAN and gateways
          Neighbours, \* the peers that may be listed
          Idle        \* of a check that is not in progress

Tiers == {"none", "lan", "hotspot", "wan"}
Wan   == 0
Peers == Gateways + 1   \* after the last gateway a check looks at the peers

VARIABLES links,    \* the links that are up
          peers,    \* discovery's peer list
          tier,     \* this._tier
          probing,  \* per check: what it is about to learn of, or Idle
          fresh,    \* per check in progress: nothing changed since it started
          settled,  \* a check ran from start to end since the last change
          behind    \* the peers listed since anti-entropy last started

monitorVars == <<tier, probing, fresh, settled, behind>>
vars        == <<links, peers, monitorVars>>

TierOf(ls, ps) ==
    IF Wan \in ls THEN "wan"
    ELSE IF ls # {} THEN "hotspot"
    ELSE IF ps # {} THEN "lan" ELSE "none"

Best == TierOf(links, peers)

\* Where a check that saw the present links would stop probing.
Stop == IF links = {} THEN Peers ELSE CHOOSE k \in links : \A l \in links : k <= l

TypeOK ==
    /\ links \subseteq Links /\ peers \subseteq Neighbours
    /\ tier \in Tiers
    /\ probing \in [Checks -> {Idle} \cup Wan..Peers]
    /\ fresh \in [Checks -> BOOLEAN] /\ settled \in BOOLEAN
    /\ behind \subseteq peers

MonitorInit ==
    /\ links = {} /\ tier = "none"
    /\ probing = [c \in Checks |-> Idle]
    /\ fresh = [c \in Checks |-> FALSE]
    /\ settled = FALSE /\ behind = {}

Init == peers = {} /\ MonitorInit

-----------------------------------------------------------------------------
(* The monitor.                                                             *)

\* Seeded bug: a check does not probe WAN again while WAN is the tier.
StartCheckTrusting(c) ==
    /\ probing[c] = Idle
    /\ probing' = [probing EXCEPT ![c] = IF tier = "wan" THEN Wan + 1 ELSE Wan]
    /\ fresh' = [fresh EXCEPT ![c] = TRUE]
    /\ UNCHANGED <<links, peers, tier, settled, behind>>

\* The interval timer fires.
StartCheck(c) ==
    /\ probing[c] = Idle
    /\ probing' = [probing EXCEPT ![c] = Wan]
    /\ fresh' = [fresh EXCEPT ![c] = TRUE]
    /\ UNCHANGED <<links, peers, tier, settled, behind>>

\* Seeded bug: anti-entropy starts only when the internet is back.
FinishWanOnly(c, t) ==
    /\ probing' = [probing EXCEPT ![c] = Idle]
    /\ tier' = t
    /\ fresh' = [fresh EXCEPT ![c] = FALSE]
    /\ settled' = (settled \/ fresh[c])
    /\ behind' = IF tier = "none" /\ t = "wan" THEN {} ELSE behind
    /\ UNCHANGED <<links, peers>>

\* The end of _check: only a different tier is stored and announced, and the
\* listener in index.js starts anti-entropy with all peers listed right now.
Finish(c, t) ==
    /\ probing' = [probing EXCEPT ![c] = Idle]
    /\ tier' = t
    /\ fresh' = [fresh EXCEPT ![c] = FALSE]
    /\ settled' = (settled \/ fresh[c])
    /\ behind' = IF tier = "none" /\ t # "none" THEN {} ELSE behind
    /\ UNCHANGED <<links, peers>>

ProbeFails(c, next) ==
    /\ probing' = [probing EXCEPT ![c] = next]
    /\ UNCHANGED <<links, peers, tier, fresh, settled, behind>>

ProbeWan(c) ==
    /\ probing[c] = Wan
    /\ IF Wan \in links THEN Finish(c, "wan") ELSE ProbeFails(c, Wan + 1)

\* Seeded bug: the step after the last gateway is not the peer list.
ProbeGatewayOn(c) ==
    /\ probing[c] \in Wan + 1 .. Gateways + 1
    /\ IF probing[c] \in links THEN Finish(c, "hotspot") ELSE ProbeFails(c, probing[c] + 1)

ProbeGateway(c) ==
    /\ probing[c] \in Wan + 1 .. Gateways
    /\ IF probing[c] \in links THEN Finish(c, "hotspot") ELSE ProbeFails(c, probing[c] + 1)

\* Seeded bug: without peers the tier stays what it was.
LookAtPeersSticky(c) ==
    /\ probing[c] = Peers
    /\ Finish(c, IF peers # {} THEN "lan" ELSE tier)

LookAtPeers(c) ==
    /\ probing[c] = Peers
    /\ Finish(c, IF peers # {} THEN "lan" ELSE "none")

Probe(c) == ProbeWan(c) \/ ProbeGateway(c) \/ LookAtPeers(c)

-----------------------------------------------------------------------------
(* The world around it.                                                     *)

\* What the history variables record of a change of links or peers: checks under
\* way are outdated if it makes a difference to the tier or to who answers first.
Noted ==
    /\ IF Best' = Best /\ Stop' = Stop THEN UNCHANGED <<fresh, settled>>
       ELSE fresh' = [c \in Checks |-> FALSE] /\ settled' = FALSE
    /\ behind' = (behind \cap peers') \cup (peers' \ peers)
    /\ UNCHANGED <<tier, probing>>

Change(ls, ps) ==
    /\ links' = ls /\ peers' = ps
    /\ vars' # vars
    /\ Noted

Next ==
    \/ \E c \in Checks : StartCheck(c) \/ Probe(c)
    \/ \E ls \in SUBSET Links, ps \in SUBSET Neighbours : Change(ls, ps)

Spec == Init /\ [][Next]_vars

-----------------------------------------------------------------------------
(* Properties.                                                              *)

\* Once a whole check has seen the present network, an announcement is either a
\* correction to the best tier there is, or the late end of a check that was
\* under way before the last change: a healthy check never announces a wrong tier.
OnlyStaleChecksFlap ==
    [][settled /\ links' = links /\ peers' = peers /\ tier' # tier
         => \/ tier' = Best
            \/ \E c \in Checks : ~fresh[c] /\ probing[c] # Idle
                                  /\ probing'[c] = Idle]_vars
=============================================================================
