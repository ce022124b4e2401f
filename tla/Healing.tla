------------------------------ MODULE Healing ------------------------------
(***************************************************************************)
(* Discovery and the connectivity monitor of one node together, wired as in *)
(* src/index.js: the monitor and the listener that heals partitions look at *)
(* the peers discovery lists at that moment, not at who is there.           *)
(***************************************************************************)
EXTENDS Discovery

CONSTANTS Checks, Gateways, Links, Idle   \* see Connectivity

ASSUME LinksAssumption == Gateways \in Nat /\ Links \subseteq 0..Gateways /\ Idle \notin Nat

VARIABLES links, tier, probing, fresh, settled, behind

Monitor == INSTANCE Connectivity WITH peers <- Listed

vars == <<discoveryVars, links, tier, probing, fresh, settled, behind>>

TypeOK == DiscoveryTypeOK /\ Monitor!TypeOK

Init == DiscoveryInit /\ Monitor!MonitorInit

Check(c) == UNCHANGED discoveryVars /\ (Monitor!StartCheck(c) \/ Monitor!Probe(c))

Discover(step) ==
    /\ step /\ UNCHANGED links /\ Monitor!Noted

LinksChange ==
    /\ \E l \in Links : links' = IF l \in links THEN links \ {l} ELSE links \cup {l}
    /\ UNCHANGED discoveryVars /\ Monitor!Noted

Next ==
    \/ \E c \in Checks : Check(c)
    \/ Discover(DiscoveryStep)
    \/ LinksChange

Spec == Init /\ [][Next]_vars

(***************************************************************************)
(* Fairness: time goes on and timers fire, the node reads what arrives, the *)
(* check timer keeps firing and every probe connects, fails or times out.   *)
(* Nothing is assumed of neighbours, losses and links.                      *)
(***************************************************************************)
Clockwork ==
    Discover(Prune \/ Tick \/ \E n \in Neighbours : phase[n] = Interval /\ Broadcast(n))

Arrival(n) == Discover(Hear(n) \/ Drop(n))

LiveSpec ==
    /\ Spec /\ WF_vars(Clockwork)
    /\ \A n \in Neighbours : WF_vars(Arrival(n))
    /\ \A c \in Checks : WF_vars(Check(c) /\ probing[c] = Idle)
                         /\ WF_vars(Check(c) /\ probing[c] # Idle)

-----------------------------------------------------------------------------
(* Properties.                                                              *)

\* Connectivity!OnlyStaleChecksFlap with discovery's list as the peers.
OnlyStaleChecksFlap == Monitor!OnlyStaleChecksFlap

\* When links and neighbours stop coming and going and no datagram is lost any
\* more, the tier becomes what is really there and stays so, through the time the
\* list takes to forget who left and whatever checks were under way.
TierSettles ==
    <>[][UNCHANGED <<links, Running>> /\ \A n \in Neighbours : ~Drop(n)]_vars
        => <>[](tier = Monitor!TierOf(links, Running))

\* A partition that the monitor noticed heals: once the tier is "none", every
\* peer that is or gets listed is offered anti-entropy or leaves the list again.
NoticedPartitionHeals ==
    \A n \in Neighbours : (tier = "none" /\ n \in behind) ~> n \notin behind
=============================================================================
