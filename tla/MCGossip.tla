------------------------------ MODULE MCGossip ------------------------------
(* A topology for Gossip.  Nodes are numbers here. *)
EXTENDS Gossip

Five == 1..5

\* Two paths of different lengths between 1 and 4, and 5 behind 4: three hops
\* away from 1, as far as a ttl of 3 reaches.
Kite == [n \in Five |-> CASE n = 1 -> {2, 3}
                          [] n = 2 -> {1, 3, 4}
                          [] n = 3 -> {1, 2, 4}
                          [] n = 4 -> {2, 3, 5}
                          [] n = 5 -> {4}]
=============================================================================
