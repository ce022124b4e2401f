----------------------------- MODULE MessageMap -----------------------------
(***************************************************************************)
(* What a store promises its callers about restarts: one map of messages    *)
(* that calls change atomically and crashes do not change at all.           *)
(*                                                                          *)
(*   stored   what the next restart will load, without the synced marks     *)
(*            (a mark is not logged and may be lost in a crash)             *)
(*   served   what the running process answers from, or Nothing while it is *)
(*            down; it may lag behind stored only within one call           *)
(***************************************************************************)
EXTENDS Naturals

CONSTANTS Ids, Types, MaxLamport

VARIABLES stored, served

vars == <<stored, served>>

Facts == [type : Types, lamport : 1..MaxLamport]
Empty == [i \in {} |-> {}]

Init == stored = Empty /\ served = Empty

\* A new message becomes durable, later than everything stored before it.
Add(id, f) ==
    /\ id \notin DOMAIN stored /\ served = stored
    /\ \A i \in DOMAIN stored : stored[i].lamport < f.lamport
    /\ stored' = [i \in DOMAIN stored \cup {id} |->
                     IF i = id THEN f ELSE stored[i]]
    /\ UNCHANGED served

Remove(ids) ==
    /\ served = stored
    /\ stored' = [i \in DOMAIN stored \ ids |-> stored[i]]
    /\ UNCHANGED served

\* The caller's view catches up: the call's effect, or a restart.
Serve == served' = stored /\ UNCHANGED stored

\* The process dies: it serves nothing, and nothing durable changes.
Die == served' = Empty /\ UNCHANGED stored

Next ==
    \/ \E id \in Ids, f \in Facts : Add(id, f)
    \/ \E ids \in SUBSET Ids : Remove(ids)
    \/ Serve
    \/ Die

Spec == Init /\ [][Next]_vars
=============================================================================
