-------------------------------- MODULE Wal --------------------------------
(***************************************************************************)
(* The message maps kept by a store, the entries of its write-ahead log     *)
(* and what replaying a log over a snapshot yields (src/wal.js and the      *)
(* replay loop of Store._load).  Pure definitions, shared by the store, by  *)
(* its abstract specification and by the proofs.                            *)
(*                                                                          *)
(* A message is reduced to the fields the store itself reads or changes:    *)
(* content, sender and timestamp are carried along unread, so the id stands *)
(* for them.                                                                *)
(***************************************************************************)
EXTENDS Naturals, Sequences

CONSTANTS Ids,      \* message ids
          Types,    \* message types
          MaxLamport \* bound on the Lamport values a save may hand out

Message == [type : Types, lamport : 1..MaxLamport, synced : BOOLEAN]

\* this._messages: an array whose ids are distinct, hence a partial map.
MessageMaps == UNION {[S -> Message] : S \in SUBSET Ids}
NoMessages  == [i \in {} |-> {}]

Put(f, id, m) == [i \in DOMAIN f \cup {id} |-> IF i = id THEN m ELSE f[i]]
Without(f, S) == [i \in DOMAIN f \ S |-> f[i]]

SaveEntry   == [kind : {"save"}, id : Ids, msg : Message]
DeleteEntry == [kind : {"delete"}, ids : SUBSET Ids]
Entry       == SaveEntry \cup DeleteEntry

Deletes(w, id) == {i \in 1..Len(w) : w[i].kind = "delete" /\ id \in w[i].ids}
Saves(w, id)   == {i \in 1..Len(w) : w[i].kind = "save" /\ w[i].id = id}

\* The saves of id that no later delete of id cancels.
LiveSaves(w, id) ==
    {i \in Saves(w, id) : \A d \in Deletes(w, id) : d < i}

First(S) == CHOOSE i \in S : \A j \in S : i <= j

\* Seeded bug: the replay ignores deletes of what the snapshot holds.
KeptAnyway(snap, w, id) == id \in DOMAIN snap

\* An id of the snapshot is kept as it is there unless the log deletes it.
Kept(snap, w, id) == id \in DOMAIN snap /\ Deletes(w, id) = {}

ReplayedIds(snap, w) ==
    {id \in Ids : Kept(snap, w, id) \/ LiveSaves(w, id) # {}}

(***************************************************************************)
(* The outcome of the replay loop: a kept message is the snapshot's, any    *)
(* other is the first save the log holds after the last delete of its id,   *)
(* because the loop skips a save whose id it already has.                   *)
(***************************************************************************)
Replay(snap, w) ==
    [id \in ReplayedIds(snap, w) |->
        IF Kept(snap, w, id) THEN snap[id] ELSE w[First(LiveSaves(w, id))].msg]
=============================================================================
