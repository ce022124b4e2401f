---------------------------- MODULE StoreProofs ----------------------------
(***************************************************************************)
(* What holds of the store for any ids, types, log lengths and faults.      *)
(*                                                                          *)
(* The argument: between calls, and at every step of one, what a restart    *)
(* would load is what the process serves, up to synced marks and up to the  *)
(* call in progress (LogInv).  It needs the log to accept every append;     *)
(* snapshot writes and truncations may fail, and the process may die, at    *)
(* any point.                                                               *)
(*                                                                          *)
(* Replay says in one formula what the loop over the log computes; the last *)
(* part proves that, entry by entry, for every snapshot and every log.      *)
(***************************************************************************)
EXTENDS MCStore, FiniteSetTheorems, WellFoundedInduction, TLAPS

-----------------------------------------------------------------------------
(* Facts about replaying a log over a snapshot.                             *)

\* The initial segments of the naturals are finite sets, and inclusion between
\* finite sets is well-founded.
LEMMA LeastNatural ==
    ASSUME NEW S \in SUBSET Nat, S # {}
    PROVE  \E n \in S : \A m \in S : n <= m
<1> DEFINE Segments == {1..n : n \in S}
<1>1. Segments \subseteq FiniteSubsetsOf(Nat) /\ Segments # {}
  <2>1. \A n \in Nat : IsFiniteSet(1..n) /\ 1..n \in SUBSET Nat
    BY FS_Interval
  <2>2. \A n \in S : 1..n \in FiniteSubsetsOf(Nat)
    BY <2>1 DEF FiniteSubsetsOf
  <2>3. PICK n \in S : TRUE
    OBVIOUS
  <2>4. 1..n \in Segments
    BY <2>3
  <2> QED  BY <2>2, <2>4
<1>2. PICK x \in Segments : \A y \in Segments : <<y, x>> \notin StrictSubsetOrdering(Nat)
  <2> HIDE DEF Segments
  <2> QED  BY <1>1, FS_StrictSubsetOrderingWellFounded, WFMin
<1>3. PICK n \in S : x = 1..n
  OBVIOUS
<1>4. ASSUME NEW m \in S, m < n  PROVE FALSE
  <2>1. 1..m \subseteq 1..n /\ n \in 1..n /\ n \notin 1..m
    BY <1>4
  <2>2. <<1..m, 1..n>> \in StrictSubsetOrdering(Nat)
    BY <2>1 DEF StrictSubsetOrdering
  <2> QED  BY <1>2, <1>3, <2>2
<1> QED  BY <1>4

\* The save that Replay picks exists whenever the id has a live one.
LEMMA FirstLiveSave ==
    ASSUME NEW w, NEW id, LiveSaves(w, id) # {}
    PROVE  First(LiveSaves(w, id)) \in LiveSaves(w, id)
<1>1. LiveSaves(w, id) \in SUBSET Nat
  BY DEF LiveSaves, Saves
<1>2. \E i \in LiveSaves(w, id) : \A j \in LiveSaves(w, id) : i <= j
  BY <1>1, LeastNatural
<1> QED  BY <1>2 DEF First

\* A save entry of a log is a save of a message.
LEMMA SavedMessage ==
    ASSUME NEW w \in Seq(Entry), NEW id, NEW i \in Saves(w, id)
    PROVE  w[i].msg \in Message
<1>1. i \in 1..Len(w) /\ w[i].kind = "save"
  BY DEF Saves
<1>2. w[i] \in Entry
  BY <1>1
<1>3. w[i] \in SaveEntry
  BY <1>1, <1>2 DEF Entry, DeleteEntry
<1> QED  BY <1>3 DEF SaveEntry

\* Replaying a log over a map of messages yields a map of messages.
LEMMA ReplayType ==
    ASSUME NEW snap \in MessageMaps, NEW w \in Seq(Entry)
    PROVE  /\ Replay(snap, w) \in MessageMaps
           /\ DOMAIN Replay(snap, w) = ReplayedIds(snap, w)
<1>1. \A id \in ReplayedIds(snap, w) : Replay(snap, w)[id] \in Message
  <2> SUFFICES ASSUME NEW id \in ReplayedIds(snap, w)
               PROVE  Replay(snap, w)[id] \in Message
    OBVIOUS
  <2>1. CASE Kept(snap, w, id)
    BY <2>1 DEF Replay, Kept, MessageMaps
  <2>2. CASE ~ Kept(snap, w, id)
    <3>1. LiveSaves(w, id) # {}
      BY <2>2 DEF ReplayedIds
    <3>2. First(LiveSaves(w, id)) \in Saves(w, id)
      BY <3>1, FirstLiveSave DEF LiveSaves
    <3>3. Replay(snap, w)[id] = w[First(LiveSaves(w, id))].msg
      BY <2>2 DEF Replay
    <3> QED  BY <3>2, <3>3, SavedMessage
  <2> QED  BY <2>1, <2>2
<1>2. ReplayedIds(snap, w) \in SUBSET Ids
  BY DEF ReplayedIds
<1>3. DOMAIN Replay(snap, w) = ReplayedIds(snap, w)
  BY DEF Replay
<1>4. Replay(snap, w) = [i \in ReplayedIds(snap, w) |-> Replay(snap, w)[i]]
  BY DEF Replay
<1>5. Replay(snap, w) \in [ReplayedIds(snap, w) -> Message]
  BY <1>1, <1>4
<1> QED  BY <1>2, <1>3, <1>5 DEF MessageMaps

\* An empty log changes nothing.
LEMMA ReplayEmpty ==
    ASSUME NEW snap \in MessageMaps
    PROVE  Replay(snap, <<>>) = snap
<1>1. \A id : Deletes(<<>>, id) = {} /\ LiveSaves(<<>>, id) = {}
  BY DEF Deletes, LiveSaves, Saves
<1>2. PICK S \in SUBSET Ids : snap \in [S -> Message]
  BY DEF MessageMaps
<1>3. ReplayedIds(snap, <<>>) = S
  BY <1>1, <1>2 DEF ReplayedIds, Kept
<1>4. \A id \in S : Kept(snap, <<>>, id)
  BY <1>1, <1>2 DEF Kept
<1> QED  BY <1>2, <1>3, <1>4 DEF Replay

\* What one more entry at the end of a log does to the saves and deletes in it.
LEMMA AppendedEntry ==
    ASSUME NEW w \in Seq(Entry), NEW e \in Entry, NEW id
    PROVE  LET v     == Append(w, e)
               n     == Len(w) + 1
               saves == e.kind = "save" /\ e.id = id
               dels  == e.kind = "delete" /\ id \in e.ids
           IN  /\ \A i \in 1..Len(w) : v[i] = w[i]
               /\ v[n] = e /\ n \notin 1..Len(w) /\ n \in Nat
               /\ Saves(v, id) = IF saves THEN Saves(w, id) \cup {n} ELSE Saves(w, id)
               /\ Deletes(v, id) = IF dels THEN Deletes(w, id) \cup {n} ELSE Deletes(w, id)
<1> DEFINE v     == Append(w, e)
           n     == Len(w) + 1
           saves == e.kind = "save" /\ e.id = id
           dels  == e.kind = "delete" /\ id \in e.ids
<1>1. /\ Len(v) = n /\ v[n] = e /\ \A i \in 1..Len(w) : v[i] = w[i]
      /\ n \in Nat /\ n \notin 1..Len(w) /\ 1..n = 1..Len(w) \cup {n}
  OBVIOUS
<1> HIDE DEF v, n
<1>2. Saves(v, id) = IF saves THEN Saves(w, id) \cup {n} ELSE Saves(w, id)
  BY <1>1 DEF Saves
<1>3. Deletes(v, id) = IF dels THEN Deletes(w, id) \cup {n} ELSE Deletes(w, id)
  BY <1>1 DEF Deletes
<1> QED  BY <1>1, <1>2, <1>3 DEF v, n

\* A logged delete takes its ids out of what is replayed.
LEMMA ReplayDelete ==
    ASSUME NEW snap \in MessageMaps, NEW w \in Seq(Entry), NEW e \in DeleteEntry
    PROVE  Replay(snap, Append(w, e)) = Without(Replay(snap, w), e.ids)
<1> DEFINE v == Append(w, e)
<1>0. e \in Entry /\ e.kind = "delete" /\ Len(w) + 1 \notin 1..Len(w) /\ Len(w) \in Nat
  BY DEF Entry, DeleteEntry
<1>1. \A id : Saves(v, id) = Saves(w, id)
  BY <1>0, AppendedEntry
<1>2. \A id : id \notin e.ids => Deletes(v, id) = Deletes(w, id)
  BY <1>0, AppendedEntry
<1>3. \A id : id \in e.ids => Len(w) + 1 \in Deletes(v, id)
  BY <1>0, AppendedEntry
<1>4. \A id : id \notin e.ids => LiveSaves(v, id) = LiveSaves(w, id)
  BY <1>1, <1>2 DEF LiveSaves
<1>5. \A id : id \in e.ids => LiveSaves(v, id) = {}
  BY <1>0, <1>1, <1>3 DEF LiveSaves, Saves
<1>6. \A id \in Ids : Kept(snap, v, id) <=> Kept(snap, w, id) /\ id \notin e.ids
  BY <1>2, <1>3 DEF Kept
<1>7. ReplayedIds(snap, v) = ReplayedIds(snap, w) \ e.ids
  BY <1>4, <1>5, <1>6 DEF ReplayedIds
<1>8. \A id \in ReplayedIds(snap, v) : Replay(snap, v)[id] = Replay(snap, w)[id]
  <2> SUFFICES ASSUME NEW id \in ReplayedIds(snap, v)
               PROVE  Replay(snap, v)[id] = Replay(snap, w)[id]
    OBVIOUS
  <2>1. id \in Ids /\ id \in ReplayedIds(snap, w) /\ id \notin e.ids
    BY <1>7 DEF ReplayedIds
  <2>2. CASE Kept(snap, w, id)
    BY <1>6, <2>1, <2>2 DEF Replay
  <2>3. CASE ~ Kept(snap, w, id)
    <3>1. First(LiveSaves(w, id)) \in 1..Len(w)
      BY <2>1, <2>3, FirstLiveSave DEF ReplayedIds, LiveSaves, Saves
    <3>2. v[First(LiveSaves(w, id))] = w[First(LiveSaves(w, id))]
      BY <1>0, <3>1, AppendedEntry
    <3> QED  BY <1>4, <1>6, <2>1, <2>3, <3>2 DEF Replay
  <2> QED  BY <2>2, <2>3
<1>9. DOMAIN Replay(snap, w) = ReplayedIds(snap, w)
  BY DEF Replay
<1>10. Replay(snap, v) = [i \in ReplayedIds(snap, v) |-> Replay(snap, v)[i]]
  BY DEF Replay
<1> HIDE DEF v
<1>11. Replay(snap, v) = Without(Replay(snap, w), e.ids)
  BY <1>7, <1>8, <1>9, <1>10 DEF Without
<1> QED  BY <1>11 DEF v

\* A logged save of an id that is not there adds it, over any older save of it
\* that a later delete cancels.
LEMMA ReplaySave ==
    ASSUME NEW snap \in MessageMaps, NEW w \in Seq(Entry), NEW e \in SaveEntry,
           e.id \notin DOMAIN Replay(snap, w)
    PROVE  Replay(snap, Append(w, e)) = Put(Replay(snap, w), e.id, e.msg)
<1> DEFINE v == Append(w, e)
           n == Len(w) + 1
<1>0. e \in Entry /\ e.kind = "save" /\ e.id \in Ids
  BY DEF Entry, SaveEntry
<1>1. n \in Nat /\ n \notin 1..Len(w) /\ v[n] = e /\ \A i \in 1..Len(w) : v[i] = w[i]
  BY <1>0, AppendedEntry
<1>2. \A id : Deletes(v, id) = Deletes(w, id)
  BY <1>0, AppendedEntry
<1>3. \A id : id # e.id => Saves(v, id) = Saves(w, id)
  BY <1>0, AppendedEntry
<1>4. Saves(v, e.id) = Saves(w, e.id) \cup {n}
  BY <1>0, AppendedEntry
<1>5. DOMAIN Replay(snap, w) = ReplayedIds(snap, w)
  BY DEF Replay
<1>6. ~ Kept(snap, w, e.id) /\ LiveSaves(w, e.id) = {}
  BY <1>0, <1>5 DEF ReplayedIds
<1>7. \A id : id # e.id => LiveSaves(v, id) = LiveSaves(w, id)
  BY <1>2, <1>3 DEF LiveSaves
<1>8. \A d \in Deletes(w, e.id) : d < n
  BY DEF Deletes
<1>9. LiveSaves(v, e.id) = {n}
  BY <1>2, <1>4, <1>6, <1>8 DEF LiveSaves
<1>10. \A id : Kept(snap, v, id) <=> Kept(snap, w, id)
  BY <1>2 DEF Kept
<1>11. ReplayedIds(snap, v) = ReplayedIds(snap, w) \cup {e.id}
  BY <1>0, <1>7, <1>9, <1>10 DEF ReplayedIds
<1>12. Replay(snap, v)[e.id] = e.msg
  <2>1. First(LiveSaves(v, e.id)) = n
    BY <1>9, FirstLiveSave
  <2> QED  BY <1>1, <1>6, <1>10, <1>11, <2>1 DEF Replay
<1>13. \A id \in ReplayedIds(snap, w) : Replay(snap, v)[id] = Replay(snap, w)[id]
  <2> SUFFICES ASSUME NEW id \in ReplayedIds(snap, w)
               PROVE  Replay(snap, v)[id] = Replay(snap, w)[id]
    OBVIOUS
  <2>1. id \in Ids /\ id \in ReplayedIds(snap, v) /\ id # e.id
    BY <1>5, <1>11 DEF ReplayedIds
  <2>2. CASE Kept(snap, w, id)
    BY <1>10, <2>1, <2>2 DEF Replay
  <2>3. CASE ~ Kept(snap, w, id)
    <3>1. First(LiveSaves(w, id)) \in 1..Len(w)
      BY <2>1, <2>3, FirstLiveSave DEF ReplayedIds, LiveSaves, Saves
    <3> QED  BY <1>1, <1>7, <1>10, <2>1, <2>3, <3>1 DEF Replay
  <2> QED  BY <2>2, <2>3
<1>14. Replay(snap, v) = [i \in ReplayedIds(snap, v) |-> Replay(snap, v)[i]]
  BY DEF Replay
<1> HIDE DEF v, n
<1>15. Replay(snap, v) = Put(Replay(snap, w), e.id, e.msg)
  BY <1>5, <1>11, <1>12, <1>13, <1>14 DEF Put
<1> QED  BY <1>15 DEF v

\* Writing the messages served over the snapshot changes nothing that a restart
\* loads, whatever the log still holds, if the two agreed before.
LEMMA ReplayRewrite ==
    ASSUME NEW snap \in MessageMaps, NEW ms \in MessageMaps, NEW w \in Seq(Entry),
           SameFacts(Replay(snap, w), ms)
    PROVE  SameFacts(Replay(ms, w), ms)
<1>1. \A S \in MessageMaps : DOMAIN Replay(S, w) = ReplayedIds(S, w)
  BY ReplayType
<1>2. DOMAIN ms = ReplayedIds(snap, w)
  BY <1>1 DEF SameFacts
<1>3. ASSUME NEW id \in Ids
      PROVE  id \in ReplayedIds(ms, w) <=> id \in DOMAIN ms
  BY <1>2 DEF ReplayedIds, Kept
<1>4. DOMAIN Replay(ms, w) = DOMAIN ms
  BY <1>1, <1>2, <1>3 DEF ReplayedIds
<1>5. ASSUME NEW id \in DOMAIN ms
      PROVE  /\ Replay(ms, w)[id].type = ms[id].type
             /\ Replay(ms, w)[id].lamport = ms[id].lamport
  <2>1. id \in ReplayedIds(ms, w) /\ id \in ReplayedIds(snap, w)
    BY <1>1, <1>2, <1>4
  <2>2. CASE Kept(ms, w, id)
    BY <2>1, <2>2 DEF Replay
  <2>3. CASE ~ Kept(ms, w, id)
    <3>1. Replay(ms, w)[id] = w[First(LiveSaves(w, id))].msg
      BY <2>1, <2>3 DEF Replay
    <3>2. ~ Kept(snap, w, id)
      BY <1>5, <2>3 DEF Kept
    <3>3. Replay(snap, w)[id] = w[First(LiveSaves(w, id))].msg
      BY <2>1, <3>2 DEF Replay
    <3> QED  BY <1>1, <2>1, <3>1, <3>3 DEF SameFacts
  <2> QED  BY <2>2, <2>3
<1> QED  BY <1>4, <1>5 DEF SameFacts

-----------------------------------------------------------------------------
(* Types.                                                                   *)

LEMMA EmptyMap == NoMessages \in MessageMaps /\ DOMAIN NoMessages = {}
<1>1. NoMessages \in [{} -> Message] /\ DOMAIN NoMessages = {}
  BY DEF NoMessages
<1> QED  BY <1>1 DEF MessageMaps

LEMMA FileType == Corrupt \in File /\ \A ms \in MessageMaps : Full(ms) \in File
  BY EmptyMap DEF Corrupt, Full, File

LEMMA AppliedType ==
    ASSUME NEW ms \in MessageMaps, NEW o \in Entry
    PROVE  Applied(ms, o) \in MessageMaps
<1>1. PICK S \in SUBSET Ids : ms \in [S -> Message]
  BY DEF MessageMaps
<1>2. CASE o.kind = "save"
  <2>1. o.id \in Ids /\ o.msg \in Message
    BY <1>2 DEF Entry, SaveEntry, DeleteEntry
  <2>2. Put(ms, o.id, o.msg) \in [S \cup {o.id} -> Message]
    BY <1>1, <2>1 DEF Put
  <2> QED  BY <1>2, <2>1, <2>2 DEF Applied, MessageMaps
<1>3. CASE o.kind # "save"
  <2>1. Without(ms, o.ids) \in [S \ o.ids -> Message]
    BY <1>1 DEF Without
  <2> QED  BY <1>3, <2>1 DEF Applied, MessageMaps
<1> QED  BY <1>2, <1>3

LEMMA LoadedType == TypeOK => Loaded \in MessageMaps /\ Durable \in MessageMaps
<1>1. TypeOK => Loaded \in MessageMaps
  BY EmptyMap DEF TypeOK, Loaded, File
<1> QED  BY <1>1, ReplayType DEF TypeOK, Durable

\* The highest Lamport value of a map exists, because all are at most MaxLamport.
LEMMA HighestBounds ==
    ASSUME NEW ms \in MessageMaps
    PROVE  /\ Highest(ms) \in Nat
           /\ \A i \in DOMAIN ms : ms[i].lamport <= Highest(ms)
<1>1. PICK S \in SUBSET Ids : ms \in [S -> Message]
  BY DEF MessageMaps
<1>2. \A i \in DOMAIN ms : ms[i].lamport \in 1..MaxLamport
  BY <1>1 DEF Message
<1> DEFINE L == {0} \cup {ms[i].lamport : i \in DOMAIN ms}
           D == {MaxLamport - n : n \in L}
<1>3. MaxLamport \in Nat /\ L \in SUBSET (0..MaxLamport) /\ 0 \in L
  BY <1>2, BoundsAssumption
<1>4. D \in SUBSET Nat /\ D # {}
  BY <1>3
<1>5. PICK d \in D : \A e \in D : d <= e
  <2> HIDE DEF D
  <2> QED  BY <1>4, LeastNatural
<1>6. PICK n \in L : d = MaxLamport - n
  OBVIOUS
<1>7. \A m \in L : m <= n
  <2> SUFFICES ASSUME NEW m \in L  PROVE m <= n
    OBVIOUS
  <2>1. d <= MaxLamport - m
    BY <1>5
  <2>2. m \in 0..MaxLamport /\ n \in 0..MaxLamport
    BY <1>3
  <2> HIDE DEF L, D
  <2> QED  BY <1>3, <1>6, <2>1, <2>2
<1>8. \E k \in L : \A i \in DOMAIN ms : ms[i].lamport <= k
  BY <1>7
<1>9. Highest(ms) \in L /\ \A i \in DOMAIN ms : ms[i].lamport <= Highest(ms)
  BY <1>8 DEF Highest
<1> QED  BY <1>3, <1>9

\* No call, file operation, failure or crash leaves the types.
LEMMA TypeStep == TypeOK /\ [Next \/ Clear]_vars => TypeOK'
<1> SUFFICES ASSUME TypeOK, [Next \/ Clear]_vars  PROVE TypeOK'
  OBVIOUS
<1> USE DEF TypeOK
<1>1. ASSUME NEW id \in Ids, NEW t \in Types, NEW remote \in 0..MaxLamport,
             NEW s \in BOOLEAN, Save(id, t, remote, s)
      PROVE  TypeOK'
  <2>1. Tick(remote) \in 1..MaxLamport
    BY <1>1, BoundsAssumption DEF Save, Tick
  <2>2. [kind |-> "save", id |-> id,
         msg |-> [type |-> t, lamport |-> Tick(remote), synced |-> s]] \in Entry
    BY <2>1 DEF Entry, SaveEntry, Message
  <2> QED  BY <1>1, <2>1, <2>2 DEF Save, disk, Op
<1>2. ASSUME NEW ids \in SUBSET Ids, Delete(ids)  PROVE TypeOK'
  <2>1. [kind |-> "delete", ids |-> ids] \in Entry
    BY DEF Entry, DeleteEntry
  <2> QED  BY <1>2, <2>1 DEF Delete, memory, disk, Op
<1>3. ASSUME NEW id \in Ids, MarkSynced(id)  PROVE TypeOK'
  <2>1. PICK S \in SUBSET Ids : messages \in [S -> Message]
    BY DEF MessageMaps
  <2>2. messages' \in [S -> Message]
    BY <1>3, <2>1 DEF MarkSynced, Message
  <2>3. messages' \in MessageMaps
    BY <2>2 DEF MessageMaps
  <2> QED  BY <1>3, <2>3 DEF MarkSynced, disk, Op
<1>4. ASSUME Snapshot  PROVE TypeOK'
  BY <1>4 DEF Snapshot, memory, disk, Op
<1>5. ASSUME Clear  PROVE TypeOK'
  BY <1>5, EmptyMap DEF Clear, NoIndex, disk, Op
<1>6. ASSUME WalAppend  PROVE TypeOK'
  <2>1. op \in Entry
    BY <1>6 DEF WalAppend
  <2>2. Append(wal, op) \in Seq(Entry)
    BY <2>1
  <2>3. wal' \in Seq(Entry) /\ torn' \in BOOLEAN
    <3>1. CASE AppendOk
      BY <2>2, <3>1 DEF AppendOk
    <3>2. CASE AppendFails
      BY <3>2 DEF AppendFails
    <3> QED  BY <1>6, <3>1, <3>2 DEF WalAppend
  <2> QED  BY <1>6, <2>1, <2>3 DEF WalAppend, memory
<1>7. ASSUME Apply  PROVE TypeOK'
  <2>1. op \in Entry
    BY <1>7 DEF Apply
  <2>2. messages' \in MessageMaps
    BY <1>7, <2>1, AppliedType DEF Apply
  <2>3. op.kind = "save" => op.id \in Ids /\ op.msg \in Message
    BY <2>1 DEF Entry, SaveEntry, DeleteEntry
  <2>4. index' \in [Types -> SUBSET Ids]
    BY <1>7, <2>3 DEF Apply, Message
  <2> QED  BY <1>7, <2>2, <2>4 DEF Apply, disk
<1>8. Return => promise' \in [Ids -> {"none", "stored", "synced", "deleted"}]
                 /\ pc' = "idle" /\ op' \in Op
  <2> SUFFICES ASSUME Return
               PROVE  promise' \in [Ids -> {"none", "stored", "synced", "deleted"}]
    BY DEF Return, NoOp, Op
  <2>1. CASE op.kind = "save"
    BY <2>1 DEF Return
  <2>2. CASE op.kind = "delete"
    BY <2>2 DEF Return
  <2>3. CASE op.kind = "markSynced"
    BY <2>3 DEF Return
  <2>4. CASE op.kind = "clear"
    BY <2>4 DEF Return
  <2>5. CASE op.kind \notin {"save", "delete", "markSynced", "clear"}
    BY <2>5 DEF Return
  <2> QED  BY <2>1, <2>2, <2>3, <2>4, <2>5
<1>9. Throw => promise' = promise /\ pc' = "idle" /\ op' \in Op
  BY DEF Throw, NoOp, Op
<1>10. ASSUME WriteTmp  PROVE TypeOK'
  <2>1. tmp' \in File
    BY <1>10, FileType DEF WriteTmp
  <2> QED  BY <1>9, <1>10, <2>1 DEF WriteTmp, memory
<1>11. ASSUME Rename  PROVE TypeOK'
  <2>1. snapshot' \in File /\ tmp' \in File
    BY <1>11, FileType DEF Rename
  <2> QED  BY <1>8, <1>9, <1>11, <2>1 DEF Rename, memory
<1>12. ASSUME Truncate  PROVE TypeOK'
  <2>1. wal' \in Seq(Entry) /\ torn' \in BOOLEAN
    <3>1. <<>> \in Seq(Entry)
      OBVIOUS
    <3> QED  BY <1>12, <3>1 DEF Truncate
  <2> QED  BY <1>8, <1>12, <2>1 DEF Truncate, memory
<1>13. ASSUME Crash  PROVE TypeOK'
  BY <1>13, EmptyMap DEF Crash, NoIndex, NoOp, Corrupt, File, Op
<1>14. ASSUME Restart  PROVE TypeOK'
  <2>1. Durable \in MessageMaps /\ Highest(Durable) \in Nat
    BY LoadedType, HighestBounds
  <2>2. \A ms \in MessageMaps : IndexOf(ms) \in [Types -> SUBSET Ids]
    BY DEF IndexOf, MessageMaps
  <2> QED  BY <1>14, <2>1, <2>2 DEF Restart, disk
<1>15. CASE UNCHANGED vars
  BY <1>15 DEF vars, memory, disk
<1> QED
  BY <1>1, <1>2, <1>3, <1>4, <1>5, <1>6, <1>7, <1>10, <1>11, <1>12, <1>13, <1>14,
     <1>15 DEF Next, Call, Step

LEMMA TypeInit == Init => TypeOK
<1>1. <<>> \in Seq(Entry) /\ NoOp \in Op
  BY DEF NoOp, Op
<1>2. NoIndex \in [Types -> SUBSET Ids]
  BY DEF NoIndex
<1>3. Full(NoMessages) \in File /\ Corrupt \in File /\ NoMessages \in MessageMaps
  BY EmptyMap, FileType
<1>4. [i \in Ids |-> "none"] \in [Ids -> {"none", "stored", "synced", "deleted"}]
  OBVIOUS
<1> SUFFICES ASSUME Init  PROVE TypeOK
  OBVIOUS
<1>5. messages \in MessageMaps /\ index \in [Types -> SUBSET Ids] /\ clock \in Nat
  BY <1>2, <1>3 DEF Init
<1>6. snapshot \in File /\ tmp \in File /\ wal \in Seq(Entry) /\ torn \in BOOLEAN
  BY <1>1, <1>3 DEF Init
<1>7. op \in Op /\ pc = "idle"
  BY <1>1 DEF Init
<1>8. promise \in [Ids -> {"none", "stored", "synced", "deleted"}]
  BY <1>4 DEF Init
<1> QED  BY <1>5, <1>6, <1>7, <1>8 DEF TypeOK

\* Type correctness of the store, whatever file operations fail.
THEOREM StoreTyped == Spec => []TypeOK
<1>1. [Next]_vars => [Next \/ Clear]_vars
  OBVIOUS
<1>2. TypeOK /\ [Next]_vars => TypeOK'
  BY <1>1, TypeStep
<1> QED  BY TypeInit, <1>2, PTL DEF Spec

-----------------------------------------------------------------------------
(* The type index.                                                          *)

LEMMA IndexStep == TypeOK /\ IndexInv /\ [Next \/ Clear]_vars => IndexInv'
<1> SUFFICES ASSUME TypeOK, IndexInv, [Next \/ Clear]_vars  PROVE IndexInv'
  OBVIOUS
<1>0. PICK S \in SUBSET Ids : messages \in [S -> Message]
  BY DEF TypeOK, MessageMaps
<1>1. ASSUME NEW id \in Ids, NEW t \in Types, NEW remote \in 0..MaxLamport,
             NEW s \in BOOLEAN, Save(id, t, remote, s)
      PROVE  IndexInv'
  BY <1>1 DEF Save, IndexInv, IndexOf, disk
<1>2. ASSUME NEW ids \in SUBSET Ids, Delete(ids)  PROVE IndexInv'
  BY <1>2 DEF Delete, IndexInv, IndexOf, memory
<1>3. ASSUME NEW id \in Ids, MarkSynced(id)  PROVE IndexInv'
  <2>1. /\ DOMAIN messages' = DOMAIN messages
        /\ \A i \in DOMAIN messages : messages'[i].type = messages[i].type
    BY <1>0, <1>3 DEF MarkSynced, Message
  <2>2. IndexOf(messages') = IndexOf(messages)
    BY <2>1 DEF IndexOf
  <2> QED  BY <1>3, <2>2 DEF MarkSynced, IndexInv, IndexOf
<1>4. ASSUME Snapshot  PROVE IndexInv'
  BY <1>4 DEF Snapshot, IndexInv, IndexOf, memory
<1>5. ASSUME NoMessages = messages', NoIndex = index', pc' \notin {"append", "apply"}
      PROVE  IndexInv'
  BY <1>5, EmptyMap DEF IndexInv, IndexOf, NoIndex
<1>6. ASSUME WalAppend  PROVE IndexInv'
  BY <1>6 DEF WalAppend, IndexInv, IndexOf, memory
<1>7. ASSUME Apply  PROVE IndexInv'
  <2>1. op \in Entry /\ index = IndexOf(messages) /\ pc' = "write"
    BY <1>7 DEF Apply, TypeOK, IndexInv
  <2>2. CASE op.kind = "save"
    <3>1. op.id \in Ids /\ op.msg \in Message /\ op.id \notin DOMAIN messages
      BY <1>7, <2>1, <2>2 DEF Apply, IndexInv, Entry, SaveEntry, DeleteEntry
    <3>2. messages' = Put(messages, op.id, op.msg)
      BY <1>7, <2>2 DEF Apply, Applied
    <3>3. \A t \in Types : IndexOf(messages')[t] =
             IF t = op.msg.type THEN IndexOf(messages)[t] \cup {op.id}
             ELSE IndexOf(messages)[t]
      BY <3>1, <3>2 DEF IndexOf, Put
    <3>4. index' = IndexOf(messages')
      <4>1. index' = [index EXCEPT ![op.msg.type] = @ \cup {op.id}]
        BY <1>7, <2>2 DEF Apply
      <4>2. index \in [Types -> SUBSET Ids] /\ op.msg.type \in Types
        BY <3>1 DEF TypeOK, Message
      <4>3. IndexOf(messages') = [t \in Types |-> IndexOf(messages')[t]]
        BY DEF IndexOf
      <4> QED  BY <2>1, <3>3, <4>1, <4>2, <4>3
    <3> QED  BY <2>1, <3>4 DEF IndexInv, IndexOf
  <2>3. CASE op.kind # "save"
    <3>1. messages' = Without(messages, op.ids)
      BY <1>7, <2>3 DEF Apply, Applied
    <3>2. index' = IndexOf(messages')
      BY <1>7, <2>1, <2>3, <3>1 DEF Apply, IndexOf, Without
    <3> QED  BY <2>1, <3>2 DEF IndexInv, IndexOf
  <2> QED  BY <2>2, <2>3
<1>8. ASSUME WriteTmp \/ Rename \/ Truncate  PROVE IndexInv'
  BY <1>8 DEF WriteTmp, Rename, Truncate, Return, Throw, IndexInv, IndexOf, memory
<1>9. ASSUME Restart  PROVE IndexInv'
  BY <1>9 DEF Restart, IndexInv, IndexOf
<1>10. CASE UNCHANGED vars
  BY <1>10 DEF vars, memory, IndexInv, IndexOf
<1>11. Clear \/ Crash =>
          NoMessages = messages' /\ NoIndex = index' /\ pc' \notin {"append", "apply"}
  BY DEF Clear, Crash
<1> QED
  BY <1>1, <1>2, <1>3, <1>4, <1>5, <1>6, <1>7, <1>8, <1>9, <1>10, <1>11
     DEF Next, Call, Step

\* Between operations the type index is the one a restart would build from the
\* messages held, whatever file operations fail, clear() included.
THEOREM IndexCorrect == ClearSpec => []IndexAgrees
<1>1. Init => IndexInv
  BY EmptyMap DEF Init, IndexInv, IndexOf, NoIndex
<1>2. TypeOK /\ IndexInv /\ [Next \/ Clear]_vars => TypeOK' /\ IndexInv'
  BY TypeStep, IndexStep
<1>3. IndexInv => IndexAgrees
  BY DEF IndexInv, IndexAgrees
<1> QED  BY TypeInit, <1>1, <1>2, <1>3, PTL DEF ClearSpec

-----------------------------------------------------------------------------
(* The log and the promises, when the log accepts every append.             *)

LogAppends == Faults \cap {"append", "torn"} = {}

LEMMA SameFactsReflexive == \A ms : SameFacts(ms, ms)
  BY DEF SameFacts

\* Applying one call to maps that agree leaves them agreeing.
LEMMA AppliedSame ==
    ASSUME NEW ms, NEW ns, NEW o, SameFacts(ms, ns)
    PROVE  SameFacts(Applied(ms, o), Applied(ns, o))
  BY DEF SameFacts, Applied, Put, Without

\* The call in progress, appended to the log, is applied to what a restart loads.
LEMMA LoggedCall ==
    ASSUME StoreInv, pc = "append", wal' = Append(wal, op), snapshot' = snapshot
    PROVE  Durable' = Applied(Durable, op)
<1>1. op \in Entry /\ wal \in Seq(Entry) /\ Loaded \in MessageMaps
  BY LoadedType DEF StoreInv, TypeOK
<1>2. Loaded' = Loaded
  BY DEF Loaded
<1>3. CASE op.kind = "save"
  <2>1. op \in SaveEntry
    BY <1>1, <1>3 DEF Entry, DeleteEntry
  <2>2. op.id \notin DOMAIN Durable
    BY <1>3 DEF StoreInv, IndexInv, LogInv, SameFacts
  <2> QED  BY <1>1, <1>2, <1>3, <2>1, <2>2, ReplaySave DEF Durable, Applied
<1>4. CASE op.kind # "save"
  <2>1. op \in DeleteEntry
    BY <1>1, <1>4 DEF Entry, SaveEntry
  <2> QED  BY <1>1, <1>2, <1>4, <2>1, ReplayDelete DEF Durable, Applied
<1> QED  BY <1>3, <1>4

\* A call that begins.
LEMMA CallStep == StoreInv /\ Call => LogInv' /\ ClockInv' /\ PromiseInv'
<1> SUFFICES ASSUME StoreInv, Call  PROVE LogInv' /\ ClockInv' /\ PromiseInv'
  OBVIOUS
<1> USE DEF StoreInv
<1>0. /\ pc = "idle" /\ SameFacts(Durable, messages) /\ Durable' = Durable
      /\ messages \in MessageMaps /\ clock \in Nat
  BY DEF Call, Save, Delete, MarkSynced, Snapshot, disk, memory, Durable, Loaded,
         TypeOK, LogInv
<1>1. \A i \in DOMAIN messages : messages[i].lamport \in Nat
  BY <1>0, BoundsAssumption DEF MessageMaps, Message
<1>2. ASSUME NEW id \in Ids, NEW t \in Types, NEW remote \in 0..MaxLamport,
             NEW s \in BOOLEAN, Save(id, t, remote, s)
      PROVE  LogInv' /\ ClockInv' /\ PromiseInv'
  <2>1. clock' \in Nat /\ clock < clock' /\ messages' = messages /\ clock' = Tick(remote)
    BY <1>0, <1>2 DEF Save, Tick
  <2>2. LogInv'
    BY <1>0, <1>2 DEF Save, disk, LogInv
  <2>3. ClockInv'
    BY <1>0, <1>1, <1>2, <2>1 DEF Save, ClockInv, LamportOrder
  <2>4. PromiseInv'
    BY <1>0, <1>2, <2>1 DEF Save, PromiseInv, AckedSurvives, DeletedStaysGone, SameFacts,
                       TypeOK
  <2> QED  BY <2>2, <2>3, <2>4
<1>3. ASSUME NEW ids \in SUBSET Ids, Delete(ids)
      PROVE  LogInv' /\ ClockInv' /\ PromiseInv'
  <2>1. LogInv'
    BY <1>0, <1>3 DEF Delete, memory, disk, LogInv
  <2>2. ClockInv'
    BY <1>0, <1>3 DEF Delete, memory, ClockInv, LamportOrder
  <2>3. PromiseInv'
    BY <1>0, <1>3 DEF Delete, memory, PromiseInv, AckedSurvives, DeletedStaysGone
  <2> QED  BY <2>1, <2>2, <2>3
<1>4. ASSUME NEW id \in Ids, MarkSynced(id)
      PROVE  LogInv' /\ ClockInv' /\ PromiseInv'
  <2>1. /\ DOMAIN messages' = DOMAIN messages
        /\ \A i \in DOMAIN messages : /\ messages'[i].type = messages[i].type
                                      /\ messages'[i].lamport = messages[i].lamport
    BY <1>0, <1>4 DEF MarkSynced, MessageMaps, Message
  <2>2. LogInv'
    BY <1>0, <1>4, <2>1 DEF MarkSynced, disk, LogInv, SameFacts
  <2>3. ClockInv'
    BY <1>0, <1>4, <2>1 DEF MarkSynced, ClockInv, LamportOrder
  <2>4. PromiseInv'
    BY <1>0, <1>4, <2>1 DEF MarkSynced, PromiseInv, AckedSurvives, DeletedStaysGone
  <2> QED  BY <2>2, <2>3, <2>4
<1>5. ASSUME Snapshot  PROVE LogInv' /\ ClockInv' /\ PromiseInv'
  BY <1>0, <1>5 DEF Snapshot, memory, disk, LogInv, ClockInv, LamportOrder, PromiseInv, AckedSurvives,
                    DeletedStaysGone
<1> QED  BY <1>2, <1>3, <1>4, <1>5 DEF Call

\* The append: from here on a restart finds the call done.
LEMMA AppendStep ==
    ASSUME LogAppends, StoreInv, WalAppend
    PROVE  LogInv' /\ ClockInv' /\ PromiseInv'
<1> USE DEF StoreInv
<1>1. /\ pc = "append" /\ pc' = "apply" /\ wal' = Append(wal, op) /\ torn' = FALSE
      /\ messages' = messages /\ clock' = clock /\ snapshot' = snapshot /\ tmp' = tmp
      /\ op' = op /\ promise' = promise /\ op \in Entry
  BY DEF WalAppend, AppendOk, AppendFails, LogAppends, LogInv, memory, TypeOK
<1>2. SameFacts(Durable, messages) /\ Durable' = Applied(Durable, op)
  BY <1>1, LoggedCall DEF LogInv
<1>3. SameFacts(Durable', Applied(messages, op))
  BY <1>2, AppliedSame
<1>4. LogInv'
  BY <1>1, <1>3 DEF LogInv
<1>5. ClockInv'
  <2>1. CASE op.kind = "save"
    <3>1. DOMAIN Durable' = DOMAIN Durable \cup {op.id}
      BY <1>2, <2>1 DEF Applied, Put
    <3>2. \A i \in DOMAIN Durable' :
             Durable'[i] = IF i = op.id THEN op.msg ELSE Durable[i]
      BY <1>2, <2>1 DEF Applied, Put
    <3>3. \A i \in DOMAIN Durable : Durable[i].lamport < op.msg.lamport
      BY <1>1, <1>2, <2>1 DEF SameFacts, ClockInv, LamportOrder
    <3>4. op.msg.lamport \in Nat
      BY <1>1, <2>1 DEF ClockInv, LamportOrder, TypeOK
    <3>5. \A i \in DOMAIN Durable : Durable[i].lamport \in Nat
      BY LoadedType, BoundsAssumption DEF MessageMaps, Message
    <3>6. \A i, j \in DOMAIN Durable' :
             Durable'[i].lamport = Durable'[j].lamport => i = j
      BY <3>1, <3>2, <3>3, <3>4, <3>5 DEF ClockInv, LamportOrder
    <3> QED  BY <1>1, <3>6 DEF ClockInv, LamportOrder
  <2>2. CASE op.kind # "save"
    <3>1. /\ DOMAIN Durable' \subseteq DOMAIN Durable
          /\ \A i \in DOMAIN Durable' : Durable'[i] = Durable[i]
      BY <1>2, <2>2 DEF Applied, Without
    <3> QED  BY <1>1, <2>2, <3>1 DEF ClockInv, LamportOrder
  <2> QED  BY <2>1, <2>2
<1>6. PromiseInv'
  <2>1. CASE op.kind = "save"
    <3>1. DOMAIN Durable' = DOMAIN Durable \cup {op.id}
      BY <1>2, <2>1 DEF Applied, Put
    <3> QED  BY <1>1, <2>1, <3>1 DEF PromiseInv, AckedSurvives, DeletedStaysGone
  <2>2. CASE op.kind # "save"
    <3>1. DOMAIN Durable' = DOMAIN Durable \ op.ids
      BY <1>2, <2>2 DEF Applied, Without
    <3> QED  BY <1>1, <2>2, <3>1 DEF PromiseInv, AckedSurvives, DeletedStaysGone
  <2> QED  BY <2>1, <2>2
<1> QED  BY <1>4, <1>5, <1>6

\* The call takes effect in memory.
LEMMA ApplyStep ==
    ASSUME StoreInv, Apply
    PROVE  LogInv' /\ ClockInv' /\ PromiseInv'
<1> USE DEF StoreInv
<1>1. /\ pc = "apply" /\ pc' = "write" /\ messages' = Applied(messages, op)
      /\ clock' = clock /\ snapshot' = snapshot /\ wal' = wal /\ torn' = torn /\ tmp' = tmp
      /\ op' = op /\ promise' = promise /\ op \in Entry /\ clock \in Nat
  BY DEF Apply, disk, TypeOK
<1>2. Durable' = Durable /\ SameFacts(Durable, messages')
  BY <1>1 DEF Durable, Loaded, LogInv
<1>3. LogInv'
  BY <1>1, <1>2 DEF LogInv
<1>4. CASE op.kind = "save"
  <2>1. /\ DOMAIN messages' = DOMAIN messages \cup {op.id}
        /\ \A i \in DOMAIN messages' :
              messages'[i] = IF i = op.id THEN op.msg ELSE messages[i]
    BY <1>1, <1>4 DEF Applied, Put
  <2>2. ClockInv'
    BY <1>1, <1>2, <1>4, <2>1 DEF ClockInv, LamportOrder
  <2>3. PromiseInv'
    BY <1>1, <1>2, <1>4, <2>1 DEF PromiseInv, AckedSurvives, DeletedStaysGone
  <2> QED  BY <1>3, <2>2, <2>3
<1>5. CASE op.kind # "save"
  <2>1. /\ DOMAIN messages' = DOMAIN messages \ op.ids
        /\ \A i \in DOMAIN messages' : messages'[i] = messages[i]
    BY <1>1, <1>5 DEF Applied, Without
  <2>2. ClockInv'
    BY <1>1, <1>2, <2>1 DEF ClockInv, LamportOrder
  <2>3. op.kind = "delete"
    BY <1>1, <1>5 DEF Entry, SaveEntry, DeleteEntry
  <2>4. PromiseInv'
    BY <1>1, <1>2, <1>5, <2>1, <2>3 DEF PromiseInv, AckedSurvives, DeletedStaysGone
  <2> QED  BY <1>3, <2>2, <2>4
<1> QED  BY <1>4, <1>5

\* The temporary file is written, or writing it fails and the call throws.
LEMMA WriteStep ==
    ASSUME StoreInv, WriteTmp
    PROVE  LogInv' /\ ClockInv' /\ PromiseInv'
<1> USE DEF StoreInv
<1>1. /\ pc = "write" /\ pc' \in {"rename", "idle"}
      /\ pc' = "rename" => tmp' = Full(messages)
      /\ messages' = messages /\ clock' = clock
      /\ snapshot' = snapshot /\ wal' = wal /\ torn' = torn
      /\ promise' = promise /\ (pc' = "rename" => op' = op) /\ (pc' = "idle" => op' = NoOp)
  BY DEF WriteTmp, Throw, memory
<1>2. Durable' = Durable /\ NoOp.kind = "none"
  BY <1>1 DEF Durable, Loaded, NoOp
<1>3. LogInv'
  BY <1>1, <1>2 DEF LogInv
<1>4. ClockInv'
  BY <1>1, <1>2 DEF ClockInv, LamportOrder
<1>5. PromiseInv'
  BY <1>1, <1>2 DEF PromiseInv, AckedSurvives, DeletedStaysGone
<1> QED  BY <1>3, <1>4, <1>5

\* The snapshot is replaced, or the rename fails and the call throws.
LEMMA RenameStep ==
    ASSUME StoreInv, Rename
    PROVE  LogInv' /\ ClockInv' /\ PromiseInv'
<1> USE DEF StoreInv
<1>1. /\ pc = "rename" /\ messages' = messages /\ clock' = clock
      /\ wal' = wal /\ torn' = torn /\ SameFacts(Durable, messages)
      /\ messages \in MessageMaps /\ wal \in Seq(Entry)
  BY DEF Rename, memory, LogInv, TypeOK
<1>2. NoOp.kind = "none" /\ op.kind # "clear"
  BY DEF NoOp, LogInv
<1>3. CASE UNCHANGED <<snapshot, tmp>> /\ Throw
  <2>1. Durable' = Durable /\ pc' = "idle" /\ op' = NoOp /\ promise' = promise
    BY <1>1, <1>3 DEF Durable, Loaded, Throw
  <2>2. LogInv'
    BY <1>1, <1>2, <1>3, <2>1 DEF LogInv
  <2>3. ClockInv'
    BY <1>1, <2>1 DEF ClockInv, LamportOrder
  <2>4. PromiseInv'
    BY <1>1, <2>1 DEF PromiseInv, AckedSurvives, DeletedStaysGone
  <2> QED  BY <2>2, <2>3, <2>4
<1>4. CASE snapshot' = tmp
  <2>1. snapshot' = Full(messages)
    BY <1>1, <1>4 DEF LogInv
  <2>2. Loaded' = messages /\ snapshot'.ok
    BY <2>1 DEF Loaded, Full
  <2>3. Loaded \in MessageMaps
    BY LoadedType
  <2>4. SameFacts(Durable', messages)
    BY <1>1, <2>2, <2>3, ReplayRewrite DEF Durable
  <2>5. LogInv'
    BY <1>1, <1>2, <1>4, <2>1, <2>2, <2>4 DEF Rename, Return, Throw, LogInv
  <2>6. pc' \in {"truncate", "idle"}
    BY <1>4 DEF Rename, Return, Throw
  <2>7. ClockInv'
    BY <1>1, <2>4, <2>6 DEF ClockInv, LamportOrder, SameFacts
  <2>8. PromiseInv'
    <3>1. DOMAIN Durable' = DOMAIN Durable /\ DOMAIN Durable = DOMAIN messages
      BY <1>1, <2>4 DEF SameFacts
    <3>2. CASE promise' = promise
      BY <1>1, <2>6, <3>1, <3>2 DEF PromiseInv, AckedSurvives, DeletedStaysGone
    <3>3. CASE op.kind = "save" /\ Return
      <4>1. promise' = [promise EXCEPT ![op.id] =
                            IF op.msg.synced THEN "synced" ELSE "stored"]
        BY <3>3 DEF Return
      <4>2. op.id \in DOMAIN messages
        BY <1>1, <3>3 DEF PromiseInv
      <4> QED  BY <1>1, <2>6, <3>1, <4>1, <4>2
               DEF PromiseInv, AckedSurvives, DeletedStaysGone, TypeOK
    <3>4. CASE op.kind = "delete" /\ Return
      <4>1. promise' = [i \in Ids |-> IF i \in op.ids THEN "deleted" ELSE promise[i]]
        BY <3>4 DEF Return
      <4>2. op.ids \cap DOMAIN messages = {}
        BY <1>1, <3>4 DEF PromiseInv
      <4> QED  BY <1>1, <2>6, <3>1, <4>1, <4>2
               DEF PromiseInv, AckedSurvives, DeletedStaysGone
    <3>5. CASE op.kind = "markSynced" /\ Return
      <4>1. promise' = [promise EXCEPT ![op.id] = "synced"]
        BY <3>5 DEF Return
      <4>2. op.id \in DOMAIN messages
        BY <1>1, <3>5 DEF PromiseInv
      <4> QED  BY <1>1, <2>6, <3>1, <4>1, <4>2
               DEF PromiseInv, AckedSurvives, DeletedStaysGone, TypeOK
    <3>6. op.kind \notin {"save", "delete", "markSynced"} /\ Return => promise' = promise
      BY <1>2 DEF Return
    <3>7. promise' = promise \/ Return
      BY DEF Rename, Throw
    <3> QED  BY <3>2, <3>3, <3>4, <3>5, <3>6, <3>7
  <2> QED  BY <2>5, <2>7, <2>8
<1> QED  BY <1>3, <1>4 DEF Rename

\* The log is emptied behind the snapshot, or stays as it is.
LEMMA TruncateStep ==
    ASSUME StoreInv, Truncate
    PROVE  LogInv' /\ ClockInv' /\ PromiseInv'
<1> USE DEF StoreInv
<1>1. /\ pc = "truncate" /\ op.kind = "snapshot" /\ snapshot = Full(messages)
      /\ messages' = messages /\ clock' = clock /\ snapshot' = snapshot /\ tmp' = tmp
      /\ SameFacts(Durable, messages) /\ messages \in MessageMaps
  BY DEF Truncate, memory, LogInv, TypeOK
<1>2. pc' = "idle" /\ op' = NoOp /\ promise' = promise
  BY <1>1 DEF Truncate, Return
<1>3. Loaded' = messages
  BY <1>1 DEF Loaded, Full
<1>4. SameFacts(Durable', messages) /\ torn' = FALSE
  <2>1. CASE wal' = <<>> /\ torn' = FALSE
    BY <1>1, <1>3, <2>1, ReplayEmpty, SameFactsReflexive DEF Durable
  <2>2. CASE UNCHANGED <<wal, torn>>
    <3>1. Loaded' = Loaded
      BY <1>1 DEF Loaded
    <3> QED  BY <1>1, <2>2, <3>1 DEF Durable, LogInv, TypeOK
  <2> QED  BY <2>1, <2>2 DEF Truncate
<1>5. DOMAIN Durable' = DOMAIN Durable /\ DOMAIN Durable = DOMAIN messages
  BY <1>1, <1>4 DEF SameFacts
<1>6. LogInv'
  BY <1>1, <1>2, <1>4 DEF LogInv, NoOp
<1>7. ClockInv'
  BY <1>1, <1>2, <1>4, <1>5 DEF ClockInv, LamportOrder, SameFacts
<1>8. PromiseInv'
  BY <1>1, <1>2, <1>5 DEF PromiseInv, AckedSurvives, DeletedStaysGone
<1> QED  BY <1>6, <1>7, <1>8

\* The process dies: what a restart would load stays.
LEMMA CrashStep ==
    ASSUME StoreInv, Crash
    PROVE  LogInv' /\ ClockInv' /\ PromiseInv'
<1> USE DEF StoreInv
<1>1. /\ pc' = "down" /\ messages' = NoMessages /\ op' = NoOp /\ DOMAIN NoMessages = {}
      /\ Durable' = Durable /\ snapshot' = snapshot /\ torn' = torn /\ promise' = promise
  BY EmptyMap DEF Crash, Durable, Loaded
<1>2. LogInv'
  BY <1>1 DEF LogInv, NoOp
<1>3. ClockInv'
  BY <1>1 DEF ClockInv, LamportOrder
<1>4. PromiseInv'
  BY <1>1 DEF PromiseInv, AckedSurvives, DeletedStaysGone
<1> QED  BY <1>2, <1>3, <1>4

\* The constructor serves what was durable and seeds the clock above it.
LEMMA RestartStep ==
    ASSUME StoreInv, Restart
    PROVE  LogInv' /\ ClockInv' /\ PromiseInv'
<1> USE DEF StoreInv
<1>1. /\ pc = "down" /\ pc' = "idle" /\ messages' = Durable /\ op' = op
      /\ Durable' = Durable /\ snapshot' = snapshot /\ torn' = torn /\ promise' = promise
  BY DEF Restart, disk, Durable, Loaded
<1>2. LogInv'
  BY <1>1, SameFactsReflexive DEF LogInv
<1>3. Highest(Durable) \in Nat
      /\ \A i \in DOMAIN Durable : Durable[i].lamport \in Nat
                                   /\ Durable[i].lamport <= Highest(Durable)
  BY LoadedType, HighestBounds, BoundsAssumption DEF MessageMaps, Message
<1>4. \A i \in DOMAIN Durable : Durable[i].lamport <= clock'
  <2>1. clock' = IF Highest(Durable) > 0 THEN Highest(Durable) + 1 ELSE 0
    BY DEF Restart
  <2> HIDE DEF StoreInv
  <2> QED  BY <1>3, <2>1
<1>5. ClockInv'
  BY <1>1, <1>4 DEF ClockInv, LamportOrder
<1>6. PromiseInv'
  BY <1>1 DEF PromiseInv, AckedSurvives, DeletedStaysGone
<1> QED  BY <1>2, <1>5, <1>6

\* StoreInv is inductive when the log accepts every append.
LEMMA StoreInvInductive ==
    ASSUME LogAppends
    PROVE  (Init => StoreInv) /\ (StoreInv /\ [Next]_vars => StoreInv')
<1>1. ASSUME Init  PROVE StoreInv
  <2>1. TypeOK
    BY <1>1, TypeInit
  <2>2. IndexInv
    BY <1>1, EmptyMap DEF Init, IndexInv, IndexOf, NoIndex
  <2>3. Durable = NoMessages /\ messages = NoMessages /\ pc = "idle" /\ clock = 0
    BY <1>1, EmptyMap, ReplayEmpty DEF Init, Durable, Loaded, Full
  <2>4. LogInv
    BY <1>1, <2>3, SameFactsReflexive DEF Init, LogInv, Full, NoOp
  <2>5. ClockInv
    BY <2>3, EmptyMap DEF ClockInv, LamportOrder
  <2>6. PromiseInv
    BY <1>1, <2>3, EmptyMap DEF Init, PromiseInv, AckedSurvives, DeletedStaysGone
  <2> QED  BY <2>1, <2>2, <2>4, <2>5, <2>6 DEF StoreInv
<1>2. ASSUME StoreInv, [Next]_vars  PROVE StoreInv'
  <2>1. TypeOK' /\ IndexInv'
    BY <1>2, TypeStep, IndexStep DEF StoreInv
  <2>2. CASE UNCHANGED vars
    <3>1. LogInv'
      BY <1>2, <2>2 DEF StoreInv, LogInv, SameFacts, Durable, Loaded, vars, memory, disk
    <3>2. ClockInv'
      BY <1>2, <2>2 DEF StoreInv, ClockInv, LamportOrder, Durable, Loaded, vars, memory, disk
    <3>3. PromiseInv'
      BY <1>2, <2>2 DEF StoreInv, PromiseInv, AckedSurvives, DeletedStaysGone, Durable,
                        Loaded, vars, memory, disk
    <3> QED  BY <2>1, <3>1, <3>2, <3>3 DEF StoreInv
  <2>3. CASE Next
    <3>1. LogInv' /\ ClockInv' /\ PromiseInv'
      BY <1>2, <2>3, CallStep, AppendStep, ApplyStep, WriteStep, RenameStep,
         TruncateStep, CrashStep, RestartStep DEF Next, Step
    <3> QED  BY <2>1, <3>1 DEF StoreInv
  <2> QED  BY <1>2, <2>2, <2>3
<1> QED  BY <1>1, <1>2

\* Log, snapshot, memory, index, clock and promises fit together at every step of
\* every call, before and after every crash.
THEOREM StoreStaysSound ==
    ASSUME LogAppends  PROVE Spec => []StoreInv
  BY StoreInvInductive, PTL DEF Spec

\* However snapshot writes, renames and truncations fail and whenever the process
\* dies, a write that returned is found by the next restart.
THEOREM AckedWritesSurvive ==
    ASSUME LogAppends  PROVE Spec => []AckedSurvives
<1>1. StoreInv => AckedSurvives
  BY DEF StoreInv, PromiseInv
<1> QED  BY StoreInvInductive, <1>1, PTL DEF Spec

\* A deleted message is neither served nor brought back by a restart.
THEOREM DeletesSurvive ==
    ASSUME LogAppends  PROVE Spec => []DeletedStaysGone
<1>1. StoreInv => DeletedStaysGone
  BY DEF StoreInv, PromiseInv
<1> QED  BY StoreInvInductive, <1>1, PTL DEF Spec

\* The Lamport values of the messages held are distinct and covered by the clock,
\* over any number of restarts.
THEOREM LamportsOrdered ==
    ASSUME LogAppends  PROVE Spec => []LamportOrder
<1>1. StoreInv => LamportOrder
  BY DEF StoreInv, ClockInv
<1> QED  BY StoreInvInductive, <1>1, PTL DEF Spec

-----------------------------------------------------------------------------
(* The store implements MessageMap.                                         *)

LEMMA SameAsFacts ==
    ASSUME NEW ms, NEW ns, SameFacts(ms, ns)
    PROVE  Facts(ms) = Facts(ns)
  BY DEF SameFacts, Facts

\* A logged save adds the facts of one message, later than all others.
LEMMA AddsFacts ==
    ASSUME StoreInv, pc = "append", op.kind = "save", Durable' = Applied(Durable, op)
    PROVE  \E id \in Ids, f \in Abstract!Facts :
              /\ id \notin DOMAIN Facts(Durable)
              /\ \A i \in DOMAIN Facts(Durable) : Facts(Durable)[i].lamport < f.lamport
              /\ Facts(Durable)' = [i \in DOMAIN Facts(Durable) \cup {id} |->
                                      IF i = id THEN f ELSE Facts(Durable)[i]]
<1> DEFINE f == [type |-> op.msg.type, lamport |-> op.msg.lamport]
<1>1. op.id \in Ids /\ op.msg \in Message
  BY DEF StoreInv, TypeOK, Entry, SaveEntry, DeleteEntry
<1>2. f \in Abstract!Facts
  BY <1>1 DEF Abstract!Facts, Message
<1>3. SameFacts(Durable, messages) /\ op.id \notin DOMAIN messages
      /\ \A i \in DOMAIN messages : messages[i].lamport < op.msg.lamport
  BY DEF StoreInv, LogInv, IndexInv, ClockInv
<1>4. DOMAIN Facts(Durable) = DOMAIN Durable
      /\ \A i \in DOMAIN Durable : Facts(Durable)[i].lamport = Durable[i].lamport
  BY DEF Facts
<1>5. op.id \notin DOMAIN Facts(Durable)
      /\ \A i \in DOMAIN Facts(Durable) : Facts(Durable)[i].lamport < f.lamport
  BY <1>3, <1>4 DEF SameFacts
<1>6. Durable' = Put(Durable, op.id, op.msg)
  BY DEF Applied
<1>7. Facts(Durable)' = [i \in DOMAIN Facts(Durable) \cup {op.id} |->
                            IF i = op.id THEN f ELSE Facts(Durable)[i]]
  BY <1>6 DEF Facts, Put
<1> QED  BY <1>1, <1>2, <1>5, <1>7

\* A logged delete removes the facts of its ids.
LEMMA RemovesFacts ==
    ASSUME StoreInv, pc = "append", op.kind # "save", Durable' = Applied(Durable, op)
    PROVE  \E ids \in SUBSET Ids :
              Facts(Durable)' = [i \in DOMAIN Facts(Durable) \ ids |-> Facts(Durable)[i]]
<1>1. op.ids \in SUBSET Ids
  BY DEF StoreInv, TypeOK, Entry, SaveEntry, DeleteEntry
<1>2. Durable' = Without(Durable, op.ids)
  BY DEF Applied
<1>3. Facts(Durable)' = [i \in DOMAIN Facts(Durable) \ op.ids |-> Facts(Durable)[i]]
  BY <1>2 DEF Facts, Without
<1> QED  BY <1>1, <1>3

LEMMA RefinesStep ==
    ASSUME LogAppends, StoreInv, StoreInv', [Next]_vars
    PROVE  [Abstract!Next]_(Abstract!vars)
<1> DEFINE stored == Facts(Durable)
           served == Facts(messages)
<1>1. CASE UNCHANGED vars
  BY <1>1 DEF vars, memory, disk, Durable, Loaded, Facts, Abstract!vars
<1>2. ASSUME Call  PROVE stored' = stored /\ served' = served
  <2>1. pc = "idle" /\ SameFacts(Durable, messages) /\ Durable' = Durable
    BY <1>2 DEF Call, Save, Delete, MarkSynced, Snapshot, disk, memory, Durable, Loaded,
                StoreInv, LogInv
  <2>2. SameFacts(Durable', messages') \/ messages' = messages
    BY <1>2, <2>1 DEF Call, Save, Delete, MarkSynced, Snapshot, memory, StoreInv, LogInv
  <2>3. served = stored /\ stored' = stored
    BY <2>1, SameAsFacts
  <2>4. served' = Facts(messages')
    OBVIOUS
  <2> QED  BY <2>1, <2>2, <2>3, SameAsFacts
<1>3. ASSUME WalAppend  PROVE Abstract!Next
  <2>1. /\ pc = "append" /\ wal' = Append(wal, op) /\ snapshot' = snapshot
        /\ messages' = messages
    BY <1>3 DEF WalAppend, AppendOk, AppendFails, LogAppends, StoreInv, LogInv, memory
  <2>2. Durable' = Applied(Durable, op)
    BY <2>1, LoggedCall
  <2>3. served = stored /\ served' = served
    BY <2>1, SameAsFacts DEF StoreInv, LogInv
  <2>4. CASE op.kind = "save"
    BY <2>1, <2>2, <2>3, <2>4, AddsFacts DEF Abstract!Next, Abstract!Add
  <2>5. CASE op.kind # "save"
    BY <2>1, <2>2, <2>3, <2>5, RemovesFacts DEF Abstract!Next, Abstract!Remove
  <2> QED  BY <2>4, <2>5
<1>4. ASSUME Apply  PROVE served' = stored' /\ stored' = stored
  <2>1. Durable' = Durable /\ pc' = "write"
    BY <1>4 DEF Apply, disk, Durable, Loaded
  <2>2. SameFacts(Durable', messages')
    BY <2>1 DEF StoreInv, LogInv
  <2>3. Facts(Durable') = Facts(messages')
    BY <2>2, SameAsFacts
  <2> QED  BY <2>1, <2>3
<1>5. ASSUME WriteTmp \/ Rename \/ Truncate  PROVE stored' = stored /\ served' = served
  <2>1. messages' = messages /\ pc \in {"write", "rename", "truncate"}
        /\ pc' \notin {"down", "apply"}
    BY <1>5 DEF WriteTmp, Rename, Truncate, memory, Return, Throw
  <2>2. SameFacts(Durable, messages) /\ SameFacts(Durable', messages')
    BY <2>1 DEF StoreInv, LogInv
  <2>3. Facts(Durable) = Facts(messages) /\ Facts(Durable') = Facts(messages')
    BY <2>2, SameAsFacts
  <2> QED  BY <2>1, <2>3
<1>6. ASSUME Crash  PROVE served' = Abstract!Empty /\ stored' = stored
  <2>1. Durable' = Durable /\ messages' = NoMessages
    BY <1>6 DEF Crash, Durable, Loaded
  <2>2. Facts(NoMessages) = Abstract!Empty
    BY EmptyMap DEF Facts, Abstract!Empty
  <2> QED  BY <2>1, <2>2
<1>7. ASSUME Restart  PROVE served' = stored' /\ stored' = stored
  BY <1>7 DEF Restart, disk, Durable, Loaded
<1>8. CASE Call \/ WriteTmp \/ Rename \/ Truncate
  BY <1>2, <1>5, <1>8 DEF Abstract!vars
<1>9. CASE Apply \/ Restart
  BY <1>4, <1>7, <1>9 DEF Abstract!Next, Abstract!Serve
<1>10. CASE Crash
  BY <1>6, <1>10 DEF Abstract!Next, Abstract!Die
<1> QED  BY <1>1, <1>3, <1>8, <1>9, <1>10 DEF Next, Step

\* What a restart loads changes only by whole calls: the store with its snapshot
\* and its log implements a map that crashes do not touch.
THEOREM StoreImplementsMap ==
    ASSUME LogAppends  PROVE Spec => ImplementsMap
<1>1. Init => Abstract!Init
  <2> SUFFICES ASSUME Init  PROVE Abstract!Init
    OBVIOUS
  <2>1. Durable = NoMessages /\ messages = NoMessages
    BY EmptyMap, ReplayEmpty DEF Init, Durable, Loaded, Full
  <2>2. Facts(NoMessages) = Abstract!Empty
    BY EmptyMap DEF Facts, Abstract!Empty
  <2> QED  BY <2>1, <2>2 DEF Abstract!Init
<1>2. StoreInv /\ StoreInv' /\ [Next]_vars => [Abstract!Next]_(Abstract!vars)
  BY RefinesStep
<1> QED  BY StoreInvInductive, <1>1, <1>2, PTL DEF Spec, ImplementsMap, Abstract!Spec
-----------------------------------------------------------------------------
(* The replay as a loop.                                                    *)

\* What is replayed depends on where the log saves and deletes which ids.
LEMMA ReplaySameLog ==
    ASSUME NEW snap \in MessageMaps, NEW v \in Seq(Entry), NEW w \in Seq(Entry),
           \A id : Deletes(v, id) = Deletes(w, id) /\ Saves(v, id) = Saves(w, id),
           \A id : \A i \in Saves(w, id) : v[i] = w[i]
    PROVE  Replay(snap, v) = Replay(snap, w)
<1>1. \A id : LiveSaves(v, id) = LiveSaves(w, id)
  BY DEF LiveSaves
<1>2. \A id : Kept(snap, v, id) <=> Kept(snap, w, id)
  BY DEF Kept
<1>3. ReplayedIds(snap, v) = ReplayedIds(snap, w)
  BY <1>1, <1>2 DEF ReplayedIds
<1>4. ASSUME NEW id \in ReplayedIds(snap, w)
      PROVE  Replay(snap, v)[id] = Replay(snap, w)[id]
  <2>1. CASE Kept(snap, w, id)
    BY <1>2, <1>3, <2>1 DEF Replay
  <2>2. CASE ~ Kept(snap, w, id)
    <3>1. First(LiveSaves(w, id)) \in Saves(w, id)
      BY <1>4, <2>2, FirstLiveSave DEF ReplayedIds, LiveSaves
    <3> QED  BY <1>1, <1>2, <1>3, <2>2, <3>1 DEF Replay
  <2> QED  BY <2>1, <2>2
<1>5. /\ Replay(snap, v) = [id \in ReplayedIds(snap, v) |-> Replay(snap, v)[id]]
      /\ Replay(snap, w) = [id \in ReplayedIds(snap, w) |-> Replay(snap, w)[id]]
  BY DEF Replay
<1> QED  BY <1>3, <1>4, <1>5

\* Later positions leave the first one where it is.
LEMMA FirstExtended ==
    ASSUME NEW n \in Nat, NEW L \in SUBSET (1..n), L # {},
           NEW M \in SUBSET (L \cup {n + 1}), L \subseteq M
    PROVE  First(M) = First(L) /\ First(L) \in 1..n
<1>1. PICK k \in L : \A j \in L : k <= j
  <2>1. L \in SUBSET Nat
    OBVIOUS
  <2> QED  BY <2>1, LeastNatural
<1>2. k \in 1..n /\ k \in M /\ \A j \in M : k <= j /\ j \in Int
  BY <1>1
<1>3. First(L) \in L /\ \A j \in L : First(L) <= j
  BY <1>1 DEF First
<1>4. First(M) \in M /\ \A j \in M : First(M) <= j
  BY <1>2 DEF First
<1>5. First(L) \in Int /\ First(L) <= k /\ k <= First(L)
  <2>1. First(L) \in 1..n
    BY <1>3
  <2>2. First(L) \in Int
    <3> DEFINE x == First(L)
    <3> HIDE DEF x
    <3>1. x \in Int
      BY <2>1 DEF x
    <3> QED  BY <3>1 DEF x
  <2> QED  BY <1>1, <1>3, <2>2
<1>6. First(M) \in Int /\ First(M) <= k /\ k <= First(M)
  BY <1>2, <1>4
<1> QED  BY <1>2, <1>5, <1>6

\* A logged save of an id that is there, which the loop skips, changes nothing.
LEMMA ReplayKnown ==
    ASSUME NEW snap \in MessageMaps, NEW w \in Seq(Entry), NEW e \in SaveEntry,
           e.id \in DOMAIN Replay(snap, w)
    PROVE  Replay(snap, Append(w, e)) = Replay(snap, w)
<1> DEFINE v == Append(w, e)
           n == Len(w) + 1
<1>0. e \in Entry /\ e.kind = "save" /\ e.id \in Ids
  BY DEF Entry, SaveEntry
<1>1. n \in Nat /\ n \notin 1..Len(w) /\ v[n] = e /\ \A i \in 1..Len(w) : v[i] = w[i]
  BY <1>0, AppendedEntry
<1>2. \A id : Deletes(v, id) = Deletes(w, id)
  BY <1>0, AppendedEntry
<1>3. \A id : id # e.id => Saves(v, id) = Saves(w, id)
  BY <1>0, AppendedEntry
<1>4. Saves(v, e.id) = Saves(w, e.id) \cup {n}
  BY <1>0, AppendedEntry
<1>5. DOMAIN Replay(snap, w) = ReplayedIds(snap, w)
  BY DEF Replay
<1>6. Kept(snap, w, e.id) \/ LiveSaves(w, e.id) # {}
  BY <1>5 DEF ReplayedIds
<1>7. \A id : id # e.id => LiveSaves(v, id) = LiveSaves(w, id)
  BY <1>2, <1>3 DEF LiveSaves
<1>8. LiveSaves(w, e.id) \subseteq LiveSaves(v, e.id)
      /\ LiveSaves(v, e.id) \subseteq LiveSaves(w, e.id) \cup {n}
  BY <1>2, <1>4 DEF LiveSaves
<1>9. \A id : Kept(snap, v, id) <=> Kept(snap, w, id)
  BY <1>2 DEF Kept
<1>10. ReplayedIds(snap, v) = ReplayedIds(snap, w)
  <2>1. e.id \in ReplayedIds(snap, v) /\ e.id \in ReplayedIds(snap, w)
    BY <1>0, <1>6, <1>8, <1>9 DEF ReplayedIds
  <2>2. \A id : id # e.id => (id \in ReplayedIds(snap, v) <=> id \in ReplayedIds(snap, w))
    BY <1>7, <1>9 DEF ReplayedIds
  <2>3. \A id : id \in ReplayedIds(snap, v) <=> id \in ReplayedIds(snap, w)
    BY <2>1, <2>2
  <2> QED  BY <2>3 DEF ReplayedIds
<1>11. ASSUME NEW id \in ReplayedIds(snap, w)
       PROVE  Replay(snap, v)[id] = Replay(snap, w)[id]
  <2>1. CASE Kept(snap, w, id)
    BY <1>9, <1>10, <2>1 DEF Replay
  <2>2. CASE ~ Kept(snap, w, id)
    <3>1. LiveSaves(w, id) # {} /\ LiveSaves(w, id) \in SUBSET (1..Len(w))
      BY <1>11, <2>2 DEF ReplayedIds, LiveSaves, Saves
    <3>2. /\ LiveSaves(w, id) \subseteq LiveSaves(v, id)
          /\ LiveSaves(v, id) \subseteq LiveSaves(w, id) \cup {n}
      BY <1>7, <1>8
    <3>3. First(LiveSaves(v, id)) = First(LiveSaves(w, id)) /\ First(LiveSaves(w, id)) \in 1..Len(w)
      BY <3>1, <3>2, FirstExtended
    <3>4. v[First(LiveSaves(w, id))] = w[First(LiveSaves(w, id))]
      BY <3>3, <1>1
    <3> QED  BY <1>9, <1>10, <1>11, <2>2, <3>3, <3>4 DEF Replay
  <2> QED  BY <2>1, <2>2
<1>12. /\ Replay(snap, v) = [id \in ReplayedIds(snap, v) |-> Replay(snap, v)[id]]
       /\ Replay(snap, w) = [id \in ReplayedIds(snap, w) |-> Replay(snap, w)[id]]
  BY DEF Replay
<1> QED  BY <1>10, <1>11, <1>12

\* One entry more in the log is one turn more of the loop.
LEMMA ReplayTurn ==
    ASSUME NEW snap \in MessageMaps, NEW w \in Seq(Entry), NEW e \in Entry
    PROVE  Replay(snap, Append(w, e)) = ReplayEntry(Replay(snap, w), e)
<1>1. CASE e \in DeleteEntry
  <2>1. e.kind = "delete"
    BY <1>1 DEF DeleteEntry
  <2>2. ReplayEntry(Replay(snap, w), e) = Without(Replay(snap, w), e.ids)
    BY <2>1 DEF ReplayEntry
  <2> QED  BY <1>1, <2>2, ReplayDelete
<1>2. CASE e \in SaveEntry
  <2>1. e.kind = "save"
    BY <1>2 DEF SaveEntry
  <2>2. CASE e.id \in DOMAIN Replay(snap, w)
    <3>1. ReplayEntry(Replay(snap, w), e) = Replay(snap, w)
      BY <2>1, <2>2 DEF ReplayEntry
    <3> QED  BY <1>2, <2>2, <3>1, ReplayKnown
  <2>3. CASE e.id \notin DOMAIN Replay(snap, w)
    <3>1. ReplayEntry(Replay(snap, w), e) = Put(Replay(snap, w), e.id, e.msg)
      BY <2>1, <2>3 DEF ReplayEntry
    <3> QED  BY <1>2, <2>3, <3>1, ReplaySave
  <2> QED  BY <2>2, <2>3
<1> QED  BY <1>1, <1>2 DEF Entry

\* The log with the entries outside T emptied.
Only(w, T) == [i \in 1..Len(w) |-> IF i \in T THEN w[i] ELSE [kind |-> "delete", ids |-> {}]]

LEMMA OnlyFacts ==
    ASSUME NEW w \in Seq(Entry), NEW T \in SUBSET (1..Len(w))
    PROVE  /\ Only(w, T) \in Seq(Entry) /\ Len(Only(w, T)) = Len(w)
           /\ \A i \in T : Only(w, T)[i] = w[i]
           /\ \A id : /\ Saves(Only(w, T), id) = Saves(w, id) \cap T
                      /\ Deletes(Only(w, T), id) = Deletes(w, id) \cap T
<1> DEFINE nop == [kind |-> "delete", ids |-> {}]
           v == Only(w, T)
<1>1. nop \in Entry /\ nop.kind = "delete" /\ nop.ids = {}
  BY DEF Entry, DeleteEntry
<1>2. Len(w) \in Nat /\ \A i \in 1..Len(w) : w[i] \in Entry
  OBVIOUS
<1>3. /\ v \in [1..Len(w) -> Entry]
      /\ \A i \in 1..Len(w) : v[i] = IF i \in T THEN w[i] ELSE nop
  BY <1>1, <1>2 DEF Only
<1> HIDE DEF v, nop
<1>4. v \in Seq(Entry) /\ Len(v) = Len(w)
  BY <1>2, <1>3
<1>5. \A id : Saves(v, id) = Saves(w, id) \cap T
  BY <1>1, <1>3, <1>4 DEF Saves
<1>6. \A id : Deletes(v, id) = Deletes(w, id) \cap T
  BY <1>1, <1>3, <1>4 DEF Deletes
<1>7. \A i \in T : v[i] = w[i]
  BY <1>3
<1> QED  BY <1>4, <1>5, <1>6, <1>7 DEF v

\* Replaying the entries of T ends with a turn for the last of them.
LEMMA ReplayLast ==
    ASSUME NEW snap \in MessageMaps, NEW w \in Seq(Entry), NEW T \in SUBSET (1..Len(w)),
           NEW m \in T, \A i \in T : i <= m
    PROVE  Replay(snap, Only(w, T)) = ReplayEntry(Replay(snap, Only(w, T \ {m})), w[m])
<1> DEFINE u == [i \in 1..(m-1) |-> Only(w, T)[i]]
           a == Append(u, w[m])
<1>1. m \in 1..Len(w) /\ m - 1 \in Nat /\ w[m] \in Entry /\ Len(w) \in Nat
  OBVIOUS
<1>2. /\ Only(w, T) \in Seq(Entry) /\ Len(Only(w, T)) = Len(w)
      /\ \A i \in T : Only(w, T)[i] = w[i]
      /\ \A id : /\ Saves(Only(w, T), id) = Saves(w, id) \cap T
                 /\ Deletes(Only(w, T), id) = Deletes(w, id) \cap T
  BY OnlyFacts
<1>3. T \ {m} \in SUBSET (1..Len(w))
  OBVIOUS
<1>4. /\ Only(w, T \ {m}) \in Seq(Entry) /\ Len(Only(w, T \ {m})) = Len(w)
      /\ \A i \in T \ {m} : Only(w, T \ {m})[i] = w[i]
      /\ \A id : /\ Saves(Only(w, T \ {m}), id) = Saves(w, id) \cap (T \ {m})
                 /\ Deletes(Only(w, T \ {m}), id) = Deletes(w, id) \cap (T \ {m})
  BY <1>3, OnlyFacts
<1>5. /\ u \in Seq(Entry) /\ Len(u) = m - 1
      /\ \A i \in 1..(m-1) : u[i] = Only(w, T)[i]
  <2>1. \A i \in 1..(m-1) : Only(w, T)[i] \in Entry
    BY <1>1, <1>2
  <2>2. u \in [1..(m-1) -> Entry]
    BY <2>1
  <2> QED  BY <1>1, <2>2
<1> HIDE DEF u
<1>6. \A id : /\ Saves(u, id) = Saves(w, id) \cap (T \ {m})
              /\ Deletes(u, id) = Deletes(w, id) \cap (T \ {m})
  <2> SUFFICES ASSUME NEW id
               PROVE  /\ Saves(u, id) = Saves(w, id) \cap (T \ {m})
                      /\ Deletes(u, id) = Deletes(w, id) \cap (T \ {m})
    OBVIOUS
  <2>1. Saves(u, id) = {i \in Saves(Only(w, T), id) : i # m}
    <3>1. \A i \in Saves(Only(w, T), id) : i <= m
      BY <1>2
    <3>2. 1..(m-1) = {i \in 1..m : i # m}
      BY <1>1
    <3> QED  BY <1>1, <1>2, <1>5, <3>1, <3>2 DEF Saves
  <2>2. Deletes(u, id) = {i \in Deletes(Only(w, T), id) : i # m}
    <3>1. \A i \in Deletes(Only(w, T), id) : i <= m
      BY <1>2
    <3>2. 1..(m-1) = {i \in 1..m : i # m}
      BY <1>1
    <3> QED  BY <1>1, <1>2, <1>5, <3>1, <3>2 DEF Deletes
  <2> QED  BY <1>2, <2>1, <2>2
<1>7. \A id : \A i \in Saves(w, id) \cap (T \ {m}) : u[i] = w[i]
  <2> SUFFICES ASSUME NEW id, NEW i \in Saves(w, id) \cap (T \ {m}) PROVE u[i] = w[i]
    OBVIOUS
  <2>1. i \in 1..Len(w) /\ i <= m /\ i # m /\ i \in T
    OBVIOUS
  <2>2. i \in 1..(m-1)
    BY <2>1, <1>1
  <2> QED  BY <1>2, <1>5, <2>1, <2>2
<1>8. Replay(snap, u) = Replay(snap, Only(w, T \ {m}))
  <2> DEFINE z == Only(w, T \ {m})
  <2> HIDE DEF z
  <2>1. z \in Seq(Entry) /\ u \in Seq(Entry)
    BY <1>4, <1>5 DEF z
  <2>2. \A id : Deletes(u, id) = Deletes(z, id) /\ Saves(u, id) = Saves(z, id)
    BY <1>4, <1>6 DEF z
  <2>3. \A id : \A i \in Saves(z, id) : u[i] = z[i]
    BY <1>4, <1>7 DEF z
  <2>4. Replay(snap, u) = Replay(snap, z)
    BY <2>1, <2>2, <2>3, ReplaySameLog
  <2> QED  BY <2>4 DEF z
<1>9. /\ a \in Seq(Entry)
      /\ Replay(snap, a) = ReplayEntry(Replay(snap, u), w[m])
  BY <1>1, <1>5, ReplayTurn
<1>10. ASSUME NEW id
       PROVE  /\ Saves(a, id) = Saves(w, id) \cap T
              /\ Deletes(a, id) = Deletes(w, id) \cap T
              /\ \A i \in Saves(a, id) : a[i] = w[i]
  <2>1. Len(u) + 1 = m /\ a[m] = w[m] /\ \A i \in 1..(m-1) : a[i] = u[i]
    BY <1>1, <1>5, AppendedEntry
  <2>2. Saves(a, id) = IF w[m].kind = "save" /\ w[m].id = id THEN Saves(u, id) \cup {m}
                                                             ELSE Saves(u, id)
    <3>1. CASE w[m].kind = "save" /\ w[m].id = id
      BY <1>1, <1>5, <2>1, <3>1, AppendedEntry
    <3>2. CASE ~ (w[m].kind = "save" /\ w[m].id = id)
      BY <1>1, <1>5, <2>1, <3>2, AppendedEntry
    <3> QED  BY <3>1, <3>2
  <2>3. Deletes(a, id) = IF w[m].kind = "delete" /\ id \in w[m].ids THEN Deletes(u, id) \cup {m}
                                                                    ELSE Deletes(u, id)
    <3>1. CASE w[m].kind = "delete" /\ id \in w[m].ids
      BY <1>1, <1>5, <2>1, <3>1, AppendedEntry
    <3>2. CASE ~ (w[m].kind = "delete" /\ id \in w[m].ids)
      BY <1>1, <1>5, <2>1, <3>2, AppendedEntry
    <3> QED  BY <3>1, <3>2
  <2>4. Saves(a, id) = Saves(w, id) \cap T
    <3>1. m \in Saves(w, id) <=> w[m].kind = "save" /\ w[m].id = id
      BY <1>1 DEF Saves
    <3>2. Saves(u, id) = Saves(w, id) \cap (T \ {m})
      BY <1>6
    <3>3. CASE m \in Saves(w, id)
      <4>1. Saves(a, id) = Saves(u, id) \cup {m}
        BY <3>1, <3>3, <2>2
      <4> QED  BY <3>2, <3>3, <4>1
    <3>4. CASE m \notin Saves(w, id)
      <4>1. Saves(a, id) = Saves(u, id)
        BY <3>1, <3>4, <2>2
      <4> QED  BY <3>2, <3>4, <4>1
    <3> QED  BY <3>3, <3>4
  <2>5. Deletes(a, id) = Deletes(w, id) \cap T
    <3>1. m \in Deletes(w, id) <=> w[m].kind = "delete" /\ id \in w[m].ids
      BY <1>1 DEF Deletes
    <3>2. Deletes(u, id) = Deletes(w, id) \cap (T \ {m})
      BY <1>6
    <3>3. CASE m \in Deletes(w, id)
      <4>1. Deletes(a, id) = Deletes(u, id) \cup {m}
        BY <3>1, <3>3, <2>3
      <4> QED  BY <3>2, <3>3, <4>1
    <3>4. CASE m \notin Deletes(w, id)
      <4>1. Deletes(a, id) = Deletes(u, id)
        BY <3>1, <3>4, <2>3
      <4> QED  BY <3>2, <3>4, <4>1
    <3> QED  BY <3>3, <3>4
  <2>6. ASSUME NEW i \in Saves(a, id) PROVE a[i] = w[i]
    <3>1. CASE i = m
      BY <2>1, <3>1
    <3>2. CASE i # m
      <4>1. i \in Saves(w, id) \cap (T \ {m}) /\ i \in 1..Len(w) /\ i <= m
        BY <2>4, <2>6, <3>2
      <4>2. i \in 1..(m-1)
        BY <4>1, <3>2, <1>1
      <4> QED  BY <4>1, <4>2, <2>1, <1>7
    <3> QED  BY <3>1, <3>2
  <2> QED  BY <2>4, <2>5, <2>6
<1> HIDE DEF a
<1>11. \A id : \A i \in Saves(a, id) : Only(w, T)[i] = a[i]
  BY <1>2, <1>10
<1>12. Replay(snap, Only(w, T)) = Replay(snap, a)
  <2> DEFINE z == Only(w, T)
  <2> HIDE DEF z
  <2>1. z \in Seq(Entry) /\ a \in Seq(Entry)
    BY <1>2, <1>9 DEF z
  <2>2. \A id : Deletes(z, id) = Deletes(a, id) /\ Saves(z, id) = Saves(a, id)
    BY <1>2, <1>10 DEF z
  <2>3. \A id : \A i \in Saves(a, id) : z[i] = a[i]
    BY <1>11 DEF z
  <2>4. Replay(snap, z) = Replay(snap, a)
    BY <2>1, <2>2, <2>3, ReplaySameLog
  <2> QED  BY <2>4 DEF z
<1> QED  BY <1>8, <1>9, <1>12

\* The loop of _load over any snapshot and any log ends with what Replay says.
THEOREM LoopReplays ==
    ASSUME NEW snap \in MessageMaps, NEW w \in Seq(Entry)
    PROVE  FoldLeft(ReplayEntry, snap, w) = Replay(snap, w)
<1> DEFINE D == DOMAIN w
           step(it, s) == IF s = {} THEN snap
                          ELSE ReplayEntry(it[s \ {Max(s)}], w[Max(s)])
           IsIter(it) == it = [s \in SUBSET D |-> step(it, s)]
           iter == CHOOSE it : IsIter(it)
           g == [s \in SUBSET D |-> Replay(snap, Only(w, s))]
<1>1. FoldLeft(ReplayEntry, snap, w) = iter[D]
  BY DEF FoldLeft, MapThenFoldSet
<1>2. D = 1..Len(w) /\ Len(w) \in Nat
  OBVIOUS
<1>3. ASSUME NEW s \in SUBSET D, s # {}
      PROVE  Max(s) \in s /\ \A i \in s : i <= Max(s)
  <2> DEFINE H == {Len(w) - i : i \in s}
  <2>1. H \in SUBSET Nat /\ H # {}
    <3>1. ASSUME NEW i \in s PROVE Len(w) - i \in Nat
      BY <1>2
    <3>2. PICK i \in s : TRUE
      BY <1>3
    <3>3. Len(w) - i \in H
      BY <3>2
    <3> QED  BY <3>1, <3>3
  <2>2. PICK h \in H : \A k \in H : h <= k
    <3> HIDE DEF H
    <3> QED  BY <2>1, LeastNatural
  <2>3. PICK m \in s : h = Len(w) - m
    BY <2>2
  <2>4. ASSUME NEW i \in s PROVE m >= i
    <3>1. Len(w) - m <= Len(w) - i
      BY <2>2, <2>3
    <3> QED  BY <3>1, <1>2
  <2>5. Max(s) \in s /\ \A i \in s : Max(s) >= i
    BY <2>4 DEF Max
  <2> QED  BY <2>5, <1>2
<1> HIDE DEF D
<1>4. IsIter(g)
  <2>1. ASSUME NEW s \in SUBSET D PROVE g[s] = step(g, s)
    <3>1. CASE s = {}
      <4>1. {} \in SUBSET (1..Len(w))
        OBVIOUS
      <4>2. /\ Only(w, {}) \in Seq(Entry)
            /\ \A id : Saves(Only(w, {}), id) = {} /\ Deletes(Only(w, {}), id) = {}
        BY <4>1, OnlyFacts
      <4>3. <<>> \in Seq(Entry) /\ \A id : Saves(<<>>, id) = {} /\ Deletes(<<>>, id) = {}
        BY DEF Saves, Deletes
      <4>4. \A id : /\ Deletes(Only(w, {}), id) = Deletes(<<>>, id)
                    /\ Saves(Only(w, {}), id) = Saves(<<>>, id)
        BY <4>2, <4>3
      <4>5. \A id : \A i \in Saves(<<>>, id) : Only(w, {})[i] = <<>>[i]
        BY <4>3
      <4>6. Replay(snap, Only(w, {})) = Replay(snap, <<>>)
        BY <4>2, <4>3, <4>4, <4>5, ReplaySameLog
      <4> QED  BY <3>1, <4>6, ReplayEmpty
    <3>2. CASE s # {}
      <4> DEFINE m == Max(s)
      <4>1. m \in s /\ \A i \in s : i <= m
        BY <1>3, <3>2
      <4> HIDE DEF m
      <4>2. Replay(snap, Only(w, s)) = ReplayEntry(Replay(snap, Only(w, s \ {m})), w[m])
        BY <4>1, <1>2, ReplayLast
      <4>3. g[s] = ReplayEntry(g[s \ {m}], w[m])
        BY <4>2
      <4> QED  BY <3>2, <4>3 DEF m
    <3> QED  BY <3>1, <3>2
  <2> HIDE DEF step
  <2>2. g = [s \in SUBSET D |-> g[s]]
    OBVIOUS
  <2> HIDE DEF g
  <2> QED  BY <2>1, <2>2
<1>5. IsIter(iter)
  <2> HIDE DEF IsIter, g
  <2> QED  BY <1>4
<1>6. \A s \in SUBSET D : iter[s] = step(iter, s) /\ g[s] = step(g, s)
  <2> HIDE DEF step, iter, g
  <2> QED  BY <1>4, <1>5
<1> HIDE DEF iter, g
<1> DEFINE Differs == {n \in 0..Len(w) : \E s \in SUBSET (1..n) : iter[s] # g[s]}
<1>7. Differs = {}
  <2> SUFFICES ASSUME Differs # {} PROVE FALSE
    OBVIOUS
  <2>1. Differs \in SUBSET Nat
    OBVIOUS
  <2>2. PICK n \in Differs : \A k \in Differs : n <= k
    <3> HIDE DEF Differs
    <3> QED  BY <2>1, LeastNatural
  <2>3. PICK s \in SUBSET (1..n) : iter[s] # g[s]
    BY <2>2
  <2>4. s \in SUBSET D
    BY <2>2, <1>2
  <2>5. s # {}
    BY <2>3, <2>4, <1>6
  <2> DEFINE m == Max(s)
  <2>6. m \in s /\ \A i \in s : i <= m
    BY <1>3, <2>4, <2>5
  <2>7. iter[s] = ReplayEntry(iter[s \ {m}], w[m]) /\ g[s] = ReplayEntry(g[s \ {m}], w[m])
    BY <1>6, <2>4, <2>5
  <2> HIDE DEF m
  <2>8. iter[s \ {m}] # g[s \ {m}]
    BY <2>3, <2>7
  <2>9. s \ {m} \in SUBSET (1..n-1) /\ n - 1 \in 0..Len(w)
    BY <2>2, <2>6
  <2>10. n - 1 \in Differs
    BY <2>8, <2>9
  <2>11. n \in Nat
    BY <2>1
  <2> HIDE DEF Differs
  <2>12. n <= n - 1
    BY <2>2, <2>10
  <2> QED  BY <2>11, <2>12
<1>8. iter[D] = g[D]
  BY <1>2, <1>7
<1>9. g[D] = Replay(snap, w)
  <2>1. /\ Only(w, D) \in Seq(Entry)
        /\ \A id : Saves(Only(w, D), id) = Saves(w, id) /\ Deletes(Only(w, D), id) = Deletes(w, id)
        /\ \A i \in D : Only(w, D)[i] = w[i]
    BY <1>2, OnlyFacts DEF Saves, Deletes
  <2>2. \A id : \A i \in Saves(w, id) : Only(w, D)[i] = w[i]
    BY <2>1, <1>2 DEF Saves
  <2>3. Replay(snap, Only(w, D)) = Replay(snap, w)
    BY <2>1, <2>2, ReplaySameLog
  <2> QED  BY <2>3 DEF g
<1> QED  BY <1>1, <1>8, <1>9

\* At any time, whatever fails, restarting would load what Durable says
\* (src/store.js:50-77): the loop over the log is Replay.
THEOREM ReplayLoops == Spec => []ReplayIsLoop
<1>1. TypeOK => ReplayIsLoop
  BY LoadedType, LoopReplays DEF TypeOK, ReplayIsLoop, Durable
<1> QED  BY <1>1, StoreTyped, PTL
=============================================================================
