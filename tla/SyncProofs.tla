----------------------------- MODULE SyncProofs -----------------------------
(***************************************************************************)
(* Proofs about Sync for any set of messages and any bound on the runs:     *)
(* one run at a time, marks only for what the remote accepted, and no push  *)
(* of what was confirmed.                                                   *)
(***************************************************************************)
EXTENDS Sync, FiniteSetTheorems, TLAPS

Typed ==
    /\ monitored \in BOOLEAN
    /\ status \in [Ids -> {"absent", "unsynced", "synced"}]
    /\ remote \subseteq Ids
    /\ tier \in Tiers
    /\ online \in BOOLEAN /\ syncing \in BOOLEAN /\ timer \in BOOLEAN
    /\ runs \subseteq Run

TimerInHotspot == timer => monitored /\ tier = "hotspot" /\ online

\* The flag is what admits a run: it is up exactly while the one run lasts.
Alone == (\A r, s \in runs : r = s) /\ (syncing <=> runs # {})

\* An answer says that the message at hand was accepted, and so does a mark.
AcceptedIsRemote ==
    /\ \A r \in runs : r.accepted => r.cur \in remote
    /\ \A id \in Ids : status[id] = "synced" => id \in remote

\* What is confirmed is marked, and what a run still has to push is neither
\* confirmed nor at hand.
ConfirmedIsMarked ==
    /\ deleted \subseteq Ids /\ fragile \cup confirmed \subseteq Synced
    /\ \A r \in runs : r.cur \notin confirmed /\ r.cur \notin r.todo
                        /\ r.todo \cap confirmed = {}

IInv == Typed /\ TimerInHotspot /\ Alone /\ AcceptedIsRemote /\ ConfirmedIsMarked

-----------------------------------------------------------------------------
LEMMA InitInv == Init => IInv
BY SyncAssumption DEF Init, IInv, Typed, TimerInHotspot, Alone, AcceptedIsRemote,
    ConfirmedIsMarked, Tiers, Synced

\* The start of a run keeps everything about runs, whoever starts it.
LEMMA SyncAllInv ==
    ASSUME IInv, SyncAll, UNCHANGED <<storeVars, remote>>
    PROVE  /\ runs' \subseteq Run /\ syncing' \in BOOLEAN
           /\ Alone' /\ AcceptedIsRemote' /\ ConfirmedIsMarked'
<1>1. CASE syncing
  BY <1>1 DEF SyncAll, IInv, Typed, Alone, AcceptedIsRemote, ConfirmedIsMarked,
      storeVars, Synced
<1>2. CASE ~syncing
  <2>1. NewRun \in Run /\ NewRun.cur = None /\ ~NewRun.accepted /\ NewRun.todo = Unsynced
    BY DEF NewRun, Run, Unsynced
  <2>2. runs = {} /\ runs' = {NewRun} /\ syncing' = TRUE
    BY <1>2 DEF SyncAll, IInv, Alone
  <2>3. Unsynced \cap Synced = {} /\ None \notin Synced /\ None \notin Unsynced
    BY SyncAssumption DEF Unsynced, Synced
  <2>. QED
    BY <2>1, <2>2, <2>3 DEF IInv, Typed, Alone, AcceptedIsRemote, ConfirmedIsMarked,
        storeVars, Synced
<1>. QED BY <1>1, <1>2

LEMMA TierChangeInv == ASSUME IInv, NEW t \in Tiers, TierChange(t) PROVE IInv'
<1>1. tier' \in Tiers /\ online' \in BOOLEAN /\ timer' \in BOOLEAN
  BY DEF TierChange
<1>2. TimerInHotspot'
  BY DEF TierChange, TimerInHotspot
<1>3. UNCHANGED <<monitored, storeVars, remote>>
  BY DEF TierChange
<1>4. CASE SyncAll
  BY <1>1, <1>2, <1>3, <1>4, SyncAllInv DEF IInv, Typed, storeVars
<1>5. CASE UNCHANGED <<syncing, runs>>
  BY <1>1, <1>2, <1>3, <1>5 DEF IInv, Typed, Alone, AcceptedIsRemote,
      ConfirmedIsMarked, storeVars, Synced
<1>. QED BY <1>4, <1>5 DEF TierChange

LEMMA TriggerInv ==
    ASSUME IInv, HotspotTimer \/ SyncNow \/ \E b \in BOOLEAN : Check(b)
    PROVE  IInv'
<1>1. CASE HotspotTimer
  BY <1>1, SyncAllInv DEF HotspotTimer, IInv, Typed, TimerInHotspot, storeVars
<1>2. CASE SyncNow
  BY <1>2, SyncAllInv DEF SyncNow, IInv, Typed, TimerInHotspot, storeVars
<1>3. ASSUME NEW b \in BOOLEAN, Check(b) PROVE IInv'
  <2>1. CASE SyncAll
    BY <1>3, <2>1, SyncAllInv DEF Check, IInv, Typed, TimerInHotspot, storeVars
  <2>2. CASE UNCHANGED <<syncing, runs>>
    BY <1>3, <2>2 DEF Check, IInv, Typed, TimerInHotspot, Alone, AcceptedIsRemote,
        ConfirmedIsMarked, storeVars, Synced
  <2>. QED BY <1>3, <2>1, <2>2 DEF Check
<1>. QED BY <1>1, <1>2, <1>3

-----------------------------------------------------------------------------
(* A run in progress.                                                       *)

LEMMA PersistTyped ==
    ASSUME NEW marks, Persist(marks)
    PROVE  fragile' \subseteq marks
BY DEF Persist

LEMMA PostInv ==
    ASSUME IInv, NEW r \in runs, NEW id \in Ids, Post(r, id) PROVE IInv'
<1>. DEFINE s == [r EXCEPT !.todo = @ \ {id}, !.cur = id]
<1>1. r \in Run /\ runs = {r} /\ runs' = {s}
  BY DEF Post, Becomes, IInv, Typed, Alone
<1>2. s \in Run /\ s.cur = id /\ s.todo = r.todo \ {id} /\ s.accepted = r.accepted
  BY <1>1 DEF Run
<1>3. ~r.accepted
  BY SyncAssumption DEF Post, IInv, AcceptedIsRemote, Typed
<1>. QED
  BY <1>1, <1>2, <1>3 DEF Post, IInv, Typed, TimerInHotspot, Alone,
      AcceptedIsRemote, ConfirmedIsMarked, storeVars, Synced

LEMMA RemoteAcceptsInv ==
    ASSUME IInv, NEW r \in runs, RemoteAccepts(r) PROVE IInv'
<1>. DEFINE s == [r EXCEPT !.accepted = TRUE]
<1>1. r \in Run /\ runs = {r} /\ runs' = {s}
  BY DEF RemoteAccepts, Becomes, IInv, Typed, Alone
<1>2. s \in Run /\ s.cur = r.cur /\ s.todo = r.todo /\ r.cur \in Ids
  BY <1>1 DEF Run, RemoteAccepts
<1>. QED
  BY <1>1, <1>2 DEF RemoteAccepts, IInv, Typed, TimerInHotspot, Alone,
      AcceptedIsRemote, ConfirmedIsMarked, storeVars, Synced

\* The end of a post, however it ends.
LEMMA PostOverInv ==
    ASSUME IInv, NEW r \in runs, PostOk(r) \/ PostFails(r) PROVE IInv'
<1>. DEFINE s == [r EXCEPT !.cur = None, !.accepted = FALSE]
<1>1. r \in Run /\ runs = {r} /\ runs' = {s} /\ r.cur \in Ids
  BY DEF PostOk, PostFails, Becomes, IInv, Typed, Alone, Run
<1>2. s \in Run /\ s.cur = None /\ s.todo = r.todo /\ ~s.accepted
  BY <1>1 DEF Run
<1>3. CASE UNCHANGED storeVars
  <2>1. UNCHANGED <<storeVars, monitored, remote, tier, online, syncing, timer>>
    BY <1>3 DEF PostOk, PostFails, storeVars
  <2>2. None \notin confirmed
    BY SyncAssumption DEF IInv, ConfirmedIsMarked, Synced
  <2>3. Typed' /\ TimerInHotspot' /\ Alone' /\ AcceptedIsRemote'
    BY <1>1, <1>2, <2>1 DEF storeVars, IInv, Typed, TimerInHotspot, Alone, AcceptedIsRemote
  <2>4. ConfirmedIsMarked'
    <3>1. \A q \in runs' : q.cur = None /\ q.todo = r.todo
      BY <1>1, <1>2
    <3>2. None \notin r.todo
      BY <1>1, SyncAssumption DEF Run
    <3>. QED
      BY <3>1, <3>2, <2>1, <2>2 DEF storeVars, IInv, ConfirmedIsMarked, Synced
  <2>. QED BY <2>3, <2>4 DEF IInv
<1>4. CASE /\ status' = [status EXCEPT ![r.cur] = "synced"]
           /\ confirmed' = confirmed \cup {r.cur}
           /\ deleted' = deleted
           /\ fragile' \subseteq fragile \cup {r.cur}
           /\ PostOk(r)
  <2>1. Synced' = Synced \cup {r.cur} /\ r.cur \in remote
    BY <1>1, <1>4 DEF PostOk, IInv, Typed, AcceptedIsRemote, Synced
  <2>2. Typed' /\ TimerInHotspot' /\ Alone'
    BY <1>1, <1>2, <1>4 DEF PostOk, IInv, Typed, TimerInHotspot, Alone
  <2>3. AcceptedIsRemote'
    BY <1>1, <1>2, <1>4, <2>1 DEF PostOk, IInv, Typed, AcceptedIsRemote
  <2>4. None \notin confirmed \cup {r.cur} /\ r.todo \cap (confirmed \cup {r.cur}) = {}
    BY <1>1, SyncAssumption DEF IInv, ConfirmedIsMarked, Synced
  <2>5. \A q \in runs' : q.cur = None /\ q.todo = r.todo
    BY <1>1, <1>2
  <2>6. ConfirmedIsMarked'
    <3>1. deleted' \subseteq Ids /\ fragile' \cup confirmed' \subseteq Synced'
      BY <1>4, <2>1 DEF IInv, ConfirmedIsMarked
    <3>2. \A q \in runs' : q.cur \notin confirmed' /\ q.cur \notin q.todo
                            /\ q.todo \cap confirmed' = {}
      BY <1>1, <1>4, <2>4, <2>5, SyncAssumption DEF Run
    <3>. QED BY <3>1, <3>2 DEF ConfirmedIsMarked
  <2>. QED BY <2>2, <2>3, <2>6 DEF IInv
<1>. QED BY <1>3, <1>4, PersistTyped DEF PostOk, PostFails, Mark

LEMMA PostHangsInv ==
    ASSUME IInv, NEW r \in runs, PostHangs(r) PROVE IInv'
<1>. DEFINE s == [r EXCEPT !.hung = TRUE]
<1>1. r \in Run /\ runs = {r} /\ runs' = {s}
  BY DEF PostHangs, Becomes, IInv, Typed, Alone
<1>2. s \in Run /\ s.cur = r.cur /\ s.todo = r.todo /\ s.accepted = r.accepted
  BY <1>1 DEF Run
<1>. QED
  BY <1>1, <1>2 DEF PostHangs, IInv, Typed, TimerInHotspot, Alone,
      AcceptedIsRemote, ConfirmedIsMarked, storeVars, Synced

LEMMA RunEndsInv ==
    ASSUME IInv, NEW r \in runs, RunEnds(r) PROVE IInv'
BY DEF RunEnds, IInv, Typed, TimerInHotspot, Alone, AcceptedIsRemote,
    ConfirmedIsMarked, storeVars, Synced

-----------------------------------------------------------------------------
(* The rest of the node.                                                    *)

LEMMA ArrivesInv ==
    ASSUME IInv, NEW id \in Ids, NEW s \in {"unsynced", "synced"}, Arrives(id, s)
    PROVE  IInv'
<1>1. /\ Synced' = IF s = "synced" THEN Synced \cup {id} ELSE Synced
      /\ fragile' \subseteq fragile
  BY PersistTyped DEF Arrives, Synced, IInv, Typed
<1>. QED
  BY <1>1 DEF Arrives, IInv, Typed, TimerInHotspot, Alone, AcceptedIsRemote,
      ConfirmedIsMarked

LEMMA TrimInv == ASSUME IInv, NEW id \in Ids, Trim(id) PROVE IInv'
<1>1. Synced' = Synced \ {id} /\ fragile' \subseteq fragile \ {id}
  BY PersistTyped DEF Trim, Synced, IInv, Typed
<1>. QED
  BY <1>1 DEF Trim, IInv, Typed, TimerInHotspot, Alone, AcceptedIsRemote,
      ConfirmedIsMarked

LEMMA OtherInv ==
    ASSUME IInv, Snapshot \/ \E id \in Ids : PeerPushes(id) PROVE IInv'
BY DEF Snapshot, PeerPushes, IInv, Typed, TimerInHotspot, Alone, AcceptedIsRemote,
    ConfirmedIsMarked, storeVars, Synced

\* A restart takes back exactly the marks that were fragile, so what stays
\* confirmed stays marked.
LEMMA RestartInv == ASSUME IInv, Restart PROVE IInv'
<1>1. Synced' = Synced \ fragile
  BY DEF Restart, Synced
<1>2. status' \in [Ids -> {"absent", "unsynced", "synced"}]
  BY DEF Restart, IInv, Typed
<1>3. Typed' /\ TimerInHotspot' /\ Alone'
  BY <1>2 DEF Restart, IInv, Typed, TimerInHotspot, Alone, Tiers
<1>4. AcceptedIsRemote' /\ ConfirmedIsMarked'
  BY <1>1 DEF Restart, IInv, Typed, AcceptedIsRemote, ConfirmedIsMarked, Synced
<1>. QED BY <1>3, <1>4 DEF IInv

LEMMA NextInv == ASSUME IInv, [Next]_vars PROVE IInv'
<1>1. CASE UNCHANGED vars
  BY <1>1 DEF vars, storeVars, IInv, Typed, TimerInHotspot, Alone, AcceptedIsRemote,
      ConfirmedIsMarked, Synced
<1>2. ASSUME NEW r \in runs, Advance(r) \/ RemoteAccepts(r) \/ PostHangs(r) PROVE IInv'
  BY <1>2, PostInv, PostOverInv, RunEndsInv, RemoteAcceptsInv, PostHangsInv DEF Advance
<1>. QED
  BY <1>1, <1>2, TierChangeInv, TriggerInv, ArrivesInv, TrimInv, OtherInv, RestartInv
  DEF Next, Node

-----------------------------------------------------------------------------
(* The theorems.                                                            *)

LEMMA Invariance == Spec => []IInv
<1>. QED BY InitInv, NextInv, PTL DEF Spec

\* A set with nothing but equal members has one at most.
LEMMA AtMostOne == ASSUME NEW S, \A r, s \in S : r = s PROVE Cardinality(S) \in {0, 1}
<1>1. CASE S = {}
  BY <1>1, FS_EmptySet
<1>2. ASSUME NEW r \in S PROVE Cardinality(S) = 1
  <2>1. S = {r}
    OBVIOUS
  <2>. QED BY <2>1, FS_Singleton
<1>. QED BY <1>1, <1>2

\* Tier events, timers, manual syncs and restarts never make two runs overlap, and
\* the flag is down whenever none is in progress (sync.js:182).
THEOREM RunsDoNotOverlap == Spec => []OneRun
<1>1. IInv => OneRun
  BY AtMostOne DEF IInv, Alone, OneRun
<1>. QED BY <1>1, Invariance, PTL

\* The type invariant, the bound on the runs and the state of the hotspot timer
\* included.
THEOREM SyncTyped == Spec => []TypeOK
<1>1. IInv => TypeOK
  BY AtMostOne, SyncAssumption DEF IInv, Typed, TimerInHotspot, Alone,
      ConfirmedIsMarked, TypeOK
<1>. QED BY <1>1, Invariance, PTL

\* No message is marked synced that the remote has not accepted.
THEOREM MarksAreTrue == Spec => []SyncedMeansAccepted
<1>1. IInv => SyncedMeansAccepted
  BY DEF IInv, AcceptedIsRemote, SyncedMeansAccepted
<1>. QED BY <1>1, Invariance, PTL

\* What was confirmed is not pushed again while the node holds it and its mark.
THEOREM PushesAreNeeded == Spec => []NoNeedlessPush
<1>1. IInv => NoNeedlessPush
  BY DEF IInv, ConfirmedIsMarked, NoNeedlessPush
<1>. QED BY <1>1, Invariance, PTL
=============================================================================
