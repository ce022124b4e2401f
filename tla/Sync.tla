-------------------------------- MODULE Sync --------------------------------
(***************************************************************************)
(* The sync engine of one node (src/sync.js): pushes unsynced messages to   *)
(* the remote endpoint when connectivity appears.                           *)
(*                                                                          *)
(* A run of _syncAll captures the unsynced messages once and posts them one *)
(* by one; every post is an await during which anything else may happen:    *)
(* tier changes, new saves, trims, manual syncs, the hotspot timer.  The    *)
(* remote accepts a request at some point of the await and the answer may   *)
(* be lost after that.  runs is a set so that the guard of _syncAll, not    *)
(* the shape of the model, is what keeps runs from overlapping.             *)
(***************************************************************************)
EXTENDS Naturals, FiniteSets

CONSTANTS Ids,        \* message ids
          None,       \* no message
          Modes,      \* whether a ConnectivityMonitor may drive the engine
          MaxRuns     \* bound on simultaneous runs

ASSUME SyncAssumption ==
    /\ None \notin Ids
    /\ Modes \subseteq BOOLEAN
    /\ MaxRuns \in Nat \ {0, 1}

Tiers == {"none", "lan", "hotspot", "wan"}

VARIABLES monitored, \* a ConnectivityMonitor drives the engine
          status,   \* per id: "absent", or the store's synced flag
          remote,   \* the ids the remote endpoint has accepted
          tier,     \* the monitor's _tier
          online,   \* this._online
          syncing,  \* this._syncing
          timer,    \* the hotspot timer is armed
          runs,     \* the runs of _syncAll in progress
          deleted,  \* the ids that have a delete in the store's log
          fragile,  \* the synced ids whose mark a restart would lose
          confirmed \* the ids whose push was answered, mark not lost since

storeVars == <<status, deleted, fragile, confirmed>>
vars      == <<monitored, storeVars, remote, tier, online, syncing, timer, runs>>

Run == [todo : SUBSET Ids, cur : Ids \cup {None}, accepted : BOOLEAN, hung : BOOLEAN]

Synced   == {id \in Ids : status[id] = "synced"}
Unsynced == {id \in Ids : status[id] = "unsynced"}

TypeOK ==
    /\ monitored \in BOOLEAN
    /\ status \in [Ids -> {"absent", "unsynced", "synced"}]
    /\ remote \subseteq Ids
    /\ tier \in Tiers
    /\ online \in BOOLEAN /\ syncing \in BOOLEAN /\ timer \in BOOLEAN
    /\ runs \subseteq Run /\ Cardinality(runs) <= MaxRuns
    /\ deleted \subseteq Ids /\ fragile \cup confirmed \subseteq Synced
    /\ timer => tier = "hotspot" /\ online   \* armed while the tier lasts, no longer

Init ==
    /\ monitored \in Modes
    /\ status = [id \in Ids |-> "absent"] /\ remote = {}
    /\ tier = "none" /\ online = FALSE
    /\ syncing = FALSE /\ timer = FALSE /\ runs = {}
    /\ deleted = {} /\ fragile = {} /\ confirmed = {}

-----------------------------------------------------------------------------
(* The start of _syncAll, called synchronously by everything below.         *)

\* Seeded bug: whatever the store holds is pushed.
NewRunAll == [todo |-> Unsynced \cup Synced, cur |-> None, accepted |-> FALSE, hung |-> FALSE]

NewRun == [todo |-> Unsynced, cur |-> None, accepted |-> FALSE, hung |-> FALSE]

\* Seeded bug: the flag is not looked at.
SyncAllTwice ==
    /\ Cardinality(runs) < MaxRuns
    /\ syncing' = TRUE /\ runs' = runs \cup {NewRun}

SyncAll ==
    IF syncing THEN UNCHANGED <<syncing, runs>>
    ELSE /\ Cardinality(runs) < MaxRuns
         /\ syncing' = TRUE /\ runs' = runs \cup {NewRun}

\* Seeded bug: the hotspot timer is not cleared when the tier is left.
TierChangeKeepsTimer(t) ==
    /\ monitored /\ t # tier
    /\ tier' = t
    /\ online' = (t \in {"wan", "hotspot"})
    /\ timer' = (timer \/ t = "hotspot")
    /\ IF t = "wan" THEN SyncAll ELSE UNCHANGED <<syncing, runs>>
    /\ UNCHANGED <<monitored, storeVars, remote>>

\* Seeded bug: WAN starts a run only when nothing at all was reachable before.
TierChangeFromNone(t) ==
    /\ monitored /\ t # tier
    /\ tier' = t
    /\ online' = (t \in {"wan", "hotspot"})
    /\ timer' = (t = "hotspot")
    /\ IF t = "wan" /\ tier = "none" THEN SyncAll ELSE UNCHANGED <<syncing, runs>>
    /\ UNCHANGED <<monitored, storeVars, remote>>

\* The 'tier:change' handler.
TierChange(t) ==
    /\ monitored /\ t # tier
    /\ tier' = t
    /\ online' = (t \in {"wan", "hotspot"})
    /\ timer' = (t = "hotspot")
    /\ IF t = "wan" THEN SyncAll ELSE UNCHANGED <<syncing, runs>>
    /\ UNCHANGED <<monitored, storeVars, remote>>

HotspotTimer ==
    /\ timer /\ timer' = FALSE
    /\ SyncAll
    /\ UNCHANGED <<monitored, storeVars, remote, tier, online>>

\* The engine's own probe, used when there is no monitor.
Check(reachable) ==
    /\ ~monitored /\ reachable # online
    /\ online' = reachable
    /\ IF reachable THEN SyncAll ELSE UNCHANGED <<syncing, runs>>
    /\ UNCHANGED <<monitored, storeVars, remote, tier, timer>>

\* syncNow(), from POST /api/sync.
SyncNow == SyncAll /\ UNCHANGED <<monitored, storeVars, remote, tier, online, timer>>

-----------------------------------------------------------------------------
(* A run in progress.                                                       *)

Becomes(r, s) == runs' = (runs \ {r}) \cup {s}

Post(r, id) ==
    /\ r.cur = None /\ id \in r.todo
    /\ Becomes(r, [r EXCEPT !.todo = @ \ {id}, !.cur = id])
    /\ UNCHANGED <<monitored, storeVars, remote, tier, online, syncing, timer>>

RemoteAccepts(r) ==
    /\ r.cur # None /\ ~r.accepted /\ ~r.hung
    /\ remote' = remote \cup {r.cur}
    /\ Becomes(r, [r EXCEPT !.accepted = TRUE])
    /\ UNCHANGED <<monitored, storeVars, tier, online, syncing, timer>>

\* The snapshot is written, or it is not: the disk is full, or the process is about
\* to die.  The log goes on top of it, so that the mark of a message which was
\* deleted and saved again is lost all the same.
Persist(marks) ==
    \/ fragile' = marks
    \/ fragile' = marks \cap deleted'

Mark(id) ==
    IF status[id] = "absent" THEN UNCHANGED storeVars
    ELSE /\ status' = [status EXCEPT ![id] = "synced"]
         /\ confirmed' = confirmed \cup {id}
         /\ UNCHANGED deleted
         /\ Persist(fragile \cup {id})

\* Seeded bug: a message is marked when it was sent, not when it was accepted.
PostOkUnanswered(r) ==
    /\ r.cur # None /\ ~r.hung
    /\ Mark(r.cur)
    /\ Becomes(r, [r EXCEPT !.cur = None, !.accepted = FALSE])
    /\ UNCHANGED <<monitored, remote, tier, online, syncing, timer>>

\* A 2xx answer: markSynced, which finds nothing if the message was trimmed.
PostOk(r) ==
    /\ r.cur # None /\ r.accepted /\ ~r.hung
    /\ Mark(r.cur)
    /\ Becomes(r, [r EXCEPT !.cur = None, !.accepted = FALSE])
    /\ UNCHANGED <<monitored, remote, tier, online, syncing, timer>>

\* A refusal, an error or the 8 s timeout, before or after the remote accepted.
PostFails(r) ==
    /\ r.cur # None /\ ~r.hung
    /\ Becomes(r, [r EXCEPT !.cur = None, !.accepted = FALSE])
    /\ UNCHANGED <<monitored, storeVars, remote, tier, online, syncing, timer>>

\* The connection closes after the response headers: 'end' never comes, the
\* error goes to the response, which has no listener, and the await never ends.
PostHangs(r) ==
    /\ r.cur # None /\ ~r.hung
    /\ Becomes(r, [r EXCEPT !.hung = TRUE])
    /\ UNCHANGED <<monitored, storeVars, remote, tier, online, syncing, timer>>

\* Seeded bug: the flag stays up after a run.
RunEndsFlagged(r) ==
    /\ r.cur = None /\ r.todo = {}
    /\ runs' = runs \ {r}
    /\ UNCHANGED <<monitored, storeVars, remote, tier, online, syncing, timer>>

RunEnds(r) ==
    /\ r.cur = None /\ r.todo = {}
    /\ runs' = runs \ {r} /\ syncing' = FALSE
    /\ UNCHANGED <<monitored, storeVars, remote, tier, online, timer>>

-----------------------------------------------------------------------------
(* The rest of the node.                                                    *)

\* A local write, or a peer's copy that carries the peer's synced flag.
Arrives(id, s) ==
    /\ status[id] = "absent"
    /\ s = "synced" => id \in remote
    /\ status' = [status EXCEPT ![id] = s]
    /\ UNCHANGED <<deleted, confirmed>> /\ Persist(fragile)
    /\ UNCHANGED <<monitored, remote, tier, online, syncing, timer, runs>>

Trim(id) ==
    /\ status[id] # "absent"
    /\ status' = [status EXCEPT ![id] = "absent"]
    /\ deleted' = deleted \cup {id} /\ confirmed' = confirmed \ {id}
    /\ Persist(fragile \ {id})
    /\ UNCHANGED <<monitored, remote, tier, online, syncing, timer, runs>>

\* snapshot(), after a compaction or from POST /api/snapshot.
Snapshot ==
    /\ deleted' = {} /\ fragile' = {}
    /\ UNCHANGED <<monitored, status, confirmed, remote, tier, online, syncing, timer, runs>>

\* A peer that holds a copy pushes it first.
PeerPushes(id) ==
    /\ remote' = remote \cup {id}
    /\ UNCHANGED <<monitored, storeVars, tier, online, syncing, timer, runs>>

\* The process dies and comes back: runs do not survive, nor do fragile marks.
Restart ==
    /\ tier' = "none" /\ online' = FALSE
    /\ syncing' = FALSE /\ timer' = FALSE /\ runs' = {}
    /\ status' = [id \in Ids |-> IF id \in fragile THEN "unsynced" ELSE status[id]]
    /\ confirmed' = confirmed \ fragile /\ fragile' = {}
    /\ UNCHANGED <<monitored, remote, deleted>>

Advance(r) ==
    \/ \E id \in Ids : Post(r, id)
    \/ PostOk(r)
    \/ PostFails(r)
    \/ RunEnds(r)

Node ==
    \/ \E t \in Tiers : TierChange(t)
    \/ HotspotTimer
    \/ \E b \in BOOLEAN : Check(b)
    \/ SyncNow
    \/ \E id \in Ids, s \in {"unsynced", "synced"} : Arrives(id, s)
    \/ \E id \in Ids : Trim(id) \/ PeerPushes(id)
    \/ Snapshot
    \/ \E r \in runs : Advance(r) \/ RemoteAccepts(r) \/ PostHangs(r)

Next == Node \/ Restart

Spec == Init /\ [][Next]_vars

(***************************************************************************)
(* Fairness: a request that was sent is answered, fails or times out (the   *)
(* 8 s timeout) and the loop goes on, unless the request hangs; and a       *)
(* remote that keeps being asked for a message accepts it in the end.       *)
(* Nothing is assumed of the tiers, of the users or of the timer.           *)
(***************************************************************************)
RunOf(id)   == {r \in runs : r.cur = id}
Accepts(id) == \E r \in RunOf(id) : RemoteAccepts(r)
Advances    == \E r \in runs : Advance(r)

LiveSpec ==
    Spec /\ WF_vars(Advances) /\ \A id \in Ids : SF_vars(Accepts(id))

-----------------------------------------------------------------------------
(* Properties.                                                              *)

\* The _syncing flag admits one run at a time and is down exactly when none is
\* in progress, whatever tier events, timers and manual syncs arrive meanwhile.
OneRun == Cardinality(runs) <= 1 /\ (syncing <=> runs # {})

\* A message is marked synced only if the remote has accepted it, even when
\* the mark comes from a peer or the answer was lost once.
SyncedMeansAccepted ==
    \A id \in Ids : status[id] = "synced" => id \in remote

\* What was pushed and answered is not pushed again as long as the node holds it,
\* except after a crash that lost the mark: the list a run captured before its
\* first await (sync.js:186) stays a list of messages that need a push.
NoNeedlessPush == \A r \in runs : r.cur \notin confirmed /\ r.todo \cap confirmed = {}

NothingHangs == \A r \in runs : ~r.hung

\* Unless an answer hangs, every run ends and lowers the flag, so that a later
\* trigger can sync again.
RunsEnd == []NothingHangs => (syncing ~> ~syncing)

\* Every unsynced message is accepted by the remote or trimmed sooner or later.
Drains == \A id \in Ids :
    status[id] = "unsynced" ~> (id \in remote \/ status[id] = "absent")

ConnectionComesBack ==
    monitored /\ <>[][~Restart]_vars /\ []<>(tier = "wan") /\ []<>(tier # "wan")

\* While internet connectivity is lost and regained again and again, and no
\* answer hangs, every unsynced message is pushed in the end.
RegainedTierPushes == []NothingHangs /\ ConnectionComesBack => Drains
=============================================================================
