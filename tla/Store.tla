------------------------------- MODULE Store -------------------------------
(***************************************************************************)
(* The file-backed message store of one node (src/store.js, src/wal.js):    *)
(* an in-memory message array with a type index and a Lamport clock, a      *)
(* snapshot file replaced by tmp -> rename, and a write-ahead log.          *)
(*                                                                          *)
(* Every method is synchronous, so methods never interleave; the process    *)
(* can die between any two file operations, and the file operations in      *)
(* Faults can fail.  An operation is therefore a sequence of steps:         *)
(*                                                                          *)
(*   save, deleteMessages   append -> apply -> write -> rename              *)
(*   markSynced                                write -> rename              *)
(*   snapshot                                  write -> rename -> truncate  *)
(*   clear                         truncate -> write -> rename              *)
(*                                                                          *)
(* pc is the next step, "idle" between operations and "down" while the      *)
(* process is dead.  promise is a history variable: what the callers were   *)
(* told.                                                                    *)
(***************************************************************************)
EXTENDS Wal, FiniteSets

CONSTANTS Faults,       \* the file operations that may fail
          MaxWal        \* bound on the length of the log

ASSUME FaultsAssumption  == Faults \subseteq {"append", "torn", "persist", "truncate"}
ASSUME BoundsAssumption  == MaxLamport \in Nat /\ MaxWal \in Nat

VARIABLES messages,   \* this._messages
          index,      \* this._index
          clock,      \* this._clock._time
          snapshot,   \* the file at _filePath
          tmp,        \* the file at _filePath + ".tmp"
          wal,        \* the readable lines of the file at _walPath
          torn,       \* the log ends in a partial line without a newline
          pc, op,     \* the step and the operation being executed
          promise     \* per id, what the last completed call on it promised

memory == <<messages, index, clock>>
disk   == <<snapshot, tmp, wal, torn>>
vars   == <<memory, disk, pc, op, promise>>

Op == Entry \cup [kind : {"markSynced"}, id : Ids]
            \cup [kind : {"none", "snapshot", "clear"}]

\* A file of messages parses (ok), or was left half-written or is not there.
File    == [ok : BOOLEAN, data : MessageMaps]
Full(ms) == [ok |-> TRUE, data |-> ms]
Corrupt == [ok |-> FALSE, data |-> NoMessages]

NoOp    == [kind |-> "none"]
NoIndex == [t \in Types |-> {}]
IndexOf(ms) == [t \in Types |-> {i \in DOMAIN ms : ms[i].type = t}]

TypeOK ==
    /\ messages \in MessageMaps
    /\ index \in [Types -> SUBSET Ids]
    /\ clock \in Nat
    /\ snapshot \in File /\ tmp \in File
    /\ wal \in Seq(Entry)
    /\ torn \in BOOLEAN
    /\ pc \in {"down", "idle", "append", "apply", "write", "rename", "truncate"}
    /\ op \in Op
    /\ pc \in {"append", "apply"} => op \in Entry
    /\ promise \in [Ids -> {"none", "stored", "synced", "deleted"}]

\* What a restart would load now: an unreadable snapshot counts as empty.
Loaded  == IF snapshot.ok THEN snapshot.data ELSE NoMessages
Durable == Replay(Loaded, wal)

Highest(ms) ==
    CHOOSE n \in {0} \cup {ms[i].lamport : i \in DOMAIN ms} :
        \A i \in DOMAIN ms : ms[i].lamport <= n

Init ==
    /\ messages = NoMessages /\ index = NoIndex /\ clock = 0
    /\ snapshot = Full(NoMessages) /\ tmp = Corrupt /\ wal = <<>> /\ torn = FALSE
    /\ pc = "idle" /\ op = NoOp
    /\ promise = [i \in Ids |-> "none"]

-----------------------------------------------------------------------------
(* Calls.  A save of an id already held advances the clock and returns      *)
(* without touching the log or the snapshot.                                *)

Tick(remote) == (IF clock >= remote THEN clock ELSE remote) + 1

\* remote = 0 stands for a local save (tick): max(clock, 0) + 1 is the same.
Save(id, t, remote, s) ==
    LET m == [type |-> t, lamport |-> Tick(remote), synced |-> s] IN
    /\ pc = "idle" /\ Tick(remote) <= MaxLamport
    /\ clock' = Tick(remote)
    /\ IF id \in DOMAIN messages
       THEN /\ promise' = [promise EXCEPT ![id] = IF @ = "none" THEN "stored" ELSE @]
            /\ UNCHANGED <<pc, op>>
       ELSE /\ Len(wal) < MaxWal
            /\ pc' = "append"
            /\ op' = [kind |-> "save", id |-> id, msg |-> m]
            /\ promise' = [promise EXCEPT ![id] = "none"]
    /\ UNCHANGED <<messages, index, disk>>

\* Compaction, the only caller, passes ids it has just read in the array.
Delete(ids) ==
    /\ pc = "idle" /\ Len(wal) < MaxWal
    /\ ids # {} /\ ids \subseteq DOMAIN messages
    /\ pc' = "append" /\ op' = [kind |-> "delete", ids |-> ids]
    /\ promise' = [i \in Ids |-> IF i \in ids THEN "none" ELSE promise[i]]
    /\ UNCHANGED <<memory, disk>>

MarkSynced(id) ==
    /\ pc = "idle" /\ id \in DOMAIN messages
    /\ messages' = [messages EXCEPT ![id].synced = TRUE]
    /\ pc' = "write" /\ op' = [kind |-> "markSynced", id |-> id]
    /\ UNCHANGED <<index, clock, disk, promise>>

Snapshot ==
    /\ pc = "idle"
    /\ pc' = "write" /\ op' = [kind |-> "snapshot"]
    /\ UNCHANGED <<memory, disk, promise>>

Clear ==
    /\ pc = "idle"
    /\ messages' = NoMessages /\ index' = NoIndex
    /\ pc' = "truncate" /\ op' = [kind |-> "clear"]
    /\ promise' = [i \in Ids |-> "none"]
    /\ UNCHANGED <<clock, disk>>

-----------------------------------------------------------------------------
(* Steps of the operation in progress.                                      *)

\* A line appended behind a partial one is part of a line that cannot be read.
AppendOk ==
    /\ wal' = IF torn THEN wal ELSE Append(wal, op)
    /\ torn' = FALSE

\* appendFileSync throws before or after writing part of the line; append()
\* swallows the exception either way.
AppendFails ==
    /\ UNCHANGED wal
    /\ \/ "append" \in Faults /\ UNCHANGED torn
       \/ "torn" \in Faults /\ torn' = TRUE

\* Seeded bug: deletes are not logged.
WalAppendSavesOnly ==
    /\ pc = "append" /\ pc' = "apply"
    /\ IF op.kind = "delete" THEN UNCHANGED <<wal, torn>> ELSE AppendOk
    /\ UNCHANGED <<memory, snapshot, tmp, op, promise>>

WalAppend ==
    /\ pc = "append" /\ pc' = "apply"
    /\ AppendOk \/ AppendFails
    /\ UNCHANGED <<memory, snapshot, tmp, op, promise>>

\* What a logged call does to the messages.
Applied(ms, o) ==
    IF o.kind = "save" THEN Put(ms, o.id, o.msg) ELSE Without(ms, o.ids)

\* Seeded bug: a delete leaves the index alone.
ApplyKeepsIndex ==
    /\ pc = "apply" /\ pc' = "write"
    /\ messages' = Applied(messages, op)
    /\ index' = IF op.kind = "save" THEN [index EXCEPT ![op.msg.type] = @ \cup {op.id}]
                ELSE index
    /\ UNCHANGED <<clock, disk, op, promise>>

Apply ==
    /\ pc = "apply" /\ pc' = "write"
    /\ messages' = Applied(messages, op)
    /\ index' =
          IF op.kind = "save" THEN [index EXCEPT ![op.msg.type] = @ \cup {op.id}]
          ELSE [t \in Types |->
                  index[t] \ {i \in op.ids \cap DOMAIN messages : messages[i].type = t}]
    /\ UNCHANGED <<clock, disk, op, promise>>

\* The call returns normally: what the caller may rely on from now on.
Return ==
    /\ pc' = "idle" /\ op' = NoOp
    /\ promise' =
         CASE op.kind = "save" -> [promise EXCEPT ![op.id] =
                                      IF op.msg.synced THEN "synced" ELSE "stored"]
           [] op.kind = "delete" -> [i \in Ids |-> IF i \in op.ids THEN "deleted"
                                                   ELSE promise[i]]
           [] op.kind = "markSynced" -> [promise EXCEPT ![op.id] = "synced"]
           [] op.kind = "clear" -> [i \in Ids |-> "deleted"]
           [] OTHER -> promise

\* The call throws: the memory it changed stays changed, nothing is promised.
Throw == pc' = "idle" /\ op' = NoOp /\ UNCHANGED promise

WriteTmp ==
    /\ pc = "write"
    /\ \/ tmp' = Full(messages) /\ pc' = "rename" /\ UNCHANGED <<op, promise>>
       \/ "persist" \in Faults /\ tmp' = Corrupt /\ Throw
    /\ UNCHANGED <<memory, snapshot, wal, torn>>

\* Seeded bug: a failed rename is swallowed and the log truncated all the same.
RenameSwallows ==
    /\ pc = "rename"
    /\ \/ snapshot' = tmp /\ tmp' = Corrupt
       \/ "persist" \in Faults /\ UNCHANGED <<snapshot, tmp>>
    /\ IF op.kind = "snapshot" THEN pc' = "truncate" /\ UNCHANGED <<op, promise>>
       ELSE Return
    /\ UNCHANGED <<memory, wal, torn>>

Rename ==
    /\ pc = "rename"
    /\ \/ /\ snapshot' = tmp /\ tmp' = Corrupt
          /\ IF op.kind = "snapshot"
             THEN pc' = "truncate" /\ UNCHANGED <<op, promise>>
             ELSE Return
       \/ "persist" \in Faults /\ UNCHANGED <<snapshot, tmp>> /\ Throw
    /\ UNCHANGED <<memory, wal, torn>>

\* truncate() swallows a failure and the caller goes on.
Truncate ==
    /\ pc = "truncate"
    /\ \/ wal' = <<>> /\ torn' = FALSE
       \/ "truncate" \in Faults /\ UNCHANGED <<wal, torn>>
    /\ IF op.kind = "clear"
       THEN pc' = "write" /\ UNCHANGED <<op, promise>>
       ELSE Return
    /\ UNCHANGED <<memory, snapshot, tmp>>

-----------------------------------------------------------------------------
(* The process dies; what is on disk stays, memory is gone.  Whatever the   *)
(* tmp file holds is left there, and nothing ever reads it again.           *)
Crash ==
    /\ pc # "down" /\ pc' = "down" /\ op' = NoOp
    /\ messages' = NoMessages /\ index' = NoIndex /\ clock' = 0
    /\ tmp' = Corrupt
    /\ UNCHANGED <<snapshot, wal, torn, promise>>

\* Seeded bug: the log is not replayed.
RestartWithoutLog ==
    /\ pc = "down" /\ pc' = "idle"
    /\ messages' = Loaded
    /\ index' = IndexOf(Loaded)
    /\ clock' = IF Highest(Loaded) > 0 THEN Highest(Loaded) + 1 ELSE 0
    /\ UNCHANGED <<disk, op, promise>>

\* Seeded bug: the clock is not seeded from the messages loaded.
RestartUnseeded ==
    /\ pc = "down" /\ pc' = "idle"
    /\ messages' = Durable /\ index' = IndexOf(Durable) /\ clock' = 0
    /\ UNCHANGED <<disk, op, promise>>

\* The constructor: load, replay, seed the clock, build the index.
Restart ==
    /\ pc = "down" /\ pc' = "idle"
    /\ messages' = Durable
    /\ index' = IndexOf(Durable)
    /\ clock' = IF Highest(Durable) > 0 THEN Highest(Durable) + 1 ELSE 0
    /\ UNCHANGED <<disk, op, promise>>

Call ==
    \/ \E id \in Ids, t \in Types, remote \in 0..MaxLamport, s \in BOOLEAN :
          Save(id, t, remote, s)
    \/ \E ids \in SUBSET Ids : Delete(ids)
    \/ \E id \in Ids : MarkSynced(id)
    \/ Snapshot

Step == WalAppend \/ Apply \/ WriteTmp \/ Rename \/ Truncate

Next == Call \/ Step \/ Crash \/ Restart

Spec == Init /\ [][Next]_vars

\* No module of the node calls clear(); the tests do.
ClearSpec == Init /\ [][Next \/ Clear]_vars

-----------------------------------------------------------------------------
(* The store implements MessageMap: what a restart would load changes only  *)
(* by whole calls, never by a crash, a replay, a snapshot or a truncation.  *)
Facts(ms) == [i \in DOMAIN ms |-> [type |-> ms[i].type, lamport |-> ms[i].lamport]]

Abstract == INSTANCE MessageMap WITH stored <- Facts(Durable),
                                     served <- Facts(messages)

\* Every step of the store is a step of MessageMap or changes nothing there.
ImplementsMap == Abstract!Spec

-----------------------------------------------------------------------------
(* Properties.                                                              *)

\* A message whose save returned is there after a crash at any later moment,
\* until a delete or a clear of it begins: the log and the snapshot between
\* them always hold every acknowledged write (store.js:14-17).
AckedSurvives ==
    \A id \in Ids : promise[id] \in {"stored", "synced"} => id \in DOMAIN Durable

\* A message whose delete returned is neither served nor brought back by a
\* restart that replays an older log over the snapshot, until it is saved anew.
DeletedStaysGone ==
    \A id \in Ids : promise[id] = "deleted" =>
        id \notin DOMAIN Durable /\ id \notin DOMAIN messages

\* Between operations the incrementally maintained type index is exactly the
\* one a restart would build from the messages held.
IndexAgrees == pc = "idle" => index = IndexOf(messages)

\* The clock is never behind a message held, and no two messages held carry
\* the same Lamport value: the order getAll sorts by never needs the id
\* tie-break, whatever mix of local saves, remote saves and restarts happened.
LamportOrder ==
    /\ \A i \in DOMAIN messages : messages[i].lamport <= clock
    /\ \A i, j \in DOMAIN messages :
          messages[i].lamport = messages[j].lamport => i = j

-----------------------------------------------------------------------------
(* Inductive strengthenings.  LogInv and PromiseInv need a log that accepts *)
(* every append and a process that never calls clear().                     *)

\* Equal but for the synced marks, which are not logged.
SameFacts(ms, ns) ==
    /\ DOMAIN ms = DOMAIN ns
    /\ \A i \in DOMAIN ms : ms[i].type = ns[i].type /\ ms[i].lamport = ns[i].lamport

\* At every step what a restart would load is what is served, once the call in
\* progress has reached the log and before and after it is applied in memory.
LogInv ==
    /\ snapshot.ok /\ ~torn /\ op.kind # "clear"
    /\ pc = "rename" => tmp = Full(messages)
    /\ pc = "truncate" => op.kind = "snapshot" /\ snapshot = Full(messages)
    /\ pc \notin {"down", "apply"} => SameFacts(Durable, messages)
    /\ pc = "apply" => SameFacts(Durable, Applied(messages, op))

\* Lamport values are distinct and the clock covers them, with the value of a
\* save in progress on top.
ClockInv ==
    /\ pc = "down" => messages = NoMessages
    /\ LamportOrder
    /\ \A i, j \in DOMAIN Durable :
          Durable[i].lamport = Durable[j].lamport => i = j
    /\ pc \in {"append", "apply"} /\ op.kind = "save" =>
          /\ op.msg.lamport = clock
          /\ \A i \in DOMAIN messages : messages[i].lamport < clock

\* Every promise is kept on disk, and the call in progress is about ids for
\* which nothing is promised until it is in memory.
PromiseInv ==
    /\ AckedSurvives /\ DeletedStaysGone
    /\ pc \in {"append", "apply"} =>
          IF op.kind = "save" THEN promise[op.id] = "none"
          ELSE \A i \in op.ids : promise[i] = "none"
    /\ pc \in {"write", "rename"} =>
          /\ op.kind \in {"save", "markSynced"} => op.id \in DOMAIN messages
          /\ op.kind = "delete" => op.ids \cap DOMAIN messages = {}

\* The index is the one a restart would build, and the save in progress is of
\* an id that is not there.
IndexInv ==
    /\ index = IndexOf(messages)
    /\ pc \in {"append", "apply"} /\ op.kind = "save" => op.id \notin DOMAIN messages

StoreInv == TypeOK /\ IndexInv /\ LogInv /\ ClockInv /\ PromiseInv
=============================================================================
