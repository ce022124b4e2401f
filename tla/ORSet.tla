------------------------------- MODULE ORSet -------------------------------
(***************************************************************************)
(* Replicas of the observed-remove set of src/crdt.js.  Each replica adds,  *)
(* removes and merges; what it merges is a state() some replica serialised  *)
(* earlier, delivered late, out of order, more than once or never.          *)
(*                                                                          *)
(* known is a history variable: the operations a replica has performed or   *)
(* learnt of through a merge.  It says what the set should hold, without a  *)
(* word about tags and tombstones.                                          *)
(***************************************************************************)
EXTENDS Naturals, FiniteSets

CONSTANTS Replicas,
          Elements,
          Tags,          \* the random UUIDs an add may draw
          MaxSnapshots   \* bound on the states under way

ASSUME ORSetAssumption == MaxSnapshots \in Nat

VARIABLES added,     \* per replica: this._added, the tags of each element
          removed,   \* per replica: this._removed, the tombstoned tags
          known,     \* per replica: the operations behind its state
          snapshots  \* the serialised states under way

vars == <<added, removed, known, snapshots>>

\* An add is named by its tag; a remove by the adds it observed.
AddOp    == [kind : {"add"}, element : Elements, tag : Tags]
RemoveOp == [kind : {"remove"}, element : Elements, observed : SUBSET AddOp]
Op       == AddOp \cup RemoveOp

TagSets  == [Elements -> SUBSET Tags]
Snapshot == [added : TagSets, removed : TagSets, known : SUBSET Op]

TypeOK ==
    /\ added \in [Replicas -> TagSets] /\ removed \in [Replicas -> TagSets]
    /\ known \in [Replicas -> SUBSET Op]
    /\ snapshots \subseteq Snapshot

Init ==
    /\ added = [r \in Replicas |-> [e \in Elements |-> {}]]
    /\ removed = [r \in Replicas |-> [e \in Elements |-> {}]]
    /\ known = [r \in Replicas |-> {}]
    /\ snapshots = {}

-----------------------------------------------------------------------------
has(r, e)  == added[r][e] \ removed[r][e] # {}

AddsOf(ops, e) == {o \in ops : o.kind = "add" /\ o.element = e}

\* crypto.randomUUID() never returns a tag twice.
Fresh(t) == \A r \in Replicas : \A o \in known[r] : o.kind = "add" => o.tag # t

Add(r, e, t) ==
    /\ Fresh(t)
    /\ added' = [added EXCEPT ![r][e] = @ \cup {t}]
    /\ known' = [known EXCEPT ![r] =
                    @ \cup {[kind |-> "add", element |-> e, tag |-> t]}]
    /\ UNCHANGED <<removed, snapshots>>

\* Seeded bug: a remove drops the tags and leaves no tombstones.
RemoveForgets(r, e) ==
    /\ added' = [added EXCEPT ![r][e] = {}]
    /\ known' = [known EXCEPT ![r] = @ \cup
          {[kind |-> "remove", element |-> e, observed |-> AddsOf(@, e)]}]
    /\ UNCHANGED <<removed, snapshots>>

Remove(r, e) ==
    /\ removed' = [removed EXCEPT ![r][e] = @ \cup added[r][e]]
    /\ known' = [known EXCEPT ![r] = @ \cup
          {[kind |-> "remove", element |-> e, observed |-> AddsOf(@, e)]}]
    /\ UNCHANGED <<added, snapshots>>

\* state(): an independent copy, to be sent or kept.
State(r) ==
    /\ Cardinality(snapshots) < MaxSnapshots
    /\ snapshots' = snapshots \cup
          {[added |-> added[r], removed |-> removed[r], known |-> known[r]]}
    /\ UNCHANGED <<added, removed, known>>

\* Seeded bugs: only the tags, or only the tombstones, are merged.
MergeAdded(r, s) ==
    /\ added'   = [added EXCEPT ![r] = [e \in Elements |-> @[e] \cup s.added[e]]]
    /\ known'   = [known EXCEPT ![r] = @ \cup s.known]
    /\ UNCHANGED <<removed, snapshots>>

MergeRemoved(r, s) ==
    /\ removed' = [removed EXCEPT ![r] = [e \in Elements |-> @[e] \cup s.removed[e]]]
    /\ known'   = [known EXCEPT ![r] = @ \cup s.known]
    /\ UNCHANGED <<added, snapshots>>

\* merge() and mergeStates(): the element-wise union of both tag sets.
Merge(r, s) ==
    /\ added'   = [added EXCEPT ![r] = [e \in Elements |-> @[e] \cup s.added[e]]]
    /\ removed' = [removed EXCEPT ![r] = [e \in Elements |-> @[e] \cup s.removed[e]]]
    /\ known'   = [known EXCEPT ![r] = @ \cup s.known]
    /\ UNCHANGED snapshots

\* A state is delivered for the last time, or never.
Forget(s) ==
    /\ snapshots' = snapshots \ {s}
    /\ UNCHANGED <<added, removed, known>>

Next ==
    \/ \E r \in Replicas, e \in Elements : Remove(r, e) \/ \E t \in Tags : Add(r, e, t)
    \/ \E r \in Replicas : State(r) \/ \E s \in snapshots : Merge(r, s)
    \/ \E s \in snapshots : Forget(s)

Spec == Init /\ [][Next]_vars

-----------------------------------------------------------------------------
(* Properties.                                                              *)

\* An add of e that no known remove had observed.
Survives(ops, e) ==
    \E a \in AddsOf(ops, e) : \A o \in ops : o.kind = "remove" => a \notin o.observed

\* has(e) holds exactly when the replica knows of an add of e that none of the
\* removes it knows of had observed: a concurrent add wins over a remove, and a
\* state merged late or twice neither revives nor hides an element.
AddWins == \A r \in Replicas, e \in Elements : has(r, e) <=> Survives(known[r], e)

\* Replicas that have learnt of the same operations hold the same state, in
\* whatever order and however often they merged.
Converges ==
    \A q, r \in Replicas : known[q] = known[r]
        => added[q] = added[r] /\ removed[q] = removed[r]

\* A tombstone is never known without the add it cancels, so no remove can
\* delete an add that has yet to arrive.
TombstonesAreAdds ==
    \A r \in Replicas, e \in Elements : removed[r][e] \subseteq added[r][e]

-----------------------------------------------------------------------------
(* The inductive invariant behind them: tag sets and tombstones are a       *)
(* function of the operations known, in every replica and every snapshot.   *)

\* What the operations say the state is.
Explains(ops, a, d) ==
    \A e \in Elements :
        /\ a[e] = {o.tag : o \in AddsOf(ops, e)}
        /\ d[e] = UNION {{o.tag : o \in p.observed} :
                            p \in {q \in ops : q.kind = "remove" /\ q.element = e}}

\* A remove observed only adds of its own element, and brings them along.
Closed(ops) ==
    \A p \in ops : p.kind = "remove" => p.observed \subseteq AddsOf(ops, p.element)

TagsUnique ==
    \A q, r \in Replicas : \A o \in known[q], p \in known[r] :
        o.kind = "add" /\ p.kind = "add" /\ o.tag = p.tag => o = p

Inv ==
    /\ TypeOK
    /\ \A r \in Replicas : Explains(known[r], added[r], removed[r]) /\ Closed(known[r])
    /\ \A s \in snapshots :
         /\ Explains(s.known, s.added, s.removed) /\ Closed(s.known)
         /\ s.known \subseteq UNION {known[r] : r \in Replicas}
    /\ TagsUnique
=============================================================================
