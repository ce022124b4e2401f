------------------------------ MODULE GCounter ------------------------------
(***************************************************************************)
(* Replicas of the grow-only counter of src/crdt.js, merging states that    *)
(* were serialised earlier and are delivered late, repeatedly or never.     *)
(*                                                                          *)
(* known is a history variable: the increments a replica performed or       *)
(* learnt of.  Increments of one replica are told apart by the count they   *)
(* start from, which only increments of zero share.                         *)
(***************************************************************************)
EXTENDS Naturals, FiniteSets, FiniteSetsExt

CONSTANTS Replicas,
          Amounts,        \* the amounts an increment may add
          MaxIncrements,  \* bound on the increments of one replica
          MaxSnapshots    \* bound on the states under way

VARIABLES counts,    \* per replica: this._counts, 0 where there is no entry
          known,     \* per replica: the increments behind its state
          snapshots  \* the serialised states under way

vars == <<counts, known, snapshots>>

Increment == [by : Replicas, from : Nat, amount : Amounts]

TypeOK ==
    /\ counts \in [Replicas -> [Replicas -> Nat]]
    /\ known \in [Replicas -> SUBSET Increment]
    /\ \A s \in snapshots : s.counts \in [Replicas -> Nat] /\ s.known \subseteq Increment

Init ==
    /\ counts = [r \in Replicas |-> [n \in Replicas |-> 0]]
    /\ known = [r \in Replicas |-> {}]
    /\ snapshots = {}

-----------------------------------------------------------------------------
Total(f) == FoldSet(LAMBDA x, sum : f[x] + sum, 0, DOMAIN f)

value(r) == Total(counts[r])

Larger(a, b) == IF a >= b THEN a ELSE b

increment(r, amount) ==
    /\ Cardinality({i \in known[r] : i.by = r}) < MaxIncrements
    /\ counts' = [counts EXCEPT ![r][r] = @ + amount]
    /\ known' = [known EXCEPT ![r] =
                    @ \cup {[by |-> r, from |-> counts[r][r], amount |-> amount]}]
    /\ UNCHANGED snapshots

state(r) ==
    /\ Cardinality(snapshots) < MaxSnapshots
    /\ snapshots' = snapshots \cup {[counts |-> counts[r], known |-> known[r]]}
    /\ UNCHANGED <<counts, known>>

\* Seeded bug: counts are added up.
mergeSums(r, s) ==
    /\ counts' = [counts EXCEPT ![r] = [n \in Replicas |-> @[n] + s.counts[n]]]
    /\ known' = [known EXCEPT ![r] = @ \cup s.known]
    /\ UNCHANGED snapshots

\* merge() and mergeStates(): the larger count of every partition.
merge(r, s) ==
    /\ counts' = [counts EXCEPT ![r] = [n \in Replicas |-> Larger(@[n], s.counts[n])]]
    /\ known' = [known EXCEPT ![r] = @ \cup s.known]
    /\ UNCHANGED snapshots

\* A state is delivered for the last time, or never.
Forget(s) ==
    /\ snapshots' = snapshots \ {s}
    /\ UNCHANGED <<counts, known>>

Next ==
    \/ \E r \in Replicas :
        \/ \E a \in Amounts : increment(r, a)
        \/ state(r)
        \/ \E s \in snapshots : merge(r, s)
    \/ \E s \in snapshots : Forget(s)

Spec == Init /\ [][Next]_vars

-----------------------------------------------------------------------------
(* Properties.                                                              *)

\* The value is the sum of the increments the replica knows of, each counted
\* once: merging by maximum loses none and counts none twice, although states
\* arrive late, repeatedly and from replicas that merged them already.
CountsEachOnce == \A r \in Replicas : value(r) = Total([i \in known[r] |-> i.amount])

\* The k-th unit of a replica's partition is one of those that increment i added.
Adds(i, n, k) == i.by = n /\ i.from < k /\ k <= i.from + i.amount

\* A state holds the units of the increments behind it and no others.
Covered(cs, incs) ==
    /\ \A i \in incs : i.from + i.amount <= cs[i.by]
    /\ \A n \in Replicas : \A k \in 1..cs[n] : \E i \in incs : Adds(i, n, k)

States     == {[counts |-> counts[r], known |-> known[r]] : r \in Replicas} \cup snapshots
Increments == UNION {s.known : s \in States}

\* Every state is covered by its increments, a replica is ahead of all others in
\* its own partition, and no two increments add the same unit.
Inv ==
    /\ TypeOK
    /\ \A s \in States : /\ Covered(s.counts, s.known)
                         /\ \A n \in Replicas : s.counts[n] <= counts[n][n]
    /\ \A i, j \in Increments : \A k \in 1..i.from + i.amount :
          Adds(i, i.by, k) /\ Adds(j, i.by, k) => i = j
=============================================================================
