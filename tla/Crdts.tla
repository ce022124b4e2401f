------------------------------- MODULE Crdts -------------------------------
(***************************************************************************)
(* The two types of src/crdt.js side by side, on the same replicas.  They   *)
(* share no state, so a behaviour works on one of them: counting says on    *)
(* which.                                                                   *)
(***************************************************************************)
EXTENDS ORSet

CONSTANTS Amounts, MaxIncrements

\* increment() takes any amount; the counter is grow-only as long as none is negative.
ASSUME CrdtsAssumption == IsFiniteSet(Replicas) /\ Amounts \subseteq Nat

VARIABLES counts, counterKnown, counterSnapshots, counting

setVars     == <<added, removed, known, snapshots>>
counterVars == <<counts, counterKnown, counterSnapshots>>

Counter == INSTANCE GCounter WITH known <- counterKnown, snapshots <- counterSnapshots

CrdtInit == Init /\ Counter!Init /\ counting \in BOOLEAN

SetStep     == ~counting /\ Next /\ UNCHANGED <<counterVars, counting>>
CounterStep == counting /\ Counter!Next /\ UNCHANGED <<setVars, counting>>

CrdtSpec == CrdtInit /\ [][SetStep \/ CounterStep]_<<setVars, counterVars, counting>>

-----------------------------------------------------------------------------
(* Properties.                                                              *)

\* The tags and tombstones of a set are a function of the operations behind it,
\* in every replica and in every state under way (src/crdt.js:117-206); a counter's
\* state holds the units of the increments behind it and no others, and no unit is
\* added by two of them.
CrdtInv == Inv /\ Counter!Inv

\* The value of a counter is the sum of the increments its replica knows of,
\* each counted once: merging by maximum loses none and counts none twice,
\* although states arrive late, repeatedly and from replicas that merged them
\* already.
CountsEachOnce == Counter!CountsEachOnce
=============================================================================
