---------------------------- MODULE CrdtsProofs ----------------------------
(***************************************************************************)
(* What holds of the two types of src/crdt.js for any replicas, elements,   *)
(* amounts and number of states under way.                                  *)
(*                                                                          *)
(* Sets: in every replica and every serialised state the tags and           *)
(* tombstones are a function of the operations known there (Explains), and  *)
(* a known remove brings the adds it observed along (Closed).               *)
(*                                                                          *)
(* Counters: every state holds exactly the units its increments added       *)
(* (Covered), and no unit is added twice; so units and increments           *)
(* correspond one to one, and the sums the code folds are numbers of units. *)
(***************************************************************************)
EXTENDS Crdts, FiniteSetTheorems, TLAPS

\* Explains, tag by tag.
LEMMA ExplainsTags ==
    ASSUME NEW ops, NEW a, NEW d
    PROVE  Explains(ops, a, d) <=>
             \A e \in Elements :
               /\ \A t : t \in a[e] <=> \E o \in AddsOf(ops, e) : o.tag = t
               /\ \A t : t \in d[e] <=>
                    \E p \in ops : p.kind = "remove" /\ p.element = e
                                   /\ \E o \in p.observed : o.tag = t
<1> DEFINE Adds(e) == {o.tag : o \in AddsOf(ops, e)}
           Tombs(e) == UNION {{o.tag : o \in p.observed} :
                                 p \in {q \in ops : q.kind = "remove" /\ q.element = e}}
<1>1. ASSUME NEW e \in Elements, NEW t
      PROVE  t \in Adds(e) <=> \E o \in AddsOf(ops, e) : o.tag = t
  OBVIOUS
<1>2. ASSUME NEW e \in Elements, NEW t
      PROVE  t \in Tombs(e) <=>
               \E p \in ops : p.kind = "remove" /\ p.element = e
                              /\ \E o \in p.observed : o.tag = t
  OBVIOUS
<1>3. Explains(ops, a, d) <=>
         \A e \in Elements : a[e] = Adds(e) /\ d[e] = Tombs(e)
  BY DEF Explains
<1> HIDE DEF Adds, Tombs
<1>4. ASSUME NEW e \in Elements
      PROVE  a[e] = Adds(e) <=> \A t : t \in a[e] <=> t \in Adds(e)
  OBVIOUS
<1>5. ASSUME NEW e \in Elements
      PROVE  d[e] = Tombs(e) <=> \A t : t \in d[e] <=> t \in Tombs(e)
  OBVIOUS
<1> QED  BY <1>1, <1>2, <1>3, <1>4, <1>5

\* The state is a function of the operations known.
LEMMA StateOfOps ==
    ASSUME NEW ops, NEW a \in TagSets, NEW d \in TagSets, NEW b \in TagSets,
           NEW f \in TagSets, Explains(ops, a, d), Explains(ops, b, f)
    PROVE  a = b /\ d = f
<1>1. \A e \in Elements : a[e] = b[e] /\ d[e] = f[e]
  BY DEF Explains
<1> QED  BY <1>1 DEF TagSets

\* Merging two states explains the union of what they knew.
LEMMA MergeExplained ==
    ASSUME NEW opsA, NEW a \in TagSets, NEW d \in TagSets, Explains(opsA, a, d),
           NEW opsB, NEW b \in TagSets, NEW f \in TagSets, Explains(opsB, b, f)
    PROVE  Explains(opsA \cup opsB, [e \in Elements |-> a[e] \cup b[e]],
                    [e \in Elements |-> d[e] \cup f[e]])
<1>1. \A e : AddsOf(opsA \cup opsB, e) = AddsOf(opsA, e) \cup AddsOf(opsB, e)
  BY DEF AddsOf
<1> DEFINE g == [e \in Elements |-> a[e] \cup b[e]]
           h == [e \in Elements |-> d[e] \cup f[e]]
<1>2. \A e \in Elements : g[e] = a[e] \cup b[e] /\ h[e] = d[e] \cup f[e]
  OBVIOUS
<1> HIDE DEF g, h
<1>3. \A e \in Elements : \A t :
         t \in g[e] <=> \E o \in AddsOf(opsA \cup opsB, e) : o.tag = t
  <2> SUFFICES ASSUME NEW e \in Elements, NEW t
               PROVE  t \in g[e] <=> \E o \in AddsOf(opsA \cup opsB, e) : o.tag = t
    OBVIOUS
  <2>1. t \in a[e] <=> \E o \in AddsOf(opsA, e) : o.tag = t
    BY ExplainsTags
  <2>2. t \in b[e] <=> \E o \in AddsOf(opsB, e) : o.tag = t
    BY ExplainsTags
  <2> QED  BY <1>1, <1>2, <2>1, <2>2
<1>4. \A e \in Elements : \A t :
         t \in h[e] <=> \E p \in opsA \cup opsB : p.kind = "remove" /\ p.element = e
                            /\ \E o \in p.observed : o.tag = t
  BY <1>2, ExplainsTags
<1>5. Explains(opsA \cup opsB, g, h)
  BY <1>3, <1>4, ExplainsTags
<1> QED  BY <1>5 DEF g, h

LEMMA ClosedUnion ==
    ASSUME NEW opsA, NEW opsB, Closed(opsA), Closed(opsB)
    PROVE  Closed(opsA \cup opsB)
  BY DEF Closed, AddsOf

LEMMA InvInit == Init => Inv
<1> SUFFICES ASSUME Init  PROVE Inv
  OBVIOUS
<1>1. TypeOK
  BY DEF Init, TypeOK, TagSets
<1>2. \A r \in Replicas : Explains(known[r], added[r], removed[r]) /\ Closed(known[r])
  BY DEF Init, Explains, Closed, AddsOf
<1> QED  BY <1>1, <1>2 DEF Init, Inv, TagsUnique

\* An add with a fresh tag.
LEMMA AddStep ==
    ASSUME Inv, NEW r \in Replicas, NEW e \in Elements, NEW t \in Tags, Add(r, e, t)
    PROVE  Inv'
<1> USE DEF Inv
<1> DEFINE o == [kind |-> "add", element |-> e, tag |-> t]
<1>1. /\ added' = [added EXCEPT ![r][e] = @ \cup {t}]
      /\ known' = [known EXCEPT ![r] = @ \cup {o}]
      /\ removed' = removed /\ snapshots' = snapshots /\ Fresh(t)
      /\ added \in [Replicas -> TagSets] /\ known \in [Replicas -> SUBSET Op]
  BY DEF Add, TypeOK
<1>2. o \in Op /\ o.kind = "add" /\ o.element = e /\ o.tag = t
  BY DEF Op, AddOp
<1> HIDE DEF o
<1>3. TypeOK'
  BY <1>1, <1>2 DEF TypeOK, TagSets
<1>4. ASSUME NEW q \in Replicas
      PROVE  Explains(known'[q], added'[q], removed'[q]) /\ Closed(known'[q])
  <2>1. CASE q # r
    BY <1>1, <2>1
  <2>2. CASE q = r
    <3>1. /\ known'[r] = known[r] \cup {o}
          /\ \A x \in Elements : added'[r][x] = IF x = e THEN added[r][x] \cup {t}
                                                ELSE added[r][x]
      BY <1>1 DEF TagSets
    <3>2. \A x : AddsOf(known'[r], x) = IF x = e THEN AddsOf(known[r], x) \cup {o}
                                        ELSE AddsOf(known[r], x)
      BY <1>2, <3>1 DEF AddsOf
    <3>3. \A x \in Elements : \A u :
             u \in added'[r][x] <=> \E a \in AddsOf(known'[r], x) : a.tag = u
      <4> SUFFICES ASSUME NEW x \in Elements, NEW u
                   PROVE  u \in added'[r][x] <=>
                            \E a \in AddsOf(known'[r], x) : a.tag = u
        OBVIOUS
      <4>1. u \in added[r][x] <=> \E a \in AddsOf(known[r], x) : a.tag = u
        BY ExplainsTags
      <4>2. CASE x = e
        <5>1. AddsOf(known'[r], x) = AddsOf(known[r], x) \cup {o}
          BY <3>2, <4>2
        <5>2. added'[r][x] = added[r][x] \cup {t}
          BY <3>1, <4>2
        <5> QED  BY <1>2, <4>1, <5>1, <5>2
      <4>3. CASE x # e
        BY <3>1, <3>2, <4>1, <4>3
      <4> QED  BY <4>2, <4>3
    <3>4. \A x \in Elements : \A u :
             u \in removed'[r][x] <=>
               \E p \in known'[r] : p.kind = "remove" /\ p.element = x
                                    /\ \E a \in p.observed : a.tag = u
      <4> SUFFICES ASSUME NEW x \in Elements, NEW u
                   PROVE  u \in removed'[r][x] <=>
                            \E p \in known'[r] : p.kind = "remove" /\ p.element = x
                                    /\ \E a \in p.observed : a.tag = u
        OBVIOUS
      <4>1. u \in removed[r][x] <=>
               \E p \in known[r] : p.kind = "remove" /\ p.element = x
                                    /\ \E a \in p.observed : a.tag = u
        BY ExplainsTags
      <4> QED  BY <1>1, <1>2, <3>1, <4>1
    <3>5. Explains(known'[r], added'[r], removed'[r])
      BY <3>3, <3>4, ExplainsTags
    <3>6. Closed(known'[r])
      BY <1>2, <3>1, <3>2 DEF Closed
    <3> QED  BY <2>2, <3>5, <3>6
  <2> QED  BY <2>1, <2>2
<1>5. \A q \in Replicas : known[q] \subseteq known'[q] /\ known'[q] \subseteq known[q] \cup {o}
  BY <1>1
<1>6. \A s \in snapshots' : /\ Explains(s.known, s.added, s.removed) /\ Closed(s.known)
                            /\ s.known \subseteq UNION {known'[q] : q \in Replicas}
  BY <1>1, <1>5
<1>7. TagsUnique'
  BY <1>1, <1>2, <1>5 DEF TagsUnique, Fresh
<1> QED  BY <1>3, <1>4, <1>6, <1>7

\* A remove observes exactly the adds of the element known here.
LEMMA RemoveStep ==
    ASSUME Inv, NEW r \in Replicas, NEW e \in Elements, Remove(r, e)
    PROVE  Inv'
<1> USE DEF Inv
<1> DEFINE o == [kind |-> "remove", element |-> e, observed |-> AddsOf(known[r], e)]
<1>1. /\ removed' = [removed EXCEPT ![r][e] = @ \cup added[r][e]]
      /\ known' = [known EXCEPT ![r] = @ \cup {o}]
      /\ added' = added /\ snapshots' = snapshots
      /\ removed \in [Replicas -> TagSets] /\ known \in [Replicas -> SUBSET Op]
      /\ added \in [Replicas -> TagSets]
  BY DEF Remove, TypeOK
<1>2. AddsOf(known[r], e) \in SUBSET AddOp
  BY <1>1 DEF AddsOf, Op, AddOp, RemoveOp
<1>3. /\ o \in Op /\ o.kind = "remove" /\ o.element = e
      /\ o.observed = AddsOf(known[r], e)
  BY <1>2 DEF Op, RemoveOp
<1> HIDE DEF o
<1>4. TypeOK'
  BY <1>1, <1>3 DEF TypeOK, TagSets
<1>5. ASSUME NEW q \in Replicas
      PROVE  Explains(known'[q], added'[q], removed'[q]) /\ Closed(known'[q])
  <2>1. CASE q # r
    BY <1>1, <2>1
  <2>2. CASE q = r
    <3>1. /\ known'[r] = known[r] \cup {o}
          /\ \A x \in Elements : removed'[r][x] = IF x = e THEN removed[r][x] \cup added[r][x]
                                                  ELSE removed[r][x]
      BY <1>1 DEF TagSets
    <3>2. \A x : AddsOf(known'[r], x) = AddsOf(known[r], x)
      BY <1>3, <3>1 DEF AddsOf
    <3>3. \A x \in Elements : \A u :
             u \in added'[r][x] <=> \E a \in AddsOf(known'[r], x) : a.tag = u
      <4> SUFFICES ASSUME NEW x \in Elements, NEW u
                   PROVE  u \in added'[r][x] <=>
                            \E a \in AddsOf(known'[r], x) : a.tag = u
        OBVIOUS
      <4>1. u \in added[r][x] <=> \E a \in AddsOf(known[r], x) : a.tag = u
        BY ExplainsTags
      <4> QED  BY <1>1, <3>2, <4>1
    <3>4. \A x \in Elements : \A u :
             u \in removed'[r][x] <=>
               \E p \in known'[r] : p.kind = "remove" /\ p.element = x
                                    /\ \E a \in p.observed : a.tag = u
      <4> SUFFICES ASSUME NEW x \in Elements, NEW u
                   PROVE  u \in removed'[r][x] <=>
                            \E p \in known'[r] : p.kind = "remove" /\ p.element = x
                                    /\ \E a \in p.observed : a.tag = u
        OBVIOUS
      <4>1. u \in removed[r][x] <=>
               \E p \in known[r] : p.kind = "remove" /\ p.element = x
                                    /\ \E a \in p.observed : a.tag = u
        BY ExplainsTags
      <4>2. u \in added[r][e] <=> \E a \in o.observed : a.tag = u
        BY <1>3, ExplainsTags
      <4> QED  BY <1>3, <3>1, <4>1, <4>2
    <3>5. Explains(known'[r], added'[r], removed'[r])
      BY <3>3, <3>4, ExplainsTags
    <3>6. Closed(known'[r])
      <4>1. \A p \in known[r] :
               p.kind = "remove" => p.observed \subseteq AddsOf(known[r], p.element)
        BY DEF Closed
      <4>2. \A p \in known'[r] :
               p.kind = "remove" => p.observed \subseteq AddsOf(known[r], p.element)
        BY <1>3, <3>1, <4>1
      <4> QED  BY <3>2, <4>2 DEF Closed
    <3> QED  BY <2>2, <3>5, <3>6
  <2> QED  BY <2>1, <2>2
<1>6. \A q \in Replicas : known[q] \subseteq known'[q] /\ known'[q] \subseteq known[q] \cup {o}
  BY <1>1
<1>7. \A s \in snapshots' : /\ Explains(s.known, s.added, s.removed) /\ Closed(s.known)
                            /\ s.known \subseteq UNION {known'[q] : q \in Replicas}
  BY <1>1, <1>6
<1>8. TagsUnique'
  BY <1>3, <1>6 DEF TagsUnique
<1> QED  BY <1>4, <1>5, <1>7, <1>8

\* Merging brings operations along and creates none.
LEMMA MergeStep ==
    ASSUME Inv, NEW r \in Replicas, NEW s \in snapshots, Merge(r, s)
    PROVE  Inv'
<1> USE DEF Inv
<1>1. /\ added' = [added EXCEPT ![r] = [e \in Elements |-> added[r][e] \cup s.added[e]]]
      /\ removed' = [removed EXCEPT ![r] = [e \in Elements |-> removed[r][e] \cup s.removed[e]]]
      /\ known' = [known EXCEPT ![r] = @ \cup s.known] /\ snapshots' = snapshots
  BY DEF Merge
<1>2. /\ added[r] \in TagSets /\ removed[r] \in TagSets
      /\ s.added \in TagSets /\ s.removed \in TagSets /\ s.known \subseteq Op
      /\ added \in [Replicas -> TagSets] /\ removed \in [Replicas -> TagSets]
      /\ known \in [Replicas -> SUBSET Op] /\ snapshots \subseteq Snapshot
  BY DEF TypeOK, Snapshot
<1>3. TypeOK'
  <2>1. /\ [e \in Elements |-> added[r][e] \cup s.added[e]] \in TagSets
        /\ [e \in Elements |-> removed[r][e] \cup s.removed[e]] \in TagSets
    BY <1>2 DEF TagSets
  <2> QED  BY <1>1, <1>2, <2>1 DEF TypeOK
<1>4. Explains(known[r], added[r], removed[r]) /\ Explains(s.known, s.added, s.removed)
      /\ Closed(known[r]) /\ Closed(s.known)
  OBVIOUS
<1>5. ASSUME NEW q \in Replicas
      PROVE  Explains(known'[q], added'[q], removed'[q]) /\ Closed(known'[q])
  <2>1. CASE q # r
    BY <1>1, <2>1
  <2>2. CASE q = r
    <3>1. /\ known'[r] = known[r] \cup s.known
          /\ added'[r] = [e \in Elements |-> added[r][e] \cup s.added[e]]
          /\ removed'[r] = [e \in Elements |-> removed[r][e] \cup s.removed[e]]
      BY <1>1, <1>2
    <3>2. Explains(known[r] \cup s.known,
                   [e \in Elements |-> added[r][e] \cup s.added[e]],
                   [e \in Elements |-> removed[r][e] \cup s.removed[e]])
      BY <1>2, <1>4, MergeExplained
    <3>3. Closed(known[r] \cup s.known)
      BY <1>4, ClosedUnion
    <3> HIDE DEF Inv
    <3> QED  BY <2>2, <3>1, <3>2, <3>3
  <2> QED  BY <2>1, <2>2
<1>6. \A q \in Replicas : known[q] \subseteq known'[q]
  BY <1>1, <1>2
<1>7. \A x \in snapshots' : /\ Explains(x.known, x.added, x.removed) /\ Closed(x.known)
                            /\ x.known \subseteq UNION {known'[q] : q \in Replicas}
  BY <1>1, <1>6
<1>8. \A q \in Replicas : known'[q] \subseteq UNION {known[p] : p \in Replicas}
  BY <1>1, <1>2
<1>9. TagsUnique'
  <2> SUFFICES ASSUME NEW q \in Replicas, NEW p \in Replicas, NEW o \in known'[q],
                      NEW u \in known'[p], o.kind = "add", u.kind = "add", o.tag = u.tag
               PROVE  o = u
    BY DEF TagsUnique
  <2>1. PICK q1 \in Replicas : o \in known[q1]
    BY <1>8
  <2>2. PICK p1 \in Replicas : u \in known[p1]
    BY <1>8
  <2> QED  BY <2>1, <2>2 DEF TagsUnique
<1> QED  BY <1>3, <1>5, <1>7, <1>9

\* Serialising a state and forgetting one.
LEMMA SnapshotStep ==
    ASSUME Inv, UNCHANGED <<added, removed, known>>,
           \A s \in snapshots' : s \in snapshots \/
              \E r \in Replicas :
                 s = [added |-> added[r], removed |-> removed[r], known |-> known[r]]
    PROVE  Inv'
<1> USE DEF Inv
<1>1. ASSUME NEW s \in snapshots'
      PROVE  /\ s \in Snapshot
             /\ Explains(s.known, s.added, s.removed) /\ Closed(s.known)
             /\ s.known \subseteq UNION {known[q] : q \in Replicas}
  <2>1. CASE s \in snapshots
    BY <2>1 DEF TypeOK
  <2>2. ASSUME NEW r \in Replicas,
               s = [added |-> added[r], removed |-> removed[r], known |-> known[r]]
        PROVE  /\ s \in Snapshot
               /\ Explains(s.known, s.added, s.removed) /\ Closed(s.known)
               /\ s.known \subseteq UNION {known[q] : q \in Replicas}
    <3>1. s.added = added[r] /\ s.removed = removed[r] /\ s.known = known[r]
      BY <2>2
    <3>2. s \in Snapshot
      BY <2>2 DEF Snapshot, TypeOK
    <3> QED  BY <3>1, <3>2
  <2> QED  BY <2>1, <2>2
<1>2. TypeOK'
  BY <1>1 DEF TypeOK
<1>3. TagsUnique'
  BY DEF TagsUnique
<1> QED  BY <1>1, <1>2, <1>3

LEMMA InvStep == Inv /\ [Next]_vars => Inv'
<1> SUFFICES ASSUME Inv, [Next]_vars  PROVE Inv'
  OBVIOUS
<1>1. ASSUME NEW r \in Replicas, State(r)  PROVE Inv'
  BY <1>1, SnapshotStep DEF State
<1>2. ASSUME NEW s \in snapshots, Forget(s)  PROVE Inv'
  BY <1>2, SnapshotStep DEF Forget
<1>3. CASE UNCHANGED vars
  BY <1>3, SnapshotStep DEF vars
<1> QED  BY <1>1, <1>2, <1>3, AddStep, RemoveStep, MergeStep DEF Next

\* The invariant says what has() answers.
LEMMA InvAddWins == Inv => AddWins
<1> SUFFICES ASSUME Inv, NEW r \in Replicas, NEW e \in Elements
             PROVE  has(r, e) <=> Survives(known[r], e)
  BY DEF AddWins
<1> DEFINE ops == known[r]
<1>1. \A t : t \in added[r][e] <=> \E o \in AddsOf(ops, e) : o.tag = t
  BY ExplainsTags DEF Inv
<1>2. \A t : t \in removed[r][e] <=>
         \E p \in ops : p.kind = "remove" /\ p.element = e /\ \E o \in p.observed : o.tag = t
  BY ExplainsTags DEF Inv
<1>3. \A p \in ops : p.kind = "remove" => p.observed \subseteq AddsOf(ops, p.element)
  BY DEF Inv, Closed
<1>4. \A o, p \in ops : o.kind = "add" /\ p.kind = "add" /\ o.tag = p.tag => o = p
  BY DEF Inv, TagsUnique
<1> HIDE DEF ops
<1>5. ASSUME has(r, e)  PROVE Survives(ops, e)
  <2>1. PICK t \in added[r][e] : t \notin removed[r][e]
    BY <1>5 DEF has
  <2>2. PICK a \in AddsOf(ops, e) : a.tag = t
    BY <1>1, <2>1
  <2>3. ASSUME NEW p \in ops, p.kind = "remove", a \in p.observed  PROVE FALSE
    <3>1. p.element = e
      BY <1>3, <2>2, <2>3 DEF AddsOf
    <3> QED  BY <1>2, <2>1, <2>2, <2>3, <3>1
  <2> QED  BY <2>2, <2>3 DEF Survives
<1>6. ASSUME Survives(ops, e)  PROVE has(r, e)
  <2>1. PICK a \in AddsOf(ops, e) : \A p \in ops : p.kind = "remove" => a \notin p.observed
    BY <1>6 DEF Survives
  <2>2. ASSUME a.tag \in removed[r][e]  PROVE FALSE
    <3>1. PICK p \in ops : p.kind = "remove" /\ p.element = e
                             /\ \E o \in p.observed : o.tag = a.tag
      BY <1>2, <2>2
    <3>2. PICK o \in p.observed : o.tag = a.tag
      BY <3>1
    <3>3. o \in AddsOf(ops, e)
      BY <1>3, <3>1
    <3>4. o = a
      BY <1>4, <2>1, <3>2, <3>3 DEF AddsOf
    <3> QED  BY <2>1, <3>1, <3>4
  <2>3. a.tag \in added[r][e]
    BY <1>1, <2>1
  <2> QED  BY <2>2, <2>3 DEF has
<1> QED  BY <1>5, <1>6 DEF ops

\* A concurrent add wins over a remove in every replica, whatever was merged in
\* whatever order, late or repeatedly.
THEOREM AddsWin == Spec => []AddWins
  BY InvInit, InvStep, InvAddWins, PTL DEF Spec

\* Replicas that know of the same operations hold the same state.
THEOREM StrongConvergence == Spec => []Converges
<1>1. Inv => Converges
  <2> SUFFICES ASSUME Inv, NEW q \in Replicas, NEW r \in Replicas, known[q] = known[r]
               PROVE  added[q] = added[r] /\ removed[q] = removed[r]
    BY DEF Converges
  <2>1. /\ added[q] \in TagSets /\ added[r] \in TagSets
        /\ removed[q] \in TagSets /\ removed[r] \in TagSets
    BY DEF Inv, TypeOK
  <2>2. /\ Explains(known[q], added[q], removed[q])
        /\ Explains(known[q], added[r], removed[r])
    BY DEF Inv
  <2> QED  BY <2>1, <2>2, StateOfOps
<1> QED  BY InvInit, InvStep, <1>1, PTL DEF Spec

\* No tombstone is known without the add it cancels.
THEOREM TombstonesNeedAdds == Spec => []TombstonesAreAdds
<1>1. Inv => TombstonesAreAdds
  <2> SUFFICES ASSUME Inv, NEW r \in Replicas, NEW e \in Elements,
                      NEW t \in removed[r][e]
               PROVE  t \in added[r][e]
    BY DEF TombstonesAreAdds
  <2>1. PICK p \in known[r] : p.kind = "remove" /\ p.element = e
                              /\ \E o \in p.observed : o.tag = t
    BY ExplainsTags DEF Inv
  <2>2. PICK o \in p.observed : o.tag = t
    BY <2>1
  <2>3. o \in AddsOf(known[r], e)
    BY <2>1 DEF Inv, Closed
  <2> QED  BY <2>2, <2>3, ExplainsTags DEF Inv
<1> QED  BY InvInit, InvStep, <1>1, PTL DEF Spec

-----------------------------------------------------------------------------
(* Sums: what FoldSet computes is a number of units.                        *)

LEMMA Least ==
    ASSUME NEW T \in SUBSET Nat, T # {}
    PROVE  \E n \in T : \A m \in T : n <= m
<1>1. PICK n \in T : \A m \in T : ~(<<m, n>> \in OpToRel(<, Nat))
  BY WFMin, NatLessThanWellFounded
<1>2. ASSUME NEW m \in T, m < n PROVE FALSE
  <2>1. <<m, n>> \in OpToRel(<, Nat)
    BY <1>2 DEF OpToRel
  <2>. QED BY <1>1, <2>1
<1>. QED BY <1>2

\* Of some subsets of a finite set one is such that none with an element less is
\* among them.
LEMMA SmallestSubset ==
    ASSUME NEW D, IsFiniteSet(D), NEW B \in SUBSET (SUBSET D), B # {}
    PROVE  \E T \in B : IsFiniteSet(T) /\ \A x \in T : T \ {x} \notin B
<1>. DEFINE Sizes == {Cardinality(T) : T \in B}
<1>1. \A T \in B : IsFiniteSet(T) /\ Cardinality(T) \in Nat
  BY FS_Subset, FS_CardinalityType
<1>2. Sizes \in SUBSET Nat /\ Sizes # {}
  BY <1>1
<1>3. PICK k \in Sizes : \A m \in Sizes : k <= m
  <2>. HIDE DEF Sizes
  <2>. QED BY <1>2, Least
<1>4. PICK T \in B : k = Cardinality(T)
  BY <1>3
<1>5. ASSUME NEW x \in T, T \ {x} \in B PROVE FALSE
  <2>1. Cardinality(T \ {x}) = Cardinality(T) - 1
    BY <1>1, FS_RemoveElement
  <2>2. Cardinality(T) <= Cardinality(T \ {x})
    BY <1>3, <1>4, <1>5
  <2>. QED BY <2>1, <2>2, <1>1
<1>. QED BY <1>1, <1>4, <1>5

\* The units of a function over some of its arguments: f[x] of them for each x.
Units(f, T) == {u \in T \X Nat : 1 <= u[2] /\ u[2] <= f[u[1]]}

LEMMA UnitsOfOne ==
    ASSUME NEW D, NEW f \in [D -> Nat], NEW T \in SUBSET D, NEW x \in T,
           IsFiniteSet(Units(f, T \ {x}))
    PROVE  /\ IsFiniteSet(Units(f, T))
           /\ Cardinality(Units(f, T)) = f[x] + Cardinality(Units(f, T \ {x}))
<1>. DEFINE One == {x} \X (1..f[x])
            Rest == Units(f, T \ {x})
<1>1. f[x] \in Nat
  OBVIOUS
<1>2. IsFiniteSet(1..f[x]) /\ Cardinality(1..f[x]) = f[x]
  BY <1>1, FS_Interval
<1>3. IsFiniteSet({x}) /\ Cardinality({x}) = 1
  BY FS_Singleton
<1>4. IsFiniteSet(One) /\ Cardinality(One) = Cardinality({x}) * Cardinality(1..f[x])
  BY <1>2, <1>3, FS_Product
<1>5. Cardinality(One) = f[x]
  BY <1>1, <1>2, <1>3, <1>4
<1>6. Units(f, T) = One \cup Rest
  BY <1>1 DEF Units
<1>7. One \cap Rest = {}
  BY DEF Units
<1>. HIDE DEF One, Rest
<1>8. /\ IsFiniteSet(One \cup Rest)
      /\ Cardinality(One \cup Rest) = Cardinality(One) + Cardinality(Rest) - Cardinality(One \cap Rest)
  BY <1>4, FS_Union DEF Rest
<1>9. Cardinality(One \cap Rest) = 0
  BY <1>7, FS_EmptySet
<1>10. Cardinality(Rest) \in Nat
  BY FS_CardinalityType DEF Rest
<1>. QED BY <1>1, <1>5, <1>6, <1>8, <1>9, <1>10 DEF Rest

LEMMA UnitsFinite ==
    ASSUME NEW D, IsFiniteSet(D), NEW f \in [D -> Nat], NEW T \in SUBSET D
    PROVE  IsFiniteSet(Units(f, T))
<1>. DEFINE B == {S \in SUBSET D : ~IsFiniteSet(Units(f, S))}
<1>1. SUFFICES ASSUME B # {} PROVE FALSE
  OBVIOUS
<1>2. PICK S \in B : \A x \in S : S \ {x} \notin B
  <2>1. B \in SUBSET (SUBSET D)
    OBVIOUS
  <2>. HIDE DEF B
  <2>. QED BY <1>1, <2>1, SmallestSubset
<1>3. CASE S = {}
  <2>1. Units(f, {}) = {}
    BY DEF Units
  <2>. QED BY <1>3, <2>1, FS_EmptySet
<1>4. CASE S # {}
  <2>1. PICK x \in S : TRUE
    BY <1>4
  <2>2. IsFiniteSet(Units(f, S \ {x}))
    BY <1>2, <2>1
  <2>. QED BY <2>1, <2>2, UnitsOfOne
<1>. QED BY <1>3, <1>4

\* The sum the code folds is the number of units.
LEMMA TotalIsUnits ==
    ASSUME NEW D, IsFiniteSet(D), NEW f \in [D -> Nat]
    PROVE  Counter!Total(f) = Cardinality(Units(f, D))
<1>. DEFINE step(it, s) == IF s = {} THEN 0
                           ELSE f[CHOOSE x \in s : TRUE] + it[s \ {CHOOSE x \in s : TRUE}]
            IsIter(it) == it = [s \in SUBSET D |-> step(it, s)]
            iter == CHOOSE it : IsIter(it)
            g == [s \in SUBSET D |-> Cardinality(Units(f, s))]
<1>1. Counter!Total(f) = iter[D]
  BY DEF Counter!Total, Counter!FoldSet, Counter!MapThenFoldSet
<1>2. IsIter(g)
  <2>1. ASSUME NEW s \in SUBSET D PROVE g[s] = step(g, s)
    <3>1. CASE s = {}
      <4>1. Units(f, {}) = {}
        BY DEF Units
      <4>. QED BY <3>1, <4>1, FS_EmptySet
    <3>2. CASE s # {}
      <4>. DEFINE x == CHOOSE x \in s : TRUE
      <4>1. x \in s
        BY <3>2
      <4>. HIDE DEF x
      <4>2. IsFiniteSet(Units(f, s \ {x}))
        BY UnitsFinite
      <4>3. Cardinality(Units(f, s)) = f[x] + Cardinality(Units(f, s \ {x}))
        BY <4>1, <4>2, UnitsOfOne
      <4>4. g[s] = f[x] + g[s \ {x}]
        BY <4>3
      <4>. QED BY <3>2, <4>4 DEF x
    <3>. QED BY <3>1, <3>2
  <2>. HIDE DEF step
  <2>2. g = [s \in SUBSET D |-> g[s]]
    OBVIOUS
  <2>. HIDE DEF g
  <2>. QED BY <2>1, <2>2
<1>3. IsIter(iter)
  <2>. HIDE DEF IsIter, g
  <2>. QED BY <1>2
<1>4. \A s \in SUBSET D : iter[s] = step(iter, s) /\ g[s] = step(g, s)
  <2>. HIDE DEF step, iter, g
  <2>. QED BY <1>2, <1>3
<1>. DEFINE B == {s \in SUBSET D : iter[s] # g[s]}
<1>. HIDE DEF iter, g
<1>5. B = {}
  <2>. SUFFICES ASSUME B # {} PROVE FALSE
    OBVIOUS
  <2>1. PICK s \in B : \A x \in s : s \ {x} \notin B
    <3>1. B \in SUBSET (SUBSET D)
      OBVIOUS
    <3>. HIDE DEF B
    <3>. QED BY <3>1, SmallestSubset
  <2>2. CASE s = {}
    BY <2>1, <2>2, <1>4
  <2>3. CASE s # {}
    <3>. DEFINE x == CHOOSE x \in s : TRUE
    <3>1. x \in s
      BY <2>3
    <3>2. iter[s] = f[x] + iter[s \ {x}] /\ g[s] = f[x] + g[s \ {x}]
      BY <2>1, <2>3, <1>4
    <3>. HIDE DEF x
    <3>3. iter[s \ {x}] = g[s \ {x}]
      BY <2>1, <3>1
    <3>. QED BY <2>1, <3>2, <3>3
  <2>. QED BY <2>2, <2>3
<1>6. iter[D] = g[D]
  BY <1>5
<1>7. g[D] = Cardinality(Units(f, D))
  BY DEF g
<1>. QED BY <1>1, <1>6, <1>7

-----------------------------------------------------------------------------
(* Counters.                                                                *)

LEMMA CounterTypes ==
    ASSUME Counter!TypeOK
    PROVE  /\ \A s \in Counter!States : /\ s.counts \in [Replicas -> Nat]
                                        /\ s.known \in SUBSET Counter!Increment
           /\ \A r \in Replicas : /\ counts[r] \in [Replicas -> Nat]
                                  /\ counterKnown[r] \in SUBSET Counter!Increment
           /\ \A i \in Counter!Increment : /\ i.by \in Replicas
                                           /\ i.from \in Nat /\ i.amount \in Nat
<1>1. \A r \in Replicas : /\ counts[r] \in [Replicas -> Nat]
                          /\ counterKnown[r] \in SUBSET Counter!Increment
  BY DEF Counter!TypeOK
<1>2. \A s \in counterSnapshots : /\ s.counts \in [Replicas -> Nat]
                                  /\ s.known \in SUBSET Counter!Increment
  BY DEF Counter!TypeOK
<1>3. \A i \in Counter!Increment : i.by \in Replicas /\ i.from \in Nat /\ i.amount \in Nat
  BY CrdtsAssumption DEF Counter!Increment
<1>. QED BY <1>1, <1>2, <1>3 DEF Counter!States

\* A state that holds each unit of its increments once has their sum for a value.
LEMMA CoveredSum ==
    ASSUME NEW cs \in [Replicas -> Nat], NEW incs \in SUBSET Counter!Increment,
           IsFiniteSet(incs), Counter!Covered(cs, incs),
           \A i, j \in incs : \A k \in 1..i.from + i.amount :
              Counter!Adds(i, i.by, k) /\ Counter!Adds(j, i.by, k) => i = j
    PROVE  Counter!Total(cs) = Counter!Total([i \in incs |-> i.amount])
<1>. DEFINE am == [i \in incs |-> i.amount]
            F  == [u \in Units(am, incs) |-> <<u[1].by, u[1].from + u[2]>>]
<1>1. \A i \in incs : /\ i.by \in Replicas /\ i.from \in Nat /\ i.amount \in Nat
                      /\ am[i] = i.amount
  BY CrdtsAssumption DEF Counter!Increment
<1>2. am \in [incs -> Nat]
  BY <1>1
<1>3. \A u \in Units(am, incs) :
         /\ u[1] \in incs /\ u[2] \in Nat /\ u = <<u[1], u[2]>>
         /\ 1 <= u[2] /\ u[2] <= u[1].amount
  BY <1>1 DEF Units
<1>. HIDE DEF am
<1>4. \A u \in Units(am, incs) : F[u] = <<u[1].by, u[1].from + u[2]>>
  OBVIOUS
<1>5. \A u \in Units(am, incs) : F[u] \in Units(cs, Replicas)
  <2>. SUFFICES ASSUME NEW u \in Units(am, incs) PROVE F[u] \in Units(cs, Replicas)
    OBVIOUS
  <2>1. /\ u[1].by \in Replicas /\ u[1].from + u[2] \in Nat /\ 1 <= u[1].from + u[2]
        /\ u[1].from + u[2] <= cs[u[1].by]
    BY <1>1, <1>3 DEF Counter!Covered
  <2>. QED BY <2>1, <1>4 DEF Units
<1>6. ASSUME NEW u \in Units(am, incs), NEW v \in Units(am, incs), F[u] = F[v]
      PROVE  u = v
  <2>. DEFINE k == u[1].from + u[2]
  <2>1. u[1].by = v[1].by /\ k = v[1].from + v[2]
    BY <1>4, <1>6
  <2>2. k \in 1..u[1].from + u[1].amount
    BY <1>1, <1>3
  <2>3. Counter!Adds(u[1], u[1].by, k) /\ Counter!Adds(v[1], u[1].by, k)
    BY <2>1, <1>1, <1>3 DEF Counter!Adds
  <2>4. u[1] = v[1]
    BY <2>2, <2>3, <1>3
  <2>5. u[2] = v[2]
    BY <2>1, <2>4, <1>1, <1>3
  <2>. QED BY <2>4, <2>5, <1>3
<1>7. ASSUME NEW w \in Units(cs, Replicas) PROVE \E u \in Units(am, incs) : F[u] = w
  <2>1. w[1] \in Replicas /\ w[2] \in 1..cs[w[1]] /\ w = <<w[1], w[2]>> /\ w[2] \in Nat
    BY DEF Units
  <2>2. PICK i \in incs : Counter!Adds(i, w[1], w[2])
    BY <2>1 DEF Counter!Covered
  <2>3. /\ i.by = w[1] /\ w[2] - i.from \in Nat /\ 1 <= w[2] - i.from
        /\ w[2] - i.from <= am[i] /\ i.from + (w[2] - i.from) = w[2]
    BY <2>1, <2>2, <1>1 DEF Counter!Adds
  <2>4. <<i, w[2] - i.from>> \in Units(am, incs)
    BY <2>3 DEF Units
  <2>5. F[<<i, w[2] - i.from>>] = w
    BY <2>1, <2>3, <2>4, <1>4
  <2>. QED BY <2>4, <2>5
<1>8. F \in [Units(am, incs) -> Units(cs, Replicas)]
  BY <1>5
<1>. HIDE DEF F
<1>9. F \in Bijection(Units(am, incs), Units(cs, Replicas))
  BY <1>6, <1>7, <1>8 DEF Bijection, Injection, Surjection, IsInjective
<1>10. ExistsBijection(Units(am, incs), Units(cs, Replicas))
  BY <1>9 DEF ExistsBijection
<1>11. IsFiniteSet(Units(am, incs))
  BY <1>2, UnitsFinite
<1>12. Cardinality(Units(cs, Replicas)) = Cardinality(Units(am, incs))
  BY <1>10, <1>11, FS_Bijection
<1>13. Counter!Total(cs) = Cardinality(Units(cs, Replicas))
  BY CrdtsAssumption, TotalIsUnits
<1>14. Counter!Total(am) = Cardinality(Units(am, incs))
  BY <1>2, TotalIsUnits
<1>. QED BY <1>12, <1>13, <1>14 DEF am

\* The invariant of the counters: that of the runs, and that increments are finite.
CInv ==
    /\ Counter!Inv
    /\ \A s \in Counter!States : IsFiniteSet(s.known)

LEMMA CounterInitially ==
    ASSUME Counter!Init PROVE CInv
<1>1. /\ counts = [r \in Replicas |-> [n \in Replicas |-> 0]]
      /\ counterKnown = [r \in Replicas |-> {}] /\ counterSnapshots = {}
  BY DEF Counter!Init
<1>2. \A s \in Counter!States : /\ s.known = {} /\ s.counts \in [Replicas -> Nat]
                                /\ \A n \in Replicas : s.counts[n] = 0
  BY <1>1 DEF Counter!States
<1>3. Counter!TypeOK
  BY <1>1 DEF Counter!TypeOK
<1>4. Counter!Increments = {}
  BY <1>2 DEF Counter!Increments
<1>5. \A n \in Replicas : counts[n][n] = 0
  BY <1>1
<1>6. \A s \in Counter!States : Counter!Covered(s.counts, s.known)
  BY <1>2 DEF Counter!Covered
<1>7. \A s \in Counter!States : IsFiniteSet(s.known)
  BY <1>2, FS_EmptySet
<1>. QED BY <1>2, <1>3, <1>4, <1>5, <1>6, <1>7 DEF CInv, Counter!Inv

\* A new state every step: what a step must show of it for the invariant to hold.
LEMMA NewState ==
    ASSUME CInv, Counter!TypeOK',
           NEW cs \in [Replicas -> Nat], NEW incs \in SUBSET Counter!Increment,
           IsFiniteSet(incs), Counter!Covered(cs, incs), incs \subseteq Counter!Increments,
           \A n \in Replicas : cs[n] <= counts[n][n],
           \A n \in Replicas : counts'[n][n] = counts[n][n],
           \A s \in Counter!States' : s \in Counter!States
                                       \/ (s.counts = cs /\ s.known = incs)
    PROVE  CInv'
<1>1. Counter!Increments' \subseteq Counter!Increments
  BY DEF Counter!Increments
<1>2. \A s \in Counter!States' :
         /\ Counter!Covered(s.counts, s.known) /\ IsFiniteSet(s.known)
         /\ \A n \in Replicas : s.counts[n] <= counts'[n][n]
  BY DEF CInv, Counter!Inv
<1>3. \A i, j \in Counter!Increments' : \A k \in 1..i.from + i.amount :
         Counter!Adds(i, i.by, k) /\ Counter!Adds(j, i.by, k) => i = j
  BY <1>1 DEF CInv, Counter!Inv
<1>. QED BY <1>2, <1>3 DEF CInv, Counter!Inv

LEMMA IncrementKeeps ==
    ASSUME CInv, NEW r \in Replicas, NEW a \in Amounts, Counter!increment(r, a)
    PROVE  CInv'
<1>. DEFINE new == [by |-> r, from |-> counts[r][r], amount |-> a]
<1>1. /\ counts' = [counts EXCEPT ![r][r] = @ + a]
      /\ counterKnown' = [counterKnown EXCEPT ![r] = @ \cup {new}]
      /\ counterSnapshots' = counterSnapshots
  BY DEF Counter!increment
<1>2. Counter!TypeOK /\ a \in Nat
  BY CrdtsAssumption DEF CInv, Counter!Inv
<1>3. /\ \A q, n \in Replicas : counts[q][n] \in Nat
      /\ \A q \in Replicas : counts'[q] = IF q = r THEN [counts[r] EXCEPT ![r] = @ + a]
                                          ELSE counts[q]
      /\ \A q \in Replicas : counterKnown'[q] = IF q = r THEN counterKnown[r] \cup {new}
                                                ELSE counterKnown[q]
  BY <1>1, <1>2, CounterTypes DEF Counter!TypeOK
<1>4. new \in Counter!Increment
      /\ new.by = r /\ new.from = counts[r][r] /\ new.amount = a
  BY <1>2, <1>3 DEF Counter!Increment
<1>. HIDE DEF new
<1>5. Counter!TypeOK'
  BY <1>1, <1>2, <1>4 DEF Counter!TypeOK
<1>. DEFINE cs == [counts[r] EXCEPT ![r] = @ + a]
            incs == counterKnown[r] \cup {new}
            old == [counts |-> counts[r], known |-> counterKnown[r]]
<1>6. /\ cs \in [Replicas -> Nat]
      /\ cs[r] = counts[r][r] + a
      /\ \A n \in Replicas : n # r => cs[n] = counts[r][n]
  BY <1>2, <1>3, CounterTypes
<1>7. old \in Counter!States /\ old.counts = counts[r] /\ old.known = counterKnown[r]
  BY DEF Counter!States
<1>8. \A s \in Counter!States' : s \in Counter!States \/ (s.counts = cs /\ s.known = incs)
  <2>. SUFFICES ASSUME NEW s \in Counter!States', s \notin Counter!States
                PROVE  s.counts = cs /\ s.known = incs
    OBVIOUS
  <2>1. s \notin counterSnapshots'
    BY <1>1 DEF Counter!States
  <2>2. PICK q \in Replicas : s = [counts |-> counts'[q], known |-> counterKnown'[q]]
    BY <2>1 DEF Counter!States
  <2>3. q = r
    BY <2>2, <1>3 DEF Counter!States
  <2>. QED BY <2>2, <2>3, <1>3
<1>. HIDE DEF cs, incs, old
<1>9. /\ \A n \in Replicas : n # r => counts'[n][n] = counts[n][n]
      /\ counts'[r][r] = counts[r][r] + a
  BY <1>3, <1>6 DEF cs
<1>10. \A s \in Counter!States : /\ Counter!Covered(s.counts, s.known) /\ IsFiniteSet(s.known)
                                 /\ \A n \in Replicas : s.counts[n] <= counts[n][n]
                                 /\ s.counts \in [Replicas -> Nat]
                                 /\ s.known \in SUBSET Counter!Increment
  BY <1>2, CounterTypes DEF CInv, Counter!Inv
<1>11. Counter!Covered(cs, incs)
  <2>1. \A i \in incs : i.from + i.amount <= cs[i.by]
    <3>. SUFFICES ASSUME NEW i \in incs PROVE i.from + i.amount <= cs[i.by]
      OBVIOUS
    <3>1. CASE i = new
      BY <3>1, <1>2, <1>3, <1>4, <1>6
    <3>2. CASE i \in counterKnown[r]
      <4>1. /\ i.from + i.amount <= counts[r][i.by]
            /\ i.by \in Replicas /\ i.from \in Nat /\ i.amount \in Nat
        BY <3>2, <1>2, <1>7, <1>10, CounterTypes DEF Counter!Covered
      <4>. QED BY <4>1, <1>2, <1>3, <1>6
    <3>. QED BY <3>1, <3>2 DEF incs
  <2>2. ASSUME NEW n \in Replicas, NEW k \in 1..cs[n] PROVE \E i \in incs : Counter!Adds(i, n, k)
    <3>1. CASE k \in 1..counts[r][n]
      BY <3>1, <1>7, <1>10 DEF Counter!Covered, incs
    <3>2. CASE k \notin 1..counts[r][n]
      <4>1. n = r
        BY <3>2, <1>6
      <4>2. counts[r][r] < k /\ k <= counts[r][r] + a
        BY <3>2, <4>1, <1>3, <1>6
      <4>3. Counter!Adds(new, n, k)
        BY <4>1, <4>2, <1>4 DEF Counter!Adds
      <4>. QED BY <4>3 DEF incs
    <3>. QED BY <3>1, <3>2
  <2>. QED BY <2>1, <2>2 DEF Counter!Covered
<1>12. IsFiniteSet(incs)
  BY <1>7, <1>10, FS_AddElement DEF incs
<1>13. \A n \in Replicas : cs[n] <= counts'[n][n]
  BY <1>2, <1>3, <1>6, <1>7, <1>9, <1>10
<1>14. \A s \in Counter!States' :
         /\ Counter!Covered(s.counts, s.known) /\ IsFiniteSet(s.known)
         /\ \A n \in Replicas : s.counts[n] <= counts'[n][n]
  <2>. SUFFICES ASSUME NEW s \in Counter!States'
                PROVE  /\ Counter!Covered(s.counts, s.known) /\ IsFiniteSet(s.known)
                       /\ \A n \in Replicas : s.counts[n] <= counts'[n][n]
    OBVIOUS
  <2>1. CASE s \in Counter!States
    BY <2>1, <1>2, <1>3, <1>9, <1>10
  <2>2. CASE s.counts = cs /\ s.known = incs
    BY <2>2, <1>11, <1>12, <1>13
  <2>. QED BY <1>8, <2>1, <2>2
<1>15. Counter!Increments' \subseteq Counter!Increments \cup {new}
  BY <1>7, <1>8 DEF Counter!Increments, incs
<1>16. \A i \in Counter!Increments :
          /\ i.by \in Replicas /\ i.from \in Nat /\ i.amount \in Nat
          /\ i.from + i.amount <= counts[i.by][i.by]
  <2>. SUFFICES ASSUME NEW i \in Counter!Increments
                PROVE  /\ i.by \in Replicas /\ i.from \in Nat /\ i.amount \in Nat
                       /\ i.from + i.amount <= counts[i.by][i.by]
    OBVIOUS
  <2>1. PICK s \in Counter!States : i \in s.known
    BY DEF Counter!Increments
  <2>2. i.by \in Replicas /\ i.from \in Nat /\ i.amount \in Nat
    BY <2>1, <1>2, <1>10, CounterTypes
  <2>3. i.from + i.amount <= s.counts[i.by] /\ s.counts[i.by] <= counts[i.by][i.by]
        /\ s.counts[i.by] \in Nat
    BY <2>1, <2>2, <1>10 DEF Counter!Covered
  <2>. QED BY <2>2, <2>3, <1>3
<1>17. \A i, j \in Counter!Increments' : \A k \in 1..i.from + i.amount :
          Counter!Adds(i, i.by, k) /\ Counter!Adds(j, i.by, k) => i = j
  <2>. SUFFICES ASSUME NEW i \in Counter!Increments', NEW j \in Counter!Increments',
                       NEW k \in 1..i.from + i.amount,
                       Counter!Adds(i, i.by, k), Counter!Adds(j, i.by, k)
                PROVE  i = j
    OBVIOUS
  <2>1. CASE i \in Counter!Increments /\ j \in Counter!Increments
    BY <2>1 DEF CInv, Counter!Inv
  <2>2. CASE i = new /\ j \in Counter!Increments
    BY <2>2, <1>2, <1>3, <1>4, <1>16 DEF Counter!Adds
  <2>3. CASE i \in Counter!Increments /\ j = new
    BY <2>3, <1>2, <1>3, <1>4, <1>16 DEF Counter!Adds
  <2>. QED BY <1>15, <2>1, <2>2, <2>3
<1>. QED BY <1>5, <1>14, <1>17 DEF CInv, Counter!Inv

LEMMA StateKeeps ==
    ASSUME CInv, NEW r \in Replicas, Counter!state(r)
    PROVE  CInv'
<1>. DEFINE s0 == [counts |-> counts[r], known |-> counterKnown[r]]
<1>1. /\ counterSnapshots' = counterSnapshots \cup {s0}
      /\ counts' = counts /\ counterKnown' = counterKnown
  BY DEF Counter!state
<1>2. Counter!TypeOK
  BY DEF CInv, Counter!Inv
<1>3. s0 \in Counter!States /\ s0.counts = counts[r] /\ s0.known = counterKnown[r]
  BY DEF Counter!States
<1>4. Counter!TypeOK'
  BY <1>1, <1>2, <1>3 DEF Counter!TypeOK
<1>. HIDE DEF s0
<1>5. Counter!States' = Counter!States
  BY <1>1, <1>3 DEF Counter!States
<1>6. Counter!Increments' = Counter!Increments
  BY <1>5 DEF Counter!Increments
<1>. QED BY <1>1, <1>4, <1>5, <1>6 DEF CInv, Counter!Inv

LEMMA ForgetKeeps ==
    ASSUME CInv, NEW s \in counterSnapshots, Counter!Forget(s)
    PROVE  CInv'
<1>1. counterSnapshots' = counterSnapshots \ {s} /\ counts' = counts
      /\ counterKnown' = counterKnown
  BY DEF Counter!Forget
<1>2. Counter!TypeOK'
  BY <1>1 DEF CInv, Counter!Inv, Counter!TypeOK
<1>3. Counter!States' \subseteq Counter!States
  BY <1>1 DEF Counter!States
<1>4. Counter!Increments' \subseteq Counter!Increments
  BY <1>3 DEF Counter!Increments
<1>. QED BY <1>1, <1>2, <1>3, <1>4 DEF CInv, Counter!Inv

\* A merge: units of either state are units of the larger count.
LEMMA CounterMergeKeeps ==
    ASSUME CInv, NEW r \in Replicas, NEW s \in counterSnapshots, Counter!merge(r, s)
    PROVE  CInv'
<1>. DEFINE cs == [n \in Replicas |-> Counter!Larger(counts[r][n], s.counts[n])]
            incs == counterKnown[r] \cup s.known
            old == [counts |-> counts[r], known |-> counterKnown[r]]
<1>1. /\ counts' = [counts EXCEPT ![r] = cs]
      /\ counterKnown' = [counterKnown EXCEPT ![r] = incs]
      /\ counterSnapshots' = counterSnapshots
  BY DEF Counter!merge
<1>2. Counter!TypeOK
  BY DEF CInv, Counter!Inv
<1>3. /\ old \in Counter!States /\ old.counts = counts[r] /\ old.known = counterKnown[r]
      /\ s \in Counter!States
  BY DEF Counter!States
<1>4. \A n \in Replicas : /\ counts[r][n] \in Nat /\ s.counts[n] \in Nat
                          /\ counts[n][n] \in Nat
  BY <1>2, <1>3, CounterTypes
<1>5. \A n \in Replicas : /\ cs[n] \in Nat
                          /\ cs[n] >= counts[r][n] /\ cs[n] >= s.counts[n]
                          /\ cs[n] = counts[r][n] \/ cs[n] = s.counts[n]
  <2>. SUFFICES ASSUME NEW n \in Replicas
                PROVE  /\ cs[n] \in Nat
                       /\ cs[n] >= counts[r][n] /\ cs[n] >= s.counts[n]
                       /\ cs[n] = counts[r][n] \/ cs[n] = s.counts[n]
    OBVIOUS
  <2>. QED BY <1>4 DEF Counter!Larger
<1>6. cs \in [Replicas -> Nat]
  <2>1. cs = [n \in Replicas |-> cs[n]]
    OBVIOUS
  <2>. HIDE DEF cs
  <2>. QED BY <2>1, <1>5
<1>7. incs \in SUBSET Counter!Increment
  BY <1>2, <1>3, CounterTypes
<1>8. incs \subseteq Counter!Increments
  BY <1>3 DEF Counter!Increments
<1>9. \A q \in Counter!States : /\ Counter!Covered(q.counts, q.known) /\ IsFiniteSet(q.known)
                                /\ \A n \in Replicas : q.counts[n] <= counts[n][n]
  BY DEF CInv, Counter!Inv
<1>10. IsFiniteSet(incs)
  BY <1>3, <1>9, FS_Union
<1>11. Counter!Covered(cs, incs)
  <2>1. ASSUME NEW i \in incs PROVE i.from + i.amount <= cs[i.by]
    <3>1. i.by \in Replicas /\ i.from \in Nat /\ i.amount \in Nat
      BY <1>2, <1>7, CounterTypes
    <3>2. i.from + i.amount <= counts[r][i.by] \/ i.from + i.amount <= s.counts[i.by]
      BY <1>3, <1>9 DEF Counter!Covered
    <3>. HIDE DEF cs
    <3>. QED BY <3>1, <3>2, <1>4, <1>5
  <2>2. ASSUME NEW n \in Replicas, NEW k \in 1..cs[n]
        PROVE  \E i \in incs : Counter!Adds(i, n, k)
    <3>1. CASE cs[n] = counts[r][n]
      BY <3>1, <1>3, <1>9 DEF Counter!Covered
    <3>2. CASE cs[n] = s.counts[n]
      BY <3>2, <1>3, <1>9 DEF Counter!Covered
    <3>. QED BY <3>1, <3>2, <1>5
  <2>. HIDE DEF cs, incs
  <2>. QED BY <2>1, <2>2 DEF Counter!Covered
<1>. HIDE DEF cs, incs, old
<1>12. \A n \in Replicas : cs[n] <= counts[n][n]
  BY <1>3, <1>4, <1>5, <1>9
<1>13. \A q \in Replicas : /\ counts'[q] = IF q = r THEN cs ELSE counts[q]
                           /\ counterKnown'[q] = IF q = r THEN incs ELSE counterKnown[q]
  BY <1>1, <1>2 DEF Counter!TypeOK
<1>14. \A n \in Replicas : counts'[n][n] = counts[n][n]
  <2>1. cs[r] = counts[r][r]
    <3>1. cs[r] >= counts[r][r] /\ cs[r] <= counts[r][r] /\ cs[r] \in Nat /\ counts[r][r] \in Nat
      BY <1>4, <1>5, <1>12
    <3>. QED BY <3>1
  <2>. QED BY <2>1, <1>13
<1>15. Counter!TypeOK'
  BY <1>1, <1>2, <1>6, <1>7 DEF Counter!TypeOK
<1>16. \A q \in Counter!States' : q \in Counter!States \/ (q.counts = cs /\ q.known = incs)
  <2>. SUFFICES ASSUME NEW q \in Counter!States', q \notin Counter!States
                PROVE  q.counts = cs /\ q.known = incs
    OBVIOUS
  <2>1. q \notin counterSnapshots'
    BY <1>1 DEF Counter!States
  <2>2. PICK p \in Replicas : q = [counts |-> counts'[p], known |-> counterKnown'[p]]
    BY <2>1 DEF Counter!States
  <2>3. p = r
    BY <2>2, <1>13 DEF Counter!States
  <2>. QED BY <2>2, <2>3, <1>13
<1>. QED BY <1>6, <1>7, <1>8, <1>10, <1>11, <1>12, <1>14, <1>15, <1>16, NewState

LEMMA CounterUnchanged ==
    ASSUME CInv, UNCHANGED counterVars PROVE CInv'
<1>1. counts' = counts /\ counterKnown' = counterKnown /\ counterSnapshots' = counterSnapshots
  BY DEF counterVars
<1>2. Counter!States' = Counter!States
  BY <1>1 DEF Counter!States
<1>3. Counter!Increments' = Counter!Increments
  BY <1>2 DEF Counter!Increments
<1>4. Counter!TypeOK => Counter!TypeOK'
  BY <1>1 DEF Counter!TypeOK
<1>. QED BY <1>1, <1>2, <1>3, <1>4 DEF CInv, Counter!Inv

LEMMA CounterInvariance == CrdtSpec => []CInv
<1>1. CrdtInit => CInv
  BY CounterInitially DEF CrdtInit
<1>2. CInv /\ [SetStep \/ CounterStep]_<<setVars, counterVars, counting>> => CInv'
  <2>. SUFFICES ASSUME CInv, [SetStep \/ CounterStep]_<<setVars, counterVars, counting>>
                PROVE  CInv'
    OBVIOUS
  <2>1. CASE SetStep
    BY <2>1, CounterUnchanged DEF SetStep
  <2>2. CASE CounterStep
    <3>1. Counter!Next
      BY <2>2 DEF CounterStep
    <3>2. CASE \E r \in Replicas : \E a \in Amounts : Counter!increment(r, a)
      BY <3>2, IncrementKeeps
    <3>3. CASE \E r \in Replicas : Counter!state(r)
      BY <3>3, StateKeeps
    <3>4. CASE \E r \in Replicas : \E s \in counterSnapshots : Counter!merge(r, s)
      BY <3>4, CounterMergeKeeps
    <3>5. CASE \E s \in counterSnapshots : Counter!Forget(s)
      BY <3>5, ForgetKeeps
    <3>. QED BY <3>1, <3>2, <3>3, <3>4, <3>5 DEF Counter!Next
  <2>3. CASE UNCHANGED <<setVars, counterVars, counting>>
    BY <2>3, CounterUnchanged
  <2>. QED BY <2>1, <2>2, <2>3
<1>. QED BY <1>1, <1>2, PTL DEF CrdtSpec

\* The value of a counter is the sum of the increments behind it, each counted once
\* (src/crdt.js:49-89), for any replicas, amounts and states under way.
THEOREM CountersCountOnce == CrdtSpec => []CountsEachOnce
<1>1. CInv => CountsEachOnce
  <2>. SUFFICES ASSUME CInv, NEW r \in Replicas
                PROVE  Counter!Total(counts[r]) =
                         Counter!Total([i \in counterKnown[r] |-> i.amount])
    BY DEF CountsEachOnce, Counter!CountsEachOnce, Counter!value
  <2>. DEFINE s == [counts |-> counts[r], known |-> counterKnown[r]]
  <2>1. s \in Counter!States /\ s.counts = counts[r] /\ s.known = counterKnown[r]
    BY DEF Counter!States
  <2>. HIDE DEF s
  <2>2. /\ s.counts \in [Replicas -> Nat] /\ s.known \in SUBSET Counter!Increment
        /\ IsFiniteSet(s.known) /\ Counter!Covered(s.counts, s.known)
    BY <2>1, CounterTypes DEF CInv, Counter!Inv
  <2>3. s.known \subseteq Counter!Increments
    BY <2>1 DEF Counter!Increments
  <2>4. \A i, j \in s.known : \A k \in 1..i.from + i.amount :
           Counter!Adds(i, i.by, k) /\ Counter!Adds(j, i.by, k) => i = j
    BY <2>3 DEF CInv, Counter!Inv
  <2>. QED BY <2>1, <2>2, <2>4, CoveredSum
<1>. QED BY <1>1, CounterInvariance, PTL

\* What holds of sets and counters together, in every replica and every state under
\* way: the invariant a merge relies on (src/crdt.js).
THEOREM CrdtsInvariance == CrdtSpec => []CrdtInv
<1>1. CrdtInit => Inv
  BY InvInit DEF CrdtInit
<1>2. Inv /\ [SetStep \/ CounterStep]_<<setVars, counterVars, counting>> => Inv'
  <2>. SUFFICES ASSUME Inv, [SetStep \/ CounterStep]_<<setVars, counterVars, counting>>
                PROVE  [Next]_vars
    BY InvStep
  <2>. QED BY DEF SetStep, CounterStep, setVars, vars
<1>3. Inv /\ CInv => CrdtInv
  BY DEF CInv, CrdtInv
<1>. QED BY <1>1, <1>2, <1>3, CounterInvariance, PTL DEF CrdtSpec
=============================================================================
