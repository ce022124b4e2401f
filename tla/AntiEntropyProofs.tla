------------------------- MODULE AntiEntropyProofs -------------------------
(***************************************************************************)
(* Proofs about AntiEntropy for any nodes, messages and bounds: the order   *)
(* of a node's messages stays total, and an exchange that gets to its last  *)
(* message pushes enough.                                                   *)
(*                                                                         *)
(* The loop of reconcile() and the sorted list of getAll() need induction;  *)
(* it is done by hand from the least-number principle, on sets of naturals. *)
(***************************************************************************)
EXTENDS AntiEntropy, FiniteSetTheorems, TLAPS

\* Every set of natural numbers that is not empty has a least one.
LEMMA Least ==
    ASSUME NEW T \in SUBSET Nat, T # {}
    PROVE  \E n \in T : \A m \in T : n <= m
<1>1. PICK n \in T : \A m \in T : ~(<<m, n>> \in OpToRel(<, Nat))
  BY WFMin, NatLessThanWellFounded
<1>2. ASSUME NEW m \in T, m < n PROVE FALSE
  <2>1. <<m, n>> \in OpToRel(<, Nat)
    BY <1>2 DEF OpToRel
  <2>. QED BY <1>1, <2>1
<1>. QED BY <1>2

-----------------------------------------------------------------------------
(* The loop of reconcile().                                                 *)

LEMMA Lamports ==
    ASSUME NEW q \in Seq(Copy), NEW k \in 1..Len(q)
    PROVE  q[k] \in Copy /\ q[k].id \in Ids /\ q[k].lamport \in Nat
<1>1. q[k] \in Copy
  OBVIOUS
<1>. QED BY <1>1, ExchangeAssumption DEF Copy

\* f is the clock after each of the first k saves of q.
Saves(f, c, q, k) ==
    /\ f \in [0..k -> Nat] /\ f[0] = c
    /\ \A j \in 1..k : f[j] = Later(f[j - 1], q[j].lamport) + 1

LEMMA ClocksExist ==
    ASSUME NEW c \in Nat, NEW q \in Seq(Copy), NEW k \in 0..Len(q)
    PROVE  \E f : Saves(f, c, q, k)
<1>. DEFINE T == {n \in Nat : n <= Len(q) /\ ~ \E f : Saves(f, c, q, n)}
<1>1. SUFFICES ASSUME T # {} PROVE FALSE
  OBVIOUS
<1>2. PICK n \in T : \A m \in T : n <= m
  <2>1. T \in SUBSET Nat
    OBVIOUS
  <2>. HIDE DEF T
  <2>. QED BY <1>1, <2>1, Least
<1>3. n # 0
  <2>1. Saves([j \in 0..0 |-> c], c, q, 0)
    BY DEF Saves
  <2>. QED BY <2>1
<1>4. PICK f : Saves(f, c, q, n - 1)
  <2>1. n - 1 \in Nat /\ n - 1 <= Len(q) /\ n - 1 \notin T
    BY <1>2, <1>3
  <2>. QED BY <2>1
<1>. DEFINE g == [j \in 0..n |-> IF j = n THEN Later(f[n - 1], q[n].lamport) + 1 ELSE f[j]]
<1>5. Saves(g, c, q, n)
  <2>1. n \in 1..Len(q) /\ q[n].lamport \in Nat
    <3>1. n \in Nat /\ n <= Len(q) /\ n # 0
      BY <1>2, <1>3
    <3>2. n \in 1..Len(q)
      BY <3>1
    <3>. QED BY <3>2, Lamports
  <2>2. g \in [0..n -> Nat]
    BY <1>4, <2>1 DEF Saves, Later
  <2>3. g[0] = c
    BY <1>3, <1>4, <2>1 DEF Saves
  <2>4. ASSUME NEW j \in 1..n PROVE g[j] = Later(g[j - 1], q[j].lamport) + 1
    BY <1>4, <2>1 DEF Saves
  <2>. QED BY <2>2, <2>3, <2>4 DEF Saves
<1>. QED BY <1>5

\* Clocks returns what the loop computes.
LEMMA ClocksAreSaves ==
    ASSUME NEW c \in Nat, NEW q \in Seq(Copy)
    PROVE  Saves(Clocks(c, q), c, q, Len(q))
<1>. DEFINE R(f) == f = [k \in 0..Len(q) |->
                          IF k = 0 THEN c ELSE Later(f[k - 1], q[k].lamport) + 1]
<1>1. Clocks(c, q) = CHOOSE f : R(f)
  BY DEF Clocks
<1>2. PICK f : Saves(f, c, q, Len(q))
  BY ClocksExist
<1>3. R(f)
  BY <1>2 DEF Saves
<1>4. R(Clocks(c, q))
  BY <1>1, <1>3
<1>. DEFINE h == Clocks(c, q)
<1>5. /\ DOMAIN h = 0..Len(q) /\ h[0] = c
      /\ \A k \in 1..Len(q) : h[k] = Later(h[k - 1], q[k].lamport) + 1
  <2>. HIDE DEF h
  <2>1. R(h)
    BY <1>4 DEF h
  <2>. QED BY <2>1
<1>6. h = f
  <2>. DEFINE T == {n \in 0..Len(q) : h[n] # f[n]}
  <2>1. CASE T = {}
    <3>. HIDE DEF h
    <3>. QED BY <1>2, <1>4, <2>1 DEF Saves, h
  <2>2. ASSUME T # {} PROVE FALSE
    <3>1. PICK n \in T : \A m \in T : n <= m
      <4>1. T \in SUBSET Nat
        OBVIOUS
      <4>. HIDE DEF T
      <4>. QED BY <2>2, <4>1, Least
    <3>. HIDE DEF h
    <3>2. n # 0 /\ n - 1 \in 0..Len(q) /\ n \in 1..Len(q)
      BY <1>2, <1>5, <3>1 DEF Saves
    <3>3. h[n - 1] = f[n - 1]
      BY <3>1, <3>2
    <3>. QED BY <1>2, <1>5, <3>1, <3>2, <3>3 DEF Saves
  <2>. QED BY <2>1, <2>2
<1>. QED BY <1>2, <1>6

\* The clock grows with every save.
LEMMA ClocksGrow ==
    ASSUME NEW c \in Nat, NEW q \in Seq(Copy), NEW f, Saves(f, c, q, Len(q)),
           NEW j \in 0..Len(q), NEW k \in 0..Len(q), j < k
    PROVE  f[j] < f[k]
<1>. DEFINE T == {n \in Nat : j < n /\ n <= Len(q) /\ ~(f[j] < f[n])}
<1>1. SUFFICES ASSUME T # {} PROVE FALSE
  OBVIOUS
<1>2. PICK n \in T : \A m \in T : n <= m
  <2>1. T \in SUBSET Nat
    OBVIOUS
  <2>. HIDE DEF T
  <2>. QED BY <1>1, <2>1, Least
<1>3. n \in 1..Len(q) /\ q[n].lamport \in Nat
  <2>1. n \in Nat /\ n <= Len(q) /\ j < n
    BY <1>2
  <2>2. n \in 1..Len(q)
    BY <2>1
  <2>. QED BY <2>2, Lamports
<1>4. f[n] > f[n - 1] /\ f[n] \in Nat /\ f[n - 1] \in Nat /\ f[j] \in Nat
  <2>1. /\ f[n] = Later(f[n - 1], q[n].lamport) + 1 /\ n - 1 \in 0..Len(q)
        /\ f \in [0..Len(q) -> Nat]
    BY <1>3 DEF Saves
  <2>2. f[n - 1] \in Nat /\ f[n] \in Nat /\ f[j] \in Nat
    BY <1>3, <2>1
  <2>. QED BY <1>3, <2>1, <2>2 DEF Later
<1>5. CASE j = n - 1
  BY <1>2, <1>4, <1>5
<1>6. CASE j < n - 1
  <2>1. n - 1 \notin T
    BY <1>2, <1>3
  <2>. QED BY <1>2, <1>3, <1>4, <1>6, <2>1
<1>. QED BY <1>2, <1>3, <1>5, <1>6

-----------------------------------------------------------------------------
(* The list of getAll().                                                    *)

\* f lists the copies of S, the newest first.
Lists(f, S) ==
    /\ f \in SetToSeqs(S)
    /\ \A j, k \in DOMAIN f : j < k => f[j].lamport >= f[k].lamport

LEMMA ListExists ==
    ASSUME NEW S \in SUBSET Copy, IsFiniteSet(S)
    PROVE  \E f : Lists(f, S)
<1>. DEFINE Unlisted(n) == {U \in SUBSET Copy :
                    IsFiniteSet(U) /\ Cardinality(U) = n /\ ~ \E f : Lists(f, U)}
            T == {n \in Nat : Unlisted(n) # {}}
<1>1. Cardinality(S) \in Nat
  BY FS_CardinalityType
<1>2. SUFFICES ASSUME T # {} PROVE FALSE
  BY <1>1
<1>3. PICK n \in T : \A m \in T : n <= m
  <2>1. T \in SUBSET Nat
    OBVIOUS
  <2>. HIDE DEF T
  <2>. QED BY <1>2, <2>1, Least
<1>4. PICK U \in SUBSET Copy : IsFiniteSet(U) /\ Cardinality(U) = n /\ ~ \E f : Lists(f, U)
  BY <1>3
<1>5. U # {}
  <2>1. SUFFICES ASSUME U = {} PROVE \E f : Lists(f, U)
    BY <1>4
  <2>2. Lists([i \in 1..0 |-> 0], {})
    BY FS_EmptySet DEF Lists, SetToSeqs
  <2>. QED BY <2>1, <2>2
<1>6. PICK x \in U : \A y \in U : x.lamport <= y.lamport
  <2>. DEFINE L == {y.lamport : y \in U}
  <2>1. L \in SUBSET Nat /\ L # {}
    BY <1>5, ExchangeAssumption DEF Copy
  <2>2. PICK l \in L : \A m \in L : l <= m
    <3>. HIDE DEF L
    <3>. QED BY <2>1, Least
  <2>. QED BY <2>2
<1>. DEFINE V == U \ {x}
<1>7. /\ V \in SUBSET Copy /\ IsFiniteSet(V) /\ Cardinality(V) = n - 1
      /\ n - 1 \in Nat
  <2>1. n \in Nat /\ n # 0
    BY <1>3, <1>4, <1>5, FS_EmptySet
  <2>2. IsFiniteSet(V) /\ Cardinality(V) = n - 1
    BY <1>4, FS_RemoveElement
  <2>. QED BY <2>1, <2>2
<1>8. PICK f : Lists(f, V)
  <2>1. n - 1 \notin T
    <3>1. n \in Nat
      BY <1>3
    <3>. HIDE DEF T
    <3>. QED BY <1>3, <1>7, <3>1
  <2>. QED BY <1>7, <2>1
<1>. DEFINE g == [i \in 1..n |-> IF i = n THEN x ELSE f[i]]
<1>9. /\ f \in [1..(n - 1) -> V]
      /\ \A i, j \in 1..(n - 1) : i # j => f[i] # f[j]
      /\ \A j, k \in 1..(n - 1) : j < k => f[j].lamport >= f[k].lamport
  BY <1>7, <1>8 DEF Lists, SetToSeqs
<1>10. Lists(g, U)
  <2>1. n \in Nat /\ \A i \in 1..n : i # n => i \in 1..(n - 1)
    BY <1>3
  <2>2. g \in [1..n -> U]
    BY <1>9, <2>1
  <2>3. \A i, j \in 1..n : i # j => g[i] # g[j]
    BY <1>9, <2>1
  <2>4. \A j, k \in 1..n : j < k => g[j].lamport >= g[k].lamport
    <3>. SUFFICES ASSUME NEW j \in 1..n, NEW k \in 1..n, j < k
                  PROVE  g[j].lamport >= g[k].lamport
      OBVIOUS
    <3>1. j \in 1..(n - 1) /\ g[j] = f[j] /\ f[j] \in U
      BY <1>9, <2>1
    <3>2. CASE k = n
      <4>1. f[j].lamport \in Nat /\ x.lamport \in Nat
        BY <3>1, ExchangeAssumption DEF Copy
      <4>. QED BY <1>6, <3>1, <3>2, <4>1
    <3>3. CASE k # n
      BY <1>9, <2>1, <3>1, <3>3
    <3>. QED BY <3>2, <3>3
  <2>. QED BY <1>4, <2>2, <2>3, <2>4 DEF Lists, SetToSeqs
<1>. QED BY <1>4, <1>10

\* missing() hands over each copy once.
LEMMA ListsAll ==
    ASSUME NEW S \in SUBSET Copy, IsFiniteSet(S)
    PROVE  LET q == NewestFirst(S) IN
           /\ q \in Seq(Copy) /\ Len(q) = Cardinality(S)
           /\ {q[k] : k \in 1..Len(q)} = S
<1>. DEFINE q == NewestFirst(S)
<1>1. Lists(q, S)
  BY ListExists DEF NewestFirst, Lists
<1>2. Cardinality(S) \in Nat
  BY FS_CardinalityType
<1>3. q \in [1..Cardinality(S) -> S]
  BY <1>1 DEF Lists, SetToSeqs
<1>4. q \in Injection(1..Cardinality(S), S)
  BY <1>1, <1>3 DEF Lists, SetToSeqs, Injection, IsInjective
<1>5. q \in Surjection(1..Cardinality(S), S)
  BY <1>2, <1>4, FS_Injection, FS_Interval
<1>6. \A y \in S : \E k \in 1..Cardinality(S) : q[k] = y
  BY <1>5 DEF Surjection
<1>7. q \in Seq(Copy) /\ Len(q) = Cardinality(S)
  <2>. HIDE DEF q
  <2>. QED BY <1>2, <1>3
<1>. QED BY <1>3, <1>6, <1>7

-----------------------------------------------------------------------------
(* One node.                                                                *)

\* The order of a store s with the clock c.
Ordered(s, c) ==
    /\ \A i \in DOMAIN s : s[i] <= c
    /\ \A i, j \in DOMAIN s : s[i] = s[j] => i = j

Handed(q) == {q[k].id : k \in 1..Len(q)}

LEMMA StoreShape ==
    ASSUME NEW s
    PROVE  s \in Stores <=> DOMAIN s \subseteq Ids /\ s \in [DOMAIN s -> 1..MaxLamport]
BY DEF Stores

LEMMA StoreFinite ==
    ASSUME NEW s \in Stores, NEW c, Ordered(s, c)
    PROVE  IsFiniteSet(DOMAIN s)
<1>1. s \in Injection(DOMAIN s, 1..MaxLamport)
  BY StoreShape DEF Ordered, Injection, IsInjective
<1>2. IsFiniteSet(1..MaxLamport)
  BY ExchangeAssumption, FS_Interval
<1>. QED BY <1>1, <1>2, FS_Injection

\* missing() hands over exactly what the peer does not know.
LEMMA MissingHands ==
    ASSUME NEW s \in Stores, NEW c, Ordered(s, c), NEW known
    PROVE  Missing(s, known) \in Seq(Copy) /\ Handed(Missing(s, known)) = DOMAIN s \ known
<1>. DEFINE D == DOMAIN s \ known
            copy == [i \in D |-> [id |-> i, lamport |-> s[i]]]
            S == {[id |-> i, lamport |-> s[i]] : i \in D}
            q == NewestFirst(S)
<1>1. S \in SUBSET Copy
  BY StoreShape DEF Copy
<1>2. IsFiniteSet(S)
  <2>1. copy \in Surjection(D, S)
    BY DEF Surjection
  <2>2. IsFiniteSet(D)
    BY StoreFinite, FS_Subset
  <2>. HIDE DEF S, D, copy
  <2>. QED BY <2>1, <2>2, FS_Surjection
<1>3. q \in Seq(Copy) /\ {q[k] : k \in 1..Len(q)} = S
  <2>. HIDE DEF S
  <2>. QED BY <1>1, <1>2, ListsAll
<1>4. Handed(q) = {y.id : y \in S}
  <2>. HIDE DEF S, q
  <2>. QED BY <1>3 DEF Handed
<1>5. {y.id : y \in S} = D
  <2>1. \A y \in S : y.id \in D
    OBVIOUS
  <2>2. ASSUME NEW i \in D PROVE \E y \in S : y.id = i
    <3>1. [id |-> i, lamport |-> s[i]] \in S
      OBVIOUS
    <3>. QED BY <3>1
  <2>. HIDE DEF S, D
  <2>. QED BY <2>1, <2>2
<1>6. Missing(s, known) = q
  BY DEF Missing
<1>. QED BY <1>3, <1>4, <1>5, <1>6

\* A batch adds what is new, each message above all that was there and apart from
\* the others.
LEMMA BatchKeepsOrder ==
    ASSUME NEW s \in Stores, NEW c \in 0..MaxLamport, Ordered(s, c),
           NEW q \in Seq(Copy), Clocks(c, q)[Len(q)] <= MaxLamport
    PROVE  /\ Saved(s, c, q) \in Stores
           /\ DOMAIN Saved(s, c, q) = DOMAIN s \cup Handed(q)
           /\ Clocks(c, q)[Len(q)] \in 0..MaxLamport
           /\ Ordered(Saved(s, c, q), Clocks(c, q)[Len(q)])
<1>. DEFINE f == Clocks(c, q)
            at(i) == CHOOSE k \in 1..Len(q) : q[k].id = i
            t == Saved(s, c, q)
<1>1. Saves(f, c, q, Len(q)) /\ c \in Nat /\ Len(q) \in Nat
  BY ClocksAreSaves, ExchangeAssumption
<1>2. f \in [0..Len(q) -> Nat] /\ f[0] = c
  <2>. HIDE DEF f
  <2>. QED BY <1>1 DEF Saves
<1>3. \A j, k \in 0..Len(q) : j < k => f[j] < f[k]
  <2>. HIDE DEF f
  <2>. QED BY <1>1, ClocksGrow
<1>4. f[Len(q)] \in c..MaxLamport
  <2>1. CASE Len(q) = 0
    BY <1>1, <1>2, <2>1
  <2>2. CASE Len(q) # 0
    <3>1. f[0] < f[Len(q)] /\ f[Len(q)] \in Nat
      <4>. HIDE DEF f
      <4>. QED BY <1>1, <1>2, <1>3, <2>2
    <3>. QED BY <1>1, <1>2, <3>1, ExchangeAssumption
  <2>. QED BY <2>1, <2>2
<1>5. /\ DOMAIN t = DOMAIN s \cup Handed(q)
      /\ \A i \in DOMAIN s : t[i] = s[i]
      /\ \A i \in Handed(q) \ DOMAIN s : t[i] = f[at(i)]
  BY DEF Saved, Handed
<1>6. ASSUME NEW i \in Handed(q)
      PROVE  at(i) \in 1..Len(q) /\ q[at(i)].id = i
  BY <1>6 DEF Handed
<1>7. ASSUME NEW k \in 1..Len(q)
      PROVE  f[k] \in 1..MaxLamport /\ c < f[k] /\ f[k] <= f[Len(q)]
  <2>. HIDE DEF f
  <2>1. f[k] \in Nat /\ c < f[k]
    BY <1>1, <1>2, <1>3
  <2>2. f[k] <= f[Len(q)]
    BY <1>1, <1>2, <1>3
  <2>. QED BY <1>1, <1>4, <2>1, <2>2, ExchangeAssumption
<1>8. Handed(q) \subseteq Ids
  BY Lamports DEF Handed
<1>. HIDE DEF f, at, t
<1>9. \A i \in DOMAIN s : s[i] \in 1..MaxLamport /\ s[i] <= c
  BY StoreShape DEF Ordered
<1>10. \A i \in DOMAIN t : t[i] \in 1..MaxLamport /\ t[i] <= f[Len(q)]
  <2>1. ASSUME NEW i \in DOMAIN s PROVE t[i] \in 1..MaxLamport /\ t[i] <= f[Len(q)]
    BY <1>1, <1>4, <1>5, <1>9
  <2>2. ASSUME NEW i \in Handed(q) \ DOMAIN s
        PROVE  t[i] \in 1..MaxLamport /\ t[i] <= f[Len(q)]
    BY <1>5, <1>6, <1>7
  <2>. QED BY <1>5, <2>1, <2>2
<1>11. t \in Stores
  <2>1. DOMAIN t \subseteq Ids
    BY <1>5, <1>8, StoreShape
  <2>2. t = [i \in DOMAIN t |-> t[i]]
    BY DEF t, Saved
  <2>3. t \in [DOMAIN t -> 1..MaxLamport]
    BY <1>10, <2>2
  <2>. QED BY <2>1, <2>3, StoreShape
<1>12. \A i, j \in DOMAIN t : t[i] = t[j] => i = j
  <2>. SUFFICES ASSUME NEW i \in DOMAIN t, NEW j \in DOMAIN t, i # j PROVE t[i] # t[j]
    OBVIOUS
  <2>1. CASE i \in DOMAIN s /\ j \in DOMAIN s
    BY <1>5, <2>1 DEF Ordered
  <2>2. CASE i \in DOMAIN s /\ j \notin DOMAIN s
    <3>1. t[i] <= c /\ t[i] \in Nat
      BY <1>5, <1>9, <2>2, ExchangeAssumption
    <3>2. t[j] \in Nat /\ c < t[j]
      BY <1>5, <1>6, <1>7, <2>2, ExchangeAssumption
    <3>. QED BY <1>1, <3>1, <3>2
  <2>3. CASE i \notin DOMAIN s /\ j \in DOMAIN s
    <3>1. t[j] <= c /\ t[j] \in Nat
      BY <1>5, <1>9, <2>3, ExchangeAssumption
    <3>2. t[i] \in Nat /\ c < t[i]
      BY <1>5, <1>6, <1>7, <2>3, ExchangeAssumption
    <3>. QED BY <1>1, <3>1, <3>2
  <2>4. CASE i \notin DOMAIN s /\ j \notin DOMAIN s
    <3>1. at(i) \in 1..Len(q) /\ at(j) \in 1..Len(q) /\ at(i) # at(j)
      BY <1>5, <1>6, <2>4
    <3>2. t[i] = f[at(i)] /\ t[j] = f[at(j)]
      BY <1>5, <2>4
    <3>3. f[at(i)] \in Nat /\ f[at(j)] \in Nat
      BY <1>2, <3>1
    <3>. QED BY <1>1, <1>3, <3>1, <3>2, <3>3
  <2>. QED BY <2>1, <2>2, <2>3, <2>4
<1>. QED
  BY <1>1, <1>4, <1>5, <1>10, <1>11, <1>12, ExchangeAssumption DEF f, t, Ordered

-----------------------------------------------------------------------------
(* The invariant.                                                           *)

Reached(n) == Held(n) \cup TrimmedAt(n)

Typed ==
    /\ store \in [Nodes -> Stores]
    /\ clock \in [Nodes -> 0..MaxLamport]
    /\ \A x \in exchanges : Shape(x)
    /\ IsFiniteSet(exchanges) /\ Cardinality(exchanges) <= MaxExchanges
    /\ cause \subseteq Ids \X Ids /\ trimmed \subseteq Nodes \X Ids

AllOrdered == \A n \in Nodes : Ordered(store[n], clock[n])

\* What an exchange knows of its two nodes stays true, because what a node has
\* reached it holds or has trimmed.
Covered(x) ==
    /\ x.step = "asked" => x.ids \subseteq Reached(x.from)
    /\ x.step = "answered" =>
          /\ x.peerIds \subseteq Reached(x.to)
          /\ x.peerIds \subseteq Reached(x.from) \cup Handed(x.missing)
    /\ x.step = "pushing" =>
          /\ x.peerIds \subseteq Reached(x.from)
          /\ x.had \subseteq Reached(x.to) \cup Handed(x.delta)

IInv == Typed /\ AllOrdered /\ \A x \in exchanges : Covered(x)

LEMMA InitInv == Init => IInv
<1>. SUFFICES ASSUME Init PROVE IInv
  OBVIOUS
<1>1. [i \in {} |-> 0] \in Stores
  BY StoreShape
<1>2. Typed
  BY <1>1, FS_EmptySet, ExchangeAssumption DEF Init, Typed
<1>3. AllOrdered
  BY DEF Init, AllOrdered, Ordered
<1>. QED BY <1>2, <1>3 DEF Init, IInv

\* Nodes reach more and more, so the exchanges that go on stay covered.
LEMMA StaysCovered ==
    ASSUME IInv, NEW x \in exchanges, \A n \in Nodes : Reached(n) \subseteq Reached(n)'
    PROVE  Shape(x)' /\ Covered(x)'
BY DEF IInv, Typed, Shape, Covered

\* One exchange is replaced by at most one.
LEMMA FewExchanges ==
    ASSUME IInv, NEW x \in exchanges, NEW y
    PROVE  /\ IsFiniteSet(exchanges \ {x}) /\ Cardinality(exchanges \ {x}) <= MaxExchanges
           /\ IsFiniteSet((exchanges \ {x}) \cup {y})
           /\ Cardinality((exchanges \ {x}) \cup {y}) <= MaxExchanges
<1>1. /\ IsFiniteSet(exchanges \ {x})
      /\ Cardinality(exchanges \ {x}) = Cardinality(exchanges) - 1
      /\ Cardinality(exchanges) \in Nat
  BY FS_RemoveElement, FS_CardinalityType DEF IInv, Typed
<1>2. /\ IsFiniteSet((exchanges \ {x}) \cup {y})
      /\ Cardinality((exchanges \ {x}) \cup {y}) \in
            {Cardinality(exchanges \ {x}), Cardinality(exchanges \ {x}) + 1}
  BY <1>1, FS_AddElement
<1>. QED BY <1>1, <1>2, ExchangeAssumption DEF IInv, Typed

LEMMA WriteInv ==
    ASSUME IInv, NEW n \in Nodes, NEW id \in Ids, Write(n, id) PROVE IInv'
<1>. DEFINE s == store[n]
            t == [i \in DOMAIN s \cup {id} |-> IF i = id THEN clock[n] + 1 ELSE s[i]]
<1>1. /\ store' = [store EXCEPT ![n] = t] /\ clock' = [clock EXCEPT ![n] = @ + 1]
      /\ clock[n] \in 0..MaxLamport /\ clock[n] < MaxLamport
      /\ s \in Stores /\ Ordered(s, clock[n]) /\ id \notin DOMAIN s
      /\ UNCHANGED <<exchanges, trimmed>>
  BY DEF Write, IInv, Typed, AllOrdered, Held
<1>2. clock[n] + 1 \in 1..MaxLamport
  BY <1>1, ExchangeAssumption
<1>3. t \in Stores
  <2>1. DOMAIN s \subseteq Ids /\ s \in [DOMAIN s -> 1..MaxLamport]
    BY <1>1, StoreShape
  <2>2. DOMAIN t \subseteq Ids /\ t \in [DOMAIN t -> 1..MaxLamport]
    BY <1>2, <2>1
  <2>. HIDE DEF t
  <2>. QED BY <2>2, StoreShape
<1>4. Ordered(t, clock[n] + 1)
  <2>1. \A i \in DOMAIN s : s[i] \in Nat /\ s[i] <= clock[n]
    BY <1>1, StoreShape, ExchangeAssumption DEF Ordered
  <2>. QED BY <1>1, <2>1, ExchangeAssumption DEF Ordered
<1>. HIDE DEF t
<1>5. \A k \in Nodes : Reached(k) \subseteq Reached(k)'
  BY <1>1 DEF Reached, Held, TrimmedAt, t, IInv, Typed
<1>6. AllOrdered'
  BY <1>1, <1>4 DEF AllOrdered, IInv, Typed
<1>7. cause' \subseteq Ids \X Ids
  <2>1. Held(n) \subseteq Ids
    BY <1>1, StoreShape DEF Held
  <2>. QED BY <2>1 DEF Write, IInv, Typed
<1>8. store' \in [Nodes -> Stores] /\ clock' \in [Nodes -> 0..MaxLamport]
  BY <1>1, <1>2, <1>3 DEF IInv, Typed
<1>9. \A x \in exchanges' : Shape(x)' /\ Covered(x)'
  BY <1>1, <1>5, StaysCovered
<1>. QED BY <1>1, <1>6, <1>7, <1>8, <1>9 DEF IInv, Typed

LEMMA TrimInv ==
    ASSUME IInv, NEW n \in Nodes, NEW id \in Ids, Trim(n, id) PROVE IInv'
<1>. DEFINE s == store[n]
            t == [i \in DOMAIN s \ {id} |-> s[i]]
<1>1. /\ store' = [store EXCEPT ![n] = t] /\ trimmed' = trimmed \cup {<<n, id>>}
      /\ s \in Stores /\ Ordered(s, clock[n]) /\ UNCHANGED <<clock, exchanges, cause>>
  BY DEF Trim, IInv, Typed, AllOrdered
<1>2. t \in Stores /\ Ordered(t, clock[n])
  <2>1. DOMAIN s \subseteq Ids /\ s \in [DOMAIN s -> 1..MaxLamport]
    BY <1>1, StoreShape
  <2>2. DOMAIN t \subseteq Ids /\ t \in [DOMAIN t -> 1..MaxLamport]
    BY <2>1
  <2>3. Ordered(t, clock[n])
    BY <1>1 DEF Ordered
  <2>. HIDE DEF t
  <2>. QED BY <2>2, <2>3, StoreShape
<1>3. \A k \in Nodes : Reached(k) \subseteq Reached(k)'
  BY <1>1 DEF Reached, Held, TrimmedAt, IInv, Typed
<1>. HIDE DEF t
<1>4. AllOrdered'
  BY <1>1, <1>2 DEF AllOrdered, IInv, Typed
<1>5. \A x \in exchanges' : Shape(x)' /\ Covered(x)'
  BY <1>1, <1>3, StaysCovered
<1>. QED BY <1>1, <1>2, <1>4, <1>5 DEF IInv, Typed

LEMMA AskInv == ASSUME IInv, NEW a \in Nodes, NEW b \in Nodes, Ask(a, b) PROVE IInv'
<1>0. PICK y : y = [from |-> a, to |-> b, step |-> "asked", ids |-> Held(a)]
  OBVIOUS
<1>1. Held(a) \subseteq Ids
  BY StoreShape DEF Held, IInv, Typed
<1>2. Shape(y) /\ Covered(y)
  BY <1>0, <1>1 DEF Ask, Shape, Covered, Reached
<1>3. IsFiniteSet(exchanges') /\ Cardinality(exchanges') <= MaxExchanges
  <2>1. exchanges' = exchanges \cup {y} /\ Cardinality(exchanges) < MaxExchanges
    BY <1>0 DEF Ask
  <2>2. IsFiniteSet(exchanges) /\ Cardinality(exchanges) \in Nat
    BY FS_CardinalityType DEF IInv, Typed
  <2>. QED BY <2>1, <2>2, FS_AddElement, ExchangeAssumption
<1>4. \A n \in Nodes : Reached(n) \subseteq Reached(n)'
  BY DEF Ask, Reached, Held, TrimmedAt
<1>5. \A x \in exchanges' : Shape(x)' /\ Covered(x)'
  <2>1. Shape(y)' /\ Covered(y)'
    BY <1>2 DEF Ask, Shape, Covered, Reached, Held, TrimmedAt
  <2>2. exchanges' = exchanges \cup {y}
    BY <1>0 DEF Ask
  <2>3. \A x \in exchanges : Shape(x)' /\ Covered(x)'
    BY <1>4, StaysCovered
  <2>. QED BY <2>1, <2>2, <2>3
<1>. QED BY <1>3, <1>5 DEF Ask, IInv, Typed, AllOrdered

LEMMA AnswerInv == ASSUME IInv, NEW x \in exchanges, Answer(x) PROVE IInv'
<1>. DEFINE q == Missing(store[x.to], x.ids)
<1>0. PICK y : y = [from |-> x.from, to |-> x.to, step |-> "answered",
                    missing |-> q, peerIds |-> Held(x.to)]
  OBVIOUS
<1>1. /\ Shape(x) /\ Covered(x) /\ x.step = "asked" /\ x.from \in Nodes /\ x.to \in Nodes
      /\ store[x.to] \in Stores /\ Ordered(store[x.to], clock[x.to])
  BY DEF IInv, Typed, AllOrdered, Answer, Shape
<1>2. q \in Seq(Copy) /\ Handed(q) = Held(x.to) \ x.ids /\ Held(x.to) \subseteq Ids
  BY <1>1, MissingHands, StoreShape DEF Held
<1>. HIDE DEF q
<1>3. Shape(y) /\ Covered(y)
  BY <1>0, <1>1, <1>2 DEF Shape, Covered, Reached
<1>4. exchanges' = (exchanges \ {x}) \cup {y} /\ UNCHANGED <<store, clock, cause, trimmed>>
  BY <1>0 DEF Answer, Becomes, q
<1>5. IsFiniteSet(exchanges') /\ Cardinality(exchanges') <= MaxExchanges
  BY <1>4, FewExchanges
<1>6. \A n \in Nodes : Reached(n) \subseteq Reached(n)'
  BY <1>4 DEF Reached, Held, TrimmedAt
<1>7. \A z \in exchanges' : Shape(z)' /\ Covered(z)'
  <2>1. Shape(y)' /\ Covered(y)'
    BY <1>3, <1>4 DEF Shape, Covered, Reached, Held, TrimmedAt
  <2>2. \A z \in exchanges : Shape(z)' /\ Covered(z)'
    BY <1>6, StaysCovered
  <2>. QED BY <1>4, <2>1, <2>2
<1>. QED BY <1>4, <1>5, <1>7 DEF IInv, Typed, AllOrdered

\* What an ingested batch does to the invariant, whatever comes next.
LEMMA ReconcileInv ==
    ASSUME IInv, NEW n \in Nodes, NEW q \in Seq(Copy), Reconcile(n, q), trimmed' = trimmed
    PROVE  /\ store' \in [Nodes -> Stores] /\ clock' \in [Nodes -> 0..MaxLamport]
           /\ AllOrdered'
           /\ \A k \in Nodes : Reached(k) \subseteq Reached(k)'
           /\ Held(n)' = Held(n) \cup Handed(q)
<1>. DEFINE s == store[n]
            c == clock[n]
            t == Saved(s, c, q)
            d == Clocks(c, q)[Len(q)]
<1>1. /\ s \in Stores /\ c \in 0..MaxLamport /\ Ordered(s, c) /\ d <= MaxLamport
      /\ store' = [store EXCEPT ![n] = t] /\ clock' = [clock EXCEPT ![n] = d]
  BY DEF IInv, Typed, AllOrdered, Reconcile
<1>2. /\ t \in Stores /\ DOMAIN t = DOMAIN s \cup Handed(q)
      /\ d \in 0..MaxLamport /\ Ordered(t, d)
  BY <1>1, BatchKeepsOrder
<1>. HIDE DEF t, d
<1>3. store' \in [Nodes -> Stores] /\ clock' \in [Nodes -> 0..MaxLamport]
  BY <1>1, <1>2 DEF IInv, Typed
<1>4. AllOrdered'
  BY <1>1, <1>2 DEF AllOrdered, IInv, Typed
<1>5. Held(n)' = Held(n) \cup Handed(q)
  BY <1>1, <1>2 DEF Held, IInv, Typed
<1>6. \A k \in Nodes : Reached(k) \subseteq Reached(k)'
  BY <1>1, <1>2 DEF Reached, Held, TrimmedAt, IInv, Typed
<1>. QED BY <1>3, <1>4, <1>5, <1>6

LEMMA IngestInv == ASSUME IInv, NEW x \in exchanges, Ingest(x) PROVE IInv'
<1>. DEFINE delta == Missing(store'[x.from], x.peerIds)
<1>1. /\ Shape(x) /\ Covered(x) /\ x.step = "answered" /\ x.from \in Nodes
      /\ x.missing \in Seq(Copy) /\ Reconcile(x.from, x.missing)
      /\ UNCHANGED <<cause, trimmed>>
  BY DEF IInv, Typed, Ingest, Shape
<1>2. /\ store' \in [Nodes -> Stores] /\ clock' \in [Nodes -> 0..MaxLamport]
      /\ AllOrdered'
      /\ \A k \in Nodes : Reached(k) \subseteq Reached(k)'
      /\ Held(x.from)' = Held(x.from) \cup Handed(x.missing)
  BY <1>1, ReconcileInv
<1>3. \A z \in exchanges : Shape(z)' /\ Covered(z)'
  BY <1>2, StaysCovered
<1>4. CASE exchanges' = exchanges \ {x}
  <2>1. IsFiniteSet(exchanges') /\ Cardinality(exchanges') <= MaxExchanges
    BY <1>4, FewExchanges
  <2>. QED BY <1>1, <1>2, <1>3, <1>4, <2>1 DEF IInv, Typed
<1>5. CASE Becomes(x, [from |-> x.from, to |-> x.to, step |-> "pushing",
                       delta |-> delta, peerIds |-> x.peerIds,
                       had |-> DOMAIN store'[x.from]])
  <2>0. PICK y : y = [from |-> x.from, to |-> x.to, step |-> "pushing",
                      delta |-> delta, peerIds |-> x.peerIds,
                      had |-> DOMAIN store'[x.from]]
    OBVIOUS
  <2>1. exchanges' = (exchanges \ {x}) \cup {y}
    BY <1>5, <2>0 DEF Becomes
  <2>2. /\ delta \in Seq(Copy) /\ Handed(delta) = Held(x.from)' \ x.peerIds
        /\ Held(x.from)' \subseteq Ids
    <3>1. store'[x.from] \in Stores /\ Ordered(store'[x.from], clock'[x.from])
      BY <1>1, <1>2 DEF AllOrdered
    <3>. QED BY <3>1, MissingHands, StoreShape DEF Held
  <2>. HIDE DEF delta
  <2>3. /\ y.from = x.from /\ y.to = x.to /\ y.step = "pushing" /\ y.delta = delta
        /\ y.peerIds = x.peerIds /\ y.had = Held(x.from)'
    BY <2>0 DEF Held
  <2>4. Shape(y)
    BY <1>1, <2>2, <2>3 DEF Shape
  <2>5. x.to \in Nodes /\ x.peerIds \subseteq Reached(x.to)'
    BY <1>1, <1>2 DEF Shape, Covered
  <2>6. x.peerIds \subseteq Reached(x.from)'
    <3>1. Handed(x.missing) \subseteq Reached(x.from)'
      BY <1>2 DEF Reached
    <3>. QED BY <1>1, <1>2, <3>1 DEF Covered
  <2>7. Held(x.from)' \subseteq Reached(x.to)' \cup Handed(delta)
    BY <2>2, <2>5
  <2>8. Covered(y)'
    BY <2>3, <2>5, <2>6, <2>7 DEF Covered
  <2>9. IsFiniteSet(exchanges') /\ Cardinality(exchanges') <= MaxExchanges
    BY <2>1, FewExchanges
  <2>10. \A z \in exchanges' : Shape(z)' /\ Covered(z)'
    BY <1>3, <2>1, <2>4, <2>8 DEF Shape
  <2>. QED BY <1>1, <1>2, <2>9, <2>10 DEF IInv, Typed
<1>. QED BY <1>4, <1>5 DEF Ingest

LEMMA PushInv == ASSUME IInv, NEW x \in exchanges, Push(x) PROVE IInv'
<1>1. /\ Shape(x) /\ x.to \in Nodes /\ x.delta \in Seq(Copy) /\ Reconcile(x.to, x.delta)
      /\ exchanges' = exchanges \ {x} /\ UNCHANGED <<cause, trimmed>>
  BY DEF IInv, Typed, Push, Shape
<1>2. /\ store' \in [Nodes -> Stores] /\ clock' \in [Nodes -> 0..MaxLamport]
      /\ AllOrdered'
      /\ \A k \in Nodes : Reached(k) \subseteq Reached(k)'
  BY <1>1, ReconcileInv
<1>3. \A z \in exchanges' : Shape(z)' /\ Covered(z)'
  BY <1>1, <1>2, StaysCovered
<1>4. IsFiniteSet(exchanges') /\ Cardinality(exchanges') <= MaxExchanges
  BY <1>1, FewExchanges
<1>. QED BY <1>1, <1>2, <1>3, <1>4 DEF IInv, Typed

LEMMA LoseInv == ASSUME IInv, NEW x \in exchanges, Lose(x) PROVE IInv'
<1>1. \A n \in Nodes : Reached(n) \subseteq Reached(n)'
  BY DEF Lose, Reached, Held, TrimmedAt
<1>2. \A z \in exchanges' : Shape(z)' /\ Covered(z)'
  BY <1>1, StaysCovered DEF Lose
<1>3. IsFiniteSet(exchanges') /\ Cardinality(exchanges') <= MaxExchanges
  BY FewExchanges DEF Lose
<1>. QED BY <1>2, <1>3 DEF Lose, IInv, Typed, AllOrdered

LEMMA NextInv == ASSUME IInv, [Next]_vars PROVE IInv'
<1>1. CASE UNCHANGED vars
  BY <1>1 DEF vars, IInv, Typed, AllOrdered, Covered, Reached, Held, TrimmedAt
<1>. QED
  BY <1>1, WriteInv, TrimInv, AskInv, AnswerInv, IngestInv, PushInv, LoseInv DEF Next

LEMMA Invariance == Spec => []IInv
<1>. QED BY InitInv, NextInv, PTL DEF Spec

-----------------------------------------------------------------------------
(* The theorems.                                                            *)

\* The type invariant; clocks and lists stay within their bounds.
THEOREM AntiEntropyTyped == Spec => []TypeOK
<1>1. IInv => TypeOK
  BY DEF IInv, Typed, TypeOK
<1>. QED BY <1>1, Invariance, PTL

\* Whatever batches a node ingests, twice or in any order, its own order of
\* messages stays total and below its clock.
THEOREM OrderStaysTotal == Spec => []LamportOrder
<1>1. IInv => LamportOrder
  BY DEF IInv, AllOrdered, Ordered, LamportOrder, Held
<1>. QED BY <1>1, Invariance, PTL

\* An exchange that reaches its push unites the two nodes but for what they have
\* trimmed, for any number of exchanges under way.
THEOREM ExchangesUnite == Spec => []DeltaSuffices
<1>1. IInv => DeltaSuffices
  BY DEF IInv, Covered, Reached, Handed, DeltaSuffices
<1>. QED BY <1>1, Invariance, PTL
=============================================================================
