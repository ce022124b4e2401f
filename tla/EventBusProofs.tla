--------------------------- MODULE EventBusProofs ---------------------------
(***************************************************************************)
(* Proofs about the event bus for any nodes, documents, events and bounds.  *)
(*                                                                          *)
(* The invariant has a part for each node and one for the vector clocks.    *)
(* A node: what is stored is filed under its id and covered by the Lamport  *)
(* clock (StoreFine), so is the index (IndexFine), and the index serves     *)
(* what is stored unless it is behind (Serves).  The clocks: until a        *)
(* process restarts, an event is covered by the clocks of exactly those     *)
(* that follow it (Knowledge), so that the order of the clocks is the order *)
(* of publication.  Whatever the clocks are, the direct parents are the     *)
(* transitive reduction of their order.                                     *)
(***************************************************************************)
EXTENDS EventBus, FiniteSetTheorems, TLAPS

Stores  == UNION {[S -> Message] : S \in SUBSET Ids}
Indexes == UNION {[S -> Event] : S \in SUBSET Docs}

Typed ==
    /\ store \in [Nodes -> Stores] /\ clock \in [Nodes -> Nat]
    /\ docs \in [Nodes -> Indexes] /\ vclock \in [Nodes -> VClocks]
    /\ indexed \in [Nodes -> BOOLEAN] /\ published \subseteq Event
    /\ seen \in [Nodes -> SUBSET Names] /\ restarted \subseteq Nodes

\* An event some bus published (P), or the JSON of a client's message.
Genuine(e, P) == e \in P \/ (e.vclock = Zero /\ e.past = {})

\* One node: its store s and its clock c.
StoreFine(s, c, P) ==
    /\ IsFiniteSet(DOMAIN s)
    /\ \A i \in DOMAIN s :
         /\ s[i].event.id = i /\ s[i].lamport <= c /\ Genuine(s[i].event, P)
         /\ s[i].event \in P => s[i].event.lamport < s[i].lamport

\* One node: its index x and its clock c.
IndexFine(x, c, P) ==
    \A d \in DOMAIN x :
       /\ x[d].doc = d /\ Genuine(x[d], P)
       /\ x[d] \in P => x[d].lamport <= c

\* One node: the index x serves what is stored in s, or something newer.
Serves(s, x) ==
    \A i \in DOMAIN s : s[i].event.doc # None =>
        s[i].event.doc \in DOMAIN x /\ ~Exceeds(s[i].event, x[s[i].event.doc])

NodeFine(n) ==
    /\ StoreFine(store[n], clock[n], published)
    /\ IndexFine(docs[n], clock[n], published)
    /\ indexed[n] => Serves(store[n], docs[n])

\* An event is covered by a clock exactly when the clock's owner knows it, what is
\* known is covered everywhere, nobody is ahead of a node in its own component, two
\* events do not follow each other, and what is known was published.
Knowledge ==
    /\ \A e, f \in published :
         /\ Name(e) \in f.past <=> e.vclock[e.sender] <= f.vclock[e.sender]
         /\ Name(e) \in f.past => \A m \in Nodes : e.vclock[m] <= f.vclock[m]
         /\ Name(e) \in f.past /\ Name(f) \in e.past => e = f
    /\ \A e \in published, q \in Nodes :
         /\ Name(e) \in seen[q] <=> e.vclock[e.sender] <= vclock[q][e.sender]
         /\ Name(e) \in seen[q] => \A m \in Nodes : e.vclock[m] <= vclock[q][m]
    /\ \A m \in Nodes : /\ \A e \in published : e.vclock[m] <= vclock[m][m]
                        /\ \A q \in Nodes : vclock[q][m] <= vclock[m][m]
    /\ \A e \in published : \A p \in e.past : p[2] <= clock[p[1]]
    /\ \A q \in Nodes : \A p \in seen[q] : p[2] <= clock[p[1]]

IInv ==
    /\ Typed
    /\ \A n \in Nodes : NodeFine(n)
    /\ \A e \in published : e.vclock # Zero
    /\ restarted = {} => Knowledge

LEMMA Shapes ==
    ASSUME NEW f
    PROVE  /\ f \in Stores  <=> DOMAIN f \subseteq Ids /\ f \in [DOMAIN f -> Message]
           /\ f \in Indexes <=> DOMAIN f \subseteq Docs /\ f \in [DOMAIN f -> Event]
<1>1. f \in Stores <=> DOMAIN f \subseteq Ids /\ f \in [DOMAIN f -> Message]
  BY DEF Stores
<1>2. f \in Indexes <=> DOMAIN f \subseteq Docs /\ f \in [DOMAIN f -> Event]
  BY DEF Indexes
<1>. QED BY <1>1, <1>2

LEMMA Events ==
    ASSUME NEW e \in Event
    PROVE  /\ e.id \in Ids /\ e.id \in Nat /\ e.lamport \in Nat /\ e.sender \in Nodes
           /\ e.doc = None \/ e.doc \in Docs
           /\ e.vclock \in [Nodes -> Nat] /\ e.past \in SUBSET Names
BY EventBusAssumption DEF Event, Ids, VClocks

\* The messages of a store and the entries of an index.
LEMMA Entries ==
    ASSUME Typed, NEW n \in Nodes
    PROVE  /\ DOMAIN store[n] \subseteq Ids /\ DOMAIN docs[n] \subseteq Docs
           /\ store[n] \in Stores /\ docs[n] \in Indexes /\ clock[n] \in Nat
           /\ \A i \in DOMAIN store[n] : /\ store[n][i] \in Message
                                         /\ store[n][i].lamport \in Nat
                                         /\ store[n][i].event \in Event
           /\ \A d \in DOMAIN docs[n] : docs[n][d] \in Event
           /\ vclock[n] \in [Nodes -> Nat] /\ seen[n] \in SUBSET Names
<1>1. store[n] \in Stores /\ docs[n] \in Indexes
  BY DEF Typed
<1>2. /\ DOMAIN store[n] \subseteq Ids /\ store[n] \in [DOMAIN store[n] -> Message]
      /\ DOMAIN docs[n] \subseteq Docs /\ docs[n] \in [DOMAIN docs[n] -> Event]
  BY <1>1, Shapes
<1>3. ASSUME NEW i \in DOMAIN store[n]
      PROVE  store[n][i] \in Message /\ store[n][i].lamport \in Nat /\ store[n][i].event \in Event
  <2>1. store[n][i] \in Message
    BY <1>2
  <2>. QED BY <2>1 DEF Message
<1>4. clock[n] \in Nat /\ vclock[n] \in [Nodes -> Nat] /\ seen[n] \in SUBSET Names
  BY DEF Typed, VClocks
<1>. QED BY <1>1, <1>2, <1>3, <1>4

-----------------------------------------------------------------------------
(* Orders on finite sets.                                                   *)

\* Every set of natural numbers that is not empty has a least one.
LEMMA Least ==
    ASSUME NEW T \in SUBSET Nat, T # {}
    PROVE  \E n \in T : \A m \in T : n <= m
<1>1. PICK n \in T : \A m \in T : ~(<<m, n>> \in OpToRel(<, Nat))
  BY WFMin, NatLessThanWellFounded
<1>2. ASSUME NEW m \in T, m < n PROVE FALSE
  <2>1. <<m, n>> \in OpToRel(<, Nat)
    BY <1>2 DEF OpToRel
  <2>. QED BY <1>1, <2>1
<1>. QED BY <1>2

\* A strict order on a finite set has a maximal element.
LEMMA Maximal ==
    ASSUME NEW S, IsFiniteSet(S), S # {}, NEW R,
           \A a \in S : <<a, a>> \notin R,
           \A a, b, c \in S : <<a, b>> \in R /\ <<b, c>> \in R => <<a, c>> \in R
    PROVE  \E k \in S : \A l \in S : <<k, l>> \notin R
<1>. DEFINE Above == [a \in S |-> {b \in S : <<a, b>> \in R}]
            mu    == [a \in S |-> Cardinality(Above[a])]
            T     == {mu[a] : a \in S}
<1>1. \A a \in S : Above[a] \subseteq S /\ \A b \in S : b \in Above[a] <=> <<a, b>> \in R
  OBVIOUS
<1>2. \A a \in S : mu[a] = Cardinality(Above[a])
  OBVIOUS
<1>. HIDE DEF Above, mu
<1>3. \A a \in S : IsFiniteSet(Above[a]) /\ mu[a] \in Nat
  BY <1>1, <1>2, FS_Subset, FS_CardinalityType
<1>4. T \in SUBSET Nat /\ T # {}
  BY <1>3
<1>5. PICK t \in T : \A u \in T : t <= u
  <2>. HIDE DEF T
  <2>. QED BY <1>4, Least
<1>6. PICK k \in S : t = mu[k]
  BY <1>5
<1>7. ASSUME NEW l \in S, <<k, l>> \in R PROVE FALSE
  <2>1. Above[l] \subseteq Above[k]
    BY <1>1, <1>6, <1>7
  <2>2. l \in Above[k] /\ l \notin Above[l]
    BY <1>1, <1>6, <1>7
  <2>3. mu[l] <= mu[k] /\ (mu[l] = mu[k] => Above[l] = Above[k])
    BY <2>1, <1>2, <1>3, <1>6, FS_Subset
  <2>4. mu[k] <= mu[l]
    BY <1>5, <1>6
  <2>. QED BY <2>2, <2>3, <2>4, <1>3, <1>6
<1>. QED BY <1>6, <1>7

\* A function has finitely many values on a finite domain.
LEMMA Values ==
    ASSUME NEW S, IsFiniteSet(S), NEW f, f = [x \in S |-> f[x]]
    PROVE  IsFiniteSet({f[x] : x \in S})
<1>. DEFINE T == {f[x] : x \in S}
<1>1. f \in [S -> T]
  OBVIOUS
<1>2. f \in Surjection(S, T)
  BY <1>1 DEF Surjection
<1>. HIDE DEF T
<1>3. IsFiniteSet(T)
  BY <1>2, FS_Surjection
<1>. QED BY <1>3 DEF T

LEMMA HighestFacts ==
    ASSUME NEW S \in SUBSET Nat, IsFiniteSet(S), S # {}
    PROVE  Highest(S) \in S /\ \A l \in S : l <= Highest(S)
<1>. DEFINE R == {g \in Nat \X Nat : g[1] < g[2]}
<1>1. \A a, b \in Nat : <<a, b>> \in R <=> a < b
  OBVIOUS
<1>. HIDE DEF R
<1>2. \A a \in S : <<a, a>> \notin R
  BY <1>1
<1>3. \A a, b, c \in S : <<a, b>> \in R /\ <<b, c>> \in R => <<a, c>> \in R
  BY <1>1
<1>4. PICK k \in S : \A l \in S : <<k, l>> \notin R
  BY <1>2, <1>3, Maximal
<1>5. ASSUME NEW l \in S PROVE l <= k
  <2>1. ~(k < l)
    BY <1>1, <1>4
  <2>2. k \in Nat /\ l \in Nat
    BY <1>4
  <2>. QED BY <2>1, <2>2
<1>. QED BY <1>5 DEF Highest

\* Exceeds orders the events strictly, and by Lamport value first.
LEMMA ExceedsIsOrder ==
    /\ \A e \in Event : ~Exceeds(e, e)
    /\ \A e, f, g \in Event : Exceeds(e, f) /\ Exceeds(f, g) => Exceeds(e, g)
    /\ \A e, f, g \in Event : ~Exceeds(e, f) /\ ~Exceeds(f, g) => ~Exceeds(e, g)
    /\ \A e, f \in Event : Exceeds(e, f) => e.lamport >= f.lamport /\ ~Exceeds(f, e)
BY Events DEF Exceeds

LEMMA NewestFacts ==
    ASSUME NEW V \in SUBSET Event, IsFiniteSet(V), V # {}
    PROVE  Newest(V) \in V /\ \A f \in V : ~Exceeds(f, Newest(V))
<1>. DEFINE R == {g \in Event \X Event : Exceeds(g[2], g[1])}
<1>1. \A a, b \in Event : <<a, b>> \in R <=> Exceeds(b, a)
  OBVIOUS
<1>. HIDE DEF R
<1>2. \A a \in V : <<a, a>> \notin R
  BY <1>1, ExceedsIsOrder
<1>3. \A a, b, c \in V : <<a, b>> \in R /\ <<b, c>> \in R => <<a, c>> \in R
  BY <1>1, ExceedsIsOrder
<1>4. PICK k \in V : \A l \in V : <<k, l>> \notin R
  BY <1>2, <1>3, Maximal
<1>5. \A l \in V : ~Exceeds(l, k)
  BY <1>1, <1>4
<1>. QED BY <1>5 DEF Newest

-----------------------------------------------------------------------------
(* The index.                                                               *)

\* An update never takes a document back, and afterwards serves the event or
\* something newer.
LEMMA UpdatedFacts ==
    ASSUME NEW x \in Indexes, NEW e \in Event
    PROVE  LET y == Updated(x, e) IN
           /\ y \in Indexes
           /\ \A d : d \in DOMAIN y <=> d \in DOMAIN x \/ (d = e.doc /\ d # None)
           /\ e.doc # None => ~Exceeds(e, y[e.doc])
           /\ \A d \in DOMAIN x : ~Exceeds(x[d], y[d]) /\ y[d].lamport >= x[d].lamport
           /\ \A d \in DOMAIN y : (d = e.doc /\ y[d] = e) \/ (d \in DOMAIN x /\ y[d] = x[d])
<1>. DEFINE y == Updated(x, e)
<1>1. \A d \in DOMAIN x : x[d] \in Event /\ x[d].lamport \in Nat
  BY Shapes, Events
<1>2. DOMAIN x \subseteq Docs /\ None \notin Docs
  BY Shapes, EventBusAssumption
<1>3. CASE e.doc = None \/ (e.doc \in DOMAIN x /\ ~Exceeds(e, x[e.doc]))
  <2>1. y = x
    BY <1>3 DEF Updated
  <2>2. \A d \in DOMAIN x : ~Exceeds(x[d], x[d]) /\ x[d].lamport >= x[d].lamport
    BY <1>1, ExceedsIsOrder
  <2>. QED BY <1>2, <1>3, <2>1, <2>2
<1>4. CASE ~(e.doc = None \/ (e.doc \in DOMAIN x /\ ~Exceeds(e, x[e.doc])))
  <2>1. y = [k \in DOMAIN x \cup {e.doc} |-> IF k = e.doc THEN e ELSE x[k]]
    BY <1>4 DEF Updated, Put
  <2>. HIDE DEF y
  <2>2. /\ DOMAIN y = DOMAIN x \cup {e.doc} /\ y[e.doc] = e
        /\ \A d \in DOMAIN x : d # e.doc => y[d] = x[d]
    BY <2>1
  <2>3. y \in Indexes
    <3>1. e.doc \in Docs
      BY <1>4, Events
    <3>2. y \in [DOMAIN y -> Event]
      BY <1>1, <2>1
    <3>. QED BY <1>2, <2>2, <3>1, <3>2, Shapes
  <2>4. ASSUME NEW d \in DOMAIN x
        PROVE  ~Exceeds(x[d], y[d]) /\ y[d].lamport >= x[d].lamport
    <3>1. CASE d = e.doc
      BY <1>1, <1>4, <2>2, <3>1, ExceedsIsOrder
    <3>2. CASE d # e.doc
      BY <1>1, <2>2, <3>2, ExceedsIsOrder
    <3>. QED BY <3>1, <3>2
  <2>. QED BY <1>4, <2>2, <2>3, <2>4, ExceedsIsOrder DEF y
<1>. QED BY <1>3, <1>4

-----------------------------------------------------------------------------
(* One node.                                                                *)

\* Nothing that was known becomes a published event: those have a vector clock.
Extends(P, Q) == P \subseteq Q /\ \A e \in Q \ P : e.vclock # Zero

LEMMA StoreLater ==
    ASSUME Typed, NEW n \in Nodes, NEW c \in Nat, c >= clock[n], NEW P, Extends(published, P),
           StoreFine(store[n], clock[n], published)
    PROVE  StoreFine(store[n], c, P)
BY Entries DEF StoreFine, Genuine, Extends

LEMMA IndexLater ==
    ASSUME Typed, NEW n \in Nodes, NEW c \in Nat, c >= clock[n], NEW P, Extends(published, P),
           IndexFine(docs[n], clock[n], published)
    PROVE  IndexFine(docs[n], c, P)
<1>1. \A d \in DOMAIN docs[n] : docs[n][d].lamport \in Nat
  BY Entries, Events
<1>. QED BY <1>1, Entries DEF IndexFine, Genuine, Extends

\* What a save leaves at node n.
LEMMA SaveFacts ==
    ASSUME Typed, NEW n \in Nodes, NEW e \in Event, NEW c \in Nat, NEW l \in Nat,
           c >= clock[n], SaveAt(n, e, c, l), NEW P, Extends(published, P), Genuine(e, P),
           e \in P => e.lamport <= c \/ e.lamport <= l,
           StoreFine(store[n], clock[n], published)
    PROVE  /\ clock' \in [Nodes -> Nat] /\ store' \in [Nodes -> Stores]
           /\ clock'[n] > c /\ clock'[n] > l
           /\ DOMAIN store'[n] = DOMAIN store[n] \cup {e.id}
           /\ \A i \in DOMAIN store[n] : store'[n][i] = store[n][i]
           /\ e.id \notin DOMAIN store[n] => store'[n][e.id].event = e
           /\ \A m \in Nodes \ {n} : store'[m] = store[m] /\ clock'[m] = clock[m]
           /\ StoreFine(store'[n], clock'[n], P)
<1>1. clock[n] \in Nat /\ e.lamport \in Nat /\ e.id \in Ids
  BY Entries, Events
<1>2. /\ clock' = [clock EXCEPT ![n] = Larger(c, l) + 1]
      /\ Larger(c, l) \in Nat /\ Larger(c, l) >= c /\ Larger(c, l) >= l
  BY DEF SaveAt, Larger
<1>3. /\ clock' \in [Nodes -> Nat] /\ clock'[n] = Larger(c, l) + 1
      /\ \A m \in Nodes \ {n} : clock'[m] = clock[m]
  BY <1>2 DEF Typed
<1>4. /\ clock'[n] \in Nat /\ clock'[n] > c /\ clock'[n] > l /\ clock'[n] >= clock[n]
      /\ e \in P => e.lamport < clock'[n]
  BY <1>1, <1>2, <1>3
<1>5. StoreFine(store[n], clock'[n], P)
  BY <1>4, StoreLater
<1>6. CASE e.id \in DOMAIN store[n]
  <2>1. store' = store
    BY <1>6 DEF SaveAt
  <2>. QED BY <1>3, <1>4, <1>5, <1>6, <2>1 DEF Typed
<1>7. CASE e.id \notin DOMAIN store[n]
  <2>. DEFINE new == [lamport |-> clock'[n], event |-> e]
              s == Put(store[n], e.id, new)
  <2>1. store' = [store EXCEPT ![n] = s]
    BY <1>7 DEF SaveAt
  <2>2. new \in Message /\ new.event = e /\ new.lamport = clock'[n]
    BY <1>4 DEF Message
  <2>. HIDE DEF new
  <2>3. /\ DOMAIN s = DOMAIN store[n] \cup {e.id}
        /\ s[e.id] = new
        /\ \A i \in DOMAIN store[n] : s[i] = store[n][i]
        /\ s = [i \in DOMAIN s |-> s[i]]
    BY <1>7 DEF Put
  <2>. HIDE DEF s
  <2>4. s \in Stores
    <3>1. \A i \in DOMAIN s : s[i] \in Message
      BY <2>2, <2>3, Entries
    <3>2. s \in [DOMAIN s -> Message]
      BY <2>3, <3>1
    <3>. QED BY <1>1, <2>3, <3>2, Entries, Shapes
  <2>5. store' \in [Nodes -> Stores] /\ store'[n] = s
        /\ \A m \in Nodes \ {n} : store'[m] = store[m]
    BY <2>1, <2>4 DEF Typed
  <2>6. StoreFine(s, clock'[n], P)
    <3>1. IsFiniteSet(DOMAIN s)
      BY <1>5, <2>3, FS_AddElement DEF StoreFine
    <3>2. ASSUME NEW i \in DOMAIN s
          PROVE  /\ s[i].event.id = i /\ s[i].lamport <= clock'[n] /\ Genuine(s[i].event, P)
                 /\ s[i].event \in P => s[i].event.lamport < s[i].lamport
      <4>1. CASE i = e.id
        BY <1>4, <2>2, <2>3, <4>1
      <4>2. CASE i # e.id
        BY <1>5, <2>3, <4>2 DEF StoreFine
      <4>. QED BY <4>1, <4>2
    <3>. QED BY <3>1, <3>2 DEF StoreFine
  <2>. QED BY <1>3, <1>4, <1>7, <2>2, <2>3, <2>5, <2>6
<1>. QED BY <1>6, <1>7

\* What a step does to other nodes than n, when it only touches node n.
Others(n) ==
    \A m \in Nodes \ {n} : /\ store'[m] = store[m] /\ clock'[m] = clock[m]
                           /\ docs'[m] = docs[m] /\ indexed'[m] = indexed[m]

\* The nodes' part of the invariant is a matter of the node that moves.
LEMMA OneNode ==
    ASSUME IInv, NEW n \in Nodes, Others(n), Extends(published, published'), NodeFine(n)'
    PROVE  (\A m \in Nodes : NodeFine(m)') /\ (\A e \in published' : e.vclock # Zero)
<1>1. ASSUME NEW m \in Nodes PROVE NodeFine(m)'
  <2>1. CASE m = n
    BY <2>1
  <2>2. CASE m # n
    <3>1. /\ store'[m] = store[m] /\ clock'[m] = clock[m]
          /\ docs'[m] = docs[m] /\ indexed'[m] = indexed[m]
      BY <2>2 DEF Others
    <3>2. NodeFine(m) /\ Typed
      BY DEF IInv
    <3>3. clock[m] \in Nat /\ clock[m] >= clock[m]
      BY <3>2 DEF Typed
    <3>4. StoreFine(store[m], clock[m], published') /\ IndexFine(docs[m], clock[m], published')
      BY <3>2, <3>3, StoreLater, IndexLater DEF NodeFine
    <3>. QED BY <3>1, <3>2, <3>4 DEF NodeFine
  <2>. QED BY <2>1, <2>2
<1>. QED BY <1>1 DEF IInv, Extends

\* An index update keeps the index in order, and lets it serve an event saved with it.
LEMMA IndexUpdated ==
    ASSUME Typed, NEW n \in Nodes, NEW e \in Event, NEW c \in Nat, NEW P, Genuine(e, P),
           e \in P => e.lamport <= c, IndexFine(docs[n], c, P)
    PROVE  IndexFine(Updated(docs[n], e), c, P)
<1>. DEFINE x == docs[n]
            y == Updated(x, e)
<1>1. \A d \in DOMAIN y : (d = e.doc /\ y[d] = e) \/ (d \in DOMAIN x /\ y[d] = x[d])
  BY Entries, UpdatedFacts
<1>. HIDE DEF y
<1>2. IndexFine(y, c, P)
  BY <1>1 DEF IndexFine
<1>. QED BY <1>2 DEF y

LEMMA ServesUpdated ==
    ASSUME Typed, NEW n \in Nodes, NEW e \in Event, Serves(store[n], docs[n]),
           NEW s, \A i \in DOMAIN s : \/ i \in DOMAIN store[n] /\ s[i] = store[n][i]
                                      \/ s[i].event = e
    PROVE  Serves(s, Updated(docs[n], e))
<1>. DEFINE x == docs[n]
            y == Updated(x, e)
<1>1. /\ y \in Indexes
      /\ \A d : d \in DOMAIN y <=> d \in DOMAIN x \/ (d = e.doc /\ d # None)
      /\ e.doc # None => ~Exceeds(e, y[e.doc])
      /\ \A d \in DOMAIN x : ~Exceeds(x[d], y[d]) /\ y[d].lamport >= x[d].lamport
  BY Entries, UpdatedFacts
<1>. HIDE DEF y
<1>2. ASSUME NEW i \in DOMAIN s, s[i].event.doc # None
      PROVE  s[i].event.doc \in DOMAIN y /\ ~Exceeds(s[i].event, y[s[i].event.doc])
  <2>1. CASE s[i].event = e
    BY <1>1, <1>2, <2>1
  <2>2. CASE i \in DOMAIN store[n] /\ s[i] = store[n][i]
    <3>. DEFINE f == store[n][i].event
                d == f.doc
    <3>1. f \in Event /\ d \in DOMAIN x /\ ~Exceeds(f, x[d])
      BY <1>2, <2>2, Entries DEF Serves
    <3>2. x[d] \in Event /\ d \in DOMAIN y /\ ~Exceeds(x[d], y[d])
      BY <1>1, <3>1, Entries
    <3>3. y[d] \in Event
      BY <1>1, <3>2, Shapes
    <3>4. ~Exceeds(f, y[d])
      BY <3>1, <3>2, <3>3, ExceedsIsOrder
    <3>. QED BY <2>2, <3>2, <3>4
  <2>. QED BY <2>1, <2>2
<1>3. Serves(s, y)
  BY <1>2 DEF Serves
<1>. QED BY <1>3 DEF y

-----------------------------------------------------------------------------
(* The node's part of every step.                                           *)

\* The invariant but for the vector clocks, after a step that lets no clock go back.
NodesAfter ==
    /\ Typed' /\ (\A m \in Nodes : NodeFine(m)') /\ (\A e \in published' : e.vclock # Zero)
    /\ \A m \in Nodes : clock'[m] >= clock[m]

\* An event saved and handed to the index: publish() and the end of ingest().
LEMMA HandedOver ==
    ASSUME IInv, NEW n \in Nodes, NEW e \in Event, NEW c \in Nat, NEW l \in Nat,
           c >= clock[n], SaveAt(n, e, c, l), Extends(published, published'),
           published' \subseteq Event, Genuine(e, published'),
           e \in published' => e.lamport <= c \/ e.lamport <= l,
           docs' = [docs EXCEPT ![n] = Updated(@, e)], indexed' = indexed,
           vclock' \in [Nodes -> VClocks], seen' \in [Nodes -> SUBSET Names],
           restarted' = restarted
    PROVE  NodesAfter
<1>. DEFINE y == Updated(docs[n], e)
<1>1. Typed /\ NodeFine(n) /\ clock[n] \in Nat /\ e.lamport \in Nat
  BY Entries, Events DEF IInv
<1>2. /\ clock' \in [Nodes -> Nat] /\ store' \in [Nodes -> Stores]
      /\ clock'[n] > c /\ clock'[n] > l
      /\ DOMAIN store'[n] = DOMAIN store[n] \cup {e.id}
      /\ \A i \in DOMAIN store[n] : store'[n][i] = store[n][i]
      /\ e.id \notin DOMAIN store[n] => store'[n][e.id].event = e
      /\ \A m \in Nodes \ {n} : store'[m] = store[m] /\ clock'[m] = clock[m]
      /\ StoreFine(store'[n], clock'[n], published')
  BY <1>1, SaveFacts DEF NodeFine
<1>3. /\ clock'[n] \in Nat /\ clock'[n] >= clock[n]
      /\ e \in published' => e.lamport <= clock'[n]
  BY <1>1, <1>2
<1>4. y \in Indexes
  BY <1>1, Entries, UpdatedFacts
<1>5. IndexFine(y, clock'[n], published')
  <2>1. IndexFine(docs[n], clock'[n], published')
    BY <1>1, <1>3, IndexLater DEF NodeFine
  <2>. QED BY <1>1, <1>3, <2>1, IndexUpdated
<1>6. indexed[n] => Serves(store'[n], y)
  BY <1>1, <1>2, ServesUpdated DEF NodeFine
<1>. HIDE DEF y
<1>7. docs'[n] = y /\ docs' \in [Nodes -> Indexes] /\ \A m \in Nodes \ {n} : docs'[m] = docs[m]
  BY <1>1, <1>4 DEF Typed, y
<1>8. Typed'
  BY <1>1, <1>2, <1>7 DEF Typed
<1>9. Others(n)
  BY <1>2, <1>7 DEF Others
<1>10. NodeFine(n)'
  BY <1>2, <1>5, <1>6, <1>7 DEF NodeFine
<1>11. \A m \in Nodes : clock'[m] >= clock[m]
  BY <1>1, <1>2, <1>3 DEF Typed
<1>. QED BY <1>8, <1>9, <1>10, <1>11, OneNode DEF NodesAfter

\* An event saved of which the index does not hear: a message that comes in, and a
\* publish() whose save throws.
LEMMA Bypassed ==
    ASSUME IInv, NEW n \in Nodes, NEW e \in Event, NEW c \in Nat, NEW l \in Nat,
           c >= clock[n], SaveAt(n, e, c, l), Extends(published, published'),
           published' \subseteq Event, Genuine(e, published'),
           e \in published' => e.lamport <= c \/ e.lamport <= l,
           docs' = docs, indexed' = [indexed EXCEPT ![n] = @ /\ e.doc = None],
           vclock' \in [Nodes -> VClocks], seen' \in [Nodes -> SUBSET Names],
           restarted' = restarted
    PROVE  NodesAfter
<1>1. Typed /\ NodeFine(n) /\ clock[n] \in Nat /\ e.lamport \in Nat
  BY Entries, Events DEF IInv
<1>2. /\ clock' \in [Nodes -> Nat] /\ store' \in [Nodes -> Stores]
      /\ clock'[n] > c /\ clock'[n] > l
      /\ DOMAIN store'[n] = DOMAIN store[n] \cup {e.id}
      /\ \A i \in DOMAIN store[n] : store'[n][i] = store[n][i]
      /\ e.id \notin DOMAIN store[n] => store'[n][e.id].event = e
      /\ \A m \in Nodes \ {n} : store'[m] = store[m] /\ clock'[m] = clock[m]
      /\ StoreFine(store'[n], clock'[n], published')
  BY <1>1, SaveFacts DEF NodeFine
<1>3. clock'[n] \in Nat /\ clock'[n] >= clock[n]
  BY <1>1, <1>2
<1>4. IndexFine(docs[n], clock'[n], published')
  BY <1>1, <1>3, IndexLater DEF NodeFine
<1>5. /\ indexed' \in [Nodes -> BOOLEAN]
      /\ indexed'[n] => indexed[n] /\ e.doc = None
      /\ \A m \in Nodes \ {n} : indexed'[m] = indexed[m]
  BY <1>1 DEF Typed
<1>6. ASSUME indexed'[n] PROVE Serves(store'[n], docs[n])
  <2>1. e.doc = None /\ Serves(store[n], docs[n])
    BY <1>1, <1>5, <1>6 DEF NodeFine
  <2>. QED BY <1>2, <2>1 DEF Serves
<1>7. Typed'
  BY <1>1, <1>2, <1>5 DEF Typed
<1>8. Others(n)
  BY <1>2, <1>5 DEF Others
<1>9. NodeFine(n)'
  BY <1>2, <1>4, <1>6 DEF NodeFine
<1>10. \A m \in Nodes : clock'[m] >= clock[m]
  BY <1>1, <1>2, <1>3 DEF Typed
<1>. QED BY <1>7, <1>8, <1>9, <1>10, OneNode DEF NodesAfter

\* What publish() makes of the node's clocks.
Ticked(n)     == [vclock[n] EXCEPT ![n] = @ + 1]
Followed(n)   == seen[n] \cup {<<n, clock[n] + 1>>}
Fresh(n, i)   == [id |-> i, doc |-> IF i \in Docs THEN i ELSE None, lamport |-> clock[n] + 1,
                  sender |-> n, vclock |-> Ticked(n), past |-> Followed(n)]

LEMMA PublishFacts ==
    ASSUME NEW n \in Nodes, NEW i \in Ids, Publish(n, i)
    PROVE  /\ SaveAt(n, Fresh(n, i), clock[n] + 1, clock[n] + 1)
           /\ vclock' = [vclock EXCEPT ![n] = Ticked(n)]
           /\ seen' = [seen EXCEPT ![n] = Followed(n)]
           /\ published' = published \cup {Fresh(n, i)} /\ restarted' = restarted
           /\ \/ docs' = [docs EXCEPT ![n] = Updated(@, Fresh(n, i))] /\ indexed' = indexed
              \/ /\ indexed' = [indexed EXCEPT ![n] = @ /\ Fresh(n, i).doc = None]
                 /\ docs' = docs
BY DEF Publish, Fresh, Ticked, Followed

LEMMA FreshFacts ==
    ASSUME Typed, NEW n \in Nodes, NEW i \in Ids
    PROVE  LET e == Fresh(n, i) IN
           /\ e \in Event /\ e.lamport = clock[n] + 1 /\ e.sender = n
           /\ e.vclock = Ticked(n) /\ e.past = Followed(n)
           /\ clock[n] + 1 \in Nat /\ clock[n] + 1 >= clock[n]
           /\ Ticked(n) \in VClocks /\ Ticked(n)[n] = vclock[n][n] + 1
           /\ \A m \in Nodes : m # n => Ticked(n)[m] = vclock[n][m]
           /\ Followed(n) \in SUBSET Names /\ Extends(published, published \cup {e})
<1>. DEFINE e == Fresh(n, i)
<1>1. /\ clock[n] + 1 \in Nat /\ clock[n] + 1 >= clock[n] /\ vclock[n] \in [Nodes -> Nat]
      /\ seen[n] \in SUBSET Names
  BY Entries
<1>2. /\ Ticked(n) \in VClocks /\ Ticked(n)[n] = vclock[n][n] + 1
      /\ \A m \in Nodes : m # n => Ticked(n)[m] = vclock[n][m]
  BY <1>1 DEF VClocks, Ticked
<1>3. Followed(n) \in SUBSET Names
  BY <1>1 DEF Names, Followed
<1>4. /\ e.lamport = clock[n] + 1 /\ e.sender = n
      /\ e.vclock = Ticked(n) /\ e.past = Followed(n)
  BY DEF Fresh
<1>5. e \in Event
  BY <1>1, <1>2, <1>3 DEF Event, Fresh
<1>6. Ticked(n) # Zero
  <2>1. Ticked(n)[n] # 0 /\ Zero[n] = 0
    BY <1>1, <1>2 DEF Zero
  <2>. QED BY <2>1
<1>. HIDE DEF e
<1>7. Extends(published, published \cup {e})
  BY <1>4, <1>6 DEF Extends
<1>. QED BY <1>1, <1>2, <1>3, <1>4, <1>5, <1>7 DEF e

LEMMA PublishNodes ==
    ASSUME IInv, NEW n \in Nodes, NEW i \in Ids, Publish(n, i) PROVE NodesAfter
<1>. DEFINE e == Fresh(n, i)
            l == clock[n] + 1
<1>1. /\ SaveAt(n, e, l, l)
      /\ vclock' = [vclock EXCEPT ![n] = Ticked(n)] /\ seen' = [seen EXCEPT ![n] = Followed(n)]
      /\ published' = published \cup {e} /\ restarted' = restarted
      /\ \/ docs' = [docs EXCEPT ![n] = Updated(@, e)] /\ indexed' = indexed
         \/ indexed' = [indexed EXCEPT ![n] = @ /\ e.doc = None] /\ docs' = docs
  BY PublishFacts
<1>2. /\ e \in Event /\ e.lamport = l /\ l \in Nat /\ l >= clock[n] /\ Ticked(n) \in VClocks
      /\ Followed(n) \in SUBSET Names /\ Extends(published, published \cup {e})
  BY FreshFacts DEF IInv
<1>. HIDE DEF e, l
<1>3. vclock' \in [Nodes -> VClocks] /\ seen' \in [Nodes -> SUBSET Names]
  BY <1>1, <1>2 DEF IInv, Typed
<1>4. published' \subseteq Event /\ Extends(published, published')
  BY <1>1, <1>2 DEF IInv, Typed
<1>5. Genuine(e, published')
  BY <1>1 DEF Genuine
<1>6. e \in published' => e.lamport <= l \/ e.lamport <= l
  BY <1>2
<1>7. CASE docs' = [docs EXCEPT ![n] = Updated(@, e)] /\ indexed' = indexed
  BY <1>1, <1>2, <1>3, <1>4, <1>5, <1>6, <1>7, HandedOver
<1>8. CASE indexed' = [indexed EXCEPT ![n] = @ /\ e.doc = None] /\ docs' = docs
  BY <1>1, <1>2, <1>3, <1>4, <1>5, <1>6, <1>8, Bypassed
<1>. QED BY <1>1, <1>7, <1>8

\* Nobody publishes in the other steps.
LEMMA SamePublished == ASSUME published' = published PROVE Extends(published, published')
BY DEF Extends

LEMMA IngestNodes ==
    ASSUME IInv, NEW n \in Nodes, NEW e \in published, Ingest(n, e) PROVE NodesAfter
<1>. DEFINE c == Larger(clock[n], e.lamport) + 1
<1>1. /\ e \in Event /\ clock[n] \in Nat /\ e.lamport \in Nat /\ Typed
      /\ e.vclock \in [Nodes -> Nat] /\ e.past \in SUBSET Names
  BY Events, Entries DEF IInv, Typed
<1>2. c \in Nat /\ c >= clock[n] /\ c > e.lamport
  BY <1>1 DEF Larger
<1>3. /\ vclock' = [vclock EXCEPT ![n] = update(@, e.vclock)]
      /\ seen' = [seen EXCEPT ![n] = @ \cup e.past]
      /\ indexed' = indexed /\ published' = published /\ restarted' = restarted
  BY DEF Ingest
<1>4. \/ clock' = [clock EXCEPT ![n] = c] /\ store' = store /\ docs' = docs
      \/ SaveAt(n, e, c, e.lamport) /\ docs' = [docs EXCEPT ![n] = Updated(@, e)]
  BY DEF Ingest
<1>. HIDE DEF c
<1>5. vclock' \in [Nodes -> VClocks] /\ seen' \in [Nodes -> SUBSET Names]
  <2>1. update(vclock[n], e.vclock) \in VClocks
    BY <1>1, Entries DEF update, Larger, VClocks
  <2>. QED BY <1>1, <1>3, <2>1 DEF Typed
<1>6. CASE clock' = [clock EXCEPT ![n] = c] /\ store' = store /\ docs' = docs
  <2>1. /\ clock' \in [Nodes -> Nat] /\ clock'[n] = c
        /\ \A m \in Nodes \ {n} : clock'[m] = clock[m]
    BY <1>1, <1>2, <1>6 DEF Typed
  <2>2. Typed' /\ Others(n)
    BY <1>1, <1>3, <1>5, <1>6, <2>1 DEF Typed, Others
  <2>3. NodeFine(n)'
    <3>1. StoreFine(store[n], c, published) /\ IndexFine(docs[n], c, published)
      <4>1. StoreFine(store[n], clock[n], published) /\ IndexFine(docs[n], clock[n], published)
        BY DEF IInv, NodeFine
      <4>2. Extends(published, published)
        BY DEF Extends
      <4>. QED BY <1>1, <1>2, <4>1, <4>2, StoreLater, IndexLater
    <3>2. indexed[n] => Serves(store[n], docs[n])
      BY DEF IInv, NodeFine
    <3>. QED BY <1>3, <1>6, <2>1, <3>1, <3>2 DEF NodeFine
  <2>4. \A m \in Nodes : clock'[m] >= clock[m]
    BY <1>1, <1>2, <2>1 DEF Typed
  <2>. QED BY <1>3, <2>2, <2>3, <2>4, OneNode, SamePublished DEF NodesAfter
<1>7. CASE SaveAt(n, e, c, e.lamport) /\ docs' = [docs EXCEPT ![n] = Updated(@, e)]
  <2>1. /\ Genuine(e, published') /\ published' \subseteq Event
        /\ e \in published' => e.lamport <= c \/ e.lamport <= e.lamport
    BY <1>1, <1>2, <1>3 DEF Genuine, IInv, Typed
  <2>. QED BY <1>1, <1>2, <1>3, <1>5, <1>7, <2>1, HandedOver, SamePublished
<1>. QED BY <1>4, <1>6, <1>7

LEMMA ReceiveNodes ==
    ASSUME IInv, NEW m \in Nodes, NEW n \in Nodes, NEW i \in Ids, Receive(m, n, i)
    PROVE  NodesAfter
<1>. DEFINE copy == store[m][i]
<1>1. i \in DOMAIN store[m] /\ Typed /\ clock[n] \in Nat
  BY Entries DEF Receive, IInv
<1>2. copy \in Message /\ copy.lamport \in Nat /\ copy.event \in Event
  BY <1>1, Entries
<1>3. /\ SaveAt(n, copy.event, clock[n], copy.lamport)
      /\ indexed' = [indexed EXCEPT ![n] = @ /\ copy.event.doc = None]
      /\ docs' = docs /\ vclock' = vclock /\ published' = published /\ seen' = seen
      /\ restarted' = restarted
  BY DEF Receive
<1>4. /\ Genuine(copy.event, published)
      /\ copy.event \in published => copy.event.lamport < copy.lamport
  BY <1>1 DEF IInv, NodeFine, StoreFine
<1>. HIDE DEF copy
<1>5. copy.event.lamport \in Nat
  BY <1>2, Events
<1>6. /\ vclock' \in [Nodes -> VClocks] /\ seen' \in [Nodes -> SUBSET Names]
      /\ published' \subseteq Event
  BY <1>1, <1>3 DEF Typed
<1>7. /\ Genuine(copy.event, published')
      /\ copy.event \in published' =>
            copy.event.lamport <= clock[n] \/ copy.event.lamport <= copy.lamport
  BY <1>2, <1>3, <1>4, <1>5
<1>8. clock[n] >= clock[n]
  BY <1>1
<1>. QED BY <1>1, <1>2, <1>3, <1>6, <1>7, <1>8, Bypassed, SamePublished

LEMMA PostNodes ==
    ASSUME IInv, NEW n \in Nodes, NEW i \in Uuids, NEW d \in Docs \cup {None},
           NEW claim \in Nat, Post(n, i, d, claim)
    PROVE  NodesAfter
<1>. DEFINE e == [id |-> i, doc |-> d, lamport |-> claim, sender |-> n,
                  vclock |-> Zero, past |-> {}]
<1>1. /\ SaveAt(n, e, clock[n], 0)
      /\ indexed' = [indexed EXCEPT ![n] = @ /\ e.doc = None]
      /\ docs' = docs /\ vclock' = vclock /\ published' = published /\ seen' = seen
      /\ restarted' = restarted
  BY DEF Post
<1>2. Typed /\ clock[n] \in Nat /\ clock[n] >= clock[n] /\ 0 \in Nat
  BY Entries DEF IInv
<1>3. e \in Event
  BY DEF Event, Ids, VClocks, Zero
<1>4. Genuine(e, published') /\ e.vclock = Zero
  BY DEF Genuine
<1>. HIDE DEF e
<1>5. e \in published' => e.lamport <= clock[n] \/ e.lamport <= 0
  BY <1>1, <1>4 DEF IInv
<1>6. /\ vclock' \in [Nodes -> VClocks] /\ seen' \in [Nodes -> SUBSET Names]
      /\ published' \subseteq Event
  BY <1>1, <1>2 DEF Typed
<1>. QED BY <1>1, <1>2, <1>3, <1>4, <1>5, <1>6, Bypassed, SamePublished

\* What a node stores: finitely many events, one with each id.
LEMMA StoredFacts ==
    ASSUME IInv, NEW n \in Nodes
    PROVE  /\ IsFiniteSet(Stored(n)) /\ Stored(n) \in SUBSET Event
           /\ \A e, f \in Stored(n) : e.id = f.id => e = f
           /\ \A e \in Stored(n) : Genuine(e, published)
           /\ \A e \in Stored(n) : e \in published => e.lamport <= clock[n]
<1>. DEFINE s == store[n]
<1>1. Typed /\ StoreFine(s, clock[n], published) /\ clock[n] \in Nat
  BY Entries DEF IInv, NodeFine
<1>2. IsFiniteSet({s[i].event : i \in DOMAIN s})
  <2>. DEFINE f == [i \in DOMAIN s |-> s[i].event]
  <2>1. f = [i \in DOMAIN s |-> f[i]] /\ {f[i] : i \in DOMAIN s} = {s[i].event : i \in DOMAIN s}
    OBVIOUS
  <2>2. IsFiniteSet(DOMAIN s)
    BY <1>1 DEF StoreFine
  <2>. HIDE DEF f
  <2>. QED BY <2>1, <2>2, Values
<1>3. ASSUME NEW e \in Stored(n) PROVE \E i \in DOMAIN s : e = s[i].event
  BY DEF Stored
<1>4. Stored(n) \in SUBSET Event
  BY <1>1, <1>3, Entries
<1>5. ASSUME NEW e \in Stored(n), NEW f \in Stored(n), e.id = f.id PROVE e = f
  BY <1>1, <1>3, <1>5 DEF StoreFine
<1>6. ASSUME NEW e \in Stored(n)
      PROVE  Genuine(e, published) /\ (e \in published => e.lamport <= clock[n])
  <2>1. PICK i \in DOMAIN s : e = s[i].event
    BY <1>3
  <2>2. s[i].lamport \in Nat /\ e.lamport \in Nat
    BY <1>1, <1>4, <2>1, Entries, Events
  <2>. QED BY <1>1, <2>1, <2>2 DEF StoreFine
<1>. QED BY <1>2, <1>4, <1>5, <1>6 DEF Stored

\* What a node serves after it handed its store to the index: old or stored versions,
\* none older than before, and none older than a stored one.
LEMMA ReindexFacts ==
    ASSUME IInv, NEW n \in Nodes, Reindex(n)
    PROVE  /\ docs' \in [Nodes -> Indexes]
           /\ \A d \in DOMAIN docs'[n] :
                \/ d \in DOMAIN docs[n] /\ docs'[n][d] = docs[n][d]
                \/ docs'[n][d] \in Stored(n) /\ docs'[n][d].doc = d
           /\ \A d \in DOMAIN docs[n] : d \in DOMAIN docs'[n]
                                        /\ docs'[n][d].lamport >= docs[n][d].lamport
           /\ \A e \in Stored(n) : e.doc # None =>
                e.doc \in DOMAIN docs'[n] /\ ~Exceeds(e, docs'[n][e.doc])
           /\ \A m \in Nodes \ {n} : docs'[m] = docs[m]
<1>. DEFINE x == docs[n]
            more == {d \in Docs : Versions(n, d) # {}}
            y == [d \in DOMAIN x \cup more |-> Reindexed(n, d)]
<1>1. /\ Typed /\ x \in Indexes /\ DOMAIN x \subseteq Docs /\ None \notin Docs
      /\ \A d \in DOMAIN x : x[d] \in Event /\ x[d].lamport \in Nat
  BY Entries, Events, EventBusAssumption DEF IInv
<1>2. docs' = [docs EXCEPT ![n] = y]
  BY DEF Reindex
<1>3. ASSUME NEW d \in Docs, Versions(n, d) # {}
      PROVE  /\ Reindexed(n, d) \in Event
             /\ \/ Reindexed(n, d) \in Stored(n) /\ Reindexed(n, d).doc = d
                \/ d \in DOMAIN x /\ Reindexed(n, d) = x[d]
             /\ d \in DOMAIN x => Reindexed(n, d).lamport >= x[d].lamport
             /\ \A f \in Versions(n, d) : ~Exceeds(f, Reindexed(n, d))
  <2>. DEFINE V == Versions(n, d)
              e == Newest(V)
              u == Updated(x, e)
  <2>1. V \in SUBSET Event /\ IsFiniteSet(V) /\ V \subseteq Stored(n)
        /\ \A f \in V : f.doc = d
    BY StoredFacts, FS_Subset DEF Versions
  <2>. HIDE DEF V
  <2>2. e \in V /\ \A f \in V : ~Exceeds(f, e)
    BY <1>3, <2>1, NewestFacts DEF V
  <2>. HIDE DEF e
  <2>3. e \in Event /\ e.doc = d /\ e.doc # None
    BY <1>1, <2>1, <2>2
  <2>4. /\ u \in Indexes
        /\ \A k : k \in DOMAIN u <=> k \in DOMAIN x \/ (k = e.doc /\ k # None)
        /\ e.doc # None => ~Exceeds(e, u[e.doc])
        /\ \A k \in DOMAIN x : ~Exceeds(x[k], u[k]) /\ u[k].lamport >= x[k].lamport
        /\ \A k \in DOMAIN u : (k = e.doc /\ u[k] = e) \/ (k \in DOMAIN x /\ u[k] = x[k])
    BY <1>1, <2>3, UpdatedFacts
  <2>. HIDE DEF u
  <2>5. d \in DOMAIN u /\ u[d] \in Event /\ ~Exceeds(e, u[d])
    BY <2>3, <2>4, Shapes
  <2>6. Reindexed(n, d) = u[d]
    BY <1>3 DEF Reindexed, V, e, u
  <2>7. \A f \in V : ~Exceeds(f, u[d])
    BY <2>1, <2>2, <2>3, <2>5, ExceedsIsOrder
  <2>. QED BY <2>1, <2>2, <2>3, <2>4, <2>5, <2>6, <2>7 DEF V
<1>4. ASSUME NEW d \in DOMAIN x, Versions(n, d) = {}
      PROVE  Reindexed(n, d) = x[d]
  BY <1>4 DEF Reindexed
<1>5. /\ DOMAIN y = DOMAIN x \cup more
      /\ \A d \in DOMAIN y : y[d] = Reindexed(n, d)
      /\ y = [d \in DOMAIN y |-> y[d]]
      /\ \A d : d \in more <=> d \in Docs /\ Versions(n, d) # {}
  OBVIOUS
<1>. HIDE DEF y, more
<1>6. ASSUME NEW d \in DOMAIN y
      PROVE  /\ y[d] \in Event /\ d \in Docs
             /\ \/ d \in DOMAIN x /\ y[d] = x[d]
                \/ y[d] \in Stored(n) /\ y[d].doc = d
  BY <1>1, <1>3, <1>4, <1>5
<1>7. ASSUME NEW d \in DOMAIN x
      PROVE  d \in DOMAIN y /\ y[d].lamport >= x[d].lamport
  BY <1>1, <1>3, <1>4, <1>5
<1>8. ASSUME NEW e \in Stored(n), e.doc # None
      PROVE  e.doc \in DOMAIN y /\ ~Exceeds(e, y[e.doc])
  <2>1. e \in Versions(n, e.doc)
    BY DEF Versions
  <2>2. e.doc \in Docs
    BY <1>8, StoredFacts, Events
  <2>. QED BY <1>3, <1>5, <2>1, <2>2
<1>9. y \in Indexes
  <2>1. y \in [DOMAIN y -> Event] /\ DOMAIN y \subseteq Docs
    BY <1>5, <1>6
  <2>. QED BY <2>1, Shapes
<1>10. docs' \in [Nodes -> Indexes] /\ docs'[n] = y /\ \A m \in Nodes \ {n} : docs'[m] = docs[m]
  BY <1>1, <1>2, <1>9 DEF Typed
<1>. QED BY <1>6, <1>7, <1>8, <1>10

\* What the vector clock and the known events become.
LEMMA LearnedFacts ==
    ASSUME IInv, NEW n \in Nodes, LearnStored(n)
    PROVE  \E vc \in [Nodes -> Nat], known \in SUBSET Names :
             /\ vclock' = [vclock EXCEPT ![n] = vc] /\ seen' = [seen EXCEPT ![n] = known]
             /\ \A m \in Nodes :
                  /\ vc[m] >= vclock[n][m]
                  /\ \A e \in Stored(n) : vc[m] >= e.vclock[m]
                  /\ vc[m] = vclock[n][m] \/ \E e \in Stored(n) : vc[m] = e.vclock[m]
             /\ \A p : p \in known <=> p \in seen[n] \/ \E e \in Stored(n) : p \in e.past
<1>. DEFINE K(m) == {vclock[n][m]} \cup {e.vclock[m] : e \in Stored(n)}
            vc == [m \in Nodes |-> Highest(K(m))]
            known == seen[n] \cup UNION {e.past : e \in Stored(n)}
<1>1. vclock' = [vclock EXCEPT ![n] = vc] /\ seen' = [seen EXCEPT ![n] = known]
  BY DEF LearnStored
<1>2. /\ vclock[n] \in [Nodes -> Nat] /\ seen[n] \in SUBSET Names
      /\ IsFiniteSet(Stored(n))
      /\ \A e \in Stored(n) : e.vclock \in [Nodes -> Nat] /\ e.past \in SUBSET Names
  BY Entries, StoredFacts, Events DEF IInv
<1>3. ASSUME NEW m \in Nodes
      PROVE  /\ vc[m] \in Nat /\ vc[m] >= vclock[n][m]
             /\ \A e \in Stored(n) : vc[m] >= e.vclock[m]
             /\ vc[m] = vclock[n][m] \/ \E e \in Stored(n) : vc[m] = e.vclock[m]
  <2>1. IsFiniteSet({e.vclock[m] : e \in Stored(n)})
    <3>. DEFINE S == Stored(n)
                f == [e \in S |-> e.vclock[m]]
    <3>1. f = [e \in S |-> f[e]] /\ {f[e] : e \in S} = {e.vclock[m] : e \in S}
      OBVIOUS
    <3>2. IsFiniteSet(S)
      BY <1>2
    <3>. HIDE DEF S, f
    <3>3. IsFiniteSet({e.vclock[m] : e \in S})
      BY <3>1, <3>2, Values
    <3>. QED BY <3>3 DEF S
  <2>2. IsFiniteSet(K(m))
    BY <2>1, FS_Singleton, FS_Union
  <2>3. K(m) \in SUBSET Nat /\ K(m) # {}
    BY <1>2
  <2>4. \A k : k \in K(m) <=> k = vclock[n][m] \/ \E e \in Stored(n) : k = e.vclock[m]
    OBVIOUS
  <2>5. vc[m] = Highest(K(m))
    OBVIOUS
  <2>. HIDE DEF vc, K
  <2>6. Highest(K(m)) \in K(m) /\ \A l \in K(m) : l <= Highest(K(m))
    BY <2>2, <2>3, HighestFacts
  <2>. QED BY <2>3, <2>4, <2>5, <2>6
<1>4. vc \in [Nodes -> Nat]
  <2>1. vc = [m \in Nodes |-> vc[m]]
    OBVIOUS
  <2>. HIDE DEF vc
  <2>. QED BY <2>1, <1>3
<1>5. /\ known \in SUBSET Names
      /\ \A p : p \in known <=> p \in seen[n] \/ \E e \in Stored(n) : p \in e.past
  BY <1>2
<1>. HIDE DEF vc, known
<1>. QED BY <1>1, <1>3, <1>4, <1>5

LEMMA ReindexNodes ==
    ASSUME IInv, NEW n \in Nodes, Reindex(n) PROVE NodesAfter
<1>1. /\ store' = store /\ clock' = clock /\ published' = published /\ restarted' = restarted
      /\ indexed' = [indexed EXCEPT ![n] = TRUE] /\ LearnStored(n) /\ Typed
  BY DEF Reindex, LearnStored, IInv
<1>2. /\ docs' \in [Nodes -> Indexes]
      /\ \A d \in DOMAIN docs'[n] :
           \/ d \in DOMAIN docs[n] /\ docs'[n][d] = docs[n][d]
           \/ docs'[n][d] \in Stored(n) /\ docs'[n][d].doc = d
      /\ \A e \in Stored(n) : e.doc # None =>
           e.doc \in DOMAIN docs'[n] /\ ~Exceeds(e, docs'[n][e.doc])
      /\ \A m \in Nodes \ {n} : docs'[m] = docs[m]
  BY ReindexFacts
<1>3. vclock' \in [Nodes -> VClocks] /\ seen' \in [Nodes -> SUBSET Names]
  BY <1>1, LearnedFacts DEF Typed, VClocks
<1>4. Typed' /\ Others(n)
  BY <1>1, <1>2, <1>3 DEF Typed, Others
<1>5. StoreFine(store[n], clock[n], published) /\ IndexFine(docs[n], clock[n], published)
  BY DEF IInv, NodeFine
<1>6. IndexFine(docs'[n], clock[n], published)
  BY <1>2, <1>5, StoredFacts DEF IndexFine
<1>7. Serves(store[n], docs'[n])
  BY <1>2 DEF Serves, Stored
<1>8. NodeFine(n)'
  BY <1>1, <1>5, <1>6, <1>7 DEF NodeFine
<1>9. \A m \in Nodes : clock'[m] >= clock[m]
  BY <1>1 DEF Typed
<1>. QED BY <1>1, <1>4, <1>8, <1>9, OneNode, SamePublished DEF NodesAfter

\* After a restart the clock is past the Lamport values of the store, and the
\* index holds nothing.
LEMMA RestartKeeps ==
    ASSUME IInv, NEW n \in Nodes, Restart(n) PROVE IInv'
<1>. DEFINE s   == store[n]
            L   == {s[i].lamport : i \in DOMAIN s}
            c   == IF s = Nothing THEN 0 ELSE 1 + Highest(L)
<1>1. /\ store' = store /\ published' = published /\ restarted' = restarted \cup {n}
      /\ docs' = [docs EXCEPT ![n] = Nothing]
      /\ vclock' = [vclock EXCEPT ![n] = Zero] /\ seen' = [seen EXCEPT ![n] = {}]
      /\ indexed' = [indexed EXCEPT ![n] = s = Nothing]
      /\ clock' = [clock EXCEPT ![n] = c]
  BY DEF Restart, RestartAt
<1>2. Typed /\ StoreFine(s, clock[n], published) /\ s \in [DOMAIN s -> Message]
  BY Entries, Shapes DEF IInv, NodeFine
<1>3. /\ DOMAIN Nothing = {} /\ Nothing \in Indexes
      /\ s # Nothing => DOMAIN s # {}
  <2>1. /\ DOMAIN Nothing = {} /\ Nothing \in [{} -> Event]
        /\ s # Nothing => DOMAIN s # {}
    BY <1>2 DEF Nothing
  <2>. QED BY <2>1, Shapes
<1>4. c \in Nat /\ \A i \in DOMAIN s : s[i].lamport <= c
  <2>1. CASE s = Nothing
    BY <1>3, <2>1
  <2>2. CASE s # Nothing
    <3>1. L \in SUBSET Nat /\ L # {}
      <4>1. PICK i \in DOMAIN s : TRUE
        BY <1>3, <2>2
      <4>2. s[i].lamport \in L
        BY <4>1
      <4>3. \A j \in DOMAIN s : s[j].lamport \in Nat
        BY <1>2, Entries
      <4>. QED BY <4>2, <4>3
    <3>2. IsFiniteSet(L)
      <4>. DEFINE f == [i \in DOMAIN s |-> s[i].lamport]
      <4>1. f = [i \in DOMAIN s |-> f[i]] /\ {f[i] : i \in DOMAIN s} = L
        OBVIOUS
      <4>2. IsFiniteSet(DOMAIN s)
        BY <1>2 DEF StoreFine
      <4>. HIDE DEF f, L
      <4>. QED BY <4>1, <4>2, Values
    <3>3. \A i \in DOMAIN s : s[i].lamport \in L
      OBVIOUS
    <3>4. c = 1 + Highest(L)
      BY <2>2
    <3>. HIDE DEF L, c
    <3>5. Highest(L) \in L /\ \A l \in L : l <= Highest(L)
      BY <3>1, <3>2, HighestFacts
    <3>6. Highest(L) \in Nat
      BY <3>1, <3>5
    <3>7. ASSUME NEW i \in DOMAIN s PROVE s[i].lamport <= c
      <4>1. s[i].lamport \in Nat /\ s[i].lamport <= Highest(L)
        BY <3>1, <3>3, <3>5
      <4>. QED BY <3>4, <3>6, <4>1
    <3>. QED BY <3>4, <3>6, <3>7
  <2>. QED BY <2>1, <2>2
<1>. HIDE DEF c
<1>5. Zero \in VClocks
  BY DEF Zero, VClocks
<1>6. /\ clock' \in [Nodes -> Nat] /\ clock'[n] = c
      /\ docs' \in [Nodes -> Indexes] /\ docs'[n] = Nothing
      /\ vclock' \in [Nodes -> VClocks] /\ seen' \in [Nodes -> SUBSET Names]
      /\ indexed' \in [Nodes -> BOOLEAN] /\ (indexed'[n] => s = Nothing)
      /\ \A m \in Nodes \ {n} :
           clock'[m] = clock[m] /\ docs'[m] = docs[m] /\ indexed'[m] = indexed[m]
  BY <1>1, <1>2, <1>3, <1>4, <1>5 DEF Typed
<1>7. Typed' /\ Others(n)
  BY <1>1, <1>2, <1>6 DEF Typed, Others
<1>8. StoreFine(s, c, published) /\ IndexFine(Nothing, c, published)
  BY <1>2, <1>3, <1>4 DEF StoreFine, IndexFine
<1>9. s = Nothing => Serves(s, Nothing)
  BY <1>3 DEF Serves
<1>10. NodeFine(n)'
  BY <1>1, <1>6, <1>8, <1>9 DEF NodeFine
<1>11. restarted' # {}
  BY <1>1
<1>. QED BY <1>1, <1>7, <1>10, <1>11, OneNode, SamePublished DEF IInv

-----------------------------------------------------------------------------
(* The vector clocks' part of every step.                                   *)

LEMMA PublishedFacts ==
    ASSUME Typed, NEW e \in published
    PROVE  /\ e.sender \in Nodes /\ e.lamport \in Nat /\ e.past \in SUBSET Names
           /\ \A m \in Nodes : e.vclock[m] \in Nat
           /\ \A p \in e.past : p[1] \in Nodes /\ p[2] \in Nat
           /\ Name(e) = <<e.sender, e.lamport>>
<1>1. e \in Event
  BY DEF Typed
<1>2. e.past \in SUBSET Names /\ e.vclock \in [Nodes -> Nat] /\ e.sender \in Nodes
      /\ e.lamport \in Nat
  BY <1>1, Events
<1>. QED BY <1>2 DEF Names, Name

LEMMA SeenFacts ==
    ASSUME Typed, NEW q \in Nodes
    PROVE  /\ \A m \in Nodes : vclock[q][m] \in Nat
           /\ \A p \in seen[q] : p[1] \in Nodes /\ p[2] \in Nat
           /\ clock[q] \in Nat
<1>1. seen[q] \in SUBSET Names /\ vclock[q] \in [Nodes -> Nat] /\ clock[q] \in Nat
  BY Entries
<1>. QED BY <1>1 DEF Names

\* A step of Lamport clocks alone.
LEMMA KnowledgeLater ==
    ASSUME Typed, Knowledge, NodesAfter, vclock' = vclock, published' = published, seen' = seen
    PROVE  Knowledge'
<1>1. ASSUME NEW p, p[1] \in Nodes, p[2] \in Nat, p[2] <= clock[p[1]]
      PROVE  p[2] <= clock'[p[1]]
  <2>1. clock[p[1]] \in Nat /\ clock'[p[1]] \in Nat /\ clock'[p[1]] >= clock[p[1]]
    BY <1>1 DEF Typed, NodesAfter
  <2>. QED BY <1>1, <2>1
<1>2. \A e \in published : \A p \in e.past : p[2] <= clock'[p[1]]
  BY <1>1, PublishedFacts DEF Knowledge
<1>3. \A q \in Nodes : \A p \in seen[q] : p[2] <= clock'[p[1]]
  BY <1>1, SeenFacts DEF Knowledge
<1>. QED BY <1>2, <1>3 DEF Knowledge

\* A node that learns of published events, their clocks by the maximum, keeps its
\* clock the image of what it knows.
LEMMA LearningKeeps ==
    ASSUME Typed, Knowledge, NodesAfter, NEW n \in Nodes, NEW X \in SUBSET published,
           NEW vc \in [Nodes -> Nat],
           \A m \in Nodes : /\ vc[m] >= vclock[n][m]
                            /\ \A x \in X : vc[m] >= x.vclock[m]
                            /\ vc[m] = vclock[n][m] \/ \E x \in X : vc[m] = x.vclock[m],
           NEW known, \A p : p \in known <=> p \in seen[n] \/ \E x \in X : p \in x.past,
           vclock' = [vclock EXCEPT ![n] = vc], seen' = [seen EXCEPT ![n] = known],
           published' = published
    PROVE  Knowledge'
<1>. DEFINE E == published
<1>1. \A q \in Nodes : /\ seen'[q] = IF q = n THEN known ELSE seen[q]
                       /\ vclock'[q] = IF q = n THEN vc ELSE vclock[q]
  BY DEF Typed
<1>2. \A e \in E : /\ e.sender \in Nodes /\ \A m \in Nodes : e.vclock[m] \in Nat
                   /\ \A p \in e.past : p[1] \in Nodes /\ p[2] \in Nat
  BY PublishedFacts
<1>3. \A q \in Nodes : /\ \A m \in Nodes : vclock[q][m] \in Nat
                       /\ \A p \in seen[q] : p[1] \in Nodes /\ p[2] \in Nat
  BY SeenFacts
<1>4. X \subseteq E
  OBVIOUS
<1>5. /\ \A e, f \in E :
           /\ Name(e) \in f.past <=> e.vclock[e.sender] <= f.vclock[e.sender]
           /\ Name(e) \in f.past => \A m \in Nodes : e.vclock[m] <= f.vclock[m]
           /\ Name(e) \in f.past /\ Name(f) \in e.past => e = f
      /\ \A e \in E, q \in Nodes :
           /\ Name(e) \in seen[q] <=> e.vclock[e.sender] <= vclock[q][e.sender]
           /\ Name(e) \in seen[q] => \A m \in Nodes : e.vclock[m] <= vclock[q][m]
      /\ \A m \in Nodes : /\ \A e \in E : e.vclock[m] <= vclock[m][m]
                          /\ \A q \in Nodes : vclock[q][m] <= vclock[m][m]
      /\ \A e \in E : \A p \in e.past : p[2] <= clock[p[1]]
      /\ \A q \in Nodes : \A p \in seen[q] : p[2] <= clock[p[1]]
  BY DEF Knowledge
<1>6. \A m \in Nodes : clock[m] \in Nat /\ clock'[m] \in Nat /\ clock'[m] >= clock[m]
  BY DEF Typed, NodesAfter
<1>. HIDE DEF E
<1>7. ASSUME NEW e \in E
      PROVE  Name(e) \in known <=> e.vclock[e.sender] <= vc[e.sender]
  <2>1. e.sender \in Nodes /\ e.vclock[e.sender] \in Nat /\ vc[e.sender] \in Nat
    BY <1>2
  <2>2. Name(e) \in seen[n] <=> e.vclock[e.sender] <= vclock[n][e.sender]
    BY <1>5
  <2>3. \A x \in X : Name(e) \in x.past <=> e.vclock[e.sender] <= x.vclock[e.sender]
    BY <1>4, <1>5
  <2>4. Name(e) \in known <=> Name(e) \in seen[n] \/ \E x \in X : Name(e) \in x.past
    OBVIOUS
  <2>5. /\ vc[e.sender] >= vclock[n][e.sender]
        /\ \A x \in X : vc[e.sender] >= x.vclock[e.sender]
        /\ vc[e.sender] = vclock[n][e.sender] \/ \E x \in X : vc[e.sender] = x.vclock[e.sender]
        /\ vclock[n][e.sender] \in Nat
        /\ \A x \in X : x.vclock[e.sender] \in Nat
    BY <2>1, <1>2, <1>3, <1>4
  <2>. QED BY <2>1, <2>2, <2>3, <2>4, <2>5
<1>8. ASSUME NEW e \in E, NEW m \in Nodes, Name(e) \in known PROVE e.vclock[m] <= vc[m]
  <2>1. CASE Name(e) \in seen[n]
    <3>1. e.vclock[m] <= vclock[n][m] /\ vc[m] >= vclock[n][m]
      BY <2>1, <1>5
    <3>. QED BY <3>1, <1>2, <1>3
  <2>2. CASE \E x \in X : Name(e) \in x.past
    <3>1. PICK x \in X : Name(e) \in x.past
      BY <2>2
    <3>2. e.vclock[m] <= x.vclock[m] /\ vc[m] >= x.vclock[m]
      BY <3>1, <1>4, <1>5
    <3>. QED BY <3>2, <1>2, <1>4
  <2>. QED BY <1>8, <2>1, <2>2
<1>9. \A m \in Nodes : vc[m] <= vclock[m][m]
  BY <1>4, <1>5
<1>10. vc[n] = vclock[n][n]
  <2>1. vc[n] >= vclock[n][n] /\ vc[n] <= vclock[n][n] /\ vclock[n][n] \in Nat
    BY <1>3, <1>9
  <2>. QED BY <2>1
<1>11. ASSUME NEW p, p[1] \in Nodes, p[2] \in Nat, p[2] <= clock[p[1]]
       PROVE  p[2] <= clock'[p[1]]
  <2>1. clock[p[1]] \in Nat /\ clock'[p[1]] \in Nat /\ clock'[p[1]] >= clock[p[1]]
    BY <1>6, <1>11
  <2>. QED BY <1>11, <2>1
<1>12. \A e \in E : \A p \in e.past : p[2] <= clock'[p[1]]
  BY <1>2, <1>5, <1>11
<1>13. \A p \in known : p[2] <= clock'[p[1]]
  <2>1. \A p \in seen[n] : p[2] <= clock'[p[1]]
    BY <1>3, <1>5, <1>11
  <2>. QED BY <2>1, <1>4, <1>12
<1>14. \A q \in Nodes : \A p \in seen'[q] : p[2] <= clock'[p[1]]
  <2>1. \A q \in Nodes : \A p \in seen[q] : p[2] <= clock'[p[1]]
    BY <1>3, <1>5, <1>11
  <2>. QED BY <2>1, <1>1, <1>13
<1>15. \A e \in E, q \in Nodes :
         /\ Name(e) \in seen'[q] <=> e.vclock[e.sender] <= vclock'[q][e.sender]
         /\ Name(e) \in seen'[q] => \A m \in Nodes : e.vclock[m] <= vclock'[q][m]
  BY <1>1, <1>5, <1>7, <1>8
<1>16. \A m \in Nodes : /\ \A e \in E : e.vclock[m] <= vclock'[m][m]
                        /\ \A q \in Nodes : vclock'[q][m] <= vclock'[m][m]
  BY <1>1, <1>5, <1>9, <1>10
<1>. QED BY <1>5, <1>12, <1>14, <1>15, <1>16 DEF Knowledge, E, Name

\* Publishing adds an event that covers what its node knows and that nobody covers.
LEMMA PublishKnows ==
    ASSUME IInv, Knowledge, NEW n \in Nodes, NEW i \in Ids, Publish(n, i)
    PROVE  Knowledge'
<1>. DEFINE E == published
            e0 == Fresh(n, i)
            vc == Ticked(n)
            own == <<n, clock[n] + 1>>
<1>1. /\ vclock' = [vclock EXCEPT ![n] = vc] /\ seen' = [seen EXCEPT ![n] = Followed(n)]
      /\ published' = E \cup {e0} /\ Typed /\ NodesAfter
      /\ SaveAt(n, e0, clock[n] + 1, clock[n] + 1)
  BY PublishFacts, PublishNodes DEF IInv
<1>2. /\ e0.sender = n /\ e0.vclock = vc /\ e0.past = Followed(n) /\ e0.lamport = clock[n] + 1
      /\ vc \in [Nodes -> Nat] /\ vc[n] = vclock[n][n] + 1
      /\ \A m \in Nodes : m # n => vc[m] = vclock[n][m]
  BY <1>1, FreshFacts DEF VClocks
<1>3. Name(e0) = own /\ \A p : p \in Followed(n) <=> p \in seen[n] \/ p = own
  BY <1>2 DEF Name, Followed
<1>4. \A q \in Nodes : /\ seen'[q] = IF q = n THEN Followed(n) ELSE seen[q]
                       /\ vclock'[q] = IF q = n THEN vc ELSE vclock[q]
  BY <1>1 DEF Typed
<1>5. \A e \in E : /\ e.sender \in Nodes /\ \A m \in Nodes : e.vclock[m] \in Nat
                   /\ \A p \in e.past : p[1] \in Nodes /\ p[2] \in Nat
  BY <1>1, PublishedFacts
<1>6. \A q \in Nodes : /\ \A m \in Nodes : vclock[q][m] \in Nat
                       /\ \A p \in seen[q] : p[1] \in Nodes /\ p[2] \in Nat
                       /\ clock[q] \in Nat
  BY <1>1, SeenFacts
<1>7. /\ \A e, f \in E :
           /\ Name(e) \in f.past <=> e.vclock[e.sender] <= f.vclock[e.sender]
           /\ Name(e) \in f.past => \A m \in Nodes : e.vclock[m] <= f.vclock[m]
           /\ Name(e) \in f.past /\ Name(f) \in e.past => e = f
      /\ \A e \in E, q \in Nodes :
           /\ Name(e) \in seen[q] <=> e.vclock[e.sender] <= vclock[q][e.sender]
           /\ Name(e) \in seen[q] => \A m \in Nodes : e.vclock[m] <= vclock[q][m]
      /\ \A m \in Nodes : /\ \A e \in E : e.vclock[m] <= vclock[m][m]
                          /\ \A q \in Nodes : vclock[q][m] <= vclock[m][m]
      /\ \A e \in E : \A p \in e.past : p[2] <= clock[p[1]]
      /\ \A q \in Nodes : \A p \in seen[q] : p[2] <= clock[p[1]]
  BY DEF Knowledge
<1>8. /\ \A m \in Nodes : clock'[m] \in Nat /\ clock'[m] >= clock[m]
      /\ clock'[n] >= clock[n] + 1
  <2>1. \A m \in Nodes : clock'[m] \in Nat /\ clock'[m] >= clock[m]
    BY <1>1 DEF NodesAfter, Typed
  <2>2. clock' = [clock EXCEPT ![n] = Larger(clock[n] + 1, clock[n] + 1) + 1]
    BY <1>1 DEF SaveAt
  <2>3. clock'[n] = clock[n] + 1 + 1
    BY <1>1, <2>2 DEF Typed, Larger
  <2>. QED BY <1>6, <2>1, <2>3
<1>9. own[1] = n /\ own[2] = clock[n] + 1
  OBVIOUS
<1>. HIDE DEF E, e0, vc, own
<1>10. /\ \A e \in E : own \notin e.past
       /\ \A q \in Nodes : own \notin seen[q]
  <2>1. ~(own[2] <= clock[own[1]])
    BY <1>6, <1>9
  <2>. QED BY <2>1, <1>7
<1>11. \A e \in E : Name(e) # own
  <2>1. ASSUME NEW e \in E PROVE Name(e) \in e.past
    <3>1. e.vclock[e.sender] <= e.vclock[e.sender]
      BY <1>5
    <3>. QED BY <3>1, <1>7
  <2>. QED BY <2>1, <1>10
<1>12. \A f \in E : f.vclock[n] < vc[n]
  BY <1>2, <1>5, <1>6, <1>7
<1>13. \A q \in Nodes : q # n => vclock[q][n] < vc[n]
  <2>. SUFFICES ASSUME NEW q \in Nodes, q # n PROVE vclock[q][n] < vc[n]
    OBVIOUS
  <2>. QED BY <1>2, <1>6, <1>7
<1>14. ASSUME NEW e \in E
       PROVE  e.vclock[e.sender] <= vc[e.sender] <=> Name(e) \in seen[n]
  <2>1. CASE e.sender = n
    <3>1. e.vclock[n] <= vclock[n][n] /\ e.vclock[n] <= vc[n]
      BY <1>2, <1>5, <1>6, <1>7
    <3>. QED BY <2>1, <3>1, <1>7
  <2>2. CASE e.sender # n
    BY <2>2, <1>2, <1>5, <1>7
  <2>. QED BY <2>1, <2>2
<1>15. ASSUME NEW e \in E, Name(e) \in seen[n], NEW m \in Nodes
       PROVE  e.vclock[m] <= vc[m]
  <2>1. e.vclock[m] <= vclock[n][m] /\ vclock[n][m] <= vc[m]
    BY <1>2, <1>6, <1>7, <1>15
  <2>. QED BY <2>1, <1>2, <1>5, <1>6
<1>16. ASSUME NEW e \in E \cup {e0}, NEW f \in E \cup {e0}
       PROVE  /\ Name(e) \in f.past <=> e.vclock[e.sender] <= f.vclock[e.sender]
              /\ Name(e) \in f.past => \A m \in Nodes : e.vclock[m] <= f.vclock[m]
              /\ Name(e) \in f.past /\ Name(f) \in e.past => e = f
  <2>1. CASE e \in E /\ f \in E
    BY <2>1, <1>7
  <2>2. CASE e \in E /\ f = e0
    BY <2>2, <1>2, <1>3, <1>10, <1>11, <1>14, <1>15
  <2>3. CASE e = e0 /\ f \in E
    <3>1. Name(e) \notin f.past
      BY <2>3, <1>3, <1>10
    <3>2. ~(vc[n] <= f.vclock[n])
      BY <2>3, <1>2, <1>5, <1>12
    <3>. QED BY <2>3, <3>1, <3>2, <1>2
  <2>4. CASE e = e0 /\ f = e0
    <3>1. \A m \in Nodes : vc[m] <= vc[m]
      BY <1>2
    <3>. QED BY <2>4, <3>1, <1>2, <1>3
  <2>. QED BY <2>1, <2>2, <2>3, <2>4
<1>17. ASSUME NEW e \in E \cup {e0}, NEW q \in Nodes
       PROVE  /\ Name(e) \in seen'[q] <=> e.vclock[e.sender] <= vclock'[q][e.sender]
              /\ Name(e) \in seen'[q] => \A m \in Nodes : e.vclock[m] <= vclock'[q][m]
  <2>1. CASE e \in E /\ q # n
    BY <2>1, <1>4, <1>7
  <2>2. CASE e \in E /\ q = n
    BY <2>2, <1>3, <1>4, <1>11, <1>14, <1>15
  <2>3. CASE e = e0 /\ q # n
    <3>1. Name(e) \notin seen'[q]
      BY <2>3, <1>3, <1>4, <1>10
    <3>2. ~(vc[n] <= vclock'[q][n])
      BY <2>3, <1>2, <1>4, <1>6, <1>13
    <3>. QED BY <2>3, <3>1, <3>2, <1>2
  <2>4. CASE e = e0 /\ q = n
    <3>1. \A m \in Nodes : vc[m] <= vc[m]
      BY <1>2
    <3>. QED BY <2>4, <3>1, <1>2, <1>3, <1>4
  <2>. QED BY <2>1, <2>2, <2>3, <2>4
<1>18. ASSUME NEW m \in Nodes
       PROVE  /\ \A e \in E \cup {e0} : e.vclock[m] <= vclock'[m][m]
              /\ \A q \in Nodes : vclock'[q][m] <= vclock'[m][m]
  <2>1. CASE m = n
    BY <2>1, <1>2, <1>4, <1>5, <1>6, <1>12, <1>13
  <2>2. CASE m # n
    BY <2>2, <1>2, <1>4, <1>7
  <2>. QED BY <2>1, <2>2
<1>19. ASSUME NEW p, p[1] \in Nodes, p[2] \in Nat, p[2] <= clock[p[1]] \/ p = own
       PROVE  p[2] <= clock'[p[1]]
  <2>1. CASE p = own
    BY <2>1, <1>8, <1>9
  <2>2. CASE p[2] <= clock[p[1]]
    <3>1. clock[p[1]] \in Nat /\ clock'[p[1]] \in Nat /\ clock'[p[1]] >= clock[p[1]]
      BY <1>6, <1>8, <1>19
    <3>. QED BY <1>19, <2>2, <3>1
  <2>. QED BY <1>19, <2>1, <2>2
<1>20. \A e \in E : \A p \in e.past : p[2] <= clock'[p[1]]
  BY <1>5, <1>7, <1>19
<1>21. \A q \in Nodes : \A p \in seen[q] : p[2] <= clock'[p[1]]
  BY <1>6, <1>7, <1>19
<1>22. \A p \in Followed(n) : p[2] <= clock'[p[1]]
  BY <1>3, <1>8, <1>9, <1>21
<1>23. \A e \in E \cup {e0} : \A p \in e.past : p[2] <= clock'[p[1]]
  BY <1>2, <1>20, <1>22
<1>24. \A q \in Nodes : \A p \in seen'[q] : p[2] <= clock'[p[1]]
  BY <1>4, <1>21, <1>22
<1>. QED BY <1>1, <1>16, <1>17, <1>18, <1>23, <1>24 DEF Knowledge, Name

LEMMA IngestKnows ==
    ASSUME IInv, Knowledge, NEW n \in Nodes, NEW e \in published, Ingest(n, e)
    PROVE  Knowledge'
<1>. DEFINE vc    == update(vclock[n], e.vclock)
            known == seen[n] \cup e.past
<1>1. /\ vclock' = [vclock EXCEPT ![n] = vc] /\ seen' = [seen EXCEPT ![n] = known]
      /\ published' = published
  BY DEF Ingest
<1>2. Typed /\ NodesAfter
  BY IngestNodes DEF IInv
<1>3. \A m \in Nodes : vclock[n][m] \in Nat /\ e.vclock[m] \in Nat
  BY <1>2, PublishedFacts, SeenFacts
<1>4. /\ vc \in [Nodes -> Nat]
      /\ \A m \in Nodes : /\ vc[m] >= vclock[n][m] /\ vc[m] >= e.vclock[m]
                          /\ vc[m] = vclock[n][m] \/ vc[m] = e.vclock[m]
  BY <1>3 DEF update, Larger
<1>5. \A p : p \in known <=> p \in seen[n] \/ \E x \in {e} : p \in x.past
  OBVIOUS
<1>. HIDE DEF vc, known
<1>6. \A m \in Nodes : /\ vc[m] >= vclock[n][m]
                       /\ \A x \in {e} : vc[m] >= x.vclock[m]
                       /\ vc[m] = vclock[n][m] \/ \E x \in {e} : vc[m] = x.vclock[m]
  BY <1>4
<1>7. {e} \in SUBSET published
  OBVIOUS
<1>. QED BY <1>1, <1>2, <1>4, <1>5, <1>6, <1>7, LearningKeeps

\* A client's JSON has no clock and follows nothing: the node learns of the stored
\* events that were published.
LEMMA ReindexKnows ==
    ASSUME IInv, Knowledge, NEW n \in Nodes, Reindex(n)
    PROVE  Knowledge'
<1>. DEFINE X == Stored(n) \cap published
<1>1. published' = published /\ LearnStored(n) /\ Typed /\ NodesAfter
  BY ReindexNodes DEF Reindex, LearnStored, IInv
<1>2. PICK vc \in [Nodes -> Nat], known \in SUBSET Names :
        /\ vclock' = [vclock EXCEPT ![n] = vc] /\ seen' = [seen EXCEPT ![n] = known]
        /\ \A m \in Nodes :
             /\ vc[m] >= vclock[n][m]
             /\ \A e \in Stored(n) : vc[m] >= e.vclock[m]
             /\ vc[m] = vclock[n][m] \/ \E e \in Stored(n) : vc[m] = e.vclock[m]
        /\ \A p : p \in known <=> p \in seen[n] \/ \E e \in Stored(n) : p \in e.past
  BY <1>1, LearnedFacts
<1>3. \A e \in Stored(n) : e \in X \/ (e.vclock = Zero /\ e.past = {})
  BY StoredFacts DEF Genuine
<1>4. X \in SUBSET published /\ X \subseteq Stored(n)
  OBVIOUS
<1>. HIDE DEF X
<1>5. ASSUME NEW m \in Nodes
      PROVE  vc[m] = vclock[n][m] \/ \E x \in X : vc[m] = x.vclock[m]
  <2>1. ASSUME NEW e \in Stored(n), vc[m] = e.vclock[m], e \notin X
        PROVE  vc[m] = vclock[n][m]
    <3>1. vc[m] = 0
      BY <1>3, <2>1 DEF Zero
    <3>2. vc[m] >= vclock[n][m] /\ vclock[n][m] \in Nat
      BY <1>1, <1>2, SeenFacts
    <3>. QED BY <3>1, <3>2
  <2>. QED BY <1>2, <2>1
<1>6. \A m \in Nodes : /\ vc[m] >= vclock[n][m]
                       /\ \A x \in X : vc[m] >= x.vclock[m]
                       /\ vc[m] = vclock[n][m] \/ \E x \in X : vc[m] = x.vclock[m]
  BY <1>2, <1>4, <1>5
<1>7. \A p : p \in known <=> p \in seen[n] \/ \E x \in X : p \in x.past
  BY <1>2, <1>3, <1>4
<1>. QED BY <1>1, <1>2, <1>4, <1>6, <1>7, LearningKeeps

-----------------------------------------------------------------------------
(* The theorems.                                                            *)

LEMMA Initially ==
    ASSUME Init PROVE IInv
<1>1. DOMAIN Nothing = {} /\ Nothing \in Stores /\ Nothing \in Indexes
  <2>1. DOMAIN Nothing = {} /\ Nothing \in [{} -> Message] /\ Nothing \in [{} -> Event]
    BY DEF Nothing
  <2>. QED BY <2>1, Shapes
<1>2. Zero \in VClocks /\ \A m \in Nodes : Zero[m] = 0
  BY DEF Zero, VClocks
<1>3. Typed
  BY <1>1, <1>2 DEF Init, Typed
<1>4. \A n \in Nodes : store[n] = Nothing /\ docs[n] = Nothing
  BY DEF Init
<1>5. \A n \in Nodes : NodeFine(n)
  BY <1>1, <1>4, FS_EmptySet DEF NodeFine, StoreFine, IndexFine, Serves
<1>6. published = {} /\ \A q \in Nodes : seen[q] = {} /\ \A m \in Nodes : vclock[q][m] = 0
  BY <1>2 DEF Init
<1>7. Knowledge
  BY <1>6 DEF Knowledge
<1>. QED BY <1>3, <1>5, <1>6, <1>7 DEF IInv

LEMMA Step ==
    ASSUME IInv, Next PROVE IInv'
<1>1. ASSUME NEW n \in Nodes, NEW i \in Ids, Publish(n, i) PROVE IInv'
  <2>1. NodesAfter /\ restarted' = restarted
    BY <1>1, PublishNodes DEF Publish
  <2>. QED BY <1>1, <2>1, PublishKnows DEF IInv, NodesAfter
<1>2. ASSUME NEW n \in Nodes, NEW m \in Nodes, NEW i \in Ids, Receive(m, n, i) PROVE IInv'
  <2>1. /\ NodesAfter /\ restarted' = restarted
        /\ vclock' = vclock /\ published' = published /\ seen' = seen
    BY <1>2, ReceiveNodes DEF Receive
  <2>. QED BY <2>1, KnowledgeLater DEF IInv, NodesAfter
<1>3. ASSUME NEW n \in Nodes, NEW e \in published, Ingest(n, e) PROVE IInv'
  <2>1. NodesAfter /\ restarted' = restarted
    BY <1>3, IngestNodes DEF Ingest
  <2>. QED BY <1>3, <2>1, IngestKnows DEF IInv, NodesAfter
<1>4. ASSUME NEW n \in Nodes, NEW i \in Uuids, NEW d \in Docs \cup {None}, NEW claim \in Nat,
             Post(n, i, d, claim)
      PROVE  IInv'
  <2>1. /\ NodesAfter /\ restarted' = restarted
        /\ vclock' = vclock /\ published' = published /\ seen' = seen
    BY <1>4, PostNodes DEF Post
  <2>. QED BY <2>1, KnowledgeLater DEF IInv, NodesAfter
<1>5. ASSUME NEW n \in Nodes, Reindex(n) PROVE IInv'
  <2>1. NodesAfter /\ restarted' = restarted
    BY <1>5, ReindexNodes DEF Reindex, LearnStored
  <2>. QED BY <1>5, <2>1, ReindexKnows DEF IInv, NodesAfter
<1>6. ASSUME NEW n \in Nodes, Restart(n) PROVE IInv'
  BY <1>6, RestartKeeps
<1>7. ASSUME NEW n \in Nodes, NEW i \in Uuids, Post(n, i, None, clock[n] + 1) PROVE IInv'
  <2>1. clock[n] + 1 \in Nat
    BY DEF IInv, Typed
  <2>. QED BY <1>4, <1>7, <2>1
<1>8. ASSUME NEW n \in Nodes, NEW i \in Uuids, NEW d \in Docs, NEW claim \in Claims,
             Post(n, i, d, claim)
      PROVE  IInv'
  <2>1. claim \in Nat
    BY EventBusAssumption
  <2>. QED BY <1>4, <1>8, <2>1
<1>. QED BY <1>1, <1>2, <1>3, <1>5, <1>6, <1>7, <1>8 DEF Next, AfterExchange

LEMMA Stutter ==
    ASSUME IInv, UNCHANGED vars PROVE IInv'
BY DEF vars, IInv, Typed, NodeFine, Knowledge, Name

LEMMA Invariance == Spec => []IInv
<1>1. Init => IInv
  BY Initially
<1>2. IInv /\ [Next]_vars => IInv'
  BY Step, Stutter
<1>. QED BY <1>1, <1>2, PTL DEF Spec

\* Stores, indexes, clocks and published events keep their types (src/eventbus.js:56-63).
THEOREM EventBusTyped == Spec => []TypeOK
<1>1. IInv => TypeOK
  BY DEF IInv, Typed, TypeOK, Stores, Indexes
<1>. QED BY <1>1, Invariance, PTL

\* No published event in a node's index or store, and no stored message, is ahead of
\* its Lamport clock, also after a restart that seeds the clock from the store alone
\* (src/eventbus.js publish, src/store.js load).
THEOREM ClocksCover == Spec => []ClockCovers
<1>1. IInv => ClockCovers
  BY DEF IInv, NodeFine, StoreFine, IndexFine, ClockCovers
<1>. QED BY <1>1, Invariance, PTL

\* An index that no message, no failed publish and no restart left behind serves, of
\* every document in the store, a version at least as new as every stored one
\* (src/eventbus.js reindex).
THEOREM IndexCovers == Spec => []IndexCoversStore
<1>1. IInv => IndexCoversStore
  BY DEF IInv, NodeFine, Serves, IndexCoversStore, Stored
<1>. QED BY <1>1, Invariance, PTL

\* A node never serves an older version of a document than it did, whatever is
\* published, ingested or found in the store (src/eventbus.js _updateDocIndex).
THEOREM DocsAdvance == Spec => DocsNeverRegress
<1>. DEFINE Ahead == \A n \in Nodes : \A d \in DOMAIN docs[n] \cap DOMAIN docs'[n] :
                        docs'[n][d].lamport >= docs[n][d].lamport
<1>1. IInv /\ [Next]_vars => [Ahead]_vars
  <2>. SUFFICES ASSUME IInv, Next PROVE Ahead
    OBVIOUS
  <2>1. \A m \in Nodes : \A d \in DOMAIN docs[m] : docs[m][d].lamport >= docs[m][d].lamport
    <3>. SUFFICES ASSUME NEW m \in Nodes, NEW d \in DOMAIN docs[m]
                  PROVE  docs[m][d].lamport >= docs[m][d].lamport
      OBVIOUS
    <3>1. docs[m][d] \in Event
      BY Entries DEF IInv
    <3>. QED BY <3>1, Events
  <2>2. CASE docs' = docs
    BY <2>1, <2>2
  <2>3. ASSUME NEW n \in Nodes, NEW e \in Event, docs' = [docs EXCEPT ![n] = Updated(@, e)]
        PROVE  Ahead
    <3>. SUFFICES ASSUME NEW m \in Nodes, NEW d \in DOMAIN docs[m]
                  PROVE  docs'[m][d].lamport >= docs[m][d].lamport
      OBVIOUS
    <3>1. CASE m = n
      <4>. DEFINE u == Updated(docs[n], e)
      <4>1. \A k \in DOMAIN docs[n] : ~Exceeds(docs[n][k], u[k])
                                      /\ u[k].lamport >= docs[n][k].lamport
        BY Entries, UpdatedFacts DEF IInv
      <4>. HIDE DEF u
      <4>2. docs'[n] = u
        BY <2>3 DEF IInv, Typed, u
      <4>. QED BY <3>1, <4>1, <4>2
    <3>2. CASE m # n
      <4>1. docs'[m] = docs[m]
        BY <2>3, <3>2 DEF IInv, Typed
      <4>. QED BY <2>1, <4>1
    <3>. QED BY <3>1, <3>2
  <2>4. ASSUME NEW n \in Nodes, NEW i \in Ids, Publish(n, i) PROVE Ahead
    <3>1. Fresh(n, i) \in Event
      BY FreshFacts DEF IInv
    <3>. QED BY <2>2, <2>3, <2>4, <3>1, PublishFacts
  <2>5. ASSUME NEW n \in Nodes, NEW i \in Ids, NEW m \in Nodes, Receive(m, n, i) PROVE Ahead
    BY <2>2, <2>5 DEF Receive
  <2>6. ASSUME NEW n \in Nodes, NEW e \in published, Ingest(n, e) PROVE Ahead
    <3>1. e \in Event
      BY DEF IInv, Typed
    <3>. QED BY <2>2, <2>3, <2>6, <3>1 DEF Ingest
  <2>7. ASSUME NEW n \in Nodes, NEW i \in Uuids, NEW d, NEW claim, Post(n, i, d, claim)
        PROVE  Ahead
    BY <2>2, <2>7 DEF Post
  <2>8. ASSUME NEW n \in Nodes, Reindex(n) PROVE Ahead
    <3>1. /\ \A d \in DOMAIN docs[n] : d \in DOMAIN docs'[n]
                                       /\ docs'[n][d].lamport >= docs[n][d].lamport
          /\ \A m \in Nodes \ {n} : docs'[m] = docs[m]
      BY <2>8, ReindexFacts
    <3>. QED BY <2>1, <3>1
  <2>9. ASSUME NEW n \in Nodes, Restart(n) PROVE Ahead
    <3>1. docs' = [docs EXCEPT ![n] = Nothing]
      BY <2>9 DEF Restart, RestartAt
    <3>2. docs'[n] = Nothing /\ \A m \in Nodes \ {n} : docs'[m] = docs[m]
      BY <3>1 DEF IInv, Typed
    <3>3. DOMAIN docs'[n] = {}
      BY <3>2 DEF Nothing
    <3>. QED BY <2>1, <3>2, <3>3
  <2>. QED BY <2>4, <2>5, <2>6, <2>7, <2>8, <2>9 DEF Next, AfterExchange
<1>. QED BY <1>1, Invariance, PTL DEF Spec, DocsNeverRegress

-----------------------------------------------------------------------------
(* What the clocks say of the events.                                       *)

\* One clock is before another when it is below it everywhere and not the same.
LEMMA CompareFacts ==
    ASSUME NEW a \in [Nodes -> Nat], NEW b \in [Nodes -> Nat]
    PROVE  compare(a, b) = "before" <=> /\ \A m \in Nodes : a[m] <= b[m]
                                        /\ \E m \in Nodes : a[m] < b[m]
<1>. DEFINE up   == \E m \in Nodes : a[m] < b[m]
            down == \E m \in Nodes : b[m] < a[m]
<1>1. compare(a, b) = "before" <=> up /\ ~down
  <2>1. compare(a, b) =
          CASE ~up /\ ~down -> "equal" [] up /\ ~down -> "before"
            [] down /\ ~up -> "after" [] OTHER -> "concurrent"
    BY DEF compare
  <2>. HIDE DEF up, down
  <2>. QED BY <2>1
<1>2. ~down <=> \A m \in Nodes : a[m] <= b[m]
  OBVIOUS
<1>. QED BY <1>1, <1>2

\* Until a process restarts, vector clocks relate two published events exactly as
\* their publishing histories do (src/vclock.js:74-85), for any nodes and events.
THEOREM ClocksTellCauses == Spec => []CausalityExact
<1>1. IInv => CausalityExact
  <2>. SUFFICES ASSUME IInv, restarted = {}, NEW e \in published, NEW f \in published
                PROVE  compare(e.vclock, f.vclock) = "before" <=> e # f /\ Name(e) \in f.past
    BY DEF CausalityExact
  <2>1. Typed /\ Knowledge
    BY DEF IInv
  <2>2. e \in Event /\ f \in Event
    BY <2>1 DEF Typed
  <2>3. /\ e.vclock \in [Nodes -> Nat] /\ f.vclock \in [Nodes -> Nat]
        /\ e.sender \in Nodes /\ f.sender \in Nodes
    BY <2>2, Events
  <2>4. /\ Name(e) \in f.past <=> e.vclock[e.sender] <= f.vclock[e.sender]
        /\ Name(f) \in e.past <=> f.vclock[f.sender] <= e.vclock[f.sender]
        /\ Name(e) \in f.past => \A m \in Nodes : e.vclock[m] <= f.vclock[m]
        /\ Name(e) \in f.past /\ Name(f) \in e.past => e = f
    BY <2>1 DEF Knowledge
  <2>5. ASSUME compare(e.vclock, f.vclock) = "before" PROVE e # f /\ Name(e) \in f.past
    <3>1. /\ \A m \in Nodes : e.vclock[m] <= f.vclock[m]
          /\ \E m \in Nodes : e.vclock[m] < f.vclock[m]
      BY <2>3, <2>5, CompareFacts
    <3>. QED BY <2>3, <2>4, <3>1
  <2>6. ASSUME e # f, Name(e) \in f.past PROVE compare(e.vclock, f.vclock) = "before"
    <3>1. ~(f.vclock[f.sender] <= e.vclock[f.sender])
      BY <2>4, <2>6
    <3>2. e.vclock[f.sender] < f.vclock[f.sender]
      BY <2>3, <3>1
    <3>. QED BY <2>3, <2>4, <2>6, <3>2, CompareFacts
  <2>. QED BY <2>5, <2>6
<1>. QED BY <1>1, Invariance, PTL

\* A finite set of events of which no two have the same id, as a node stores them.
Held(X) == IsFiniteSet(X) /\ X \subseteq Event /\ \A e, f \in X : e.id = f.id => e = f

LEMMA BeforeIsOrder ==
    ASSUME NEW X, Held(X)
    PROVE  /\ \A e \in X : ~ Before(e, e)
           /\ \A e, f, g \in X : Before(e, f) /\ Before(f, g) => Before(e, g)
<1>1. \A e \in X : e.vclock \in [Nodes -> Nat]
  BY Events DEF Held
<1>2. \A e \in X : ~ Before(e, e)
  BY DEF Before
<1>3. ASSUME NEW e \in X, NEW f \in X, NEW g \in X, Before(e, f), Before(f, g)
      PROVE  Before(e, g)
  <2>1. /\ \A m \in Nodes : e.vclock[m] <= f.vclock[m]
        /\ \E m \in Nodes : e.vclock[m] < f.vclock[m]
        /\ \A m \in Nodes : f.vclock[m] <= g.vclock[m]
    BY <1>1, <1>3, CompareFacts DEF Before
  <2>2. /\ \A m \in Nodes : e.vclock[m] <= g.vclock[m]
        /\ \E m \in Nodes : e.vclock[m] < g.vclock[m]
    BY <2>1, <1>1
  <2>3. compare(e.vclock, g.vclock) = "before"
    BY <2>2, <1>1, CompareFacts
  <2>4. e # g
    BY <2>2, <1>1
  <2>. QED BY <2>3, <2>4 DEF Before, Held
<1>. QED BY <1>2, <1>3

\* Between an event and one before it there is a direct parent of the latter that
\* is the former or follows it.
LEMMA ParentBetween ==
    ASSUME NEW X, Held(X), NEW e \in X, NEW g \in X, Before(e, g)
    PROVE  \E o \in DirectParents(X, g) : o = e \/ Before(e, o)
<1>. DEFINE M == {o \in X : (o = e \/ Before(e, o)) /\ Before(o, g)}
            R == {h \in X \X X : Before(h[1], h[2])}
<1>1. \A a, b \in X : <<a, b>> \in R <=> Before(a, b)
  OBVIOUS
<1>2. e \in M /\ M \subseteq X
  OBVIOUS
<1>3. \A o : o \in M <=> o \in X /\ (o = e \/ Before(e, o)) /\ Before(o, g)
  OBVIOUS
<1>. HIDE DEF R, M
<1>4. IsFiniteSet(M)
  BY <1>2, FS_Subset DEF Held
<1>5. \A a \in M : <<a, a>> \notin R
  BY <1>1, <1>2, BeforeIsOrder
<1>6. \A a, b, c \in M : <<a, b>> \in R /\ <<b, c>> \in R => <<a, c>> \in R
  BY <1>1, <1>2, BeforeIsOrder
<1>7. PICK o \in M : \A q \in M : <<o, q>> \notin R
  BY <1>2, <1>4, <1>5, <1>6, Maximal
<1>8. ASSUME NEW q \in X, Before(o, q), Before(q, g) PROVE FALSE
  <2>1. q \in M
    BY <1>2, <1>3, <1>7, <1>8, BeforeIsOrder
  <2>. QED BY <1>1, <1>2, <1>7, <1>8, <2>1
<1>9. o \in DirectParents(X, g)
  BY <1>3, <1>7, <1>8 DEF DirectParents
<1>. QED BY <1>3, <1>7, <1>9

\* The edges of the graph, by the events they stand for.
LEMMA EdgeFacts ==
    ASSUME NEW X, Held(X)
    PROVE  /\ \A g \in Edges(X) : \E a, b \in X :
                 g = <<a.id, b.id>> /\ Before(a, b) /\ a \in DirectParents(X, b)
           /\ \A b \in X : \A a \in DirectParents(X, b) :
                 a \in X /\ Before(a, b) /\ <<a.id, b.id>> \in Edges(X)
<1>1. \A b \in X : \A a \in DirectParents(X, b) : a \in X /\ Before(a, b)
  BY DEF DirectParents
<1>2. ASSUME NEW g \in Edges(X)
      PROVE  \E b \in X : \E a \in DirectParents(X, b) : g = <<a.id, b.id>>
  BY <1>2 DEF Edges
<1>3. ASSUME NEW b \in X, NEW a \in DirectParents(X, b) PROVE <<a.id, b.id>> \in Edges(X)
  BY <1>3 DEF Edges
<1>. QED BY <1>1, <1>2, <1>3

\* What a node's graph has a path between is ordered, and the other way round.
LEMMA PathsAreOrder ==
    ASSUME NEW X, Held(X), NEW e \in X, NEW f \in X
    PROVE  Leads(Edges(X), {x.id : x \in X}, e.id, f.id) <=> Before(e, f)
<1>. DEFINE I == {x.id : x \in X}
            G == Edges(X)
<1>1. \A g \in G : \E a, b \in X : g = <<a.id, b.id>> /\ Before(a, b)
  BY EdgeFacts
<1>2. \A b \in X : \A a \in DirectParents(X, b) : a \in X /\ Before(a, b) /\ <<a.id, b.id>> \in G
  BY EdgeFacts
<1>3. \A a, b \in X : a.id = b.id => a = b
  BY DEF Held
<1>4. \A i : i \in I <=> \E x \in X : i = x.id
  OBVIOUS
<1>. HIDE DEF G, I
<1>5. ASSUME Leads(G, I, e.id, f.id) PROVE Before(e, f)
  <2>. DEFINE S == {i \in I : \E x \in X : i = x.id /\ Before(e, x)}
  <2>1. \A x \in X : x.id \in S <=> Before(e, x)
    BY <1>3, <1>4
  <2>2. S \in SUBSET I
    OBVIOUS
  <2>. HIDE DEF S
  <2>3. ASSUME NEW g \in G, g[1] \in S \cup {e.id} PROVE g[2] \in S
    <3>1. PICK a \in X, b \in X : g = <<a.id, b.id>> /\ Before(a, b)
      BY <1>1
    <3>2. a = e \/ Before(e, a)
      BY <2>1, <2>3, <3>1, <1>3
    <3>3. Before(e, b)
      BY <3>1, <3>2, BeforeIsOrder
    <3>. QED BY <2>1, <3>1, <3>3
  <2>4. f.id \in S
    BY <1>5, <2>2, <2>3 DEF Leads
  <2>. QED BY <2>1, <2>4
<1>6. ASSUME Before(e, f) PROVE Leads(G, I, e.id, f.id)
  <2>. SUFFICES ASSUME NEW S \in SUBSET I,
                       \A g \in G : g[1] \in S \cup {e.id} => g[2] \in S, f.id \notin S
                PROVE  FALSE
    BY DEF Leads
  <2>. DEFINE Out == {g \in X : Before(e, g) /\ g.id \notin S}
              R == {h \in X \X X : Before(h[2], h[1])}
  <2>1. f \in Out /\ Out \subseteq X
    BY <1>6
  <2>2. \A a, b \in X : <<a, b>> \in R <=> Before(b, a)
    OBVIOUS
  <2>3. \A g : g \in Out <=> g \in X /\ Before(e, g) /\ g.id \notin S
    OBVIOUS
  <2>. HIDE DEF Out, R
  <2>4. IsFiniteSet(Out)
    BY <2>1, FS_Subset DEF Held
  <2>5. \A a \in Out : <<a, a>> \notin R
    BY <2>1, <2>2, BeforeIsOrder
  <2>6. \A a, b, c \in Out : <<a, b>> \in R /\ <<b, c>> \in R => <<a, c>> \in R
    BY <2>1, <2>2, BeforeIsOrder
  <2>7. PICK g \in Out : \A q \in Out : <<g, q>> \notin R
    BY <2>1, <2>4, <2>5, <2>6, Maximal
  <2>8. PICK o \in DirectParents(X, g) : o = e \/ Before(e, o)
    BY <2>3, <2>7, ParentBetween
  <2>9. o \in X /\ Before(o, g) /\ <<o.id, g.id>> \in G
    BY <2>3, <2>7, <2>8, <1>2
  <2>10. o.id \notin S \cup {e.id}
    <3>1. <<o.id, g.id>>[1] \in S \cup {e.id} => <<o.id, g.id>>[2] \in S
      BY <2>9
    <3>. QED BY <3>1, <2>3, <2>7
  <2>11. o \in Out
    BY <2>3, <2>8, <2>9, <2>10
  <2>. QED BY <2>1, <2>2, <2>7, <2>9, <2>11
<1>. QED BY <1>5, <1>6 DEF G, I

\* The graph of direct parents a node computes is the transitive reduction of the
\* order between the events it stores (src/vclock.js:109-139), for any nodes and
\* events, with restarts, versions of documents and messages of clients among them.
THEOREM GraphReduces == Spec => []GraphIsReduction
<1>1. IInv => GraphIsReduction
  <2>. SUFFICES ASSUME IInv, NEW n \in Nodes
                PROVE  LET X == Stored(n)
                           I == {x.id : x \in X}
                           G == Edges(X)
                       IN  /\ \A e, f \in X : Leads(G, I, e.id, f.id) <=> Before(e, f)
                           /\ \A g \in G : ~ Leads(G \ {g}, I, g[1], g[2])
    BY DEF GraphIsReduction
  <2>. DEFINE X == Stored(n)
              I == {x.id : x \in X}
              G == Edges(X)
  <2>1. Held(X)
    BY StoredFacts DEF Held
  <2>. HIDE DEF X
  <2>2. \A e, f \in X : Leads(G, I, e.id, f.id) <=> Before(e, f)
    BY <2>1, PathsAreOrder
  <2>3. ASSUME NEW g \in G PROVE ~ Leads(G \ {g}, I, g[1], g[2])
    <3>1. \A h \in G : \E a, b \in X :
             h = <<a.id, b.id>> /\ Before(a, b) /\ a \in DirectParents(X, b)
      BY <2>1, EdgeFacts
    <3>2. \A a, b \in X : a.id = b.id => a = b
      BY <2>1 DEF Held
    <3>3. \A i : i \in I <=> \E x \in X : i = x.id
      OBVIOUS
    <3>. HIDE DEF G, I
    <3>4. PICK p \in X, q \in X :
             g = <<p.id, q.id>> /\ Before(p, q) /\ p \in DirectParents(X, q)
      BY <3>1
    <3>. DEFINE S == {i \in I : \E x \in X : i = x.id /\ Before(p, x) /\ x # q}
    <3>5. \A x \in X : x.id \in S <=> Before(p, x) /\ x # q
      BY <3>2, <3>3
    <3>6. S \in SUBSET I
      OBVIOUS
    <3>. HIDE DEF S
    <3>7. ASSUME NEW h \in G \ {g}, h[1] \in S \cup {p.id} PROVE h[2] \in S
      <4>1. PICK a \in X, b \in X :
               h = <<a.id, b.id>> /\ Before(a, b) /\ a \in DirectParents(X, b)
        BY <3>1
      <4>2. a = p \/ Before(p, a)
        BY <3>2, <3>5, <3>7, <4>1
      <4>3. Before(p, b)
        BY <2>1, <4>1, <4>2, BeforeIsOrder
      <4>4. ASSUME b = q PROVE FALSE
        <5>1. a # p
          BY <3>4, <3>7, <4>1, <4>4
        <5>2. Before(p, a) /\ Before(a, q)
          BY <4>1, <4>2, <4>4, <5>1
        <5>. QED BY <3>4, <5>2 DEF DirectParents
      <4>. QED BY <3>5, <4>1, <4>3, <4>4
    <3>8. g[1] = p.id /\ g[2] = q.id /\ q.id \notin S
      BY <3>4, <3>5
    <3>. QED BY <3>6, <3>7, <3>8 DEF Leads
  <2>. QED BY <2>2, <2>3 DEF X
<1>. QED BY <1>1, Invariance, PTL
=============================================================================
