---------------------------- MODULE ReadsProofs ----------------------------
(***************************************************************************)
(* Proofs about Reads for any messages, filters and bounds: what an index   *)
(* misses is stale, a session is set back by superseded events only, and    *)
(* compaction keeps the newest messages.                                    *)
(***************************************************************************)
EXTENDS Reads, FiniteSetTheorems, TLAPS

\* Top of the messages ms.
TopOf(ms) == Max({0} \cup {ms[i].lamport : i \in DOMAIN ms})

Typed ==
    /\ messages \in [Held -> Message] /\ clock \in 0..MaxLamport
    /\ Held \subseteq known /\ known \subseteq Ids
    /\ bySender \in [Senders -> SUBSET Ids] /\ bySynced \in [BOOLEAN -> SUBSET Ids]
    /\ stale \subseteq Ids
    /\ session \in [highWatermark : 0..MaxLamport, writes : SUBSET Ids]

\* A message that is not stale is in the bucket of each of its fields.
Indexed ==
    \A i \in Held :
        i \in stale \/ (i \in bySender[messages[i].sender] /\ i \in bySynced[messages[i].synced])

\* Neither a message nor the session is ahead of the clock.
Below ==
    /\ \A i \in Held : messages[i].lamport <= clock
    /\ session.highWatermark <= clock

IInv == Typed /\ Indexed /\ Below

LEMMA Bounds == MaxLamport \in Nat /\ 0..MaxVersion \subseteq 0..MaxLamport
BY ReadsAssumption

LEMMA Fields ==
    ASSUME NEW m \in Message
    PROVE  m.sender \in Senders /\ m.synced \in BOOLEAN /\ m.lamport \in 1..MaxLamport
           /\ m.lamport \in Nat
BY Bounds DEF Message

-----------------------------------------------------------------------------
(* The newest message.                                                      *)

\* Every set of natural numbers that is not empty has a least one.
LEMMA Least ==
    ASSUME NEW T \in SUBSET Nat, T # {}
    PROVE  \E n \in T : \A m \in T : n <= m
<1>1. PICK n \in T : \A m \in T : ~(<<m, n>> \in OpToRel(<, Nat))
  BY WFMin, NatLessThanWellFounded
<1>2. ASSUME NEW m \in T, m < n PROVE FALSE
  <2>1. <<m, n>> \in OpToRel(<, Nat)
    BY <1>2 DEF OpToRel
  <2>. QED BY <1>1, <2>1
<1>. QED BY <1>2

LEMMA Greatest ==
    ASSUME NEW b \in Nat, NEW T \in SUBSET (0..b), T # {}
    PROVE  Max(T) \in T /\ \A m \in T : Max(T) >= m
<1>. DEFINE D == {b - m : m \in T}
<1>1. D \in SUBSET Nat /\ D # {}
  <2>1. ASSUME NEW m \in T PROVE b - m \in Nat
    BY m \in 0..b
  <2>2. PICK m \in T : TRUE
    OBVIOUS
  <2>3. b - m \in D
    BY <2>2
  <2>. QED BY <2>1, <2>3
<1>2. PICK d \in D : \A k \in D : d <= k
  <2>. HIDE DEF D
  <2>. QED BY <1>1, Least
<1>3. PICK n \in T : d = b - n
  BY <1>2
<1>4. ASSUME NEW m \in T PROVE n >= m
  <2>1. b - n <= b - m
    BY <1>2, <1>3
  <2>. QED BY <2>1
<1>5. \E x \in T : \A y \in T : x >= y
  BY <1>4
<1>. QED BY <1>5 DEF Max

LEMMA TopFacts ==
    ASSUME NEW ms, ms \in [DOMAIN ms -> Message]
    PROVE  /\ TopOf(ms) \in 0..MaxLamport
           /\ \A i \in DOMAIN ms : ms[i].lamport <= TopOf(ms)
           /\ DOMAIN ms # {} => \E i \in DOMAIN ms : ms[i].lamport = TopOf(ms)
<1>. DEFINE T == {0} \cup {ms[i].lamport : i \in DOMAIN ms}
<1>1. \A i \in DOMAIN ms : ms[i].lamport \in 1..MaxLamport
  BY Fields
<1>2. T \in SUBSET (0..MaxLamport) /\ T # {}
  BY <1>1, Bounds
<1>3. TopOf(ms) \in T /\ \A m \in T : TopOf(ms) >= m
  <2>1. TopOf(ms) = Max(T)
    BY DEF TopOf
  <2>. HIDE DEF T
  <2>. QED BY <1>2, <2>1, Bounds, Greatest
<1>4. \A i \in DOMAIN ms : ms[i].lamport \in T
  OBVIOUS
<1>5. \A i \in DOMAIN ms : ms[i].lamport <= TopOf(ms)
  <2>. HIDE DEF T
  <2>. QED BY <1>1, <1>2, <1>3, <1>4, Bounds
<1>6. ASSUME DOMAIN ms # {} PROVE \E i \in DOMAIN ms : ms[i].lamport = TopOf(ms)
  <2>1. PICK i \in DOMAIN ms : TRUE
    BY <1>6
  <2>2. TopOf(ms) # 0
    BY <1>1, <1>5, <2>1, Bounds
  <2>. QED BY <1>3, <2>2
<1>. QED BY <1>2, <1>3, <1>5, <1>6

-----------------------------------------------------------------------------
(* Every step preserves the invariant.                                      *)

LEMMA Initially ==
    ASSUME Init PROVE IInv
<1>1. DOMAIN messages = {} /\ messages \in [Held -> Message]
  BY DEF Init, Held
<1>2. /\ SendersOf(messages) \in [Senders -> SUBSET Ids]
      /\ SyncedOf(messages) \in [BOOLEAN -> SUBSET Ids]
  BY <1>1 DEF SendersOf, SyncedOf
<1>3. Typed
  BY <1>1, <1>2, Bounds DEF Init, Typed, Held, NewSession
<1>. QED BY <1>1, <1>3, Bounds DEF Init, IInv, Indexed, Below, Held, NewSession

\* save() of a message m newer than all.
LEMMA SaveFacts ==
    ASSUME IInv, NEW id \in Ids, NEW m \in Message, m.lamport > clock, Save(id, m)
    PROVE  /\ messages' \in [Held' -> Message] /\ clock' \in 0..MaxLamport
           /\ clock' = m.lamport /\ clock' > clock
           /\ known' = known \cup {id} /\ Held' = Held \cup {id} /\ Held' \subseteq known'
           /\ known' \subseteq Ids
           /\ \A i \in Held : messages'[i] = messages[i]
           /\ id \notin Held => messages'[id] = m
           /\ \A i \in Held' : messages'[i].lamport <= clock'
<1>1. clock' = m.lamport /\ known' = known \cup {id} /\ m.lamport \in 1..MaxLamport
      /\ clock \in 0..MaxLamport
  BY Fields DEF Save, IInv, Typed
<1>2. /\ messages' \in [Held' -> Message] /\ Held' = Held \cup {id}
      /\ \A i \in Held : messages'[i] = messages[i]
      /\ id \notin Held => messages'[id] = m
  <2>1. CASE id \in Held
    BY <2>1 DEF Save, IInv, Typed, Held
  <2>2. CASE id \notin Held
    BY <2>2 DEF Save, IInv, Typed, Held
  <2>. QED BY <2>1, <2>2
<1>3. \A i \in Held' : messages'[i].lamport <= clock'
  <2>1. \A i \in Held : messages[i].lamport \in Nat /\ messages[i].lamport <= clock
    BY Fields DEF IInv, Typed, Below
  <2>. QED BY <1>1, <1>2, <2>1, Bounds
<1>. QED BY <1>1, <1>2, <1>3, Bounds DEF IInv, Typed

\* A save with index() and registerWrite() of a Lamport value no later.
LEMMA WriteKeeps ==
    ASSUME IInv, NEW id \in Ids, NEW m \in Message, m.lamport > clock, Save(id, m),
           Index(id, m.sender, m.synced), NEW l \in 1..MaxLamport, l <= m.lamport,
           registerWrite(id, l)
    PROVE  IInv'
<1>1. /\ messages' \in [Held' -> Message] /\ clock' \in 0..MaxLamport
      /\ clock' = m.lamport /\ clock' > clock
      /\ known' = known \cup {id} /\ Held' = Held \cup {id} /\ Held' \subseteq known'
      /\ known' \subseteq Ids
      /\ \A i \in Held : messages'[i] = messages[i]
      /\ id \notin Held => messages'[id] = m
      /\ \A i \in Held' : messages'[i].lamport <= clock'
  BY SaveFacts
<1>2. m.sender \in Senders /\ m.synced \in BOOLEAN
  BY Fields
<1>3. /\ bySender' = [bySender EXCEPT ![m.sender] = @ \cup {id}]
      /\ bySynced' = [bySynced EXCEPT ![m.synced] = @ \cup {id}]
      /\ stale' = IF id \in Held THEN stale ELSE stale \ {id}
  BY DEF Index
<1>4. /\ bySender \in [Senders -> SUBSET Ids] /\ bySynced \in [BOOLEAN -> SUBSET Ids]
      /\ stale \subseteq Ids
      /\ session \in [highWatermark : 0..MaxLamport, writes : SUBSET Ids]
  BY DEF IInv, Typed
<1>5. /\ bySender' \in [Senders -> SUBSET Ids] /\ bySynced' \in [BOOLEAN -> SUBSET Ids]
      /\ \A s \in Senders : bySender[s] \subseteq bySender'[s]
      /\ \A b \in BOOLEAN : bySynced[b] \subseteq bySynced'[b]
      /\ id \in bySender'[m.sender] /\ id \in bySynced'[m.synced]
  BY <1>2, <1>3, <1>4
<1>6. /\ session' \in [highWatermark : 0..MaxLamport, writes : SUBSET Ids]
      /\ session'.highWatermark <= clock'
  <2>1. session' = [highWatermark |-> Larger(session.highWatermark, l),
                    writes |-> session.writes \cup {id}]
    BY DEF registerWrite
  <2>2. session.highWatermark \in 0..MaxLamport /\ session.highWatermark <= clock
        /\ clock \in 0..MaxLamport
    BY <1>4 DEF IInv, Below, Typed
  <2>3. Larger(session.highWatermark, l) \in 0..MaxLamport
        /\ Larger(session.highWatermark, l) <= clock'
    BY <1>1, <2>2, Fields, Bounds DEF Larger
  <2>. QED BY <1>4, <2>1, <2>3
<1>7. Typed'
  BY <1>1, <1>3, <1>4, <1>5, <1>6 DEF Typed
<1>8. Indexed'
  <2>1. ASSUME NEW i \in Held'
        PROVE  i \in stale' \/ (i \in bySender'[messages'[i].sender]
                                /\ i \in bySynced'[messages'[i].synced])
    <3>1. CASE i \in Held
      <4>1. messages'[i] = messages[i] /\ messages[i] \in Message
        BY <1>1, <3>1 DEF IInv, Typed
      <4>2. messages[i].sender \in Senders /\ messages[i].synced \in BOOLEAN
        BY <4>1, Fields
      <4>3. i \in stale \/ (i \in bySender[messages[i].sender] /\ i \in bySynced[messages[i].synced])
        BY <3>1 DEF IInv, Indexed
      <4>4. i \in stale => i \in stale'
        BY <1>3, <3>1
      <4>. QED BY <1>5, <4>1, <4>2, <4>3, <4>4
    <3>2. CASE i \notin Held
      BY <1>1, <1>5, <3>2
    <3>. QED BY <3>1, <3>2
  <2>. QED BY <2>1 DEF Indexed
<1>. QED BY <1>1, <1>6, <1>7, <1>8 DEF IInv, Below

LEMMA PostKeeps ==
    ASSUME IInv, NEW id \in Ids, NEW v \in 0..MaxVersion, Post(id, v) PROVE IInv'
<1>. DEFINE m == [sender |-> Author[id], synced |-> FALSE, lamport |-> clock + 1, version |-> v]
<1>1. clock \in 0..MaxLamport /\ clock + 1 <= MaxLamport
  BY DEF IInv, Typed, Post
<1>2. m \in Message /\ m.lamport > clock /\ m.lamport \in 1..MaxLamport
  BY <1>1, ReadsAssumption, Bounds DEF Message
<1>3. Save(id, m) /\ Index(id, m.sender, m.synced) /\ registerWrite(id, m.lamport)
  BY DEF Post
<1>. HIDE DEF m
<1>. QED BY <1>2, <1>3, Bounds, WriteKeeps

LEMMA PublishKeeps ==
    ASSUME IInv, NEW id \in Ids, NEW s \in Senders, Publish(id, s) PROVE IInv'
<1>. DEFINE m == [sender |-> s, synced |-> FALSE, lamport |-> clock + 2, version |-> clock + 1]
<1>1. clock \in 0..MaxLamport /\ clock + 2 <= MaxLamport
  BY DEF IInv, Typed, Publish
<1>2. m \in Message /\ m.lamport > clock /\ m.version \in 1..MaxLamport /\ m.version <= m.lamport
  BY <1>1, Bounds DEF Message
<1>3. Save(id, m) /\ Index(id, m.sender, m.synced) /\ registerWrite(id, m.version)
  BY DEF Publish
<1>. HIDE DEF m
<1>. QED BY <1>2, <1>3, Bounds, WriteKeeps

LEMMA ReceiveKeeps ==
    ASSUME IInv, NEW id \in Ids, NEW s \in Senders, NEW synced \in BOOLEAN,
           NEW v \in 0..MaxVersion, NEW remote \in 1..MaxLamport,
           Receive(id, s, synced, v, remote)
    PROVE  /\ IInv' /\ clock' > clock /\ Held' = Held \cup {id} /\ session' = session
           /\ id \notin Held => messages'[id].lamport = clock'
           /\ \A i \in Held : messages'[i] = messages[i]
<1>. DEFINE m == [sender |-> s, synced |-> synced, lamport |-> Larger(clock, remote) + 1,
                  version |-> v]
<1>1. clock \in 0..MaxLamport /\ remote \in Nat /\ Larger(clock, remote) + 1 <= MaxLamport
  BY Bounds DEF IInv, Typed, Receive
<1>2. m \in Message /\ m.lamport > clock
  BY <1>1, Bounds DEF Message, Larger
<1>3. /\ Save(id, m)
      /\ stale' = IF id \in Held THEN stale ELSE stale \cup {id}
      /\ UNCHANGED <<bySender, bySynced, session>>
  BY DEF Receive
<1>. HIDE DEF m
<1>4. /\ messages' \in [Held' -> Message] /\ clock' \in 0..MaxLamport
      /\ clock' = m.lamport /\ clock' > clock
      /\ known' = known \cup {id} /\ Held' = Held \cup {id} /\ Held' \subseteq known'
      /\ known' \subseteq Ids
      /\ \A i \in Held : messages'[i] = messages[i]
      /\ id \notin Held => messages'[id] = m
      /\ \A i \in Held' : messages'[i].lamport <= clock'
  BY <1>2, <1>3, SaveFacts
<1>5. Typed'
  BY <1>3, <1>4 DEF IInv, Typed
<1>6. Indexed'
  BY <1>3, <1>4 DEF IInv, Indexed
<1>7. Below'
  BY <1>1, <1>3, <1>4, Bounds DEF IInv, Typed, Below
<1>. QED BY <1>2, <1>3, <1>4, <1>5, <1>6, <1>7 DEF IInv

\* What the marking and the compaction of messages change.
LEMMA MarkKeeps ==
    ASSUME IInv, NEW id \in Ids, MarkSynced(id)
    PROVE  IInv' /\ Held' = Held /\ \A i \in Held : messages'[i].lamport = messages[i].lamport
<1>1. /\ id \in Held /\ messages' = [messages EXCEPT ![id].synced = TRUE]
      /\ stale' = IF messages[id].synced THEN stale ELSE stale \cup {id}
      /\ UNCHANGED <<clock, known, bySender, bySynced, session>>
  BY DEF MarkSynced
<1>2. messages \in [Held -> Message]
  BY DEF IInv, Typed
<1>3. ASSUME NEW i \in Held
      PROVE  /\ messages'[i] \in Message
             /\ messages'[i].lamport = messages[i].lamport
             /\ messages'[i].sender = messages[i].sender
             /\ i # id => messages'[i] = messages[i]
  <2>1. messages[i] \in Message
    BY <1>2
  <2>. QED BY <1>1, <1>2, <2>1 DEF Message
<1>4. Held' = Held /\ messages' \in [Held -> Message]
  <2>1. Held' = Held
    BY <1>1 DEF Held
  <2>2. messages' = [i \in Held |-> messages'[i]]
    BY <1>1, <1>2
  <2>. QED BY <1>3, <2>1, <2>2
<1>5. Typed'
  BY <1>1, <1>4 DEF IInv, Typed
<1>6. Indexed'
  <2>1. ASSUME NEW i \in Held, i \notin stale' PROVE messages'[i].synced = messages[i].synced
    <3>1. CASE i = id
      <4>1. messages[id].synced
        BY <1>1, <2>1, <3>1
      <4>2. messages[id].synced \in BOOLEAN /\ messages[id] \in Message
        BY <1>1, <1>2, Fields
      <4>3. messages'[id].synced = TRUE
        BY <1>1, <1>2, <4>2 DEF Message
      <4>4. messages[id].synced = TRUE
        BY <4>1, <4>2
      <4>. QED BY <3>1, <4>3, <4>4
    <3>2. CASE i # id
      BY <1>3, <3>2
    <3>. QED BY <3>1, <3>2
  <2>2. ASSUME NEW i \in Held, i \notin stale'
        PROVE  i \in bySender[messages[i].sender] /\ i \in bySynced[messages[i].synced]
    <3>1. i \notin stale
      BY <1>1, <2>2
    <3>. QED BY <3>1 DEF IInv, Indexed
  <2>. QED BY <1>1, <1>3, <1>4, <2>1, <2>2 DEF Indexed
<1>7. Below'
  BY <1>1, <1>3, <1>4 DEF IInv, Below
<1>. QED BY <1>3, <1>4, <1>5, <1>6, <1>7 DEF IInv

LEMMA GcKeeps ==
    ASSUME IInv, Gc
    PROVE  IInv' /\ Held' = Held \ Discarded /\ \A i \in Held' : messages'[i] = messages[i]
<1>1. /\ messages' = [i \in Held \ Discarded |-> messages[i]]
      /\ UNCHANGED <<clock, known, bySender, bySynced, stale, session>>
  BY DEF Gc, engine
<1>2. Held' = Held \ Discarded /\ \A i \in Held' : messages'[i] = messages[i]
  BY <1>1 DEF Held
<1>3. messages' \in [Held' -> Message]
  <2>1. \A i \in Held : messages[i] \in Message
    BY DEF IInv, Typed
  <2>. QED BY <1>1, <1>2, <2>1
<1>4. Typed'
  BY <1>1, <1>2, <1>3 DEF IInv, Typed
<1>5. Indexed' /\ Below'
  BY <1>1, <1>2 DEF IInv, Indexed, Below
<1>. QED BY <1>2, <1>4, <1>5 DEF IInv

LEMMA RebuiltKeeps ==
    ASSUME Typed, Typed', messages' = messages, Below',
           bySender' = SendersOf(messages), bySynced' = SyncedOf(messages)
    PROVE  IInv'
<1>1. Held' = Held
  BY DEF Held
<1>2. ASSUME NEW i \in Held
      PROVE  i \in bySender'[messages[i].sender] /\ i \in bySynced'[messages[i].synced]
  <2>1. messages[i].sender \in Senders /\ messages[i].synced \in BOOLEAN
    BY Fields DEF Typed
  <2>. QED BY <2>1 DEF SendersOf, SyncedOf, Held
<1>. QED BY <1>1, <1>2 DEF IInv, Indexed

LEMMA Buckets ==
    ASSUME Typed
    PROVE  /\ SendersOf(messages) \in [Senders -> SUBSET Ids]
           /\ SyncedOf(messages) \in [BOOLEAN -> SUBSET Ids]
BY DEF Typed, Held, SendersOf, SyncedOf

LEMMA RestartKeeps ==
    ASSUME IInv, Restart PROVE IInv'
<1>1. /\ clock' = IF Top = 0 THEN 0 ELSE Top + 1
      /\ clock' <= MaxLamport
      /\ bySender' = SendersOf(messages) /\ bySynced' = SyncedOf(messages)
      /\ stale' = {} /\ session' = NewSession
      /\ messages' = messages /\ known' = known
  BY DEF Restart
<1>2. Typed /\ Held' = Held /\ messages \in [Held -> Message]
  BY <1>1 DEF IInv, Typed, Held
<1>3. Top = TopOf(messages)
  BY DEF Top, TopOf, Held
<1>4. Top \in 0..MaxLamport /\ \A i \in Held : messages[i].lamport <= Top
  BY <1>2, <1>3, TopFacts DEF Held
<1>5. clock' \in 0..MaxLamport /\ \A i \in Held : messages[i].lamport <= clock'
  BY <1>1, <1>2, <1>4, Bounds, Fields
<1>6. Typed'
  BY <1>1, <1>2, <1>5, Bounds, Buckets DEF Typed, NewSession
<1>7. Below'
  BY <1>1, <1>2, <1>5 DEF Below, NewSession
<1>. QED BY <1>1, <1>2, <1>6, <1>7, RebuiltKeeps

LEMMA RebuildKeeps ==
    ASSUME IInv, Rebuild PROVE IInv'
<1>1. /\ bySender' = SendersOf(messages) /\ bySynced' = SyncedOf(messages)
      /\ stale' = {} /\ UNCHANGED <<messages, clock, known, session>>
  BY DEF Rebuild, store
<1>2. Typed /\ Typed' /\ Below'
  BY <1>1, Buckets DEF IInv, Typed, Below, Held
<1>. QED BY <1>1, <1>2, RebuiltKeeps

LEMMA TopBelow ==
    ASSUME IInv PROVE Top \in 0..MaxLamport /\ Top <= clock
<1>1. Top = TopOf(messages)
  BY DEF Top, TopOf, Held
<1>2. messages \in [DOMAIN messages -> Message]
  BY DEF IInv, Typed, Held
<1>3. TopOf(messages) <= clock
  <2>1. CASE DOMAIN messages = {}
    <3>1. TopOf(messages) = Max({0})
      BY <2>1 DEF TopOf
    <3>2. Max({0}) \in {0}
      BY Greatest
    <3>. QED BY <3>1, <3>2 DEF IInv, Typed
  <2>2. CASE DOMAIN messages # {}
    BY <1>2, <2>2, TopFacts DEF IInv, Below, Held
  <2>. QED BY <2>1, <2>2
<1>. QED BY <1>1, <1>2, <1>3, TopFacts

LEMMA ReadKeeps ==
    ASSUME IInv, Read PROVE IInv'
<1>1. /\ session' = [session EXCEPT !.highWatermark = Larger(@, Top)]
      /\ UNCHANGED <<messages, clock, known, bySender, bySynced, stale>>
  BY DEF Read, store, engine
<1>2. Top \in 0..MaxLamport /\ Top <= clock
  BY TopBelow
<1>3. /\ session \in [highWatermark : 0..MaxLamport, writes : SUBSET Ids]
      /\ session.highWatermark <= clock
  BY DEF IInv, Typed, Below
<1>4. /\ session' \in [highWatermark : 0..MaxLamport, writes : SUBSET Ids]
      /\ session'.highWatermark <= clock
  BY <1>1, <1>2, <1>3 DEF Larger
<1>5. Typed'
  BY <1>1, <1>4 DEF IInv, Typed, Held
<1>6. Indexed' /\ Below'
  BY <1>1, <1>4 DEF IInv, Indexed, Below, Held
<1>. QED BY <1>5, <1>6 DEF IInv

LEMMA DestroyKeeps ==
    ASSUME IInv, destroySession PROVE IInv'
<1>1. session' = NewSession /\ UNCHANGED <<messages, clock, known, bySender, bySynced, stale>>
  BY DEF destroySession, store, engine
<1>. QED BY <1>1, Bounds DEF IInv, Typed, Indexed, Below, Held, NewSession

LEMMA Invariance == Spec => []IInv
<1>1. Init => IInv
  BY Initially
<1>2. IInv /\ [Next]_vars => IInv'
  <2>. SUFFICES ASSUME IInv, [Next]_vars PROVE IInv'
    OBVIOUS
  <2>1. CASE UNCHANGED vars
    BY <2>1 DEF vars, store, engine, IInv, Typed, Indexed, Below, Held
  <2>2. ASSUME NEW id \in Ids, MarkSynced(id) PROVE IInv'
    BY <2>2, MarkKeeps
  <2>3. ASSUME NEW id \in Ids, NEW v \in 0..MaxVersion, Post(id, v) PROVE IInv'
    BY <2>3, PostKeeps
  <2>4. ASSUME NEW id \in Ids, NEW s \in Senders, Publish(id, s) PROVE IInv'
    BY <2>4, PublishKeeps
  <2>5. ASSUME NEW id \in Ids, NEW s \in Senders, NEW synced \in BOOLEAN,
               NEW v \in 0..MaxVersion, NEW remote \in 1..MaxLamport,
               Receive(id, s, synced, v, remote)
        PROVE  IInv'
    BY <2>5, ReceiveKeeps
  <2>. QED BY <2>1, <2>2, <2>3, <2>4, <2>5, RebuildKeeps, GcKeeps, ReadKeeps, DestroyKeeps,
              RestartKeeps DEF Next
<1>. QED BY <1>1, <1>2, PTL DEF Spec

-----------------------------------------------------------------------------
(* The theorems.                                                            *)

\* Store, buckets and session have their types, and no message is ahead of the
\* clock (src/store.js _load seeds it).
THEOREM ReadsTyped == Spec => []TypeOK
<1>1. IInv => TypeOK
  <2>. SUFFICES ASSUME IInv PROVE TypeOK
    OBVIOUS
  <2>1. Top <= clock
    BY TopBelow
  <2>. QED BY <2>1 DEF IInv, Typed, TypeOK
<1>. QED BY <1>1, Invariance, PTL

\* A query through an index finds what a scan finds, but for ids that changed
\* since the last rebuild() (src/query.js _plan).
THEOREM QueriesMissOnlyStale == Spec => []QueryMissesOnlyStale
<1>1. IInv => QueryMissesOnlyStale
  <2>. SUFFICES ASSUME IInv, NEW filter \in Filters,
                       NEW i \in Held, \A n \in DOMAIN filter : Holds(i, filter[n]),
                       i \notin Query(filter)
                PROVE  i \in stale
    <3>1. ASSUME NEW filter \in Filters
          PROVE  Query(filter) \subseteq {i \in Held : \A n \in DOMAIN filter : Holds(i, filter[n])}
      BY DEF Query, Candidates
    <3>. QED BY <3>1 DEF QueryMissesOnlyStale
  <2>1. Indexable(filter) # {} /\ i \notin Bucket(filter[Min(Indexable(filter))])
    BY DEF Query, Candidates
  <2>. DEFINE n == Min(Indexable(filter))
              p == filter[n]
  <2>2. n \in Indexable(filter)
    <3>1. Indexable(filter) \in SUBSET Nat
      BY FiltersAssumption DEF Indexable
    <3>2. \E x \in Indexable(filter) : \A y \in Indexable(filter) : x <= y
      BY <2>1, <3>1, Least
    <3>. QED BY <3>2 DEF Min
  <2>3. n \in DOMAIN filter /\ p.op = "eq" /\ p.field \in {"type", "sender", "synced"}
    BY <2>2 DEF Indexable
  <2>4. Holds(i, p) /\ i \notin Bucket(p)
    BY <2>1, <2>3
  <2>5. i \in stale \/ (i \in bySender[messages[i].sender] /\ i \in bySynced[messages[i].synced])
    BY DEF IInv, Indexed
  <2>6. /\ p.field = "sender" => p.value \in Senders
        /\ p.field = "synced" => p.value \in BOOLEAN
    BY <2>3, FiltersAssumption
  <2>. HIDE DEF n, p
  <2>7. CASE p.field = "type"
    BY <2>3, <2>4, <2>7 DEF Holds, Bucket
  <2>8. CASE p.field = "sender"
    BY <2>3, <2>4, <2>5, <2>8 DEF Holds, Bucket
  <2>9. CASE p.field = "synced"
    BY <2>3, <2>4, <2>5, <2>9 DEF Holds, Bucket
  <2>. QED BY <2>3, <2>7, <2>8, <2>9
<1>. QED BY <1>1, Invariance, PTL

\* A step that adds messages ahead of the session keeps it monotonic.
LEMMA GrowthIsMonotonic ==
    ASSUME IInv, IInv', NEW id, Held' = Held \cup {id}, session' = session, Monotonic,
           id \notin Held => messages'[id].lamport >= clock,
           \A i \in Held : messages'[i].lamport = messages[i].lamport
    PROVE  Monotonic'
<1>1. Top' = TopOf(messages') /\ Top = TopOf(messages) /\ Held = DOMAIN messages
      /\ Held' = DOMAIN messages'
  BY DEF Top, TopOf, Held
<1>2. messages \in [Held -> Message] /\ messages' \in [Held' -> Message]
      /\ session.highWatermark <= clock /\ session.highWatermark \in 0..MaxLamport
      /\ clock \in 0..MaxLamport
  BY DEF IInv, Typed, Below
<1>3. Top' \in 0..MaxLamport /\ \A i \in Held' : messages'[i].lamport <= Top'
  BY <1>1, <1>2, TopFacts
<1>4. \A i \in Held' : messages'[i].lamport \in Nat
  BY <1>2, Fields
<1>5. CASE id \notin Held
  <2>1. Top' >= session.highWatermark
    BY <1>2, <1>3, <1>4, <1>5, Bounds
  <2>. QED BY <2>1 DEF Monotonic
<1>6. CASE id \in Held
  <2>1. Held # {} /\ Top >= session.highWatermark
    BY <1>6 DEF Monotonic
  <2>2. PICK i \in Held : messages[i].lamport = Top
    BY <1>1, <1>2, <2>1, TopFacts
  <2>3. Top' >= Top
    BY <1>3, <2>2
  <2>4. Top \in 0..MaxLamport
    BY <1>1, <1>2, TopFacts
  <2>5. Top' >= session.highWatermark
    BY <1>2, <1>3, <2>1, <2>3, <2>4, Bounds
  <2>. QED BY <2>5 DEF Monotonic
<1>. QED BY <1>5, <1>6

\* A write of the client keeps the session monotonic, unless its id is known.
LEMMA WriteIsMonotonic ==
    ASSUME IInv, NEW id \in Ids, NEW m \in Message, m.lamport > clock, Save(id, m),
           NEW l \in 1..MaxLamport, l <= m.lamport, registerWrite(id, l), id \notin Held
    PROVE  Monotonic'
<1>1. messages' \in [Held' -> Message] /\ id \in Held' /\ messages'[id] = m
  BY SaveFacts
<1>2. Top' \in 0..MaxLamport /\ m.lamport <= Top'
  <2>1. Top' = TopOf(messages') /\ Held' = DOMAIN messages'
    BY DEF Top, TopOf, Held
  <2>. QED BY <1>1, <2>1, TopFacts
<1>3. session.highWatermark \in Nat /\ session.highWatermark <= clock /\ clock \in Nat
  BY Bounds DEF IInv, Typed, Below
<1>4. session'.highWatermark = Larger(session.highWatermark, l)
  BY DEF registerWrite
<1>5. Top' >= session'.highWatermark
  BY <1>2, <1>3, <1>4, Fields, Bounds DEF Larger
<1>. QED BY <1>5 DEF Monotonic

\* Trimming spares the newest message.
LEMMA NewestStays ==
    ASSUME IInv, NEW i \in Held, messages[i].lamport = Top, i \in Discarded
    PROVE  i \in Superseded
<1>1. SUFFICES ASSUME i \in TrimmedFrom(Held \ Superseded) PROVE FALSE
  BY DEF Discarded
<1>. DEFINE N == {j \in (Held \ Superseded) \ CrdtIds : Newer(j, i)}
<1>2. N = {}
  <2>1. Top = TopOf(messages) /\ Held = DOMAIN messages
    BY DEF Top, TopOf, Held
  <2>2. messages \in [Held -> Message]
    BY DEF IInv, Typed
  <2>3. ASSUME NEW j \in Held, Newer(j, i) PROVE FALSE
    <3>1. messages[j].lamport <= Top /\ Top \in 0..MaxLamport
      BY <2>1, <2>2, TopFacts
    <3>2. messages[j].lamport \in Nat
      BY <2>2, Fields
    <3>. QED BY <2>3, <3>1, <3>2, Bounds DEF Newer
  <2>. QED BY <2>3
<1>3. Cardinality(N) >= MaxCount
  BY <1>1 DEF TrimmedFrom
<1>4. Cardinality(N) = 0
  BY <1>2, FS_EmptySet
<1>. QED BY <1>3, <1>4, ReadsAssumption

\* A session is set back only by an event published again under its id or by the
\* compaction of the newest message as an old version (src/consistency.js
\* checkRead, src/compaction.js compact and trim).
THEOREM SupersededRegress == Spec => OnlySupersededRegress
<1>. DEFINE Excuse ==
         \/ /\ session'.highWatermark > session.highWatermark
            /\ BusIds \cap Held \cap session'.writes # {}
         \/ \E i \in Superseded \ DOMAIN messages' : messages[i].lamport = Top
<1>1. IInv /\ [Next]_vars => [Monotonic /\ ~Monotonic' => Excuse]_vars
  <2>. SUFFICES ASSUME IInv, Next, Monotonic PROVE Monotonic' \/ Excuse
    OBVIOUS
  <2>0. /\ clock \in 0..MaxLamport /\ clock \in Nat
        /\ session.highWatermark \in 0..MaxLamport /\ session.highWatermark <= clock
    BY Bounds DEF IInv, Typed, Below
  <2>1. ASSUME messages' = messages, session' = session PROVE Monotonic'
    BY <2>1 DEF Monotonic, Top, Held
  <2>2. ASSUME NEW id \in Ids, MarkSynced(id) PROVE Monotonic'
    <3>1. IInv' /\ Held' = Held /\ \A i \in Held : messages'[i].lamport = messages[i].lamport
      BY <2>2, MarkKeeps
    <3>2. id \in Held /\ session' = session
      BY <2>2 DEF MarkSynced
    <3>3. Held' = Held \cup {id}
      BY <3>1, <3>2
    <3>. QED BY <3>1, <3>2, <3>3, GrowthIsMonotonic
  <2>3. ASSUME NEW id \in Ids, NEW v \in 0..MaxVersion, Post(id, v) PROVE Monotonic'
    <3>. DEFINE m == [sender |-> Author[id], synced |-> FALSE, lamport |-> clock + 1,
                      version |-> v]
    <3>1. clock + 1 <= MaxLamport /\ id \notin Held
      BY <2>3 DEF Post, IInv, Typed
    <3>2. m \in Message /\ m.lamport > clock /\ m.lamport \in 1..MaxLamport
      BY <2>0, <3>1, ReadsAssumption, Bounds DEF Message
    <3>3. Save(id, m) /\ registerWrite(id, m.lamport)
      BY <2>3 DEF Post
    <3>. HIDE DEF m
    <3>. QED BY <3>1, <3>2, <3>3, Bounds, WriteIsMonotonic
  <2>4. ASSUME NEW id \in Ids, NEW s \in Senders, Publish(id, s) PROVE Monotonic' \/ Excuse
    <3>. DEFINE m == [sender |-> s, synced |-> FALSE, lamport |-> clock + 2,
                      version |-> clock + 1]
    <3>1. clock + 2 <= MaxLamport /\ id \in BusIds
      BY <2>4 DEF Publish
    <3>2. m \in Message /\ m.lamport > clock /\ m.version \in 1..MaxLamport
          /\ m.version <= m.lamport /\ m.version = clock + 1
      BY <2>0, <3>1, Bounds DEF Message
    <3>3. Save(id, m) /\ registerWrite(id, m.version)
      BY <2>4 DEF Publish
    <3>. HIDE DEF m
    <3>4. CASE id \notin Held
      BY <3>2, <3>3, <3>4, WriteIsMonotonic
    <3>5. CASE id \in Held
      <4>1. session' = [highWatermark |-> Larger(session.highWatermark, m.version),
                        writes |-> session.writes \cup {id}]
        BY <3>3 DEF registerWrite
      <4>2. session'.highWatermark > session.highWatermark /\ id \in session'.writes
        BY <2>0, <3>2, <4>1, Bounds DEF Larger
      <4>. QED BY <3>1, <3>5, <4>2
    <3>. QED BY <3>4, <3>5
  <2>5. ASSUME NEW id \in Ids, NEW s \in Senders, NEW synced \in BOOLEAN,
               NEW v \in 0..MaxVersion, NEW remote \in 1..MaxLamport,
               Receive(id, s, synced, v, remote)
        PROVE  Monotonic'
    <3>1. /\ IInv' /\ clock' > clock /\ Held' = Held \cup {id} /\ session' = session
          /\ id \notin Held => messages'[id].lamport = clock'
          /\ \A i \in Held : messages'[i] = messages[i]
      BY <2>5, ReceiveKeeps
    <3>2. clock' \in Nat
      BY <3>1, Bounds DEF IInv, Typed
    <3>3. id \notin Held => messages'[id].lamport >= clock
      BY <2>0, <3>1, <3>2
    <3>. QED BY <3>1, <3>3, GrowthIsMonotonic
  <2>6. ASSUME Gc PROVE Monotonic' \/ Excuse
    <3>1. IInv' /\ Held' = Held \ Discarded /\ \A i \in Held' : messages'[i] = messages[i]
      BY <2>6, GcKeeps
    <3>2. session' = session /\ Held' = DOMAIN messages'
      BY <2>6 DEF Gc, Held
    <3>3. CASE Held = {}
      <4>1. Held' = {}
        BY <3>1, <3>3
      <4>. QED BY <4>1 DEF Monotonic
    <3>4. CASE Held # {}
      <4>1. Top' = TopOf(messages') /\ Top = TopOf(messages) /\ Held = DOMAIN messages
        BY DEF Top, TopOf, Held
      <4>2. messages \in [Held -> Message] /\ messages' \in [Held' -> Message]
        BY <3>1 DEF IInv, Typed
      <4>3. PICK i \in Held : messages[i].lamport = Top
        BY <3>4, <4>1, <4>2, TopFacts
      <4>4. CASE i \in Discarded
        <5>1. i \in Superseded
          BY <4>3, <4>4, NewestStays
        <5>. QED BY <3>1, <3>2, <4>3, <4>4, <5>1
      <4>5. CASE i \notin Discarded
        <5>1. i \in Held' /\ messages'[i].lamport = Top
          BY <3>1, <4>3, <4>5
        <5>2. Top' >= Top
          BY <3>2, <4>1, <4>2, <5>1, TopFacts
        <5>3. Top >= session.highWatermark
          BY <3>4 DEF Monotonic
        <5>4. Top \in Nat /\ Top' \in Nat
          BY <3>2, <4>1, <4>2, TopFacts, Bounds
        <5>5. Top' >= session'.highWatermark
          BY <2>0, <3>2, <5>2, <5>3, <5>4
        <5>. QED BY <5>5 DEF Monotonic
      <4>. QED BY <4>4, <4>5
    <3>. QED BY <3>3, <3>4
  <2>7. Top \in 0..MaxLamport
    <3>1. Top = TopOf(messages) /\ messages \in [DOMAIN messages -> Message]
      BY DEF Top, TopOf, Held, IInv, Typed
    <3>. QED BY <3>1, TopFacts
  <2>8. ASSUME Read PROVE Monotonic'
    <3>1. messages' = messages /\ session'.highWatermark = Larger(session.highWatermark, Top)
      BY <2>8 DEF Read, store, IInv, Typed
    <3>2. Top' = Top /\ Held' = Held
      BY <3>1 DEF Top, Held
    <3>3. Held = {} \/ Top >= session.highWatermark
      BY DEF Monotonic
    <3>4. Held = {} \/ Top' >= session'.highWatermark
      BY <2>0, <2>7, <3>1, <3>2, <3>3, Bounds DEF Larger
    <3>. QED BY <3>2, <3>4 DEF Monotonic
  <2>9. ASSUME destroySession \/ Restart PROVE Monotonic'
    <3>1. messages' = messages /\ session'.highWatermark = 0
      BY <2>9 DEF destroySession, Restart, store, NewSession
    <3>2. Top' = Top
      BY <3>1 DEF Top, Held
    <3>. QED BY <2>7, <3>1, <3>2 DEF Monotonic
  <2>10. ASSUME Rebuild PROVE Monotonic'
    BY <2>1, <2>10 DEF Rebuild, store
  <2>. QED BY <2>2, <2>3, <2>4, <2>5, <2>6, <2>8, <2>9, <2>10 DEF Next
<1>. QED BY <1>1, Invariance, PTL DEF Spec, OnlySupersededRegress

-----------------------------------------------------------------------------
(* What a pass discards.                                                    *)

\* The members of R with a number above that of j, and those of them that have
\* fewer than K above themselves.
Above(R, lam, j) == {k \in R : lam[k] > lam[j]}
Kept(R, lam, K, i) == {j \in Above(R, lam, i) : ~(Cardinality(Above(R, lam, j)) >= K)}

\* If K members or more are above i, K of them have fewer than K above themselves.
LEMMA KeptCount ==
    ASSUME NEW R, NEW b \in Nat, NEW lam \in [R -> 0..b],
           \A r, s \in R : lam[r] = lam[s] => r = s, NEW K \in Nat \ {0},
           NEW i \in R, Cardinality(Above(R, lam, i)) >= K
    PROVE  Cardinality(Kept(R, lam, K, i)) = K
<1>. DEFINE A == [j \in R |-> Above(R, lam, j)]
            N == [j \in R |-> Cardinality(A[j])]
            Dropped == {j \in R : N[j] >= K}
<1>1. \A j \in R : lam[j] \in Nat /\ lam[j] \in 0..b
  OBVIOUS
<1>2. \A j, k \in R : k \in A[j] <=> lam[k] > lam[j]
  BY DEF Above
<1>3. \A j \in R : A[j] \in SUBSET R /\ A[j] = Above(R, lam, j) /\ N[j] = Cardinality(A[j])
  BY DEF Above
<1>4. N[i] >= K
  BY <1>3
<1>5. IsFiniteSet(R)
  <2>1. lam \in Injection(R, 0..b)
    BY DEF Injection, IsInjective
  <2>2. IsFiniteSet(0..b)
    BY FS_Interval
  <2>. QED BY <2>1, <2>2, FS_Injection
<1>. HIDE DEF A, N
<1>6. \A j \in R : IsFiniteSet(A[j]) /\ N[j] \in Nat
  BY <1>3, <1>5, FS_Subset, FS_CardinalityType
<1>7. ASSUME NEW j \in R, NEW k \in R, lam[j] <= lam[k] PROVE N[k] <= N[j]
  <2>1. A[k] \in SUBSET A[j]
    BY <1>1, <1>2, <1>3, <1>7
  <2>. QED BY <1>3, <1>6, <2>1, FS_Subset
<1>8. PICK m \in R : N[m] >= K /\ \A j \in R : N[j] >= K => lam[j] <= lam[m]
  <2>. DEFINE T == {lam[j] : j \in Dropped}
  <2>1. T \in SUBSET (0..b) /\ T # {}
    BY <1>1, <1>4
  <2>2. Max(T) \in T /\ \A t \in T : Max(T) >= t
    <3>. HIDE DEF T
    <3>. QED BY <2>1, Greatest
  <2>3. PICK m \in Dropped : lam[m] = Max(T)
    BY <2>2
  <2>4. \A j \in Dropped : lam[j] \in T
    OBVIOUS
  <2>5. \A j \in Dropped : lam[j] <= lam[m]
    <3>. HIDE DEF T
    <3>. QED BY <1>1, <2>1, <2>2, <2>3, <2>4
  <2>. QED BY <2>3, <2>5
<1>9. lam[i] <= lam[m]
  BY <1>4, <1>8
<1>10. Kept(R, lam, K, i) = A[m]
  <2>1. ASSUME NEW j \in A[m] PROVE j \in Kept(R, lam, K, i)
    <3>1. j \in R /\ lam[j] > lam[m]
      BY <1>2, <1>3, <2>1
    <3>2. ~(N[j] >= K) /\ lam[j] > lam[i]
      BY <1>1, <1>8, <1>9, <3>1
    <3>. QED BY <1>3, <3>1, <3>2 DEF Kept, Above
  <2>2. ASSUME NEW j \in Kept(R, lam, K, i) PROVE j \in A[m]
    <3>1. j \in R /\ ~(N[j] >= K)
      BY <1>3 DEF Kept, Above
    <3>2. ~(lam[j] <= lam[m])
      BY <1>6, <1>7, <1>8, <3>1
    <3>. QED BY <1>1, <1>2, <3>1, <3>2
  <2>. QED BY <2>1, <2>2
<1>11. PICK o \in A[m] : \A k \in A[m] : lam[o] <= lam[k]
  <2>. DEFINE T == {lam[k] : k \in A[m]}
  <2>1. A[m] # {}
    <3>1. SUFFICES ASSUME A[m] = {} PROVE FALSE
      OBVIOUS
    <3>2. N[m] = 0
      BY <1>3, <3>1, FS_EmptySet
    <3>. QED BY <1>8, <3>2
  <2>2. T \in SUBSET Nat /\ T # {}
    BY <1>1, <1>3, <2>1
  <2>3. PICK t \in T : \A u \in T : t <= u
    <3>. HIDE DEF T
    <3>. QED BY <2>2, Least
  <2>. QED BY <2>3
<1>12. o \in R /\ lam[o] > lam[m]
  BY <1>2, <1>3, <1>11
<1>13. A[m] = A[o] \cup {o}
  <2>1. ASSUME NEW k \in R PROVE k \in A[m] <=> (k \in A[o] \/ k = o)
    BY <1>1, <1>2, <1>11, <1>12
  <2>. QED BY <1>3, <1>12, <2>1
<1>14. N[m] <= N[o] + 1
  <2>1. IsFiniteSet(A[o]) /\ Cardinality(A[o]) \in Nat
    BY <1>3, <1>6, <1>12
  <2>2. Cardinality(A[o] \cup {o}) <= Cardinality(A[o]) + 1
    <3>1. Cardinality(A[o] \cup {o})
             = IF o \in A[o] THEN Cardinality(A[o]) ELSE Cardinality(A[o]) + 1
      BY <2>1, FS_AddElement
    <3>2. CASE o \in A[o]
      <4>1. Cardinality(A[o] \cup {o}) = Cardinality(A[o])
        BY <3>1, <3>2
      <4>. QED BY <2>1, <4>1
    <3>3. CASE o \notin A[o]
      <4>1. Cardinality(A[o] \cup {o}) = Cardinality(A[o]) + 1
        BY <3>1, <3>3
      <4>. QED BY <2>1, <4>1
    <3>. QED BY <3>2, <3>3
  <2>. QED BY <1>3, <1>12, <1>13, <2>2
<1>15. ~(N[o] >= K)
  BY <1>1, <1>8, <1>12
<1>16. N[m] = K
  BY <1>6, <1>8, <1>12, <1>14, <1>15
<1>. QED BY <1>3, <1>10, <1>16

\* No two messages have the same Lamport value.
Distinct == \A i, j \in Held : messages[i].lamport = messages[j].lamport => i = j

LEMMA SaveDistinct ==
    ASSUME IInv, Distinct, NEW id \in Ids, NEW m \in Message, m.lamport > clock, Save(id, m)
    PROVE  Distinct'
<1>1. /\ Held' = Held \cup {id} /\ \A i \in Held : messages'[i] = messages[i]
      /\ id \notin Held => messages'[id] = m
  BY SaveFacts
<1>2. \A i \in Held : messages[i].lamport # m.lamport
  <2>1. \A i \in Held : messages[i].lamport \in Nat /\ messages[i].lamport <= clock
    BY Fields DEF IInv, Typed, Below
  <2>2. m.lamport \in Nat /\ clock \in Nat
    BY Fields, Bounds DEF IInv, Typed
  <2>. QED BY <2>1, <2>2
<1>. QED BY <1>1, <1>2 DEF Distinct

LEMMA DistinctKeeps ==
    ASSUME IInv, Distinct, [Next]_vars PROVE Distinct'
<1>1. ASSUME messages' = messages PROVE Distinct'
  BY <1>1 DEF Distinct, Held
<1>2. clock \in Nat
  BY Bounds DEF IInv, Typed
<1>3. ASSUME NEW id \in Ids, MarkSynced(id) PROVE Distinct'
  BY <1>3, MarkKeeps DEF Distinct
<1>4. ASSUME NEW id \in Ids, NEW v \in 0..MaxVersion, Post(id, v) PROVE Distinct'
  <2>. DEFINE m == [sender |-> Author[id], synced |-> FALSE, lamport |-> clock + 1,
                    version |-> v]
  <2>1. clock + 1 <= MaxLamport /\ Save(id, m)
    BY <1>4 DEF Post
  <2>2. m \in Message /\ m.lamport > clock
    BY <1>2, <2>1, ReadsAssumption, Bounds DEF Message
  <2>. HIDE DEF m
  <2>. QED BY <2>1, <2>2, SaveDistinct
<1>5. ASSUME NEW id \in Ids, NEW s \in Senders, Publish(id, s) PROVE Distinct'
  <2>. DEFINE m == [sender |-> s, synced |-> FALSE, lamport |-> clock + 2,
                    version |-> clock + 1]
  <2>1. clock + 2 <= MaxLamport /\ Save(id, m)
    BY <1>5 DEF Publish
  <2>2. m \in Message /\ m.lamport > clock
    BY <1>2, <2>1, Bounds DEF Message
  <2>. HIDE DEF m
  <2>. QED BY <2>1, <2>2, SaveDistinct
<1>6. ASSUME NEW id \in Ids, NEW s \in Senders, NEW synced \in BOOLEAN,
             NEW v \in 0..MaxVersion, NEW remote \in 1..MaxLamport,
             Receive(id, s, synced, v, remote)
      PROVE  Distinct'
  <2>. DEFINE m == [sender |-> s, synced |-> synced, lamport |-> Larger(clock, remote) + 1,
                    version |-> v]
  <2>1. Larger(clock, remote) + 1 <= MaxLamport /\ Save(id, m)
    BY <1>6 DEF Receive
  <2>2. m \in Message /\ m.lamport > clock
    BY <1>2, <2>1, Bounds DEF Message, Larger
  <2>. HIDE DEF m
  <2>. QED BY <2>1, <2>2, SaveDistinct
<1>7. ASSUME Gc PROVE Distinct'
  BY <1>7, GcKeeps DEF Distinct
<1>. QED BY <1>1, <1>3, <1>4, <1>5, <1>6, <1>7
      DEF Next, vars, store, Rebuild, Read, destroySession, Restart

LEMMA DistinctAlways == Spec => []Distinct
<1>1. Init => Distinct
  BY DEF Init, Distinct, Held
<1>. QED BY <1>1, DistinctKeeps, Invariance, PTL DEF Spec

\* A pass keeps exactly MaxCount regular messages newer than any it trims.
LEMMA TrimKeepsNewest ==
    ASSUME IInv, Distinct, Gc, NEW i \in Held \ DOMAIN messages', i \notin Superseded
    PROVE  /\ i \notin CrdtIds
           /\ Cardinality({j \in DOMAIN messages' \ CrdtIds : Newer(j, i)}) = MaxCount
<1>. DEFINE R == (Held \ Superseded) \ CrdtIds
            lam == [j \in R |-> messages[j].lamport]
<1>1. DOMAIN messages' = Held \ Discarded
  BY DEF Gc
<1>2. i \in TrimmedFrom(Held \ Superseded)
  BY <1>1 DEF Discarded
<1>3. \A j \in R : {k \in R : Newer(k, j)} = Above(R, lam, j)
  BY DEF Newer, Above
<1>4. i \in R /\ Cardinality(Above(R, lam, i)) >= MaxCount
  BY <1>2, <1>3 DEF TrimmedFrom
<1>5. lam \in [R -> 0..MaxLamport] /\ \A j, k \in R : lam[j] = lam[k] => j = k
  <2>1. \A j \in R : messages[j].lamport \in 0..MaxLamport
    BY Fields, Bounds DEF IInv, Typed
  <2>. QED BY <2>1 DEF Distinct
<1>6. Cardinality(Kept(R, lam, MaxCount, i)) = MaxCount
  <2>1. MaxLamport \in Nat /\ MaxCount \in Nat \ {0}
    BY ReadsAssumption
  <2>. HIDE DEF R, lam
  <2>. QED BY <1>4, <1>5, <2>1, KeptCount
<1>7. {j \in DOMAIN messages' \ CrdtIds : Newer(j, i)} = Kept(R, lam, MaxCount, i)
  <2>1. DOMAIN messages' \ CrdtIds = R \ TrimmedFrom(Held \ Superseded)
    BY <1>1 DEF Discarded
  <2>2. TrimmedFrom(Held \ Superseded)
          = {j \in R : Cardinality(Above(R, lam, j)) >= MaxCount}
    BY <1>3 DEF TrimmedFrom
  <2>3. \A j \in R : Newer(j, i) <=> j \in Above(R, lam, i)
    BY <1>3, <1>4
  <2>4. Above(R, lam, i) \subseteq R
    BY DEF Above
  <2>. HIDE DEF R, lam
  <2>. QED BY <2>1, <2>2, <2>3, <2>4 DEF Kept
<1>. QED BY <1>4, <1>6, <1>7

\* Compaction drops no CRDT message, and a regular one only as the old version of a
\* document or below MaxCount that stay (src/compaction.js compact and trim).
THEOREM PassesKeepNewest == Spec => GcKeepsNewest
<1>. DEFINE Fair(i) ==
         /\ i \notin CrdtIds
         /\ \/ i \in Superseded
            \/ Cardinality({j \in DOMAIN messages' \ CrdtIds : Newer(j, i)}) = MaxCount
<1>1. IInv /\ Distinct /\ [Next]_vars => [\A i \in Held \ DOMAIN messages' : Fair(i)]_vars
  <2>. SUFFICES ASSUME IInv, Distinct, Next, NEW i \in Held \ DOMAIN messages' PROVE Fair(i)
    OBVIOUS
  <2>1. CASE Gc
    <3>1. CASE i \in Superseded
      <4>1. i \notin CrdtIds
        BY <3>1, ReadsAssumption DEF Superseded
      <4>. QED BY <3>1, <4>1
    <3>2. CASE i \notin Superseded
      BY <2>1, <3>2, TrimKeepsNewest
    <3>. QED BY <3>1, <3>2
  <2>2. ASSUME Held \subseteq DOMAIN messages' PROVE FALSE
    BY <2>2
  <2>3. ASSUME NEW id \in Ids, NEW m, Save(id, m) PROVE FALSE
    BY <2>2, <2>3 DEF Save, Held
  <2>4. ASSUME NEW id \in Ids, MarkSynced(id) PROVE FALSE
    BY <2>2, <2>4 DEF MarkSynced, Held
  <2>. QED BY <2>1, <2>2, <2>3, <2>4
        DEF Next, Post, Publish, Receive, Rebuild, Read, destroySession, Restart, store, Held
<1>. QED BY <1>1, Invariance, DistinctAlways, PTL DEF Spec, GcKeepsNewest
=============================================================================
