------------------------- MODULE MessageStoreProofs -------------------------
(***************************************************************************)
(* For every number of slots, every set of messages and every rating       *)
(* policy, the decoding side follows the encoding side slot by slot and    *)
(* the pair of message stores implements the lossless link.                *)
(***************************************************************************)
EXTENDS MessageStore, SequenceTheorems, FiniteSetTheorems, TLAPS

(* The slot search stays inside the array, whichever way it ends. *)
LEMMA PositionType == TypeOK => Position \in Slots
<1> SUFFICES ASSUME TypeOK
             PROVE  Position \in Slots
    OBVIOUS
<1> USE SlotsAssumption, HitsAssumption
<1>1. After(lastAdded) \in Slots
    BY DEF TypeOK, After, Slots
<1>2. Cardinality(Passed) \in Nat
  <2>1. IsFiniteSet(Visits)
    <3>1. cacheSlots - 2 \in Int /\ cacheSlots * (StoreHitsLimit + 1) - 1 \in Int
        OBVIOUS
    <3>2. QED BY <3>1, FS_Interval DEF Visits
  <2>2. Passed \subseteq Visits
      BY DEF Passed
  <2>3. QED BY <2>1, <2>2, FS_Subset, FS_CardinalityType
<1>3. Visit(Cardinality(Passed)) \in Slots
    BY <1>1, <1>2 DEF Visit, Slots
<1>4. lastRated # nothing => lastRated \in Slots
    BY DEF TypeOK
<1>5. QED BY <1>1, <1>3, <1>4 DEF Position

(* Ratings stay within the limit. *)
LEMMA UntouchedType ==
    ASSUME NEW h \in 0 .. StoreHitsLimit, NEW n \in Nat
    PROVE  Untouched(h, n) \in 0 .. StoreHitsLimit
<1>1. n * StoreHitsUntouch \in Nat
    BY HitsAssumption
<1>2. QED BY <1>1, HitsAssumption DEF Untouched

(* A hit does not lift a rating over the limit. *)
LEMMA TouchedType ==
    ASSUME NEW h \in 0 .. StoreHitsLimit
    PROVE  Touched(h) \in 0 .. StoreHitsLimit
BY HitsAssumption DEF Touched

(* Nor does the search that wears the ratings down leave their domain. *)
LEMMA WornType == TypeOK => Worn \in [Slots -> 0 .. StoreHitsLimit]
<1> SUFFICES ASSUME TypeOK
             PROVE  Worn \in [Slots -> 0 .. StoreHitsLimit]
    OBVIOUS
<1>1. IsFiniteSet(Visits)
  <2>1. cacheSlots - 2 \in Int /\ cacheSlots * (StoreHitsLimit + 1) - 1 \in Int
      BY SlotsAssumption, HitsAssumption
  <2>2. QED BY <2>1, FS_Interval DEF Visits
<1>2. ASSUME NEW p \in Slots
      PROVE  Cardinality({v \in Passed : Visit(v) = p}) \in Nat
  <2>1. {v \in Passed : Visit(v) = p} \subseteq Visits
      BY DEF Passed
  <2>2. QED BY <1>1, <2>1, FS_Subset, FS_CardinalityType
<1>3. ASSUME NEW p \in Slots
      PROVE  Untouched(hits[p], Cardinality({v \in Passed : Visit(v) = p}))
                 \in 0 .. StoreHitsLimit
    BY <1>2, UntouchedType DEF TypeOK
<1>4. QED BY <1>3 DEF Worn, TypeOK

(* The search of clean() stays inside the array and the ratings in their domain. *)
LEMMA CleanType ==
    ASSUME TypeOK, NEW aged
    PROVE  /\ CleanPosition(aged) \in Slots \cup {nothing}
           /\ CleanWorn(aged) \in [Slots -> 0 .. StoreHitsLimit]
<1>1. After(lastRemoved) \in Slots
    BY SlotsAssumption DEF TypeOK, After, Slots
<1>2. Cardinality(CleanPassed(aged)) \in Nat
  <2>1. IsFiniteSet(0 .. cacheSlots - 2)
      BY SlotsAssumption, FS_Interval
  <2>2. CleanPassed(aged) \subseteq 0 .. cacheSlots - 2
      BY DEF CleanPassed
  <2>3. QED BY <2>1, <2>2, FS_Subset, FS_CardinalityType
<1>3. CleanVisit(Cardinality(CleanPassed(aged))) \in Slots
    BY <1>1, <1>2, SlotsAssumption DEF CleanVisit, Slots
<1>4. \A p \in Slots : Untouched(hits[p], 1) \in 0 .. StoreHitsLimit
    BY UntouchedType DEF TypeOK
<1>5. CleanPosition(aged) \in Slots \cup {nothing}
    BY <1>1, <1>3 DEF CleanPosition
<1>6. QED BY <1>4, <1>5 DEF CleanWorn, TypeOK

(* A variant field survives being sent as a difference modulo its width. *)
LEMMA DifferenceType ==
    ASSUME NEW a \in Variant, NEW b \in Variant
    PROVE  /\ (b - a) % Width \in Variant
           /\ (a + b) % Width \in Variant
           /\ (a + ((b - a) % Width)) % Width = b
<1> USE SlotsAssumption DEF Variant
<1>1. (b - a) % Width \in Variant /\ (a + b) % Width \in Variant
    OBVIOUS
<1>2. CASE b >= a
  <2>1. (b - a) % Width = b - a
      BY <1>2
  <2>2. QED BY <1>1, <2>1
<1>3. CASE b < a
  <2>1. (b - a) % Width = (b - a) + Width
      BY <1>3
  <2>2. (a + ((b - a) + Width)) % Width = b
      BY <1>3
  <2>3. QED BY <1>1, <2>1, <2>2
<1>4. QED BY <1>2, <1>3

(* A search that stops early stops right after the visits it passed. *)
LEMMA InitialSegment ==
    ASSUME NEW n \in Int, NEW P, P \subseteq 0 .. n, P # 0 .. n,
           \A v \in P : \A u \in 0 .. v : u \in P
    PROVE  /\ Cardinality(P) \in 0 .. n
           /\ Cardinality(P) \notin P
           /\ \A w \in 0 .. Cardinality(P) - 1 : w \in P
<1>1. IsFiniteSet(0 .. n) /\ Cardinality(0 .. n) = IF 0 > n THEN 0 ELSE n + 1
    BY FS_Interval
<1>2. /\ IsFiniteSet(P)
      /\ Cardinality(P) <= Cardinality(0 .. n)
      /\ Cardinality(P) # Cardinality(0 .. n)
    BY <1>1, FS_Subset
<1>3. Cardinality(P) \in Nat
    BY <1>2, FS_CardinalityType
<1>4. Cardinality(P) \in 0 .. n
    BY <1>1, <1>2, <1>3
<1>5. Cardinality(P) \notin P
  <2> SUFFICES ASSUME Cardinality(P) \in P
               PROVE  FALSE
      OBVIOUS
  <2>1. 0 .. Cardinality(P) \subseteq P
      OBVIOUS
  <2>2. Cardinality(0 .. Cardinality(P)) = Cardinality(P) + 1
      BY <1>3, FS_Interval
  <2>3. Cardinality(0 .. Cardinality(P)) <= Cardinality(P)
      BY <1>2, <2>1, FS_Subset
  <2>4. QED BY <1>3, <2>2, <2>3
<1>6. ASSUME NEW w \in 0 .. Cardinality(P) - 1, w \notin P
      PROVE  FALSE
  <2>1. P \subseteq 0 .. w - 1
      BY <1>6
  <2>2. w \in Nat /\ w - 1 \in Int
      BY <1>3
  <2>3. /\ IsFiniteSet(0 .. w - 1)
        /\ Cardinality(0 .. w - 1) = IF 0 > w - 1 THEN 0 ELSE w - 1 - 0 + 1
      BY <2>2, FS_Interval
  <2>5. Cardinality(P) <= Cardinality(0 .. w - 1)
      BY <2>1, <2>3, FS_Subset
  <2>6. Cardinality(P) <= w
      BY <2>2, <2>3, <2>5
  <2>7. QED BY <1>3, <2>6
<1>7. QED BY <1>4, <1>5, <1>6

(* The clean loop never proposes an empty slot or a locked message. *)
LEMMA CleanFound ==
    ASSUME TypeOK, NEW aged, CleanPosition(aged) # nothing
    PROVE  messages[CleanPosition(aged)] # Null /\ ~Locked(CleanPosition(aged))
<1> DEFINE P == CleanPassed(aged)
           c == Cardinality(P)
<1>1. CASE P # 0 .. cacheSlots - 2
  <2>1. P \subseteq 0 .. cacheSlots - 2 /\ \A v \in P : \A u \in 0 .. v : u \in P
      BY SlotsAssumption DEF CleanPassed
  <2>2. c \in 0 .. cacheSlots - 2 /\ c \notin P /\ \A w \in 0 .. c - 1 : w \in P
      BY <1>1, <2>1, SlotsAssumption, InitialSegment
  <2> DEFINE Goes(u) == \/ messages[CleanVisit(u)] = Null
                        \/ ~Cleanable(CleanVisit(u), aged)
  <2>3. PICK u \in 0 .. c : ~Goes(u)
      BY <2>2 DEF CleanPassed
  <2>4. \A v \in P : Goes(v)
      BY SlotsAssumption DEF CleanPassed
  <2> HIDE DEF P
  <2>5. u = c
      BY <2>2, <2>3, <2>4
  <2>6. messages[CleanVisit(c)] # Null /\ Cleanable(CleanVisit(c), aged)
      BY <2>3, <2>5
  <2>7. CleanPosition(aged) = CleanVisit(c)
      BY <1>1 DEF CleanPosition, P
  <2>8. QED BY <2>6, <2>7 DEF Cleanable
<1>2. CASE P = 0 .. cacheSlots - 2
    BY <1>2 DEF CleanPosition
<1>3. QED BY <1>1, <1>2

-----------------------------------------------------------------------------
(* The inductive invariant *)

(* What decoding an item writes to the X connection, given the store. *)
Yield(store, i) ==
    CASE i.action = "removed" -> Null
      [] i.action = "hit" -> [key |-> store[i.position].key,
                              var |-> (store[i.position].var + i.var) % Width]
      [] i.action = "added" -> IF i.split THEN Null
                               ELSE [key |-> i.key, var |-> i.var]
      [] i.action = "discarded" -> [key |-> i.key, var |-> i.var]
      [] i.action = "commit" -> [key |-> store[i.position].key,
                                 var |-> store[i.position].var]

Record == [sent : XMessage \cup {Null}, view : Content]

(* An item does to the store it will meet what its history says. *)
Sound(store, i, h) ==
    /\ Accepts(store, i)
    /\ Applied(store, i) = h.view
    /\ Yield(store, i) = h.sent
    /\ i.action = "hit" => store[i.position].locks = 0
    /\ i.action = "commit" => store[i.position].locks = 1
    /\ i.action = "added" => i.key \in Key

Chain ==
    /\ Len(history) = Len(wire)
    /\ \A i \in 1 .. Len(wire) : Sound(Before(i), wire[i], history[i])
    /\ messages = Before(Len(wire) + 1)

(* The data of an unlocked message is there. *)
WholeUnlessLocked ==
    \A p \in Slots : decMessages[p] # Null /\ decMessages[p].locks = 0 => p \in whole

Inv == TypeOK /\ ChecksumsExact /\ Chain /\ ParkedIsStored /\ WholeUnlessLocked

(* The form of every step of the encoding side that writes on the link. *)
Sends(i, h) ==
    /\ i \in Item /\ h \in Record
    /\ wire' = Append(wire, i) /\ history' = Append(history, h)
    /\ h.view = messages'
    /\ Sound(messages, i, h)
    /\ UNCHANGED decVars

(* Appending a sound item extends the chain. *)
LEMMA SendChain ==
    ASSUME TypeOK, Chain, NEW i, NEW h, Sends(i, h)
    PROVE  Chain'
<1> DEFINE n == Len(wire)
<1>1. /\ wire \in Seq(Item) /\ history \in Seq(Record)
      /\ n \in Nat /\ Len(history) = n
      /\ i \in Item /\ h \in Record
    BY DEF TypeOK, Chain, Sends, Record
<1>2. /\ wire' \in Seq(Item) /\ Len(wire') = n + 1
      /\ wire'[n + 1] = i /\ \A j \in 1 .. n : wire'[j] = wire[j]
    BY <1>1, AppendProperties DEF Sends
<1>3. /\ history' \in Seq(Record) /\ Len(history') = n + 1
      /\ history'[n + 1] = h /\ \A j \in 1 .. n : history'[j] = history[j]
    BY <1>1, AppendProperties DEF Sends
<1>4. decMessages' = decMessages
    BY DEF Sends, decVars
<1>5. \A j \in 1 .. n + 1 : Before(j)' = Before(j)
    BY <1>1, <1>3, <1>4 DEF Before
<1>6. \A j \in 1 .. n : Sound(Before(j)', wire'[j], history'[j])
    BY <1>1, <1>2, <1>3, <1>5 DEF Chain
<1>7. \A j \in Nat : j = n + 1 => Sound(Before(j)', wire'[j], history'[j])
  <2>1. messages = Before(n + 1) /\ Sound(messages, i, h)
      BY DEF Chain, Sends
  <2>2. \A j \in Nat : j = n + 1 => Before(j)' = messages
      BY <1>1, <1>5, <2>1
  <2>3. QED BY <1>2, <1>3, <2>1, <2>2
<1>8. \A j \in Nat : j = n + 2 => messages' = Before(j)'
    BY <1>1, <1>3 DEF Before, Sends
<1>9. \A j \in 1 .. Len(wire') : Sound(Before(j)', wire'[j], history'[j])
    BY <1>1, <1>2, <1>6, <1>7
<1>10. \A j \in Nat : j = Len(wire') + 1 => messages' = Before(j)'
    BY <1>1, <1>2, <1>8
<1>11. QED BY <1>1, <1>2, <1>3, <1>9, <1>10 DEF Chain

(* Decoding the first item shortens it. *)
LEMMA ReadChain ==
    ASSUME TypeOK, Chain, wire # << >>,
           wire' = Tail(wire), history' = Tail(history),
           decMessages' = Applied(decMessages, Head(wire)), messages' = messages
    PROVE  Chain'
<1> DEFINE n == Len(wire)
<1>1. /\ wire \in Seq(Item) /\ history \in Seq(Record)
      /\ n \in Nat \ {0} /\ Len(history) = n
    BY EmptySeq DEF TypeOK, Chain, Record
<1>2. /\ wire' \in Seq(Item) /\ Len(wire') = n - 1
      /\ \A j \in 1 .. n - 1 : wire'[j] = wire[j + 1]
    BY <1>1, HeadTailProperties
<1>3. /\ history' \in Seq(Record) /\ Len(history') = n - 1
      /\ \A j \in 1 .. n - 1 : history'[j] = history[j + 1]
    BY <1>1, HeadTailProperties, EmptySeq
<1>4. decMessages' = history[1].view
  <2>1. Sound(Before(1), wire[1], history[1]) /\ Head(wire) = wire[1]
      BY <1>1 DEF Chain
  <2>2. QED BY <2>1 DEF Sound, Before
<1>5. \A j \in 1 .. n : Before(j)' = Before(j + 1)
    BY <1>1, <1>3, <1>4 DEF Before
<1>6. \A j \in 1 .. n - 1 : Sound(Before(j + 1), wire[j + 1], history[j + 1])
    BY <1>1 DEF Chain
<1>7. \A j \in 1 .. n - 1 : Sound(Before(j)', wire'[j], history'[j])
    BY <1>1, <1>2, <1>3, <1>5, <1>6
<1>8. \A j \in Nat : j = n => messages' = Before(j)'
    BY <1>1, <1>5 DEF Chain
<1>9. QED BY <1>1, <1>2, <1>3, <1>7, <1>8 DEF Chain

-----------------------------------------------------------------------------
(* Steps of the encoding side *)

(* An item that writes leaves the encoding side with a store of the right
   type, and describes exactly what happened to that store. *)
LEMMA CleanSends ==
    ASSUME TypeOK, NEW aged, Clean(aged)
    PROVE  \E i, h : Sends(i, h)
<1> DEFINE p == CleanPosition(aged)
           i == [action |-> "removed", position |-> p, key |-> Null,
                 var |-> 0, split |-> FALSE]
           h == [sent |-> Null, view |-> messages']
<1>1. p \in Slots /\ messages[p] # Null
    BY CleanType, CleanFound DEF Clean
<1>2. messages' = [messages EXCEPT ![p] = Null] /\ messages' \in Content
    BY <1>1 DEF Clean, TypeOK, Content
<1>3. i \in Item /\ h \in Record
    BY <1>1, <1>2, SlotsAssumption DEF Item, Record, Actions, Variant
<1>4. wire' = Append(wire, i) /\ history' = Append(history, h)
          /\ UNCHANGED decVars
    BY DEF Clean, Write
<1>5. Sound(messages, i, h)
    BY <1>1, <1>2 DEF Sound, Accepts, Applied, Yield
<1>6. Sends(i, h)
    BY <1>3, <1>4, <1>5 DEF Sends
<1>7. QED BY <1>6

(* A message that is not cached leaves the store as it is. *)
LEMMA DiscardSends ==
    ASSUME TypeOK, NEW m \in XMessage, Discard(m), messages' = messages,
           UNCHANGED decVars
    PROVE  \E i, h : Sends(i, h)
<1> DEFINE i == [action |-> "discarded", position |-> 0, key |-> m.key,
                 var |-> m.var, split |-> FALSE]
           h == [sent |-> m, view |-> messages']
<1>1. i \in Item /\ h \in Record
    BY SlotsAssumption DEF Item, Record, Actions, XMessage, TypeOK, Slots
<1>2. wire' = Append(wire, i) /\ history' = Append(history, h)
    BY DEF Discard, Write
<1>3. m = [key |-> m.key, var |-> m.var]
    BY DEF XMessage
<1>4. Sound(messages, i, h)
    BY <1>3 DEF Sound, Accepts, Applied, Yield
<1>5. Sends(i, h)
    BY <1>1, <1>2, <1>4 DEF Sends
<1>6. QED BY <1>5

(* A hit: the difference takes the old variant fields to the new ones. *)
LEMMA HitSends ==
    ASSUME TypeOK, ChecksumsExact, NEW m \in XMessage, FindHit(m)
    PROVE  (\E i, h : Sends(i, h)) /\ messages' \in Content
<1> DEFINE q == checksums[m.key]
           d == (m.var - messages[q].var) % Width
           i == [action |-> "hit", position |-> q, key |-> Null,
                 var |-> d, split |-> FALSE]
           h == [sent |-> m, view |-> messages']
<1>1. /\ q \in Slots /\ messages[q] \in Message /\ messages[q].key = m.key
      /\ messages[q] # Null
    BY DEF FindHit, TypeOK, ChecksumsExact, Content
<1>2. messages[q].locks = 0
    BY <1>1 DEF FindHit, Locked, Message
<1>3. messages' = [messages EXCEPT ![q].var = m.var] /\ messages' \in Content
    BY <1>1 DEF FindHit, TypeOK, Content, Message, XMessage
<1>4. m.var \in Variant /\ messages[q].var \in Variant
    BY <1>1 DEF XMessage, Message
<1>5. d \in Variant /\ (messages[q].var + d) % Width = m.var
    BY <1>4, DifferenceType
<1>6. i \in Item /\ h \in Record
    BY <1>1, <1>3, <1>5 DEF Item, Record, Actions
<1>7. wire' = Append(wire, i) /\ history' = Append(history, h)
          /\ UNCHANGED decVars
    BY DEF FindHit, Write
<1>8. Accepts(messages, i)
    BY <1>1 DEF Accepts
<1>9. Applied(messages, i) = messages'
  <2>1. Applied(messages, i)
            = [messages EXCEPT ![q].var = (messages[q].var + d) % Width]
      BY DEF Applied
  <2>2. QED BY <2>1, <1>3, <1>5
<1>10. Yield(messages, i) = m
  <2>1. Yield(messages, i) = [key |-> messages[q].key,
                              var |-> (messages[q].var + d) % Width]
      BY DEF Yield
  <2>2. QED BY <2>1, <1>1, <1>5 DEF XMessage
<1>11. Sound(messages, i, h)
    BY <1>2, <1>8, <1>9, <1>10 DEF Sound
<1>12. Sends(i, h)
    BY <1>6, <1>7, <1>11 DEF Sends
<1>13. QED BY <1>3, <1>12

(* A message added: the item carries all that the slot gets. *)
LEMMA AddedSends ==
    ASSUME TypeOK, NEW m \in XMessage, NEW split \in BOOLEAN, FindAdded(m, split)
    PROVE  (\E i, h : Sends(i, h)) /\ messages' \in Content
<1> DEFINE p == Position
           new == [key |-> m.key, var |-> m.var, locks |-> IF split THEN 1 ELSE 0]
           i == [action |-> "added", position |-> p, key |-> m.key,
                 var |-> m.var, split |-> split]
           h == [sent |-> IF split THEN Null ELSE m, view |-> messages']
<1>1. p \in Slots
    BY PositionType
<1>2. m.key \in Key /\ m.var \in Variant /\ m = [key |-> m.key, var |-> m.var]
    BY DEF XMessage
<1>3. new \in Message
    BY <1>2 DEF Message
<1>4. messages' = [messages EXCEPT ![p] = new]
    BY DEF FindAdded
<1>5. messages' \in Content
    BY <1>1, <1>3, <1>4 DEF TypeOK, Content
<1>6. i \in Item /\ h \in Record
    BY <1>1, <1>2, <1>5 DEF Item, Record, Actions
<1>7. wire' = Append(wire, i) /\ history' = Append(history, h)
          /\ UNCHANGED decVars
    BY DEF FindAdded, Write
<1>8. Sound(messages, i, h)
  <2>1. Accepts(messages, i)
      BY DEF Accepts
  <2>2. Applied(messages, i) = messages'
      BY <1>4 DEF Applied
  <2>3. Yield(messages, i) = h.sent
      BY <1>2 DEF Yield
  <2>4. QED BY <1>2, <2>1, <2>2, <2>3 DEF Sound
<1>9. Sends(i, h)
    BY <1>6, <1>7, <1>8 DEF Sends
<1>10. QED BY <1>5, <1>9

(* A commit: the slot is there, and only its lock changes. *)
LEMMA CommitSends ==
    ASSUME TypeOK, NEW p \in Slots, CommitSplit(p)
    PROVE  (\E i, h : Sends(i, h)) /\ messages' \in Content
<1> DEFINE i == [action |-> "commit", position |-> p, key |-> Null,
                 var |-> 0, split |-> TRUE]
           m == [key |-> messages[p].key, var |-> messages[p].var]
           h == [sent |-> m, view |-> messages']
<1>1. messages[p] \in Message /\ messages[p] # Null /\ messages[p].locks = 1
    BY DEF CommitSplit, Locked, TypeOK, Content, Message
<1>2. messages' = [messages EXCEPT ![p].locks = 0] /\ messages' \in Content
    BY <1>1 DEF CommitSplit, TypeOK, Content, Message
<1>3. m \in XMessage
    BY <1>1 DEF XMessage, Message
<1>4. i \in Item /\ h \in Record
    BY <1>2, <1>3, SlotsAssumption DEF Item, Record, Actions, Variant
<1>5. wire' = Append(wire, i) /\ history' = Append(history, h)
          /\ UNCHANGED decVars
    BY DEF CommitSplit, Write
<1>6. Sound(messages, i, h)
    BY <1>1, <1>2 DEF Sound, Accepts, Applied, Yield
<1>7. Sends(i, h)
    BY <1>4, <1>5, <1>6 DEF Sends
<1>8. QED BY <1>2, <1>7

(* Every step of the encoding side writes one sound item, except the turn of
   the clean loop that finds nothing. *)
LEMMA EncoderSends ==
    ASSUME TypeOK, ChecksumsExact, Encode
    PROVE  \/ \E i, h : Sends(i, h)
           \/ UNCHANGED <<messages, wire, history, decVars>>
<1>1. ASSUME NEW aged \in SUBSET Slots, Clean(aged)
      PROVE  \E i, h : Sends(i, h)
    BY <1>1, CleanSends
<1>2. ASSUME NEW aged \in SUBSET Slots, CleanNothing(aged)
      PROVE  UNCHANGED <<messages, wire, history, decVars>>
    BY <1>2 DEF CleanNothing
<1>3. ASSUME NEW m \in XMessage,
             EncodeUncached(m) \/ FindNothing(m) \/ FindLocked(m)
      PROVE  \E i, h : Sends(i, h)
  <2>1. Discard(m) /\ messages' = messages /\ UNCHANGED decVars
      BY <1>3 DEF EncodeUncached, FindNothing, FindLocked, encVars
  <2>2. QED BY <2>1, DiscardSends
<1>4. ASSUME NEW m \in XMessage, FindHit(m)
      PROVE  \E i, h : Sends(i, h)
    BY <1>4, HitSends
<1>5. ASSUME NEW m \in XMessage, NEW split \in BOOLEAN, FindAdded(m, split)
      PROVE  \E i, h : Sends(i, h)
    BY <1>5, AddedSends
<1>6. ASSUME NEW p \in Slots, CommitSplit(p)
      PROVE  \E i, h : Sends(i, h)
    BY <1>6, CommitSends
<1>7. QED BY <1>1, <1>2, <1>3, <1>4, <1>5, <1>6 DEF Encode

(* The types of what the encoding side keeps for itself. *)
EncTypeOK ==
    /\ hits \in [Slots -> 0 .. StoreHitsLimit]
    /\ DOMAIN checksums \subseteq Key
    /\ checksums \in [DOMAIN checksums -> Slots]
    /\ lastAdded \in 0 .. cacheSlots
    /\ lastRemoved \in Slots
    /\ lastRated \in Slots \cup {nothing}

(* The steps of the encoding side keep the types. *)
LEMMA EncoderType ==
    ASSUME TypeOK, ChecksumsExact, Encode
    PROVE  EncTypeOK'
<1> USE DEF EncTypeOK
<1>0. /\ hits \in [Slots -> 0 .. StoreHitsLimit]
      /\ DOMAIN checksums \subseteq Key
      /\ checksums \in [DOMAIN checksums -> Slots]
      /\ lastAdded \in 0 .. cacheSlots
      /\ lastRemoved \in Slots
      /\ lastRated \in Slots \cup {nothing}
      /\ Worn \in [Slots -> 0 .. StoreHitsLimit]
      /\ Position \in Slots
    BY WornType, PositionType DEF TypeOK
<1>1. \A p : /\ DOMAIN Without(p) \subseteq DOMAIN checksums
             /\ \A k \in DOMAIN Without(p) : Without(p)[k] = checksums[k]
             /\ Without(p) \in [DOMAIN Without(p) -> Slots]
    BY <1>0 DEF Without
<1>2. ASSUME NEW aged \in SUBSET Slots, Clean(aged)
      PROVE  EncTypeOK'
  <2>1. CleanPosition(aged) \in Slots
      BY <1>2, CleanType DEF Clean
  <2>2. hits' \in [Slots -> 0 .. StoreHitsLimit]
      BY <1>2, <2>1, CleanType, HitsAssumption DEF Clean
  <2>3. DOMAIN checksums' \subseteq Key /\ checksums' \in [DOMAIN checksums' -> Slots]
      BY <1>0, <1>1, <1>2 DEF Clean
  <2>4. QED BY <1>0, <1>2, <2>1, <2>2, <2>3 DEF Clean
<1>3. ASSUME NEW aged \in SUBSET Slots, CleanNothing(aged)
      PROVE  EncTypeOK'
    BY <1>0, <1>3, CleanType DEF CleanNothing
<1>4. ASSUME NEW m \in XMessage,
             EncodeUncached(m) \/ FindNothing(m) \/ FindLocked(m)
      PROVE  EncTypeOK'
    BY <1>0, <1>4 DEF EncodeUncached, FindNothing, FindLocked, encVars, Rated
<1>5. ASSUME NEW m \in XMessage, FindHit(m)
      PROVE  EncTypeOK'
  <2>1. checksums[m.key] \in Slots
      BY <1>0, <1>5 DEF FindHit
  <2>2. Touched(Worn[checksums[m.key]]) \in 0 .. StoreHitsLimit
      BY <1>0, <2>1, TouchedType
  <2>3. hits' \in [Slots -> 0 .. StoreHitsLimit]
      BY <1>0, <1>5, <2>1, <2>2 DEF FindHit
  <2>4. QED BY <1>0, <1>5, <2>3 DEF FindHit, Rated
<1>6. ASSUME NEW m \in XMessage, NEW split \in BOOLEAN, FindAdded(m, split)
      PROVE  EncTypeOK'
  <2>1. hits' \in [Slots -> 0 .. StoreHitsLimit]
      BY <1>0, <1>6, HitsAssumption DEF FindAdded
  <2>2. m.key \in Key
      BY DEF XMessage
  <2>3. checksums' = [k \in DOMAIN Without(Position) \cup {m.key} |->
                         IF k = m.key THEN Position ELSE Without(Position)[k]]
      BY <1>6 DEF FindAdded
  <2>4. DOMAIN checksums' \subseteq Key /\ checksums' \in [DOMAIN checksums' -> Slots]
      BY <1>0, <1>1, <2>2, <2>3
  <2>5. lastAdded' \in 0 .. cacheSlots /\ lastRemoved' \in Slots
            /\ lastRated' \in Slots \cup {nothing}
      BY <1>0, <1>6, SlotsAssumption DEF FindAdded, Slots
  <2>6. QED BY <2>1, <2>4, <2>5
<1>7. ASSUME NEW p \in Slots, CommitSplit(p)
      PROVE  EncTypeOK'
    BY <1>0, <1>7 DEF CommitSplit
<1>8. QED BY <1>2, <1>3, <1>4, <1>5, <1>6, <1>7 DEF Encode

(* The hash table follows the slots. *)
LEMMA EncoderChecksums ==
    ASSUME TypeOK, ChecksumsExact, Encode
    PROVE  ChecksumsExact'
<1>0. /\ messages \in Content /\ Position \in Slots
      /\ checksums \in [DOMAIN checksums -> Slots]
      /\ DOMAIN checksums \subseteq Key
    BY PositionType DEF TypeOK
<1>n. \A p \in Slots : messages[p] # Null => messages[p] \in Message
    BY <1>0 DEF Content
<1>1. ASSUME NEW aged \in SUBSET Slots, Clean(aged)
      PROVE  ChecksumsExact'
  <2> DEFINE p == CleanPosition(aged)
  <2>1. p \in Slots /\ messages[p] # Null
      BY <1>1, CleanType, CleanFound DEF Clean
  <2>2. messages' = [messages EXCEPT ![p] = Null]
      BY <1>1 DEF Clean
  <2>3. checksums' = [k \in DOMAIN checksums \ {messages[p].key} |-> checksums[k]]
      BY <1>1, <2>1 DEF Clean, Without
  <2> HIDE DEF p
  <2>4. QED BY <1>0, <2>1, <2>2, <2>3 DEF ChecksumsExact, Content
<1>2. ASSUME messages' = messages, checksums' = checksums
      PROVE  ChecksumsExact'
    BY <1>2 DEF ChecksumsExact
<1>3. ASSUME NEW aged \in SUBSET Slots, CleanNothing(aged)
      PROVE  ChecksumsExact'
    BY <1>2, <1>3 DEF CleanNothing
<1>4. ASSUME NEW m \in XMessage,
             EncodeUncached(m) \/ FindNothing(m) \/ FindLocked(m)
      PROVE  ChecksumsExact'
    BY <1>2, <1>4 DEF EncodeUncached, FindNothing, FindLocked, encVars
<1>5. ASSUME \A p \in Slots : messages'[p] # Null <=> messages[p] # Null,
             \A p \in Slots : messages[p] # Null => messages'[p].key = messages[p].key,
             checksums' = checksums
      PROVE  ChecksumsExact'
    BY <1>0, <1>5 DEF ChecksumsExact
<1>6. ASSUME NEW m \in XMessage, FindHit(m)
      PROVE  ChecksumsExact'
  <2> DEFINE q == checksums[m.key]
  <2>1. q \in Slots /\ messages[q] # Null /\ messages[q] \in Message
      BY <1>0, <1>n, <1>6 DEF FindHit, ChecksumsExact
  <2>2. messages' = [messages EXCEPT ![q].var = m.var] /\ checksums' = checksums
      BY <1>6 DEF FindHit
  <2> HIDE DEF q
  <2>3. messages'[q] # Null /\ messages'[q].key = messages[q].key
    <3>1. messages' \in Content
        BY <1>6, HitSends
    <3>2. messages'[q] = [messages[q] EXCEPT !.var = m.var]
        BY <1>0, <2>1, <2>2 DEF Content
    <3>3. messages'[q] \in Message /\ messages'[q].key = messages[q].key
        BY <2>1, <3>2 DEF Message, XMessage
    <3>4. Null \notin Message
        BY NullAssumption
    <3>5. QED BY <3>3, <3>4
  <2>4. \A p \in Slots : p # q => messages'[p] = messages[p]
      BY <1>0, <2>1, <2>2 DEF Content
  <2>5. QED BY <1>5, <2>1, <2>2, <2>3, <2>4
<1>7. ASSUME NEW m \in XMessage, NEW split \in BOOLEAN, FindAdded(m, split)
      PROVE  ChecksumsExact'
  <2> DEFINE p == Position
             new == [key |-> m.key, var |-> m.var, locks |-> IF split THEN 1 ELSE 0]
  <2>1. p \in Slots /\ m.key \notin DOMAIN checksums
      BY <1>0, <1>7 DEF FindAdded
  <2>2. messages' = [messages EXCEPT ![p] = new]
      BY <1>7 DEF FindAdded
  <2>3. checksums' = [k \in DOMAIN Without(p) \cup {m.key} |->
                         IF k = m.key THEN p ELSE Without(p)[k]]
      BY <1>7 DEF FindAdded
  <2> HIDE DEF p
  <2>4. new # Null /\ new.key = m.key
    <3>1. new \in Message
        BY DEF Message, XMessage
    <3>2. QED BY <3>1, NullAssumption
  <2> HIDE DEF new
  <2>5. messages'[p] = new /\ \A q \in Slots : q # p => messages'[q] = messages[q]
      BY <1>0, <2>1, <2>2 DEF Content
  <2>6. /\ DOMAIN Without(p) = {k \in DOMAIN checksums : checksums[k] # p}
        /\ \A k \in DOMAIN Without(p) : Without(p)[k] = checksums[k]
    <3>1. CASE messages[p] = Null
        BY <2>1, <3>1 DEF Without, ChecksumsExact
    <3>2. CASE messages[p] # Null
        BY <2>1, <3>2 DEF Without, ChecksumsExact
    <3>3. QED BY <3>1, <3>2
  <2>7. \A k \in DOMAIN checksums' :
            messages'[checksums'[k]] # Null /\ messages'[checksums'[k]].key = k
    <3>1. ASSUME NEW k \in DOMAIN checksums', k # m.key
          PROVE  messages'[checksums'[k]] # Null /\ messages'[checksums'[k]].key = k
      <4>1. k \in DOMAIN checksums /\ checksums[k] # p /\ checksums'[k] = checksums[k]
          BY <2>3, <2>6, <3>1
      <4>2. checksums[k] \in Slots
          BY <1>0, <4>1
      <4>3. QED BY <2>5, <4>1, <4>2 DEF ChecksumsExact
    <3>2. checksums'[m.key] = p
        BY <2>3
    <3>3. QED BY <2>4, <2>5, <3>1, <3>2
  <2>8. ASSUME NEW q \in Slots, messages'[q] # Null
        PROVE  messages'[q].key \in DOMAIN checksums'
                   /\ checksums'[messages'[q].key] = q
    <3>1. CASE q = p
        BY <2>3, <2>4, <2>5, <3>1
    <3>2. CASE q # p
      <4>1. messages'[q] = messages[q] /\ messages[q] # Null
          BY <2>5, <2>8, <3>2
      <4>2. messages[q].key \in DOMAIN checksums /\ checksums[messages[q].key] = q
          BY <4>1 DEF ChecksumsExact
      <4>3. messages[q].key # m.key /\ messages[q].key \in DOMAIN Without(p)
          BY <2>1, <2>6, <3>2, <4>2
      <4>4. QED BY <2>3, <2>6, <4>1, <4>2, <4>3
    <3>3. QED BY <3>1, <3>2
  <2>9. QED BY <2>7, <2>8 DEF ChecksumsExact
<1>8. ASSUME NEW p \in Slots, CommitSplit(p)
      PROVE  ChecksumsExact'
  <2>1. messages[p] # Null /\ messages[p] \in Message
      BY <1>n, <1>8 DEF CommitSplit, Locked
  <2>2. messages' = [messages EXCEPT ![p].locks = 0] /\ checksums' = checksums
      BY <1>8 DEF CommitSplit
  <2>3. messages'[p] = [messages[p] EXCEPT !.locks = 0]
      BY <1>0, <2>2 DEF Content
  <2>4. messages'[p] \in Message /\ messages'[p].key = messages[p].key
      BY <2>1, <2>3 DEF Message
  <2>5. messages'[p] # Null
      BY <2>4, NullAssumption
  <2>6. \A q \in Slots : q # p => messages'[q] = messages[q]
      BY <1>0, <2>2 DEF Content
  <2>7. QED BY <1>5, <2>1, <2>2, <2>4, <2>5, <2>6
<1>9. QED BY <1>1, <1>3, <1>4, <1>6, <1>7, <1>8 DEF Encode

-----------------------------------------------------------------------------
(* Steps of the decoding side *)

(* The types of what the decoding side keeps. *)
DecTypeOK ==
    /\ decMessages \in Content
    /\ whole \subseteq Slots
    /\ parked \in [Slots -> XMessage \cup {Null}]
    /\ out \in XMessage \cup {Null}

(* What is known of the first item when it is read. *)
LEMMA HeadSound ==
    ASSUME TypeOK, Chain, wire # << >>
    PROVE  /\ Head(wire) \in Item
           /\ Sound(decMessages, Head(wire), Head(history))
           /\ Head(history) \in Record
           /\ history # << >>
<1>1. /\ wire \in Seq(Item) /\ history \in Seq(Record)
      /\ Len(wire) \in Nat \ {0} /\ Len(history) = Len(wire)
    BY EmptySeq DEF TypeOK, Chain, Record
<1>2. Head(wire) = wire[1] /\ Head(history) = history[1] /\ history # << >>
    BY <1>1
<1>3. wire[1] \in Item /\ history[1] \in Record
    BY <1>1
<1>4. Sound(Before(1), wire[1], history[1])
    BY <1>1 DEF Chain
<1>5. QED BY <1>2, <1>3, <1>4 DEF Before

(* Every step of the decoding side takes the first item off the link, does to
   the store what its history says, and writes what was sent. *)
LEMMA DecoderReads ==
    ASSUME Inv, Decode
    PROVE  /\ wire # << >> /\ history # << >>
           /\ wire' = Tail(wire) /\ history' = Tail(history)
           /\ decMessages' = Applied(decMessages, Head(wire))
           /\ decMessages' \in Content
           /\ out' = Head(history).sent
           /\ out' \in XMessage \cup {Null}
           /\ UNCHANGED encVars
<1> DEFINE i == Head(wire)
<1>1. /\ wire # << >> /\ wire' = Tail(wire) /\ history' = Tail(history)
      /\ decMessages' = Applied(decMessages, i) /\ UNCHANGED encVars
    BY DEF Decode, DecodeRemoved, DecodeHit, DecodeAdded, DecodeSplit,
           DecodeDiscarded, DecodeCommit, Read
<1>2. /\ i \in Item /\ Sound(decMessages, i, Head(history))
      /\ Head(history) \in Record /\ history # << >>
    BY <1>1, HeadSound DEF Inv
<1>3. decMessages' \in Content /\ Head(history).sent \in XMessage \cup {Null}
    BY <1>1, <1>2 DEF Sound, Record
<1>4. Yield(decMessages, i) = Head(history).sent
    BY <1>2 DEF Sound
<1>5. i.position \in Slots
    BY <1>2 DEF Item
<1>6. out' = Yield(decMessages, i)
  <2>1. CASE DecodeRemoved
      BY <2>1 DEF DecodeRemoved, Read, Yield
  <2>2. CASE DecodeHit
    <3>1. i.action = "hit" /\ decMessages[i.position] \in Message
        BY <1>2, <1>5, <2>2 DEF DecodeHit, Read, Accepts, Inv, TypeOK, Content
    <3>2. decMessages' = [decMessages EXCEPT ![i.position].var = (@ + i.var) % Width]
        BY <1>1, <3>1 DEF Applied
    <3>3. decMessages'[i.position].var
              = (decMessages[i.position].var + i.var) % Width
        BY <1>5, <3>1, <3>2 DEF Inv, TypeOK, Content, Message
    <3>4. QED BY <2>2, <3>1, <3>3 DEF DecodeHit, Yield
  <2>3. CASE DecodeAdded
      BY <2>3 DEF DecodeAdded, Read, Yield
  <2>4. CASE DecodeSplit
      BY <2>4 DEF DecodeSplit, Read, Yield
  <2>5. CASE DecodeDiscarded
      BY <2>5 DEF DecodeDiscarded, Read, Yield
  <2>6. CASE DecodeCommit
    <3>1. i.action = "commit" /\ decMessages[i.position] # Null
        BY <2>6 DEF DecodeCommit, Read, Accepts
    <3>2. decMessages[i.position].locks = 1
        BY <1>2, <3>1 DEF Sound
    <3>3. parked[i.position] = [key |-> decMessages[i.position].key,
                                var |-> decMessages[i.position].var]
        BY <1>5, <3>1, <3>2 DEF Inv, ParkedIsStored
    <3>4. QED BY <2>6, <3>1, <3>3 DEF DecodeCommit, Yield
  <2>7. QED BY <2>1, <2>2, <2>3, <2>4, <2>5, <2>6 DEF Decode
<1>7. QED BY <1>1, <1>2, <1>3, <1>4, <1>6

(* The data and the identity kept with the split of each slot follow its
   message. *)
LEMMA DecoderSlots ==
    ASSUME Inv, Decode
    PROVE  /\ whole' \subseteq Slots
           /\ parked' \in [Slots -> XMessage \cup {Null}]
           /\ ParkedIsStored' /\ WholeUnlessLocked'
<1> DEFINE i == Head(wire)
           p == i.position
<1>1. /\ decMessages' = Applied(decMessages, i) /\ wire # << >>
      /\ i \in Item /\ p \in Slots /\ Sound(decMessages, i, Head(history))
    BY DecoderReads, HeadSound DEF Inv, Item
<1>2. /\ decMessages \in Content /\ whole \subseteq Slots
      /\ parked \in [Slots -> XMessage \cup {Null}]
    BY DEF Inv, TypeOK
<1>3. CASE DecodeRemoved
  <2>1. decMessages' = [decMessages EXCEPT ![p] = Null]
      BY <1>1, <1>3 DEF DecodeRemoved, Read, Applied
  <2>2. whole' = whole /\ parked' = parked
      BY <1>3 DEF DecodeRemoved
  <2> HIDE DEF p
  <2>3. QED BY <1>1, <1>2, <2>1, <2>2 DEF Inv, ParkedIsStored, WholeUnlessLocked, Content
<1>4. CASE DecodeHit
  <2>1. i.action = "hit" /\ decMessages[p] # Null /\ decMessages[p] \in Message
      BY <1>1, <1>2, <1>4 DEF DecodeHit, Read, Accepts, Content
  <2>2. decMessages[p].locks = 0 /\ p \in whole
      BY <1>1, <2>1 DEF Sound, Inv, WholeUnlessLocked
  <2>3. decMessages' = [decMessages EXCEPT ![p].var = (@ + i.var) % Width]
      BY <1>1, <2>1 DEF Applied
  <2>4. whole' = whole /\ parked' = parked
      BY <1>4 DEF DecodeHit
  <2> HIDE DEF p
  <2>5. decMessages'[p].locks = 0
      BY <1>1, <1>2, <2>1, <2>2, <2>3 DEF Content, Message
  <2>6. \A q \in Slots : q # p => decMessages'[q] = decMessages[q]
      BY <1>1, <1>2, <2>3 DEF Content
  <2>7. QED BY <1>1, <1>2, <2>2, <2>4, <2>5, <2>6
            DEF Inv, ParkedIsStored, WholeUnlessLocked
<1>5. CASE DecodeAdded
  <2>1. i.action = "added" /\ ~i.split
      BY <1>5 DEF DecodeAdded, Read
  <2>2. decMessages' = [decMessages EXCEPT ![p] =
                           [key |-> i.key, var |-> i.var, locks |-> 0]]
      BY <1>1, <2>1 DEF Applied
  <2>3. whole' = whole \cup {p} /\ parked' = parked
      BY <1>5 DEF DecodeAdded
  <2> HIDE DEF p
  <2>4. decMessages'[p].locks = 0
      BY <1>1, <1>2, <2>2 DEF Content
  <2>5. \A q \in Slots : q # p => decMessages'[q] = decMessages[q]
      BY <1>1, <1>2, <2>2 DEF Content
  <2>6. QED BY <1>1, <1>2, <2>3, <2>4, <2>5
            DEF Inv, ParkedIsStored, WholeUnlessLocked
<1>6. CASE DecodeSplit
  <2> DEFINE new == [key |-> i.key, var |-> i.var, locks |-> 1]
             m == [key |-> i.key, var |-> i.var]
  <2>1. i.action = "added" /\ i.split
      BY <1>6 DEF DecodeSplit, Read
  <2>2. decMessages' = [decMessages EXCEPT ![p] = new]
      BY <1>1, <2>1 DEF Applied
  <2>3. whole' = whole \ {p} /\ parked' = [parked EXCEPT ![p] = m]
      BY <1>6 DEF DecodeSplit
  <2>5. m \in XMessage
    <3>1. i.key \in Key /\ i.var \in Variant
        BY <1>1, <2>1 DEF Item, Sound
    <3>2. QED BY <3>1 DEF XMessage
  <2> HIDE DEF p
  <2>6. decMessages'[p] = new /\ \A q \in Slots : q # p => decMessages'[q] = decMessages[q]
      BY <1>1, <1>2, <2>2 DEF Content
  <2>7. parked'[p] = m /\ \A q \in Slots : q # p => parked'[q] = parked[q]
      BY <1>1, <1>2, <2>3
  <2>8. ParkedIsStored'
      BY <2>6, <2>7 DEF Inv, ParkedIsStored
  <2>9. WholeUnlessLocked'
      BY <2>3, <2>6 DEF Inv, WholeUnlessLocked
  <2>10. QED BY <1>1, <1>2, <2>3, <2>5, <2>8, <2>9
<1>7. CASE DecodeDiscarded
  <2>1. decMessages' = decMessages /\ whole' = whole /\ parked' = parked
      BY <1>1, <1>7 DEF DecodeDiscarded, Read, Applied
  <2>2. QED BY <1>2, <2>1 DEF Inv, ParkedIsStored, WholeUnlessLocked
<1>8. CASE DecodeCommit
  <2>1. i.action = "commit" /\ decMessages[p] # Null /\ decMessages[p] \in Message
      BY <1>1, <1>2, <1>8 DEF DecodeCommit, Read, Accepts, Content
  <2>2. decMessages' = [decMessages EXCEPT ![p].locks = 0]
      BY <1>1, <2>1 DEF Applied
  <2>3. whole' = whole \cup {p} /\ parked' = [parked EXCEPT ![p] = Null]
      BY <1>8 DEF DecodeCommit
  <2> HIDE DEF p
  <2>4. decMessages'[p].locks = 0
      BY <1>1, <1>2, <2>1, <2>2 DEF Content, Message
  <2>5. \A q \in Slots : q # p => decMessages'[q] = decMessages[q]
                                  /\ parked'[q] = parked[q]
      BY <1>1, <1>2, <2>2, <2>3 DEF Content
  <2>6. parked' \in [Slots -> XMessage \cup {Null}]
      BY <1>2, <2>3
  <2>7. QED BY <1>1, <1>2, <2>3, <2>4, <2>5, <2>6
            DEF Inv, ParkedIsStored, WholeUnlessLocked
<1>9. QED BY <1>3, <1>4, <1>5, <1>6, <1>7, <1>8 DEF Decode

-----------------------------------------------------------------------------
(* The theorems *)

(* Two equal loaded caches satisfy the invariant. *)
LEMMA InitInv == Init => Inv
<1> SUFFICES ASSUME Init
             PROVE  Inv
    OBVIOUS
<1>1. PICK content \in Content :
          /\ Loaded(content) /\ messages = content /\ decMessages = content
          /\ checksums = Index(content)
    BY DEF Init
<1>2. \A p \in Slots : content[p] # Null => content[p] \in Message
                                             /\ content[p].locks = 0
    BY <1>1 DEF Content, Loaded
<1> DEFINE K == {content[p].key : p \in {q \in Slots : content[q] # Null}}
<1>3. DOMAIN checksums = K /\ K \subseteq Key
    BY <1>1, <1>2 DEF Index, Message
<1>4. ASSUME NEW k \in K
      PROVE  /\ checksums[k] \in Slots
             /\ content[checksums[k]] # Null /\ content[checksums[k]].key = k
  <2>1. \E p \in Slots : content[p] # Null /\ content[p].key = k
      OBVIOUS
  <2>2. checksums[k] = CHOOSE p \in Slots : content[p] # Null /\ content[p].key = k
      BY <1>1, <1>4 DEF Index
  <2>3. QED BY <2>1, <2>2
<1>5. ChecksumsExact
  <2>1. ASSUME NEW p \in Slots, content[p] # Null
        PROVE  content[p].key \in K /\ checksums[content[p].key] = p
    <3>1. content[p].key \in K
        BY <2>1
    <3>2. QED BY <1>1, <1>4, <2>1, <3>1 DEF Loaded
  <2>2. QED BY <1>1, <1>3, <1>4, <2>1 DEF ChecksumsExact
<1>6. hits \in [Slots -> 0 .. StoreHitsLimit]
    BY HitsAssumption DEF Init
<1>7. checksums = [k \in DOMAIN checksums |-> checksums[k]]
    BY <1>1 DEF Index
<1>8. checksums \in [DOMAIN checksums -> Slots]
    BY <1>3, <1>4, <1>7
<1>9. wire = << >> /\ history = << >>
    BY DEF Init
<1>10. TypeOK
    BY <1>1, <1>3, <1>6, <1>8, <1>9, SlotsAssumption DEF Init, TypeOK, Slots
<1>11. Chain
    BY <1>1, <1>9 DEF Chain, Before
<1>12. ParkedIsStored /\ WholeUnlessLocked
    BY <1>1, <1>2 DEF Init, ParkedIsStored, WholeUnlessLocked
<1>13. QED BY <1>5, <1>10, <1>11, <1>12 DEF Inv

(* Every step of either side preserves the invariant. *)
LEMMA StepInv == Inv /\ [Next]_vars => Inv'
<1> SUFFICES ASSUME Inv, [Next]_vars
             PROVE  Inv'
    OBVIOUS
<1>1. CASE Encode
  <2>1. TypeOK /\ ChecksumsExact /\ Chain /\ ParkedIsStored /\ WholeUnlessLocked
      BY DEF Inv
  <2>2. EncTypeOK' /\ ChecksumsExact'
      BY <1>1, <2>1, EncoderType, EncoderChecksums
  <2>3. CASE \E i, h : Sends(i, h)
    <3>1. PICK i, h : Sends(i, h)
        BY <2>3
    <3>2. UNCHANGED <<decMessages, whole, parked, out>>
        BY <3>1 DEF Sends, decVars
    <3>3. Chain'
        BY <2>1, <3>1, SendChain
    <3>4. messages' \in Content
        BY <3>1 DEF Sends, Record
    <3>5. wire' \in Seq(Item) /\ history' \in Seq(Record)
        BY <2>1, <3>1 DEF Sends, TypeOK, Record
    <3>6. TypeOK'
        BY <2>1, <2>2, <3>2, <3>4, <3>5 DEF TypeOK, EncTypeOK, Record
    <3>7. ParkedIsStored' /\ WholeUnlessLocked'
        BY <2>1, <3>2 DEF ParkedIsStored, WholeUnlessLocked
    <3>8. QED BY <2>2, <3>3, <3>6, <3>7 DEF Inv
  <2>4. CASE UNCHANGED <<messages, wire, history, decVars>>
    <3>1. UNCHANGED <<messages, wire, history, decMessages, whole, parked, out>>
        BY <2>4 DEF decVars
    <3>2. TypeOK'
        BY <2>1, <2>2, <3>1 DEF TypeOK, EncTypeOK
    <3>3. Chain' /\ ParkedIsStored' /\ WholeUnlessLocked'
        BY <2>1, <3>1 DEF Chain, Before, ParkedIsStored, WholeUnlessLocked
    <3>4. QED BY <2>2, <3>2, <3>3 DEF Inv
  <2>5. QED BY <1>1, <2>1, <2>3, <2>4, EncoderSends
<1>2. CASE Decode
  <2>1. TypeOK /\ ChecksumsExact /\ Chain
      BY DEF Inv
  <2>2. /\ wire # << >> /\ wire' = Tail(wire) /\ history' = Tail(history)
        /\ decMessages' = Applied(decMessages, Head(wire))
        /\ decMessages' \in Content
        /\ out' \in XMessage \cup {Null}
        /\ history # << >>
        /\ UNCHANGED <<messages, hits, checksums, lastAdded, lastRemoved, lastRated>>
      BY <1>2, DecoderReads DEF encVars
  <2>3. Chain'
      BY <2>1, <2>2, ReadChain
  <2>4. ChecksumsExact'
      BY <2>1, <2>2 DEF ChecksumsExact
  <2>5. wire' \in Seq(Item) /\ history' \in Seq(Record)
      BY <2>1, <2>2, HeadTailProperties DEF TypeOK, Record
  <2>6. /\ whole' \subseteq Slots
        /\ parked' \in [Slots -> XMessage \cup {Null}]
        /\ ParkedIsStored' /\ WholeUnlessLocked'
      BY <1>2, DecoderSlots
  <2>7. TypeOK'
      BY <2>1, <2>2, <2>5, <2>6 DEF TypeOK, Record
  <2>8. QED BY <2>3, <2>4, <2>6, <2>7 DEF Inv
<1>3. CASE UNCHANGED vars
    BY <1>3 DEF vars, Inv, TypeOK, ChecksumsExact, Chain, Before,
                ParkedIsStored, WholeUnlessLocked
<1>4. QED BY <1>1, <1>2, <1>3 DEF Next

(* The invariant gives the properties that the runs check. *)
LEMMA InvImplies == Inv => Coherent /\ HitsAreWhole
<1> SUFFICES ASSUME Inv
             PROVE  Coherent /\ HitsAreWhole
    OBVIOUS
<1>1. Coherent
    BY DEF Inv, Chain, Sound, Coherent
<1>2. ASSUME wire # << >>, Head(wire).action = "hit"
      PROVE  Head(wire).position \in whole
  <2>1. Head(wire) \in Item /\ Sound(decMessages, Head(wire), Head(history))
      BY <1>2, HeadSound DEF Inv
  <2>2. QED BY <1>2, <2>1 DEF Sound, Accepts, Item, Inv, WholeUnlessLocked
<1>3. QED BY <1>1, <1>2 DEF HitsAreWhole

(* The types of both stores, of the hash table and of the link are kept by
   every operation of findOrAdd, clean, handleDecodeCached and the commit. *)
THEOREM StoreTypes == Spec => []TypeOK
<1>1. Inv => TypeOK
    BY DEF Inv
<1>2. QED BY <1>1, InitInv, StepInv, PTL DEF Spec

(* Whatever the number of slots, the rating policy and the length of the
   link, the stores of the two proxies agree slot by slot at the moment an
   item is decoded, and no item makes the decoding side abort. *)
THEOREM StoresCoherent == Spec => []Coherent
BY InitInv, StepInv, InvImplies, PTL DEF Spec

(* The checksum table of the encoding side is exact, no hit is issued on a
   message whose split is not committed, and a split commits the message its
   slot holds. *)
THEOREM StoreSafe == Spec => [](ChecksumsExact /\ HitsAreWhole /\ ParkedIsStored)
<1>1. Inv => ChecksumsExact /\ HitsAreWhole /\ ParkedIsStored
    BY InvImplies DEF Inv
<1>2. QED BY <1>1, InitInv, StepInv, PTL DEF Spec

(* A split that is committed finds in its slot the message it was made for. *)
THEOREM SplitsFindTheirMessage == Spec => []ParkedIsStored
BY StoreSafe, PTL

(* The hash table of the encoding side lists the stored messages, each at its
   slot, and nothing that was removed. *)
THEOREM ChecksumTable == Spec => []ChecksumsExact
BY StoreSafe, PTL

(* Nothing is locked before the first insertion, and it is the only step that
   brings lastAdded into the array. *)
Unlocked == lastAdded \notin Slots => \A p \in Slots : ~Locked(p)

(* The turn of the search that comes back to a slot for the last time it can
   take: by then the rating has been lowered as often as the limit is high. *)
LEMMA LastTurn ==
    /\ cacheSlots * StoreHitsLimit \in 0 .. cacheSlots * (StoreHitsLimit + 1) - 1
    /\ (cacheSlots * StoreHitsLimit) \div cacheSlots = StoreHitsLimit
<1> DEFINE turns == cacheSlots * StoreHitsLimit
<1> USE SlotsAssumption, HitsAssumption
<1>1. turns \in Nat
    OBVIOUS
<1>2. cacheSlots * (StoreHitsLimit + 1) = turns + cacheSlots
    OBVIOUS
<1>3. turns \in 0 .. cacheSlots * (StoreHitsLimit + 1) - 1
  <2> HIDE DEF turns
  <2>1. QED BY <1>1, <1>2
<1>4. turns \div cacheSlots = StoreHitsLimit
    OBVIOUS
<1>5. QED BY <1>3, <1>4

(* A rating lowered as often as the limit is high is zero. *)
LEMMA WornOut ==
    ASSUME NEW h \in 0 .. StoreHitsLimit
    PROVE  Untouched(h, StoreHitsLimit) = 0
<1>1. StoreHitsLimit * StoreHitsUntouch >= StoreHitsLimit
    BY HitsAssumption
<1>2. StoreHitsLimit * StoreHitsUntouch \in Nat
    BY HitsAssumption
<1>3. QED BY <1>1, <1>2, HitsAssumption DEF Untouched

(* While nothing is locked, a search of a full store cannot go round forever:
   at the last turn every rating is zero and the first slot visited is taken. *)
LEMMA LastTurnEnds == TypeOK /\ Unlocked => SearchEnds
<1> SUFFICES ASSUME TypeOK, Unlocked, lastAdded \notin Slots
             PROVE  Passed # Visits
    BY DEF SearchEnds
<1> DEFINE last == cacheSlots * StoreHitsLimit
<1>1. last \in Visits /\ last \div cacheSlots = StoreHitsLimit /\ last \in Nat
    BY LastTurn, SlotsAssumption, HitsAssumption DEF Visits
<1> HIDE DEF last
<1>2. After(lastAdded) \in Slots
    BY SlotsAssumption DEF TypeOK, After, Slots
<1>3. Visit(last) \in Slots
    BY <1>1, <1>2, SlotsAssumption DEF Visit, Slots
<1>4. hits[Visit(last)] \in 0 .. StoreHitsLimit
    BY <1>3 DEF TypeOK
<1>5. Untouched(hits[Visit(last)], last \div cacheSlots) = 0
    BY <1>1, <1>4, WornOut
<1>6. ~Locked(Visit(last))
    BY <1>3 DEF Unlocked
<1>7. Ends(last)
    BY <1>5, <1>6 DEF Ends, Replaceable
<1>8. last \notin Passed
    BY <1>1, <1>7 DEF Passed
<1>9. QED BY <1>1, <1>8

(* A slot is locked only by a message that was added, and adding one brings
   lastAdded into the array for good. *)
LEMMA StepUnlocked ==
    TypeOK /\ ChecksumsExact /\ Unlocked /\ [Next]_vars => Unlocked'
<1> SUFFICES ASSUME TypeOK, ChecksumsExact, Unlocked, [Next]_vars,
                    lastAdded' \notin Slots, NEW p \in Slots, Locked(p)'
             PROVE  FALSE
    BY DEF Unlocked
<1>1. ASSUME NEW m, NEW split, FindAdded(m, split)
      PROVE  FALSE
    BY <1>1, PositionType DEF FindAdded
<1>2. ASSUME lastAdded' = lastAdded, messages' = messages
      PROVE  FALSE
    BY <1>2 DEF Unlocked, Locked
<1>3. ASSUME NEW aged, Clean(aged)
      PROVE  FALSE
    BY <1>3 DEF Clean, Unlocked, Locked, TypeOK, Content
<1>4. ASSUME NEW m, FindHit(m)
      PROVE  FALSE
  <2> DEFINE q == checksums[m.key]
  <2>1. /\ messages' = [messages EXCEPT ![q].var = m.var]
        /\ ~Locked(q) /\ ~Locked(p)
        /\ q \in Slots /\ messages[q] \in Message
      BY <1>4 DEF FindHit, Unlocked, ChecksumsExact, TypeOK, Content
  <2> HIDE DEF q
  <2>2. messages'[q].locks = 0
      BY <2>1, NullAssumption DEF Locked, Message, TypeOK, Content
  <2>3. p # q => messages'[p] = messages[p]
      BY <2>1 DEF TypeOK, Content
  <2>4. QED BY <2>1, <2>2, <2>3 DEF Locked
<1>5. ASSUME NEW q \in Slots, CommitSplit(q)
      PROVE  FALSE
    BY <1>5 DEF CommitSplit, Unlocked
<1>6. CASE Decode
    BY <1>2, <1>6 DEF Decode, DecodeRemoved, DecodeHit, DecodeAdded, DecodeSplit,
                      DecodeDiscarded, DecodeCommit, Read, encVars
<1>7. CASE UNCHANGED vars
    BY <1>2, <1>7 DEF vars
<1>8. ASSUME NEW aged, CleanNothing(aged)
      PROVE  FALSE
    BY <1>2, <1>8 DEF CleanNothing
<1>9. ASSUME NEW m, EncodeUncached(m) \/ FindNothing(m) \/ FindLocked(m)
      PROVE  FALSE
    BY <1>2, <1>9 DEF EncodeUncached, FindNothing, FindLocked, encVars
<1>10. QED BY <1>1, <1>3, <1>4, <1>5, <1>6, <1>7, <1>8, <1>9 DEF Next, Encode

(* After a full cache was loaded lastAdded is out of the array, and the loop of
   findOrAdd has no bound of its own; whatever the number of slots and the
   rating policy, it stops at a slot it may use. *)
THEOREM SearchesEnd == Spec => []SearchEnds
<1>1. Init => Unlocked
    BY DEF Init, Loaded, Unlocked, Locked
<1>2. Inv /\ Unlocked /\ [Next]_vars => (Inv /\ Unlocked)'
    BY StepInv, StepUnlocked DEF Inv
<1>3. Inv /\ Unlocked => SearchEnds
    BY LastTurnEnds DEF Inv
<1>4. QED BY <1>1, <1>2, <1>3, InitInv, PTL DEF Spec

(* The pair of message stores implements a lossless link: whatever is cached,
   replaced, cleaned, locked or committed, the X server gets every message of
   the client once, unchanged and in order. *)
THEOREM StoreIsLossless == Spec => Lossless
<1> DEFINE flight == [i \in 1 .. Len(history) |-> history[i].sent]
<1>1. Init => L!Init
    BY DEF Init, L!Init
<1>2. ASSUME Inv, Encode
      PROVE  [L!Next]_(L!vars)
  <2>1. TypeOK /\ ChecksumsExact /\ history \in Seq(Record)
      BY <1>2 DEF Inv, TypeOK, Record
  <2>2. CASE \E i, h : Sends(i, h)
    <3>1. PICK i, h : Sends(i, h)
        BY <2>2
    <3>2. /\ history' = Append(history, h) /\ h \in Record /\ out' = out
          /\ h.sent \in XMessage \cup {Null}
        BY <3>1 DEF Sends, decVars, Record
    <3>3. flight' = Append(flight, h.sent)
        BY <2>1, <3>2
    <3>4. L!Send(h.sent)
        BY <3>2, <3>3 DEF L!Send
    <3>5. QED BY <3>2, <3>4 DEF L!Next
  <2>3. CASE UNCHANGED <<messages, wire, history, decVars>>
      BY <2>3 DEF decVars, L!vars
  <2>4. QED BY <1>2, <2>1, <2>2, <2>3, EncoderSends
<1>3. ASSUME Inv, Decode
      PROVE  L!Deliver
  <2>1. history # << >> /\ history' = Tail(history) /\ out' = Head(history).sent
      BY <1>3, DecoderReads
  <2>2. history \in Seq(Record)
      BY <1>3 DEF Inv, TypeOK, Record
  <2>3. flight # << >> /\ Head(flight) = Head(history).sent
      BY <2>1, <2>2
  <2>4. flight' = Tail(flight)
      BY <2>1, <2>2
  <2>5. QED BY <2>1, <2>3, <2>4 DEF L!Deliver
<1>4. ASSUME UNCHANGED vars
      PROVE  UNCHANGED L!vars
    BY <1>4 DEF vars, L!vars
<1>5. Inv /\ [Next]_vars => [L!Next]_(L!vars)
    BY <1>2, <1>3, <1>4 DEF Next, L!Next
<1>6. QED BY <1>1, <1>5, InitInv, StepInv, PTL DEF Spec, Lossless, L!Spec

=============================================================================
