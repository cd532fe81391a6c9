--------------------------- MODULE StructureProofs ---------------------------
(***************************************************************************)
(* The data structures that the channels lean on, each on its own.         *)
(*                                                                         *)
(* The circular array of SequenceQueue.cpp never loses its tail, never     *)
(* exposes an unwritten slot and implements a first-in first-out list, for *)
(* every initial size and growth increment.                                *)
(*                                                                         *)
(* The field caches of the two sides stay in step, and every field comes   *)
(* out as it went in, for every width, size and number of slots.           *)
(*                                                                         *)
(* The bits of a frame are read back as fields as they were written, for   *)
(* every width, block size, index and size of a byte.                      *)
(***************************************************************************)
EXTENDS FieldCache, BitCoding, SequenceQueue, FiniteSetTheorems, SequenceTheorems, TLAPS

-----------------------------------------------------------------------------
(* The reply queue *)

QueueInv == QueueTypeOK /\ EndIsLast /\ NoJunkQueued

(* What the three pushes and the pop preserve. *)
LEMMA QueueInvStep == QueueInv /\ [QueueNext]_queueVars => QueueInv'
<1> SUFFICES ASSUME QueueInv, [QueueNext]_queueVars
             PROVE  QueueInv'
    OBVIOUS
<1> USE QueueSizesAssumption, JunkAssumption DEF QueueInv, QueueTypeOK, EndIsLast, NoJunkQueued, Slot
<1>1. ASSUME NEW e \in Entry, PushEmpty(e)
      PROVE  QueueInv'
    BY <1>1 DEF PushEmpty
<1>2. ASSUME NEW e \in Entry, PushRoom(e)
      PROVE  QueueInv'
  <2>1. QueueTypeOK'
      BY <1>2 DEF PushRoom, After
  <2>2. EndIsLast'
      BY <1>2 DEF PushRoom, After
  <2>3. NoJunkQueued'
    <3> SUFFICES ASSUME NEW i \in 0 .. length
                 PROVE  queue'[Slot(i)] \in Entry
        BY <1>2 DEF PushRoom
    <3>1. CASE i = length
        BY <3>1, <1>2 DEF PushRoom, After
    <3>2. CASE i < length
      <4>1. Slot(i) # After(end)
          BY <3>2, <1>2 DEF PushRoom, After
      <4>2. QED BY <4>1, <3>2, <1>2 DEF PushRoom, After
    <3>3. QED BY <3>1, <3>2
  <2>4. QED BY <2>1, <2>2, <2>3
<1>3. ASSUME NEW e \in Entry, PushGrow(e)
      PROVE  QueueInv'
  <2>1. QueueTypeOK'
      BY <1>3 DEF PushGrow, Grown
  <2>2. EndIsLast'
      BY <1>3 DEF PushGrow
  <2>3. NoJunkQueued'
    <3> SUFFICES ASSUME NEW i \in 0 .. length
                 PROVE  queue'[i] \in Entry
        BY <2>1, <1>3 DEF PushGrow
    <3>1. CASE i = length
        BY <3>1, <1>3 DEF PushGrow, Grown
    <3>2. CASE i < length
      <4>1. queue'[i] = queue[Slot(i)]
          BY <3>2, <1>3 DEF PushGrow, Grown
      <4>2. QED BY <4>1, <3>2
    <3>3. QED BY <3>1, <3>2
  <2>4. QED BY <2>1, <2>2, <2>3
<1>4. ASSUME pop
      PROVE  QueueInv'
  <2>1. \A i \in 0 .. length - 2 : Slot(i)' = Slot(i + 1)
      BY <1>4 DEF pop, After
  <2>2. QED BY <2>1, <1>4 DEF pop, After
<1>5. CASE UNCHANGED queueVars
    BY <1>5 DEF queueVars
<1>6. QED BY <1>1, <1>2, <1>3, <1>4, <1>5 DEF QueueNext, push

(* The tail pointer is right, and no queued slot is unwritten memory, in
   every reachable state of the request queue. *)
THEOREM QueueSafe == QueueSpec => [](QueueTypeOK /\ EndIsLast /\ NoJunkQueued)
<1>1. QueueInit => QueueInv
    BY QueueSizesAssumption DEF QueueInit, QueueInv, QueueTypeOK, EndIsLast, NoJunkQueued
<1>2. QED BY <1>1, QueueInvStep, PTL DEF QueueSpec, QueueInv

(* The list of the queued elements is a sequence of entries. *)
LEMMA ContentsType ==
    QueueInv => Contents \in Seq(Entry) /\ Len(Contents) = length
<1> SUFFICES ASSUME QueueInv
             PROVE  Contents \in Seq(Entry) /\ Len(Contents) = length
    OBVIOUS
<1>1. length \in Nat
    BY DEF QueueInv, QueueTypeOK
<1>2. \A i \in 1 .. length : queue[Slot(i - 1)] \in Entry
    BY <1>1 DEF QueueInv, NoJunkQueued
<1>3. QED BY <1>1, <1>2 DEF Contents

(* One push appends one element, also when it reallocates the array, and one
   pop removes the oldest. *)
LEMMA ContentsStep == QueueInv /\ [QueueNext]_queueVars => [F!Next]_Contents
<1> SUFFICES ASSUME QueueInv, [QueueNext]_queueVars
             PROVE  [F!Next]_Contents
    OBVIOUS
<1>0. QueueInv'
    BY QueueInvStep
<1>a. /\ Contents \in Seq(Entry) /\ Len(Contents) = length
      /\ Contents' \in Seq(Entry) /\ Len(Contents') = length'
  <2>1. length' \in Nat
      BY <1>0 DEF QueueInv, QueueTypeOK
  <2>0. \A i \in 1 .. length' : queue'[Slot(i - 1)'] \in Entry
    <3>1. \A n \in Nat : \A i \in 1 .. n : i - 1 \in 0 .. n - 1
        OBVIOUS
    <3>2. \A i \in 1 .. length' : i - 1 \in 0 .. length' - 1
        BY <3>1, <2>1
    <3>3. QED BY <3>2, <1>0 DEF QueueInv, NoJunkQueued, Slot
  <2>2. Contents' \in Seq(Entry) /\ Len(Contents') = length'
      BY <2>1, <2>0 DEF Contents
  <2>3. QED BY <2>2, ContentsType
<1>b. /\ \A i \in 1 .. length : Contents[i] = queue[Slot(i - 1)]
      /\ \A i \in 1 .. length' : Contents'[i] = queue'[Slot(i - 1)']
    BY DEF Contents
<1>c. QueueTypeOK /\ EndIsLast /\ QueueTypeOK'
    BY <1>0 DEF QueueInv
<1> USE QueueSizesAssumption
<1>1. ASSUME NEW e \in Entry, push(e)
      PROVE  Contents' = Append(Contents, e)
  <2>1. length' = length + 1
      BY <1>1, <1>c DEF push, PushEmpty, PushRoom, PushGrow, QueueTypeOK
  <2>2. Contents'[length + 1] = e
    <3>1. \A k \in Nat : k = length => queue'[Slot(k)'] = e
      <4>1. CASE PushEmpty(e)
          BY <4>1, <1>c DEF PushEmpty, QueueTypeOK, Slot
      <4>2. CASE PushRoom(e)
          BY <4>2, <1>c DEF PushRoom, QueueTypeOK, Slot, After, EndIsLast
      <4>3. CASE PushGrow(e)
          BY <4>3, <1>c DEF PushGrow, QueueTypeOK, Slot, Grown
      <4>4. QED BY <1>1, <4>1, <4>2, <4>3 DEF push
    <3>2. length + 1 \in 1 .. length' /\ (length + 1) - 1 = length
        BY <2>1, <1>c DEF QueueTypeOK
    <3>3. QED BY <3>1, <3>2, <1>b
  <2>3. ASSUME NEW i \in 1 .. length
        PROVE  Contents'[i] = Contents[i]
    <3>1. CASE PushEmpty(e)
        BY <3>1, <1>c DEF PushEmpty, QueueTypeOK
    <3>2. CASE PushRoom(e)
      <4>1. Slot(i - 1) # After(end) /\ Slot(i - 1)' = Slot(i - 1)
          BY <3>2, <1>c DEF PushRoom, QueueTypeOK, Slot, After, EndIsLast
      <4>2. QED BY <4>1, <3>2, <1>b, <1>c, <2>1 DEF PushRoom, QueueTypeOK
    <3>3. CASE PushGrow(e)
      <4>1. Slot(i - 1)' = i - 1
          BY <3>3, <1>c DEF PushGrow, QueueTypeOK, Slot
      <4>2. i - 1 \in 0 .. length - 1
          BY <1>c DEF QueueTypeOK
      <4>3. \A j \in 0 .. length - 1 : queue'[j] = queue[Slot(j)]
          BY <3>3, <1>c DEF PushGrow, QueueTypeOK, Slot, Grown
      <4>4. i \in 1 .. length'
          BY <2>1, <1>c DEF QueueTypeOK
      <4>5. QED BY <4>1, <4>2, <4>3, <4>4, <1>b
    <3>4. QED BY <1>1, <3>1, <3>2, <3>3 DEF push
  <2>4. /\ Append(Contents, e) \in Seq(Entry)
        /\ Len(Append(Contents, e)) = length + 1
        /\ \A i \in 1 .. length : Append(Contents, e)[i] = Contents[i]
        /\ Append(Contents, e)[length + 1] = e
      BY <1>a, AppendProperties
  <2>5. \A i \in 1 .. length + 1 : Contents'[i] = Append(Contents, e)[i]
      BY <2>2, <2>3, <2>4, <1>c DEF QueueTypeOK
  <2>6. QED BY <2>1, <2>4, <2>5, <1>a, SeqEqual
<1>2. ASSUME pop
      PROVE  Contents # << >> /\ Contents' = Tail(Contents)
  <2>1. length' = length - 1 /\ length # 0
      BY <1>2 DEF pop
  <2>2. Contents # << >>
      BY <2>1, <1>a
  <2>3. /\ Tail(Contents) \in Seq(Entry)
        /\ Len(Tail(Contents)) = length - 1
        /\ \A i \in 1 .. length - 1 : Tail(Contents)[i] = Contents[i + 1]
      BY <1>a, <2>2, HeadTailProperties
  <2>4. \A i \in 1 .. length - 1 : Slot(i - 1)' = Slot(i)
      BY <1>2, <1>c DEF pop, QueueTypeOK, Slot, After
  <2>5. \A i \in 1 .. length - 1 : Contents'[i] = Contents[i + 1]
    <3>1. \A i \in 1 .. length - 1 : Contents'[i] = queue[Slot(i)]
        BY <2>4, <2>1, <1>2, <1>b DEF pop
    <3>2. \A i \in 1 .. length - 1 : i + 1 \in 1 .. length /\ (i + 1) - 1 = i
        BY <1>c DEF QueueTypeOK
    <3>3. QED BY <3>1, <3>2, <1>b
  <2>6. QED BY <2>1, <2>2, <2>3, <2>5, <1>a, SeqEqual
<1>3. ASSUME UNCHANGED queueVars
      PROVE  Contents' = Contents
    BY <1>3 DEF queueVars, Contents, Slot
<1>4. QED BY <1>1, <1>2, <1>3 DEF QueueNext, F!Next, F!Push, F!Pop

(* The circular array implements the first-in first-out list. *)
THEOREM QueueIsFifo == QueueSpec => IsFifo
<1>1. QueueInit => QueueInv /\ F!Init
    BY QueueSizesAssumption
       DEF QueueInit, QueueInv, QueueTypeOK, EndIsLast, NoJunkQueued, F!Init, Contents
<1>2. QED BY <1>1, QueueInvStep, ContentsStep, PTL DEF QueueSpec, IsFifo, F!Spec

-----------------------------------------------------------------------------
(* Arithmetic modulo the width of a field *)

(* Two numbers of a field that differ by a multiple of its modulus are one. *)
LEMMA SameResidue ==
    ASSUME NEW m \in Nat \ {0}, NEW a \in 0 .. m - 1, NEW b \in 0 .. m - 1,
           NEW k \in Int, a - b = m * k
    PROVE  a = b
<1>1. CASE k >= 1
  <2>1. m * k >= m
      BY <1>1, SMT
  <2>2. QED BY <2>1
<1>2. CASE k <= -1
  <2>1. m * k <= -m
      BY <1>2, SMT
  <2>2. QED BY <2>1
<1>3. CASE k = 0
    BY <1>3
<1>4. QED BY <1>1, <1>2, <1>3

(* A difference taken modulo m and added again gives the value back, whatever
   it was taken from. *)
LEMMA DifferenceReturns ==
    ASSUME NEW m \in Nat \ {0}, NEW v \in 0 .. m - 1, NEW last \in Int
    PROVE  /\ (v - last) % m \in 0 .. m - 1
           /\ (last + ((v - last) % m)) % m = v
<1> DEFINE r == (v - last) % m
           q == (v - last) \div m
           s == (last + r) % m
           p == (last + r) \div m
<1>1. r \in 0 .. m - 1 /\ q \in Int /\ v - last = m * q + r
    BY SMT
<1>2. s \in 0 .. m - 1 /\ p \in Int /\ last + r = m * p + s
    BY <1>1, SMT
<1>3. p + q \in Int
    BY <1>1, <1>2
<1>4. v - s = m * q + m * p
    BY <1>1, <1>2
<1>5. m * q + m * p = m * (p + q)
    BY <1>1, <1>2, SMT
<1>6. v = s
    BY <1>2, <1>3, <1>4, <1>5, SameResidue
<1>7. QED BY <1>1, <1>6

(* The two halves of a number made of a high and a low part. *)
LEMMA Halves ==
    ASSUME NEW m \in Nat \ {0}, NEW h \in Nat, NEW l \in 0 .. m - 1
    PROVE  (h * m + l) \div m = h /\ (h * m + l) % m = l
<1> DEFINE n == h * m + l
           q == n \div m
           r == n % m
<1>1. h * m \in Nat /\ m * h = h * m /\ n \in Nat
    BY SMT
<1>2. q \in Int /\ r \in 0 .. m - 1 /\ n = m * q + r
    BY <1>1, SMT
<1>3. l - r = m * q - m * h
    BY <1>1, <1>2
<1>4. m * q - m * h = m * (q - h)
    BY <1>1, <1>2, SMT
<1>5. l = r
  <2> DEFINE k == q - h
  <2>1. k \in Int /\ l - r = m * k
      BY <1>2, <1>3, <1>4
  <2> HIDE DEF k, r, n
  <2>2. QED BY <1>2, <2>1, SameResidue
<1>6. m * (q - h) = 0
    BY <1>3, <1>4, <1>5, <1>2
<1>7. q = h
    BY <1>6, <1>2, SMT
<1>8. QED BY <1>5, <1>7

-----------------------------------------------------------------------------
(* Lists *)

LEMMA MovedUpType ==
    ASSUME NEW b \in Seq(Nat), NEW i \in 1 .. Len(b)
    PROVE  MovedUp(b, i) \in Seq(Nat) /\ Len(MovedUp(b, i)) = Len(b)
<1> DEFINE t == (i - 1) \div 2 + 1
<1>1. t \in Int /\ 1 <= t /\ t <= i
    OBVIOUS
<1> HIDE DEF t
<1>2. \A k \in 1 .. Len(b) :
          (IF k = t THEN b[i] ELSE IF t < k /\ k <= i THEN b[k - 1] ELSE b[k]) \in Nat
    BY <1>1
<1>3. MovedUp(b, i) = [k \in 1 .. Len(b) |->
          IF k = t THEN b[i] ELSE IF t < k /\ k <= i THEN b[k - 1] ELSE b[k]]
    BY DEF MovedUp, t
<1>4. Len(b) \in Nat
    OBVIOUS
<1>5. MovedUp(b, i) \in [1 .. Len(b) -> Nat]
    BY <1>2, <1>3
<1>6. QED BY <1>4, <1>5

LEMMA InsertedAtType ==
    ASSUME NEW b \in Seq(Nat), NEW limit \in Nat, NEW v \in Nat,
           NEW p \in 1 .. Len(b) + 1, Len(b) <= limit
    PROVE  InsertedAt(b, p, v, limit) \in Seq(Nat) /\ Len(InsertedAt(b, p, v, limit)) <= limit
<1> DEFINE n == IF Len(b) >= limit THEN limit ELSE Len(b) + 1
<1>1. n \in Nat /\ n <= limit /\ n <= Len(b) + 1
    OBVIOUS
<1>2. InsertedAt(b, p, v, limit) = [k \in 1 .. n |->
          IF k = p THEN v ELSE IF k > p THEN b[k - 1] ELSE b[k]]
    BY DEF InsertedAt
<1> HIDE DEF n
<1>3. \A k \in 1 .. n : (IF k = p THEN v ELSE IF k > p THEN b[k - 1] ELSE b[k]) \in Nat
    BY <1>1
<1>4. InsertedAt(b, p, v, limit) \in [1 .. n -> Nat]
    BY <1>2, <1>3
<1>5. QED BY <1>1, <1>4

LEMMA InsertionPointType ==
    ASSUME NEW b \in Seq(Nat)
    PROVE  InsertionPoint(b) \in 1 .. Len(b) + 1
BY DEF InsertionPoint

LEMMA BlockSizeType == \A d, m : BlockSize(d, m) \in Nat
<1> TAKE d, m
<1> DEFINE upTo == {k \in 0 .. WordBits - 1 :
                    \E j \in 1 .. WordBits - 1 : k <= j /\ 2^j < m /\ Changes(d, j)}
<1>1. IsFiniteSet(0 .. WordBits - 1)
    BY FS_Interval, ModuliAssumption
<1>2. IsFiniteSet(upTo)
    BY <1>1, FS_Subset
<1>3. Cardinality(upTo) \in Nat
    BY <1>2, FS_CardinalityType
<1> HIDE DEF upTo
<1>4. BlockSize(d, m) = IF Cardinality(upTo) < 2 THEN 2 ELSE Cardinality(upTo)
    BY DEF BlockSize, upTo
<1>5. QED BY <1>3, <1>4

-----------------------------------------------------------------------------
(* One IntCache *)

LEMMA MovedType ==
    ASSUME NEW c \in IntCaches, NEW i \in 1 .. Len(c.buffer)
    PROVE  Moved(c, i) \in IntCaches
BY MovedUpType DEF Moved, IntCaches

LEMMA PushedType ==
    ASSUME NEW c \in IntCaches, NEW v \in Nat
    PROVE  Pushed(c, v) \in IntCaches
<1>1. 1 \in 1 .. Len(c.buffer) + 1
    BY DEF IntCaches
<1>2. QED BY <1>1, InsertedAtType, SizeAssumption DEF Pushed, IntCaches

LEMMA RememberedType ==
    ASSUME NEW c \in IntCaches, NEW v \in Nat, NEW d \in Nat, NEW m
    PROVE  Remembered(c, v, d, m) \in IntCaches
<1>1. c.buffer \in Seq(Nat) /\ Len(c.buffer) <= IntSize /\ c.block \in Nat
    BY DEF IntCaches
<1> DEFINE b == InsertedAt(c.buffer, InsertionPoint(c.buffer), v, IntSize)
           k == IF d # c.lastDiff THEN BlockSize(d, m) ELSE c.block
<1>2. b \in Seq(Nat) /\ Len(b) <= IntSize
    BY <1>1, InsertionPointType, InsertedAtType, SizeAssumption
<1>3. k \in Nat
    BY <1>1, BlockSizeType
<1> HIDE DEF b, k
<1>4. Remembered(c, v, d, m) = [buffer |-> b, lastDiff |-> d,
                                lastValueInserted |-> v, block |-> k]
    BY DEF Remembered, b, k
<1>5. QED BY <1>2, <1>3, <1>4 DEF IntCaches

LEMMA TokenTypes ==
    /\ \A i \in Nat : Hit(i) \in Token
    /\ \A d, b \in Nat : Miss(d, b) \in Token
BY DEF Hit, Miss, Token

(* What lookup writes, decodeCachedValue reads, with the same cache after it. *)
LEMMA CachedRoundTrip ==
    ASSUME NEW c \in IntCaches, NEW m \in Nat \ {0}, NEW v \in 0 .. m - 1,
           NEW limit \in Nat, NEW e \in Encodings(c, v, m, limit)
    PROVE  /\ e.cache \in IntCaches /\ e.token \in Token
           /\ Decodings(c, e.token, m, limit) = {[value |-> v, cache |-> e.cache]}
<1> DEFINE places == {i \in 1 .. Len(c.buffer) : FoundAt(c.buffer, v, i)}
           diff == (v - c.lastValueInserted) % m
           block == getBlockSize(c, limit)
<1>1. CASE places # {}
  <2>1. Encodings(c, v, m, limit)
            = {[token |-> Hit(i), cache |-> Moved(c, i)] : i \in places}
      BY <1>1 DEF Encodings
  <2>2. PICK i \in places : e = [token |-> Hit(i), cache |-> Moved(c, i)]
      BY <2>1
  <2>3. i \in 1 .. Len(c.buffer) /\ c.buffer[i] = v
      BY DEF FoundAt
  <2>4. e.cache = Moved(c, i) /\ e.token.hit /\ e.token.index = i
      BY <2>2 DEF Hit
  <2>5. {e.token.index} \cap (1 .. Len(c.buffer)) = {i}
      BY <2>3, <2>4
  <2>6. Decodings(c, e.token, m, limit)
          = {[value |-> c.buffer[j], cache |-> Moved(c, j)] : j \in {i}}
      BY <2>4, <2>5, Zenon DEF Decodings
  <2>7. e.token \in Token
    <3>1. i \in Nat
        BY <2>3 DEF IntCaches
    <3>2. QED BY <2>2, <3>1, TokenTypes
  <2>8. QED BY <2>3, <2>4, <2>6, <2>7, MovedType
<1>2. CASE places = {}
  <2>1. e = [token |-> Miss(diff, block), cache |-> Remembered(c, v, diff, m)]
      BY <1>2 DEF Encodings, Missed
  <2> DEFINE last == c.lastValueInserted
  <2>2. last \in Int
      BY DEF IntCaches
  <2> HIDE DEF last
  <2>3. (v - last) % m \in 0 .. m - 1 /\ (last + ((v - last) % m)) % m = v
      BY <2>2, DifferenceReturns
  <2> USE DEF last
  <2>4. diff \in 0 .. m - 1 /\ (c.lastValueInserted + diff) % m = v
      BY <2>3
  <2> HIDE DEF diff, block, last
  <2>5. ~ e.token.hit /\ e.token.diff = diff /\ e.token.block = block
        /\ e.cache = Remembered(c, v, diff, m)
      BY <2>1 DEF Miss
  <2>6. Decodings(c, e.token, m, limit) = {Inserted(c, d, m) : d \in {diff}}
      BY <2>5 DEF Decodings, block
  <2>7. Inserted(c, diff, m) = [value |-> v, cache |-> Remembered(c, v, diff, m)]
      BY <2>4 DEF Inserted
  <2>8. e.cache \in IntCaches
      BY <2>4, <2>5, RememberedType
  <2>9. block \in Nat
      BY DEF block, getBlockSize, IntCaches
  <2>10. e.token \in Token
      BY <2>1, <2>4, <2>9, TokenTypes
  <2>11. QED BY <2>5, <2>6, <2>7, <2>8, <2>10
<1>3. QED BY <1>1, <1>2

-----------------------------------------------------------------------------
(* The caches built from lists *)

LEMMA SeriesRoundTrip ==
    ASSUME NEW s \in Series, NEW m \in Nat \ {0}, NEW v \in 0 .. m - 1,
           NEW e \in SeriesEncodings(s, v, m)
    PROVE  /\ e.cache \in Series /\ e.token \in Token
           /\ SeriesDecodings(s, e.token, m) = {[value |-> v, cache |-> e.cache]}
<1> DEFINE step == ((v - 1) - s.previous) % m
           base == s.previous + 1
<1>1. s.previous \in Nat /\ base \in Int /\ s.cache \in IntCaches
    BY DEF Series
<1> HIDE DEF base
<1>2. (v - base) % m \in 0 .. m - 1 /\ (base + ((v - base) % m)) % m = v
    BY <1>1, DifferenceReturns
<1>3. v - base = (v - 1) - s.previous
    BY <1>1 DEF base
<1>4. step \in 0 .. m - 1 /\ (base + step) % m = v
    BY <1>2, <1>3
<1> HIDE DEF step
<1>5. s.previous + (step + 1) = base + step
    BY <1>1, <1>4 DEF base
<1>6. PICK x \in Encodings(s.cache, step, m, 0) :
          e = [token |-> x.token, cache |-> [previous |-> v, cache |-> x.cache]]
    BY DEF SeriesEncodings, step
<1>7. /\ x.cache \in IntCaches /\ x.token \in Token
      /\ Decodings(s.cache, x.token, m, 0) = {[value |-> step, cache |-> x.cache]}
  <2> DEFINE c == s.cache
  <2>1. c \in IntCaches /\ x \in Encodings(c, step, m, 0) /\ 0 \in Nat
      BY <1>1, <1>6
  <2> HIDE DEF c
  <2>2. /\ x.cache \in IntCaches /\ x.token \in Token
        /\ Decodings(c, x.token, m, 0) = {[value |-> step, cache |-> x.cache]}
      BY <1>4, <2>1, CachedRoundTrip
  <2>3. QED BY <2>2 DEF c
<1>8. e.token = x.token /\ e.cache = [previous |-> v, cache |-> x.cache]
    BY <1>6
<1> DEFINE D(d) == LET value == (s.previous + (d.value + 1)) % m
                   IN  [value |-> value, cache |-> [previous |-> value, cache |-> d.cache]]
           d0 == [value |-> step, cache |-> x.cache]
<1>9. SeriesDecodings(s, e.token, m) = {D(d) : d \in {d0}}
    BY <1>7, <1>8 DEF SeriesDecodings
<1>10. D(d0) = [value |-> v, cache |-> [previous |-> v, cache |-> x.cache]]
    BY <1>4, <1>5
<1> HIDE DEF D, d0
<1>11. QED BY <1>7, <1>8, <1>9, <1>10 DEF Series

LEMMA SlottedRoundTrip ==
    ASSUME NEW s \in Slotted, NEW m \in Nat \ {0}, NEW v \in 0 .. m - 1,
           NEW e \in SlottedEncodings(s, v, m)
    PROVE  /\ e.cache \in Slotted /\ e.token \in Token
           /\ SlottedDecodings(s, e.token, m) = {[value |-> v, cache |-> e.cache]}
<1> DEFINE last == s.last
           step == (v - last) % m
           c == s.base[s.slot]
           With(x) == [base |-> [s.base EXCEPT ![s.slot] = x],
                        slot |-> v % SlotModulus, last |-> v]
<1>1. last \in Int /\ c \in IntCaches /\ s.slot \in 0 .. SlotModulus - 1
  <2>1. s.base \in [0 .. SlotModulus - 1 -> IntCaches] /\ s.slot \in 0 .. SlotModulus - 1
        /\ s.last \in Nat
      BY DEF Slotted
  <2>2. c \in IntCaches
      BY <2>1, Zenon
  <2>3. last \in Int
      BY <2>1
  <2>4. QED BY <2>1, <2>2, <2>3
<1> HIDE DEF last
<1>2. step \in 0 .. m - 1 /\ (last + step) % m = v
    BY <1>1, DifferenceReturns
<1> HIDE DEF step, c
<1>3. PICK x \in Encodings(c, step, m, 0) :
          e = [token |-> x.token, cache |-> With(x.cache)]
    BY DEF SlottedEncodings, step, last, c
<1>4. /\ x.cache \in IntCaches /\ x.token \in Token
      /\ Decodings(c, x.token, m, 0) = {[value |-> step, cache |-> x.cache]}
    BY <1>1, <1>2, CachedRoundTrip
<1>5. e.token = x.token /\ e.cache = With(x.cache)
    BY <1>3
<1> DEFINE D(d) == LET value == (last + d.value) % m
                   IN  [value |-> value,
                        cache |-> [base |-> [s.base EXCEPT ![s.slot] = d.cache],
                                   slot |-> value % SlotModulus, last |-> value]]
           d0 == [value |-> step, cache |-> x.cache]
<1>6. SlottedDecodings(s, e.token, m) = {D(d) : d \in {d0}}
    BY <1>4, <1>5 DEF SlottedDecodings, last, c
<1>7. D(d0) = [value |-> v, cache |-> With(x.cache)]
    BY <1>2
<1>8. v % SlotModulus \in 0 .. SlotModulus - 1 /\ v \in Nat
    BY ModuliAssumption
<1>9. With(x.cache) \in Slotted
    BY <1>1, <1>4, <1>8 DEF Slotted
<1> HIDE DEF D, d0, With
<1>10. QED BY <1>4, <1>5, <1>6, <1>7, <1>9

LEMMA SlottedPushType ==
    ASSUME NEW s \in Slotted, NEW m \in Nat \ {0}, NEW v \in 0 .. m - 1
    PROVE  SlottedPush(s, v, m) \in Slotted
<1> DEFINE k == v % SlotModulus
           d == (v - s.last) % m
<1>1. k \in 0 .. SlotModulus - 1 /\ v \in Nat
    BY ModuliAssumption
<1>2. d \in Nat
    BY DEF Slotted
<1> HIDE DEF k, d
<1>3. Pushed(s.base[k], d) \in IntCaches
    BY <1>1, <1>2, PushedType DEF Slotted
<1>4. SlottedPush(s, v, m) = [base |-> [s.base EXCEPT ![k] = Pushed(@, d)],
                              slot |-> k, last |-> v]
    BY DEF SlottedPush, k, d
<1>5. QED BY <1>1, <1>3, <1>4 DEF Slotted

LEMMA OpcodeRoundTrip ==
    ASSUME NEW o \in OpcodeCaches, NEW v \in 0 .. CharModulus - 1,
           NEW e \in OpcodeEncodings(o, v)
    PROVE  /\ e.cache \in OpcodeCaches /\ e.token \in Token
           /\ OpcodeDecodings(o, e.token) = {[value |-> v, cache |-> e.cache]}
<1> DEFINE b == o.base[o.slot]
           places == {i \in 1 .. Len(b) : FoundAt(b, v, i)}
           With(list) == [base |-> [o.base EXCEPT ![o.slot] = list], slot |-> v]
           Inserted3 == InsertedAt(b, InsertionPoint(b), v, CharSize)
<1>1. b \in Seq(Nat) /\ Len(b) <= CharSize /\ o.slot \in 0 .. CharModulus - 1 /\ v \in Nat
    BY ModuliAssumption DEF OpcodeCaches
<1>2. \A list \in Seq(Nat) : Len(list) <= CharSize => With(list) \in OpcodeCaches
    BY <1>1 DEF OpcodeCaches
<1>3. CASE places # {}
  <2>1. PICK i \in places : e = [token |-> Hit(i), cache |-> With(MovedUp(b, i))]
      BY <1>3 DEF OpcodeEncodings
  <2>2. i \in 1 .. Len(b) /\ b[i] = v
      BY DEF FoundAt
  <2> HIDE DEF b, places, With
  <2>3. e.cache = With(MovedUp(b, i)) /\ e.token.hit /\ e.token.index = i
      BY <2>1 DEF Hit
  <2>4. {e.token.index} \cap (1 .. Len(b)) = {i}
      BY <2>2, <2>3
  <2>5. OpcodeDecodings(o, e.token)
            = {[value |-> b[j], cache |-> [base |-> [o.base EXCEPT ![o.slot] = MovedUp(b, j)],
                                           slot |-> b[j]]] : j \in {i}}
      BY <2>3, <2>4 DEF OpcodeDecodings, b
  <2>6. OpcodeDecodings(o, e.token) = {[value |-> v, cache |-> With(MovedUp(b, i))]}
      BY <2>2, <2>5 DEF With
  <2>7. MovedUp(b, i) \in Seq(Nat) /\ Len(MovedUp(b, i)) <= CharSize
      BY <1>1, <2>2, MovedUpType
  <2>8. e.token \in Token
    <3>1. i \in Nat
        BY <1>1, <2>2
    <3>2. QED BY <2>1, <3>1, TokenTypes
  <2>9. QED BY <1>2, <2>3, <2>6, <2>7, <2>8
<1>4. CASE places = {}
  <2>1. e = [token |-> Miss(v, 0), cache |-> With(Inserted3)]
      BY <1>4 DEF OpcodeEncodings
  <2>2. ~ e.token.hit /\ e.token.diff = v /\ e.cache = With(Inserted3)
      BY <2>1 DEF Miss
  <2>3. OpcodeDecodings(o, e.token) = {[value |-> v, cache |-> With(Inserted3)]}
      BY <2>2 DEF OpcodeDecodings
  <2>4. Inserted3 \in Seq(Nat) /\ Len(Inserted3) <= CharSize
      BY <1>1, InsertionPointType, InsertedAtType, SizeAssumption
  <2>5. e.token \in Token
      BY <1>1, <2>1, TokenTypes
  <2>6. QED BY <1>2, <2>2, <2>3, <2>4, <2>5
<1>5. QED BY <1>3, <1>4

-----------------------------------------------------------------------------
(* One field of any kind *)

(* What a side writes for a field, the other reads as the same field, and both
   have the same caches after it. *)
LEMMA FieldRoundTrip ==
    ASSUME NEW s \in Caches, NEW f \in Field, NEW e \in FieldEncodings(s, f)
    PROVE  /\ e.caches \in Caches /\ e.token \in Token
           /\ FieldDecodings(s, Place(f), e.token) = {[field |-> f, caches |-> e.caches]}
<1> USE ModuliAssumption
<1>1. /\ s.value \in IntCaches /\ s.opcode \in OpcodeCaches /\ s.ids \in Series
      /\ s.free \in IntCaches /\ s.xid \in Slotted /\ s.action \in Slotted
    BY DEF Caches
<1>2. f \in ValueFields \/ f \in XidFields \/ f \in ActionFields \/ f \in OpcodeFields
    BY DEF Field
<1>3. CASE f \in ValueFields
  <2>1. /\ f.kind = "value" /\ f.limit \in Nat
        /\ f.modulus \in Nat \ {0} /\ f.value \in 0 .. f.modulus - 1
        /\ f = [kind |-> "value", modulus |-> f.modulus, limit |-> f.limit, value |-> f.value]
      BY <1>3 DEF ValueFields
  <2>2. PICK x \in Encodings(s.value, f.value, f.modulus, f.limit) :
            e = [token |-> x.token, caches |-> [s EXCEPT !.value = x.cache]]
      BY <2>1 DEF FieldEncodings
  <2>3. /\ x.cache \in IntCaches /\ x.token \in Token
        /\ Decodings(s.value, x.token, f.modulus, f.limit)
               = {[value |-> f.value, cache |-> x.cache]}
      BY <1>1, <2>1, CachedRoundTrip
  <2>4. Place(f) = [kind |-> "value", modulus |-> f.modulus, limit |-> f.limit]
      BY <2>1 DEF Place
  <2>5. FieldDecodings(s, Place(f), e.token) =
            {[field |-> [kind |-> "value", modulus |-> f.modulus, limit |-> f.limit,
                         value |-> d.value],
              caches |-> [s EXCEPT !.value = d.cache]] :
                d \in {[value |-> f.value, cache |-> x.cache]}}
      BY <2>2, <2>3, <2>4 DEF FieldDecodings
  <2>6. FieldDecodings(s, Place(f), e.token)
            = {[field |-> f, caches |-> [s EXCEPT !.value = x.cache]]}
      BY <2>1, <2>5
  <2>7. QED BY <2>2, <2>3, <2>6 DEF Caches
<1>4. ASSUME f \in XidFields, f.kind = "xid"
      PROVE  /\ e.caches \in Caches /\ e.token \in Token
             /\ FieldDecodings(s, Place(f), e.token) = {[field |-> f, caches |-> e.caches]}
  <2>1. f.value \in 0 .. XidModulus - 1 /\ f = [kind |-> "xid", value |-> f.value]
      BY <1>4 DEF XidFields
  <2>2. PICK x \in SlottedEncodings(s.xid, f.value, XidModulus) :
            e = [token |-> x.token, caches |-> [s EXCEPT !.xid = x.cache]]
      BY <1>4 DEF FieldEncodings
  <2>3. /\ x.cache \in Slotted /\ x.token \in Token
        /\ SlottedDecodings(s.xid, x.token, XidModulus)
               = {[value |-> f.value, cache |-> x.cache]}
      BY <1>1, <2>1, SlottedRoundTrip
  <2>4. FieldDecodings(s, Place(f), e.token) =
            {[field |-> [kind |-> "xid", value |-> d.value],
              caches |-> [s EXCEPT !.xid = d.cache]] :
                d \in {[value |-> f.value, cache |-> x.cache]}}
      BY <1>4, <2>2, <2>3 DEF FieldDecodings, Place
  <2>5. QED BY <2>1, <2>2, <2>3, <2>4 DEF Caches
<1>5. ASSUME f \in XidFields, f.kind = "freexid"
      PROVE  /\ e.caches \in Caches /\ e.token \in Token
             /\ FieldDecodings(s, Place(f), e.token) = {[field |-> f, caches |-> e.caches]}
  <2>1. f.value \in 0 .. XidModulus - 1 /\ f = [kind |-> "freexid", value |-> f.value]
      BY <1>5 DEF XidFields
  <2>2. PICK x \in Encodings(s.free, f.value, XidModulus, 0) :
            e = [token |-> x.token, caches |-> [s EXCEPT !.free = x.cache]]
      BY <1>5 DEF FieldEncodings
  <2>3. /\ x.cache \in IntCaches /\ x.token \in Token
        /\ Decodings(s.free, x.token, XidModulus, 0)
               = {[value |-> f.value, cache |-> x.cache]}
      BY <1>1, <2>1, CachedRoundTrip
  <2>4. FieldDecodings(s, Place(f), e.token) =
            {[field |-> [kind |-> "freexid", value |-> d.value],
              caches |-> [s EXCEPT !.free = d.cache]] :
                d \in {[value |-> f.value, cache |-> x.cache]}}
      BY <1>5, <2>2, <2>3 DEF FieldDecodings, Place
  <2>5. QED BY <2>1, <2>2, <2>3, <2>4 DEF Caches
<1>6. ASSUME f \in XidFields, f.kind = "newid"
      PROVE  /\ e.caches \in Caches /\ e.token \in Token
             /\ FieldDecodings(s, Place(f), e.token) = {[field |-> f, caches |-> e.caches]}
  <2>1. f.value \in 0 .. XidModulus - 1 /\ f = [kind |-> "newid", value |-> f.value]
        /\ f.value \in Nat
      BY <1>6 DEF XidFields
  <2>2. PICK x \in SeriesEncodings(s.ids, f.value, XidModulus) :
            e = [token |-> x.token, caches |-> NewIdPushed(s, x.cache, f)]
      BY <1>6 DEF FieldEncodings
  <2>3. /\ x.cache \in Series /\ x.token \in Token
        /\ SeriesDecodings(s.ids, x.token, XidModulus)
               = {[value |-> f.value, cache |-> x.cache]}
      BY <1>1, <2>1, SeriesRoundTrip
  <2> DEFINE Read(d) == [kind |-> "newid", value |-> d.value]
             d0 == [value |-> f.value, cache |-> x.cache]
  <2>4. FieldDecodings(s, Place(f), e.token) =
            {[field |-> Read(d), caches |-> NewIdPushed(s, d.cache, Read(d))] : d \in {d0}}
      BY <1>6, <2>2, <2>3 DEF FieldDecodings, Place
  <2>5. Read(d0) = f /\ d0.cache = x.cache
      BY <2>1
  <2> HIDE DEF Read, d0
  <2>6. FieldDecodings(s, Place(f), e.token)
            = {[field |-> f, caches |-> NewIdPushed(s, x.cache, f)]}
      BY <2>4, <2>5
  <2>7. Pushed(s.value, f.value) \in IntCaches /\ Pushed(s.free, f.value) \in IntCaches
      BY <1>1, <2>1, PushedType
  <2>8. NewIdPushed(s, x.cache, f) \in Caches
      BY <2>3, <2>7 DEF NewIdPushed, Caches
  <2>9. QED BY <2>2, <2>3, <2>6, <2>8
<1>7. ASSUME f \in XidFields, f.kind = "newxid"
      PROVE  /\ e.caches \in Caches /\ e.token \in Token
             /\ FieldDecodings(s, Place(f), e.token) = {[field |-> f, caches |-> e.caches]}
  <2>1. f.value \in 0 .. XidModulus - 1 /\ f = [kind |-> "newxid", value |-> f.value]
        /\ f.value \in Nat
      BY <1>7 DEF XidFields
  <2>2. PICK x \in SeriesEncodings(s.ids, f.value, XidModulus) :
            e = [token |-> x.token, caches |-> NewXidPushed(s, x.cache, f)]
      BY <1>7 DEF FieldEncodings
  <2>3. /\ x.cache \in Series /\ x.token \in Token
        /\ SeriesDecodings(s.ids, x.token, XidModulus)
               = {[value |-> f.value, cache |-> x.cache]}
      BY <1>1, <2>1, SeriesRoundTrip
  <2> DEFINE Read(d) == [kind |-> "newxid", value |-> d.value]
             d0 == [value |-> f.value, cache |-> x.cache]
  <2>4. FieldDecodings(s, Place(f), e.token) =
            {[field |-> Read(d), caches |-> NewXidPushed(s, d.cache, Read(d))] : d \in {d0}}
      BY <1>7, <2>2, <2>3 DEF FieldDecodings, Place
  <2>5. Read(d0) = f /\ d0.cache = x.cache
      BY <2>1
  <2> HIDE DEF Read, d0
  <2>6. FieldDecodings(s, Place(f), e.token)
            = {[field |-> f, caches |-> NewXidPushed(s, x.cache, f)]}
      BY <2>4, <2>5
  <2>7. /\ SlottedPush(s.xid, f.value, XidModulus) \in Slotted
        /\ Pushed(s.free, f.value) \in IntCaches
      BY <1>1, <2>1, PushedType, SlottedPushType
  <2>8. NewXidPushed(s, x.cache, f) \in Caches
      BY <2>3, <2>7 DEF NewXidPushed, Caches
  <2>9. QED BY <2>2, <2>3, <2>6, <2>8
<1>8. CASE f \in ActionFields
  <2> DEFINE v == f.value * PositionModulus + f.position
  <2>1. /\ f.kind = "action" /\ f.value \in Nat /\ f.position \in 0 .. PositionModulus - 1
        /\ f = [kind |-> "action", value |-> f.value, position |-> f.position]
        /\ v < ActionModulus
      BY <1>8 DEF ActionFields
  <2>2. f.value * PositionModulus \in Nat
      BY <2>1, SMT
  <2>3. v \in 0 .. ActionModulus - 1
      BY <2>1, <2>2
  <2>4. v \div PositionModulus = f.value /\ v % PositionModulus = f.position
      BY <2>1, Halves
  <2>5. PICK x \in SlottedEncodings(s.action, v, ActionModulus) :
            e = [token |-> x.token, caches |-> [s EXCEPT !.action = x.cache]]
      BY <2>1 DEF FieldEncodings
  <2> HIDE DEF v
  <2>6. /\ x.cache \in Slotted /\ x.token \in Token
        /\ SlottedDecodings(s.action, x.token, ActionModulus)
               = {[value |-> v, cache |-> x.cache]}
      BY <1>1, <2>3, SlottedRoundTrip
  <2>7. FieldDecodings(s, Place(f), e.token) =
            {[field |-> [kind |-> "action", value |-> d.value \div PositionModulus,
                         position |-> d.value % PositionModulus],
              caches |-> [s EXCEPT !.action = d.cache]] :
                d \in {[value |-> v, cache |-> x.cache]}}
      BY <2>1, <2>5, <2>6 DEF FieldDecodings, Place
  <2>8. FieldDecodings(s, Place(f), e.token)
            = {[field |-> f, caches |-> [s EXCEPT !.action = x.cache]]}
      BY <2>1, <2>4, <2>7
  <2>9. QED BY <2>5, <2>6, <2>8 DEF Caches
<1>9. CASE f \in OpcodeFields
  <2>1. /\ f.kind = "opcode" /\ f.value \in 0 .. CharModulus - 1
        /\ f = [kind |-> "opcode", value |-> f.value]
      BY <1>9 DEF OpcodeFields
  <2>2. PICK x \in OpcodeEncodings(s.opcode, f.value) :
            e = [token |-> x.token, caches |-> [s EXCEPT !.opcode = x.cache]]
      BY <2>1 DEF FieldEncodings
  <2>3. /\ x.cache \in OpcodeCaches /\ x.token \in Token
        /\ OpcodeDecodings(s.opcode, x.token) = {[value |-> f.value, cache |-> x.cache]}
      BY <1>1, <2>1, OpcodeRoundTrip
  <2>4. FieldDecodings(s, Place(f), e.token) =
            {[field |-> [kind |-> "opcode", value |-> d.value],
              caches |-> [s EXCEPT !.opcode = d.cache]] :
                d \in {[value |-> f.value, cache |-> x.cache]}}
      BY <2>1, <2>2, <2>3 DEF FieldDecodings, Place
  <2>5. QED BY <2>1, <2>2, <2>3, <2>4 DEF Caches
<1>10. f \in XidFields => f.kind \in {"newid", "newxid", "xid", "freexid"}
    BY DEF XidFields
<1>11. QED BY <1>2, <1>3, <1>4, <1>5, <1>6, <1>7, <1>8, <1>9, <1>10

-----------------------------------------------------------------------------
(* The invariant and the theorems *)

LEMMA InitialCaches == NewCaches \in Caches
<1>1. << >> \in Seq(Nat) /\ Len(<< >>) = 0
    OBVIOUS
<1>2. NewIntCache \in IntCaches
    BY <1>1, SizeAssumption DEF NewIntCache, IntCaches
<1>3. 0 \in 0 .. SlotModulus - 1 /\ 0 \in 0 .. CharModulus - 1
    BY ModuliAssumption
<1>4. NewSlotted \in Slotted
    BY <1>2, <1>3 DEF NewSlotted, Slotted
<1>5. NewSeries \in Series
    BY <1>2 DEF NewSeries, Series
<1>6. NewOpcodeCache \in OpcodeCaches
    BY <1>1, <1>3, SizeAssumption DEF NewOpcodeCache, OpcodeCaches
<1>7. QED BY <1>2, <1>4, <1>5, <1>6 DEF NewCaches, Caches

Inv == TypeOK /\ CachesInStep

LEMMA InitInv == Init => Inv
<1> SUFFICES ASSUME Init PROVE Inv
    OBVIOUS
<1>1. wire = << >> /\ history = << >> /\ enc = dec /\ enc \in Caches /\ out = Null /\ sent = 0
    BY InitialCaches DEF Init
<1>2. TypeOK
    BY <1>1 DEF TypeOK
<1>3. CachesInStep
    BY <1>1 DEF CachesInStep, Before
<1>4. QED BY <1>2, <1>3 DEF Inv

(* A step of the encoding side adds a link to the chain. *)
LEMMA EncodeInv ==
    ASSUME Inv, NEW f \in Field, Encode(f)
    PROVE  Inv'
<1> DEFINE P == [place : {Place(g) : g \in Field}, token : Token]
           H == [sent : Field, view : Caches]
<1>1. PICK e \in FieldEncodings(enc, f) :
          /\ enc' = e.caches
          /\ wire' = Append(wire, [place |-> Place(f), token |-> e.token])
          /\ history' = Append(history, [sent |-> f, view |-> e.caches])
    BY DEF Encode
<1> DEFINE x == [place |-> Place(f), token |-> e.token]
           h == [sent |-> f, view |-> e.caches]
           n == Len(wire)
           Linked(s, w, k) == FieldDecodings(s, w.place, w.token)
                                  = {[field |-> k.sent, caches |-> k.view]}
<1>2. /\ history \in Seq(H) /\ wire \in Seq(P) /\ n = Len(history)
      /\ enc \in Caches /\ dec \in Caches /\ out \in Field \cup {Null} /\ sent \in Nat
    BY DEF Inv, TypeOK
<1>3. e.caches \in Caches /\ e.token \in Token /\ Linked(enc, x, h)
    BY <1>2, FieldRoundTrip
<1>4. h \in H /\ x \in P /\ h.view = e.caches
    BY <1>3
<1>5. enc = Before(n + 1) /\ \A i \in 1 .. n : Linked(Before(i), wire[i], history[i])
    BY DEF Inv, CachesInStep
<1>6. dec' = dec /\ out' = out /\ sent' = sent + 1
    BY DEF Encode
<1>7. wire' = Append(wire, x) /\ history' = Append(history, h) /\ enc' = h.view
    BY <1>1
<1> HIDE DEF x, h, P, H, Linked
<1>8. /\ wire' \in Seq(P) /\ Len(wire') = n + 1 /\ wire'[n + 1] = x
      /\ \A i \in 1 .. n : wire'[i] = wire[i]
    BY <1>2, <1>4, <1>7
<1>9. /\ history' \in Seq(H) /\ Len(history') = n + 1 /\ history'[n + 1] = h
      /\ \A i \in 1 .. n : history'[i] = history[i]
    BY <1>2, <1>4, <1>7
<1>10. n \in Nat
    BY <1>2
<1> DEFINE B(i) == IF i = 1 THEN dec ELSE history[i - 1].view
           C(i) == IF i = 1 THEN dec' ELSE history'[i - 1].view
<1>11. TypeOK'
  <2>1. enc' \in Caches
      BY <1>3, <1>4, <1>7
  <2>2. sent' \in Nat
      BY <1>2, <1>6
  <2>3. Len(wire') = Len(history')
      BY <1>8, <1>9
  <2>4. QED BY <1>2, <1>6, <1>8, <1>9, <2>1, <2>2, <2>3 DEF TypeOK, P, H
<1>12. \A i \in 1 .. n + 1 : C(i) = B(i)
    BY <1>6, <1>9, <1>10
<1>13. B(n + 1) = enc /\ \A i \in 1 .. n : Linked(B(i), wire[i], history[i])
    BY <1>5 DEF Before
<1>14. \A i \in 1 .. n + 1 : Linked(C(i), wire'[i], history'[i])
  <2> SUFFICES ASSUME NEW i \in 1 .. n + 1
               PROVE  Linked(C(i), wire'[i], history'[i])
      OBVIOUS
  <2>1. CASE i \in 1 .. n
    <3>1. C(i) = B(i) /\ wire'[i] = wire[i] /\ history'[i] = history[i]
        BY <1>8, <1>9, <1>12, <2>1
    <3> HIDE DEF B, C
    <3>2. QED BY <1>13, <2>1, <3>1
  <2>2. CASE i = n + 1
    <3>1. C(i) = enc /\ wire'[i] = x /\ history'[i] = h
        BY <1>8, <1>9, <1>12, <1>13, <2>2
    <3> HIDE DEF B, C
    <3>2. QED BY <1>3, <3>1
  <2>3. QED BY <2>1, <2>2, <1>10
<1>15. enc' = C(n + 2)
    BY <1>7, <1>9, <1>10
<1>16. CachesInStep'
  <2>1. Len(wire') + 1 = n + 2
      BY <1>8, <1>10
  <2>2. enc' = C(Len(wire') + 1)
      BY <1>15, <2>1
  <2>3. \A i \in 1 .. Len(wire') : Linked(C(i), wire'[i], history'[i])
      BY <1>8, <1>14
  <2>4. QED BY <1>8, <1>9, <2>2, <2>3 DEF CachesInStep, Before, Linked
<1>17. QED BY <1>11, <1>16 DEF Inv

(* A step of the decoding side takes the first link of the chain. *)
LEMMA DecodeInv ==
    ASSUME Inv, Decode
    PROVE  /\ Inv'
           /\ history # << >> /\ out' = Head(history).sent /\ history' = Tail(history)
<1> DEFINE P == [place : {Place(g) : g \in Field}, token : Token]
           H == [sent : Field, view : Caches]
           n == Len(wire)
           Linked(s, w, k) == FieldDecodings(s, w.place, w.token)
                                  = {[field |-> k.sent, caches |-> k.view]}
           B(i) == IF i = 1 THEN dec ELSE history[i - 1].view
           C(i) == IF i = 1 THEN dec' ELSE history'[i - 1].view
<1>1. /\ history \in Seq(H) /\ wire \in Seq(P) /\ n = Len(history)
      /\ enc \in Caches /\ sent \in Nat
    BY DEF Inv, TypeOK
<1>2. B(n + 1) = enc /\ \A i \in 1 .. n : Linked(B(i), wire[i], history[i])
    BY DEF Inv, CachesInStep, Before
<1>3. wire # << >> /\ wire' = Tail(wire) /\ history' = Tail(history)
      /\ enc' = enc /\ sent' = sent
    BY DEF Decode
<1>4. n \in Nat \ {0} /\ history # << >> /\ Head(wire) = wire[1] /\ Head(history) = history[1]
    BY <1>1, <1>3
<1>5. Linked(dec, Head(wire), Head(history))
    BY <1>2, <1>4
<1>6. dec' = Head(history).view /\ out' = Head(history).sent
  <2>1. PICK d \in FieldDecodings(dec, Head(wire).place, Head(wire).token) :
            dec' = d.caches /\ out' = d.field
      BY DEF Decode
  <2>2. d = [field |-> Head(history).sent, caches |-> Head(history).view]
      BY <1>5
  <2>3. QED BY <2>1, <2>2
<1>7. Head(history).view \in Caches /\ Head(history).sent \in Field
  <2> HIDE DEF H
  <2>1. Head(history) \in H
      BY <1>1, <1>4, ElementOfSeq
  <2>2. QED BY <2>1 DEF H
<1> HIDE DEF P, H, Linked
<1>8. /\ wire' \in Seq(P) /\ Len(wire') = n - 1
      /\ \A i \in 1 .. n - 1 : wire'[i] = wire[i + 1]
    BY <1>1, <1>3, <1>4
<1>9. /\ history' \in Seq(H) /\ Len(history') = n - 1
      /\ \A i \in 1 .. n - 1 : history'[i] = history[i + 1]
    BY <1>1, <1>3, <1>4
<1>10. TypeOK'
  <2>1. dec' \in Caches /\ out' \in Field \cup {Null}
      BY <1>6, <1>7
  <2>2. enc' \in Caches /\ sent' \in Nat
      BY <1>1, <1>3
  <2>3. Len(wire') = Len(history')
      BY <1>8, <1>9
  <2>4. QED BY <1>8, <1>9, <2>1, <2>2, <2>3 DEF TypeOK, P, H
<1>11. \A i \in 1 .. n : C(i) = B(i + 1)
    BY <1>4, <1>6, <1>9
<1>12. \A i \in 1 .. n - 1 : Linked(C(i), wire'[i], history'[i])
  <2> SUFFICES ASSUME NEW i \in 1 .. n - 1
               PROVE  Linked(C(i), wire'[i], history'[i])
      OBVIOUS
  <2>1. i + 1 \in 1 .. n /\ i \in 1 .. n
      BY <1>4
  <2>2. C(i) = B(i + 1) /\ wire'[i] = wire[i + 1] /\ history'[i] = history[i + 1]
      BY <1>8, <1>9, <1>11, <2>1
  <2> HIDE DEF B, C
  <2>3. QED BY <1>2, <2>1, <2>2
<1>13. enc' = C(n)
  <2>1. n \in 1 .. n
      BY <1>4
  <2>2. C(n) = B(n + 1)
      BY <1>11, <2>1
  <2> HIDE DEF B, C
  <2>3. QED BY <1>2, <1>3, <2>2
<1>14. CachesInStep'
  <2>1. Len(wire') + 1 = n
      BY <1>8, <1>4
  <2>2. enc' = C(Len(wire') + 1)
      BY <1>13, <2>1
  <2>3. \A i \in 1 .. Len(wire') : Linked(C(i), wire'[i], history'[i])
      BY <1>8, <1>12
  <2>4. QED BY <1>8, <1>9, <2>2, <2>3 DEF CachesInStep, Before, Linked
<1>15. QED BY <1>3, <1>4, <1>6, <1>10, <1>14 DEF Inv

LEMMA StepInv == Inv /\ [Next]_vars => Inv'
<1> SUFFICES ASSUME Inv, [Next]_vars
             PROVE  Inv'
    OBVIOUS
<1>1. ASSUME NEW f \in Field, Encode(f)
      PROVE  Inv'
    BY <1>1, EncodeInv
<1>2. CASE Decode
    BY <1>2, DecodeInv
<1>3. CASE UNCHANGED vars
    BY <1>3 DEF Inv, TypeOK, CachesInStep, Before, vars
<1>4. QED BY <1>1, <1>2, <1>3 DEF Next

(* However far the decoding side lags behind, its lists go through the states
   of those of the encoding side, for any sizes and widths of the caches. *)
THEOREM FieldCachesInStep == Spec => [](TypeOK /\ CachesInStep)
<1>1. Inv => TypeOK /\ CachesInStep
    BY DEF Inv
<1>2. QED BY <1>1, InitInv, StepInv, PTL DEF Spec

(* A field that is encoded comes out of the other side as it was, and in the
   order in which it was sent: the caches implement a lossless link. *)
THEOREM FieldsAreLossless == Spec => FieldsLossless
<1> DEFINE sentOf == [i \in 1 .. Len(history) |-> history[i].sent]
<1>1. Init => L!Init
    BY DEF Init, L!Init
<1>2. Inv /\ [Next]_vars => [L!Next]_(L!vars)
  <2> SUFFICES ASSUME Inv, [Next]_vars
               PROVE  [L!Next]_(L!vars)
      OBVIOUS
  <2>1. history \in Seq([sent : Field, view : Caches])
      BY DEF Inv, TypeOK
  <2>2. sentOf \in Seq(Field) /\ Len(sentOf) = Len(history)
        /\ \A i \in 1 .. Len(history) : sentOf[i] = history[i].sent
    <3> DEFINE H == [sent : Field, view : Caches]
    <3> HIDE DEF H
    <3>1. \A i \in 1 .. Len(history) : history[i] \in H
        BY <2>1, ElementOfSeq DEF H
    <3>2. \A i \in 1 .. Len(history) : history[i].sent \in Field
        BY <3>1 DEF H
    <3>3. Len(history) \in Nat /\ sentOf \in [1 .. Len(history) -> Field]
        BY <2>1, <3>2
    <3>4. QED BY <3>3
  <2>3. ASSUME NEW f \in Field, Encode(f)
        PROVE  L!Send(f)
    <3>1. PICK v : history' = Append(history, [sent |-> f, view |-> v])
        BY <2>3 DEF Encode
    <3> DEFINE h == [sent |-> f, view |-> v]
    <3>2. h.sent = f
        OBVIOUS
    <3>3. enc' \in Caches /\ history' \in Seq([sent : Field, view : Caches])
        BY <2>3, EncodeInv DEF Inv, TypeOK
    <3> HIDE DEF h
    <3>4. /\ Len(history') = Len(history) + 1 /\ history'[Len(history) + 1] = h
          /\ \A i \in 1 .. Len(history) : history'[i] = history[i]
        BY <2>1, <3>1 DEF h
    <3>5. sentOf' = Append(sentOf, f)
        BY <2>1, <2>2, <3>2, <3>4
    <3>6. out' = out
        BY <2>3 DEF Encode
    <3>7. QED BY <3>5, <3>6 DEF L!Send
  <2>4. CASE Decode
    <3>1. history # << >> /\ out' = Head(history).sent /\ history' = Tail(history)
        BY <2>4, DecodeInv
    <3>2. Len(history) \in Nat \ {0} /\ Head(history) = history[1]
        BY <2>1, <3>1
    <3>3. Len(history') = Len(history) - 1
          /\ \A i \in 1 .. Len(history) - 1 : history'[i] = history[i + 1]
        BY <2>1, <3>1, <3>2
    <3>4. sentOf' = Tail(sentOf)
        BY <2>2, <3>2, <3>3
    <3>5. sentOf # << >> /\ Head(sentOf) = Head(history).sent
        BY <2>2, <3>2
    <3>6. L!Deliver
        BY <3>1, <3>4, <3>5 DEF L!Deliver
    <3>7. QED BY <3>6 DEF L!Next
  <2>5. CASE UNCHANGED vars
    <3>1. history' = history /\ out' = out
        BY <2>5 DEF vars
    <3>2. QED BY <3>1 DEF L!vars
  <2>6. QED BY <2>3, <2>4, <2>5 DEF Next, L!Next
<1>3. QED BY <1>1, <1>2, InitInv, StepInv, PTL DEF Spec, FieldsLossless, L!Spec

-----------------------------------------------------------------------------
(* The bits of a frame.  A number is followed one block after the other: what the writer has
   written and what the reader has made of it go together, and the fourth block ends both.
   So each field is read from the place where it was written up to the place where the next
   one starts. *)

(* The bits s are there at place p. *)
HoldsAt(bits, p, s) ==
    /\ p + Len(s) <= Len(bits)
    /\ \A j \in 1 .. Len(s) : bits[p + j] = s[j]

(* What the sequence operators return. *)
LEMMA ConcatFacts ==
    ASSUME NEW s \in Seq(Bits), NEW t \in Seq(Bits)
    PROVE  /\ s \o t \in Seq(Bits) /\ Len(s \o t) = Len(s) + Len(t)
           /\ \A j \in 1 .. Len(s) : (s \o t)[j] = s[j]
           /\ \A j \in 1 .. Len(t) : (s \o t)[Len(s) + j] = t[j]
  BY SMT

LEMMA BitsAssociate ==
    ASSUME NEW s \in Seq(Bits), NEW t \in Seq(Bits), NEW u \in Seq(Bits)
    PROVE  (s \o t) \o u = s \o (t \o u)
  BY ConcatAssociative

LEMMA PartFacts ==
    ASSUME NEW s \in Seq(Bits), NEW a \in Nat, NEW c \in Nat, a <= c, c <= Len(s)
    PROVE  /\ SubSeq(s, a + 1, c) \in Seq(Bits) /\ Len(SubSeq(s, a + 1, c)) = c - a
           /\ \A j \in 1 .. c - a : SubSeq(s, a + 1, c)[j] = s[a + j]
  BY SMT

LEMMA NextPart ==
    ASSUME NEW s \in Seq(Bits), NEW a \in Nat, NEW k \in Nat, a + k <= Len(s)
    PROVE  /\ SubSeq(s, a + 1, a + k) \in Seq(Bits) /\ Len(SubSeq(s, a + 1, a + k)) = k
           /\ \A j \in 1 .. k : SubSeq(s, a + 1, a + k)[j] = s[a + j]
  BY SMT

(* Two parts are there if each is, the second after the first. *)
LEMMA HoldsApart ==
    ASSUME NEW bits \in Seq(Bits), NEW p \in Nat, NEW s \in Seq(Bits), NEW t \in Seq(Bits)
    PROVE  HoldsAt(bits, p, s \o t) <=> HoldsAt(bits, p, s) /\ HoldsAt(bits, p + Len(s), t)
<1>1. /\ Len(s) \in Nat /\ Len(t) \in Nat /\ Len(bits) \in Nat
      /\ Len(s \o t) = Len(s) + Len(t)
      /\ \A j \in 1 .. Len(s) : (s \o t)[j] = s[j]
      /\ \A j \in 1 .. Len(t) : (s \o t)[Len(s) + j] = t[j]
  BY ConcatFacts
<1>2. ASSUME HoldsAt(bits, p, s \o t)
      PROVE  HoldsAt(bits, p, s) /\ HoldsAt(bits, p + Len(s), t)
  <2>1. HoldsAt(bits, p, s)
    BY <1>1, <1>2, SMT DEF HoldsAt
  <2>2. \A j \in 1 .. Len(t) : bits[p + Len(s) + j] = t[j]
    <3>1. TAKE j \in 1 .. Len(t)
    <3>2. Len(s) + j \in 1 .. Len(s \o t) /\ p + (Len(s) + j) = p + Len(s) + j
      BY <1>1, SMT
    <3>3. bits[p + (Len(s) + j)] = (s \o t)[Len(s) + j]
      BY <1>2, <3>2 DEF HoldsAt
    <3> QED BY <3>2, <3>3, <1>1
  <2> QED BY <2>1, <2>2, <1>1, <1>2, SMT DEF HoldsAt
<1>3. ASSUME HoldsAt(bits, p, s), HoldsAt(bits, p + Len(s), t)
      PROVE  HoldsAt(bits, p, s \o t)
  <2>1. \A j \in 1 .. Len(s \o t) : bits[p + j] = (s \o t)[j]
    <3>1. TAKE j \in 1 .. Len(s \o t)
    <3>2. CASE j <= Len(s)
      BY <1>1, <1>3, <3>2, SMT DEF HoldsAt
    <3>3. CASE j > Len(s)
      <4>1. j - Len(s) \in 1 .. Len(t) /\ Len(s) + (j - Len(s)) = j
            /\ p + Len(s) + (j - Len(s)) = p + j
        BY <1>1, <3>3, SMT
      <4>2. bits[p + Len(s) + (j - Len(s))] = t[j - Len(s)]
        BY <1>3, <4>1 DEF HoldsAt
      <4>3. (s \o t)[Len(s) + (j - Len(s))] = t[j - Len(s)]
        BY <1>1, <4>1
      <4> QED BY <4>1, <4>2, <4>3
    <3> QED BY <3>2, <3>3, <1>1, SMT
  <2> QED BY <2>1, <1>1, <1>3, SMT DEF HoldsAt
<1> QED BY <1>2, <1>3

(* What was written stays, whatever is written after it. *)
LEMMA HoldsLonger ==
    ASSUME NEW bits \in Seq(Bits), NEW more \in Seq(Bits), NEW p \in Nat, NEW s \in Seq(Bits),
           HoldsAt(bits, p, s)
    PROVE  HoldsAt(bits \o more, p, s)
<1>1. /\ Len(s) \in Nat /\ Len(bits) \in Nat /\ Len(more) \in Nat
      /\ Len(bits \o more) = Len(bits) + Len(more)
      /\ \A j \in 1 .. Len(bits) : (bits \o more)[j] = bits[j]
  BY ConcatFacts
<1> QED BY <1>1, SMT DEF HoldsAt

LEMMA HoldsAppended ==
    ASSUME NEW bits \in Seq(Bits), NEW s \in Seq(Bits)
    PROVE  HoldsAt(bits \o s, Len(bits), s)
  BY ConcatFacts, SMT DEF HoldsAt

-----------------------------------------------------------------------------

(* No block is empty, and the fourth takes all the bits. *)
LEMMA SizeOfBlockType ==
    ASSUME NEW b \in Nat, NEW i \in 1 .. 4, NEW n \in Nat \ {0}
    PROVE  SizeOfBlock(b, i, n) \in Nat \ {0} /\ (i = 4 => SizeOfBlock(b, i, n) = n)
<1> DEFINE half(x) == IF x \div 2 < 2 THEN 2 ELSE x \div 2
           c == IF b = 0 THEN n ELSE b
<1>1. \A x \in Nat : half(x) \in Nat \ {0}
  BY SMT
<1>2. c \in Nat \ {0} /\ half(c) \in Nat \ {0} /\ half(half(c)) \in Nat \ {0}
  BY <1>1
<1>3. SizeOfBlock(b, i, n) = <<c, half(c), half(half(c)), n>>[i]
  BY DEF SizeOfBlock
<1> HIDE DEF half, c
<1> QED BY <1>2, <1>3, SMT

(* What encodeValue has done after some turns: w.i is 5 only when all is written. *)
Writers == [bits : Seq(Bits), done : Nat, i : 1 .. 5]

WriterOK(w, v) ==
    /\ w \in Writers /\ w.done <= Len(v)
    /\ w.i > 1 => w.done > 0
    /\ w.i = 5 => w.done = Len(v)

(* The first done bits of v have been read. *)
Begins(value, v, done) ==
    /\ value \in Seq(Bits) /\ Len(value) = done
    /\ \A j \in 1 .. done : value[j] = v[j]

(* The reader's turn r is where the writer's turn w was, for a number at place p. *)
Match(w, r, v, p) ==
    /\ r = [value |-> r.value, next |-> p + Len(w.bits), i |-> w.i, over |-> (w.done = Len(v))]
    /\ Begins(r.value, v, w.done)

LEMMA AppendFacts ==
    ASSUME NEW s \in Seq(Bits), NEW x \in Bits
    PROVE  /\ Append(s, x) \in Seq(Bits) /\ Len(Append(s, x)) = Len(s) + 1
           /\ Append(s, x) = s \o <<x>> /\ <<x>> \in Seq(Bits)
           /\ \A j \in 1 .. Len(s) : Append(s, x)[j] = s[j]
           /\ Append(s, x)[Len(s) + 1] = x
  BY SMT

LEMMA AppendConcat ==
    ASSUME NEW s \in Seq(Bits), NEW t \in Seq(Bits), NEW x \in Bits
    PROVE  /\ Append(s \o t, x) = s \o Append(t, x)
           /\ Append(t, x) \in Seq(Bits) /\ Append(s \o t, x) \in Seq(Bits)
<1>1. Append(s \o t, x) = (s \o t) \o <<x>> /\ Append(t, x) = t \o <<x>> /\ <<x>> \in Seq(Bits)
  BY ConcatFacts, AppendFacts
<1>2. (s \o t) \o <<x>> = s \o (t \o <<x>>)
  BY <1>1, ConcatAssociative
<1> QED BY <1>1, <1>2, ConcatFacts, AppendFacts

(* The bit that follows a block. *)
LEMMA HoldsOneMore ==
    ASSUME NEW bits \in Seq(Bits), NEW p \in Nat, NEW s \in Seq(Bits), NEW x \in Bits
    PROVE  HoldsAt(bits, p, Append(s, x)) <=>
               /\ HoldsAt(bits, p, s)
               /\ p + Len(s) + 1 <= Len(bits) /\ bits[p + Len(s) + 1] = x
<1>1. /\ Append(s, x) = s \o <<x>> /\ <<x>> \in Seq(Bits) /\ Len(<<x>>) = 1 /\ <<x>>[1] = x
  BY AppendFacts
<1>2. HoldsAt(bits, p, Append(s, x)) <=> HoldsAt(bits, p, s) /\ HoldsAt(bits, p + Len(s), <<x>>)
  BY <1>1, HoldsApart
<1>3. HoldsAt(bits, p + Len(s), <<x>>) <=> p + Len(s) + 1 <= Len(bits) /\ bits[p + Len(s) + 1] = x
  <2> DEFINE t == <<x>>
  <2>1. Len(t) = 1 /\ t[1] = x
    BY <1>1
  <2> HIDE DEF t
  <2>2. HoldsAt(bits, p + Len(s), t) <=> p + Len(s) + 1 <= Len(bits) /\ bits[p + Len(s) + 1] = x
    BY <2>1, SMT DEF HoldsAt
  <2> QED BY <2>2 DEF t
<1> QED BY <1>2, <1>3

(* Where the next block ends, and the bits written by then. *)
BlockTo(w, v, b) == Least(Len(v), w.done + SizeOfBlock(b, w.i, Len(v)))

BlockNow(w, v, b) == w.bits \o SubSeq(v, w.done + 1, BlockTo(w, v, b))

(* A turn of encodeValue, with the end of its block and the bits written by then named. *)
LEMMA WriteBlockIs ==
    ASSUME NEW w, NEW v, NEW b
    PROVE  WriteBlock(w, v, b) =
               IF w.done = Len(v) THEN w
               ELSE IF BlockTo(w, v, b) = Len(v)
               THEN [bits |-> BlockNow(w, v, b), done |-> Len(v), i |-> w.i + 1]
               ELSE IF OnlyCopies(v, BlockTo(w, v, b))
               THEN [bits |-> Append(BlockNow(w, v, b), 0), done |-> Len(v), i |-> w.i + 1]
               ELSE [bits |-> Append(BlockNow(w, v, b), 1), done |-> BlockTo(w, v, b),
                     i |-> w.i + 1]
<1> DEFINE to == Least(Len(v), w.done + SizeOfBlock(b, w.i, Len(v)))
           now == w.bits \o SubSeq(v, w.done + 1, to)
<1>1. to = BlockTo(w, v, b) /\ now = BlockNow(w, v, b)
  BY DEF BlockTo, BlockNow
<1>2. WriteBlock(w, v, b) = 
    IF w.done = Len(v) THEN w
        ELSE IF to = Len(v) THEN [bits |-> now, done |-> Len(v), i |-> w.i + 1]
        ELSE IF OnlyCopies(v, to) THEN [bits |-> Append(now, 0), done |-> Len(v), i |-> w.i + 1]
        ELSE [bits |-> Append(now, 1), done |-> to, i |-> w.i + 1]
  BY Zenon DEF WriteBlock
<1> HIDE DEF to, now
<1> QED BY <1>2, <1>1, Zenon

(* A block is not empty, ends within the number, and the fourth ends it. *)
LEMMA BlockToType ==
    ASSUME NEW v \in Seq(Bits), Len(v) > 0, NEW b \in Nat, NEW w, WriterOK(w, v), w.done # Len(v)
    PROVE  /\ BlockTo(w, v, b) \in Nat
           /\ w.done < BlockTo(w, v, b) /\ BlockTo(w, v, b) <= Len(v)
           /\ w.i = 4 => BlockTo(w, v, b) = Len(v)
           /\ BlockTo(w, v, b) - w.done
                  = Least(Len(v) - w.done, SizeOfBlock(b, w.i, Len(v)))
           /\ w.i \in 1 .. 4 /\ w.done \in Nat
<1>1. Len(v) \in Nat \ {0} /\ w.i \in 1 .. 4 /\ w.done \in Nat /\ w.done < Len(v)
  BY SMT DEF WriterOK, Writers
<1> DEFINE z == SizeOfBlock(b, w.i, Len(v))
<1>2. z \in Nat \ {0} /\ (w.i = 4 => z = Len(v))
  BY <1>1, SizeOfBlockType
<1> HIDE DEF z
<1>3. BlockTo(w, v, b) = Least(Len(v), w.done + z)
  BY DEF BlockTo, z
<1>4. Least(Len(v) - w.done, z) = Least(Len(v), w.done + z) - w.done
  BY <1>1, <1>2, SMT DEF Least
<1>5. /\ Least(Len(v), w.done + z) \in Nat
      /\ w.done < Least(Len(v), w.done + z) /\ Least(Len(v), w.done + z) <= Len(v)
      /\ w.i = 4 => Least(Len(v), w.done + z) = Len(v)
  BY <1>1, <1>2, SMT DEF Least
<1> QED BY <1>1, <1>3, <1>4, <1>5 DEF z

(* A turn of encodeValue only adds bits, and after four the number is written. *)
LEMMA WriteBlockType ==
    ASSUME NEW v \in Seq(Bits), Len(v) > 0, NEW b \in Nat, NEW w, WriterOK(w, v)
    PROVE  /\ WriterOK(WriteBlock(w, v, b), v)
           /\ \E s \in Seq(Bits) : WriteBlock(w, v, b).bits = w.bits \o s
           /\ WriteBlock(w, v, b).i = w.i + 1 \/ WriteBlock(w, v, b).done = Len(v)
<1> DEFINE n   == Len(v)
           to  == BlockTo(w, v, b)
           c   == SubSeq(v, w.done + 1, to)
           now == w.bits \o c
           w1  == WriteBlock(w, v, b)
<1>1. w.bits \in Seq(Bits) /\ n \in Nat \ {0} /\ w = [bits |-> w.bits, done |-> w.done, i |-> w.i]
  BY SMT DEF WriterOK, Writers
<1>4. /\ w.done = n => w1 = w
      /\ w.done # n /\ to = n => w1 = [bits |-> now, done |-> n, i |-> w.i + 1]
      /\ w.done # n /\ to # n /\ OnlyCopies(v, to) =>
             w1 = [bits |-> Append(now, 0), done |-> n, i |-> w.i + 1]
      /\ w.done # n /\ to # n /\ ~ OnlyCopies(v, to) =>
             w1 = [bits |-> Append(now, 1), done |-> to, i |-> w.i + 1]
  BY WriteBlockIs DEF BlockNow
<1> SUFFICES /\ WriterOK(w1, v)
             /\ \E s \in Seq(Bits) : w1.bits = w.bits \o s
             /\ w1.i = w.i + 1 \/ w1.done = n
  OBVIOUS
<1> HIDE DEF w1
<1>2. CASE w.done = n
  <2>1. w1 = w
    BY <1>2, <1>4
  <2>2. << >> \in Seq(Bits) /\ w.bits \o << >> = w.bits
    BY <1>1, SMT
  <2> QED BY <1>2, <2>1, <2>2
<1>5. 0 \in Bits /\ 1 \in Bits
  BY DEF Bits
<1>3. CASE w.done # n
  <2>1. /\ to \in Nat /\ w.done < to /\ to <= n /\ (w.i = 4 => to = n)
        /\ w.i \in 1 .. 4 /\ w.done \in Nat
    BY <1>3, BlockToType
  <2>2. c \in Seq(Bits) /\ now \in Seq(Bits)
    BY <1>1, <2>1, PartFacts, ConcatFacts
  <2> HIDE DEF to, c
  <2>3. CASE to = n
    <3>1. w1 = [bits |-> now, done |-> n, i |-> w.i + 1]
      BY <1>3, <2>3, <1>4
    <3> HIDE DEF now, n
    <3>2. WriterOK(w1, v)
      BY <3>1, <1>1, <2>1, <2>2, SMT DEF WriterOK, Writers, n
    <3>3. w1.bits = w.bits \o c /\ w1.i = w.i + 1
      BY <3>1 DEF now
    <3> QED BY <3>2, <3>3, <2>2
  <2>4. CASE to # n /\ OnlyCopies(v, to)
    <3>1. w1 = [bits |-> Append(now, 0), done |-> n, i |-> w.i + 1]
      BY <1>3, <2>4, <1>4
    <3>2. Append(now, 0) = w.bits \o Append(c, 0) /\ Append(c, 0) \in Seq(Bits)
          /\ Append(now, 0) \in Seq(Bits)
      BY <1>1, <2>2, AppendConcat, <1>5
    <3> HIDE DEF now, n
    <3>3. WriterOK(w1, v)
      BY <3>1, <3>2, <1>1, <2>1, SMT DEF WriterOK, Writers, n
    <3>4. w1.bits = w.bits \o Append(c, 0) /\ w1.i = w.i + 1
      BY <3>1, <3>2
    <3> QED BY <3>2, <3>3, <3>4
  <2>5. CASE to # n /\ ~ OnlyCopies(v, to)
    <3>1. w1 = [bits |-> Append(now, 1), done |-> to, i |-> w.i + 1]
      BY <1>3, <2>5, <1>4
    <3>2. Append(now, 1) = w.bits \o Append(c, 1) /\ Append(c, 1) \in Seq(Bits)
          /\ Append(now, 1) \in Seq(Bits)
      BY <1>1, <2>2, AppendConcat, <1>5
    <3> HIDE DEF now, n
    <3>3. WriterOK(w1, v)
      BY <3>1, <3>2, <1>1, <2>1, <2>5, SMT DEF WriterOK, Writers, n
    <3>4. w1.bits = w.bits \o Append(c, 1) /\ w1.i = w.i + 1
      BY <3>1, <3>2
    <3> QED BY <3>2, <3>3, <3>4
  <2> QED BY <2>3, <2>4, <2>5
<1> QED BY <1>2, <1>3

(* The size of the next block to read, and the value with it. *)
ReadSize(r, n, b) == Least(n - Len(r.value), SizeOfBlock(b, r.i, n))
ReadNow(r, bits, n, b) ==
    r.value \o SubSeq(bits, r.next + 1, r.next + ReadSize(r, n, b))

(* A turn of decodeValue, with the size of its block and the value read by then named. *)
LEMMA ReadBlockIs ==
    ASSUME NEW r, NEW bits, NEW n, NEW b,
           NEW k, k = ReadSize(r, n, b),
           NEW now, now = ReadNow(r, bits, n, b)
    PROVE  ReadBlock(r, bits, n, b) =
               IF r.over THEN r
               ELSE IF ~ Available(bits, r.next, IF Len(r.value) + k = n THEN k ELSE k + 1)
               THEN [value |-> << >>, next |-> Len(bits), i |-> r.i + 1, over |-> TRUE]
               ELSE IF Len(r.value) + k = n
               THEN [value |-> now, next |-> r.next + k, i |-> r.i + 1, over |-> TRUE]
               ELSE IF bits[r.next + k + 1] = 0
               THEN [value |-> [j \in 1 .. n |-> IF j <= Len(now) THEN now[j] ELSE now[Len(now)]],
                     next |-> r.next + k + 1, i |-> r.i + 1, over |-> TRUE]
               ELSE [value |-> now, next |-> r.next + k + 1, i |-> r.i + 1, over |-> FALSE]
<1> DEFINE kk == Least(n - Len(r.value), SizeOfBlock(b, r.i, n))
           nn == r.value \o SubSeq(bits, r.next + 1, r.next + kk)
<1>1. kk = k /\ nn = now
  BY DEF ReadSize, ReadNow
<1>2. ReadBlock(r, bits, n, b) =
               IF r.over THEN r
               ELSE IF ~ Available(bits, r.next, IF Len(r.value) + kk = n THEN kk ELSE kk + 1)
               THEN [value |-> << >>, next |-> Len(bits), i |-> r.i + 1, over |-> TRUE]
               ELSE IF Len(r.value) + kk = n
               THEN [value |-> nn, next |-> r.next + kk, i |-> r.i + 1, over |-> TRUE]
               ELSE IF bits[r.next + kk + 1] = 0
               THEN [value |-> [j \in 1 .. n |-> IF j <= Len(nn) THEN nn[j] ELSE nn[Len(nn)]],
                     next |-> r.next + kk + 1, i |-> r.i + 1, over |-> TRUE]
               ELSE [value |-> nn, next |-> r.next + kk + 1, i |-> r.i + 1, over |-> FALSE]
  BY Zenon DEF ReadBlock
<1> HIDE DEF kk, nn
<1> QED BY <1>2, <1>1, Zenon

(* The reader's copy of a block continues the number. *)
LEMMA BeginsOn ==
    ASSUME NEW v \in Seq(Bits), NEW done \in Nat, NEW k \in Nat, done + k <= Len(v),
           NEW value, Begins(value, v, done),
           NEW d \in Seq(Bits), Len(d) = k, NEW c \in Seq(Bits), Len(c) = k,
           c = SubSeq(v, done + 1, done + k), \A j \in 1 .. k : d[j] = c[j]
    PROVE  Begins(value \o d, v, done + k)
<1>1. \A j \in 1 .. k : c[j] = v[done + j]
  BY NextPart
<1>2. value \in Seq(Bits) /\ Len(value) = done /\ \A j \in 1 .. done : value[j] = v[j]
  BY DEF Begins
<1>3. value \o d \in Seq(Bits) /\ Len(value \o d) = Len(value) + Len(d)
      /\ (\A j \in 1 .. Len(value) : (value \o d)[j] = value[j])
      /\ (\A j \in 1 .. Len(d) : (value \o d)[Len(value) + j] = d[j])
  BY <1>2, ConcatFacts
<1>4. \A j \in 1 .. done + k : (value \o d)[j] = v[j]
  <2>1. TAKE j \in 1 .. done + k
  <2>2. CASE j <= done
    <3>1. j \in 1 .. done
      BY <2>2, SMT
    <3> QED BY <3>1, <1>2, <1>3
  <2>3. CASE j > done
    <3>1. PICK i \in 1 .. k : j = done + i
      <4>1. j - done \in 1 .. k /\ j = done + (j - done)
        BY <2>3, SMT
      <4> QED BY <4>1
    <3>2. (value \o d)[done + i] = d[i] /\ d[i] = c[i] /\ c[i] = v[done + i]
      BY <1>1, <1>2, <1>3
    <3> QED BY <3>1, <3>2
  <2>4. j <= done \/ j > done
    BY SMT
  <2> QED BY <2>2, <2>3, <2>4
<1> QED BY <1>2, <1>3, <1>4 DEF Begins

LEMMA ReadsOn ==
    ASSUME NEW bits \in Seq(Bits), NEW v \in Seq(Bits), NEW next \in Nat,
           NEW done \in Nat, NEW k \in Nat, done + k <= Len(v),
           NEW value, Begins(value, v, done),
           HoldsAt(bits, next, SubSeq(v, done + 1, done + k))
    PROVE  /\ Begins(value \o SubSeq(bits, next + 1, next + k), v, done + k)
           /\ next + k <= Len(bits)
<1> DEFINE c == SubSeq(v, done + 1, done + k)
           d == SubSeq(bits, next + 1, next + k)
<1>1. c \in Seq(Bits) /\ Len(c) = k
  BY NextPart
<1>2. next + k <= Len(bits) /\ \A j \in 1 .. k : bits[next + j] = c[j]
  <2>1. HoldsAt(bits, next, c)
    OBVIOUS
  <2> HIDE DEF c
  <2> QED BY <2>1, <1>1 DEF HoldsAt
<1>3. d \in Seq(Bits) /\ Len(d) = k /\ \A j \in 1 .. k : d[j] = bits[next + j]
  BY <1>2, NextPart
<1>4. c = SubSeq(v, done + 1, done + k) /\ \A j \in 1 .. k : d[j] = c[j]
  BY <1>2, <1>3
<1> HIDE DEF c, d
<1>5. Begins(value \o d, v, done + k)
  BY <1>1, <1>3, <1>4, BeginsOn
<1> QED BY <1>2, <1>5 DEF d

LEMMA HoldsBit ==
    ASSUME NEW bits \in Seq(Bits), NEW p \in Nat, NEW s \in Seq(Bits), NEW x \in Bits,
           HoldsAt(bits, p, Append(s, x))
    PROVE  HoldsAt(bits, p, s) /\ p + Len(s) + 1 <= Len(bits) /\ bits[p + Len(s) + 1] = x
  BY HoldsOneMore

(* The reader takes a block as the writer wrote it. *)
LEMMA ReadsABlock ==
    ASSUME NEW v \in Seq(Bits), Len(v) > 0, NEW b \in Nat, NEW bits \in Seq(Bits), NEW p \in Nat,
           NEW w, WriterOK(w, v), NEW r, Match(w, r, v, p),
           HoldsAt(bits, p, WriteBlock(w, v, b).bits)
    PROVE  Match(WriteBlock(w, v, b), ReadBlock(r, bits, Len(v), b), v, p)
<1> DEFINE n  == Len(v)
           w1 == WriteBlock(w, v, b)
           r1 == ReadBlock(r, bits, n, b)
           to == BlockTo(w, v, b)
           c  == SubSeq(v, w.done + 1, to)
           s  == w.bits \o c
           k  == ReadSize(r, n, b)
           d  == SubSeq(bits, r.next + 1, r.next + k)
           now == r.value \o d
<1>1. /\ w.bits \in Seq(Bits) /\ n \in Nat \ {0} /\ w.done \in Nat /\ w.i \in Nat
      /\ Len(w.bits) \in Nat /\ Len(bits) \in Nat
  BY SMT DEF WriterOK, Writers
<1>2. /\ r.next = p + Len(w.bits) /\ r.i = w.i /\ r.over = (w.done = n)
      /\ Begins(r.value, v, w.done) /\ Len(r.value) = w.done
  BY DEF Match, Begins
<1>3. HoldsAt(bits, p, w1.bits)
  OBVIOUS
<1>4. /\ w.done = n => w1 = w
      /\ w.done # n /\ to = n => w1 = [bits |-> s, done |-> n, i |-> w.i + 1]
      /\ w.done # n /\ to # n /\ OnlyCopies(v, to) =>
             w1 = [bits |-> Append(s, 0), done |-> n, i |-> w.i + 1]
      /\ w.done # n /\ to # n /\ ~ OnlyCopies(v, to) =>
             w1 = [bits |-> Append(s, 1), done |-> to, i |-> w.i + 1]
  BY WriteBlockIs DEF BlockNow
<1>5. r1 = IF r.over THEN r
           ELSE IF ~ Available(bits, r.next, IF Len(r.value) + k = n THEN k ELSE k + 1)
           THEN [value |-> << >>, next |-> Len(bits), i |-> r.i + 1, over |-> TRUE]
           ELSE IF Len(r.value) + k = n
           THEN [value |-> now, next |-> r.next + k, i |-> r.i + 1, over |-> TRUE]
           ELSE IF bits[r.next + k + 1] = 0
           THEN [value |-> [j \in 1 .. n |-> IF j <= Len(now) THEN now[j] ELSE now[Len(now)]],
                 next |-> r.next + k + 1, i |-> r.i + 1, over |-> TRUE]
           ELSE [value |-> now, next |-> r.next + k + 1, i |-> r.i + 1, over |-> FALSE]
  <2>1. k = ReadSize(r, n, b) /\ now = ReadNow(r, bits, n, b)
    BY DEF ReadNow
  <2> HIDE DEF k, now, n
  <2> QED BY <2>1, ReadBlockIs
<1>8. w.done # n => k = to - w.done
  BY <1>1, <1>2, BlockToType DEF ReadSize
<1> SUFFICES Match(w1, r1, v, p)
  OBVIOUS
<1> HIDE DEF w1, r1, n, k
<1>6. CASE w.done = n
  BY <1>2, <1>4, <1>5, <1>6
<1>7. CASE w.done # n
  <2>1. /\ to \in Nat /\ w.done < to /\ to <= n
    BY <1>7, BlockToType DEF n
  <2>2. /\ c \in Seq(Bits) /\ Len(c) = to - w.done
        /\ s \in Seq(Bits) /\ Len(s) = Len(w.bits) + (to - w.done)
        /\ s = w.bits \o c
    <3> HIDE DEF to
    <3>1. w.done <= to /\ to <= Len(v)
      BY <1>1, <2>1, SMT DEF n
    <3>2. c \in Seq(Bits) /\ Len(c) = to - w.done
      BY <1>1, <2>1, <3>1, PartFacts
    <3> HIDE DEF c
    <3>3. s \in Seq(Bits) /\ Len(s) = Len(w.bits) + Len(c)
      BY <1>1, <3>2, ConcatFacts, Zenon
    <3> QED BY <3>2, <3>3
  <2>3. k = to - w.done /\ k \in Nat /\ k > 0
    BY <1>1, <1>7, <2>1, <1>8
  <2> HIDE DEF to, c, d, s, now
  <2>4. ASSUME HoldsAt(bits, p, s)
        PROVE  Begins(now, v, to) /\ r.next + k <= Len(bits)
    <3>1. HoldsAt(bits, p + Len(w.bits), c)
      <4>1. HoldsAt(bits, p, w.bits \o c)
        BY <2>2, <2>4
      <4> QED BY <1>1, <2>2, <4>1, HoldsApart, Zenon
    <3>2. to = w.done + k /\ r.next \in Nat /\ w.done + k <= Len(v)
      BY <1>1, <1>2, <2>1, <2>3, SMT DEF n
    <3>3. HoldsAt(bits, r.next, SubSeq(v, w.done + 1, w.done + k))
      BY <3>1, <3>2, <1>2 DEF c
    <3>4. Begins(r.value \o SubSeq(bits, r.next + 1, r.next + k), v, w.done + k)
          /\ r.next + k <= Len(bits)
      BY <1>1, <1>2, <2>3, <3>2, <3>3, ReadsOn
    <3> QED BY <3>2, <3>4 DEF now, d
  <2>7. ~ r.over
    BY <1>2, <1>7, Zenon
  <2>8. Len(r.value) + k = to /\ r.next + k = p + Len(s) /\ r.next \in Nat
    <3>1. w.done + k = to /\ p + Len(w.bits) + k = p + (Len(w.bits) + (to - w.done))
          /\ p + Len(w.bits) \in Nat
      BY <1>1, <2>1, <2>3, SMT
    <3> QED BY <3>1, <1>2, <2>2
  <2>5. CASE to = n
    <3>1. w1 = [bits |-> s, done |-> n, i |-> w.i + 1]
      BY <1>4, <1>7, <2>5 DEF to, c, s
    <3>2. Begins(now, v, to) /\ r.next + k <= Len(bits)
      BY <3>1, <1>3, <2>4
    <3>3. Len(r.value) + k = n /\ Available(bits, r.next, k) /\ ~ r.over
      BY <2>7, <2>8, <2>5, <3>2 DEF Available
    <3>4. r1 = [value |-> now, next |-> r.next + k, i |-> r.i + 1, over |-> TRUE]
      BY <1>5, <3>3 DEF d, now
    <3>5. r.next + k = p + Len(s)
      BY <2>8
    <3> QED BY <3>1, <3>2, <3>4, <3>5, <2>5, <1>2 DEF Match, n
  <2>6. CASE to # n
    <3>1. /\ Len(r.value) + k # n /\ ~ r.over
          /\ r.next + k = p + Len(s)
      BY <2>7, <2>8, <2>6
    <3>2. CASE OnlyCopies(v, to)
      <4>1. w1 = [bits |-> Append(s, 0), done |-> n, i |-> w.i + 1]
        BY <1>4, <1>7, <2>6, <3>2 DEF to, c, s
      <4>2. 0 \in Bits /\ HoldsAt(bits, p, Append(s, 0))
        BY <1>3, <4>1 DEF Bits
      <4>3. HoldsAt(bits, p, s) /\ r.next + k + 1 <= Len(bits) /\ bits[r.next + k + 1] = 0
        <5>1. HoldsAt(bits, p, s) /\ p + Len(s) + 1 <= Len(bits) /\ bits[p + Len(s) + 1] = 0
          BY <2>2, <4>2, HoldsBit
        <5> QED BY <5>1, <2>8
      <4>4. now \in Seq(Bits) /\ Len(now) = to /\ \A j \in 1 .. to : now[j] = v[j]
        BY <2>4, <4>3 DEF Begins
      <4> DEFINE all == [j \in 1 .. n |-> IF j <= Len(now) THEN now[j] ELSE now[Len(now)]]
      <4>5. Available(bits, r.next, k + 1)
        BY <2>8, <2>3, <4>3, SMT DEF Available
      <4>6. r1 = [value |-> all, next |-> r.next + k + 1, i |-> r.i + 1, over |-> TRUE]
        BY <1>5, <3>1, <4>3, <4>5 DEF d, now
      <4>7. \A j \in 1 .. n : all[j] = v[j] /\ v[j] \in Bits
        <5>1. TAKE j \in 1 .. n
        <5>2. v[j] \in Bits
          BY DEF n
        <5>3. CASE j <= to
          BY <4>4, <5>3, <2>1, SMT
        <5>4. CASE j > to
          <6>1. v[j] = v[to] /\ now[to] = v[to]
            BY <5>4, <3>2, <4>4, <2>1, <1>1, SMT DEF OnlyCopies, n
          <6> QED BY <6>1, <4>4, <5>4, <5>2, <2>1, SMT
        <5> QED BY <5>2, <5>3, <5>4, <2>1, <1>1, SMT
      <4>8. all \in Seq(Bits) /\ Len(all) = n
        <5>1. all \in [1 .. n -> Bits]
          BY <4>7
        <5> HIDE DEF all
        <5> QED BY <5>1, <1>1, SMT
      <4>9. r.next + k + 1 = p + Len(Append(s, 0))
        BY <2>2, <2>8, <4>2, <2>3, AppendFacts
      <4> HIDE DEF all
      <4>10. /\ r1 = [value |-> r1.value, next |-> p + Len(w1.bits), i |-> w1.i,
                      over |-> (w1.done = Len(v))]
             /\ r1.value = all /\ w1.done = n
        BY <4>1, <4>6, <4>9, <1>2, Zenon DEF n
      <4> QED BY <4>7, <4>8, <4>10 DEF Match, Begins
    <3>3. CASE ~ OnlyCopies(v, to)
      <4>1. w1 = [bits |-> Append(s, 1), done |-> to, i |-> w.i + 1]
        BY <1>4, <1>7, <2>6, <3>3 DEF to, c, s
      <4>2. 1 \in Bits /\ HoldsAt(bits, p, Append(s, 1))
        BY <1>3, <4>1 DEF Bits
      <4>3. HoldsAt(bits, p, s) /\ r.next + k + 1 <= Len(bits) /\ bits[r.next + k + 1] = 1
        <5>1. HoldsAt(bits, p, s) /\ p + Len(s) + 1 <= Len(bits) /\ bits[p + Len(s) + 1] = 1
          <6>1. \A x \in Bits : HoldsAt(bits, p, Append(s, x)) =>
                    /\ HoldsAt(bits, p, s) /\ p + Len(s) + 1 <= Len(bits)
                    /\ bits[p + Len(s) + 1] = x
            BY <2>2, HoldsBit
          <6>2. 1 \in Bits => (HoldsAt(bits, p, Append(s, 1)) =>
                    /\ HoldsAt(bits, p, s) /\ p + Len(s) + 1 <= Len(bits)
                    /\ bits[p + Len(s) + 1] = 1)
            BY <6>1, Zenon
          <6> QED BY <6>2, <4>2, Zenon
        <5> QED BY <5>1, <2>8
      <4>4. Begins(now, v, to)
        BY <2>4, <4>3
      <4>5. Available(bits, r.next, k + 1)
        BY <2>8, <2>3, <4>3, SMT DEF Available
      <4>6. r1 = [value |-> now, next |-> r.next + k + 1, i |-> r.i + 1, over |-> FALSE]
        BY <1>5, <3>1, <4>3, <4>5 DEF d, now
      <4>9. r.next + k + 1 = p + Len(Append(s, 1))
        BY <2>2, <2>8, <4>2, <2>3, AppendFacts
      <4>10. /\ r1 = [value |-> r1.value, next |-> p + Len(w1.bits), i |-> w1.i,
                      over |-> (w1.done = Len(v))]
             /\ r1.value = now /\ w1.done = to
        BY <4>1, <4>6, <4>9, <1>2, <2>6, Zenon DEF n
      <4> QED BY <4>4, <4>10 DEF Match
    <3> QED BY <3>2, <3>3
  <2> QED BY <2>5, <2>6
<1> QED BY <1>6, <1>7

(* The writer before its first turn, and after each of the four. *)
Started == [bits |-> << >>, done |-> 0, i |-> 1]

FourBlocks(v, b, w1, w2, w3, w4) ==
    /\ w1 = WriteBlock(Started, v, b) /\ w2 = WriteBlock(w1, v, b)
    /\ w3 = WriteBlock(w2, v, b) /\ w4 = WriteBlock(w3, v, b)

(* Four turns write the whole number. *)
LEMMA EncodeTurns ==
    ASSUME NEW v \in Seq(Bits), Len(v) > 0, NEW b \in Nat,
           NEW w1, NEW w2, NEW w3, NEW w4, FourBlocks(v, b, w1, w2, w3, w4)
    PROVE  /\ encodeValue(v, b) = w4.bits
           /\ WriterOK(Started, v) /\ WriterOK(w1, v) /\ WriterOK(w2, v) /\ WriterOK(w3, v)
           /\ WriterOK(w4, v) /\ w4.done = Len(v)
<1> DEFINE turn == [w \in Writing |-> WriteBlock(w, v, b)]
<1>1. encodeValue(v, b) = turn[turn[turn[turn[Started]]]].bits
  BY Zenon DEF encodeValue, Started
<1>2. \A w \in Writing : turn[w] = WriteBlock(w, v, b)
  BY Zenon
<1> HIDE DEF turn
<1>3. \A w : WriterOK(w, v) => w \in Writing
  <2> SUFFICES ASSUME NEW w, WriterOK(w, v) PROVE w \in Writing
    OBVIOUS
  <2>1. w \in Writers
    BY DEF WriterOK
  <2> QED BY <2>1, SMT DEF Writers, Writing
<1>4. WriterOK(Started, v) /\ Started.i = 1
  <2>1. << >> \in Seq(Bits)
    BY SMT
  <2> QED BY <2>1, SMT DEF WriterOK, Writers, Started
<1>5. \A w : WriterOK(w, v) => /\ WriterOK(WriteBlock(w, v, b), v)
                               /\ \/ WriteBlock(w, v, b).i = w.i + 1
                                  \/ WriteBlock(w, v, b).done = Len(v)
                               /\ w.done = Len(v) => WriteBlock(w, v, b) = w
  BY WriteBlockType, WriteBlockIs
<1>6. WriterOK(w1, v) /\ (w1.i = 2 \/ w1.done = Len(v))
  BY <1>4, <1>5, SMT DEF FourBlocks
<1>7. WriterOK(w2, v) /\ (w2.i = 3 \/ w2.done = Len(v))
  BY <1>5, <1>6, SMT DEF FourBlocks
<1>8. WriterOK(w3, v) /\ (w3.i = 4 \/ w3.done = Len(v))
  BY <1>5, <1>7, SMT DEF FourBlocks
<1>9. WriterOK(w4, v) /\ (w4.i = 5 \/ w4.done = Len(v))
  BY <1>5, <1>8, SMT DEF FourBlocks
<1>10. w4.done = Len(v)
  BY <1>9 DEF WriterOK
<1>11. turn[Started] = w1 /\ turn[w1] = w2 /\ turn[w2] = w3 /\ turn[w3] = w4
  BY <1>2, <1>3, <1>4, <1>6, <1>7, <1>8 DEF FourBlocks
<1> QED BY <1>1, <1>4, <1>6, <1>7, <1>8, <1>9, <1>10, <1>11

LEMMA EncodeValueType ==
    ASSUME NEW v \in Seq(Bits), Len(v) > 0, NEW b \in Nat
    PROVE  encodeValue(v, b) \in Seq(Bits)
<1>1. PICK w1, w2, w3, w4 : FourBlocks(v, b, w1, w2, w3, w4)
  BY Zenon DEF FourBlocks
<1>2. encodeValue(v, b) = w4.bits /\ WriterOK(w4, v)
  BY <1>1, EncodeTurns
<1> QED BY <1>2 DEF WriterOK, Writers

(* A number is read back as it was written, and the reader stops where it ends. *)
LEMMA NumberReadBack ==
    ASSUME NEW v \in Seq(Bits), Len(v) > 0, NEW b \in Nat, NEW bits \in Seq(Bits), NEW p \in Nat,
           HoldsAt(bits, p, encodeValue(v, b))
    PROVE  /\ decodeValue(bits, p, Len(v), b).value = v
           /\ decodeValue(bits, p, Len(v), b).next = p + Len(encodeValue(v, b))
<1> DEFINE r0 == [value |-> << >>, next |-> p, i |-> 1, over |-> FALSE]
           turn == [r \in Reading |-> ReadBlock(r, bits, Len(v), b)]
<1>1. PICK w1, w2, w3, w4 : FourBlocks(v, b, w1, w2, w3, w4)
  BY Zenon DEF FourBlocks
<1>2. /\ encodeValue(v, b) = w4.bits /\ w4.done = Len(v)
      /\ WriterOK(Started, v) /\ WriterOK(w1, v) /\ WriterOK(w2, v) /\ WriterOK(w3, v)
      /\ WriterOK(w4, v)
  BY <1>1, EncodeTurns
<1>3. decodeValue(bits, p, Len(v), b) = turn[turn[turn[turn[r0]]]]
  BY Zenon DEF decodeValue
<1>4. \A r \in Reading : turn[r] = ReadBlock(r, bits, Len(v), b)
  BY Zenon
<1> HIDE DEF turn
<1>5. \A w, r : WriterOK(w, v) /\ Match(w, r, v, p) => r \in Reading
  <2> SUFFICES ASSUME NEW w, NEW r, WriterOK(w, v), Match(w, r, v, p) PROVE r \in Reading
    OBVIOUS
  <2>1. Len(w.bits) \in Nat /\ w.i \in Nat
    BY SMT DEF WriterOK, Writers
  <2>2. r.value \in Seq(Bits) /\ p + Len(w.bits) \in Nat
    BY <2>1 DEF Match, Begins
  <2>3. r = [value |-> r.value, next |-> p + Len(w.bits), i |-> w.i, over |-> (w.done = Len(v))]
    BY DEF Match
  <2>4. PICK o \in BOOLEAN : o = (w.done = Len(v))
    OBVIOUS
  <2>5. r = [value |-> r.value, next |-> p + Len(w.bits), i |-> w.i, over |-> o]
    BY <2>3, <2>4, Zenon
  <2> QED BY <2>1, <2>2, <2>5 DEF Reading
<1>6. \A w : WriterOK(w, v) /\ HoldsAt(bits, p, WriteBlock(w, v, b).bits) =>
          HoldsAt(bits, p, w.bits)
  <2> SUFFICES ASSUME NEW w, WriterOK(w, v), HoldsAt(bits, p, WriteBlock(w, v, b).bits)
               PROVE  HoldsAt(bits, p, w.bits)
    OBVIOUS
  <2>1. PICK s \in Seq(Bits) : WriteBlock(w, v, b).bits = w.bits \o s
    BY WriteBlockType
  <2>2. w.bits \in Seq(Bits)
    BY DEF WriterOK, Writers
  <2>3. HoldsAt(bits, p, w.bits \o s)
    BY <2>1
  <2> QED BY <2>2, <2>3, HoldsApart
<1>7. HoldsAt(bits, p, w4.bits) /\ HoldsAt(bits, p, w3.bits) /\ HoldsAt(bits, p, w2.bits)
      /\ HoldsAt(bits, p, w1.bits)
  BY <1>1, <1>2, <1>6 DEF FourBlocks
<1>8. Match(Started, r0, v, p)
  <2>1. << >> \in Seq(Bits) /\ Len(<< >>) = 0 /\ p + 0 = p
    BY SMT
  <2>2. Begins(<< >>, v, 0)
    BY <2>1, SMT DEF Begins
  <2>3. (0 = Len(v)) = FALSE
    BY SMT
  <2>4. r0.value = << >> /\ Started.bits = << >> /\ Started.i = 1 /\ Started.done = 0
    BY DEF Started
  <2>5. r0 = [value |-> r0.value, next |-> p + Len(Started.bits), i |-> Started.i,
              over |-> (Started.done = Len(v))]
    BY <2>1, <2>3, <2>4, Zenon
  <2> QED BY <2>2, <2>4, <2>5 DEF Match
<1> HIDE DEF r0
<1>9. \A w, r : WriterOK(w, v) /\ Match(w, r, v, p) /\ HoldsAt(bits, p, WriteBlock(w, v, b).bits) =>
          Match(WriteBlock(w, v, b), turn[r], v, p)
  <2> SUFFICES ASSUME NEW w, NEW r, WriterOK(w, v), Match(w, r, v, p),
                      HoldsAt(bits, p, WriteBlock(w, v, b).bits)
               PROVE  Match(WriteBlock(w, v, b), turn[r], v, p)
    OBVIOUS
  <2>1. turn[r] = ReadBlock(r, bits, Len(v), b)
    BY <1>4, <1>5
  <2>2. Match(WriteBlock(w, v, b), ReadBlock(r, bits, Len(v), b), v, p)
    BY ReadsABlock
  <2> QED BY <2>1, <2>2
<1>10. Match(w1, turn[r0], v, p)
  BY <1>1, <1>2, <1>7, <1>8, <1>9 DEF FourBlocks
<1>11. Match(w2, turn[turn[r0]], v, p)
  BY <1>1, <1>2, <1>7, <1>9, <1>10 DEF FourBlocks
<1>12. Match(w3, turn[turn[turn[r0]]], v, p)
  BY <1>1, <1>2, <1>7, <1>9, <1>11 DEF FourBlocks
<1>13. Match(w4, turn[turn[turn[turn[r0]]]], v, p)
  BY <1>1, <1>2, <1>7, <1>9, <1>12 DEF FourBlocks
<1> DEFINE r4 == decodeValue(bits, p, Len(v), b)
<1>14. Match(w4, r4, v, p)
  BY <1>3, <1>13 DEF r0
<1> HIDE DEF r4
<1>15. r4.next = p + Len(w4.bits) /\ Begins(r4.value, v, Len(v))
  BY <1>2, <1>14 DEF Match
<1>16. r4.value = v
  <2>1. /\ r4.value \in Seq(Bits) /\ Len(r4.value) = Len(v)
        /\ \A j \in 1 .. Len(v) : r4.value[j] = v[j]
    BY <1>15 DEF Begins
  <2> QED BY <2>1, SeqEqual
<1> QED BY <1>2, <1>15, <1>16 DEF r4

-----------------------------------------------------------------------------
(* Indexes and raw data *)

(* An index in unary: that many zeros and a one. *)
LEMMA UnaryType ==
    ASSUME NEW k \in Nat
    PROVE  /\ Unary(k) \in Seq(Bits) /\ Len(Unary(k)) = k + 1
           /\ \A j \in 1 .. k : Unary(k)[j] = 0
           /\ Unary(k)[k + 1] = 1
<1> DEFINE z == [j \in 1 .. k |-> 0]
<1>1. z \in [1 .. k -> Bits] /\ \A j \in 1 .. k : z[j] = 0
  BY DEF Bits
<1>2. Unary(k) = Append(z, 1) /\ 1 \in Bits
  BY DEF Unary, Bits
<1> HIDE DEF z
<1>3. z \in Seq(Bits) /\ Len(z) = k
  BY <1>1, SMT
<1>4. /\ Append(z, 1) \in Seq(Bits) /\ Len(Append(z, 1)) = k + 1
      /\ \A j \in 1 .. k : Append(z, 1)[j] = z[j]
      /\ Append(z, 1)[k + 1] = 1
  BY <1>2, <1>3, SMT
<1> QED BY <1>1, <1>2, <1>4

LEMMA EscapeType ==
    Escape \in Seq(Bits) /\ Len(Escape) = 3
<1>1. 2 \in Nat /\ 2 + 1 = 3
  BY SMT
<1>2. Unary(2) \in Seq(Bits) /\ Len(Unary(2)) = 2 + 1
  BY <1>1, UnaryType, Zenon
<1> QED BY <1>1, <1>2 DEF Escape

(* An index is read back as it was written. *)
LEMMA IndexReadBack ==
    ASSUME NEW k \in Nat, NEW bits \in Seq(Bits), NEW p \in Nat, HoldsAt(bits, p, Unary(k))
    PROVE  Zeros(bits, p) = k
<1> DEFINE Stop(m) == /\ \A j \in 1 .. m : bits[p + j] = 0
                      /\ Available(bits, p, m + 1) => bits[p + m + 1] = 1
<1>1. /\ p + (k + 1) <= Len(bits) /\ \A j \in 1 .. k : bits[p + j] = 0
      /\ bits[p + (k + 1)] = 1
  <2>1. /\ Len(Unary(k)) = k + 1 /\ \A j \in 1 .. k : Unary(k)[j] = 0
        /\ Unary(k)[k + 1] = 1
    BY UnaryType
  <2>2. p + Len(Unary(k)) <= Len(bits) /\ \A j \in 1 .. Len(Unary(k)) : bits[p + j] = Unary(k)[j]
    BY DEF HoldsAt
  <2>3. k + 1 \in 1 .. k + 1 /\ \A j \in 1 .. k : j \in 1 .. k + 1
    BY SMT
  <2>4. bits[p + (k + 1)] = Unary(k)[k + 1] /\ \A j \in 1 .. k : bits[p + j] = Unary(k)[j]
    BY <2>1, <2>2, <2>3
  <2> QED BY <2>1, <2>2, <2>4
<1>2. Len(bits) \in Nat /\ k \in 0 .. Len(bits) - p
  BY <1>1, SMT
<1>3. Stop(k)
  BY <1>1, SMT
<1>4. \A m \in 0 .. Len(bits) - p : Stop(m) => m = k
  <2> SUFFICES ASSUME NEW m \in 0 .. Len(bits) - p, Stop(m), m # k
               PROVE  FALSE
    OBVIOUS
  <2>1. CASE m < k
    <3>1. m + 1 \in 1 .. k /\ Available(bits, p, m + 1) /\ p + (m + 1) = p + m + 1
      BY <1>1, <1>2, <2>1, SMT DEF Available
    <3>2. bits[p + (m + 1)] = 0
      BY <1>1, <3>1
    <3> QED BY <3>1, <3>2, SMT
  <2>2. CASE m > k
    <3>1. k + 1 \in 1 .. m
      BY <2>2, SMT
    <3>2. bits[p + (k + 1)] = 0
      BY <3>1
    <3> QED BY <1>1, <3>2, SMT
  <2>3. m < k \/ m > k
    BY <1>2, SMT
  <2> QED BY <2>1, <2>2, <2>3
<1>5. Zeros(bits, p) = CHOOSE m \in 0 .. Len(bits) - p : Stop(m)
  BY Zenon DEF Zeros
<1> HIDE DEF Stop
<1> QED BY <1>2, <1>3, <1>4, <1>5, Zenon

(* The next byte starts less than a byte later. *)
LEMMA AlignedType ==
    ASSUME NEW p \in Nat
    PROVE  Aligned(p) \in Nat /\ Aligned(p) - p \in 0 .. ByteBits - 1
<1>1. ByteBits \in Nat \ {0}
  BY BitsAssumption
<1> DEFINE B == ByteBits
           q == p \div B
           m == p % B
<1>2. m \in 0 .. B - 1 /\ q \in Nat
  BY <1>1, SMT
<1>3. p = B * q + m
  <2>1. \A x, y \in Int : y > 0 => x = y * (x \div y) + (x % y)
    BY Z3
  <2>2. p \in Int /\ B \in Int /\ B > 0
    BY <1>1, SMT
  <2> QED BY <2>1, <2>2
<1>4. Aligned(p) = IF m = 0 THEN p ELSE (q + 1) * B
  BY DEF Aligned
<1>5. (q + 1) * B = B * q + B /\ B * q \in Nat
  <2>1. \A x, y \in Nat : (x + 1) * y = y * x + y /\ y * x \in Nat
    BY SMT
  <2> QED BY <1>1, <1>2, <2>1
<1> DEFINE t == B * q
<1> HIDE DEF q, m, t
<1>6. p = t + m /\ (q + 1) * B = t + B /\ t \in Nat
  BY <1>3, <1>5 DEF t
<1>7. CASE m = 0
  BY <1>7, <1>4, <1>1, SMT
<1>8. CASE m # 0
  <2>1. Aligned(p) = t + B
    BY <1>4, <1>6, <1>8
  <2> QED BY <2>1, <1>1, <1>2, <1>6, <1>8, SMT
<1> QED BY <1>7, <1>8

LEMMA PaddedType ==
    ASSUME NEW bits \in Seq(Bits)
    PROVE  /\ Padded(bits) \in Seq(Bits) /\ Len(Padded(bits)) = Aligned(Len(bits))
           /\ \E more \in Seq(Bits) : Padded(bits) = bits \o more
<1>1. Len(bits) \in Nat /\ Aligned(Len(bits)) \in Nat
      /\ Aligned(Len(bits)) - Len(bits) \in Nat
  <2>1. Len(bits) \in Nat
    BY SMT
  <2>2. ByteBits \in Nat \ {0}
    BY BitsAssumption
  <2>3. Aligned(Len(bits)) \in Nat /\ Aligned(Len(bits)) - Len(bits) \in 0 .. ByteBits - 1
    BY <2>1, AlignedType
  <2> QED BY <2>1, <2>2, <2>3, SMT
<1> DEFINE k == Aligned(Len(bits)) - Len(bits)
           z == [j \in 1 .. k |-> 0]
<1>2. Padded(bits) = bits \o z
  BY DEF Padded
<1>3. z \in [1 .. k -> Bits]
  BY DEF Bits
<1>4. k \in Nat /\ Len(bits) + k = Aligned(Len(bits))
  BY <1>1, SMT
<1> HIDE DEF z, k
<1>5. z \in Seq(Bits) /\ Len(z) = k
  BY <1>3, <1>4, SMT
<1> QED BY <1>2, <1>4, <1>5, ConcatFacts

-----------------------------------------------------------------------------
(* The frame *)

LEMMA NumbersType ==
    ASSUME NEW v \in Numbers
    PROVE  v \in Seq(Bits) /\ Len(v) > 0
<1>1. PICK n \in Widths : v \in [1 .. n -> Bits]
  BY DEF Numbers
<1>2. n \in Nat \ {0}
  BY BitsAssumption
<1> QED BY <1>1, <1>2, SMT

LEMMA FieldKinds ==
    ASSUME NEW f \in FrameField
    PROVE  /\ f.kind \in {"value", "miss", "hit", "memory"}
           /\ f.kind \in {"value", "miss"} =>
                  /\ f.value \in Seq(Bits) /\ Len(f.value) > 0 /\ f.block \in Nat
                  /\ f = [kind |-> f.kind, value |-> f.value, block |-> f.block]
           /\ f.kind = "hit" => f.value \in Nat /\ f = [kind |-> "hit", value |-> f.value]
           /\ f.kind = "memory" =>
                  /\ f.value \in Seq(Bits) /\ Len(f.value) = ByteBits
                  /\ f = [kind |-> "memory", value |-> f.value]
<1>1. CASE f \in [kind : {"value", "miss"}, value : Numbers, block : Blocks]
  <2>1. f.value \in Numbers /\ f.block \in Blocks /\ f.kind \in {"value", "miss"}
        /\ f = [kind |-> f.kind, value |-> f.value, block |-> f.block]
    BY <1>1
  <2>2. f.block \in Nat
    BY <2>1, BitsAssumption
  <2> QED BY <2>1, <2>2, NumbersType
<1>2. CASE f \in [kind : {"hit"}, value : 0 .. MaxIndex]
  <2>1. f.kind = "hit" /\ f = [kind |-> "hit", value |-> f.value] /\ f.value \in 0 .. MaxIndex
    BY <1>2
  <2> QED BY <2>1, BitsAssumption, SMT
<1>3. CASE f \in [kind : {"memory"}, value : [1 .. ByteBits -> Bits]]
  <2>1. f.kind = "memory" /\ f = [kind |-> "memory", value |-> f.value]
        /\ f.value \in [1 .. ByteBits -> Bits]
    BY <1>3
  <2>2. f.value \in Seq(Bits) /\ Len(f.value) = ByteBits
    <3>1. ByteBits \in Nat
      BY BitsAssumption
    <3> QED BY <2>1, <3>1, SMT
  <2> QED BY <2>1, <2>2
<1> QED BY <1>1, <1>2, <1>3 DEF FrameField

(* What is written for each kind of field. *)
LEMMA CodeIs ==
    ASSUME NEW f \in FrameField
    PROVE  /\ f.kind = "value" => Code(f) = encodeValue(f.value, f.block)
           /\ f.kind = "miss" => Code(f) = Escape \o encodeValue(f.value, f.block)
           /\ f.kind = "hit" => Code(f) = IndexCode(f.value)
<1>1. f.kind = "value" => Code(f) = encodeValue(f.value, f.block)
  <2> SUFFICES ASSUME f.kind = "value" PROVE Code(f) = encodeValue(f.value, f.block)
    OBVIOUS
  <2>1. f.kind # "miss"
    OBVIOUS
  <2> QED BY <2>1, Zenon DEF Code
<1>2. f.kind = "miss" => Code(f) = Escape \o encodeValue(f.value, f.block)
  <2> SUFFICES ASSUME f.kind = "miss" PROVE Code(f) = Escape \o encodeValue(f.value, f.block)
    OBVIOUS
  <2>1. f.kind # "value"
    OBVIOUS
  <2> QED BY <2>1, Zenon DEF Code
<1>3. f.kind = "hit" => Code(f) = IndexCode(f.value)
  <2> SUFFICES ASSUME f.kind = "hit" PROVE Code(f) = IndexCode(f.value)
    OBVIOUS
  <2>1. f.kind # "value" /\ f.kind # "miss"
    OBVIOUS
  <2> QED BY <2>1, Zenon DEF Code
<1> QED BY <1>1, <1>2, <1>3

(* The place that a hit of index i takes among the unary numbers. *)
UnaryPlace(i) == IF i > 1 THEN i + 1 ELSE i

LEMMA CodeType ==
    ASSUME NEW f \in FrameField, f.kind # "memory"
    PROVE  Code(f) \in Seq(Bits)
<1>1. CASE f.kind = "value"
  BY <1>1, CodeIs, FieldKinds, EncodeValueType
<1>2. CASE f.kind = "miss"
  <2>1. Escape \in Seq(Bits)
    BY UnaryType DEF Escape
  <2>2. encodeValue(f.value, f.block) \in Seq(Bits)
    BY <1>2, FieldKinds, EncodeValueType
  <2> QED BY <1>2, <2>1, <2>2, CodeIs, ConcatFacts
<1>3. CASE f.kind = "hit"
  <2>1. f.value \in Nat
    BY <1>3, FieldKinds
  <2>2. UnaryPlace(f.value) \in Nat
    BY <2>1, SMT DEF UnaryPlace
  <2>3. Code(f) = Unary(UnaryPlace(f.value))
    BY <1>3, CodeIs, Zenon DEF IndexCode, UnaryPlace
  <2> QED BY <2>2, <2>3, UnaryType
<1> QED BY <1>1, <1>2, <1>3, FieldKinds

(* Field f is written from place p to place q. *)
Coded(bits, p, f, q) ==
    IF f.kind = "memory" THEN HoldsAt(bits, Aligned(p), f.value) /\ q = Aligned(p) + ByteBits
    ELSE HoldsAt(bits, p, Code(f)) /\ q = p + Len(Code(f))

(* A field stays where it was written. *)
LEMMA CodedLonger ==
    ASSUME NEW bits \in Seq(Bits), NEW more \in Seq(Bits), NEW p \in Nat, NEW f \in FrameField,
           NEW q, Coded(bits, p, f, q)
    PROVE  Coded(bits \o more, p, f, q)
<1>1. CASE f.kind = "memory"
  <2>1. f.value \in Seq(Bits) /\ Aligned(p) \in Nat
    BY <1>1, FieldKinds, AlignedType
  <2>2. HoldsAt(bits, Aligned(p), f.value) /\ q = Aligned(p) + ByteBits
    BY <1>1 DEF Coded
  <2>3. HoldsAt(bits \o more, Aligned(p), f.value)
    BY <2>1, <2>2, HoldsLonger
  <2> QED BY <1>1, <2>2, <2>3 DEF Coded
<1>2. CASE f.kind # "memory"
  <2>1. Code(f) \in Seq(Bits)
    BY <1>2, CodeType
  <2>2. HoldsAt(bits, p, Code(f)) /\ q = p + Len(Code(f))
    BY <1>2 DEF Coded
  <2>3. HoldsAt(bits \o more, p, Code(f))
    BY <2>1, <2>2, HoldsLonger
  <2> QED BY <1>2, <2>2, <2>3 DEF Coded
<1> QED BY <1>1, <1>2

(* The places where the fields end: what is written so far, and what is read. *)
Marks(bits, fs, ends) ==
    /\ ends \in [0 .. Len(fs) -> Nat] /\ ends[0] = 0
    /\ \A k \in 1 .. Len(fs) : Coded(bits, ends[k - 1], fs[k], ends[k])

(* The fields read are the first of those written. *)
ReadTo(rd, fs, next, ends) ==
    /\ rd \in Seq(FrameField) /\ Len(rd) <= Len(fs)
    /\ \A k \in 1 .. Len(rd) : rd[k] = fs[k]
    /\ next = ends[Len(rd)]

FrameTypes ==
    /\ buffer \in Seq(Bits) /\ fields \in Seq(FrameField) /\ flushed \in BOOLEAN

(* Before the flush the last field ends the buffer; after it, less than a byte is left. *)
Ended(ends) ==
    /\ flushed => Len(buffer) - ends[Len(fields)] \in 0 .. ByteBits - 1
    /\ ~ flushed => Len(buffer) = ends[Len(fields)] /\ read = << >>

FrameInv ==
    /\ FrameTypes
    /\ \E ends : Marks(buffer, fields, ends) /\ ReadTo(read, fields, nextSrc, ends) /\ Ended(ends)

(* The places where the fields end say what the property says. *)
LEMMA FrameInvHolds ==
    ASSUME FrameInv PROVE ReadsWhatWasWritten
<1>1. PICK ends : Marks(buffer, fields, ends) /\ ReadTo(read, fields, nextSrc, ends) /\ Ended(ends)
  BY DEF FrameInv
<1>2. fields \in Seq(FrameField) /\ read \in Seq(FrameField) /\ Len(read) <= Len(fields)
      /\ \A k \in 1 .. Len(read) : read[k] = fields[k]
  BY <1>1 DEF FrameInv, FrameTypes, ReadTo
<1>3. SubSeq(read, 1, Len(read)) = SubSeq(fields, 1, Len(read))
  <2>1. SubSeq(read, 1, Len(read)) = [k \in 1 .. Len(read) |-> read[k]]
    BY <1>2, SMT
  <2>2. SubSeq(fields, 1, Len(read)) = [k \in 1 .. Len(read) |-> fields[k]]
    BY <1>2, SMT
  <2> QED BY <1>2, <2>1, <2>2, Zenon
<1>4. IsPrefix(read, fields)
  BY <1>2, <1>3 DEF IsPrefix
<1>5. flushed /\ Len(read) = Len(fields) => Len(buffer) - nextSrc \in 0 .. ByteBits - 1
  BY <1>1 DEF ReadTo, Ended
<1> QED BY <1>4, <1>5 DEF ReadsWhatWasWritten

LEMMA FrameInitInv ==
    ASSUME FrameInit PROVE FrameInv
<1> DEFINE ends == [k \in 0 .. 0 |-> 0]
<1>1. buffer = << >> /\ fields = << >> /\ flushed = FALSE /\ nextSrc = 0 /\ read = << >>
  BY DEF FrameInit
<1>2. << >> \in Seq(Bits) /\ << >> \in Seq(FrameField) /\ Len(<< >>) = 0
  BY SMT
<1>3. ends \in [0 .. 0 -> Nat] /\ ends[0] = 0
  BY SMT
<1>4. 1 .. 0 = {}
  BY SMT
<1> HIDE DEF ends
<1>5. Marks(buffer, fields, ends) /\ ReadTo(read, fields, nextSrc, ends) /\ Ended(ends)
  BY <1>1, <1>2, <1>3, <1>4 DEF Marks, ReadTo, Ended
<1> QED BY <1>1, <1>2, <1>5 DEF FrameInv, FrameTypes

LEMMA MarksLonger ==
    ASSUME NEW bits \in Seq(Bits), NEW more \in Seq(Bits), NEW fs \in Seq(FrameField), NEW ends,
           Marks(bits, fs, ends)
    PROVE  Marks(bits \o more, fs, ends)
<1>1. ASSUME NEW k \in 1 .. Len(fs)
      PROVE  Coded(bits \o more, ends[k - 1], fs[k], ends[k])
  <2>1. k - 1 \in 0 .. Len(fs) /\ fs[k] \in FrameField
    BY SMT
  <2>2. ends[k - 1] \in Nat /\ Coded(bits, ends[k - 1], fs[k], ends[k])
    BY <2>1 DEF Marks
  <2> QED BY <2>1, <2>2, CodedLonger
<1> QED BY <1>1 DEF Marks

(* One more field, one more place. *)
LEMMA MarksAppended ==
    ASSUME NEW bits \in Seq(Bits), NEW fs \in Seq(FrameField), NEW ends, Marks(bits, fs, ends),
           NEW f \in FrameField, NEW q \in Nat, Coded(bits, ends[Len(fs)], f, q)
    PROVE  \E new : Marks(bits, Append(fs, f), new) /\ new[Len(Append(fs, f))] = q
<1> DEFINE n == Len(fs)
           new == [k \in 0 .. n + 1 |-> IF k <= n THEN ends[k] ELSE q]
<1>1. /\ n \in Nat /\ Append(fs, f) \in Seq(FrameField) /\ Len(Append(fs, f)) = n + 1
      /\ \A k \in 1 .. n : Append(fs, f)[k] = fs[k]
      /\ Append(fs, f)[n + 1] = f
  BY SMT
<1>2. /\ ends \in [0 .. n -> Nat] /\ ends[0] = 0
      /\ \A k \in 1 .. n : Coded(bits, ends[k - 1], fs[k], ends[k])
  BY DEF Marks
<1> HIDE DEF n
<1>3. new \in [0 .. n + 1 -> Nat] /\ new[n + 1] = q /\ \A k \in 0 .. n : new[k] = ends[k]
  BY <1>1, <1>2, SMT
<1> HIDE DEF new
<1>4. new[0] = 0
  BY <1>1, <1>2, <1>3, SMT
<1>5. ASSUME NEW k \in 1 .. n + 1
      PROVE  Coded(bits, new[k - 1], Append(fs, f)[k], new[k])
  <2>1. CASE k = n + 1
    <3>1. k - 1 = n /\ n \in 0 .. n
      BY <1>1, <2>1, SMT
    <3>2. new[k - 1] = ends[n] /\ Append(fs, f)[k] = f /\ new[k] = q
      BY <1>1, <1>3, <2>1, <3>1
    <3> QED BY <3>2 DEF n
  <2>2. CASE k # n + 1
    <3>1. k \in 1 .. n /\ k \in 0 .. n /\ k - 1 \in 0 .. n
      BY <1>1, <2>2, SMT
    <3> QED BY <1>1, <1>2, <1>3, <3>1
  <2> QED BY <2>1, <2>2
<1>6. Marks(bits, Append(fs, f), new)
  BY <1>1, <1>3, <1>4, <1>5 DEF Marks
<1> QED BY <1>1, <1>3, <1>6

LEMMA CodeWritten ==
    ASSUME NEW bits \in Seq(Bits), NEW f \in FrameField, f.kind # "memory"
    PROVE  Coded(bits \o Code(f), Len(bits), f, Len(bits \o Code(f)))
<1>1. Code(f) \in Seq(Bits)
  BY CodeType
<1>2. HoldsAt(bits \o Code(f), Len(bits), Code(f))
      /\ Len(bits \o Code(f)) = Len(bits) + Len(Code(f))
  BY <1>1, HoldsAppended, ConcatFacts
<1> QED BY <1>2 DEF Coded

LEMMA MemoryWritten ==
    ASSUME NEW bits \in Seq(Bits), NEW f \in FrameField, f.kind = "memory"
    PROVE  Coded(Padded(bits) \o f.value, Len(bits), f, Len(Padded(bits) \o f.value))
<1>1. f.value \in Seq(Bits) /\ Len(f.value) = ByteBits
  BY FieldKinds
<1>2. Padded(bits) \in Seq(Bits) /\ Len(Padded(bits)) = Aligned(Len(bits))
  BY PaddedType
<1>3. HoldsAt(Padded(bits) \o f.value, Len(Padded(bits)), f.value)
      /\ Len(Padded(bits) \o f.value) = Len(Padded(bits)) + Len(f.value)
  BY <1>1, <1>2, HoldsAppended, ConcatFacts
<1> QED BY <1>1, <1>2, <1>3 DEF Coded

(* Writing a field keeps the places of the others. *)
LEMMA WriteStep ==
    ASSUME FrameInv, ~ flushed, NEW f \in FrameField, NEW more \in Seq(Bits),
           Coded(buffer \o more, Len(buffer), f, Len(buffer \o more)),
           buffer' = buffer \o more, fields' = Append(fields, f),
           UNCHANGED <<flushed, nextSrc, read>>
    PROVE  FrameInv'
<1>1. PICK ends : Marks(buffer, fields, ends) /\ ReadTo(read, fields, nextSrc, ends) /\ Ended(ends)
  BY DEF FrameInv
<1>2. buffer \in Seq(Bits) /\ fields \in Seq(FrameField) /\ flushed \in BOOLEAN
  BY DEF FrameInv, FrameTypes
<1>3. buffer \o more \in Seq(Bits) /\ Len(buffer \o more) \in Nat
  BY <1>2, ConcatFacts
<1>4. Marks(buffer \o more, fields, ends)
  BY <1>1, <1>2, MarksLonger
<1>5. Len(buffer) = ends[Len(fields)] /\ read = << >>
  BY <1>1 DEF Ended
<1>6. PICK new : /\ Marks(buffer \o more, Append(fields, f), new)
                 /\ new[Len(Append(fields, f))] = Len(buffer \o more)
  <2>1. Coded(buffer \o more, ends[Len(fields)], f, Len(buffer \o more))
    BY <1>5
  <2> QED BY <1>2, <1>3, <1>4, <2>1, MarksAppended
<1>7. nextSrc = 0 /\ Len(<< >>) = 0 /\ << >> \in Seq(FrameField) /\ 1 .. 0 = {}
  <2>1. Len(<< >>) = 0 /\ << >> \in Seq(FrameField) /\ 1 .. 0 = {}
    BY SMT
  <2> QED BY <1>1, <1>5, <2>1 DEF ReadTo, Marks
<1>8. Append(fields, f) \in Seq(FrameField) /\ 0 <= Len(Append(fields, f))
  BY <1>2, SMT
<1>9. ReadTo(read', fields', nextSrc', new)
  BY <1>5, <1>6, <1>7, <1>8 DEF ReadTo, Marks
<1>10. Marks(buffer', fields', new) /\ Ended(new)'
  BY <1>5, <1>6 DEF Ended
<1>11. FrameTypes'
  BY <1>2, <1>3, <1>8 DEF FrameTypes
<1> QED BY <1>9, <1>10, <1>11 DEF FrameInv

LEMMA encodeStep ==
    ASSUME FrameInv, NEW f \in FrameField, encode(f)
    PROVE  FrameInv'
<1>1. buffer \in Seq(Bits)
  BY DEF FrameInv, FrameTypes
<1>2. /\ ~ flushed /\ f.kind # "memory"
      /\ buffer' = buffer \o Code(f) /\ fields' = Append(fields, f)
      /\ UNCHANGED <<flushed, nextSrc, read>>
  BY DEF encode
<1>3. Code(f) \in Seq(Bits) /\ Coded(buffer \o Code(f), Len(buffer), f, Len(buffer \o Code(f)))
  BY <1>1, <1>2, CodeType, CodeWritten
<1> QED BY <1>2, <1>3, WriteStep

LEMMA encodeMemoryStep ==
    ASSUME FrameInv, NEW f \in FrameField, encodeMemory(f)
    PROVE  FrameInv'
<1>1. buffer \in Seq(Bits)
  BY DEF FrameInv, FrameTypes
<1>2. /\ ~ flushed /\ f.kind = "memory"
      /\ buffer' = Padded(buffer) \o f.value /\ fields' = Append(fields, f)
      /\ UNCHANGED <<flushed, nextSrc, read>>
  BY DEF encodeMemory
<1>3. f.value \in Seq(Bits)
  BY <1>2, FieldKinds
<1>4. PICK pad \in Seq(Bits) : Padded(buffer) = buffer \o pad
  BY <1>1, PaddedType
<1> DEFINE more == pad \o f.value
<1>5. more \in Seq(Bits) /\ Padded(buffer) \o f.value = buffer \o more
  <2>1. more \in Seq(Bits)
    BY <1>3, ConcatFacts
  <2>2. (buffer \o pad) \o f.value = buffer \o (pad \o f.value)
    BY <1>1, <1>3, BitsAssociate
  <2> QED BY <1>4, <2>1, <2>2
<1>6. Coded(Padded(buffer) \o f.value, Len(buffer), f, Len(Padded(buffer) \o f.value))
  BY <1>1, <1>2, MemoryWritten
<1> HIDE DEF more
<1>7. Coded(buffer \o more, Len(buffer), f, Len(buffer \o more)) /\ buffer' = buffer \o more
  BY <1>2, <1>5, <1>6
<1> QED BY <1>2, <1>5, <1>7, WriteStep

LEMMA FlushStep ==
    ASSUME FrameInv, Flush
    PROVE  FrameInv'
<1>1. PICK ends : Marks(buffer, fields, ends) /\ ReadTo(read, fields, nextSrc, ends) /\ Ended(ends)
  BY DEF FrameInv
<1>2. buffer \in Seq(Bits) /\ fields \in Seq(FrameField) /\ flushed \in BOOLEAN
  BY DEF FrameInv, FrameTypes
<1>3. /\ ~ flushed /\ flushed' = TRUE /\ buffer' = Padded(buffer)
      /\ UNCHANGED <<fields, nextSrc, read>>
  BY DEF Flush
<1>4. PICK pad \in Seq(Bits) : Padded(buffer) = buffer \o pad
  BY <1>2, PaddedType
<1>5. Marks(buffer', fields', ends)
  BY <1>1, <1>2, <1>3, <1>4, MarksLonger
<1>6. ReadTo(read', fields', nextSrc', ends)
  BY <1>1, <1>3
<1>7. Ended(ends)'
  <2>1. Len(buffer) = ends[Len(fields)] /\ Len(buffer') = Aligned(Len(buffer))
    BY <1>1, <1>2, <1>3, PaddedType DEF Ended
  <2>2. Len(buffer) \in Nat
    BY <1>2
  <2>3. Len(buffer') - ends[Len(fields')] \in 0 .. ByteBits - 1
    BY <1>3, <2>1, <2>2, AlignedType
  <2> QED BY <1>3, <2>3 DEF Ended
<1>8. FrameTypes'
  BY <1>2, <1>3, PaddedType DEF FrameTypes
<1> QED BY <1>5, <1>6, <1>7, <1>8 DEF FrameInv

(* The reader stands where the next field was written. *)
LEMMA NextCoded ==
    ASSUME FrameInv, Len(read) < Len(fields)
    PROVE  /\ buffer \in Seq(Bits) /\ nextSrc \in Nat /\ Expected \in FrameField
           /\ \E q \in Nat : Coded(buffer, nextSrc, Expected, q)
<1>1. PICK ends : Marks(buffer, fields, ends) /\ ReadTo(read, fields, nextSrc, ends)
  BY DEF FrameInv
<1>2. buffer \in Seq(Bits) /\ fields \in Seq(FrameField) /\ read \in Seq(FrameField)
  BY <1>1 DEF FrameInv, FrameTypes, ReadTo
<1> DEFINE k == Len(read) + 1
<1>3. k \in 1 .. Len(fields) /\ k \in 0 .. Len(fields) /\ k - 1 = Len(read)
      /\ Len(read) \in 0 .. Len(fields)
  BY <1>2, SMT
<1>4. Expected \in FrameField /\ Expected = fields[k]
  BY <1>2, <1>3 DEF Expected
<1> HIDE DEF k
<1>5. nextSrc = ends[k - 1] /\ nextSrc \in Nat /\ ends[k] \in Nat
  BY <1>1, <1>3 DEF ReadTo, Marks
<1>6. Coded(buffer, ends[k - 1], fields[k], ends[k])
  BY <1>1, <1>3 DEF Marks
<1>7. Coded(buffer, nextSrc, Expected, ends[k])
  BY <1>4, <1>5, <1>6
<1> QED BY <1>2, <1>4, <1>5, <1>7

(* A field read as it was written, up to where it ends. *)
LEMMA TookStep ==
    ASSUME FrameInv, flushed, Len(read) < Len(fields), NEW q,
           Coded(buffer, nextSrc, Expected, q), Took(Expected, q)
    PROVE  FrameInv'
<1>1. PICK ends : Marks(buffer, fields, ends) /\ ReadTo(read, fields, nextSrc, ends) /\ Ended(ends)
  BY DEF FrameInv
<1>2. buffer \in Seq(Bits) /\ fields \in Seq(FrameField) /\ read \in Seq(FrameField)
      /\ Len(read) <= Len(fields) /\ nextSrc = ends[Len(read)]
      /\ \A k \in 1 .. Len(read) : read[k] = fields[k]
  BY <1>1 DEF FrameInv, FrameTypes, ReadTo
<1> DEFINE k == Len(read) + 1
<1>3. k \in 1 .. Len(fields) /\ k <= Len(fields) /\ k - 1 = Len(read)
  BY <1>2, SMT
<1>4. Expected \in FrameField /\ Expected = fields[k]
  BY <1>2, <1>3 DEF Expected
<1>5. read' = Append(read, Expected) /\ nextSrc' = q /\ UNCHANGED <<buffer, fields, flushed>>
  BY DEF Took
<1>6. /\ Append(read, Expected) \in Seq(FrameField) /\ Len(Append(read, Expected)) = k
      /\ \A i \in 1 .. k : Append(read, Expected)[i] = fields[i]
  <2>1. /\ Append(read, Expected) \in Seq(FrameField) /\ Len(Append(read, Expected)) = Len(read) + 1
        /\ \A i \in 1 .. Len(read) : Append(read, Expected)[i] = read[i]
        /\ Append(read, Expected)[Len(read) + 1] = Expected
    BY <1>2, <1>4
  <2>2. \A i \in 1 .. k : i \in 1 .. Len(read) \/ i = k
    BY <1>2, SMT
  <2> QED BY <1>2, <1>4, <2>1, <2>2
<1> HIDE DEF k
<1>7. q = ends[k]
  <2>1. Coded(buffer, nextSrc, Expected, ends[k])
    BY <1>1, <1>2, <1>3, <1>4 DEF Marks
  <2> QED BY <2>1 DEF Coded
<1>8. ReadTo(read', fields', nextSrc', ends)
  BY <1>3, <1>5, <1>6, <1>7 DEF ReadTo
<1>9. Marks(buffer', fields', ends) /\ Ended(ends)'
  BY <1>1, <1>5 DEF Ended
<1>10. FrameTypes'
  BY <1>5 DEF FrameInv, FrameTypes
<1> QED BY <1>8, <1>9, <1>10 DEF FrameInv

LEMMA decodeStep ==
    ASSUME FrameInv, decode
    PROVE  FrameInv'
<1> DEFINE r == decodeValue(buffer, nextSrc, Len(Expected.value), Expected.block)
<1>1. /\ flushed /\ Len(read) < Len(fields) /\ Expected.kind = "value"
      /\ Took([Expected EXCEPT !.value = r.value], r.next)
  BY DEF decode
<1>2. PICK q \in Nat : Coded(buffer, nextSrc, Expected, q)
  BY <1>1, NextCoded
<1>3. /\ buffer \in Seq(Bits) /\ nextSrc \in Nat /\ Expected \in FrameField
      /\ Expected.value \in Seq(Bits) /\ Len(Expected.value) > 0 /\ Expected.block \in Nat
  BY <1>1, NextCoded, FieldKinds
<1>4. HoldsAt(buffer, nextSrc, encodeValue(Expected.value, Expected.block))
      /\ q = nextSrc + Len(encodeValue(Expected.value, Expected.block))
  BY <1>1, <1>2, <1>3, CodeIs DEF Coded
<1>5. r.value = Expected.value /\ r.next = q
  BY <1>3, <1>4, NumberReadBack
<1> HIDE DEF r
<1>6. [Expected EXCEPT !.value = r.value] = Expected
  <2>1. Expected = [kind |-> Expected.kind, value |-> Expected.value, block |-> Expected.block]
    BY <1>1, <1>3, FieldKinds
  <2> QED BY <1>5, <2>1
<1> QED BY <1>1, <1>2, <1>5, <1>6, TookStep

LEMMA decodeMemoryStep ==
    ASSUME FrameInv, decodeMemory
    PROVE  FrameInv'
<1> DEFINE p == Aligned(nextSrc)
<1>1. /\ flushed /\ Len(read) < Len(fields) /\ Expected.kind = "memory"
      /\ Took([Expected EXCEPT !.value = SubSeq(buffer, p + 1, p + ByteBits)], p + ByteBits)
  BY DEF decodeMemory
<1>2. PICK q \in Nat : Coded(buffer, nextSrc, Expected, q)
  BY <1>1, NextCoded
<1>3. /\ buffer \in Seq(Bits) /\ nextSrc \in Nat /\ Expected \in FrameField
      /\ Expected.value \in Seq(Bits) /\ Len(Expected.value) = ByteBits
      /\ Expected = [kind |-> "memory", value |-> Expected.value]
  BY <1>1, NextCoded, FieldKinds
<1>4. HoldsAt(buffer, p, Expected.value) /\ q = p + ByteBits
  BY <1>1, <1>2 DEF Coded
<1>5. p \in Nat /\ ByteBits \in Nat
  BY <1>3, AlignedType, BitsAssumption
<1> HIDE DEF p
<1> DEFINE d == SubSeq(buffer, p + 1, p + ByteBits)
<1>6. p + ByteBits <= Len(buffer) /\ \A j \in 1 .. ByteBits : buffer[p + j] = Expected.value[j]
  BY <1>3, <1>4 DEF HoldsAt
<1>7. d \in Seq(Bits) /\ Len(d) = ByteBits /\ \A j \in 1 .. ByteBits : d[j] = buffer[p + j]
  BY <1>3, <1>5, <1>6, NextPart
<1>8. d = Expected.value
  BY <1>3, <1>6, <1>7, SeqEqual
<1>9. [Expected EXCEPT !.value = d] = Expected
  <2> HIDE DEF d
  <2> QED BY <1>3, <1>8
<1> QED BY <1>1, <1>2, <1>4, <1>9, TookStep

LEMMA decodeCachedStep ==
    ASSUME FrameInv, decodeCached
    PROVE  FrameInv'
<1> DEFINE k == Zeros(buffer, nextSrc)
           p == nextSrc + k + 1
           n == IF Expected.kind = "miss" THEN Len(Expected.value) ELSE 1
           b == IF Expected.kind = "miss" THEN Expected.block ELSE 0
           r == decodeValue(buffer, p, n, b)
<1>1. /\ flushed /\ Len(read) < Len(fields) /\ Expected.kind \in {"hit", "miss"}
      /\ IF k = 2 THEN Took([kind |-> "miss", value |-> r.value, block |-> b], r.next)
         ELSE Took([kind |-> "hit", value |-> IF k > 2 THEN k - 1 ELSE k], p)
  BY DEF decodeCached
<1>2. PICK q \in Nat : Coded(buffer, nextSrc, Expected, q)
  BY <1>1, NextCoded
<1>3. buffer \in Seq(Bits) /\ nextSrc \in Nat /\ Expected \in FrameField
  BY <1>1, NextCoded
<1>4. HoldsAt(buffer, nextSrc, Code(Expected)) /\ q = nextSrc + Len(Code(Expected))
  BY <1>1, <1>2 DEF Coded
<1>5. CASE Expected.kind = "hit"
  <2>1. Expected.value \in Nat /\ Expected = [kind |-> "hit", value |-> Expected.value]
    BY <1>3, <1>5, FieldKinds
  <2> DEFINE i == UnaryPlace(Expected.value)
  <2>2. i \in Nat /\ i # 2 /\ (IF i > 2 THEN i - 1 ELSE i) = Expected.value
    BY <2>1, SMT DEF UnaryPlace
  <2>3. Code(Expected) = Unary(i)
    BY <1>3, <1>5, CodeIs, Zenon DEF IndexCode, UnaryPlace
  <2> HIDE DEF i
  <2>4. k = i
    BY <1>3, <1>4, <2>2, <2>3, IndexReadBack
  <2>5. Len(Unary(i)) = i + 1
    BY <2>2, UnaryType
  <2>6. q = p
    BY <1>3, <1>4, <2>2, <2>3, <2>4, <2>5, SMT
  <2> HIDE DEF k, p, r
  <2>7. Took(Expected, q)
    BY <1>1, <2>1, <2>2, <2>4, <2>6
  <2> QED BY <1>1, <1>2, <2>7, TookStep
<1>6. CASE Expected.kind = "miss"
  <2>1. /\ Expected.value \in Seq(Bits) /\ Len(Expected.value) > 0 /\ Expected.block \in Nat
        /\ Expected = [kind |-> "miss", value |-> Expected.value, block |-> Expected.block]
    BY <1>3, <1>6, FieldKinds
  <2> DEFINE e == encodeValue(Expected.value, Expected.block)
  <2>2. e \in Seq(Bits) /\ Code(Expected) = Escape \o e
    BY <1>3, <1>6, <2>1, CodeIs, EncodeValueType
  <2>3. Escape \in Seq(Bits) /\ Len(Escape) = 3
    BY EscapeType
  <2> HIDE DEF e
  <2>4. HoldsAt(buffer, nextSrc, Escape) /\ HoldsAt(buffer, nextSrc + Len(Escape), e)
    <3>1. HoldsAt(buffer, nextSrc, Escape \o e)
      BY <1>4, <2>2
    <3>2. e \in Seq(Bits) /\ Escape \in Seq(Bits)
      BY <2>2, <2>3
    <3> QED BY <1>3, <3>1, <3>2, HoldsApart
  <2>5. k = 2
    <3>1. HoldsAt(buffer, nextSrc, Unary(2)) /\ 2 \in Nat
      BY <2>4 DEF Escape
    <3> QED BY <1>3, <3>1, IndexReadBack
  <2>6. p = nextSrc + 3 /\ p \in Nat /\ q = p + Len(e)
    <3>1. Len(Escape \o e) = 3 + Len(e) /\ Len(e) \in Nat
      <4>1. e \in Seq(Bits) /\ Escape \in Seq(Bits)
        BY <2>2, <2>3
      <4>2. Len(Escape \o e) = Len(Escape) + Len(e) /\ Len(e) \in Nat
        BY <4>1, ConcatFacts
      <4> QED BY <2>3, <4>2
    <3> QED BY <1>3, <1>4, <2>2, <2>5, <3>1, SMT
  <2>7. HoldsAt(buffer, p, e)
    BY <2>3, <2>4, <2>6
  <2> HIDE DEF k, p
  <2>8. r.value = Expected.value /\ r.next = q
    BY <1>3, <1>6, <2>1, <2>6, <2>7, NumberReadBack DEF e
  <2>9. b = Expected.block
    BY <1>6
  <2> HIDE DEF r, b
  <2>10. Took(Expected, q)
    BY <1>1, <2>1, <2>5, <2>8, <2>9
  <2> QED BY <1>1, <1>2, <2>10, TookStep
<1> QED BY <1>1, <1>5, <1>6

LEMMA FrameStep ==
    ASSUME FrameInv, [FrameNext]_frameVars
    PROVE  FrameInv'
<1>1. CASE UNCHANGED frameVars
  BY <1>1 DEF frameVars, FrameInv, FrameTypes, Ended
<1>2. ASSUME NEW f \in FrameField, encode(f) PROVE FrameInv'
  BY <1>2, encodeStep
<1>3. ASSUME NEW f \in FrameField, encodeMemory(f) PROVE FrameInv'
  BY <1>3, encodeMemoryStep
<1>4. CASE Flush
  BY <1>4, FlushStep
<1>5. CASE decode
  BY <1>5, decodeStep
<1>6. CASE decodeCached
  BY <1>6, decodeCachedStep
<1>7. CASE decodeMemory
  BY <1>7, decodeMemoryStep
<1> QED BY <1>1, <1>2, <1>3, <1>4, <1>5, <1>6, <1>7 DEF FrameNext

(* EncodeBuffer and DecodeBuffer: whatever fields a frame has, the reader takes each of them
   as it was written and ends less than a byte before the end of the frame. *)
THEOREM FieldsAreReadBack == FrameSpec => []ReadsWhatWasWritten
<1>1. FrameInit => FrameInv
  BY FrameInitInv
<1>2. FrameInv /\ [FrameNext]_frameVars => FrameInv'
  BY FrameStep
<1>3. FrameInv => ReadsWhatWasWritten
  BY FrameInvHolds
<1> QED BY <1>1, <1>2, <1>3, PTL DEF FrameSpec

=============================================================================
