----------------------------- MODULE FieldCache -----------------------------
(***************************************************************************)
(* The caches of single fields (nxcomp/src/IntCache, CharCache, XidCache,  *)
(* FreeCache, ActionCache, OpcodeCache) as EncodeBuffer and DecodeBuffer   *)
(* use them.  A field is sent as its index in a list that moves what is    *)
(* found towards the front, or as a difference from the last value that    *)
(* was inserted.  Nobody ever compares the lists of the two sides.         *)
(*                                                                         *)
(* The bits are not here: an index or a difference is written as a token.  *)
(* A difference carries the block size it was written with, since reading  *)
(* its bits with another one gives some other number (see BitCoding).      *)
(***************************************************************************)
EXTENDS Integers, Sequences, FiniteSets

CONSTANTS
    Kinds,       \* the kinds of field that are sent
    Moduli,      \* 2^numBits of the fields sent through one IntCache
    Limits,      \* the blockSize arguments of encodeCachedValue
    XidModulus,  \* 2^29
    ActionModulus, PositionModulus,   \* 2^15 and 2^13
    CharModulus, \* 2^8
    SlotModulus, \* 2^8: the caches of an XidCache, OpcodeCache or ActionCache
    IntSize,     \* size_ of an IntCache
    CharSize,    \* 7
    WordBits,    \* 32
    MaxWire,     \* bound for model checking: fields on the wire
    MaxFields,   \* bound for model checking: fields sent in all
    Null

ASSUME ModuliAssumption ==
    /\ Moduli \subseteq Nat \ {0}
    /\ Limits \subseteq Nat
    /\ XidModulus \in Nat \ {0} /\ ActionModulus \in Nat \ {0}
    /\ PositionModulus \in Nat \ {0} /\ CharModulus \in Nat \ {0}
    /\ SlotModulus \in Nat \ {0}
    /\ WordBits \in Nat

(* The insertion point of a list with two elements is its third place:
   ClientCache creates caches of two for fields that it never sends through
   them, and no cache that is used has less than five. *)
ASSUME SizeAssumption ==
    IntSize \in Nat /\ IntSize >= 3 /\ CharSize \in Nat /\ CharSize >= 3

ASSUME BoundsAssumption == MaxWire \in Nat /\ MaxFields \in Nat

VARIABLES enc,      \* the caches of the encoding side
          dec,      \* the caches of the decoding side
          wire,     \* tokens written and not yet read
          out,      \* the last field decoded
          sent,     \* the number of fields sent, for the bound only
          history   \* ghost: for each token, the field sent and enc after it

vars == <<enc, dec, wire, out, sent, history>>

-----------------------------------------------------------------------------
(* IntCache *)

(* The element at place i goes half way to the front. *)
MovedUp(b, i) ==
    LET target == (i - 1) \div 2 + 1
    IN  [k \in 1 .. Len(b) |->
            IF k = target THEN b[i]
            ELSE IF target < k /\ k <= i THEN b[k - 1] ELSE b[k]]

(* v goes in at place p; a list that is full loses its last element. *)
InsertedAt(b, p, v, size) ==
    [k \in 1 .. (IF Len(b) >= size THEN size ELSE Len(b) + 1) |->
        IF k = p THEN v ELSE IF k > p THEN b[k - 1] ELSE b[k]]

InsertionPoint(b) == IF 2 >= Len(b) THEN Len(b) + 1 ELSE 3

(* The first place of v in b is i. *)
FoundAt(b, v, i) ==
    /\ i \in 1 .. Len(b)
    /\ b[i] = v
    /\ \A j \in 1 .. i - 1 : b[j] # v

(* Bit j of d differs from bit j - 1. *)
Changes(d, j) == (d \div 2^j) % 2 # (d \div 2^(j - 1)) % 2

(* predictedBlockSize_: the place of the last change below the mask and one
   more, and not less than 2. *)
BlockSize(d, m) ==
    LET upTo == {k \in 0 .. WordBits - 1 :
                    \E j \in 1 .. WordBits - 1 : k <= j /\ 2^j < m /\ Changes(d, j)}
    IN  IF Cardinality(upTo) < 2 THEN 2 ELSE Cardinality(upTo)

NewIntCache == [buffer |-> << >>, lastDiff |-> 0, lastValueInserted |-> 0, block |-> 0]

getBlockSize(c, limit) == IF limit > 0 /\ limit < c.block THEN limit ELSE c.block

(* The end of lookup and of insert: value was at distance diff. *)
Remembered(c, value, diff, m) ==
    [buffer |-> InsertedAt(c.buffer, InsertionPoint(c.buffer), value, IntSize),
     lastDiff |-> diff,
     lastValueInserted |-> value,
     block |-> IF diff # c.lastDiff THEN BlockSize(diff, m) ELSE c.block]

(* lookup of a value that is not in the list. *)
Missed(c, value, m) ==
    LET diff == (value - c.lastValueInserted) % m
    IN  [diff |-> diff, cache |-> Remembered(c, value, diff, m)]

(* insert: what the decoding side does with a difference. *)
Inserted(c, diff, m) ==
    LET value == (c.lastValueInserted + diff) % m
    IN  [value |-> value, cache |-> Remembered(c, value, diff, m)]

(* get, and the part of lookup that is the same. *)
Moved(c, i) == [c EXCEPT !.buffer = MovedUp(c.buffer, i)]

Pushed(c, value) == [c EXCEPT !.buffer = InsertedAt(c.buffer, 1, value, IntSize)]

Hit(i) == [hit |-> TRUE, index |-> i]
Miss(diff, block) == [hit |-> FALSE, diff |-> diff, block |-> block]

(* Mutant: the block size is asked of the cache after the lookup. *)
EncodingsMutant(c, value, m, limit) ==
    LET places == {i \in 1 .. Len(c.buffer) : FoundAt(c.buffer, value, i)}
        miss   == Missed(c, value, m)
    IN  IF places # {}
        THEN {[token |-> Hit(i), cache |-> Moved(c, i)] : i \in places}
        ELSE {[token |-> Miss(miss.diff, getBlockSize(miss.cache, limit)),
               cache |-> miss.cache]}

(* encodeCachedValue: the token and the cache after it.  There is one. *)
Encodings(c, value, m, limit) ==
    LET places == {i \in 1 .. Len(c.buffer) : FoundAt(c.buffer, value, i)}
        miss   == Missed(c, value, m)
    IN  IF places # {}
        THEN {[token |-> Hit(i), cache |-> Moved(c, i)] : i \in places}
        ELSE {[token |-> Miss(miss.diff, getBlockSize(c, limit)), cache |-> miss.cache]}

(* decodeCachedValue: the value and the cache after it.  There is one, unless
   the bits of a difference are read with the wrong block size.  There is none
   if the index is past the end of the list: the code aborts the session, or,
   one place past the end, reads what was never written. *)
Decodings(c, t, m, limit) ==
    IF t.hit
    THEN {[value |-> c.buffer[i], cache |-> Moved(c, i)] :
             i \in {t.index} \cap (1 .. Len(c.buffer))}
    ELSE {Inserted(c, d, m) :
             d \in IF t.block = getBlockSize(c, limit) THEN {t.diff} ELSE 0 .. m - 1}

-----------------------------------------------------------------------------
(* CharCache and OpcodeCache: one list for each opcode, of what follows it. *)

NewOpcodeCache == [base |-> [s \in 0 .. CharModulus - 1 |-> << >>], slot |-> 0]

(* encodeOpcodeValue, with the lookup of the CharCache. *)
OpcodeEncodings(o, value) ==
    LET b == o.base[o.slot]
        places == {i \in 1 .. Len(b) : FoundAt(b, value, i)}
        After(list) == [base |-> [o.base EXCEPT ![o.slot] = list], slot |-> value]
    IN  IF places # {}
        THEN {[token |-> Hit(i), cache |-> After(MovedUp(b, i))] : i \in places}
        ELSE {[token |-> Miss(value, 0),
               cache |-> After(InsertedAt(b, InsertionPoint(b), value, CharSize))]}

(* decodeOpcodeValue. *)
OpcodeDecodings(o, t) ==
    LET b == o.base[o.slot]
        After(list, value) == [value |-> value,
                               cache |-> [base |-> [o.base EXCEPT ![o.slot] = list],
                                          slot |-> value]]
    IN  IF t.hit
        THEN {After(MovedUp(b, i), b[i]) : i \in {t.index} \cap (1 .. Len(b))}
        ELSE {After(InsertedAt(b, InsertionPoint(b), t.diff, CharSize), t.diff)}

-----------------------------------------------------------------------------
(* encodeDiffCachedValue and lastId: the distance from the previous value,
   less one. *)

NewSeries == [previous |-> 0, cache |-> NewIntCache]

SeriesEncodings(s, value, m) ==
    {[token |-> e.token, cache |-> [previous |-> value, cache |-> e.cache]] :
        e \in Encodings(s.cache, ((value - 1) - s.previous) % m, m, 0)}

SeriesDecodings(s, t, m) ==
    {LET value == (s.previous + (d.value + 1)) % m
     IN  [value |-> value, cache |-> [previous |-> value, cache |-> d.cache]] :
        d \in Decodings(s.cache, t, m, 0)}

-----------------------------------------------------------------------------
(* XidCache and ActionCache: one IntCache for each low byte of the last
   value, of the distances to the next one. *)

NewSlotted == [base |-> [s \in 0 .. SlotModulus - 1 |-> NewIntCache],
               slot |-> 0, last |-> 0]

(* Mutant: the slot is chosen before the cache is used. *)
SlottedEncodingsMutant(x, value, m) ==
    LET s == value % SlotModulus
    IN  {[token |-> e.token,
          cache |-> [base |-> [x.base EXCEPT ![s] = e.cache],
                     slot |-> s, last |-> value]] :
            e \in Encodings(x.base[s], (value - x.last) % m, m, 0)}

(* encodeXidValue, and the second half of encodeActionValue. *)
SlottedEncodings(x, value, m) ==
    {[token |-> e.token,
      cache |-> [base |-> [x.base EXCEPT ![x.slot] = e.cache],
                 slot |-> value % SlotModulus, last |-> value]] :
        e \in Encodings(x.base[x.slot], (value - x.last) % m, m, 0)}

(* decodeXidValue, and the first half of decodeActionValue. *)
SlottedDecodings(x, t, m) ==
    {LET value == (x.last + d.value) % m
     IN  [value |-> value,
          cache |-> [base |-> [x.base EXCEPT ![x.slot] = d.cache],
                     slot |-> value % SlotModulus, last |-> value]] :
        d \in Decodings(x.base[x.slot], t, m, 0)}

(* What encodeNewXidValue and decodeNewXidValue do to the XidCache: the new
   id will be found at the front of the list of its own slot. *)
SlottedPush(x, value, m) ==
    LET s == value % SlotModulus
    IN  [base |-> [x.base EXCEPT ![s] = Pushed(@, (value - x.last) % m)],
         slot |-> s, last |-> value]

-----------------------------------------------------------------------------
(* The fields, and what each does to the caches of a side *)

(* value: one IntCache, for fields of several widths; ids: lastId with its
   cache; free: freeCache. *)
NewCaches ==
    [value |-> NewIntCache, opcode |-> NewOpcodeCache, ids |-> NewSeries,
     free |-> NewIntCache, xid |-> NewSlotted, action |-> NewSlotted]

ValueFields ==
    UNION {[kind : {"value"}, modulus : {m}, limit : Limits, value : 0 .. m - 1] :
              m \in Moduli}
XidFields ==
    [kind : {"newid", "newxid", "xid", "freexid"}, value : 0 .. XidModulus - 1]
ActionFields ==
    {f \in [kind : {"action"}, value : 0 .. ActionModulus - 1,
            position : 0 .. PositionModulus - 1] :
        f.value * PositionModulus + f.position < ActionModulus}
OpcodeFields == [kind : {"opcode"}, value : 0 .. CharModulus - 1]

Field == {f \in ValueFields \cup XidFields \cup ActionFields \cup OpcodeFields :
              f.kind \in Kinds}

(* encodeNewXidValue for the caches that are a plain list (gcCache and the
   like), on either side once the id is known. *)
NewIdPushed(s, e, f) ==
    [s EXCEPT !.ids = e, !.value = Pushed(@, f.value), !.free = Pushed(@, f.value)]

(* The same for an XidCache. *)
NewXidPushed(s, e, f) ==
    [s EXCEPT !.ids = e, !.xid = SlottedPush(@, f.value, XidModulus),
              !.free = Pushed(@, f.value)]

(* What is written for a field, and the caches after it. *)
FieldEncodings(s, f) ==
    CASE f.kind = "value" ->
           {[token |-> e.token, caches |-> [s EXCEPT !.value = e.cache]] :
               e \in Encodings(s.value, f.value, f.modulus, f.limit)}
      [] f.kind = "newid" ->
           {[token |-> e.token, caches |-> NewIdPushed(s, e.cache, f)] :
               e \in SeriesEncodings(s.ids, f.value, XidModulus)}
      [] f.kind = "newxid" ->
           {[token |-> e.token, caches |-> NewXidPushed(s, e.cache, f)] :
               e \in SeriesEncodings(s.ids, f.value, XidModulus)}
      [] f.kind = "xid" ->
           {[token |-> e.token, caches |-> [s EXCEPT !.xid = e.cache]] :
               e \in SlottedEncodings(s.xid, f.value, XidModulus)}
      [] f.kind = "freexid" ->
           {[token |-> e.token, caches |-> [s EXCEPT !.free = e.cache]] :
               e \in Encodings(s.free, f.value, XidModulus, 0)}
      [] f.kind = "action" ->
           {[token |-> e.token, caches |-> [s EXCEPT !.action = e.cache]] :
               e \in SlottedEncodings(s.action, f.value * PositionModulus + f.position,
                                      ActionModulus)}
      [] f.kind = "opcode" ->
           {[token |-> e.token, caches |-> [s EXCEPT !.opcode = e.cache]] :
               e \in OpcodeEncodings(s.opcode, f.value)}

(* The part of a field that the decoding side knows from its place in the
   message. *)
Place(f) == IF f.kind = "value"
            THEN [kind |-> f.kind, modulus |-> f.modulus, limit |-> f.limit]
            ELSE [kind |-> f.kind]

(* What is read at a place, and the caches after it. *)
FieldDecodings(s, p, t) ==
    CASE p.kind = "value" ->
           {[field |-> [kind |-> "value", modulus |-> p.modulus, limit |-> p.limit,
                        value |-> d.value],
             caches |-> [s EXCEPT !.value = d.cache]] :
               d \in Decodings(s.value, t, p.modulus, p.limit)}
      [] p.kind = "newid" ->
           {LET f == [kind |-> "newid", value |-> d.value]
            IN  [field |-> f, caches |-> NewIdPushed(s, d.cache, f)] :
               d \in SeriesDecodings(s.ids, t, XidModulus)}
      [] p.kind = "newxid" ->
           {LET f == [kind |-> "newxid", value |-> d.value]
            IN  [field |-> f, caches |-> NewXidPushed(s, d.cache, f)] :
               d \in SeriesDecodings(s.ids, t, XidModulus)}
      [] p.kind = "xid" ->
           {[field |-> [kind |-> "xid", value |-> d.value],
             caches |-> [s EXCEPT !.xid = d.cache]] :
               d \in SlottedDecodings(s.xid, t, XidModulus)}
      [] p.kind = "freexid" ->
           {[field |-> [kind |-> "freexid", value |-> d.value],
             caches |-> [s EXCEPT !.free = d.cache]] :
               d \in Decodings(s.free, t, XidModulus, 0)}
      [] p.kind = "action" ->
           {[field |-> [kind |-> "action", value |-> d.value \div PositionModulus,
                        position |-> d.value % PositionModulus],
             caches |-> [s EXCEPT !.action = d.cache]] :
               d \in SlottedDecodings(s.action, t, ActionModulus)}
      [] p.kind = "opcode" ->
           {[field |-> [kind |-> "opcode", value |-> d.value],
             caches |-> [s EXCEPT !.opcode = d.cache]] :
               d \in OpcodeDecodings(s.opcode, t)}

-----------------------------------------------------------------------------

Init ==
    /\ enc = NewCaches /\ dec = NewCaches
    /\ wire = << >> /\ history = << >>
    /\ out = Null /\ sent = 0

Encode(f) ==
    /\ Len(wire) < MaxWire /\ sent < MaxFields
    /\ sent' = sent + 1
    /\ \E e \in FieldEncodings(enc, f) :
           /\ enc' = e.caches
           /\ wire' = Append(wire, [place |-> Place(f), token |-> e.token])
           /\ history' = Append(history, [sent |-> f, view |-> e.caches])
    /\ UNCHANGED <<dec, out>>

Decode ==
    /\ wire # << >>
    /\ \E d \in FieldDecodings(dec, Head(wire).place, Head(wire).token) :
           /\ dec' = d.caches
           /\ out' = d.field
    /\ wire' = Tail(wire) /\ history' = Tail(history)
    /\ UNCHANGED <<enc, sent>>

Next == (\E f \in Field : Encode(f)) \/ Decode

Spec == Init /\ [][Next]_vars

-----------------------------------------------------------------------------
(* Properties *)

IntCaches ==
    {c \in [buffer : Seq(Nat), lastDiff : Nat, lastValueInserted : Nat, block : Nat] :
        Len(c.buffer) <= IntSize}
Series == [previous : Nat, cache : IntCaches]
Slotted == [base : [0 .. SlotModulus - 1 -> IntCaches],
            slot : 0 .. SlotModulus - 1, last : Nat]
OpcodeCaches == [base : [0 .. CharModulus - 1 -> {b \in Seq(Nat) : Len(b) <= CharSize}],
                 slot : 0 .. CharModulus - 1]
Caches == [value : IntCaches, opcode : OpcodeCaches, ids : Series, free : IntCaches,
           xid : Slotted, action : Slotted]
Token == [hit : {TRUE}, index : Nat] \cup [hit : {FALSE}, diff : Nat, block : Nat]

(* Lists stay within the arrays that hold them, and slots within theirs. *)
TypeOK ==
    /\ enc \in Caches /\ dec \in Caches
    /\ history \in Seq([sent : Field, view : Caches])
    /\ wire \in Seq([place : {Place(f) : f \in Field}, token : Token])
    /\ Len(wire) = Len(history)
    /\ out \in Field \cup {Null}
    /\ sent \in Nat

(* The caches of the decoding side as the i-th token will find them. *)
Before(i) == IF i = 1 THEN dec ELSE history[i - 1].view

(* The lists of the decoding side go through every state those of the encoding
   side had, for all the kinds of cache that share ids: what is found, moved,
   inserted, pushed or predicted is the same at both ends although it happens at
   different times, and no token is off the end of a list. *)
CachesInStep ==
    /\ Len(history) = Len(wire)
    /\ \A i \in 1 .. Len(wire) :
           FieldDecodings(Before(i), wire[i].place, wire[i].token)
               = {[field |-> history[i].sent, caches |-> history[i].view]}
    /\ enc = Before(Len(wire) + 1)

L == INSTANCE Link WITH Payload <- Field, Nothing <- Null,
                        inFlight <- [i \in 1 .. Len(history) |-> history[i].sent]

(* Every field comes out as it went in, and in order, whatever its cache. *)
FieldsLossless == L!Spec

=============================================================================
