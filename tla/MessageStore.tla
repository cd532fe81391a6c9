---------------------------- MODULE MessageStore ----------------------------
(***************************************************************************)
(* The message cache of nxcomp, both halves of it: the store the encoding  *)
(* proxy searches (Message.cpp, Channel::handleEncodeCached) and the store *)
(* the decoding proxy rebuilds from the actions it reads on the link       *)
(* (Channel::handleDecodeCached, handleSaveAdded).  The encoder never asks *)
(* and the decoder never answers: a message found in the cache travels as  *)
(* a slot number and the differences in its variant fields, so the image   *)
(* is right only if the two stores agree at the moment it is decoded.      *)
(*                                                                         *)
(* A message is a key (all that goes into its MD5, which is taken to be    *)
(* free of collisions) and the value of its variant fields, which          *)
(* updateIdentity sends as a difference modulo their width.                *)
(*                                                                         *)
(* A message whose data is split travels without it: its slot is locked on *)
(* both sides until the agent commits it.  How the data gets there is the  *)
(* subject of another module; here it may be committed at any later time.  *)
(***************************************************************************)
EXTENDS Integers, Sequences, FiniteSets

CONSTANTS Key, Null,
          cacheSlots,         \* cacheSlots of the store
          Width,              \* values of a variant field: 2^16 for a coordinate
          StoreHitsAddBonus, StoreHitsLoadBonus, StoreHitsLimit,
          StoreHitsTouch, StoreHitsUntouch,
          MaxWire             \* bound for model checking: items on the link

ASSUME SlotsAssumption == cacheSlots \in Nat \ {0} /\ Width \in Nat \ {0}

ASSUME HitsAssumption ==
    /\ StoreHitsAddBonus \in 0 .. StoreHitsLimit
    /\ StoreHitsLoadBonus \in 0 .. StoreHitsLimit
    /\ StoreHitsLimit \in Nat
    /\ StoreHitsTouch \in Nat
    /\ StoreHitsUntouch \in Nat \ {0}

nothing == -1
Slots == 0 .. cacheSlots - 1
Variant == 0 .. Width - 1

VARIABLES
    messages,      \* messages_ at the encoding side, hits_ apart
    hits,          \* hits_ of the message in each slot
    checksums,     \* checksums_: from the keys in the store to their slots
    lastAdded, lastRemoved, lastRated,
    wire,          \* encoded and not yet decoded
    decMessages,   \* messages_ at the decoding side
    whole,         \* the slots whose data_ the decoding side has
    parked,        \* the identity kept with the split of each slot
    out,           \* what decoding the last item wrote to the X connection
    history        \* what each item on the wire was made from; no step reads it

encVars == <<messages, hits, checksums, lastAdded, lastRemoved, lastRated>>
decVars == <<decMessages, whole, parked, out>>
vars == <<messages, hits, checksums, lastAdded, lastRemoved, lastRated,
          wire, decMessages, whole, parked, out, history>>

XMessage == [key : Key, var : Variant]
Message == [key : Key, var : Variant, locks : 0 .. 1]
Content == [Slots -> Message \cup {Null}]

ASSUME NullAssumption == Null \notin Key \cup XMessage \cup Message

Actions == {"removed", "hit", "added", "discarded", "commit"}
Item == [action : Actions, position : Slots, key : Key \cup {Null},
         var : Variant, split : BOOLEAN]

-----------------------------------------------------------------------------
(* Start of a session: both sides loaded a persistent cache of the same name *)

Loaded(content) ==
    /\ \A p \in Slots : content[p] # Null => content[p].locks = 0
    /\ \A p, q \in Slots :
           content[p] # Null /\ content[q] # Null /\ content[p].key = content[q].key
               => p = q

(* The keys of a store and where they are. *)
Index(content) ==
    [k \in {content[p].key : p \in {q \in Slots : content[q] # Null}} |->
        CHOOSE p \in Slots : content[p] # Null /\ content[p].key = k]

Init ==
    /\ \E content \in Content :
           /\ Loaded(content)
           /\ messages = content /\ decMessages = content
           /\ checksums = Index(content)
    /\ hits = [p \in Slots |->
                  IF messages[p] = Null THEN 0 ELSE StoreHitsLoadBonus]
    /\ lastAdded = cacheSlots /\ lastRemoved = 0 /\ lastRated = nothing
    /\ wire = << >> /\ history = << >>
    /\ whole = Slots
    /\ parked = [p \in Slots |-> Null]
    /\ out = Null

-----------------------------------------------------------------------------
(* Ratings *)

Locked(p) == messages[p] # Null /\ messages[p].locks # 0

(* Mutant: the loop does not lower the rating of what it passes over. *)
UntouchedMutant(h, times) == h

Untouched(h, times) ==
    IF h > times * StoreHitsUntouch THEN h - times * StoreHitsUntouch ELSE 0

Touched(h) ==
    IF h + StoreHitsTouch > StoreHitsLimit THEN StoreHitsLimit
    ELSE h + StoreHitsTouch

Full == Cardinality(DOMAIN checksums) = cacheSlots

(* getRating(rating_for_insert) = 0 for a message with h hits. *)
Replaceable(p, h) == ~Locked(p) /\ (h = 0 \/ (Full /\ h <= StoreHitsLoadBonus))

(* getRating(rating_for_clean) = 0; aged are the messages not used for
   StoreTimeLimit seconds. *)
Cleanable(p, aged) ==
    ~Locked(p) /\ (hits[p] = 0 \/ hits[p] <= StoreHitsLoadBonus \/ p \in aged)

After(p) == IF p + 1 >= cacheSlots THEN 0 ELSE p + 1

-----------------------------------------------------------------------------
(* The search of findOrAdd for a slot to use *)

Visit(v) == (After(lastAdded) + v) % cacheSlots

(* A visit ends the search: the slot is free, or its message rates 0 after
   having been untouched at every earlier visit. *)
Ends(v) ==
    \/ messages[Visit(v)] = Null
    \/ Replaceable(Visit(v), Untouched(hits[Visit(v)], v \div cacheSlots))

(* The loop stops at lastAdded.  Before the first insertion lastAdded is out
   of the array and the loop can go round it several times: once per possible
   rating is as much as it ever takes. *)
Visits == IF lastAdded \in Slots THEN 0 .. cacheSlots - 2
          ELSE 0 .. cacheSlots * (StoreHitsLimit + 1) - 1

(* The visits that do not end the search; each untouches its message. *)
Passed == {v \in Visits : \A u \in 0 .. v : ~Ends(u)}

(* The slot findOrAdd settles on: the one saved by the last search that was
   not used, else the one where the search ends, else the next one. *)
Position == IF lastRated # nothing THEN lastRated
            ELSE IF Passed = Visits THEN After(lastAdded)
            ELSE Visit(Cardinality(Passed))

Worn == IF lastRated # nothing THEN hits
        ELSE [p \in Slots |->
                 Untouched(hits[p], Cardinality({v \in Passed : Visit(v) = p}))]

-----------------------------------------------------------------------------
(* Encoding side *)

Write(action, p, key, var, split, sent, view) ==
    /\ Len(wire) < MaxWire
    /\ wire' = Append(wire, [action |-> action, position |-> p, key |-> key,
                             var |-> var, split |-> split])
    /\ history' = Append(history, [sent |-> sent, view |-> view])

(* Mutant: the checksum of a removed message stays in the table. *)
WithoutMutant(p) == checksums

(* MessageStore::remove: checksums_ without the message in a slot. *)
Without(p) ==
    IF messages[p] = Null THEN checksums
    ELSE [k \in DOMAIN checksums \ {messages[p].key} |-> checksums[k]]

(* The search of clean(), from the slot after the last one removed. *)
CleanVisit(v) == (After(lastRemoved) + v) % cacheSlots

CleanPassed(aged) ==
    {v \in 0 .. cacheSlots - 2 :
        \A u \in 0 .. v : \/ messages[CleanVisit(u)] = Null
                          \/ ~Cleanable(CleanVisit(u), aged)}

(* The slot clean() returns: where the search ends, else the next one. *)
CleanPosition(aged) ==
    IF CleanPassed(aged) # 0 .. cacheSlots - 2
    THEN CleanVisit(Cardinality(CleanPassed(aged)))
    ELSE IF messages[After(lastRemoved)] = Null \/ Locked(After(lastRemoved))
         THEN nothing ELSE After(lastRemoved)

CleanWorn(aged) ==
    [p \in Slots |->
        IF messages[p] # Null /\ \E v \in CleanPassed(aged) : CleanVisit(v) = p
        THEN Untouched(hits[p], 1) ELSE hits[p]]

(* One turn of the loop that makes room at the start of handleEncodeCached.
   Whether it runs depends on the storage taken by all the stores. *)
Clean(aged) ==
    LET p == CleanPosition(aged) IN
    /\ p # nothing
    /\ lastRemoved' = p
    /\ messages' = [messages EXCEPT ![p] = Null]
    /\ hits' = [CleanWorn(aged) EXCEPT ![p] = 0]
    /\ checksums' = Without(p)
    /\ Write("removed", p, Null, 0, FALSE, Null, messages')
    /\ UNCHANGED <<lastAdded, lastRated, decVars>>

(* clean() finds nothing to remove and the loop ends. *)
CleanNothing(aged) ==
    /\ CleanPosition(aged) = nothing
    /\ hits' = CleanWorn(aged)
    /\ UNCHANGED <<messages, checksums, lastAdded, lastRemoved, lastRated,
                   wire, history, decVars>>

Discard(m) ==
    Write("discarded", 0, m.key, m.var, FALSE, m, messages')

(* The cache is disabled, or the message is too small or too large for it. *)
EncodeUncached(m) ==
    /\ UNCHANGED <<encVars, decVars>>
    /\ Discard(m)

(* The slot to use is locked by a split: findOrAdd returns nothing. *)
FindNothing(m) ==
    /\ Locked(Position)
    /\ hits' = Worn
    /\ lastRated' = nothing
    /\ UNCHANGED <<messages, checksums, lastAdded, lastRemoved, decVars>>
    /\ Discard(m)

Rated(q) == IF Position = q THEN nothing ELSE Position

(* The message is in the store but its data has not all been sent. *)
FindLocked(m) ==
    /\ ~Locked(Position)
    /\ m.key \in DOMAIN checksums
    /\ Locked(checksums[m.key])
    /\ hits' = Worn
    /\ lastRated' = Rated(checksums[m.key])
    /\ UNCHANGED <<messages, checksums, lastAdded, lastRemoved, decVars>>
    /\ Discard(m)

(* Mutant: the cached copy keeps its old variant fields. *)
FindHitStale(m) ==
    /\ ~Locked(Position)
    /\ m.key \in DOMAIN checksums
    /\ LET q == checksums[m.key] IN
       /\ ~Locked(q)
       /\ hits' = [Worn EXCEPT ![q] = Touched(Worn[q])]
       /\ lastRated' = Rated(q)
       /\ messages' = messages
       /\ Write("hit", q, Null, (m.var - messages[q].var) % Width, FALSE,
                m, messages')
    /\ UNCHANGED <<checksums, lastAdded, lastRemoved, decVars>>

(* Mutant: the locks of the message found are not looked at. *)
FindHitLocked(m) ==
    /\ ~Locked(Position)
    /\ m.key \in DOMAIN checksums
    /\ LET q == checksums[m.key] IN
       /\ hits' = [Worn EXCEPT ![q] = Touched(Worn[q])]
       /\ lastRated' = Rated(q)
       /\ messages' = [messages EXCEPT ![q].var = m.var]
       /\ Write("hit", q, Null, (m.var - messages[q].var) % Width, FALSE,
                m, messages')
    /\ UNCHANGED <<checksums, lastAdded, lastRemoved, decVars>>

FindHit(m) ==
    /\ ~Locked(Position)
    /\ m.key \in DOMAIN checksums
    /\ LET q == checksums[m.key] IN
       /\ ~Locked(q)
       /\ hits' = [Worn EXCEPT ![q] = Touched(Worn[q])]
       /\ lastRated' = Rated(q)
       /\ messages' = [messages EXCEPT ![q].var = m.var]
       /\ Write("hit", q, Null, (m.var - messages[q].var) % Width, FALSE,
                m, messages')
    /\ UNCHANGED <<checksums, lastAdded, lastRemoved, decVars>>

(* The message takes the slot; handleSplit locks it if the data is split. *)
FindAdded(m, split) ==
    LET p == Position IN
    /\ ~Locked(p)
    /\ m.key \notin DOMAIN checksums
    /\ checksums' = [k \in DOMAIN Without(p) \cup {m.key} |->
                        IF k = m.key THEN p ELSE Without(p)[k]]
    /\ messages' = [messages EXCEPT ![p] =
                       [key |-> m.key, var |-> m.var,
                        locks |-> IF split THEN 1 ELSE 0]]
    /\ hits' = [Worn EXCEPT ![p] = StoreHitsAddBonus]
    /\ lastAdded' = p
    /\ lastRated' = nothing
    /\ Write("added", p, m.key, m.var, split, IF split THEN Null ELSE m, messages')
    /\ UNCHANGED <<lastRemoved, decVars>>

(* The agent commits a recomposed split: CommitStore::update unlocks it. *)
CommitSplit(p) ==
    /\ Locked(p)
    /\ messages' = [messages EXCEPT ![p].locks = 0]
    /\ Write("commit", p, Null, 0, TRUE,
             [key |-> messages[p].key, var |-> messages[p].var], messages')
    /\ UNCHANGED <<hits, checksums, lastAdded, lastRemoved, lastRated, decVars>>

Encode ==
    \/ \E aged \in SUBSET Slots : Clean(aged) \/ CleanNothing(aged)
    \/ \E m \in XMessage :
          \/ EncodeUncached(m) \/ FindNothing(m) \/ FindLocked(m) \/ FindHit(m)
          \/ \E split \in BOOLEAN : FindAdded(m, split)
    \/ \E p \in Slots : CommitSplit(p)

-----------------------------------------------------------------------------
(* Decoding side *)

(* HandleAbort ends the session when the slot named by the item is empty. *)
Accepts(store, i) ==
    i.action \in {"removed", "hit", "commit"} => store[i.position] # Null

(* Mutant: the difference in the variant fields is taken for their value. *)
AppliedMutant(store, i) ==
    CASE i.action = "removed" -> [store EXCEPT ![i.position] = Null]
      [] i.action = "hit" ->
            [store EXCEPT ![i.position].var = i.var]
      [] i.action = "added" ->
            [store EXCEPT ![i.position] =
                [key |-> i.key, var |-> i.var, locks |-> IF i.split THEN 1 ELSE 0]]
      [] i.action = "discarded" -> store
      [] i.action = "commit" -> [store EXCEPT ![i.position].locks = 0]

(* What an item does to the store of the decoding side. *)
Applied(store, i) ==
    CASE i.action = "removed" -> [store EXCEPT ![i.position] = Null]
      [] i.action = "hit" ->
            [store EXCEPT ![i.position].var = (@ + i.var) % Width]
      [] i.action = "added" ->
            [store EXCEPT ![i.position] =
                [key |-> i.key, var |-> i.var, locks |-> IF i.split THEN 1 ELSE 0]]
      [] i.action = "discarded" -> store
      [] i.action = "commit" -> [store EXCEPT ![i.position].locks = 0]

Read(action) ==
    /\ wire # << >> /\ Head(wire).action = action
    /\ Accepts(decMessages, Head(wire))
    /\ decMessages' = Applied(decMessages, Head(wire))
    /\ wire' = Tail(wire) /\ history' = Tail(history)
    /\ UNCHANGED encVars

DecodeRemoved ==
    /\ Read("removed")
    /\ out' = Null
    /\ UNCHANGED <<whole, parked>>

(* unparse() writes the message found in the store. *)
DecodeHit ==
    LET p == Head(wire).position IN
    /\ Read("hit")
    /\ out' = [key |-> decMessages[p].key, var |-> decMessages'[p].var]
    /\ UNCHANGED <<whole, parked>>

(* handleSave: add() silently replaces what is there. *)
DecodeAdded ==
    LET i == Head(wire) IN
    /\ Read("added")
    /\ ~i.split
    /\ whole' = whole \cup {i.position}
    /\ out' = [key |-> i.key, var |-> i.var]
    /\ UNCHANGED parked

(* handleSaveSplit: the entry has no data yet, and the split that will get
   it keeps a copy of the identity. *)
DecodeSplit ==
    LET i == Head(wire) IN
    /\ Read("added")
    /\ i.split
    /\ whole' = whole \ {i.position}
    /\ parked' = [parked EXCEPT ![i.position] = [key |-> i.key, var |-> i.var]]
    /\ out' = Null

DecodeDiscarded ==
    /\ Read("discarded")
    /\ out' = [key |-> Head(wire).key, var |-> Head(wire).var]
    /\ UNCHANGED <<whole, parked>>

(* CommitStore::update puts the data in the store, expand() sends it to the
   X server with the identity kept in the split. *)
DecodeCommit ==
    LET p == Head(wire).position IN
    /\ Read("commit")
    /\ whole' = whole \cup {p}
    /\ parked' = [parked EXCEPT ![p] = Null]
    /\ out' = parked[p]

Decode == DecodeRemoved \/ DecodeHit \/ DecodeAdded \/ DecodeSplit
              \/ DecodeDiscarded \/ DecodeCommit

Next == Encode \/ Decode

Spec == Init /\ [][Next]_vars

-----------------------------------------------------------------------------
(* Properties *)

(* Slots, ratings, indexes and items on the wire stay in their domains. *)
TypeOK ==
    /\ messages \in Content
    /\ decMessages \in Content
    /\ hits \in [Slots -> 0 .. StoreHitsLimit]
    /\ DOMAIN checksums \subseteq Key
    /\ checksums \in [DOMAIN checksums -> Slots]
    /\ lastAdded \in 0 .. cacheSlots
    /\ lastRemoved \in Slots
    /\ lastRated \in Slots \cup {nothing}
    /\ wire \in Seq(Item)
    /\ history \in Seq([sent : XMessage \cup {Null}, view : Content])
    /\ whole \subseteq Slots
    /\ parked \in [Slots -> XMessage \cup {Null}]
    /\ out \in XMessage \cup {Null}

(* The hash table finds a message exactly when it is in the store, and where
   it is: neither the clean loop nor the replacement of a slot by findOrAdd
   leaves a stale checksum or loses one. *)
ChecksumsExact ==
    /\ \A k \in DOMAIN checksums :
           messages[checksums[k]] # Null /\ messages[checksums[k]].key = k
    /\ \A p \in Slots : messages[p] # Null =>
           messages[p].key \in DOMAIN checksums /\ checksums[messages[p].key] = p

(* The store of the decoding side as the i-th item on the wire will find it. *)
Before(i) == IF i = 1 THEN decMessages ELSE history[i - 1].view

(* The decoding side lags behind but never diverges: decoding the items still
   on the wire takes its store through every store the encoding side had, and
   ends at the one it has now.  No item aborts the session. *)
Coherent ==
    /\ Len(history) = Len(wire)
    /\ \A i \in 1 .. Len(wire) :
           /\ Accepts(Before(i), wire[i])
           /\ Applied(Before(i), wire[i]) = history[i].view
    /\ messages = Before(Len(wire) + 1)

(* A hit is never issued on a message the decoding side has no data for, and
   a locked slot is never taken, however long the commit takes. *)
HitsAreWhole ==
    wire # << >> /\ Head(wire).action = "hit" => Head(wire).position \in whole

(* The message committed at the end of a split is the one its slot holds: the
   variant fields of a locked message do not move under the split. *)
ParkedIsStored ==
    \A p \in Slots : decMessages[p] # Null /\ decMessages[p].locks = 1 =>
        parked[p] = [key |-> decMessages[p].key, var |-> decMessages[p].var]

(* The search for a slot comes to an end also while lastAdded is still out of
   the array, as it is after a full cache was loaded. *)
SearchEnds == lastRated = nothing /\ lastAdded \notin Slots => Passed # Visits

L == INSTANCE Link WITH Payload <- XMessage \cup {Null}, Nothing <- Null,
                        inFlight <- [i \in 1 .. Len(history) |-> history[i].sent]

(* Whatever is cached, replaced, cleaned, locked or committed, the X server
   gets the messages of the client, whole, unchanged and in order. *)
Lossless == L!Spec

=============================================================================
