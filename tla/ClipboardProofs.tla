-------------------------- MODULE ClipboardProofs --------------------------
(***************************************************************************)
(* The clipboard, for any number of clients on both sides: the agent and   *)
(* the real X server agree on the owners of the selections; answers are of *)
(* the selection that was asked for, and caches are what their owner has;  *)
(* who waits is answered once, as his request is kept in just one place.   *)
(*                                                                         *)
(* Owners come first, then the exchange with the real server (what is      *)
(* asked, written and under way fits), at last the places of requests.     *)
(***************************************************************************)
EXTENDS Clipboard, WellFoundedInduction, TLAPS

(* The types of the parts of the state. *)
LastType == [id : Nat, of : Client \cup {Null}, target : Target,
             stage : {"None", "WaitData"}, resource : 0 .. Slots]
RequestType == [id : Nat, of : Remote \cup {"agent", Null}, target : Target]
CacheType == [for : {"nobody", "local", "remote"}, by : Client \cup Remote \cup {Null}]
RealType == [owner : [Selection -> Remote \cup {"agent", Null}], buffer : Data,
             conversions : SUBSET Asked(Remote)]
Excuses == {"owner", "crossed", "mixed", "refused", "gone", "reconnect"}

(* Telling answers leaves everybody waiting for a number, or for nothing. *)
LEMMA TellType ==
    ASSUME NEW w \in [Client \cup Remote -> Nat], NEW answers, Tell(w, answers)
    PROVE  waiting' \in [Client \cup Remote -> Nat]
  BY DEF Tell

(* The events that the handlers make. *)
LEMMA EventTypes ==
    /\ \A s \in Selection, ok \in BOOLEAN : Notify(s, ok) \in Event
    /\ \A s \in Selection : [type |-> "owner", sel |-> s] \in Event
    /\ \A s \in Selection : [type |-> "self", sel |-> s] \in Event
    /\ \A s \in Selection, i \in Nat, p \in Remote \cup {"agent"}, t \in Target :
           [type |-> "request", sel |-> s, id |-> i, of |-> p, target |-> t] \in Event
    /\ \A r \in 1 .. Slots, d \in Data :
           [type |-> "collected", resource |-> r, data |-> d] \in Event
  BY DEF Event, Notify

LEMMA ConcatType ==
    ASSUME NEW a \in Seq(Event), NEW b \in Seq(Event)
    PROVE  a \o b \in Seq(Event)
  OBVIOUS

LEMMA AppendType ==
    ASSUME NEW a \in Seq(Event), NEW e \in Event
    PROVE  Append(a, e) \in Seq(Event)
  OBVIOUS

LEMMA NotifySelfType ==
    ASSUME NEW q, NEW s \in Selection, NEW ok \in BOOLEAN
    PROVE  NotifySelf(q, s, ok) \in Seq(Event)
  BY EventTypes DEF NotifySelf

LEMMA OwnerEventsType ==
    ASSUME NEW s \in Selection, NEW w
    PROVE  OwnerEvents(s, w) \in Seq(Event)
  BY EventTypes DEF OwnerEvents

(* The head of the queue. *)
LEMMA HeadType ==
    ASSUME events \in Seq(Event), events # << >>
    PROVE  Head(events) \in Event /\ Tail(events) \in Seq(Event)
  OBVIOUS

LEMMA HeadOfType ==
    ASSUME events \in Seq(Event), NEW t, Received(t)
    PROVE  /\ t \in {"owner", "self"} => Head(events).sel \in Selection
           /\ t = "notify" => Head(events).sel \in Selection /\ Head(events).ok \in BOOLEAN
           /\ t = "request" => /\ Head(events).sel \in Selection
                               /\ Head(events).id \in Nat
                               /\ Head(events).of \in Remote \cup {"agent"}
                               /\ Head(events).target \in Target
           /\ t = "collected" => /\ Head(events).resource \in 1 .. Slots
                                 /\ Head(events).data \in Data
           /\ Tail(events) \in Seq(Event)
  <1>1. Head(events) \in Event /\ Tail(events) \in Seq(Event) /\ Head(events).type = t
    BY HeadType DEF Received
  <1>2. QED  BY <1>1 DEF Event

LEMMA ConstantTypes ==
    /\ Idle \in LastType /\ NoRequest \in RequestType /\ Empty \in CacheType
    /\ Nothing \in Data
  BY ClipboardAssumption DEF Idle, NoRequest, Empty, Nothing, LastType, RequestType,
     CacheType, Data, Target

(* TypeOK with the types of the parts by their names. *)
LEMMA TypeParts ==
    TypeOK <=>
        /\ option \in Options
        /\ dix \in [Selection -> Client \cup {"root", Null}]
        /\ owner \in [Selection -> Client \cup {Null}]
        /\ last \in [Selection -> LastType] /\ request \in [Selection -> RequestType]
        /\ requested \in 0 .. MaxSelections /\ cache \in [Selection -> CacheType]
        /\ cut \in [Client -> Data] /\ real \in RealType /\ events \in Seq(Event)
        /\ asked \in [Client -> SUBSET Asked(Client \cup {"root", Null})]
        /\ waiting \in [Client \cup Remote -> Nat]
        /\ excuses \in SUBSET Excuses /\ moves \in 0 .. MaxMoves
  BY DEF TypeOK, LastType, RequestType, CacheType, RealType, Excuses

LEMMA TypePartsPrimed ==
    TypeOK' <=>
        /\ option' \in Options
        /\ dix' \in [Selection -> Client \cup {"root", Null}]
        /\ owner' \in [Selection -> Client \cup {Null}]
        /\ last' \in [Selection -> LastType] /\ request' \in [Selection -> RequestType]
        /\ requested' \in 0 .. MaxSelections /\ cache' \in [Selection -> CacheType]
        /\ cut' \in [Client -> Data] /\ real' \in RealType /\ events' \in Seq(Event)
        /\ asked' \in [Client -> SUBSET Asked(Client \cup {"root", Null})]
        /\ waiting' \in [Client \cup Remote -> Nat]
        /\ excuses' \in SUBSET Excuses /\ moves' \in 0 .. MaxMoves
  BY DEF TypeOK, LastType, RequestType, CacheType, RealType, Excuses

LEMMA MovedType ==
    ASSUME moves \in 0 .. MaxMoves, Moved
    PROVE  moves' \in 0 .. MaxMoves /\ moves + 1 \in Nat
  BY ClipboardAssumption DEF Moved

(* A change of owners on the real server. *)
LEMMA NewOwnerTypes ==
    ASSUME TypeOK, NEW S \in SUBSET Selection, NEW w \in Client \cup {Null},
           SetSelectionOwnerOnXServer(S, w)
    PROVE  /\ owner' \in [Selection -> Client \cup {Null}]
           /\ request' \in [Selection -> RequestType]
           /\ real' \in RealType /\ events' \in Seq(Event)
  <1> USE TypeParts
  <1> DEFINE x == IF w = Null THEN Null ELSE "agent"
             Sent(s) == IF s \in S THEN NotifySelf(request[s], s, FALSE) \o OwnerEvents(s, x)
                        ELSE << >>
  <1>1. /\ owner' = At(owner, S, w) /\ request' = At(request, S, NoRequest)
        /\ real' = [real EXCEPT !.owner = At(@, S, x)]
        /\ events' = events \o Sent(0) \o Sent(1)
    BY DEF SetSelectionOwnerOnXServer
  <1>2. \A s \in Selection : Sent(s) \in Seq(Event)
    <2> TAKE s \in Selection
    <2>1. NotifySelf(request[s], s, FALSE) \in Seq(Event)  BY NotifySelfType
    <2>2. OwnerEvents(s, x) \in Seq(Event)  BY OwnerEventsType
    <2> HIDE DEF x
    <2>3. NotifySelf(request[s], s, FALSE) \o OwnerEvents(s, x) \in Seq(Event)
      BY <2>1, <2>2, ConcatType
    <2>4. << >> \in Seq(Event)  OBVIOUS
    <2>5. QED  BY <2>3, <2>4
  <1>3. 0 \in Selection /\ 1 \in Selection  BY DEF Selection
  <1>4. events' \in Seq(Event)
    <2>1. Sent(0) \in Seq(Event) /\ Sent(1) \in Seq(Event)  BY <1>2, <1>3
    <2> HIDE DEF Sent
    <2>2. QED  BY <1>1, <2>1
  <1>5. owner' \in [Selection -> Client \cup {Null}]  BY <1>1 DEF At
  <1>6. request' \in [Selection -> RequestType]  BY <1>1, ConstantTypes DEF At
  <1>7. real' \in RealType
    <2>1. x \in Remote \cup {"agent", Null}  OBVIOUS
    <2> HIDE DEF x
    <2>2. At(real.owner, S, x) \in [Selection -> Remote \cup {"agent", Null}]
      BY <2>1 DEF At, RealType
    <2>3. QED  BY <1>1, <2>2 DEF RealType
  <1>8. QED  BY <1>4, <1>5, <1>6, <1>7

LEMMA SetSelectionOwnerType ==
    ASSUME TypeOK, NEW s \in Selection, NEW w \in Client \cup {Null}, SetSelectionOwner(s, w)
    PROVE  TypeOK'
  <1> USE TypeParts
  <1>1. moves' \in 0 .. MaxMoves  BY MovedType DEF SetSelectionOwner
  <1>2. /\ dix' \in [Selection -> Client \cup {"root", Null}]
        /\ cache' \in [Selection -> CacheType]
        /\ option' = option /\ requested' = requested /\ cut' = cut /\ asked' = asked
    BY ConstantTypes DEF SetSelectionOwner
  <1>3. CASE option.clipboard = "none"
    <2>1. Tell(waiting, {}) /\ UNCHANGED <<owner, last, request, real, events, excuses>>
      BY <1>3 DEF SetSelectionOwner
    <2>2. waiting' \in [Client \cup Remote -> Nat]  BY <2>1, TellType
    <2>3. QED  BY <1>1, <1>2, <2>1, <2>2, TypePartsPrimed
  <1>4. CASE option.clipboard # "none"
    <2>1. /\ SetSelectionOwnerOnXServer({s}, w)
          /\ last' = [last EXCEPT ![s] = Idle]
          /\ Tell(waiting, Refusals({s}))
          /\ excuses' = excuses \cup (IF last[s] # Idle THEN {"owner"} ELSE {})
                                \cup (IF w # Null /\ OwnerEvent(s) THEN {"crossed"} ELSE {})
      BY <1>4 DEF SetSelectionOwner
    <2>2. waiting' \in [Client \cup Remote -> Nat]  BY <2>1, TellType
    <2>3. last' \in [Selection -> LastType]  BY <2>1, ConstantTypes
    <2>4. excuses' \in SUBSET Excuses  BY <2>1 DEF Excuses
    <2>5. {s} \in SUBSET Selection  OBVIOUS
    <2>6. QED  BY <1>1, <1>2, <2>1, <2>2, <2>3, <2>4, <2>5, NewOwnerTypes, TypePartsPrimed
  <1>5. QED  BY <1>3, <1>4

LEMMA CloseDownClientType ==
    ASSUME TypeOK, NEW c \in Client, CloseDownClient(c)
    PROVE  TypeOK'
  <1> USE TypeParts
  <1> DEFINE S == {s \in Selection : owner[s] = c}
             D == {s \in Selection : dix[s] = c}
             Who == Client \cup {"root", Null}
  <1>1. moves' \in 0 .. MaxMoves  BY MovedType DEF CloseDownClient
  <1>2. /\ SetSelectionOwnerOnXServer(S, Null)
        /\ last' = At(last, S \cup {s \in Selection : last[s].of = c}, Idle)
        /\ Tell([waiting EXCEPT ![c] = 0], Refusals(S))
        /\ excuses' \in SUBSET (excuses \cup {"owner", "gone"})
        /\ dix' = At(dix, D, Null) /\ cache' = At(cache, D, Empty)
        /\ cut' = [cut EXCEPT ![c] = Nothing]
        /\ option' = option /\ requested' = requested
    BY DEF CloseDownClient
  <1>3. /\ owner' \in [Selection -> Client \cup {Null}] /\ request' \in [Selection -> RequestType]
        /\ real' \in RealType /\ events' \in Seq(Event)
    <2>1. S \in SUBSET Selection /\ Null \in Client \cup {Null}  OBVIOUS
    <2> HIDE DEF S
    <2>2. QED  BY <1>2, <2>1, NewOwnerTypes
  <1>4. last' \in [Selection -> LastType] /\ cache' \in [Selection -> CacheType]
    BY <1>2, ConstantTypes DEF At
  <1>5. dix' \in [Selection -> Client \cup {"root", Null}]  BY <1>2 DEF At
  <1>6. waiting' \in [Client \cup Remote -> Nat]
    <2>1. [waiting EXCEPT ![c] = 0] \in [Client \cup Remote -> Nat]  OBVIOUS
    <2>2. QED  BY <1>2, <2>1, TellType
  <1>7. cut' \in [Client -> Data]  BY <1>2, ConstantTypes
  <1>8. asked' \in [Client -> SUBSET Asked(Who)]
    <2>1. \A d \in Client : \A q \in asked[d] :
              [q EXCEPT !.of = IF @ = c THEN Null ELSE @] \in Asked(Who)
      <3> SUFFICES ASSUME NEW d \in Client, NEW q \in asked[d]
                   PROVE  [q EXCEPT !.of = IF @ = c THEN Null ELSE @] \in Asked(Who)
        OBVIOUS
      <3>1. q \in Asked(Who)  OBVIOUS
      <3>2. QED  BY <3>1 DEF Asked
    <2>2. asked' = [d \in Client |->
                      IF d = c THEN {}
                      ELSE {[q EXCEPT !.of = IF @ = c THEN Null ELSE @] : q \in asked[d]}]
      BY DEF CloseDownClient
    <2>3. QED  BY <2>1, <2>2
  <1>9. excuses' \in SUBSET Excuses  BY <1>2 DEF Excuses
  <1>10. QED  BY <1>1, <1>2, <1>3, <1>4, <1>5, <1>6, <1>7, <1>8, <1>9, TypePartsPrimed

(* The four outcomes of a conversion asked for by a local client. *)
LEMMA ToldType ==
    ASSUME TypeOK, NEW c \in Client \cup Remote, NEW t, NEW answers, Asks(c, t),
           Told(c, t, answers)
    PROVE  /\ waiting' \in [Client \cup Remote -> Nat]
           /\ moves' \in 0 .. MaxMoves /\ moves + 1 \in Nat
  <1> USE TypeParts
  <1>1. moves' \in 0 .. MaxMoves /\ moves + 1 \in Nat  BY MovedType DEF Asks
  <1>2. [waiting EXCEPT ![c] = moves + 1] \in [Client \cup Remote -> Nat]  BY <1>1
  <1>3. QED  BY <1>1, <1>2, TellType DEF Told

LEMMA ConvertLocallyType ==
    ASSUME TypeOK, NEW c \in Client, NEW s \in Selection, NEW t \in Target,
           ConvertLocally(c, s, t)
    PROVE  TypeOK'
  <1> USE TypeParts
  <1> DEFINE q == [sel |-> s, id |-> moves + 1, of |-> c, target |-> t]
             Who == Client \cup {"root", Null}
  <1>0. Asks(c, t) /\ \E answers : Told(c, t, answers)  BY DEF ConvertLocally
  <1>1. /\ waiting' \in [Client \cup Remote -> Nat]
        /\ moves' \in 0 .. MaxMoves /\ moves + 1 \in Nat
    BY <1>0, ToldType
  <1>2. q \in Asked(Who)  BY <1>1 DEF Asked
  <1>3. \/ asked' = asked
        \/ dix[s] \in Client /\ asked' = [asked EXCEPT ![dix[s]] = @ \cup {q}]
    BY DEF ConvertLocally
  <1>4. asked' \in [Client -> SUBSET Asked(Who)]
    <2>1. CASE asked' = asked  BY <2>1
    <2>2. CASE dix[s] \in Client /\ asked' = [asked EXCEPT ![dix[s]] = @ \cup {q}]
      <3> HIDE DEF q, Who
      <3>1. asked[dix[s]] \cup {q} \in SUBSET Asked(Who)  BY <1>2, <2>2 DEF Who
      <3>2. QED  BY <2>2, <3>1 DEF Who
    <2>3. QED  BY <1>3, <2>1, <2>2
  <1>5. UNCHANGED <<option, dix, owner, last, request, requested, cache, cut, real, events,
                    excuses>>
    BY DEF ConvertLocally, agent
  <1>6. QED  BY <1>1, <1>4, <1>5, TypePartsPrimed

LEMMA ConvertRefusedType ==
    ASSUME TypeOK, NEW c \in Client, NEW s \in Selection, NEW t \in Target,
           ConvertRefused(c, s, t)
    PROVE  TypeOK'
  <1> USE TypeParts
  <1>0. Asks(c, t) /\ \E answers : Told(c, t, answers)  BY DEF ConvertRefused
  <1>1. waiting' \in [Client \cup Remote -> Nat] /\ moves' \in 0 .. MaxMoves
    BY <1>0, ToldType
  <1>2. UNCHANGED <<option, dix, owner, last, request, requested, cache, cut, real, events,
                    asked, excuses>>
    BY DEF ConvertRefused, agent
  <1>3. QED  BY <1>1, <1>2, TypePartsPrimed

LEMMA ConvertAnsweredType ==
    ASSUME TypeOK, NEW c \in Client, NEW s \in Selection, NEW t \in Target,
           ConvertAnswered(c, s, t)
    PROVE  TypeOK'
  <1> USE TypeParts
  <1>0. Asks(c, t) /\ \E answers : Told(c, t, answers)  BY DEF ConvertAnswered
  <1>1. waiting' \in [Client \cup Remote -> Nat] /\ moves' \in 0 .. MaxMoves
    BY <1>0, ToldType
  <1>2. last' \in [Selection -> LastType]  BY ConstantTypes DEF ConvertAnswered
  <1>3. UNCHANGED <<option, dix, owner, request, requested, cache, cut, real, events, asked,
                    excuses>>
    BY DEF ConvertAnswered
  <1>4. QED  BY <1>1, <1>2, <1>3, TypePartsPrimed

LEMMA ConvertSelectionType ==
    ASSUME TypeOK, NEW c \in Client, NEW s \in Selection, NEW t \in Target,
           ConvertSelection(c, s, t)
    PROVE  TypeOK'
  <1> USE TypeParts
  <1> DEFINE q == [sel |-> s, id |-> moves + 1, of |-> Null, target |-> t]
             o == real.owner[s]
  <1>0. Asks(c, t) /\ \E answers : Told(c, t, answers)  BY DEF ConvertSelection
  <1>1. /\ waiting' \in [Client \cup Remote -> Nat]
        /\ moves' \in 0 .. MaxMoves /\ moves + 1 \in Nat
    BY <1>0, ToldType
  <1>2. last' \in [Selection -> LastType]
    <2>1. [id |-> moves + 1, of |-> c, target |-> t, stage |-> "None", resource |-> 0]
              \in LastType
      BY <1>1, ClipboardAssumption DEF LastType
    <2>2. QED  BY <2>1 DEF ConvertSelection
  <1>3. XConvertSelection(s, q)  BY DEF ConvertSelection
  <1>4. real' \in RealType
    <2>1. real.conversions \in SUBSET Asked(Remote)  BY DEF RealType
    <2>2. CASE o \in Remote
      <3>1. [q EXCEPT !.of = o] \in Asked(Remote)  BY <1>1, <2>2 DEF Asked
      <3>2. real' = [real EXCEPT !.buffer = Nothing,
                                 !.conversions = @ \cup {[q EXCEPT !.of = o]}]
        BY <1>3, <2>2 DEF XConvertSelection
      <3> HIDE DEF q, o
      <3>3. real.conversions \cup {[q EXCEPT !.of = o]} \in SUBSET Asked(Remote)
        BY <2>1, <3>1
      <3>4. QED  BY <3>2, <3>3, ConstantTypes DEF RealType
    <2>3. CASE o \notin Remote
      <3>1. real' = [real EXCEPT !.buffer = Nothing, !.conversions = @]
        BY <1>3, <2>3 DEF XConvertSelection
      <3>2. QED  BY <2>1, <3>1, ConstantTypes DEF RealType
    <2>4. QED  BY <2>2, <2>3
  <1>5. events' \in Seq(Event)
    <2> DEFINE e == [type |-> "request", sel |-> s, id |-> moves + 1, of |-> "agent",
                     target |-> t]
    <2>1. Notify(s, FALSE) \in Event /\ e \in Event  BY <1>1, EventTypes
    <2>2. events' = CASE o = Null -> Append(events, Notify(s, FALSE))
                      [] o = "agent" -> Append(events, e)
                      [] OTHER -> events
      BY <1>3 DEF XConvertSelection
    <2> HIDE DEF e, o
    <2>3. CASE o = Null
      <3>1. o # "agent"  BY <2>3, ClipboardAssumption
      <3>2. events' = Append(events, Notify(s, FALSE))  BY <2>2, <2>3, <3>1
      <3>3. QED  BY <2>1, <3>2, AppendType
    <2>4. CASE o = "agent"
      <3>1. o # Null  BY <2>4, ClipboardAssumption
      <3>2. events' = Append(events, e)  BY <2>2, <2>4, <3>1
      <3>3. QED  BY <2>1, <3>2, AppendType
    <2>5. CASE o # Null /\ o # "agent"
      <3>1. events' = events  BY <2>2, <2>5
      <3>2. QED  BY <3>1
    <2>6. QED  BY <2>3, <2>4, <2>5
  <1>6. excuses' \in SUBSET Excuses  BY DEF ConvertSelection, Excuses
  <1>7. UNCHANGED <<option, dix, owner, request, requested, cache, cut, asked>>
    BY DEF ConvertSelection
  <1>8. QED  BY <1>1, <1>2, <1>4, <1>5, <1>6, <1>7, TypePartsPrimed

LEMMA OwnersAnswerType ==
    ASSUME TypeOK, NEW c \in Client, NEW q, LocalAnswers(c, q) \/ LocalRefuses(c, q)
    PROVE  TypeOK'
  <1> USE TypeParts
  <1> DEFINE Who == Client \cup {"root", Null}
  <1>1. /\ q \in asked[c] /\ asked' = [asked EXCEPT ![c] = @ \ {q}]
        /\ UNCHANGED <<option, dix, owner, last, requested, cache, real, moves>>
    BY DEF LocalAnswers, LocalRefuses, agent
  <1>2. q \in Asked(Who) /\ asked' \in [Client -> SUBSET Asked(Who)]
    <2>1. asked[c] \in SUBSET Asked(Who)  OBVIOUS
    <2>2. QED  BY <1>1, <2>1
  <1>3. q.sel \in Selection /\ q.id \in Nat  BY <1>2 DEF Asked
  <1>4. \E answers : Tell(waiting, answers)  BY DEF LocalAnswers, LocalRefuses
  <1>5. waiting' \in [Client \cup Remote -> Nat]  BY <1>4, TellType
  <1>6. CASE LocalAnswers(c, q)
    <2>1. [id |-> q.id, by |-> c] \in Data  BY <1>3 DEF Data
    <2>2. \/ cut' = cut \/ cut' = Written([id |-> q.id, by |-> c])
      BY <1>6 DEF LocalAnswers
    <2>3. cut' \in [Client -> Data]  BY <2>1, <2>2 DEF Written
    <2>4. \/ events' = events
          \/ events' = Append(events, [type |-> "self", sel |-> q.sel])
      BY <1>6 DEF LocalAnswers
    <2>5. events' \in Seq(Event)
      <3>1. [type |-> "self", sel |-> q.sel] \in Event  BY <1>3, EventTypes
      <3>2. QED  BY <2>4, <3>1, AppendType
    <2>6. UNCHANGED <<request, excuses>>  BY <1>6 DEF LocalAnswers, agent
    <2>7. QED  BY <1>1, <1>2, <1>5, <2>3, <2>5, <2>6, TypePartsPrimed
  <1>7. CASE LocalRefuses(c, q)
    <2>1. cut' = cut  BY <1>7 DEF LocalRefuses
    <2>2. \/ request' = request \/ request' = [request EXCEPT ![q.sel] = NoRequest]
      BY <1>7 DEF LocalRefuses
    <2>3. request' \in [Selection -> RequestType]  BY <2>2, ConstantTypes
    <2>4. \/ events' = events
          \/ events' = events \o NotifySelf(request[q.sel], q.sel, FALSE)
      BY <1>7 DEF LocalRefuses
    <2>5. NotifySelf(request[q.sel], q.sel, FALSE) \in Seq(Event)
      BY <1>3, NotifySelfType
    <2>6. events' \in Seq(Event)  BY <2>4, <2>5, ConcatType
    <2>7. excuses' \in SUBSET Excuses  BY <1>7 DEF LocalRefuses, Excuses
    <2>8. QED  BY <1>1, <1>2, <1>5, <2>1, <2>3, <2>6, <2>7, TypePartsPrimed
  <1>8. QED  BY <1>6, <1>7

LEMMA RemoteSetsOwnerType ==
    ASSUME TypeOK, NEW s \in Selection, NEW w \in Remote \cup {Null}, RemoteSetsOwner(s, w)
    PROVE  TypeOK'
  <1> USE TypeParts
  <1>1. moves' \in 0 .. MaxMoves  BY MovedType DEF RemoteSetsOwner
  <1>2. waiting' \in [Client \cup Remote -> Nat]  BY TellType DEF RemoteSetsOwner
  <1>3. real' \in RealType  BY DEF RemoteSetsOwner, RealType
  <1>4. events' \in Seq(Event)
    BY OwnerEventsType, ConcatType DEF RemoteSetsOwner
  <1>5. UNCHANGED <<option, dix, owner, last, request, requested, cache, cut, asked, excuses>>
    BY DEF RemoteSetsOwner, agent
  <1>6. QED  BY <1>1, <1>2, <1>3, <1>4, <1>5, TypePartsPrimed

LEMMA RemoteConvertsType ==
    ASSUME TypeOK, NEW p \in Remote, NEW s \in Selection, NEW t \in Target,
           RemoteConverts(p, s, t)
    PROVE  TypeOK'
  <1> USE TypeParts
  <1>0. Asks(p, t) /\ Told(p, t, {})  BY DEF RemoteConverts
  <1>1. /\ waiting' \in [Client \cup Remote -> Nat]
        /\ moves' \in 0 .. MaxMoves /\ moves + 1 \in Nat
    BY <1>0, ToldType
  <1>2. events' \in Seq(Event)  BY <1>1, EventTypes DEF RemoteConverts
  <1>3. UNCHANGED <<option, dix, owner, last, request, requested, cache, cut, real, asked,
                    excuses>>
    BY DEF RemoteConverts, agent
  <1>4. QED  BY <1>1, <1>2, <1>3, TypePartsPrimed

LEMMA RemoteAnswersType ==
    ASSUME TypeOK, NEW q, NEW ok \in BOOLEAN, RemoteAnswers(q, ok)
    PROVE  TypeOK'
  <1> USE TypeParts
  <1>1. waiting' \in [Client \cup Remote -> Nat]  BY TellType DEF RemoteAnswers
  <1>2. q \in Asked(Remote)  BY DEF RemoteAnswers, RealType
  <1>3. q.sel \in Selection /\ q.id \in Nat /\ q.of \in Remote  BY <1>2 DEF Asked
  <1>4. [id |-> q.id, by |-> q.of] \in Data  BY <1>3 DEF Data
  <1>5. real' \in RealType  BY <1>4 DEF RemoteAnswers, RealType
  <1>6. Notify(q.sel, ok) \in Event  BY <1>3, EventTypes
  <1>7. events' \in Seq(Event)  BY <1>6 DEF RemoteAnswers
  <1>8. UNCHANGED <<option, dix, owner, last, request, requested, cache, cut, asked, excuses,
                    moves>>
    BY DEF RemoteAnswers, agent
  <1>9. QED  BY <1>1, <1>5, <1>7, <1>8, TypePartsPrimed

LEMMA HandleSelectionClearType ==
    ASSUME TypeOK, HandleSelectionClear
    PROVE  TypeOK'
  <1> USE TypeParts
  <1> DEFINE s == Head(events).sel
  <1>1. Received("owner")  BY DEF HandleSelectionClear
  <1>2. s \in Selection /\ events' \in Seq(Event)
    BY <1>1, HeadOfType DEF HandleSelectionClear
  <1>3. waiting' \in [Client \cup Remote -> Nat]  BY TellType DEF HandleSelectionClear
  <1>4. \/ UNCHANGED <<dix, owner, last, cache, excuses>>
        \/ /\ dix' = [dix EXCEPT ![s] = "root"] /\ owner' = [owner EXCEPT ![s] = Null]
           /\ last' = [last EXCEPT ![s] = Idle] /\ cache' = [cache EXCEPT ![s] = Empty]
           /\ excuses' \in SUBSET (excuses \cup {"owner"})
    BY DEF HandleSelectionClear
  <1> HIDE DEF s
  <1>5. /\ dix' \in [Selection -> Client \cup {"root", Null}]
        /\ owner' \in [Selection -> Client \cup {Null}]
    BY <1>2, <1>4
  <1>6. /\ last' \in [Selection -> LastType] /\ cache' \in [Selection -> CacheType]
        /\ excuses' \in SUBSET Excuses
    BY <1>2, <1>4, ConstantTypes DEF Excuses
  <1>7. UNCHANGED <<option, request, requested, cut, real, asked, moves>>
    BY DEF HandleSelectionClear
  <1>8. QED  BY <1>2, <1>3, <1>5, <1>6, <1>7, TypePartsPrimed

(* An answer to the first request in the queue. *)
LEMMA ReplyTypes ==
    ASSUME TypeOK, Received("request"), NEW ok \in BOOLEAN, NEW d \in Data,
           ReplyRequest(Head(events), ok, d)
    PROVE  /\ waiting' \in [Client \cup Remote -> Nat]
           /\ real' \in RealType /\ events' \in Seq(Event)
           /\ Head(events).sel \in Selection
  <1> USE TypeParts
  <1> DEFINE q == Head(events)
  <1>1. q.sel \in Selection /\ Tail(events) \in Seq(Event)  BY HeadOfType
  <1>2. waiting' \in [Client \cup Remote -> Nat]  BY TellType DEF ReplyRequest
  <1>3. NotifySelf(q, q.sel, ok) \in Seq(Event)  BY <1>1, NotifySelfType
  <1>4. events' = Tail(events) \o NotifySelf(q, q.sel, ok)  BY DEF ReplyRequest
  <1>5. events' \in Seq(Event)
    <2> HIDE DEF q
    <2>1. QED  BY <1>1, <1>3, <1>4, ConcatType
  <1>6. Filled(q, ok, d) \in Data  BY DEF Filled, RealType
  <1>7. real' = [real EXCEPT !.buffer = Filled(q, ok, d)]  BY DEF ReplyRequest
  <1>8. real' \in RealType
    <2> HIDE DEF q
    <2>1. QED  BY <1>6, <1>7 DEF RealType
  <1>9. QED  BY <1>1, <1>2, <1>5, <1>8

LEMMA RequestDeniedType ==
    ASSUME TypeOK, RequestDenied
    PROVE  TypeOK'
  <1> USE TypeParts
  <1>1. Received("request") /\ ReplyRequest(Head(events), FALSE, Nothing)
    BY DEF RequestDenied
  <1>2. /\ waiting' \in [Client \cup Remote -> Nat]
        /\ real' \in RealType /\ events' \in Seq(Event)
    BY <1>1, ReplyTypes, ConstantTypes
  <1>3. UNCHANGED <<option, dix, owner, last, request, requested, cache, cut, asked, excuses,
                    moves>>
    BY DEF RequestDenied, agent
  <1>4. QED  BY <1>2, <1>3, TypePartsPrimed

LEMMA RequestAnsweredType ==
    ASSUME TypeOK, RequestAnswered
    PROVE  TypeOK'
  <1> USE TypeParts
  <1> DEFINE q == Head(events)
             d == [id |-> q.id, by |-> cache[q.sel].by]
  <1>1. Received("request") /\ ReplyRequest(q, TRUE, d)  BY DEF RequestAnswered
  <1>2. q.sel \in Selection /\ q.id \in Nat  BY <1>1, HeadOfType
  <1>3. d \in Data
    <2>1. cache[q.sel] \in CacheType  BY <1>2
    <2>2. QED  BY <1>2, <2>1 DEF CacheType, Data
  <1> HIDE DEF d
  <1>4. /\ waiting' \in [Client \cup Remote -> Nat]
        /\ real' \in RealType /\ events' \in Seq(Event)
    BY <1>1, <1>3, ReplyTypes
  <1>5. UNCHANGED <<option, dix, owner, last, request, requested, cache, cut, asked, excuses,
                    moves>>
    BY DEF RequestAnswered, agent
  <1>6. QED  BY <1>4, <1>5, TypePartsPrimed

LEMMA RequestNotAllowedType ==
    ASSUME TypeOK, RequestNotAllowed
    PROVE  TypeOK'
  <1> USE TypeParts
  <1>1. Received("request") /\ ReplyRequest(Head(events), FALSE, Nothing)
    BY DEF RequestNotAllowed
  <1>2. /\ waiting' \in [Client \cup Remote -> Nat] /\ Head(events).sel \in Selection
        /\ real' \in RealType /\ events' \in Seq(Event)
    BY <1>1, ReplyTypes, ConstantTypes
  <1>3. requested' \in 0 .. MaxSelections
    BY <1>2 DEF RequestNotAllowed, Selection, MaxSelections
  <1>4. UNCHANGED <<option, dix, owner, last, request, cache, cut, asked, excuses, moves>>
    BY DEF RequestNotAllowed
  <1>5. QED  BY <1>2, <1>3, <1>4, TypePartsPrimed

LEMMA HandleSelectionRequestType ==
    ASSUME TypeOK, HandleSelectionRequest
    PROVE  TypeOK'
  <1> USE TypeParts
  <1> DEFINE q == Head(events)
             c == owner[q.sel]
             r == [id |-> q.id, of |-> q.of, target |-> q.target]
             a == [sel |-> q.sel, id |-> q.id, of |-> "root", target |-> q.target]
             Who == Client \cup {"root", Null}
  <1>1. Received("request") /\ events' = Tail(events)  BY DEF HandleSelectionRequest
  <1>2. /\ q.sel \in Selection /\ q.id \in Nat /\ q.of \in Remote \cup {"agent"}
        /\ q.target \in Target /\ events' \in Seq(Event)
    BY <1>1, HeadOfType
  <1>3. c \in Client  BY <1>2 DEF HandleSelectionRequest, Acceptable, IsLocalOwner
  <1>4. /\ requested' = q.sel /\ request' = [request EXCEPT ![q.sel] = r]
        /\ cut' = [cut EXCEPT ![c] = Nothing]
        /\ asked' = [asked EXCEPT ![c] = @ \cup {a}]
        /\ excuses' \in SUBSET (excuses \cup {"mixed"})
        /\ Tell(waiting, {})
        /\ UNCHANGED <<option, dix, owner, last, cache, real, moves>>
    BY DEF HandleSelectionRequest
  <1>5. r \in RequestType /\ a \in Asked(Who)  BY <1>2 DEF RequestType, Asked
  <1>6. requested' \in 0 .. MaxSelections  BY <1>2, <1>4 DEF Selection, MaxSelections
  <1> HIDE DEF q, c, r, a, Who
  <1>7. request' \in [Selection -> RequestType]  BY <1>2, <1>4, <1>5
  <1>8. cut' \in [Client -> Data]  BY <1>3, <1>4, ConstantTypes
  <1>9. asked' \in [Client -> SUBSET Asked(Who)]
    <2>1. asked[c] \cup {a} \in SUBSET Asked(Who)  BY <1>3, <1>5 DEF Who
    <2>2. QED  BY <1>3, <1>4, <2>1 DEF Who
  <1>10. excuses' \in SUBSET Excuses  BY <1>4 DEF Excuses
  <1>11. waiting' \in [Client \cup Remote -> Nat]  BY <1>4, TellType
  <1>12. QED
    BY <1>2, <1>4, <1>6, <1>7, <1>8, <1>9, <1>10, <1>11, TypePartsPrimed DEF Who

LEMMA HandlePropertyTransferType ==
    ASSUME TypeOK, HandlePropertyTransfer
    PROVE  TypeOK'
  <1> USE TypeParts
  <1> DEFINE s == Head(events).sel
             q == request[s]
             d == cut[owner[s]]
  <1>1. Received("self") /\ \E answers : Tell(waiting, answers)
    BY DEF HandlePropertyTransfer
  <1>2. s \in Selection /\ Tail(events) \in Seq(Event)  BY <1>1, HeadOfType
  <1>3. waiting' \in [Client \cup Remote -> Nat]  BY <1>1, TellType
  <1>4. UNCHANGED <<option, dix, owner, last, requested, cut, asked, excuses, moves>>
    BY DEF HandlePropertyTransfer
  <1>5. CASE IsLocalOwner(s) /\ q # NoRequest
    <2>1. /\ \/ cache' = cache \/ cache' = [cache EXCEPT ![s] = [for |-> "remote", by |-> d.by]]
          /\ request' = [request EXCEPT ![s] = NoRequest]
          /\ real' = [real EXCEPT !.buffer = Filled(q, TRUE, d)]
          /\ events' = Tail(events) \o NotifySelf(q, s, TRUE)
      BY <1>5 DEF HandlePropertyTransfer
    <2>2. d \in Data  BY <1>2, <1>5 DEF IsLocalOwner
    <2>3. [for |-> "remote", by |-> d.by] \in CacheType
      <3> HIDE DEF d
      <3>1. QED  BY <2>2 DEF Data, CacheType
    <2>4. Filled(q, TRUE, d) \in Data
      <3> HIDE DEF d
      <3>1. QED  BY <2>2 DEF Filled, RealType
    <2>5. NotifySelf(q, s, TRUE) \in Seq(Event)  BY <1>2, NotifySelfType
    <2> HIDE DEF s, q, d
    <2>6. cache' \in [Selection -> CacheType]  BY <1>2, <2>1, <2>3
    <2>7. request' \in [Selection -> RequestType]  BY <1>2, <2>1, ConstantTypes
    <2>8. real' \in RealType  BY <2>1, <2>4 DEF RealType
    <2>9. events' \in Seq(Event)  BY <1>2, <2>1, <2>5, ConcatType
    <2>10. QED  BY <1>3, <1>4, <2>6, <2>7, <2>8, <2>9, TypePartsPrimed
  <1>6. CASE ~ (IsLocalOwner(s) /\ q # NoRequest)
    <2>1. events' = Tail(events) /\ UNCHANGED <<cache, request, real>>
      BY <1>6 DEF HandlePropertyTransfer
    <2>2. QED  BY <1>2, <1>3, <1>4, <2>1, TypePartsPrimed
  <1>7. QED  BY <1>5, <1>6

(* The least resource, and the least selection that a resource is for. *)
LEMMA LeastNumber ==
    ASSUME NEW S \in SUBSET Nat, S # {}
    PROVE  (CHOOSE i \in S : \A j \in S : i <= j) \in S
  <1> DEFINE R == OpToRel(<, Nat)
  <1>1. \A i \in S, j \in S : <<j, i>> \in R <=> j < i  BY DEF OpToRel
  <1>2. IsWellFoundedOn(R, Nat)  BY NatLessThanWellFounded
  <1> HIDE DEF R
  <1>3. PICK i \in S : \A j \in S : ~ (<<j, i>> \in R)  BY <1>2, WFMin
  <1>4. \A j \in S : i <= j
    <2> TAKE j \in S
    <2>1. i \in Nat /\ j \in Nat /\ ~ (j < i)  BY <1>1, <1>3
    <2>2. QED  BY <2>1
  <1>5. QED  BY <1>4

LEMMA HandleSelectionNotifyType ==
    ASSUME TypeOK, HandleSelectionNotify
    PROVE  TypeOK'
  <1> USE TypeParts
  <1> DEFINE s == Head(events).sel
             r == CHOOSE i \in Free : \A j \in Free : i <= j
             e == [type |-> "collected", resource |-> r, data |-> real.buffer]
             Begun == last[s] # Idle /\ last[s].stage = "None" /\ Head(events).ok /\ Free # {}
  <1>1. Received("notify") /\ \E answers : Tell(waiting, answers)
    BY DEF HandleSelectionNotify, EndTransfer
  <1>2. s \in Selection /\ Tail(events) \in Seq(Event)  BY <1>1, HeadOfType
  <1>3. waiting' \in [Client \cup Remote -> Nat]  BY <1>1, TellType
  <1>4. UNCHANGED <<option, dix, owner, request, requested, cache, cut, real, asked, excuses,
                    moves>>
    BY DEF HandleSelectionNotify
  <1>5. CASE Begun
    <2>1. /\ last' = [last EXCEPT ![s].stage = "WaitData", ![s].resource = r]
          /\ events' = Append(Tail(events), e)
      BY <1>5 DEF HandleSelectionNotify
    <2>2. r \in 1 .. Slots
      <3>1. Free \in SUBSET (1 .. Slots) /\ Free \in SUBSET Nat  BY DEF Free
      <3>2. Free # {}  BY <1>5
      <3> HIDE DEF Free
      <3>3. r \in Free  BY <3>1, <3>2, LeastNumber
      <3>4. QED  BY <3>1, <3>3
    <2>3. e \in Event  BY <2>2, EventTypes DEF RealType
    <2>4. last[s] \in LastType  BY <1>2
    <2> HIDE DEF s, r, e
    <2>5. [last[s] EXCEPT !.stage = "WaitData", !.resource = r] \in LastType
      <3>1. r \in 0 .. Slots  BY <2>2, ClipboardAssumption
      <3>2. QED  BY <2>4, <3>1 DEF LastType
    <2>6. last' = [last EXCEPT ![s] = [last[s] EXCEPT !.stage = "WaitData", !.resource = r]]
      BY <1>2, <2>1
    <2>7. last' \in [Selection -> LastType]  BY <1>2, <2>5, <2>6
    <2>8. events' \in Seq(Event)  BY <1>2, <2>1, <2>3, AppendType
    <2>9. QED  BY <1>3, <1>4, <2>7, <2>8, TypePartsPrimed
  <1>6. CASE ~ Begun
    <2>1. last' = [last EXCEPT ![s] = Idle] /\ events' = Tail(events)
      BY <1>6 DEF HandleSelectionNotify, EndTransfer
    <2> HIDE DEF s
    <2>2. last' \in [Selection -> LastType]  BY <1>2, <2>1, ConstantTypes
    <2>3. QED  BY <1>2, <1>3, <1>4, <2>1, <2>2, TypePartsPrimed
  <1>7. QED  BY <1>5, <1>6

LEMMA CollectPropertyType ==
    ASSUME TypeOK, NEW fits \in BOOLEAN, CollectProperty(fits)
    PROVE  TypeOK'
  <1> USE TypeParts
  <1> DEFINE d == Head(events).data
             for == {s \in Selection : last[s].resource = Head(events).resource}
             s == CHOOSE i \in for : \A j \in for : i <= j
  <1>1. Received("collected") /\ \E answers : Tell(waiting, answers)
    BY DEF CollectProperty, EndTransfer
  <1>2. d \in Data /\ events' \in Seq(Event)  BY <1>1, HeadOfType DEF CollectProperty
  <1>3. waiting' \in [Client \cup Remote -> Nat]  BY <1>1, TellType
  <1>4. UNCHANGED <<option, dix, owner, request, requested, cut, asked, excuses, moves>>
    BY DEF CollectProperty
  <1>5. CASE for = {}
    <2>1. UNCHANGED <<last, cache, real>>  BY <1>5 DEF CollectProperty
    <2>2. QED  BY <1>2, <1>3, <1>4, <2>1, TypePartsPrimed
  <1>6. CASE for # {}
    <2>1. /\ last' = [last EXCEPT ![s] = Idle]
          /\ real' = real \/ real' = [real EXCEPT !.buffer = Nothing]
          /\ \/ cache' = cache
             \/ cache' = [cache EXCEPT ![s] = [for |-> "local", by |-> d.by]]
      BY <1>6 DEF CollectProperty, EndTransfer
    <2>2. s \in Selection
      <3>1. for \in SUBSET Selection /\ for \in SUBSET Nat  BY DEF Selection
      <3> HIDE DEF for
      <3>2. s \in for  BY <1>6, <3>1, LeastNumber
      <3>3. QED  BY <3>1, <3>2
    <2>3. [for |-> "local", by |-> d.by] \in CacheType
      <3> HIDE DEF d
      <3>1. QED  BY <1>2 DEF Data, CacheType
    <2> HIDE DEF s, d
    <2>4. last' \in [Selection -> LastType]  BY <2>1, <2>2, ConstantTypes
    <2>5. real' \in RealType  BY <2>1, ConstantTypes DEF RealType
    <2>6. cache' \in [Selection -> CacheType]  BY <2>1, <2>2, <2>3
    <2>7. QED  BY <1>2, <1>3, <1>4, <2>4, <2>5, <2>6, TypePartsPrimed
  <1>7. QED  BY <1>5, <1>6

LEMMA ReconnectType ==
    ASSUME TypeOK, Reconnect
    PROVE  TypeOK'
  <1> USE TypeParts
  <1>1. moves' \in 0 .. MaxMoves  BY MovedType DEF Reconnect
  <1>2. waiting' \in [Client \cup Remote -> Nat]
    <2>1. [p \in Client \cup Remote |-> IF p \in Remote THEN 0 ELSE waiting[p]]
              \in [Client \cup Remote -> Nat]
      OBVIOUS
    <2>2. QED  BY <2>1, TellType DEF Reconnect
  <1>3. real' \in RealType  BY ConstantTypes DEF Reconnect, RealType
  <1>4. request' \in [Selection -> RequestType]  BY ConstantTypes DEF Reconnect, At
  <1>5. cache' \in [Selection -> CacheType]  BY ConstantTypes DEF Reconnect, At
  <1>6. events' \in Seq(Event) /\ excuses' \in SUBSET Excuses  BY DEF Reconnect, Excuses
  <1>7. UNCHANGED <<option, dix, owner, last, requested, cut, asked>>  BY DEF Reconnect
  <1>8. QED  BY <1>1, <1>2, <1>3, <1>4, <1>5, <1>6, <1>7, TypePartsPrimed

LEMMA InitType ==
    ASSUME Init
    PROVE  TypeOK
  <1>1. real \in RealType  BY ConstantTypes DEF Init, RealType
  <1>2. last \in [Selection -> LastType] /\ request \in [Selection -> RequestType]
    BY ConstantTypes DEF Init
  <1>3. cache \in [Selection -> CacheType] /\ cut \in [Client -> Data]
    BY ConstantTypes DEF Init
  <1>4. requested \in 0 .. MaxSelections /\ moves \in 0 .. MaxMoves
    BY ClipboardAssumption DEF Init, MaxSelections
  <1>5. /\ option \in Options /\ dix \in [Selection -> Client \cup {"root", Null}]
        /\ owner \in [Selection -> Client \cup {Null}] /\ events \in Seq(Event)
    BY DEF Init
  <1>6. /\ asked \in [Client -> SUBSET Asked(Client \cup {"root", Null})]
        /\ waiting \in [Client \cup Remote -> Nat] /\ excuses \in SUBSET Excuses
    BY DEF Init
  <1>7. QED  BY <1>1, <1>2, <1>3, <1>4, <1>5, <1>6, TypeParts

LEMMA TypeStep ==
    ASSUME TypeOK, [Next]_vars
    PROVE  TypeOK'
  <1>1. CASE Handle
    BY <1>1, HandleSelectionClearType, RequestDeniedType, RequestAnsweredType,
       RequestNotAllowedType, HandleSelectionRequestType, HandlePropertyTransferType,
       HandleSelectionNotifyType, CollectPropertyType DEF Handle
  <1>2. CASE RemoteOwnerAnswers  BY <1>2, RemoteAnswersType DEF RemoteOwnerAnswers
  <1>3. CASE Reconnect  BY <1>3, ReconnectType
  <1>4. CASE \E c \in Client : OwnerAnswers(c) \/ CloseDownClient(c)
    BY <1>4, OwnersAnswerType, CloseDownClientType DEF OwnerAnswers
  <1>5. CASE \E s \in Selection, w \in Client \cup {Null} : SetSelectionOwner(s, w)
    BY <1>5, SetSelectionOwnerType
  <1>6. CASE \E c \in Client, s \in Selection, t \in Target :
                 \/ ConvertLocally(c, s, t) \/ ConvertRefused(c, s, t)
                 \/ ConvertAnswered(c, s, t) \/ ConvertSelection(c, s, t)
    BY <1>6, ConvertLocallyType, ConvertRefusedType, ConvertAnsweredType,
       ConvertSelectionType
  <1>7. CASE \E s \in Selection, w \in Remote \cup {Null} : RemoteSetsOwner(s, w)
    BY <1>7, RemoteSetsOwnerType
  <1>8. CASE \E p \in Remote, s \in Selection, t \in Target : RemoteConverts(p, s, t)
    BY <1>8, RemoteConvertsType
  <1>9. CASE UNCHANGED vars
    BY <1>9, TypeParts, TypePartsPrimed DEF vars, agent
  <1>10. QED
    BY <1>1, <1>2, <1>3, <1>4, <1>5, <1>6, <1>7, <1>8, <1>9 DEF Next

(* The exchange never leaves its types: nothing that the agent keeps of an    *)
(* exchange outlives its window, its slot or its selection.                   *)
THEOREM ClipboardTypes == Spec => []TypeOK
  <1>1. Init => TypeOK  BY InitType
  <1>2. TypeOK /\ [Next]_vars => TypeOK'  BY TypeStep
  <1>3. QED  BY <1>1, <1>2, PTL DEF Spec

-----------------------------------------------------------------------------
(* Who owns a selection.  When the real server has the agent for the owner,   *)
(* an event that tells of another one is older than the claim.                *)
NoStray ==
    \A s \in Selection : real.owner[s] = "agent" /\ OwnerEvent(s) => "crossed" \in excuses

OwnersInv == TypeOK /\ OwnersAgree /\ NoStray

(* No event that tells of an owner. *)
Quiet(b) == b \in Seq(Event) /\ \A i \in DOMAIN b : b[i].type # "owner"

Kept == \A s \in Selection : OwnerEvent(s)' <=> OwnerEvent(s)

LEMMA AddedKeep ==
    ASSUME events \in Seq(Event), NEW b, Quiet(b), events' = events \o b
    PROVE  Kept
  <1> SUFFICES ASSUME NEW s \in Selection
               PROVE  OwnerEvent(s)' <=> OwnerEvent(s)
    BY DEF Kept
  <1>0. b \in Seq(Event)  BY DEF Quiet
  <1>1. ASSUME OwnerEvent(s)  PROVE OwnerEvent(s)'
    <2>1. PICK i \in DOMAIN events : events[i].type = "owner" /\ events[i].sel = s
      BY <1>1 DEF OwnerEvent
    <2>2. i \in DOMAIN events' /\ events'[i] = events[i]  BY <1>0, <2>1
    <2>3. QED  BY <2>1, <2>2 DEF OwnerEvent
  <1>2. ASSUME OwnerEvent(s)'  PROVE OwnerEvent(s)
    <2>1. PICK i \in DOMAIN events' : events'[i].type = "owner" /\ events'[i].sel = s
      BY <1>2 DEF OwnerEvent
    <2>2. \/ i \in DOMAIN events /\ events'[i] = events[i]
          \/ i - Len(events) \in DOMAIN b /\ events'[i] = b[i - Len(events)]
      BY <1>0, <2>1
    <2>3. QED  BY <2>1, <2>2 DEF OwnerEvent, Quiet
  <1>3. QED  BY <1>1, <1>2

LEMMA TakenKeep ==
    ASSUME events \in Seq(Event), NEW t, Received(t), t # "owner", NEW b, Quiet(b),
           events' = Tail(events) \o b
    PROVE  Kept
  <1> SUFFICES ASSUME NEW s \in Selection
               PROVE  OwnerEvent(s)' <=> OwnerEvent(s)
    BY DEF Kept
  <1>0. b \in Seq(Event) /\ events # << >> /\ events[1].type # "owner"
    BY DEF Quiet, Received
  <1>1. ASSUME OwnerEvent(s)  PROVE OwnerEvent(s)'
    <2>1. PICK i \in DOMAIN events : events[i].type = "owner" /\ events[i].sel = s
      BY <1>1 DEF OwnerEvent
    <2>2. i \in 2 .. Len(events)  BY <1>0, <2>1
    <2>3. i - 1 \in DOMAIN events' /\ events'[i - 1] = events[i]  BY <1>0, <2>2
    <2>4. QED  BY <2>1, <2>3 DEF OwnerEvent
  <1>2. ASSUME OwnerEvent(s)'  PROVE OwnerEvent(s)
    <2>1. PICK i \in DOMAIN events' : events'[i].type = "owner" /\ events'[i].sel = s
      BY <1>2 DEF OwnerEvent
    <2>2. \/ i + 1 \in DOMAIN events /\ events'[i] = events[i + 1]
          \/ i - Len(events) + 1 \in DOMAIN b /\ events'[i] = b[i - Len(events) + 1]
      BY <1>0, <2>1
    <2>3. QED  BY <2>1, <2>2 DEF OwnerEvent, Quiet
  <1>3. QED  BY <1>1, <1>2

LEMMA QuietOnes ==
    /\ Quiet(<< >>)
    /\ \A q : \A s \in Selection, ok \in BOOLEAN : Quiet(NotifySelf(q, s, ok))
    /\ \A e \in Event : e.type # "owner" => Quiet(<<e>>)
  <1>1. Quiet(<< >>)  BY DEF Quiet
  <1>2. \A e \in Event : e.type # "owner" => Quiet(<<e>>)  BY DEF Quiet
  <1>3. \A q : \A s \in Selection, ok \in BOOLEAN : Quiet(NotifySelf(q, s, ok))
    <2> TAKE q
    <2> TAKE s \in Selection, ok \in BOOLEAN
    <2>1. Notify(s, ok) \in Event /\ Notify(s, ok).type # "owner"
      BY EventTypes DEF Notify
    <2>2. Quiet(<<Notify(s, ok)>>)  BY <1>2, <2>1
    <2>3. QED  BY <1>1, <2>2 DEF NotifySelf
  <1>4. QED  BY <1>1, <1>2, <1>3

(* A step that moves no selection and hears of no owner. *)
LEMMA Ordinary ==
    ASSUME OwnersAgree, NoStray, UNCHANGED <<owner, option>>, real'.owner = real.owner,
           excuses \subseteq excuses', Kept
    PROVE  OwnersAgree' /\ NoStray'
  BY DEF OwnersAgree, NoStray, Kept, IsLocalOwner

LEMMA ConvertKeeps ==
    ASSUME OwnersInv, NEW c \in Client, NEW s \in Selection, NEW t \in Target,
           \/ ConvertLocally(c, s, t) \/ ConvertRefused(c, s, t)
           \/ ConvertAnswered(c, s, t) \/ ConvertSelection(c, s, t)
    PROVE  OwnersAgree' /\ NoStray'
  <1> USE TypeParts DEF OwnersInv
  <1>1. UNCHANGED <<owner, option>> /\ excuses \subseteq excuses'
    BY DEF ConvertLocally, ConvertRefused, ConvertAnswered, ConvertSelection, agent
  <1>2. ASSUME events' = events  PROVE Kept
    BY <1>2 DEF Kept, OwnerEvent
  <1>3. ASSUME events' = events, real' = real  PROVE OwnersAgree' /\ NoStray'
    BY <1>1, <1>2, <1>3, Ordinary
  <1>4. CASE ConvertLocally(c, s, t) \/ ConvertRefused(c, s, t) \/ ConvertAnswered(c, s, t)
    BY <1>3, <1>4 DEF ConvertLocally, ConvertRefused, ConvertAnswered
  <1>5. CASE ConvertSelection(c, s, t)
    <2> DEFINE q == [sel |-> s, id |-> moves + 1, of |-> Null, target |-> t]
               o == real.owner[s]
               e == [type |-> "request", sel |-> s, id |-> moves + 1, of |-> "agent",
                     target |-> t]
    <2>1. XConvertSelection(s, q)  BY <1>5 DEF ConvertSelection
    <2>2. real'.owner = real.owner  BY <2>1 DEF XConvertSelection, RealType
    <2>3. moves + 1 \in Nat  BY ClipboardAssumption
    <2>4. Notify(s, FALSE) \in Event /\ e \in Event  BY <2>3, EventTypes
    <2>5. Notify(s, FALSE).type # "owner" /\ e.type # "owner"  BY DEF Notify
    <2>6. Quiet(<<Notify(s, FALSE)>>) /\ Quiet(<<e>>)  BY <2>4, <2>5, QuietOnes
    <2>7. events' = CASE o = Null -> Append(events, Notify(s, FALSE))
                      [] o = "agent" -> Append(events, e)
                      [] OTHER -> events
      BY <2>1 DEF XConvertSelection
    <2> HIDE DEF e, o
    <2>8. CASE o = Null
      <3>1. o # "agent"  BY <2>8, ClipboardAssumption
      <3>2. events' = Append(events, Notify(s, FALSE))  BY <2>7, <2>8, <3>1
      <3>3. events' = events \o <<Notify(s, FALSE)>>
        <4> DEFINE n == Notify(s, FALSE)
        <4>1. n \in Event /\ events' = Append(events, n)  BY <2>4, <3>2
        <4> HIDE DEF n
        <4>2. events' = events \o <<n>>  BY <4>1
        <4>3. QED  BY <4>2 DEF n
      <3>4. QED  BY <1>1, <2>2, <2>6, <3>3, AddedKeep, Ordinary
    <2>9. CASE o = "agent"
      <3>1. o # Null  BY <2>9, ClipboardAssumption
      <3>2. events' = Append(events, e)  BY <2>7, <2>9, <3>1
      <3>3. events' = events \o <<e>>  BY <2>4, <3>2
      <3>4. QED  BY <1>1, <2>2, <2>6, <3>3, AddedKeep, Ordinary
    <2>10. CASE o # Null /\ o # "agent"
      <3>1. events' = events  BY <2>7, <2>10
      <3>2. QED  BY <1>1, <1>2, <2>2, <3>1, Ordinary
    <2>11. QED  BY <2>8, <2>9, <2>10
  <1>6. QED  BY <1>4, <1>5

LEMMA OwnersAnswerKeeps ==
    ASSUME OwnersInv, NEW c \in Client, NEW q, LocalAnswers(c, q) \/ LocalRefuses(c, q)
    PROVE  OwnersAgree' /\ NoStray'
  <1> USE TypeParts DEF OwnersInv
  <1>1. UNCHANGED <<owner, option, real>> /\ excuses \subseteq excuses' /\ q \in asked[c]
    BY DEF LocalAnswers, LocalRefuses, agent
  <1>2. q \in Asked(Client \cup {"root", Null})  BY <1>1
  <1>3. q.sel \in Selection  BY <1>2 DEF Asked
  <1> DEFINE e == [type |-> "self", sel |-> q.sel]
             b == NotifySelf(request[q.sel], q.sel, FALSE)
  <1>4. \/ events' = events \/ events' = Append(events, e) \/ events' = events \o b
    BY DEF LocalAnswers, LocalRefuses
  <1>5. e \in Event /\ e.type # "owner"  BY <1>3, EventTypes
  <1>6. Quiet(<<e>>) /\ Quiet(b)  BY <1>3, <1>5, QuietOnes
  <1> HIDE DEF e, b
  <1>7. CASE events' = events  BY <1>1, <1>7, Ordinary DEF Kept, OwnerEvent
  <1>8. CASE events' = Append(events, e)
    <2>1. events' = events \o <<e>>  BY <1>5, <1>8
    <2>2. QED  BY <1>1, <1>6, <2>1, AddedKeep, Ordinary
  <1>9. CASE events' = events \o b  BY <1>1, <1>6, <1>9, AddedKeep, Ordinary
  <1>10. QED  BY <1>4, <1>7, <1>8, <1>9

LEMMA RemoteKeeps ==
    ASSUME OwnersInv,
           \/ \E p \in Remote, s \in Selection, t \in Target : RemoteConverts(p, s, t)
           \/ RemoteOwnerAnswers
    PROVE  OwnersAgree' /\ NoStray'
  <1> USE TypeParts DEF OwnersInv
  <1>1. UNCHANGED <<owner, option, excuses>> /\ real'.owner = real.owner
    BY DEF RemoteConverts, RemoteOwnerAnswers, RemoteAnswers, agent, RealType
  <1>2. \E e \in Event : e.type # "owner" /\ events' = Append(events, e)
    <2>1. ASSUME NEW p \in Remote, NEW s \in Selection, NEW t \in Target,
                 RemoteConverts(p, s, t)
          PROVE  \E e \in Event : e.type # "owner" /\ events' = Append(events, e)
      <3> DEFINE e == [type |-> "request", sel |-> s, id |-> moves + 1, of |-> p,
                       target |-> t]
      <3>1. moves + 1 \in Nat  BY ClipboardAssumption
      <3>2. e \in Event /\ e.type # "owner"  BY <3>1, EventTypes
      <3>3. events' = Append(events, e)  BY <2>1 DEF RemoteConverts
      <3> HIDE DEF e
      <3>4. QED  BY <3>2, <3>3
    <2>2. ASSUME NEW q \in real.conversions, NEW ok \in BOOLEAN, RemoteAnswers(q, ok)
          PROVE  \E e \in Event : e.type # "owner" /\ events' = Append(events, e)
      <3>1. q \in Asked(Remote)  BY DEF RealType
      <3>2. q.sel \in Selection  BY <3>1 DEF Asked
      <3>3. Notify(q.sel, ok) \in Event /\ Notify(q.sel, ok).type # "owner"
        BY <3>2, EventTypes DEF Notify
      <3>4. QED  BY <2>2, <3>3 DEF RemoteAnswers
    <2>3. QED  BY <2>1, <2>2 DEF RemoteOwnerAnswers
  <1>3. PICK e \in Event : e.type # "owner" /\ events' = Append(events, e)  BY <1>2
  <1>4. events' = events \o <<e>> /\ Quiet(<<e>>)  BY <1>3, QuietOnes
  <1>5. QED  BY <1>1, <1>4, AddedKeep, Ordinary

LEMMA RequestKeeps ==
    ASSUME OwnersInv,
           RequestDenied \/ RequestAnswered \/ RequestNotAllowed \/ HandleSelectionRequest
    PROVE  OwnersAgree' /\ NoStray'
  <1> USE TypeParts DEF OwnersInv
  <1> DEFINE q == Head(events)
  <1>1. Received("request") /\ UNCHANGED <<owner, option>> /\ excuses \subseteq excuses'
    BY DEF RequestDenied, RequestAnswered, RequestNotAllowed, HandleSelectionRequest, agent
  <1>2. q.sel \in Selection /\ Tail(events) \in Seq(Event)  BY <1>1, HeadOfType
  <1>3. CASE HandleSelectionRequest
    <2>1. events' = Tail(events) /\ real' = real  BY <1>3 DEF HandleSelectionRequest
    <2>2. events' = Tail(events) \o << >>  BY <1>2, <2>1
    <2>3. QED  BY <1>1, <2>1, <2>2, QuietOnes, TakenKeep, Ordinary
  <1>4. ASSUME NEW ok \in BOOLEAN, NEW d, ReplyRequest(q, ok, d)
        PROVE  OwnersAgree' /\ NoStray'
    <2>1. events' = Tail(events) \o NotifySelf(q, q.sel, ok)  BY <1>4 DEF ReplyRequest
    <2>2. real'.owner = real.owner  BY <1>4 DEF ReplyRequest, RealType
    <2>3. Quiet(NotifySelf(q, q.sel, ok))  BY <1>2, QuietOnes
    <2>4. QED  BY <1>1, <2>1, <2>2, <2>3, TakenKeep, Ordinary
  <1>5. CASE RequestDenied \/ RequestNotAllowed
    BY <1>4, <1>5 DEF RequestDenied, RequestNotAllowed
  <1>6. CASE RequestAnswered  BY <1>4, <1>6 DEF RequestAnswered
  <1>7. QED  BY <1>3, <1>5, <1>6

LEMMA TransferKeeps ==
    ASSUME OwnersInv,
           \/ HandlePropertyTransfer \/ HandleSelectionNotify
           \/ \E fits \in BOOLEAN : CollectProperty(fits)
    PROVE  OwnersAgree' /\ NoStray'
  <1> USE TypeParts DEF OwnersInv
  <1>1. UNCHANGED <<owner, option, excuses>>
    BY DEF HandlePropertyTransfer, HandleSelectionNotify, CollectProperty
  <1>2. real'.owner = real.owner
    BY DEF HandlePropertyTransfer, HandleSelectionNotify, CollectProperty, RealType
  <1>3. CASE HandlePropertyTransfer
    <2> DEFINE s == Head(events).sel
    <2>1. Received("self")  BY <1>3 DEF HandlePropertyTransfer
    <2>2. s \in Selection /\ Tail(events) \in Seq(Event)  BY <2>1, HeadOfType
    <2>3. \/ events' = Tail(events) \/ events' = Tail(events) \o NotifySelf(request[s], s, TRUE)
      BY <1>3 DEF HandlePropertyTransfer
    <2>4. Quiet(NotifySelf(request[s], s, TRUE)) /\ Quiet(<< >>)  BY <2>2, QuietOnes
    <2>5. Kept
      <3> HIDE DEF s
      <3>1. CASE events' = Tail(events)
        <4>1. events' = Tail(events) \o << >>  BY <2>2, <3>1
        <4>2. QED  BY <2>1, <2>4, <4>1, TakenKeep
      <3>2. CASE events' = Tail(events) \o NotifySelf(request[s], s, TRUE)
        BY <2>1, <2>4, <3>2, TakenKeep
      <3>3. QED  BY <2>3, <3>1, <3>2
    <2>6. QED  BY <1>1, <1>2, <2>5, Ordinary
  <1>4. CASE HandleSelectionNotify
    <2> DEFINE r == CHOOSE i \in Free : \A j \in Free : i <= j
               e == [type |-> "collected", resource |-> r, data |-> real.buffer]
    <2>1. Received("notify")  BY <1>4 DEF HandleSelectionNotify
    <2>2. Tail(events) \in Seq(Event)  BY <2>1, HeadOfType
    <2>3. events' = Tail(events) \/ (Free # {} /\ events' = Append(Tail(events), e))
      BY <1>4 DEF HandleSelectionNotify
    <2>4. ASSUME Free # {}  PROVE Quiet(<<e>>) /\ e \in Event
      <3>1. Free \in SUBSET (1 .. Slots) /\ Free \in SUBSET Nat  BY DEF Free
      <3>2. r \in 1 .. Slots
        <4> HIDE DEF Free
        <4>1. r \in Free  BY <2>4, <3>1, LeastNumber
        <4>2. QED  BY <3>1, <4>1
      <3>3. e \in Event /\ e.type # "owner"  BY <3>2, EventTypes DEF RealType
      <3>4. QED  BY <3>3, QuietOnes
    <2>5. Kept
      <3> HIDE DEF r, e
      <3>1. CASE events' = Tail(events)
        <4>1. events' = Tail(events) \o << >>  BY <2>2, <3>1
        <4>2. QED  BY <2>1, <4>1, QuietOnes, TakenKeep
      <3>2. CASE Free # {} /\ events' = Append(Tail(events), e)
        <4>1. events' = Tail(events) \o <<e>>  BY <2>2, <2>4, <3>2
        <4>2. QED  BY <2>1, <2>4, <3>2, <4>1, TakenKeep
      <3>3. QED  BY <2>3, <3>1, <3>2
    <2>6. QED  BY <1>1, <1>2, <2>5, Ordinary
  <1>5. CASE \E fits \in BOOLEAN : CollectProperty(fits)
    <2>1. Received("collected") /\ events' = Tail(events)  BY <1>5 DEF CollectProperty
    <2>2. Tail(events) \in Seq(Event)  BY <2>1, HeadOfType
    <2>3. events' = Tail(events) \o << >>  BY <2>1, <2>2
    <2>4. QED  BY <1>1, <1>2, <2>1, <2>3, QuietOnes, TakenKeep, Ordinary
  <1>6. QED  BY <1>3, <1>4, <1>5

(* What follows the queue tells of owners of the selections S only. *)
LEMMA Adding ==
    ASSUME events \in Seq(Event), NEW b \in Seq(Event), events' = events \o b, NEW S,
           \A i \in DOMAIN b : b[i].type = "owner" => b[i].sel \in S,
           NEW s \in Selection
    PROVE  /\ OwnerEvent(s) => OwnerEvent(s)'
           /\ OwnerEvent(s)' => OwnerEvent(s) \/ s \in S
  <1>1. ASSUME OwnerEvent(s)  PROVE OwnerEvent(s)'
    <2>1. PICK i \in DOMAIN events : events[i].type = "owner" /\ events[i].sel = s
      BY <1>1 DEF OwnerEvent
    <2>2. i \in DOMAIN events' /\ events'[i] = events[i]  BY <2>1
    <2>3. QED  BY <2>1, <2>2 DEF OwnerEvent
  <1>2. ASSUME OwnerEvent(s)'  PROVE OwnerEvent(s) \/ s \in S
    <2>1. PICK i \in DOMAIN events' : events'[i].type = "owner" /\ events'[i].sel = s
      BY <1>2 DEF OwnerEvent
    <2>2. \/ i \in DOMAIN events /\ events'[i] = events[i]
          \/ i - Len(events) \in DOMAIN b /\ events'[i] = b[i - Len(events)]
      BY <2>1
    <2>3. QED  BY <2>1, <2>2 DEF OwnerEvent
  <1>3. QED  BY <1>1, <1>2

(* The agent tells the real server of new owners, or that there are none. *)
LEMMA NewOwnersKeep ==
    ASSUME OwnersInv, NEW S \in SUBSET Selection, NEW w \in Client \cup {Null},
           SetSelectionOwnerOnXServer(S, w), option' = option, excuses \subseteq excuses',
           w # Null => \A s \in S : OwnerEvent(s) => "crossed" \in excuses'
    PROVE  OwnersAgree' /\ NoStray'
  <1> USE TypeParts DEF OwnersInv
  <1> DEFINE x == IF w = Null THEN Null ELSE "agent"
             Sent(s) == IF s \in S THEN NotifySelf(request[s], s, FALSE) \o OwnerEvents(s, x)
                        ELSE << >>
             T == IF x = "agent" THEN {} ELSE S
             Fine(b) == /\ b \in Seq(Event)
                        /\ \A i \in DOMAIN b : b[i].type = "owner" => b[i].sel \in T
  <1>1. /\ owner' = At(owner, S, w) /\ real' = [real EXCEPT !.owner = At(@, S, x)]
        /\ events' = events \o Sent(0) \o Sent(1)
    BY DEF SetSelectionOwnerOnXServer
  <1>2. \A a, b : Fine(a) /\ Fine(b) => Fine(a \o b)
    <2> SUFFICES ASSUME NEW a, NEW b, Fine(a), Fine(b)
                 PROVE  Fine(a \o b)
      OBVIOUS
    <2>1. a \o b \in Seq(Event)  BY ConcatType
    <2>2. ASSUME NEW i \in DOMAIN (a \o b), (a \o b)[i].type = "owner"
          PROVE  (a \o b)[i].sel \in T
      <3> HIDE DEF T
      <3>1. \/ i \in DOMAIN a /\ (a \o b)[i] = a[i]
            \/ i - Len(a) \in DOMAIN b /\ (a \o b)[i] = b[i - Len(a)]
        OBVIOUS
      <3>2. QED  BY <2>2, <3>1
    <2>3. QED  BY <2>1, <2>2
  <1>3. Fine(<< >>)  OBVIOUS
  <1>4. \A s \in Selection : Fine(Sent(s))
    <2> SUFFICES ASSUME NEW s \in Selection
                 PROVE  Fine(Sent(s))
      OBVIOUS
    <2>1. Fine(NotifySelf(request[s], s, FALSE))
      BY QuietOnes DEF Quiet
    <2>2. ASSUME s \in S  PROVE Fine(OwnerEvents(s, x))
      <3>1. CASE x = "agent"
        <4>1. OwnerEvents(s, x) = << >>  BY <3>1 DEF OwnerEvents
        <4>2. QED  BY <1>3, <4>1
      <3>2. CASE x # "agent"
        <4>1. OwnerEvents(s, x) \in Seq(Event)  BY OwnerEventsType
        <4>2. \A i \in DOMAIN OwnerEvents(s, x) : OwnerEvents(s, x)[i].sel = s
          <5> HIDE DEF x
          <5>1. QED  BY <3>2 DEF OwnerEvents
        <4>3. T = S  BY <3>2
        <4> HIDE DEF x, T
        <4>4. QED  BY <2>2, <4>1, <4>2, <4>3
      <3>3. QED  BY <3>1, <3>2
    <2> HIDE DEF x, T, Fine
    <2>3. CASE s \in S  BY <1>2, <2>1, <2>2, <2>3
    <2>4. CASE s \notin S  BY <1>3, <2>4
    <2>5. QED  BY <2>3, <2>4
  <1>5. 0 \in Selection /\ 1 \in Selection  BY DEF Selection
  <1>6. Fine(Sent(0) \o Sent(1)) /\ events' = events \o (Sent(0) \o Sent(1))
    <2>1. Fine(Sent(0)) /\ Fine(Sent(1))  BY <1>4, <1>5
    <2>2. Sent(0) \in Seq(Event) /\ Sent(1) \in Seq(Event)  BY <2>1
    <2> HIDE DEF Sent, T
    <2>3. events' = events \o (Sent(0) \o Sent(1))  BY <1>1, <2>2
    <2>4. QED  BY <1>2, <2>1, <2>3
  <1>7. ASSUME NEW s \in Selection
        PROVE  /\ OwnerEvent(s) => OwnerEvent(s)'
               /\ OwnerEvent(s)' => OwnerEvent(s) \/ s \in T
    <2> DEFINE b == Sent(0) \o Sent(1)
    <2>1. b \in Seq(Event) /\ \A i \in DOMAIN b : b[i].type = "owner" => b[i].sel \in T
      BY <1>6
    <2>2. events' = events \o b  BY <1>6
    <2> HIDE DEF b, T
    <2>3. QED  BY <2>1, <2>2, Adding
  <1>8. \A s \in Selection : owner'[s] = IF s \in S THEN w ELSE owner[s]
    BY <1>1 DEF At
  <1>9. \A s \in Selection : real'.owner[s] = IF s \in S THEN x ELSE real.owner[s]
    <2> HIDE DEF x
    <2>1. QED  BY <1>1 DEF At, RealType
  <1>10. Null # "agent"  BY ClipboardAssumption
  <1>11. ASSUME NEW s \in Selection
         PROVE  /\ IsLocalOwner(s)' /\ option'.clipboard = "both" =>
                       real'.owner[s] = "agent" \/ OwnerEvent(s)'
                /\ real'.owner[s] = "agent" => IsLocalOwner(s)' \/ "crossed" \in excuses'
                /\ real'.owner[s] = "agent" /\ OwnerEvent(s)' => "crossed" \in excuses'
    <2>1. CASE s \notin S
      <3>1. owner'[s] = owner[s] /\ real'.owner[s] = real.owner[s]  BY <1>8, <1>9, <2>1
      <3>2. OwnerEvent(s)' <=> OwnerEvent(s)  BY <1>7, <2>1
      <3>3. QED  BY <3>1, <3>2 DEF OwnersAgree, NoStray, IsLocalOwner
    <2>2. CASE s \in S /\ w = Null
      <3>1. owner'[s] = Null /\ real'.owner[s] = Null  BY <1>8, <1>9, <2>2
      <3>2. QED  BY <1>10, <3>1 DEF IsLocalOwner
    <2>3. CASE s \in S /\ w # Null
      <3>1. owner'[s] # Null /\ real'.owner[s] = "agent" /\ T = {}  BY <1>8, <1>9, <2>3
      <3>2. OwnerEvent(s)' => "crossed" \in excuses'  BY <1>7, <2>3, <3>1
      <3>3. QED  BY <3>1, <3>2 DEF IsLocalOwner
    <2>4. QED  BY <2>1, <2>2, <2>3
  <1>12. QED  BY <1>11 DEF OwnersAgree, NoStray

LEMMA SetSelectionOwnerKeeps ==
    ASSUME OwnersInv, NEW s \in Selection, NEW w \in Client \cup {Null},
           SetSelectionOwner(s, w)
    PROVE  OwnersAgree' /\ NoStray'
  <1>1. option' = option /\ {s} \in SUBSET Selection  BY DEF SetSelectionOwner
  <1>2. CASE option.clipboard = "none"
    <2>1. UNCHANGED <<owner, real, events, excuses>>  BY <1>2 DEF SetSelectionOwner
    <2>2. QED  BY <1>1, <2>1, Ordinary DEF OwnersInv, Kept, OwnerEvent
  <1>3. CASE option.clipboard # "none"
    <2>1. SetSelectionOwnerOnXServer({s}, w) /\ excuses \subseteq excuses'
      BY <1>3 DEF SetSelectionOwner
    <2>2. w # Null /\ OwnerEvent(s) => "crossed" \in excuses'
      BY <1>3 DEF SetSelectionOwner
    <2>3. QED  BY <1>1, <2>1, <2>2, NewOwnersKeep
  <1>4. QED  BY <1>2, <1>3

LEMMA CloseDownClientKeeps ==
    ASSUME OwnersInv, NEW c \in Client, CloseDownClient(c)
    PROVE  OwnersAgree' /\ NoStray'
  <1> DEFINE S == {s \in Selection : owner[s] = c}
  <1>1. /\ SetSelectionOwnerOnXServer(S, Null) /\ option' = option
        /\ excuses \subseteq excuses' /\ S \in SUBSET Selection
        /\ Null \in Client \cup {Null}
    BY DEF CloseDownClient
  <1> HIDE DEF S
  <1>2. QED  BY <1>1, NewOwnersKeep

LEMMA RemoteSetsOwnerKeeps ==
    ASSUME OwnersInv, NEW s \in Selection, NEW w \in Remote \cup {Null}, RemoteSetsOwner(s, w)
    PROVE  OwnersAgree' /\ NoStray'
  <1> USE TypeParts DEF OwnersInv
  <1> DEFINE b == OwnerEvents(s, w)
  <1>1. /\ UNCHANGED <<option, owner, excuses>> /\ real' = [real EXCEPT !.owner[s] = w]
        /\ events' = events \o b
    BY DEF RemoteSetsOwner, agent
  <1>2. w # "agent"  BY ClipboardAssumption
  <1>3. /\ b \in Seq(Event) /\ 1 \in DOMAIN b
        /\ \A i \in DOMAIN b : b[i].type = "owner" /\ b[i].sel = s
    <2> DEFINE e == [type |-> "owner", sel |-> s]
    <2>1. e.type = "owner" /\ e.sel = s /\ e \in Event  BY EventTypes
    <2>2. b = <<e, e>> \/ b = <<e>>  BY <1>2 DEF OwnerEvents
    <2> HIDE DEF e, b
    <2>3. CASE b = <<e>>  BY <2>1, <2>3
    <2>4. CASE b = <<e, e>>
      <3>1. b \in Seq(Event) /\ DOMAIN b = 1 .. 2 /\ b[1] = e /\ b[2] = e  BY <2>1, <2>4
      <3>2. QED  BY <2>1, <3>1
    <2>5. QED  BY <2>2, <2>3, <2>4
  <1>4. OwnerEvent(s)'
    <2> HIDE DEF b
    <2>1. Len(events) + 1 \in DOMAIN events' /\ events'[Len(events) + 1] = b[1]
      BY <1>1, <1>3
    <2>2. QED  BY <1>3, <2>1 DEF OwnerEvent
  <1>5. ASSUME NEW r \in Selection, r # s
        PROVE  OwnerEvent(r)' <=> OwnerEvent(r)
    <2> HIDE DEF b
    <2>1. \A i \in DOMAIN b : b[i].type = "owner" => b[i].sel \in {s}  BY <1>3
    <2>2. r \notin {s}  BY <1>5
    <2>3. QED  BY <1>1, <1>3, <2>1, <2>2, Adding
  <1>6. real'.owner = [real.owner EXCEPT ![s] = w]  BY <1>1 DEF RealType
  <1>7. real'.owner[s] = w /\ \A r \in Selection : r # s => real'.owner[r] = real.owner[r]
    BY <1>6 DEF RealType
  <1>8. QED  BY <1>1, <1>2, <1>4, <1>5, <1>7 DEF OwnersAgree, NoStray, IsLocalOwner

LEMMA HandleSelectionClearKeeps ==
    ASSUME OwnersInv, HandleSelectionClear
    PROVE  OwnersAgree' /\ NoStray'
  <1> USE TypeParts DEF OwnersInv
  <1> DEFINE s == Head(events).sel
  <1>1. /\ Received("owner") /\ events' = Tail(events)
        /\ UNCHANGED <<option, real>> /\ excuses \subseteq excuses'
    BY DEF HandleSelectionClear
  <1>2. /\ s \in Selection /\ events # << >> /\ events[1].type = "owner" /\ events[1].sel = s
        /\ Tail(events) \in Seq(Event)
    BY <1>1, HeadOfType DEF Received
  <1>3. OwnerEvent(s)  BY <1>2 DEF OwnerEvent
  <1>4. \/ /\ owner' = owner
           /\ option.clipboard # "server" => ~ IsLocalOwner(s)
        \/ owner' = [owner EXCEPT ![s] = Null]
    BY DEF HandleSelectionClear
  <1> HIDE DEF s
  <1>5. ASSUME NEW r \in Selection, OwnerEvent(r)'
        PROVE  OwnerEvent(r)
    <2>1. PICK i \in DOMAIN events' : events'[i].type = "owner" /\ events'[i].sel = r
      BY <1>5 DEF OwnerEvent
    <2>2. i + 1 \in DOMAIN events /\ events'[i] = events[i + 1]  BY <1>1, <1>2, <2>1
    <2>3. QED  BY <2>1, <2>2 DEF OwnerEvent
  <1>6. ASSUME NEW r \in Selection, r # s, OwnerEvent(r)
        PROVE  OwnerEvent(r)'
    <2>1. PICK i \in DOMAIN events : events[i].type = "owner" /\ events[i].sel = r
      BY <1>6 DEF OwnerEvent
    <2>2. i \in 2 .. Len(events)  BY <1>2, <1>6, <2>1
    <2>3. i - 1 \in DOMAIN events' /\ events'[i - 1] = events[i]  BY <1>1, <1>2, <2>2
    <2>4. QED  BY <2>1, <2>3 DEF OwnerEvent
  <1>7. NoStray'  BY <1>1, <1>5 DEF NoStray
  <1>8. ASSUME NEW r \in Selection
        PROVE  /\ IsLocalOwner(r)' /\ option'.clipboard = "both" =>
                      real'.owner[r] = "agent" \/ OwnerEvent(r)'
               /\ real'.owner[r] = "agent" => IsLocalOwner(r)' \/ "crossed" \in excuses'
    <2>1. CASE r = s
      <3>1. real'.owner[r] = "agent" => "crossed" \in excuses'
        BY <1>1, <1>3, <2>1 DEF NoStray
      <3>2. ~ (IsLocalOwner(r)' /\ option'.clipboard = "both")
        BY <1>1, <1>2, <1>4, <2>1 DEF IsLocalOwner
      <3>3. QED  BY <3>1, <3>2
    <2>2. CASE r # s
      <3>1. owner'[r] = owner[r]  BY <1>4, <2>2
      <3>2. OwnerEvent(r)' <=> OwnerEvent(r)  BY <1>5, <1>6, <2>2
      <3>3. QED  BY <1>1, <3>1, <3>2 DEF OwnersAgree, IsLocalOwner
    <2>3. QED  BY <2>1, <2>2
  <1>9. QED  BY <1>7, <1>8 DEF OwnersAgree

LEMMA ReconnectKeeps ==
    ASSUME OwnersInv, Reconnect
    PROVE  OwnersAgree' /\ NoStray'
  <1>1. UNCHANGED <<option, owner>> /\ events' = << >>  BY DEF Reconnect
  <1>2. \A s \in Selection : ~ OwnerEvent(s)'  BY <1>1 DEF OwnerEvent
  <1>3. \A s \in Selection :
            real'.owner[s] = IF option.clipboard \in {"server", "both"} /\ IsLocalOwner(s)
                             THEN "agent" ELSE Null
    BY DEF Reconnect
  <1>4. Null # "agent"  BY ClipboardAssumption
  <1>5. QED  BY <1>1, <1>2, <1>3, <1>4 DEF OwnersAgree, NoStray, IsLocalOwner

(* The agent and the real X server agree on the owners of the selections, for *)
(* any number of clients on either side, however their claims, the events of  *)
(* the real server, deaths of clients and reconnections interleave; and they  *)
(* fail to only after a claim that crossed an older event.                    *)
THEOREM OwnersKnown == Spec => []OwnersAgree
  <1>1. Init => OwnersInv
    <2> SUFFICES ASSUME Init
                 PROVE  OwnersInv
      OBVIOUS
    <2>1. TypeOK  BY InitType
    <2>2. Null # "agent"  BY ClipboardAssumption
    <2>3. \A s \in Selection : owner[s] = Null /\ real.owner[s] = Null  BY DEF Init
    <2>4. QED  BY <2>1, <2>2, <2>3 DEF OwnersInv, OwnersAgree, NoStray, IsLocalOwner
  <1>2. OwnersInv /\ [Next]_vars => OwnersInv'
    <2> SUFFICES ASSUME OwnersInv, [Next]_vars
                 PROVE  OwnersAgree' /\ NoStray'
      BY TypeStep DEF OwnersInv
    <2>1. CASE Handle
      BY <2>1, HandleSelectionClearKeeps, RequestKeeps, TransferKeeps DEF Handle
    <2>2. CASE RemoteOwnerAnswers  BY <2>2, RemoteKeeps
    <2>3. CASE Reconnect  BY <2>3, ReconnectKeeps
    <2>4. CASE \E c \in Client : OwnerAnswers(c) \/ CloseDownClient(c)
      BY <2>4, OwnersAnswerKeeps, CloseDownClientKeeps DEF OwnerAnswers
    <2>5. CASE \E s \in Selection, w \in Client \cup {Null} : SetSelectionOwner(s, w)
      BY <2>5, SetSelectionOwnerKeeps
    <2>6. CASE \E c \in Client, s \in Selection, t \in Target :
                   \/ ConvertLocally(c, s, t) \/ ConvertRefused(c, s, t)
                   \/ ConvertAnswered(c, s, t) \/ ConvertSelection(c, s, t)
      BY <2>6, ConvertKeeps
    <2>7. CASE \E s \in Selection, w \in Remote \cup {Null} : RemoteSetsOwner(s, w)
      BY <2>7, RemoteSetsOwnerKeeps
    <2>8. CASE \E p \in Remote, s \in Selection, t \in Target : RemoteConverts(p, s, t)
      BY <2>8, RemoteKeeps
    <2>9. CASE UNCHANGED vars
      BY <2>9, Ordinary DEF vars, agent, Kept, OwnerEvent, OwnersInv
    <2>10. QED
      BY <2>1, <2>2, <2>3, <2>4, <2>5, <2>6, <2>7, <2>8, <2>9 DEF Next
  <1>3. OwnersInv => OwnersAgree  BY DEF OwnersInv
  <1>4. QED  BY <1>1, <1>2, <1>3, PTL DEF Spec

-----------------------------------------------------------------------------
(* What the exchange knows of its requests.  As long as two exchanges of one  *)
(* direction are not mixed up, the request that an owner was asked, what it   *)
(* wrote, and the pending request all belong together; and what is under way  *)
(* at the real server belongs to the request of the local client, if one is   *)
(* left.                                                                      *)
Clear == "mixed" \notin excuses
Claims == option.clipboard \in {"server", "both"}

Items(b) == {b[i] : i \in DOMAIN b}
Queued == Items(events)

(* Only who owns the selection answers for it, and only claims make requests. *)
OwnersKept ==
    \A s \in Selection :
        /\ IsLocalOwner(s) => dix[s] = owner[s] /\ option.clipboard # "none"
        /\ last[s] # Idle => ~ IsLocalOwner(s)
        /\ request[s] # NoRequest => Claims

(* One question to an owner is open, or its answer is in the queue, and it is *)
(* the one of the pending request.                                            *)
AskedFits ==
    \A c \in Client : \A q \in asked[c] :
        q.of = "root" =>
            /\ \A d \in Client : \A p \in asked[d] : p.of = "root" => d = c /\ p = q
            /\ \A e \in Queued : e.type # "self"
            /\ request[q.sel] # NoRequest =>
                   /\ requested = q.sel /\ owner[q.sel] \in {c, Null}
                   /\ q.id = request[q.sel].id

(* What the owner wrote is for the pending request. *)
WrittenFits ==
    \A e \in Queued :
        e.type = "self" /\ request[e.sel] # NoRequest /\ IsLocalOwner(e.sel) =>
            cut[owner[e.sel]] = [id |-> request[e.sel].id, by |-> owner[e.sel]]

Meant(x) == \A s \in Selection : last[s] # Idle => last[s].id = x

(* What is under way at the real server is for the local request. *)
UnderWayFits ==
    /\ \A q \in real.conversions : Meant(q.id)
    /\ real.buffer # Nothing => Meant(real.buffer.id)
    /\ \A s \in Selection : request[s].of = "agent" => Meant(request[s].id)
    /\ \A e \in Queued :
           /\ e.type = "request" /\ e.of = "agent" => Meant(e.id)
           /\ e.type = "collected" /\ e.data # Nothing => Meant(e.data.id)

ExchangeInv ==
    /\ TypeOK /\ OwnersKept /\ CachesFit
    /\ Clear => AskedFits /\ WrittenFits /\ UnderWayFits

(* No owner has answered. *)
NoSelf == \A e \in Queued' : e \in Queued \/ e.type # "self"

(* No news but of owners and of transfers. *)
NoNews == \A e \in Queued' : e \in Queued \/ e.type \in {"owner", "notify"}

LEMMA QueuedMore ==
    ASSUME events \in Seq(Event), NEW b \in Seq(Event), events' = events \o b
    PROVE  Queued' = Queued \cup Items(b)
  <1>1. ASSUME NEW i \in DOMAIN events'
        PROVE  \/ i \in DOMAIN events /\ events'[i] = events[i]
               \/ i - Len(events) \in DOMAIN b /\ events'[i] = b[i - Len(events)]
    BY <1>1
  <1>2. ASSUME NEW i \in DOMAIN events
        PROVE  i \in DOMAIN events' /\ events'[i] = events[i]
    BY <1>2
  <1>3. ASSUME NEW i \in DOMAIN b
        PROVE  i + Len(events) \in DOMAIN events' /\ events'[i + Len(events)] = b[i]
    BY <1>3
  <1>4. ASSUME NEW e \in Queued'
        PROVE  e \in Queued \cup Items(b)
    <2>1. PICK i \in DOMAIN events' : e = events'[i]  BY DEF Queued, Items
    <2>2. QED  BY <1>1, <2>1 DEF Queued, Items
  <1>5. ASSUME NEW e \in Queued
        PROVE  e \in Queued'
    BY <1>2 DEF Queued, Items
  <1>6. ASSUME NEW e \in Items(b)
        PROVE  e \in Queued'
    BY <1>3 DEF Queued, Items
  <1>7. QED  BY <1>4, <1>5, <1>6

LEMMA QueuedLess ==
    ASSUME events \in Seq(Event), events # << >>, NEW b \in Seq(Event),
           events' = Tail(events) \o b
    PROVE  Head(events) \in Queued /\ Queued' \subseteq Queued \cup Items(b)
  <1>1. ASSUME NEW i \in DOMAIN events'
        PROVE  \/ i + 1 \in DOMAIN events /\ events'[i] = events[i + 1]
               \/ i - Len(events) + 1 \in DOMAIN b /\ events'[i] = b[i - Len(events) + 1]
    BY <1>1
  <1>2. 1 \in DOMAIN events /\ Head(events) = events[1]  OBVIOUS
  <1>3. QED  BY <1>1, <1>2 DEF Queued, Items

LEMMA PlainOnes ==
    /\ Items(<< >>) = {}
    /\ \A e : Items(<<e>>) = {e}
    /\ \A q : \A s \in Selection, ok \in BOOLEAN :
           \A e \in Items(NotifySelf(q, s, ok)) : e.type = "notify"
    /\ \A s \in Selection : \A w : \A e \in Items(OwnerEvents(s, w)) : e.type = "owner"
    /\ \A a \in Seq(Event), b \in Seq(Event) : Items(a \o b) = Items(a) \cup Items(b)
  <1>1. Items(<< >>) = {}  BY DEF Items
  <1>2. \A e : Items(<<e>>) = {e}  BY DEF Items
  <1>3. \A q : \A s \in Selection, ok \in BOOLEAN :
            \A e \in Items(NotifySelf(q, s, ok)) : e.type = "notify"
    <2> TAKE q
    <2> TAKE s \in Selection, ok \in BOOLEAN
    <2>1. Notify(s, ok).type = "notify"  BY DEF Notify
    <2>2. \A e \in Items(<<Notify(s, ok)>>) : e.type = "notify"  BY <1>2, <2>1
    <2>3. QED  BY <1>1, <2>2 DEF NotifySelf
  <1>4. \A s \in Selection : \A w : \A e \in Items(OwnerEvents(s, w)) : e.type = "owner"
    <2> TAKE s \in Selection
    <2> TAKE w
    <2> DEFINE n == [type |-> "owner", sel |-> s]
    <2>1. n.type = "owner"  OBVIOUS
    <2>2. OwnerEvents(s, w) \in {<< >>, <<n>>, <<n, n>>}  BY DEF OwnerEvents
    <2> HIDE DEF n
    <2>3. Items(<<n, n>>) = {n}  BY DEF Items
    <2>4. QED  BY <1>1, <1>2, <2>1, <2>2, <2>3
  <1>5. ASSUME NEW a \in Seq(Event), NEW b \in Seq(Event)
        PROVE  Items(a \o b) = Items(a) \cup Items(b)
    <2>1. ASSUME NEW i \in DOMAIN (a \o b)
          PROVE  \/ i \in DOMAIN a /\ (a \o b)[i] = a[i]
                 \/ i - Len(a) \in DOMAIN b /\ (a \o b)[i] = b[i - Len(a)]
      BY <2>1
    <2>2. ASSUME NEW i \in DOMAIN a
          PROVE  i \in DOMAIN (a \o b) /\ (a \o b)[i] = a[i]
      BY <2>2
    <2>3. ASSUME NEW i \in DOMAIN b
          PROVE  i + Len(a) \in DOMAIN (a \o b) /\ (a \o b)[i + Len(a)] = b[i]
      BY <2>3
    <2>4. ASSUME NEW e \in Items(a \o b)
          PROVE  e \in Items(a) \cup Items(b)
      <3>1. PICK i \in DOMAIN (a \o b) : e = (a \o b)[i]  BY DEF Items
      <3>2. QED  BY <2>1, <3>1 DEF Items
    <2>5. Items(a) \subseteq Items(a \o b)  BY <2>2 DEF Items
    <2>6. Items(b) \subseteq Items(a \o b)  BY <2>3 DEF Items
    <2>7. QED  BY <2>4, <2>5, <2>6
  <1>6. QED  BY <1>1, <1>2, <1>3, <1>4, <1>5

(* An owner is asked nothing new. *)
LEMMA AskedKept ==
    ASSUME AskedFits, NoSelf, requested' = requested,
           \A c \in Client : \A q \in asked'[c] : q.of = "root" => q \in asked[c],
           \A s \in Selection : request'[s] # NoRequest =>
               request'[s] = request[s] /\ owner'[s] \in {owner[s], Null},
           asked' \in [Client -> SUBSET Asked(Client \cup {"root", Null})]
    PROVE  AskedFits'
  <1> SUFFICES ASSUME NEW c \in Client, NEW q \in asked'[c], q.of = "root"
               PROVE  /\ \A d \in Client : \A p \in asked'[d] :
                             p.of = "root" => d = c /\ p = q
                      /\ \A e \in Queued' : e.type # "self"
                      /\ request'[q.sel] # NoRequest =>
                             /\ requested' = q.sel /\ owner'[q.sel] \in {c, Null}
                             /\ q.id = request'[q.sel].id
    BY DEF AskedFits
  <1>1. q \in asked[c]  OBVIOUS
  <1>2. q.sel \in Selection  BY DEF Asked
  <1>3. QED  BY <1>1, <1>2 DEF AskedFits, NoSelf

(* Nothing new is written. *)
LEMMA WrittenKept ==
    ASSUME WrittenFits, NoSelf, events' \in Seq(Event),
           \A s \in Selection : request'[s] # NoRequest /\ owner'[s] # Null =>
               /\ request'[s] = request[s] /\ owner'[s] = owner[s]
               /\ cut'[owner[s]] = cut[owner[s]]
    PROVE  WrittenFits'
  <1> SUFFICES ASSUME NEW e \in Queued', e.type = "self", request'[e.sel] # NoRequest,
                      owner'[e.sel] # Null
               PROVE  cut'[owner'[e.sel]] = [id |-> request'[e.sel].id, by |-> owner'[e.sel]]
    BY DEF WrittenFits, IsLocalOwner
  <1>1. e \in Queued  BY DEF NoSelf
  <1>2. e.sel \in Selection
    <2>1. e \in Event  BY DEF Queued, Items
    <2>2. QED  BY <2>1 DEF Event
  <1>3. QED  BY <1>1, <1>2 DEF WrittenFits, IsLocalOwner

LastKept == \A s \in Selection : last'[s] # Idle => last[s] # Idle /\ last'[s].id = last[s].id

(* What is under way is still for the local request, as it is before the step. *)
MeantOnly ==
    /\ \A q \in real'.conversions : Meant(q.id)
    /\ real'.buffer # Nothing => Meant(real'.buffer.id)
    /\ \A e \in Queued' :
           \/ e \in Queued \/ e.type \notin {"request", "collected"}
           \/ e.type = "request" /\ (e.of = "agent" => Meant(e.id))
           \/ e.type = "collected" /\ (e.data # Nothing => Meant(e.data.id))

LEMMA UnderWayKept ==
    ASSUME UnderWayFits, LastKept, MeantOnly,
           \A s \in Selection : request'[s].of = "agent" => Meant(request'[s].id)
    PROVE  UnderWayFits'
  <1> DEFINE Then(x) == \A s \in Selection : last'[s] # Idle => last'[s].id = x
             Fine(e) == /\ e.type = "request" /\ e.of = "agent" => Meant(e.id)
                        /\ e.type = "collected" /\ e.data # Nothing => Meant(e.data.id)
             FineNext(e) == /\ e.type = "request" /\ e.of = "agent" => Then(e.id)
                            /\ e.type = "collected" /\ e.data # Nothing => Then(e.data.id)
  <1>1. \A x : Meant(x) => Then(x)  BY DEF Meant, LastKept
  <1>2. \A e \in Queued' : Fine(e)  BY DEF UnderWayFits, MeantOnly
  <1>3. \A e : Fine(e) => FineNext(e)  BY <1>1
  <1>4. \A e \in Queued' : FineNext(e)  BY <1>2, <1>3
  <1>5. \A q \in real'.conversions : Then(q.id)  BY <1>1 DEF MeantOnly
  <1>6. real'.buffer # Nothing => Then(real'.buffer.id)  BY <1>1 DEF MeantOnly
  <1>7. \A s \in Selection : request'[s].of = "agent" => Then(request'[s].id)
    BY <1>1
  <1>8. QED  BY <1>4, <1>5, <1>6, <1>7 DEF UnderWayFits, Meant

LEMMA MeantSame ==
    ASSUME UnderWayFits, real'.conversions \subseteq real.conversions,
           real'.buffer = real.buffer \/ real'.buffer = Nothing, NoNews
    PROVE  MeantOnly
  BY DEF UnderWayFits, MeantOnly, NoNews

(* A selection stays where it is, or is given up, or has a new owner, who is  *)
(* not asked yet.                                                             *)
OwnerKept(s) ==
    \/ owner'[s] = owner[s] /\ (dix'[s] = dix[s] \/ owner[s] = Null)
    \/ owner'[s] = Null
    \/ /\ dix'[s] = owner'[s] /\ option.clipboard # "none"
       /\ request'[s] = NoRequest /\ last'[s] = Idle

LEMMA CachesKept ==
    ASSUME CachesFit, excuses \subseteq excuses',
           \A s \in Selection : cache'[s] = Empty \/ (cache'[s] = cache[s] /\ owner'[s] = owner[s])
    PROVE  CachesFit'
  BY DEF CachesFit, IsLocalOwner, Empty

(* A step that asks no owner and takes no answer of one. *)
LEMMA Continued ==
    ASSUME ExchangeInv, TypeOK', CachesFit', option' = option, excuses \subseteq excuses',
           requested' = requested, NoSelf, LastKept,
           \A s \in Selection :
               /\ OwnerKept(s)
               /\ request'[s] = request[s] \/ request'[s] = NoRequest
               /\ request'[s] # NoRequest /\ owner'[s] # Null => cut'[owner[s]] = cut[owner[s]],
           \A c \in Client : \A q \in asked'[c] : q.of = "root" => q \in asked[c],
           Clear' => MeantOnly
    PROVE  ExchangeInv'
  <1> USE TypeParts DEF ExchangeInv
  <1>1. OwnersKept'
    BY DEF OwnersKept, OwnerKept, LastKept, IsLocalOwner, Claims
  <1>2. Clear' => Clear  BY DEF Clear
  <1>3. \A s \in Selection : request'[s] # NoRequest =>
            request'[s] = request[s] /\ owner'[s] \in {owner[s], Null}
    BY DEF OwnerKept
  <1>4. asked' \in [Client -> SUBSET Asked(Client \cup {"root", Null})]
        /\ events' \in Seq(Event)
    BY TypePartsPrimed
  <1>5. Clear' => AskedFits'  BY <1>2, <1>3, <1>4, AskedKept
  <1>6. Clear' => WrittenFits'
    <2>1. \A s \in Selection : request'[s] # NoRequest /\ owner'[s] # Null =>
              /\ request'[s] = request[s] /\ owner'[s] = owner[s]
              /\ cut'[owner[s]] = cut[owner[s]]
      BY <1>3
    <2>2. QED  BY <1>2, <1>4, <2>1, WrittenKept
  <1>7. Clear' => UnderWayFits'
    <2>1. NoRequest.of # "agent"  BY ClipboardAssumption DEF NoRequest
    <2>2. \A s \in Selection : request'[s].of = "agent" => request'[s] = request[s]
      BY <2>1
    <2>3. Clear => \A s \in Selection : request'[s].of = "agent" => Meant(request'[s].id)
      BY <2>2 DEF UnderWayFits
    <2>4. QED  BY <1>2, <2>3, UnderWayKept
  <1>8. QED  BY <1>1, <1>5, <1>6, <1>7

LEMMA AppendOne ==
    \A a \in Seq(Event), e \in Event : Append(a, e) = a \o <<e>> /\ <<e>> \in Seq(Event)
  <1> SUFFICES ASSUME NEW a \in Seq(Event), NEW e \in Event, NEW b, b = Append(a, e)
               PROVE  b = a \o <<e>>
    OBVIOUS
  <1>1. QED  OBVIOUS

(* What is told has the data of its request. *)
Rightly(answers) == \A a \in answers : a.ok => a.data.id = a.id

LEMMA TellRight ==
    ASSUME NEW w, NEW answers, Tell(w, answers), Clear' => Rightly(answers)
    PROVE  RightAnswers'
  <1>1. \A a \in told' : a.answer \in answers  BY DEF Tell
  <1>2. QED  BY <1>1 DEF RightAnswers, Rightly, Clear

LEMMA AnswerParts ==
    /\ \A q, ok, d : \A a \in Answer(q, ok, d) :
           a.to = q.of /\ a.id = q.id /\ a.ok = ok /\ a.data = d
    /\ \A q, d : Rightly(Answer(q, FALSE, d))
    /\ \A q, d : d.id = q.id => Rightly(Answer(q, TRUE, d))
    /\ \A a, b : Rightly(a) /\ Rightly(b) => Rightly(a \cup b)
    /\ Rightly({}) /\ \A S : Rightly(Refusals(S))
  BY DEF Answer, Rightly, Refusals

LEMMA NoNewEvents ==
    ASSUME events' = events
    PROVE  NoNews /\ NoSelf
  <1>1. Queued' = Queued  BY DEF Queued
  <1>2. QED  BY <1>1 DEF NoNews, NoSelf

LEMMA NoNewsNoSelf ==
    ASSUME NoNews
    PROVE  NoSelf
  BY DEF NoNews, NoSelf

(* A local request that the agent answers, or that another client answers. *)
LEMMA ConvertInsideExchange ==
    ASSUME ExchangeInv, NEW c \in Client, NEW s \in Selection, NEW t \in Target,
           \/ ConvertLocally(c, s, t) \/ ConvertRefused(c, s, t) \/ ConvertAnswered(c, s, t)
    PROVE  ExchangeInv' /\ RightAnswers'
  <1> USE TypeParts DEF ExchangeInv
  <1>1. /\ UNCHANGED <<option, dix, owner, request, requested, cache, cut, real, events, excuses>>
        /\ Asks(c, t)
    BY DEF ConvertLocally, ConvertRefused, ConvertAnswered, agent
  <1>2. TypeOK'
    BY ConvertLocallyType, ConvertRefusedType, ConvertAnsweredType
  <1>3. LastKept
    BY DEF ConvertLocally, ConvertRefused, ConvertAnswered, agent, LastKept
  <1>4. \A d \in Client : \A q \in asked'[d] : q.of = "root" => q \in asked[d]
    <2>1. CASE ConvertLocally(c, s, t)
      <3> DEFINE n == [sel |-> s, id |-> moves + 1, of |-> c, target |-> t]
      <3>1. n.of # "root"  BY ClipboardAssumption
      <3>2. \/ asked' = asked
            \/ /\ dix[s] \in Client
               /\ asked' = [asked EXCEPT ![dix[s]] = @ \cup {n}]
        BY <2>1 DEF ConvertLocally
      <3> HIDE DEF n
      <3>3. ASSUME NEW d \in Client, NEW q \in asked'[d], q.of = "root"
            PROVE  q \in asked[d]
        <4>1. q # n  BY <3>1, <3>3
        <4>2. asked'[d] \subseteq asked[d] \cup {n}  BY <3>2
        <4>3. QED  BY <4>1, <4>2
      <3>4. QED  BY <3>3
    <2>2. CASE ConvertRefused(c, s, t) \/ ConvertAnswered(c, s, t)
      BY <2>2 DEF ConvertRefused, ConvertAnswered
    <2>3. QED  BY <2>1, <2>2
  <1>5. NoNews /\ NoSelf  BY <1>1, NoNewEvents
  <1>6. CachesFit'  BY <1>1, CachesKept
  <1>7. Clear' => MeantOnly  BY <1>1, <1>5, MeantSame DEF Clear
  <1>8. ExchangeInv'
    BY <1>1, <1>2, <1>3, <1>4, <1>5, <1>6, <1>7, Continued DEF OwnerKept
  <1>9. RightAnswers'
    <2>1. CASE ConvertLocally(c, s, t) \/ ConvertRefused(c, s, t)
      <3>1. \E answers : Told(c, t, answers) /\ Rightly(answers)
        BY <2>1, AnswerParts DEF ConvertLocally, ConvertRefused
      <3>2. QED  BY <3>1, TellRight DEF Told
    <2>2. CASE ConvertAnswered(c, s, t)
      <3> DEFINE d == [id |-> moves + 1, by |-> cache[s].by]
                 w == Wanted(c, t)
      <3>1. d.id = w.id  BY DEF Wanted
      <3>2. Rightly(Overdue(s))  BY AnswerParts DEF Overdue
      <3>3. CASE t = "TARGETS"
        <4>1. Told(c, t, Overdue(s) \cup Answer(w, TRUE, d))
          BY <2>2, <3>3 DEF ConvertAnswered
        <4> HIDE DEF d, w
        <4>2. Rightly(Overdue(s) \cup Answer(w, TRUE, d))  BY <3>1, <3>2, AnswerParts
        <4>3. QED  BY <4>1, <4>2, TellRight DEF Told
      <3>4. CASE t # "TARGETS"
        <4>1. Told(c, t, Overdue(s) \cup Answer(w, FALSE, Nothing))
          BY <2>2, <3>4 DEF ConvertAnswered
        <4> HIDE DEF w
        <4>2. Rightly(Overdue(s) \cup Answer(w, FALSE, Nothing))  BY <3>2, AnswerParts
        <4>3. QED  BY <4>1, <4>2, TellRight DEF Told
      <3>5. QED  BY <3>3, <3>4
    <2>3. QED  BY <2>1, <2>2
  <1>10. QED  BY <1>8, <1>9

(* A local request that is passed on. *)
LEMMA ConvertSelectionExchange ==
    ASSUME ExchangeInv, NEW c \in Client, NEW s \in Selection, NEW t \in Target,
           ConvertSelection(c, s, t)
    PROVE  ExchangeInv' /\ RightAnswers'
  <1> USE TypeParts DEF ExchangeInv
  <1> DEFINE n == moves + 1
             q == [sel |-> s, id |-> n, of |-> Null, target |-> t]
             e == [type |-> "request", sel |-> s, id |-> n, of |-> "agent", target |-> t]
             o == real.owner[s]
  <1>1. /\ UNCHANGED <<option, dix, owner, request, requested, cache, cut, asked>>
        /\ Asks(c, t) /\ Foreign(s) /\ Told(c, t, Overdue(s))
        /\ excuses' = excuses \cup (IF Unfinished(s) THEN {"mixed"} ELSE {})
        /\ XConvertSelection(s, q)
    BY DEF ConvertSelection
  <1>2. TypeOK'  BY ConvertSelectionType
  <1>3. /\ last'[s].id = n
        /\ \A r \in Selection : r # s => last'[r] = last[r]
    BY DEF ConvertSelection
  <1>4. ~ IsLocalOwner(s)  BY <1>1 DEF Foreign
  <1>5. OwnersKept'  BY <1>1, <1>3, <1>4 DEF OwnersKept, IsLocalOwner, Claims
  <1>6. CachesFit'  BY <1>1, CachesKept
  <1>7. /\ real'.buffer = Nothing
        /\ real'.conversions = IF o \in Remote THEN real.conversions \cup {[q EXCEPT !.of = o]}
                               ELSE real.conversions
    BY <1>1 DEF XConvertSelection, RealType
  <1>8. n \in Nat  BY ClipboardAssumption
  <1>9. \A f \in Queued' : f \in Queued \/ f.type = "notify" \/ f = e
    <2>1. events' = CASE o = Null -> Append(events, Notify(s, FALSE))
                      [] o = "agent" -> Append(events, e)
                      [] OTHER -> events
      BY <1>1 DEF XConvertSelection
    <2> DEFINE m == Notify(s, FALSE)
    <2>2. m.type = "notify" /\ m \in Event /\ e \in Event  BY <1>8, EventTypes DEF Notify
    <2>3. Null # "agent"  BY ClipboardAssumption
    <2> HIDE DEF e, o, m
    <2>4. events' = Append(events, m) \/ events' = Append(events, e) \/ events' = events
      <3>1. CASE o = Null  BY <2>1, <2>3, <3>1 DEF m
      <3>2. CASE o = "agent"  BY <2>1, <2>3, <3>2
      <3>3. CASE o # Null /\ o # "agent"  BY <2>1, <3>3
      <3>4. QED  BY <3>1, <3>2, <3>3
    <2>5. events' = events \o <<m>> \/ events' = events \o <<e>> \/ events' = events
      BY <2>2, <2>4, AppendOne
    <2>6. <<m>> \in Seq(Event) /\ <<e>> \in Seq(Event)  BY <2>2
    <2>7. CASE events' = events  BY <2>7 DEF Queued
    <2>8. CASE events' = events \o <<m>>
      <3>1. Queued' = Queued \cup {m}  BY <2>6, <2>8, QueuedMore, PlainOnes
      <3>2. QED  BY <2>2, <3>1
    <2>9. CASE events' = events \o <<e>>
      <3>1. Queued' = Queued \cup {e}  BY <2>6, <2>9, QueuedMore, PlainOnes
      <3>2. QED  BY <3>1
    <2>10. QED  BY <2>5, <2>7, <2>8, <2>9
  <1>10. e.type = "request" /\ e.id = n  OBVIOUS
  <1> HIDE DEF e
  <1>11. NoSelf  BY <1>9, <1>10 DEF NoSelf
  <1>12. Clear' => Clear /\ ~ Unfinished(s)  BY <1>1 DEF Clear
  <1>13. asked' \in [Client -> SUBSET Asked(Client \cup {"root", Null})]
         /\ events' \in Seq(Event)
    BY <1>2, TypePartsPrimed
  <1>14. Clear' => AskedFits'
    BY <1>1, <1>11, <1>12, <1>13, AskedKept
  <1>15. Clear' => WrittenFits'
    BY <1>1, <1>11, <1>12, <1>13, WrittenKept
  <1>16. Clear' => UnderWayFits'
    <2> SUFFICES ASSUME ~ Unfinished(s)
                 PROVE  UnderWayFits'
      BY <1>12
    <2>1. real.conversions = {} /\ \A r \in Selection : request[r].of # "agent"
      BY DEF Unfinished
    <2>2. \A r \in Selection : last'[r] # Idle => last'[r].id = n
      BY <1>3 DEF Unfinished
    <2>3. \A f \in Queued : f.type # "collected" /\ (f.type = "request" => f.of # "agent")
      BY DEF Unfinished, Queued, Items
    <2>4. \A f \in real'.conversions : f.id = n  BY <1>7, <2>1
    <2>5. \A f \in Queued' : /\ f.type = "request" /\ f.of = "agent" => f.id = n
                             /\ f.type # "collected"
      BY <1>9, <1>10, <2>3
    <2>6. \A r \in Selection : request'[r].of # "agent"  BY <1>1, <2>1
    <2> HIDE DEF n
    <2>7. QED  BY <1>7, <2>2, <2>4, <2>5, <2>6 DEF UnderWayFits, Meant
  <1>17. RightAnswers'
    <2>1. Rightly(Overdue(s))  BY AnswerParts DEF Overdue
    <2>2. QED  BY <1>1, <2>1, TellRight DEF Told
  <1>18. QED  BY <1>2, <1>5, <1>6, <1>14, <1>15, <1>16, <1>17

(* The events of a change of owners are news of owners and of transfers. *)
LEMMA NewOwnersNews ==
    ASSUME TypeOK, NEW S \in SUBSET Selection, NEW w, SetSelectionOwnerOnXServer(S, w)
    PROVE  NoNews
  <1> USE TypeParts
  <1> DEFINE x == IF w = Null THEN Null ELSE "agent"
             Sent(s) == IF s \in S THEN NotifySelf(request[s], s, FALSE) \o OwnerEvents(s, x)
                        ELSE << >>
             Fine(b) == b \in Seq(Event) /\ \A e \in Items(b) : e.type \in {"owner", "notify"}
  <1>1. events' = events \o Sent(0) \o Sent(1)
    BY DEF SetSelectionOwnerOnXServer
  <1>2. \A a, b : Fine(a) /\ Fine(b) => Fine(a \o b)
    <2> SUFFICES ASSUME NEW a, NEW b, Fine(a), Fine(b)
                 PROVE  Fine(a \o b)
      OBVIOUS
    <2>1. a \o b \in Seq(Event)  BY ConcatType
    <2>2. Items(a \o b) = Items(a) \cup Items(b)  BY PlainOnes
    <2>3. QED  BY <2>1, <2>2
  <1>3. \A s \in Selection : Fine(Sent(s))
    <2> SUFFICES ASSUME NEW s \in Selection
                 PROVE  Fine(Sent(s))
      OBVIOUS
    <2>1. Fine(NotifySelf(request[s], s, FALSE))  BY NotifySelfType, PlainOnes
    <2>2. Fine(OwnerEvents(s, x))  BY OwnerEventsType, PlainOnes
    <2>3. Fine(<< >>)  BY PlainOnes
    <2> HIDE DEF x, Fine
    <2>4. QED  BY <1>2, <2>1, <2>2, <2>3
  <1>4. 0 \in Selection /\ 1 \in Selection  BY DEF Selection
  <1>5. Fine(Sent(0)) /\ Fine(Sent(1))  BY <1>3, <1>4
  <1>6. Sent(0) \in Seq(Event) /\ Sent(1) \in Seq(Event)  BY <1>5
  <1>7. Fine(Sent(0) \o Sent(1))
    <2> HIDE DEF Sent, Fine
    <2>1. QED  BY <1>2, <1>5
  <1> DEFINE b == Sent(0) \o Sent(1)
  <1>8. events' = events \o b
    <2> HIDE DEF Sent
    <2>1. QED  BY <1>1, <1>6
  <1>9. b \in Seq(Event) /\ \A e \in Items(b) : e.type \in {"owner", "notify"}  BY <1>7
  <1> HIDE DEF b
  <1>10. Queued' = Queued \cup Items(b)  BY <1>8, <1>9, QueuedMore
  <1>11. QED  BY <1>9, <1>10 DEF NoNews

LEMMA SetSelectionOwnerExchange ==
    ASSUME ExchangeInv, NEW s \in Selection, NEW w \in Client \cup {Null},
           SetSelectionOwner(s, w)
    PROVE  ExchangeInv' /\ RightAnswers'
  <1> USE TypeParts DEF ExchangeInv
  <1>1. /\ UNCHANGED <<option, requested, cut, asked>>
        /\ dix' = [dix EXCEPT ![s] = w] /\ cache' = [cache EXCEPT ![s] = Empty]
    BY DEF SetSelectionOwner
  <1>2. TypeOK'  BY SetSelectionOwnerType
  <1>3. CASE option.clipboard = "none"
    <2>1. UNCHANGED <<owner, last, request, real, events, excuses>> /\ Tell(waiting, {})
      BY <1>3 DEF SetSelectionOwner
    <2>2. NoNews /\ NoSelf  BY <2>1, NoNewEvents
    <2>3. CachesFit'  BY <1>1, <2>1, CachesKept
    <2>4. Clear' => MeantOnly  BY <2>1, <2>2, MeantSame DEF Clear
    <2>5. \A r \in Selection : owner[r] = Null  BY <1>3 DEF OwnersKept, IsLocalOwner
    <2>6. ExchangeInv'
      BY <1>1, <1>2, <2>1, <2>2, <2>3, <2>4, <2>5, Continued DEF OwnerKept, LastKept
    <2>7. RightAnswers'  BY <2>1, AnswerParts, TellRight
    <2>8. QED  BY <2>6, <2>7
  <1>4. CASE option.clipboard # "none"
    <2>1. /\ SetSelectionOwnerOnXServer({s}, w) /\ last' = [last EXCEPT ![s] = Idle]
          /\ Tell(waiting, Refusals({s})) /\ excuses \subseteq excuses'
      BY <1>4 DEF SetSelectionOwner
    <2>2. /\ owner' = At(owner, {s}, w) /\ request' = At(request, {s}, NoRequest)
          /\ real'.buffer = real.buffer /\ real'.conversions = real.conversions
      BY <2>1 DEF SetSelectionOwnerOnXServer, RealType
    <2>3. NoNews
      <3>1. {s} \in SUBSET Selection  OBVIOUS
      <3>2. QED  BY <2>1, <3>1, NewOwnersNews
    <2>4. NoSelf  BY <2>3, NoNewsNoSelf
    <2>5. CachesFit'  BY <1>1, <2>1, <2>2, CachesKept DEF At
    <2>6. Clear' => MeantOnly  BY <2>1, <2>2, <2>3, MeantSame DEF Clear
    <2>7. LastKept  BY <2>1 DEF LastKept
    <2>8. ASSUME NEW r \in Selection
          PROVE  /\ OwnerKept(r)
                 /\ request'[r] = request[r] \/ request'[r] = NoRequest
      BY <1>1, <1>4, <2>1, <2>2 DEF OwnerKept, At
    <2>9. ExchangeInv'
      BY <1>1, <1>2, <2>1, <2>4, <2>5, <2>6, <2>7, <2>8, Continued
    <2>10. RightAnswers'  BY <2>1, AnswerParts, TellRight
    <2>11. QED  BY <2>9, <2>10
  <1>5. QED  BY <1>3, <1>4

LEMMA CloseDownClientExchange ==
    ASSUME ExchangeInv, NEW c \in Client, CloseDownClient(c)
    PROVE  ExchangeInv' /\ RightAnswers'
  <1> USE TypeParts DEF ExchangeInv
  <1> DEFINE S == {s \in Selection : owner[s] = c}
             D == {s \in Selection : dix[s] = c}
             R == S \cup {s \in Selection : last[s].of = c}
  <1>1. /\ UNCHANGED <<option, requested>> /\ excuses \subseteq excuses'
        /\ SetSelectionOwnerOnXServer(S, Null) /\ last' = At(last, R, Idle)
        /\ \E v : Tell(v, Refusals(S))
        /\ dix' = At(dix, D, Null) /\ cache' = At(cache, D, Empty)
        /\ cut' = [cut EXCEPT ![c] = Nothing]
        /\ asked' = [d \in Client |->
                       IF d = c THEN {}
                       ELSE {[q EXCEPT !.of = IF @ = c THEN Null ELSE @] : q \in asked[d]}]
    BY DEF CloseDownClient
  <1>2. TypeOK'  BY CloseDownClientType
  <1>3. S \in SUBSET Selection  OBVIOUS
  <1>4. c # Null  BY ClipboardAssumption
  <1>5. \A s \in Selection : owner[s] = c => dix[s] = c
    BY <1>4 DEF OwnersKept, IsLocalOwner
  <1>6. \A s \in Selection :
            /\ s \in S => owner'[s] = Null /\ request'[s] = NoRequest
            /\ s \notin S => owner'[s] = owner[s] /\ request'[s] = request[s]
            /\ s \in S => s \in D
    <2> HIDE DEF S
    <2>1. owner' = At(owner, S, Null) /\ request' = At(request, S, NoRequest)
      BY <1>1 DEF SetSelectionOwnerOnXServer
    <2>2. \A s \in Selection : s \in S => s \in D  BY <1>5 DEF S
    <2>3. QED  BY <2>1, <2>2 DEF At
  <1>7. real'.buffer = real.buffer /\ real'.conversions = real.conversions
    BY <1>1 DEF SetSelectionOwnerOnXServer, RealType
  <1>8. NoNews
    <2> HIDE DEF S
    <2>1. QED  BY <1>1, <1>3, NewOwnersNews
  <1>9. NoSelf  BY <1>8, NoNewsNoSelf
  <1>10. CachesFit'
    <2>1. \A s \in Selection : cache'[s] = IF s \in D THEN Empty ELSE cache[s]
      BY <1>1 DEF At
    <2> HIDE DEF S, D
    <2>2. \A s \in Selection : cache'[s] = Empty \/ (cache'[s] = cache[s] /\ owner'[s] = owner[s])
      BY <1>6, <2>1
    <2>3. QED  BY <1>1, <2>2, CachesKept
  <1>11. LastKept
    <2> HIDE DEF R
    <2>1. QED  BY <1>1 DEF LastKept, At
  <1>12. ASSUME NEW s \in Selection
         PROVE  /\ OwnerKept(s)
                /\ request'[s] = request[s] \/ request'[s] = NoRequest
                /\ request'[s] # NoRequest /\ owner'[s] # Null => cut'[owner[s]] = cut[owner[s]]
    <2>1. CASE s \in S
      <3>1. owner'[s] = Null /\ request'[s] = NoRequest  BY <1>6, <2>1
      <3>2. QED  BY <3>1 DEF OwnerKept
    <2>2. CASE s \notin S
      <3>1. owner'[s] = owner[s] /\ request'[s] = request[s] /\ owner[s] # c
        BY <1>6, <2>2
      <3>2. dix'[s] = dix[s] \/ owner[s] = Null
        <4>1. dix[s] # c \/ owner[s] = Null  BY <3>1 DEF OwnersKept, IsLocalOwner
        <4>2. QED  BY <1>1, <4>1 DEF At
      <3>3. cut'[owner[s]] = cut[owner[s]]  BY <1>1, <3>1
      <3>4. QED  BY <3>1, <3>2, <3>3 DEF OwnerKept
    <2>3. QED  BY <2>1, <2>2
  <1>13. ASSUME NEW d \in Client, NEW q \in asked'[d], q.of = "root"
         PROVE  q \in asked[d]
    <2>1. PICK p \in asked[d] : q = [p EXCEPT !.of = IF @ = c THEN Null ELSE @]
      BY <1>1
    <2>2. p \in Asked(Client \cup {"root", Null})  OBVIOUS
    <2>3. q.of = IF p.of = c THEN Null ELSE p.of  BY <2>1, <2>2 DEF Asked
    <2>4. p.of = q.of  BY <1>13, <2>3, ClipboardAssumption
    <2>5. q = [p EXCEPT !.of = p.of]  BY <1>13, <2>1, <2>3, <2>4
    <2>6. QED  BY <2>2, <2>5 DEF Asked
  <1>14. Clear' => MeantOnly  BY <1>1, <1>7, <1>8, MeantSame DEF Clear
  <1>15. ExchangeInv'
    BY <1>1, <1>2, <1>9, <1>10, <1>11, <1>12, <1>13, <1>14, Continued
  <1>16. RightAnswers'
    <2>1. PICK v : Tell(v, Refusals(S))  BY <1>1
    <2> HIDE DEF S
    <2>2. QED  BY <2>1, AnswerParts, TellRight
  <1>17. QED  BY <1>15, <1>16

LEMMA LocalAnswersExchange ==
    ASSUME ExchangeInv, NEW c \in Client, NEW q, LocalAnswers(c, q)
    PROVE  ExchangeInv' /\ RightAnswers'
  <1> USE TypeParts DEF ExchangeInv
  <1> DEFINE data == [id |-> q.id, by |-> c]
             s == q.sel
             e == [type |-> "self", sel |-> s]
  <1>1. /\ UNCHANGED <<option, dix, owner, last, request, requested, cache, real, excuses>>
        /\ q \in asked[c] /\ asked' = [asked EXCEPT ![c] = @ \ {q}]
    BY DEF LocalAnswers, agent
  <1>2. TypeOK'  BY OwnersAnswerType
  <1>3. q \in Asked(Client \cup {"root", Null})  BY <1>1
  <1>4. s \in Selection  BY <1>3 DEF Asked
  <1>5. CachesFit'  BY <1>1, CachesKept
  <1>6. LastKept  BY <1>1 DEF LastKept
  <1>7. CASE q.of # "root"
    <2>1. UNCHANGED <<cut, events>> /\ Tell(waiting, Answer(q, TRUE, data))
      BY <1>7 DEF LocalAnswers
    <2>2. NoNews /\ NoSelf  BY <2>1, NoNewEvents
    <2>3. Clear' => MeantOnly  BY <1>1, <2>2, MeantSame DEF Clear
    <2>4. ExchangeInv'
      BY <1>1, <1>2, <1>5, <1>6, <2>1, <2>2, <2>3, Continued DEF OwnerKept
    <2>5. Rightly(Answer(q, TRUE, data))  BY AnswerParts
    <2>6. QED  BY <2>1, <2>4, <2>5, TellRight
  <1>8. CASE q.of = "root"
    <2>1. /\ cut' = Written(data) /\ Tell(waiting, {})
          /\ events' = IF request[s] = NoRequest THEN events ELSE Append(events, e)
      BY <1>8 DEF LocalAnswers
    <2>2. OwnersKept'  BY <1>1 DEF OwnersKept, IsLocalOwner, Claims
    <2>3. /\ Queued \subseteq Queued'
          /\ \A f \in Queued' : f \in Queued \/ (f = e /\ request[s] # NoRequest)
      <3>1. e \in Event  BY <1>4, EventTypes
      <3> HIDE DEF e
      <3>2. CASE request[s] = NoRequest  BY <2>1, <3>2 DEF Queued
      <3>3. CASE request[s] # NoRequest
        <4>1. events' = events \o <<e>> /\ <<e>> \in Seq(Event)
          BY <2>1, <3>1, <3>3, AppendOne
        <4>2. Queued' = Queued \cup {e}  BY <4>1, QueuedMore, PlainOnes
        <4>3. QED  BY <3>3, <4>2
      <3>4. QED  BY <3>2, <3>3
    <2>4. Clear' => Clear  BY <1>1 DEF Clear
    <2>5. ASSUME Clear
          PROVE  /\ \A d \in Client : \A p \in asked'[d] : p.of # "root"
                 /\ \A f \in Queued : f.type # "self"
                 /\ request[s] # NoRequest /\ IsLocalOwner(s) =>
                        requested = s /\ owner[s] = c /\ q.id = request[s].id
      <3>1. /\ \A d \in Client : \A p \in asked[d] : p.of = "root" => d = c /\ p = q
            /\ \A f \in Queued : f.type # "self"
            /\ request[s] # NoRequest =>
                 requested = s /\ owner[s] \in {c, Null} /\ q.id = request[s].id
        BY <1>1, <1>8, <2>5 DEF AskedFits
      <3>2. \A d \in Client : \A p \in asked'[d] : p \in asked[d] /\ (d = c => p # q)
        BY <1>1
      <3>3. QED  BY <3>1, <3>2 DEF IsLocalOwner
    <2>6. Clear' => AskedFits'  BY <2>4, <2>5 DEF AskedFits
    <2>7. ASSUME Clear
          PROVE  WrittenFits'
      <3> SUFFICES ASSUME NEW f \in Queued', f.type = "self", request[f.sel] # NoRequest,
                          IsLocalOwner(f.sel)
                   PROVE  cut'[owner[f.sel]] = [id |-> request[f.sel].id, by |-> owner[f.sel]]
        BY <1>1 DEF WrittenFits, IsLocalOwner
      <3>1. f = e  BY <2>3, <2>5, <2>7
      <3>2. requested = s /\ owner[s] = c /\ q.id = request[s].id /\ IsLocalOwner(s)
        BY <2>5, <2>7, <3>1
      <3>3. cut' = [cut EXCEPT ![c] = data]  BY <1>4, <2>1, <3>2 DEF Written
      <3>4. QED  BY <3>1, <3>2, <3>3
    <2>8. ASSUME Clear
          PROVE  UnderWayFits'
      <3>1. \A f \in Queued' : f \in Queued \/ f.type \notin {"request", "collected"}
        BY <2>3
      <3>2. MeantOnly  BY <1>1, <2>8, <3>1 DEF MeantOnly, UnderWayFits
      <3>3. \A r \in Selection : request'[r].of = "agent" => Meant(request'[r].id)
        BY <1>1, <2>8 DEF UnderWayFits
      <3>4. QED  BY <1>6, <2>8, <3>2, <3>3, UnderWayKept
    <2>9. RightAnswers'  BY <2>1, AnswerParts, TellRight
    <2>10. QED  BY <1>2, <1>5, <2>2, <2>4, <2>6, <2>7, <2>8, <2>9
  <1>9. QED  BY <1>7, <1>8

LEMMA AddedPlain ==
    ASSUME events \in Seq(Event), NEW b \in Seq(Event), events' = events \o b,
           \A e \in Items(b) : e.type \in {"owner", "notify"}
    PROVE  NoNews /\ NoSelf
  <1>1. Queued' = Queued \cup Items(b)  BY QueuedMore
  <1>2. NoNews  BY <1>1 DEF NoNews
  <1>3. QED  BY <1>2, NoNewsNoSelf

LEMMA TakenPlain ==
    ASSUME events \in Seq(Event), NEW t, Received(t), NEW b \in Seq(Event),
           events' = Tail(events) \o b, \A e \in Items(b) : e.type \in {"owner", "notify"}
    PROVE  NoNews /\ NoSelf
  <1>1. events # << >>  BY DEF Received
  <1>2. Queued' \subseteq Queued \cup Items(b)  BY <1>1, QueuedLess
  <1>3. NoNews  BY <1>2 DEF NoNews
  <1>4. QED  BY <1>3, NoNewsNoSelf

LEMMA TakenOnly ==
    ASSUME events \in Seq(Event), NEW t, Received(t), events' = Tail(events)
    PROVE  NoNews /\ NoSelf
  <1>1. Tail(events) \in Seq(Event)  BY HeadOfType
  <1>2. events' = Tail(events) \o << >> /\ << >> \in Seq(Event)  BY <1>1
  <1>3. QED  BY <1>2, PlainOnes, TakenPlain

LEMMA HeadQueued ==
    ASSUME events \in Seq(Event), NEW t, Received(t)
    PROVE  Head(events) \in Queued /\ Head(events).type = t
  BY DEF Received, Queued, Items

LEMMA LocalRefusesExchange ==
    ASSUME ExchangeInv, NEW c \in Client, NEW q, LocalRefuses(c, q)
    PROVE  ExchangeInv' /\ RightAnswers'
  <1> USE TypeParts DEF ExchangeInv
  <1> DEFINE r == request[q.sel]
             b == IF r # NoRequest THEN NotifySelf(r, q.sel, FALSE) ELSE << >>
  <1>1. /\ UNCHANGED <<option, dix, owner, last, requested, cache, cut, real>>
        /\ q \in asked[c] /\ asked' = [asked EXCEPT ![c] = @ \ {q}]
        /\ excuses \subseteq excuses'
        /\ request' = request \/ request' = [request EXCEPT ![q.sel] = NoRequest]
    BY DEF LocalRefuses
  <1>2. TypeOK'  BY OwnersAnswerType
  <1>3. q \in Asked(Client \cup {"root", Null})  BY <1>1
  <1>4. q.sel \in Selection  BY <1>3 DEF Asked
  <1>5. /\ b \in Seq(Event) /\ \A e \in Items(b) : e.type \in {"owner", "notify"}
    <2>1. CASE r # NoRequest
      <3>1. b = NotifySelf(r, q.sel, FALSE)  BY <2>1
      <3> HIDE DEF b, r
      <3>2. QED  BY <1>4, <3>1, NotifySelfType, PlainOnes
    <2>2. CASE r = NoRequest
      <3>1. b = << >>  BY <2>2
      <3> HIDE DEF b
      <3>2. QED  BY <3>1, PlainOnes
    <2>3. QED  BY <2>1, <2>2
  <1>6. events' = events \o b
    <2>1. CASE r # NoRequest  BY <2>1 DEF LocalRefuses
    <2>2. CASE r = NoRequest
      <3>1. events' = events  BY <2>2 DEF LocalRefuses
      <3>2. QED  BY <2>2, <3>1
    <2>3. QED  BY <2>1, <2>2
  <1> HIDE DEF b
  <1>7. NoNews /\ NoSelf  BY <1>5, <1>6, AddedPlain
  <1>8. CachesFit'  BY <1>1, CachesKept
  <1>9. Clear' => MeantOnly  BY <1>1, <1>7, MeantSame DEF Clear
  <1>10. ExchangeInv'
    BY <1>1, <1>2, <1>4, <1>7, <1>8, <1>9, Continued DEF OwnerKept, LastKept
  <1>11. \E answers : Tell(waiting, answers) /\ Rightly(answers)
    BY AnswerParts DEF LocalRefuses
  <1>12. QED  BY <1>10, <1>11, TellRight

LEMMA RemoteExchange ==
    ASSUME ExchangeInv,
           \/ \E s \in Selection, w \in Remote \cup {Null} : RemoteSetsOwner(s, w)
           \/ \E p \in Remote, s \in Selection, t \in Target : RemoteConverts(p, s, t)
    PROVE  ExchangeInv' /\ RightAnswers'
  <1> USE TypeParts DEF ExchangeInv
  <1>1. /\ UNCHANGED <<option, dix, owner, last, request, requested, cache, cut, asked, excuses>>
        /\ real'.buffer = real.buffer /\ real'.conversions = real.conversions
    BY DEF RemoteSetsOwner, RemoteConverts, agent, RealType
  <1>2. TypeOK'  BY RemoteSetsOwnerType, RemoteConvertsType
  <1>3. NoSelf /\ (Clear' => MeantOnly)
    <2>1. ASSUME NEW s \in Selection, NEW w \in Remote \cup {Null}, RemoteSetsOwner(s, w)
          PROVE  NoSelf /\ (Clear' => MeantOnly)
      <3>1. events' = events \o OwnerEvents(s, w)  BY <2>1 DEF RemoteSetsOwner
      <3>2. NoNews /\ NoSelf
        <4> DEFINE b == OwnerEvents(s, w)
        <4>1. b \in Seq(Event) /\ \A e \in Items(b) : e.type \in {"owner", "notify"}
          BY OwnerEventsType, PlainOnes
        <4>2. events' = events \o b  BY <3>1
        <4> HIDE DEF b
        <4>3. QED  BY <4>1, <4>2, AddedPlain
      <3>3. QED  BY <1>1, <3>2, MeantSame DEF Clear
    <2>2. ASSUME NEW p \in Remote, NEW s \in Selection, NEW t \in Target,
                 RemoteConverts(p, s, t)
          PROVE  NoSelf /\ (Clear' => MeantOnly)
      <3> DEFINE e == [type |-> "request", sel |-> s, id |-> moves + 1, of |-> p,
                       target |-> t]
      <3>1. moves + 1 \in Nat  BY ClipboardAssumption
      <3>2. e \in Event  BY <3>1, EventTypes
      <3>3. e.type = "request" /\ e.of # "agent"  BY ClipboardAssumption
      <3>4. events' = Append(events, e)  BY <2>2 DEF RemoteConverts
      <3> HIDE DEF e
      <3>5. events' = events \o <<e>> /\ <<e>> \in Seq(Event)  BY <3>2, <3>4, AppendOne
      <3>6. Queued' = Queued \cup {e}  BY <3>5, QueuedMore, PlainOnes
      <3>7. QED  BY <1>1, <3>3, <3>6 DEF NoSelf, MeantOnly, UnderWayFits, Clear
    <2>3. QED  BY <2>1, <2>2
  <1>4. CachesFit'  BY <1>1, CachesKept
  <1>5. ExchangeInv'
    BY <1>1, <1>2, <1>3, <1>4, Continued DEF OwnerKept, LastKept
  <1>6. \E v : Tell(v, {})
    BY DEF RemoteSetsOwner, RemoteConverts, Told
  <1>7. QED  BY <1>5, <1>6, AnswerParts, TellRight

LEMMA RemoteAnswersExchange ==
    ASSUME ExchangeInv, NEW q \in real.conversions, NEW ok \in BOOLEAN, RemoteAnswers(q, ok)
    PROVE  ExchangeInv' /\ RightAnswers'
  <1> USE TypeParts DEF ExchangeInv
  <1>1. /\ UNCHANGED <<option, dix, owner, last, request, requested, cache, cut, asked, excuses>>
        /\ real'.buffer = IF ok THEN [id |-> q.id, by |-> q.of] ELSE real.buffer
        /\ real'.conversions = real.conversions \ {q} /\ Tell(waiting, {})
        /\ events' = Append(events, Notify(q.sel, ok))
    BY DEF RemoteAnswers, agent, RealType
  <1>2. TypeOK'  BY RemoteAnswersType
  <1>3. q \in Asked(Remote)  BY DEF RealType
  <1> DEFINE n == Notify(q.sel, ok)
  <1>4. n \in Event /\ n.type = "notify"  BY <1>3, EventTypes DEF Asked, Notify
  <1> HIDE DEF n
  <1>5. events' = events \o <<n>> /\ <<n>> \in Seq(Event)  BY <1>1, <1>4, AppendOne DEF n
  <1>6. NoNews /\ NoSelf  BY <1>4, <1>5, PlainOnes, AddedPlain
  <1>7. CachesFit'  BY <1>1, CachesKept
  <1>8. Clear' => MeantOnly
    <2> SUFFICES ASSUME Clear'
                 PROVE  MeantOnly
      OBVIOUS
    <2>1. UnderWayFits  BY <1>1 DEF Clear
    <2>2. real'.buffer # Nothing => Meant(real'.buffer.id)  BY <1>1, <2>1 DEF UnderWayFits
    <2>3. \A p \in real'.conversions : Meant(p.id)  BY <1>1, <2>1 DEF UnderWayFits
    <2>4. QED  BY <1>6, <2>2, <2>3 DEF MeantOnly, NoNews
  <1>9. ExchangeInv'
    BY <1>1, <1>2, <1>6, <1>7, <1>8, Continued DEF OwnerKept, LastKept
  <1>10. QED  BY <1>1, <1>9, AnswerParts, TellRight

LEMMA HandleSelectionClearExchange ==
    ASSUME ExchangeInv, HandleSelectionClear
    PROVE  ExchangeInv' /\ RightAnswers'
  <1> USE TypeParts DEF ExchangeInv
  <1> DEFINE s == Head(events).sel
  <1>1. /\ UNCHANGED <<option, request, requested, cut, real, asked>>
        /\ Received("owner") /\ events' = Tail(events) /\ Tell(waiting, {})
        /\ excuses \subseteq excuses'
        /\ \/ UNCHANGED <<dix, owner, last, cache>>
           \/ /\ owner' = [owner EXCEPT ![s] = Null] /\ last' = [last EXCEPT ![s] = Idle]
              /\ cache' = [cache EXCEPT ![s] = Empty] /\ dix' = [dix EXCEPT ![s] = "root"]
    BY DEF HandleSelectionClear
  <1>2. s \in Selection  BY <1>1, HeadOfType
  <1> HIDE DEF s
  <1>3. TypeOK'  BY HandleSelectionClearType
  <1>4. NoNews /\ NoSelf  BY <1>1, TakenOnly
  <1>5. CachesFit'  BY <1>1, <1>2, CachesKept
  <1>6. LastKept  BY <1>1, <1>2 DEF LastKept
  <1>7. Clear' => MeantOnly  BY <1>1, <1>4, MeantSame DEF Clear
  <1>8. \A r \in Selection : OwnerKept(r)  BY <1>1, <1>2 DEF OwnerKept
  <1>9. ExchangeInv'
    BY <1>1, <1>3, <1>4, <1>5, <1>6, <1>7, <1>8, Continued
  <1>10. QED  BY <1>1, <1>9, AnswerParts, TellRight

(* A request of the real server that is answered at once. *)
LEMMA ReplyNews ==
    ASSUME TypeOK, Received("request"), NEW ok \in BOOLEAN, NEW d,
           ReplyRequest(Head(events), ok, d)
    PROVE  /\ NoNews /\ NoSelf
           /\ real'.conversions = real.conversions
           /\ real'.buffer = real.buffer
                  \/ (Head(events).of = "agent" /\ ok /\ real'.buffer = d)
           /\ Tell(waiting, Answer(Head(events), ok, d))
  <1> USE TypeParts
  <1> DEFINE q == Head(events)
             b == NotifySelf(q, q.sel, ok)
  <1>1. q.sel \in Selection  BY HeadOfType
  <1>2. b \in Seq(Event) /\ \A e \in Items(b) : e.type \in {"owner", "notify"}
    <2> HIDE DEF q
    <2>1. QED  BY <1>1, NotifySelfType, PlainOnes
  <1>3. events' = Tail(events) \o b  BY DEF ReplyRequest
  <1>4. NoNews /\ NoSelf
    <2> HIDE DEF b
    <2>1. QED  BY <1>2, <1>3, TakenPlain
  <1>5. real'.conversions = real.conversions /\ real'.buffer = Filled(q, ok, d)
    BY DEF ReplyRequest, RealType
  <1>6. QED  BY <1>4, <1>5 DEF ReplyRequest, Filled

LEMMA RequestExchange ==
    ASSUME ExchangeInv, RequestDenied \/ RequestAnswered
    PROVE  ExchangeInv' /\ RightAnswers'
  <1> USE TypeParts DEF ExchangeInv
  <1> DEFINE q == Head(events)
  <1>1. /\ Received("request")
        /\ UNCHANGED <<option, dix, owner, last, request, requested, cache, cut, asked, excuses>>
        /\ \E ok \in BOOLEAN : \E d :
               ReplyRequest(q, ok, d) /\ (ok => d.id = q.id)
    <2>1. CASE RequestDenied
      <3>1. ReplyRequest(q, FALSE, Nothing)  BY <2>1 DEF RequestDenied
      <3>2. QED  BY <2>1, <3>1 DEF RequestDenied, agent
    <2>2. CASE RequestAnswered
      <3> DEFINE d == [id |-> q.id, by |-> cache[q.sel].by]
      <3>1. ReplyRequest(q, TRUE, d)  BY <2>2 DEF RequestAnswered
      <3>2. d.id = q.id  OBVIOUS
      <3> HIDE DEF d, q
      <3>3. QED  BY <2>2, <3>1, <3>2 DEF RequestAnswered, agent
    <2>3. QED  BY <2>1, <2>2
  <1>11. PICK ok \in BOOLEAN : \E d : ReplyRequest(q, ok, d) /\ (ok => d.id = q.id)
    BY <1>1
  <1>2. PICK d : ReplyRequest(q, ok, d) /\ (ok => d.id = q.id)  BY <1>11
  <1>3. /\ NoNews /\ NoSelf /\ real'.conversions = real.conversions
        /\ real'.buffer = real.buffer \/ (q.of = "agent" /\ ok /\ real'.buffer = d)
        /\ Tell(waiting, Answer(q, ok, d))
    BY <1>1, <1>2, ReplyNews
  <1>4. q \in Queued /\ q.type = "request"  BY <1>1, HeadQueued
  <1> HIDE DEF q
  <1>5. TypeOK'  BY RequestDeniedType, RequestAnsweredType
  <1>6. CachesFit'  BY <1>1, CachesKept
  <1>7. Clear' => MeantOnly
    <2> SUFFICES ASSUME Clear'
                 PROVE  MeantOnly
      OBVIOUS
    <2>1. UnderWayFits  BY <1>1 DEF Clear
    <2>2. q.of = "agent" => Meant(q.id)  BY <1>4, <2>1 DEF UnderWayFits
    <2>3. real'.buffer # Nothing => Meant(real'.buffer.id)
      BY <1>2, <1>3, <2>1, <2>2 DEF UnderWayFits
    <2>4. QED  BY <1>3, <2>1, <2>3 DEF MeantOnly, NoNews, UnderWayFits
  <1>8. ExchangeInv'
    BY <1>1, <1>3, <1>5, <1>6, <1>7, Continued DEF OwnerKept, LastKept
  <1>9. Rightly(Answer(q, ok, d))  BY <1>2, AnswerParts
  <1>10. QED  BY <1>3, <1>8, <1>9, TellRight

(* Without the right to claim selections, nothing is pending. *)
LEMMA RequestNotAllowedExchange ==
    ASSUME ExchangeInv, RequestNotAllowed
    PROVE  ExchangeInv' /\ RightAnswers'
  <1> USE TypeParts DEF ExchangeInv
  <1> DEFINE q == Head(events)
  <1>1. /\ UNCHANGED <<option, dix, owner, last, request, cache, cut, asked, excuses>>
        /\ Received("request") /\ ~ Claims /\ ReplyRequest(q, FALSE, Nothing)
    BY DEF RequestNotAllowed, Claims
  <1>2. TypeOK'  BY RequestNotAllowedType
  <1>3. /\ NoNews /\ NoSelf /\ real'.conversions = real.conversions
        /\ real'.buffer = real.buffer /\ Tell(waiting, Answer(q, FALSE, Nothing))
    BY <1>1, ReplyNews
  <1>4. \A s \in Selection : request'[s] = NoRequest  BY <1>1 DEF OwnersKept
  <1>5. OwnersKept'  BY <1>1 DEF OwnersKept, IsLocalOwner, Claims
  <1>6. CachesFit'  BY <1>1, CachesKept
  <1>7. Clear' => Clear  BY <1>1 DEF Clear
  <1>8. Clear' => AskedFits'
    <2> SUFFICES ASSUME AskedFits, NEW c \in Client, NEW p \in asked'[c], p.of = "root"
                 PROVE  /\ \A d \in Client : \A o \in asked'[d] : o.of = "root" => d = c /\ o = p
                        /\ \A e \in Queued' : e.type # "self"
                        /\ request'[p.sel] = NoRequest
      BY <1>7 DEF AskedFits
    <2>1. p \in Asked(Client \cup {"root", Null})  BY <1>1
    <2>2. p.sel \in Selection  BY <2>1 DEF Asked
    <2>3. QED  BY <1>1, <1>3, <1>4, <2>2 DEF AskedFits, NoSelf
  <1>9. Clear' => WrittenFits'
    <2>1. events' \in Seq(Event)  BY <1>2, TypePartsPrimed
    <2>2. QED  BY <1>3, <1>4, <1>7, <2>1, WrittenKept
  <1>10. Clear' => UnderWayFits'
    <2>1. LastKept  BY <1>1 DEF LastKept
    <2>2. Clear' => MeantOnly  BY <1>3, <1>7, MeantSame
    <2>3. NoRequest.of # "agent"  BY ClipboardAssumption DEF NoRequest
    <2>4. \A s \in Selection : request'[s].of = "agent" => Meant(request'[s].id)
      BY <1>4, <2>3
    <2>5. QED  BY <1>7, <2>1, <2>2, <2>4, UnderWayKept
  <1>11. RightAnswers'  BY <1>3, AnswerParts, TellRight
  <1>12. QED  BY <1>2, <1>5, <1>6, <1>8, <1>9, <1>10, <1>11

(* An owner is asked. *)
LEMMA HandleSelectionRequestExchange ==
    ASSUME ExchangeInv, HandleSelectionRequest
    PROVE  ExchangeInv' /\ RightAnswers'
  <1> USE TypeParts DEF ExchangeInv
  <1> DEFINE q == Head(events)
             s == q.sel
             c == owner[s]
             m == [id |-> q.id, of |-> q.of, target |-> q.target]
             n == [sel |-> s, id |-> q.id, of |-> "root", target |-> q.target]
  <1>1. /\ UNCHANGED <<option, dix, owner, last, cache, real>>
        /\ Received("request") /\ events' = Tail(events) /\ Acceptable(q) /\ Claims
        /\ requested' = s /\ request' = [request EXCEPT ![s] = m]
        /\ cut' = [cut EXCEPT ![c] = Nothing] /\ asked' = [asked EXCEPT ![c] = @ \cup {n}]
        /\ excuses' = excuses \cup (IF Unanswered(s) THEN {"mixed"} ELSE {})
        /\ Tell(waiting, {})
    BY DEF HandleSelectionRequest, Claims
  <1>2. TypeOK'  BY HandleSelectionRequestType
  <1>3. s \in Selection /\ q \in Queued /\ q.type = "request"
    BY <1>1, HeadOfType, HeadQueued
  <1>4. c \in Client  BY <1>1, <1>3 DEF Acceptable, IsLocalOwner
  <1>5. NoNews /\ NoSelf  BY <1>1, TakenOnly
  <1>6. n.of = "root" /\ n.sel = s /\ n.id = q.id /\ m.id = q.id /\ m.of = q.of  OBVIOUS
  <1> HIDE DEF q, n, m, c
  <1>7. request'[s] = m /\ \A r \in Selection : r # s => request'[r] = request[r]
    BY <1>1, <1>3
  <1>8. OwnersKept'
    BY <1>1, <1>3, <1>7 DEF OwnersKept, IsLocalOwner, Claims
  <1>9. CachesFit'  BY <1>1, CachesKept
  <1>10. ASSUME Clear'
         PROVE  /\ Clear
                /\ \A d \in Client : \A p \in asked[d] : p.of # "root"
                /\ \A e \in Queued : e.type # "self"
    BY <1>1, <1>10 DEF Clear, Unanswered, Queued, Items
  <1>11. ASSUME NEW d \in Client, NEW p \in asked'[d]
         PROVE  p \in asked[d] \/ (d = c /\ p = n)
    BY <1>1, <1>4
  <1>12. ASSUME Clear'
         PROVE  AskedFits'
    <2>1. \A d \in Client : \A p \in asked'[d] : p.of = "root" => d = c /\ p = n
      BY <1>10, <1>11, <1>12
    <2>2. \A e \in Queued' : e.type # "self"  BY <1>5, <1>10, <1>12 DEF NoSelf
    <2>3. requested' = n.sel /\ owner'[n.sel] = c /\ n.id = request'[n.sel].id
      BY <1>1, <1>6, <1>7 DEF c
    <2>4. QED  BY <2>1, <2>2, <2>3 DEF AskedFits
  <1>13. ASSUME Clear'
         PROVE  WrittenFits'
    <2>1. \A e \in Queued' : e.type # "self"  BY <1>5, <1>10, <1>13 DEF NoSelf
    <2>2. QED  BY <2>1 DEF WrittenFits
  <1>14. ASSUME Clear'
         PROVE  UnderWayFits'
    <2>1. UnderWayFits  BY <1>10, <1>14
    <2>2. MeantOnly  BY <1>1, <1>5, <2>1, MeantSame
    <2>3. LastKept  BY <1>1 DEF LastKept
    <2>4. q.of = "agent" => Meant(q.id)  BY <1>3, <2>1 DEF UnderWayFits
    <2>5. \A r \in Selection : request'[r].of = "agent" => Meant(request'[r].id)
      BY <1>6, <1>7, <2>1, <2>4 DEF UnderWayFits
    <2>6. QED  BY <2>1, <2>2, <2>3, <2>5, UnderWayKept
  <1>15. RightAnswers'  BY <1>1, AnswerParts, TellRight
  <1>16. QED  BY <1>2, <1>8, <1>9, <1>12, <1>13, <1>14, <1>15

(* What an owner wrote is passed on. *)
LEMMA HandlePropertyTransferExchange ==
    ASSUME ExchangeInv, HandlePropertyTransfer
    PROVE  ExchangeInv' /\ RightAnswers'
  <1> USE TypeParts DEF ExchangeInv
  <1> DEFINE h == Head(events)
             s == h.sel
             q == request[s]
             data == cut[owner[s]]
             b == NotifySelf(q, s, TRUE)
  <1>1. /\ UNCHANGED <<option, dix, owner, last, requested, cut, asked, excuses>>
        /\ Received("self")
    BY DEF HandlePropertyTransfer
  <1>2. TypeOK'  BY HandlePropertyTransferType
  <1>3. h \in Queued /\ h.type = "self" /\ s \in Selection
    BY <1>1, HeadOfType, HeadQueued
  <1>4. LastKept  BY <1>1 DEF LastKept
  <1>5. CASE IsLocalOwner(s) /\ q # NoRequest
    <2>1. /\ cache' = IF q.target = "TARGETS"
                      THEN [cache EXCEPT ![s] = [for |-> "remote", by |-> data.by]]
                      ELSE cache
          /\ request' = [request EXCEPT ![s] = NoRequest]
          /\ Tell(waiting, Answer(q, TRUE, data))
          /\ real' = [real EXCEPT !.buffer = Filled(q, TRUE, data)]
          /\ events' = Tail(events) \o b
      BY <1>5 DEF HandlePropertyTransfer
    <2>2. b \in Seq(Event) /\ \A e \in Items(b) : e.type \in {"owner", "notify"}
      <3> HIDE DEF s, q
      <3>1. QED  BY <1>3, NotifySelfType, PlainOnes
    <2>3. NoNews /\ NoSelf
      <3> HIDE DEF b
      <3>1. QED  BY <1>1, <2>1, <2>2, TakenPlain
    <2> HIDE DEF h, s, q, data
    <2>4. ASSUME Clear
          PROVE  data = [id |-> q.id, by |-> owner[s]]
      BY <1>3, <1>5, <2>4 DEF WrittenFits, s, q, data
    <2>5. CachesFit'
      <3>1. cache'[s] = cache[s] \/ (cache'[s].for = "remote" /\ cache'[s].by = data.by)
        BY <1>3, <2>1
      <3>2. \A r \in Selection : r # s => cache'[r] = cache[r]  BY <2>1
      <3>3. Clear => data.by = owner[s]  BY <2>4
      <3>4. QED  BY <1>1, <1>5, <3>1, <3>2, <3>3 DEF CachesFit, IsLocalOwner, Clear
    <2>6. real'.conversions = real.conversions /\ real'.buffer = Filled(q, TRUE, data)
      BY <2>1 DEF RealType
    <2>7. Clear' => MeantOnly
      <3> SUFFICES ASSUME Clear
                   PROVE  MeantOnly
        BY <1>1 DEF Clear
      <3>1. q.of = "agent" => Meant(q.id)  BY <1>3 DEF UnderWayFits, q
      <3>2. real'.buffer # Nothing => Meant(real'.buffer.id)
        BY <2>4, <2>6, <3>1 DEF Filled, UnderWayFits
      <3>3. QED  BY <2>3, <2>6, <3>2 DEF MeantOnly, NoNews, UnderWayFits
    <2>8. ExchangeInv'
      BY <1>1, <1>2, <1>3, <1>4, <2>1, <2>3, <2>5, <2>7, Continued DEF OwnerKept
    <2>9. Clear' => Rightly(Answer(q, TRUE, data))
      <3>1. Clear' => Clear  BY <1>1 DEF Clear
      <3>2. Clear => data.id = q.id  BY <2>4
      <3>3. QED  BY <3>1, <3>2, AnswerParts
    <2>10. QED  BY <2>1, <2>8, <2>9, TellRight
  <1>6. CASE ~ (IsLocalOwner(s) /\ q # NoRequest)
    <2>1. events' = Tail(events) /\ Tell(waiting, {}) /\ UNCHANGED <<cache, request, real>>
      BY <1>6 DEF HandlePropertyTransfer
    <2>2. NoNews /\ NoSelf  BY <1>1, <2>1, TakenOnly
    <2>3. CachesFit'  BY <1>1, <2>1, CachesKept
    <2>4. Clear' => MeantOnly  BY <1>1, <2>1, <2>2, MeantSame DEF Clear
    <2>5. ExchangeInv'
      BY <1>1, <1>2, <1>4, <2>1, <2>2, <2>3, <2>4, Continued DEF OwnerKept
    <2>6. QED  BY <2>1, <2>5, AnswerParts, TellRight
  <1>7. QED  BY <1>5, <1>6

(* The answer of a remote owner starts to be collected, or is passed on. *)
LEMMA HandleSelectionNotifyExchange ==
    ASSUME ExchangeInv, HandleSelectionNotify
    PROVE  ExchangeInv' /\ RightAnswers'
  <1> USE TypeParts DEF ExchangeInv
  <1> DEFINE s == Head(events).sel
             r == CHOOSE i \in Free : \A j \in Free : i <= j
             e == [type |-> "collected", resource |-> r, data |-> real.buffer]
  <1>1. /\ UNCHANGED <<option, dix, owner, request, requested, cache, cut, real, asked, excuses>>
        /\ Received("notify")
    BY DEF HandleSelectionNotify
  <1>2. TypeOK'  BY HandleSelectionNotifyType
  <1>3. s \in Selection /\ Tail(events) \in Seq(Event)  BY <1>1, HeadOfType
  <1>4. CachesFit'  BY <1>1, CachesKept
  <1>5. CASE last[s] # Idle /\ last[s].stage = "None" /\ Head(events).ok /\ Free # {}
    <2>1. /\ last' = [last EXCEPT ![s].stage = "WaitData", ![s].resource = r]
          /\ events' = Append(Tail(events), e) /\ Tell(waiting, {})
      BY <1>5 DEF HandleSelectionNotify
    <2>2. r \in 1 .. Slots
      <3>1. Free \in SUBSET (1 .. Slots) /\ Free \in SUBSET Nat  BY DEF Free
      <3> HIDE DEF Free
      <3>2. r \in Free  BY <1>5, <3>1, LeastNumber
      <3>3. QED  BY <3>1, <3>2
    <2>3. e \in Event /\ e.type = "collected" /\ e.data = real.buffer
      <3> HIDE DEF r
      <3>1. QED  BY <2>2, EventTypes DEF RealType
    <2>4. LastKept
      <3> HIDE DEF s, r
      <3>1. last'[s].id = last[s].id  BY <1>3, <2>1
      <3>2. \A p \in Selection : p # s => last'[p] = last[p]  BY <1>3, <2>1
      <3>3. QED  BY <1>5, <3>1, <3>2 DEF LastKept
    <2> HIDE DEF e
    <2>5. events' = Tail(events) \o <<e>> /\ <<e>> \in Seq(Event)
      BY <1>3, <2>1, <2>3, AppendOne
    <2>6. Queued' \subseteq Queued \cup {e}
      <3>1. events # << >>  BY <1>1 DEF Received
      <3>2. QED  BY <2>5, <3>1, QueuedLess, PlainOnes
    <2>7. NoSelf  BY <2>3, <2>6 DEF NoSelf
    <2>8. Clear' => MeantOnly
      <3> SUFFICES ASSUME Clear
                   PROVE  MeantOnly
        BY <1>1 DEF Clear
      <3>1. e.data # Nothing => Meant(e.data.id)  BY <2>3 DEF UnderWayFits
      <3>2. QED  BY <1>1, <2>3, <2>6, <3>1 DEF MeantOnly, UnderWayFits
    <2>9. ExchangeInv'
      BY <1>1, <1>2, <1>4, <2>4, <2>7, <2>8, Continued DEF OwnerKept
    <2>10. QED  BY <2>1, <2>9, AnswerParts, TellRight
  <1>6. CASE ~ (last[s] # Idle /\ last[s].stage = "None" /\ Head(events).ok /\ Free # {})
    <2>1. EndTransfer(s, FALSE, Nothing) /\ events' = Tail(events)
      BY <1>6 DEF HandleSelectionNotify
    <2>2. LastKept
      <3> HIDE DEF s
      <3>1. QED  BY <1>3, <2>1 DEF LastKept, EndTransfer
    <2>3. NoNews /\ NoSelf  BY <1>1, <2>1, TakenOnly
    <2>4. Clear' => MeantOnly  BY <1>1, <2>3, MeantSame DEF Clear
    <2>5. ExchangeInv'
      BY <1>1, <1>2, <1>4, <2>2, <2>3, <2>4, Continued DEF OwnerKept
    <2>6. RightAnswers'
      <3>1. Tell(waiting, Answer(last[s], FALSE, Nothing))  BY <2>1 DEF EndTransfer
      <3>2. QED  BY <3>1, AnswerParts, TellRight
    <2>7. QED  BY <2>5, <2>6
  <1>7. QED  BY <1>5, <1>6

(* What was collected is passed on. *)
LEMMA CollectPropertyExchange ==
    ASSUME ExchangeInv, NEW fits \in BOOLEAN, CollectProperty(fits)
    PROVE  ExchangeInv' /\ RightAnswers'
  <1> USE TypeParts DEF ExchangeInv
  <1> DEFINE h == Head(events)
             data == h.data
             for == {s \in Selection : last[s].resource = h.resource}
             s == CHOOSE i \in for : \A j \in for : i <= j
  <1>1. /\ UNCHANGED <<option, dix, owner, request, requested, cut, asked, excuses>>
        /\ Received("collected") /\ events' = Tail(events)
    BY DEF CollectProperty
  <1>2. TypeOK'  BY CollectPropertyType
  <1>3. /\ h \in Queued /\ h.type = "collected" /\ h.resource \in 1 .. Slots
    <2>1. h \in Queued /\ h.type = "collected"  BY <1>1, HeadQueued
    <2>2. h \in Event  BY <1>1, HeadType DEF Received
    <2> HIDE DEF h
    <2>3. QED  BY <2>1, <2>2 DEF Event
  <1>4. NoNews /\ NoSelf  BY <1>1, TakenOnly
  <1>5. CASE for = {}
    <2>1. Tell(waiting, {}) /\ UNCHANGED <<last, cache, real>>
      BY <1>5 DEF CollectProperty
    <2>2. CachesFit'  BY <1>1, <2>1, CachesKept
    <2>3. Clear' => MeantOnly  BY <1>1, <1>4, <2>1, MeantSame DEF Clear
    <2>4. ExchangeInv'
      BY <1>1, <1>2, <1>4, <2>1, <2>2, <2>3, Continued DEF OwnerKept, LastKept
    <2>5. QED  BY <2>1, <2>4, AnswerParts, TellRight
  <1>6. CASE for # {}
    <2>1. /\ EndTransfer(s, fits /\ data # Nothing, data)
          /\ real' = IF fits THEN [real EXCEPT !.buffer = Nothing] ELSE real
          /\ cache' = IF fits /\ data # Nothing /\ last[s].target = "TARGETS"
                      THEN [cache EXCEPT ![s] = [for |-> "local", by |-> data.by]]
                      ELSE cache
      BY <1>6 DEF CollectProperty
    <2>2. s \in Selection /\ last[s].resource = h.resource
      <3>1. for \in SUBSET Nat /\ for \in SUBSET Selection  BY DEF Selection
      <3>2. s \in for
        <4> HIDE DEF for
        <4>1. QED  BY <1>6, <3>1, LeastNumber
      <3> HIDE DEF s
      <3>3. QED  BY <3>2
    <2> HIDE DEF s, h, for, data
    <2>3. last[s] # Idle  BY <1>3, <2>2 DEF Idle
    <2>4. LastKept  BY <2>1, <2>2 DEF LastKept, EndTransfer
    <2>5. CachesFit'
      <3>1. ~ IsLocalOwner(s)  BY <2>2, <2>3 DEF OwnersKept
      <3>2. cache'[s] = cache[s] \/ cache'[s].for = "local"  BY <2>1, <2>2
      <3>3. \A r \in Selection : r # s => cache'[r] = cache[r]  BY <2>1, <2>2
      <3>4. QED  BY <1>1, <3>1, <3>2, <3>3 DEF CachesFit, IsLocalOwner
    <2>6. /\ real'.conversions = real.conversions
          /\ real'.buffer = real.buffer \/ real'.buffer = Nothing
      BY <2>1 DEF RealType
    <2>7. Clear' => MeantOnly  BY <1>1, <1>4, <2>6, MeantSame DEF Clear
    <2>8. ExchangeInv'
      BY <1>1, <1>2, <1>4, <2>4, <2>5, <2>7, Continued DEF OwnerKept
    <2>9. Clear' => Rightly(Answer(last[s], fits /\ data # Nothing, data))
      <3>1. Clear' => Clear  BY <1>1 DEF Clear
      <3>2. Clear /\ data # Nothing => data.id = last[s].id
        BY <1>3, <2>2, <2>3 DEF UnderWayFits, Meant, data
      <3>3. CASE ~ (fits /\ data # Nothing)
        <4>1. Answer(last[s], fits /\ data # Nothing, data) = Answer(last[s], FALSE, data)
          BY <3>3
        <4>2. QED  BY <4>1, AnswerParts
      <3>4. CASE fits /\ data # Nothing
        <4>1. Answer(last[s], fits /\ data # Nothing, data) = Answer(last[s], TRUE, data)
          BY <3>4
        <4>2. QED  BY <3>1, <3>2, <3>4, <4>1, AnswerParts
      <3>5. QED  BY <3>3, <3>4
    <2>10. QED  BY <2>1, <2>8, <2>9, TellRight DEF EndTransfer
  <1>7. QED  BY <1>5, <1>6

LEMMA ReconnectExchange ==
    ASSUME ExchangeInv, Reconnect
    PROVE  ExchangeInv' /\ RightAnswers'
  <1> USE TypeParts DEF ExchangeInv
  <1>1. /\ UNCHANGED <<option, dix, owner, last, requested, cut, asked>>
        /\ real'.buffer = Nothing /\ real'.conversions = {} /\ events' = << >>
        /\ request' = IF Claims THEN At(request, Selection, NoRequest) ELSE request
        /\ cache' = IF Claims THEN At(cache, Selection, Empty) ELSE cache
        /\ excuses \subseteq excuses' /\ (\E v : Tell(v, {}))
        /\ Clear' => Clear
    BY DEF Reconnect, Claims, Clear
  <1>2. TypeOK'  BY ReconnectType
  <1>3. Queued' = {}  BY <1>1, PlainOnes DEF Queued
  <1>4. NoNews /\ NoSelf  BY <1>3 DEF NoNews, NoSelf
  <1>5. CachesFit'  BY <1>1, CachesKept DEF At
  <1>6. Clear' => MeantOnly  BY <1>1, <1>3 DEF MeantOnly
  <1>7. \A s \in Selection : request'[s] = request[s] \/ request'[s] = NoRequest
    BY <1>1 DEF At
  <1>8. ExchangeInv'
    BY <1>1, <1>2, <1>4, <1>5, <1>6, <1>7, Continued DEF OwnerKept, LastKept
  <1>9. QED  BY <1>1, <1>8, AnswerParts, TellRight

LEMMA ExchangeStep ==
    ASSUME ExchangeInv, RightAnswers, [Next]_vars
    PROVE  ExchangeInv' /\ RightAnswers'
  <1>1. CASE Handle
    BY <1>1, HandleSelectionClearExchange, RequestExchange, RequestNotAllowedExchange,
       HandleSelectionRequestExchange, HandlePropertyTransferExchange,
       HandleSelectionNotifyExchange, CollectPropertyExchange DEF Handle
  <1>2. CASE RemoteOwnerAnswers  BY <1>2, RemoteAnswersExchange DEF RemoteOwnerAnswers
  <1>3. CASE Reconnect  BY <1>3, ReconnectExchange
  <1>4. CASE \E c \in Client : OwnerAnswers(c) \/ CloseDownClient(c)
    BY <1>4, LocalAnswersExchange, LocalRefusesExchange, CloseDownClientExchange
       DEF OwnerAnswers
  <1>5. CASE \E s \in Selection, w \in Client \cup {Null} : SetSelectionOwner(s, w)
    BY <1>5, SetSelectionOwnerExchange
  <1>6. CASE \E c \in Client, s \in Selection, t \in Target :
                 \/ ConvertLocally(c, s, t) \/ ConvertRefused(c, s, t)
                 \/ ConvertAnswered(c, s, t) \/ ConvertSelection(c, s, t)
    BY <1>6, ConvertInsideExchange, ConvertSelectionExchange
  <1>7. CASE \/ \E s \in Selection, w \in Remote \cup {Null} : RemoteSetsOwner(s, w)
             \/ \E p \in Remote, s \in Selection, t \in Target : RemoteConverts(p, s, t)
    BY <1>7, RemoteExchange
  <1>8. CASE UNCHANGED vars
    <2>1. TypeOK'  BY TypeStep DEF ExchangeInv
    <2>2. QED
      BY <1>8, <2>1 DEF vars, agent, ExchangeInv, RightAnswers, CachesFit, OwnersKept,
         AskedFits, WrittenFits, UnderWayFits, Queued, Clear, Claims, Meant, IsLocalOwner
  <1>9. QED
    BY <1>1, <1>2, <1>3, <1>4, <1>5, <1>6, <1>7, <1>8 DEF Next

LEMMA ExchangeInit ==
    ASSUME Init
    PROVE  ExchangeInv /\ RightAnswers
  <1>1. TypeOK  BY InitType
  <1>2. \A s \in Selection : owner[s] = Null /\ last[s] = Idle /\ request[s] = NoRequest
                             /\ cache[s] = Empty
    BY DEF Init
  <1>3. OwnersKept /\ CachesFit  BY <1>2 DEF OwnersKept, CachesFit, IsLocalOwner, Empty
  <1>4. Queued = {}  BY PlainOnes DEF Init, Queued
  <1>5. AskedFits /\ WrittenFits
    <2>1. \A c \in Client : asked[c] = {}  BY DEF Init
    <2>2. QED  BY <1>4, <2>1 DEF AskedFits, WrittenFits
  <1>6. UnderWayFits
    <2>1. real.conversions = {} /\ real.buffer = Nothing  BY DEF Init
    <2>2. NoRequest.of # "agent"  BY ClipboardAssumption DEF NoRequest
    <2>3. QED  BY <1>2, <1>4, <2>1, <2>2 DEF UnderWayFits
  <1>7. RightAnswers  BY DEF Init, RightAnswers
  <1>8. QED  BY <1>1, <1>3, <1>5, <1>6, <1>7 DEF ExchangeInv

(* An answer has the data that was made for its request, for any number of    *)
(* clients, unless two exchanges in the same direction were under way at a    *)
(* time: though nothing that comes back to the agent says whose answer it is. *)
THEOREM AnswersRight == Spec => []RightAnswers
  <1>1. Init => ExchangeInv /\ RightAnswers  BY ExchangeInit
  <1>2. (ExchangeInv /\ RightAnswers) /\ [Next]_vars => (ExchangeInv /\ RightAnswers)'
    BY ExchangeStep
  <1>3. QED  BY <1>1, <1>2, PTL DEF Spec

(* The lists of targets that the agent keeps serve the direction in which the *)
(* selection goes, and those kept for remote clients are the present owner's, *)
(* unless two exchanges were mixed up.                                        *)
THEOREM CachesCurrent == Spec => []CachesFit
  <1>1. Init => ExchangeInv /\ RightAnswers  BY ExchangeInit
  <1>2. (ExchangeInv /\ RightAnswers) /\ [Next]_vars => (ExchangeInv /\ RightAnswers)'
    BY ExchangeStep
  <1>3. ExchangeInv => CachesFit  BY DEF ExchangeInv
  <1>4. QED  BY <1>1, <1>2, <1>3, PTL DEF Spec

-----------------------------------------------------------------------------
(* Who waits for what: the request of a client that waits is in one place.    *)
FromRemote(e) == e.type = "request" /\ e.of \in Remote

LocalHeld ==
    /\ \A s \in Selection : last[s].of \in Client =>
           /\ last[s].id = waiting[last[s].of] /\ last[s].id # 0
           /\ \A r \in Selection : last[r].of = last[s].of => r = s
    /\ \A c \in Client : \A q \in asked[c] : q.of \in Client =>
           /\ q.id = waiting[q.of] /\ q.id # 0
           /\ \A s \in Selection : last[s].of # q.of
           /\ \A d \in Client : \A p \in asked[d] : p.of = q.of => d = c /\ p = q

RemoteHeld ==
    /\ \A s \in Selection : request[s].of \in Remote =>
           /\ request[s].id = waiting[request[s].of] /\ request[s].id # 0
           /\ \A r \in Selection : request[r].of = request[s].of => r = s
    /\ \A i \in DOMAIN events : FromRemote(events[i]) =>
           /\ events[i].id = waiting[events[i].of] /\ events[i].id # 0
           /\ \A s \in Selection : request[s].of # events[i].of
           /\ \A j \in DOMAIN events :
                  FromRemote(events[j]) /\ events[j].of = events[i].of => j = i

(* p waits as before. *)
Left(w, answers, p) == w[p] = waiting[p] /\ \A a \in answers : a.to # p

LEMMA TellOthers ==
    ASSUME NEW w \in [Client \cup Remote -> Nat], NEW answers, Tell(w, answers),
           NEW p \in Client \cup Remote, Left(w, answers, p)
    PROVE  waiting'[p] = waiting[p]
  BY DEF Tell, Left

LEMMA TellDue ==
    ASSUME NEW w, NEW answers, Tell(w, answers), \A a \in answers : w[a.to] = a.id
    PROVE  AnsweredOnce'
  <1> SUFFICES ASSUME NEW x \in told'
               PROVE  x.due
    BY DEF AnsweredOnce
  <1>1. PICK a \in answers : x = [answer |-> a, due |-> w[a.to] = a.id]  BY DEF Tell
  <1>2. w[a.to] = a.id  OBVIOUS
  <1>3. x.due = (w[a.to] = a.id)  BY <1>1, Zenon
  <1>4. QED  BY <1>2, <1>3

LEMMA LocalKept ==
    ASSUME LocalHeld, NEW w \in [Client \cup Remote -> Nat], NEW answers, Tell(w, answers),
           \A s \in Selection : last'[s].of \in Client =>
               /\ last'[s].of = last[s].of /\ last'[s].id = last[s].id
               /\ Left(w, answers, last[s].of),
           \A c \in Client : \A q \in asked'[c] : q.of \in Client =>
               q \in asked[c] /\ Left(w, answers, q.of)
    PROVE  LocalHeld'
  <1>1. ASSUME NEW s \in Selection, last'[s].of \in Client
        PROVE  /\ last'[s].id = waiting'[last'[s].of] /\ last'[s].id # 0
               /\ \A r \in Selection : last'[r].of = last'[s].of => r = s
    <2>1. waiting'[last[s].of] = waiting[last[s].of]  BY <1>1, TellOthers
    <2>2. QED  BY <1>1, <2>1 DEF LocalHeld
  <1>2. ASSUME NEW c \in Client, NEW q \in asked'[c], q.of \in Client
        PROVE  /\ q.id = waiting'[q.of] /\ q.id # 0
               /\ \A s \in Selection : last'[s].of # q.of
               /\ \A d \in Client : \A p \in asked'[d] : p.of = q.of => d = c /\ p = q
    <2>1. q \in asked[c] /\ waiting'[q.of] = waiting[q.of]  BY <1>2, TellOthers
    <2>2. QED  BY <1>2, <2>1 DEF LocalHeld
  <1>3. QED  BY <1>1, <1>2 DEF LocalHeld

(* The requests of remote clients stay in the queue, behind k that left it. *)
Descend(k) ==
    \A i \in DOMAIN events' : FromRemote(events'[i]) =>
        i + k \in DOMAIN events /\ events[i + k] = events'[i]

LEMMA RemoteKept ==
    ASSUME RemoteHeld, NEW w \in [Client \cup Remote -> Nat], NEW answers, Tell(w, answers),
           NEW k \in 0 .. 1, Descend(k), events' \in Seq(Event),
           \A s \in Selection : request'[s].of \in Remote =>
               request'[s] = request[s] /\ Left(w, answers, request[s].of),
           \A i \in DOMAIN events' : FromRemote(events'[i]) => Left(w, answers, events'[i].of)
    PROVE  RemoteHeld'
  <1>1. ASSUME NEW s \in Selection, request'[s].of \in Remote
        PROVE  /\ request'[s].id = waiting'[request'[s].of] /\ request'[s].id # 0
               /\ \A r \in Selection : request'[r].of = request'[s].of => r = s
    <2>1. waiting'[request[s].of] = waiting[request[s].of]  BY <1>1, TellOthers
    <2>2. QED  BY <1>1, <2>1 DEF RemoteHeld
  <1>2. ASSUME NEW i \in DOMAIN events', FromRemote(events'[i])
        PROVE  /\ events'[i].id = waiting'[events'[i].of] /\ events'[i].id # 0
               /\ \A s \in Selection : request'[s].of # events'[i].of
               /\ \A j \in DOMAIN events' :
                      FromRemote(events'[j]) /\ events'[j].of = events'[i].of => j = i
    <2>1. /\ i + k \in DOMAIN events /\ events[i + k] = events'[i]
          /\ events'[i].of \in Remote
      BY <1>2 DEF Descend, FromRemote
    <2>2. waiting'[events'[i].of] = waiting[events'[i].of]  BY <1>2, <2>1, TellOthers
    <2>3. \A s \in Selection : request'[s].of # events'[i].of
      BY <1>2, <2>1 DEF RemoteHeld
    <2>4. ASSUME NEW j \in DOMAIN events', FromRemote(events'[j]), events'[j].of = events'[i].of
          PROVE  j = i
      <3>1. j + k \in DOMAIN events /\ events[j + k] = events'[j]  BY <2>4 DEF Descend
      <3>2. j + k = i + k  BY <1>2, <2>1, <2>4, <3>1 DEF RemoteHeld
      <3>3. QED  BY <3>2
    <2>5. QED  BY <1>2, <2>1, <2>2, <2>3, <2>4 DEF RemoteHeld
  <1>3. QED  BY <1>1, <1>2 DEF RemoteHeld

LEMMA DescendSame ==
    ASSUME events \in Seq(Event), events' = events
    PROVE  Descend(0)
  BY DEF Descend

LEMMA DescendMore ==
    ASSUME events \in Seq(Event), NEW b \in Seq(Event), events' = events \o b,
           \A e \in Items(b) : ~ FromRemote(e)
    PROVE  Descend(0)
  <1> SUFFICES ASSUME NEW i \in DOMAIN events', FromRemote(events'[i])
               PROVE  i \in DOMAIN events /\ events[i] = events'[i]
    BY DEF Descend
  <1>1. \/ i \in DOMAIN events /\ events'[i] = events[i]
        \/ i - Len(events) \in DOMAIN b /\ events'[i] = b[i - Len(events)]
    OBVIOUS
  <1>2. QED  BY <1>1 DEF Items

LEMMA DescendOne ==
    ASSUME events \in Seq(Event), NEW e \in Event, events' = Append(events, e),
           ~ FromRemote(e)
    PROVE  Descend(0)
  <1> DEFINE b == <<e>>
  <1>1. events' = events \o b /\ b \in Seq(Event)  BY AppendOne
  <1>2. \A f \in Items(b) : ~ FromRemote(f)
    <2>1. Items(b) = {e}  BY PlainOnes
    <2>2. QED  BY <2>1
  <1> HIDE DEF b
  <1>3. QED  BY <1>1, <1>2, DescendMore

LEMMA DescendLess ==
    ASSUME events \in Seq(Event), NEW t, Received(t), NEW b \in Seq(Event),
           events' = Tail(events) \o b, \A e \in Items(b) : ~ FromRemote(e)
    PROVE  Descend(1)
  <1> SUFFICES ASSUME NEW i \in DOMAIN events', FromRemote(events'[i])
               PROVE  i + 1 \in DOMAIN events /\ events[i + 1] = events'[i]
    BY DEF Descend
  <1>0. events # << >>  BY DEF Received
  <1>1. \/ i + 1 \in DOMAIN events /\ events'[i] = events[i + 1]
        \/ i - Len(events) + 1 \in DOMAIN b /\ events'[i] = b[i - Len(events) + 1]
    BY <1>0
  <1>2. QED  BY <1>1 DEF Items

LEMMA DescendTail ==
    ASSUME events \in Seq(Event), NEW t, Received(t), events' = Tail(events)
    PROVE  Descend(1)
  <1>1. Tail(events) \in Seq(Event)  BY HeadOfType
  <1>2. events' = Tail(events) \o << >> /\ << >> \in Seq(Event)  BY <1>1
  <1>3. QED  BY <1>2, PlainOnes, DescendLess

(* The answers to a request, and where they go. *)
LEMMA AnswerTo ==
    /\ \A q, ok, d : \A a \in Answer(q, ok, d) :
           a.to = q.of /\ a.id = q.id /\ q.of # Null /\ q.of # "agent"
    /\ \A q, d : \A a \in Answer(q, FALSE, d) :
           a.to = q.of /\ a.id = q.id /\ q.of # Null /\ q.of # "agent"
    /\ \A q, d : \A a \in Answer(q, TRUE, d) :
           a.to = q.of /\ a.id = q.id /\ q.of # Null /\ q.of # "agent"
  BY DEF Answer

(* Nobody who waits for nothing is waited for. *)
LEMMA Unheld ==
    ASSUME LocalHeld, RemoteHeld, NEW p \in Client \cup Remote, waiting[p] = 0
    PROVE  /\ p \in Client => /\ \A s \in Selection : last[s].of # p
                              /\ \A c \in Client : \A q \in asked[c] : q.of # p
           /\ p \in Remote => /\ \A s \in Selection : request[s].of # p
                              /\ \A i \in DOMAIN events : FromRemote(events[i]) => events[i].of # p
  BY DEF LocalHeld, RemoteHeld

HeldOnce == TypeOK /\ LocalHeld /\ RemoteHeld

LEMMA Asking ==
    ASSUME HeldOnce, NEW c \in Client \cup Remote, NEW n, n = moves + 1
    PROVE  /\ n \in Nat /\ n # 0
           /\ [waiting EXCEPT ![c] = n] \in [Client \cup Remote -> Nat]
           /\ [waiting EXCEPT ![c] = n][c] = n
           /\ \A p \in Client \cup Remote : p # c => [waiting EXCEPT ![c] = n][p] = waiting[p]
  <1> USE TypeParts DEF HeldOnce
  <1>1. n \in Nat /\ n # 0  BY ClipboardAssumption
  <1>2. QED  BY <1>1

(* The remote side, when local clients are answered. *)
LEMMA RemoteUntouched ==
    ASSUME HeldOnce, TypeOK', NEW w \in [Client \cup Remote -> Nat], NEW answers,
           Tell(w, answers),
           \A s \in Selection : request'[s].of \in Remote => request'[s] = request[s],
           NEW k \in 0 .. 1, Descend(k),
           \A p \in Remote : w[p] = waiting[p], \A a \in answers : a.to \in Client
    PROVE  RemoteHeld'
  <1>1. events' \in Seq(Event)  BY TypePartsPrimed
  <1>2. \A p \in Remote : Left(w, answers, p)  BY ClipboardAssumption DEF Left
  <1>3. \A i \in DOMAIN events' : FromRemote(events'[i]) => events'[i].of \in Remote
    BY DEF FromRemote
  <1>4. QED  BY <1>1, <1>2, <1>3, RemoteKept DEF HeldOnce

LEMMA ConvertInsideHeld ==
    ASSUME HeldOnce, TypeOK', NEW c \in Client, NEW s \in Selection, NEW t \in Target,
           ConvertRefused(c, s, t) \/ ConvertAnswered(c, s, t)
    PROVE  LocalHeld' /\ RemoteHeld' /\ AnsweredOnce'
  <1> USE TypeParts DEF HeldOnce
  <1> DEFINE n == moves + 1
             w == [waiting EXCEPT ![c] = n]
  <1>1. /\ waiting[c] = 0 /\ UNCHANGED <<request, asked, events>>
        /\ last' = last \/ last' = [last EXCEPT ![s] = Idle]
    BY DEF ConvertRefused, ConvertAnswered, agent, Asks
  <1>2. /\ n \in Nat /\ n # 0 /\ w \in [Client \cup Remote -> Nat] /\ w[c] = n
        /\ \A p \in Client \cup Remote : p # c => w[p] = waiting[p]
    BY Asking
  <1>3. Idle.of \notin Client  BY ClipboardAssumption DEF Idle
  <1>4. \E answers :
            /\ Tell(w, answers)
            /\ \A a \in answers : \/ a.to = c /\ a.id = n
                                  \/ /\ a.to = last[s].of /\ a.id = last[s].id
                                     /\ last[s].of # Null /\ last'[s] = Idle
    <2>1. Wanted(c, t).of = c /\ Wanted(c, t).id = n  BY DEF Wanted
    <2>2. CASE ConvertRefused(c, s, t)
      <3>1. Tell(w, Answer(Wanted(c, t), FALSE, Nothing))
        BY <2>2 DEF ConvertRefused, Told
      <3>2. \A a \in Answer(Wanted(c, t), FALSE, Nothing) : a.to = c /\ a.id = n
        BY <2>1, AnswerTo
      <3> HIDE DEF w, n
      <3>3. QED  BY <3>1, <3>2
    <2>3. CASE ConvertAnswered(c, s, t)
      <3>1. PICK ok, d : Tell(w, Overdue(s) \cup Answer(Wanted(c, t), ok, d))
        BY <2>3 DEF ConvertAnswered, Told
      <3>2. last'[s] = Idle  BY <2>3 DEF ConvertAnswered
      <3>3. \A a \in Overdue(s) : a.to = last[s].of /\ a.id = last[s].id /\ last[s].of # Null
        <4>1. Overdue(s) = Answer(last[s], FALSE, Nothing)  BY DEF Overdue
        <4>2. \A a \in Answer(last[s], FALSE, Nothing) :
                  a.to = last[s].of /\ a.id = last[s].id /\ last[s].of # Null
          BY AnswerTo
        <4>3. QED  BY <4>1, <4>2
      <3>4. \A a \in Answer(Wanted(c, t), ok, d) : a.to = c /\ a.id = n
        BY <2>1, AnswerTo
      <3> HIDE DEF w, n
      <3>5. QED  BY <3>1, <3>2, <3>3, <3>4
    <2>4. QED  BY <2>2, <2>3
  <1>5. PICK answers :
            /\ Tell(w, answers)
            /\ \A a \in answers : \/ a.to = c /\ a.id = n
                                  \/ /\ a.to = last[s].of /\ a.id = last[s].id
                                     /\ last[s].of # Null /\ last'[s] = Idle
    BY <1>4
  <1> HIDE DEF w, n
  <1>6. last[s].of \in Client \cup {Null}  BY DEF LastType
  <1>7. \A a \in answers : a.to \in Client  BY <1>5, <1>6
  <1>8. \A p \in Remote : w[p] = waiting[p]  BY <1>2, ClipboardAssumption
  <1>9. RemoteHeld'
    <2>1. Descend(0) /\ 0 \in 0 .. 1  BY <1>1, DescendSame
    <2>2. QED  BY <1>1, <1>2, <1>5, <1>7, <1>8, <2>1, RemoteUntouched
  <1>10. /\ \A r \in Selection : last[r].of # c
         /\ \A d \in Client : \A q \in asked[d] : q.of # c
    BY <1>1, Unheld
  <1>11. ASSUME NEW r \in Selection, last'[r].of \in Client
         PROVE  last'[r] = last[r] /\ Left(w, answers, last[r].of)
    <2>1. last'[r] = last[r]  BY <1>1, <1>3, <1>11
    <2>2. last'[s] = Idle => r # s  BY <1>3, <1>11
    <2>3. last'[s] = Idle => last[r].of # last[s].of
      BY <1>11, <2>1, <2>2 DEF LocalHeld
    <2>4. w[last[r].of] = waiting[last[r].of]  BY <1>2, <1>10, <1>11, <2>1
    <2>5. \A a \in answers : a.to # last[r].of  BY <1>5, <1>10, <2>3
    <2>6. QED  BY <2>1, <2>4, <2>5 DEF Left
  <1>12. ASSUME NEW d \in Client, NEW q \in asked'[d], q.of \in Client
         PROVE  q \in asked[d] /\ Left(w, answers, q.of)
    <2>1. q \in asked[d]  BY <1>1
    <2>2. q.of # c /\ q.of # last[s].of  BY <1>10, <1>12, <2>1 DEF LocalHeld
    <2>3. QED  BY <1>2, <1>5, <1>12, <2>1, <2>2 DEF Left
  <1>13. LocalHeld'  BY <1>2, <1>5, <1>11, <1>12, LocalKept
  <1>14. AnsweredOnce'
    <2>1. \A a \in answers : w[a.to] = a.id
      BY <1>2, <1>5, <1>6, <1>10 DEF LocalHeld
    <2>2. QED  BY <1>5, <2>1, TellDue
  <1>15. QED  BY <1>9, <1>13, <1>14

LEMMA ConvertLocallyHeld ==
    ASSUME HeldOnce, TypeOK', NEW c \in Client, NEW s \in Selection, NEW t \in Target,
           ConvertLocally(c, s, t)
    PROVE  LocalHeld' /\ RemoteHeld' /\ AnsweredOnce'
  <1> USE TypeParts DEF HeldOnce
  <1> DEFINE n == moves + 1
             w == [waiting EXCEPT ![c] = n]
             x == [sel |-> s, id |-> n, of |-> c, target |-> t]
  <1>1. waiting[c] = 0 /\ UNCHANGED <<request, last, events>>
    BY DEF ConvertLocally, agent, Asks
  <1>2. /\ n \in Nat /\ n # 0 /\ w \in [Client \cup Remote -> Nat] /\ w[c] = n
        /\ \A p \in Client \cup Remote : p # c => w[p] = waiting[p]
    BY Asking
  <1>3. x.of = c /\ x.id = n  OBVIOUS
  <1>4. /\ \A r \in Selection : last[r].of # c
        /\ \A d \in Client : \A q \in asked[d] : q.of # c
    BY <1>1, Unheld
  <1>5. \A p \in Remote : w[p] = waiting[p]  BY <1>2, ClipboardAssumption
  <1>6. Wanted(c, t).of = c /\ Wanted(c, t).id = n  BY DEF Wanted
  <1>7. CASE dix[s] \in Client
    <2>1. Tell(w, {}) /\ asked' = [asked EXCEPT ![dix[s]] = @ \cup {x}]
      BY <1>7 DEF ConvertLocally, Told
    <2> HIDE DEF n, w, x
    <2>2. RemoteHeld'
      <3>1. Descend(0) /\ 0 \in 0 .. 1  BY <1>1, DescendSame
      <3> DEFINE none == {}
      <3>2. \A a \in none : a.to \in Client  OBVIOUS
      <3>3. Tell(w, none) /\ request' = request  BY <1>1, <2>1
      <3> HIDE DEF none
      <3>4. QED  BY <1>2, <1>5, <3>1, <3>2, <3>3, RemoteUntouched
    <2>3. /\ waiting'[c] = n
          /\ \A p \in Client : p # c => waiting'[p] = waiting[p]
      BY <1>2, <2>1 DEF Tell
    <2>4. ASSUME NEW d \in Client, NEW q \in asked'[d]
          PROVE  q \in asked[d] \/ (d = dix[s] /\ q = x)
      BY <1>7, <2>1
    <2>5. ASSUME NEW r \in Selection, last'[r].of \in Client
          PROVE  /\ last'[r].id = waiting'[last'[r].of] /\ last'[r].id # 0
                 /\ \A o \in Selection : last'[o].of = last'[r].of => o = r
      BY <1>1, <1>4, <2>3, <2>5 DEF LocalHeld
    <2>6. ASSUME NEW d \in Client, NEW q \in asked'[d], q.of \in Client
          PROVE  /\ q.id = waiting'[q.of] /\ q.id # 0
                 /\ \A r \in Selection : last'[r].of # q.of
                 /\ \A e \in Client : \A p \in asked'[e] : p.of = q.of => e = d /\ p = q
      <3>1. CASE q = x /\ d = dix[s]
        <4>1. \A e \in Client : \A p \in asked'[e] : p.of = q.of => e = d /\ p = q
          BY <1>3, <1>4, <2>4, <3>1
        <4>2. QED  BY <1>1, <1>2, <1>3, <1>4, <2>3, <3>1, <4>1
      <3>2. CASE q \in asked[d]
        <4>1. q.of # c  BY <1>4, <3>2
        <4>2. \A e \in Client : \A p \in asked'[e] : p.of = q.of => e = d /\ p = q
          BY <1>3, <2>4, <2>6, <3>2, <4>1 DEF LocalHeld
        <4>3. QED  BY <1>1, <2>3, <2>6, <3>2, <4>1, <4>2 DEF LocalHeld
      <3>3. QED  BY <2>4, <3>1, <3>2
    <2>7. LocalHeld'  BY <2>5, <2>6 DEF LocalHeld
    <2>8. AnsweredOnce'  BY <2>1, TellDue
    <2>9. QED  BY <2>2, <2>7, <2>8
  <1>8. CASE dix[s] \notin Client
    <2> DEFINE answers == Answer(Wanted(c, t), FALSE, Nothing)
    <2>1. Tell(w, answers) /\ asked' = asked
      BY <1>8 DEF ConvertLocally, Told
    <2>2. \A a \in answers : a.to = c /\ a.id = n  BY <1>6, AnswerTo
    <2> HIDE DEF n, w, x, answers
    <2>3. RemoteHeld'
      <3>1. Descend(0) /\ 0 \in 0 .. 1  BY <1>1, DescendSame
      <3>2. \A a \in answers : a.to \in Client  BY <2>2
      <3>3. QED  BY <1>1, <1>2, <1>5, <2>1, <3>1, <3>2, RemoteUntouched
    <2>4. \A p \in Client : p # c => Left(w, answers, p)  BY <1>2, <2>2 DEF Left
    <2>5. LocalHeld'  BY <1>1, <1>2, <1>4, <2>1, <2>4, LocalKept
    <2>6. AnsweredOnce'
      <3>1. \A a \in answers : w[a.to] = a.id  BY <1>2, <2>2
      <3>2. QED  BY <2>1, <3>1, TellDue
    <2>7. QED  BY <2>3, <2>5, <2>6
  <1>9. QED  BY <1>7, <1>8

(* The local side, when remote clients are answered. *)
LEMMA LocalUntouched ==
    ASSUME HeldOnce, NEW w \in [Client \cup Remote -> Nat], NEW answers, Tell(w, answers),
           \A s \in Selection : last'[s].of \in Client =>
               last'[s].of = last[s].of /\ last'[s].id = last[s].id,
           \A c \in Client : \A q \in asked'[c] : q.of \in Client => q \in asked[c],
           \A c \in Client : (\E s \in Selection : last'[s].of = c)
                                 \/ (\E d \in Client : \E q \in asked'[d] : q.of = c) =>
               w[c] = waiting[c],
           \A a \in answers : a.to \in Remote
    PROVE  LocalHeld'
  <1>1. ASSUME NEW s \in Selection, last'[s].of \in Client
        PROVE  last'[s].of = last[s].of /\ last'[s].id = last[s].id
               /\ Left(w, answers, last[s].of)
    BY <1>1, ClipboardAssumption DEF Left
  <1>2. ASSUME NEW c \in Client, NEW q \in asked'[c], q.of \in Client
        PROVE  q \in asked[c] /\ Left(w, answers, q.of)
    BY <1>2, ClipboardAssumption DEF Left
  <1>3. QED  BY <1>1, <1>2, LocalKept DEF HeldOnce

(* Pending requests of remote clients, those for the selections S, are ended. *)
Released(S) ==
    \A s \in Selection : request'[s].of \in Remote => s \notin S /\ request'[s] = request[s]

ForThem(answers, S) ==
    \A a \in answers : \E s \in S :
        a.to = request[s].of /\ a.id = request[s].id /\ request[s].of \in Remote

LEMMA RemoteReleased ==
    ASSUME HeldOnce, TypeOK', NEW w \in [Client \cup Remote -> Nat], NEW answers,
           Tell(w, answers), \A p \in Remote : w[p] = waiting[p],
           NEW S \in SUBSET Selection, ForThem(answers, S), Released(S),
           NEW k \in 0 .. 1, Descend(k)
    PROVE  RemoteHeld' /\ AnsweredOnce'
  <1>1. events' \in Seq(Event)  BY TypePartsPrimed
  <1>2. ASSUME NEW s \in Selection, request'[s].of \in Remote
        PROVE  request'[s] = request[s] /\ Left(w, answers, request[s].of)
    <2>1. request'[s] = request[s] /\ s \notin S  BY <1>2 DEF Released
    <2>2. \A r \in S : request[r].of # request[s].of
      BY <1>2, <2>1 DEF HeldOnce, RemoteHeld
    <2>3. QED  BY <1>2, <2>1, <2>2 DEF Left, ForThem
  <1>3. ASSUME NEW i \in DOMAIN events', FromRemote(events'[i])
        PROVE  Left(w, answers, events'[i].of)
    <2>1. i + k \in DOMAIN events /\ events[i + k] = events'[i]  BY <1>3 DEF Descend
    <2>2. \A s \in Selection : request[s].of # events'[i].of
      BY <1>3, <2>1 DEF HeldOnce, RemoteHeld
    <2>3. QED  BY <1>3, <2>2 DEF Left, FromRemote, ForThem
  <1>4. RemoteHeld'  BY <1>1, <1>2, <1>3, RemoteKept DEF HeldOnce
  <1>5. \A a \in answers : w[a.to] = a.id  BY DEF HeldOnce, RemoteHeld, ForThem
  <1>6. QED  BY <1>4, <1>5, TellDue

LEMMA RequestOf ==
    ASSUME TypeOK, NEW s \in Selection, NEW d
    PROVE  \A a \in Answer(request[s], FALSE, d) \cup Answer(request[s], TRUE, d) :
               a.to = request[s].of /\ a.id = request[s].id /\ request[s].of \in Remote
  <1>1. request[s].of \in Remote \cup {"agent", Null}  BY TypeParts DEF RequestType
  <1> DEFINE q == request[s]
  <1> HIDE DEF q
  <1>2. \A a \in Answer(q, FALSE, d) : a.to = q.of /\ a.id = q.id /\ q.of # Null /\ q.of # "agent"
    BY AnswerTo
  <1>3. \A a \in Answer(q, TRUE, d) : a.to = q.of /\ a.id = q.id /\ q.of # Null /\ q.of # "agent"
    BY AnswerTo
  <1>4. QED  BY <1>1, <1>2, <1>3 DEF q

LEMMA RefusalsTo ==
    ASSUME TypeOK, NEW S \in SUBSET Selection
    PROVE  ForThem(Refusals(S), S)
  <1> SUFFICES ASSUME NEW a \in Refusals(S)
               PROVE  \E s \in S : /\ a.to = request[s].of /\ a.id = request[s].id
                                   /\ request[s].of \in Remote
    BY DEF ForThem
  <1>1. PICK s \in S : a \in Answer(request[s], FALSE, Nothing)  BY DEF Refusals
  <1>2. QED  BY <1>1, RequestOf

(* A change of owners puts no request of a remote client into the queue. *)
LEMMA NewOwnersDescend ==
    ASSUME TypeOK, NEW S \in SUBSET Selection, NEW w, SetSelectionOwnerOnXServer(S, w)
    PROVE  Descend(0)
  <1> USE TypeParts
  <1> DEFINE x == IF w = Null THEN Null ELSE "agent"
             Sent(s) == IF s \in S THEN NotifySelf(request[s], s, FALSE) \o OwnerEvents(s, x)
                        ELSE << >>
             Fine(b) == b \in Seq(Event) /\ \A e \in Items(b) : ~ FromRemote(e)
  <1>1. events' = events \o Sent(0) \o Sent(1)
    BY DEF SetSelectionOwnerOnXServer
  <1>2. \A a, b : Fine(a) /\ Fine(b) => Fine(a \o b)
    <2> SUFFICES ASSUME NEW a, NEW b, Fine(a), Fine(b)
                 PROVE  Fine(a \o b)
      OBVIOUS
    <2>1. a \o b \in Seq(Event)  BY ConcatType
    <2>2. Items(a \o b) = Items(a) \cup Items(b)  BY PlainOnes
    <2>3. QED  BY <2>1, <2>2
  <1>3. \A s \in Selection : Fine(Sent(s))
    <2> SUFFICES ASSUME NEW s \in Selection
                 PROVE  Fine(Sent(s))
      OBVIOUS
    <2>1. Fine(NotifySelf(request[s], s, FALSE))
      BY NotifySelfType, PlainOnes DEF FromRemote
    <2>2. Fine(OwnerEvents(s, x))  BY OwnerEventsType, PlainOnes DEF FromRemote
    <2>3. Fine(<< >>)  BY PlainOnes
    <2> HIDE DEF x, Fine
    <2>4. QED  BY <1>2, <2>1, <2>2, <2>3
  <1>4. 0 \in Selection /\ 1 \in Selection  BY DEF Selection
  <1>5. Fine(Sent(0)) /\ Fine(Sent(1))  BY <1>3, <1>4
  <1>6. Sent(0) \in Seq(Event) /\ Sent(1) \in Seq(Event)  BY <1>5
  <1>7. Fine(Sent(0) \o Sent(1))
    <2> HIDE DEF Sent, Fine
    <2>1. QED  BY <1>2, <1>5
  <1> DEFINE b == Sent(0) \o Sent(1)
  <1>8. events' = events \o b
    <2> HIDE DEF Sent
    <2>1. QED  BY <1>1, <1>6
  <1>9. b \in Seq(Event) /\ \A e \in Items(b) : ~ FromRemote(e)  BY <1>7
  <1> HIDE DEF b
  <1>10. QED  BY <1>8, <1>9, DescendMore

LEMMA SetSelectionOwnerHeld ==
    ASSUME HeldOnce, TypeOK', NEW s \in Selection, NEW w \in Client \cup {Null},
           SetSelectionOwner(s, w)
    PROVE  LocalHeld' /\ RemoteHeld' /\ AnsweredOnce'
  <1> USE TypeParts DEF HeldOnce
  <1>1. /\ last' = last \/ last' = [last EXCEPT ![s] = Idle]
        /\ Idle.of \notin Client
    BY ClipboardAssumption DEF SetSelectionOwner, Idle
  <1>2. asked' = asked  BY DEF SetSelectionOwner
  <1>3. \A r \in Selection : last'[r].of \in Client => last'[r] = last[r]  BY <1>1, <1>2
  <1>4. \E S \in SUBSET Selection : Tell(waiting, Refusals(S)) /\ Released(S)
    <2>1. CASE option.clipboard = "none"
      <3> DEFINE S == {}
      <3>1. Tell(waiting, {}) /\ request' = request  BY <2>1 DEF SetSelectionOwner
      <3>2. S \in SUBSET Selection /\ Refusals(S) = {} /\ Released(S)
        BY <3>1 DEF Released, Refusals
      <3>3. Tell(waiting, Refusals(S))  BY <3>1, <3>2
      <3> HIDE DEF S
      <3>4. QED  BY <3>2, <3>3
    <2>2. CASE option.clipboard # "none"
      <3> DEFINE S == {s}
      <3>1. Tell(waiting, Refusals(S)) /\ request' = At(request, S, NoRequest)
        BY <2>2 DEF SetSelectionOwner, SetSelectionOwnerOnXServer
      <3>2. S \in SUBSET Selection /\ NoRequest.of \notin Remote
        BY ClipboardAssumption DEF NoRequest
      <3> HIDE DEF S
      <3>3. Released(S)  BY <3>1, <3>2 DEF At, Released
      <3>4. QED  BY <3>1, <3>2, <3>3
    <2>3. QED  BY <2>1, <2>2
  <1>5. PICK S \in SUBSET Selection : Tell(waiting, Refusals(S)) /\ Released(S)
    BY <1>4
  <1>6. Descend(0) /\ 0 \in 0 .. 1
    <2>1. CASE option.clipboard = "none"
      BY <2>1, DescendSame DEF SetSelectionOwner
    <2>2. CASE option.clipboard # "none"
      <3>1. SetSelectionOwnerOnXServer({s}, w)  BY <2>2 DEF SetSelectionOwner
      <3>2. {s} \in SUBSET Selection  OBVIOUS
      <3>3. QED  BY <3>1, <3>2, NewOwnersDescend
    <2>3. QED  BY <2>1, <2>2
  <1>7. RemoteHeld' /\ AnsweredOnce'  BY <1>5, <1>6, RefusalsTo, RemoteReleased
  <1>8. LocalHeld'  BY <1>2, <1>3, <1>5, RefusalsTo, LocalUntouched DEF ForThem
  <1>9. QED  BY <1>7, <1>8

LEMMA CloseDownClientHeld ==
    ASSUME HeldOnce, TypeOK', NEW c \in Client, CloseDownClient(c)
    PROVE  LocalHeld' /\ RemoteHeld' /\ AnsweredOnce'
  <1> USE TypeParts DEF HeldOnce
  <1> DEFINE S == {s \in Selection : owner[s] = c}
             R == S \cup {s \in Selection : last[s].of = c}
             w == [waiting EXCEPT ![c] = 0]
  <1>1. /\ SetSelectionOwnerOnXServer(S, Null) /\ last' = At(last, R, Idle)
        /\ Tell(w, Refusals(S))
        /\ asked' = [d \in Client |->
                       IF d = c THEN {}
                       ELSE {[q EXCEPT !.of = IF @ = c THEN Null ELSE @] : q \in asked[d]}]
    BY DEF CloseDownClient
  <1>2. S \in SUBSET Selection /\ Idle.of \notin Client /\ NoRequest.of \notin Remote
    BY ClipboardAssumption DEF Idle, NoRequest
  <1>3. request' = At(request, S, NoRequest)
    BY <1>1 DEF SetSelectionOwnerOnXServer
  <1>4. /\ w \in [Client \cup Remote -> Nat] /\ (\A p \in Remote : w[p] = waiting[p])
        /\ \A d \in Client : d # c => w[d] = waiting[d]
    BY ClipboardAssumption
  <1>5. ASSUME NEW s \in Selection, last'[s].of \in Client
        PROVE  last'[s] = last[s] /\ last[s].of # c
    BY <1>1, <1>2, <1>5 DEF At
  <1>6. ASSUME NEW d \in Client, NEW q \in asked'[d], q.of \in Client
        PROVE  q \in asked[d] /\ q.of # c
    <2>1. PICK p \in asked[d] : q = [p EXCEPT !.of = IF @ = c THEN Null ELSE @]
      BY <1>1
    <2>2. p \in Asked(Client \cup {"root", Null})  OBVIOUS
    <2>3. q.of = IF p.of = c THEN Null ELSE p.of  BY <2>1, <2>2 DEF Asked
    <2>4. p.of = q.of /\ p.of # c  BY <1>6, <2>3, ClipboardAssumption
    <2>5. q = [p EXCEPT !.of = p.of]  BY <2>1, <2>4
    <2>6. QED  BY <2>2, <2>4, <2>5 DEF Asked
  <1> HIDE DEF S, R, w
  <1>7. Released(S)  BY <1>2, <1>3 DEF At, Released
  <1>8. ForThem(Refusals(S), S)  BY <1>2, RefusalsTo
  <1>9. Descend(0) /\ 0 \in 0 .. 1  BY <1>1, <1>2, NewOwnersDescend
  <1>10. RemoteHeld' /\ AnsweredOnce'
    BY <1>1, <1>2, <1>4, <1>7, <1>8, <1>9, RemoteReleased
  <1>11. LocalHeld'
    <2>1. \A a \in Refusals(S) : a.to \in Remote  BY <1>8 DEF ForThem
    <2>2. \A s \in Selection : last'[s].of \in Client =>
              /\ last'[s].of = last[s].of /\ last'[s].id = last[s].id
      BY <1>5
    <2>3. \A d \in Client : \A q \in asked'[d] : q.of \in Client => q \in asked[d]
      BY <1>6
    <2>4. \A d \in Client : (\E s \in Selection : last'[s].of = d)
                                \/ (\E e \in Client : \E q \in asked'[e] : q.of = d) =>
              w[d] = waiting[d]
      BY <1>4, <1>5, <1>6
    <2>5. QED  BY <1>1, <1>4, <2>1, <2>2, <2>3, <2>4, LocalUntouched
  <1>12. QED  BY <1>10, <1>11

(* The request sent to the real server is the only one of its client.         *)
LEMMA ConvertSelectionHeld ==
    ASSUME HeldOnce, TypeOK', NEW c \in Client, NEW s \in Selection, NEW t \in Target,
           ConvertSelection(c, s, t)
    PROVE  LocalHeld' /\ RemoteHeld' /\ AnsweredOnce'
  <1> USE TypeParts DEF HeldOnce
  <1> DEFINE n == moves + 1
             w == [waiting EXCEPT ![c] = n]
             q == [sel |-> s, id |-> n, of |-> Null, target |-> t]
             e == [type |-> "request", sel |-> s, id |-> n, of |-> "agent", target |-> t]
             answers == Overdue(s)
  <1>1. /\ waiting[c] = 0 /\ UNCHANGED <<request, asked>> /\ Tell(w, answers)
        /\ XConvertSelection(s, q)
    BY DEF ConvertSelection, Asks, Told
  <1>2. /\ last'[s].id = n /\ last'[s].of = c
        /\ \A r \in Selection : r # s => last'[r] = last[r]
    BY DEF ConvertSelection
  <1>3. /\ n \in Nat /\ n # 0 /\ w \in [Client \cup Remote -> Nat] /\ w[c] = n
        /\ \A p \in Client \cup Remote : p # c => w[p] = waiting[p]
    BY Asking
  <1>4. \A a \in answers : a.to = last[s].of /\ a.id = last[s].id /\ last[s].of \in Client
    <2>1. last[s].of \in Client \cup {Null}  BY DEF LastType
    <2>2. answers = Answer(last[s], FALSE, Nothing)  BY DEF Overdue
    <2> HIDE DEF answers
    <2>3. QED  BY <2>1, <2>2, AnswerTo
  <1>5. /\ \A r \in Selection : last[r].of # c
        /\ \A d \in Client : \A p \in asked[d] : p.of # c
    BY <1>1, Unheld
  <1>6. Descend(0) /\ 0 \in 0 .. 1
    <2>1. events' = CASE real.owner[s] = Null -> Append(events, Notify(s, FALSE))
                      [] real.owner[s] = "agent" -> Append(events, e)
                      [] OTHER -> events
      BY <1>1 DEF XConvertSelection
    <2> DEFINE m == Notify(s, FALSE)
               o == real.owner[s]
    <2>2. m.type = "notify" /\ m \in Event /\ e \in Event /\ e.of = "agent"
      BY <1>3, EventTypes DEF Notify
    <2>3. ~ FromRemote(m) /\ ~ FromRemote(e)  BY <2>2, ClipboardAssumption DEF FromRemote
    <2>4. Null # "agent"  BY ClipboardAssumption
    <2> HIDE DEF e, o, m
    <2>5. events' = Append(events, m) \/ events' = Append(events, e) \/ events' = events
      <3>1. CASE o = Null  BY <2>1, <2>4, <3>1 DEF m, o
      <3>2. CASE o = "agent"  BY <2>1, <2>4, <3>2 DEF o
      <3>3. CASE o # Null /\ o # "agent"  BY <2>1, <3>3 DEF o
      <3>4. QED  BY <3>1, <3>2, <3>3
    <2>6. QED  BY <2>2, <2>3, <2>5, DescendSame, DescendOne
  <1> HIDE DEF n, w, q, e, answers
  <1>7. RemoteHeld'
    <2>1. \A p \in Remote : w[p] = waiting[p]  BY <1>3, ClipboardAssumption
    <2>2. QED  BY <1>1, <1>3, <1>4, <1>6, <2>1, RemoteUntouched
  <1>8. /\ waiting'[c] = n
        /\ \A p \in Client : p # c /\ p # last[s].of => waiting'[p] = waiting[p]
    <2>1. \A a \in answers : a.to # c  BY <1>4, <1>5
    <2>2. \A p \in Client : p # c /\ p # last[s].of => Left(w, answers, p)
      BY <1>3, <1>4 DEF Left
    <2>3. waiting'[c] = n  BY <1>1, <1>3, <2>1 DEF Tell
    <2>4. QED  BY <1>1, <1>3, <2>2, <2>3, TellOthers
  <1>9. ASSUME NEW r \in Selection, last'[r].of \in Client
        PROVE  /\ last'[r].id = waiting'[last'[r].of] /\ last'[r].id # 0
               /\ \A o \in Selection : last'[o].of = last'[r].of => o = r
    <2>1. CASE r = s
      <3>1. \A o \in Selection : o # s => last'[o].of # c  BY <1>2, <1>5
      <3>2. QED  BY <1>2, <1>3, <1>8, <2>1, <3>1
    <2>2. CASE r # s
      <3>1. last'[r] = last[r] /\ last[r].of # c /\ last[r].of # last[s].of
        BY <1>2, <1>5, <1>9, <2>2 DEF LocalHeld
      <3>2. waiting'[last[r].of] = waiting[last[r].of]  BY <1>8, <1>9, <3>1
      <3>3. last[r].of \in Client  BY <1>9, <3>1
      <3>4. last'[r].id = waiting'[last'[r].of] /\ last'[r].id # 0
        BY <3>1, <3>2, <3>3 DEF LocalHeld
      <3>5. ASSUME NEW o \in Selection, last'[o].of = last'[r].of
            PROVE  o = r
        <4>1. o # s  BY <1>2, <3>1, <3>5
        <4>2. last[o].of = last[r].of  BY <1>2, <3>1, <3>5, <4>1
        <4>3. QED  BY <3>3, <4>2 DEF LocalHeld
      <3>6. QED  BY <3>4, <3>5
    <2>3. QED  BY <2>1, <2>2
  <1>10. ASSUME NEW d \in Client, NEW p \in asked'[d], p.of \in Client
         PROVE  /\ p.id = waiting'[p.of] /\ p.id # 0
                /\ \A r \in Selection : last'[r].of # p.of
                /\ \A f \in Client : \A o \in asked'[f] : o.of = p.of => f = d /\ o = p
    <2>1. p \in asked[d] /\ p.of # c /\ p.of # last[s].of
      BY <1>1, <1>5, <1>10 DEF LocalHeld
    <2>2. QED  BY <1>1, <1>2, <1>8, <1>10, <2>1 DEF LocalHeld
  <1>11. LocalHeld'  BY <1>9, <1>10 DEF LocalHeld
  <1>12. AnsweredOnce'
    <2>1. ASSUME NEW a \in answers
          PROVE  w[a.to] = a.id
      <3>1. a.to = last[s].of /\ a.id = last[s].id /\ last[s].of \in Client  BY <1>4
      <3>2. last[s].of # c  BY <1>5
      <3>3. w[last[s].of] = waiting[last[s].of]  BY <1>3, <3>1, <3>2
      <3>4. waiting[last[s].of] = last[s].id  BY <3>1 DEF LocalHeld
      <3>5. QED  BY <3>1, <3>3, <3>4
    <2>2. QED  BY <1>1, <2>1, TellDue
  <1>13. QED  BY <1>7, <1>11, <1>12

(* A step that answers nobody. *)
LEMMA Silent ==
    ASSUME HeldOnce, TypeOK', Tell(waiting, {}),
           \A s \in Selection : last'[s].of \in Client =>
               last'[s].of = last[s].of /\ last'[s].id = last[s].id,
           \A c \in Client : \A q \in asked'[c] : q.of \in Client => q \in asked[c],
           Released({}), NEW k \in 0 .. 1, Descend(k)
    PROVE  LocalHeld' /\ RemoteHeld' /\ AnsweredOnce'
  <1> DEFINE none == {}
  <1>1. /\ Tell(waiting, none) /\ none \in SUBSET Selection /\ ForThem(none, none)
        /\ Released(none) /\ waiting \in [Client \cup Remote -> Nat]
        /\ \A a \in none : a.to \in Remote
    BY TypeParts DEF ForThem, HeldOnce
  <1> HIDE DEF none
  <1>2. RemoteHeld' /\ AnsweredOnce'  BY <1>1, RemoteReleased
  <1>3. LocalHeld'  BY <1>1, LocalUntouched
  <1>4. QED  BY <1>2, <1>3

(* A step that answers the local client whose request was sent.               *)
LEMMA LastReleased ==
    ASSUME HeldOnce, TypeOK', NEW s \in Selection, NEW ok \in BOOLEAN, NEW d,
           EndTransfer(s, ok, d), UNCHANGED <<asked, request>>, NEW k \in 0 .. 1, Descend(k)
    PROVE  LocalHeld' /\ RemoteHeld' /\ AnsweredOnce'
  <1> USE TypeParts DEF HeldOnce
  <1> DEFINE answers == Answer(last[s], ok, d)
  <1>1. Tell(waiting, answers) /\ last' = [last EXCEPT ![s] = Idle]  BY DEF EndTransfer
  <1>2. \A a \in answers : a.to = last[s].of /\ a.id = last[s].id /\ last[s].of \in Client
    <2>1. last[s].of \in Client \cup {Null}  BY DEF LastType
    <2>2. QED  BY <2>1, AnswerTo
  <1>3. Idle.of \notin Client  BY ClipboardAssumption DEF Idle
  <1> HIDE DEF answers
  <1>4. RemoteHeld'  BY <1>1, <1>2, RemoteUntouched
  <1>5. LocalHeld'
    <2>1. ASSUME NEW r \in Selection, last'[r].of \in Client
          PROVE  last'[r] = last[r] /\ Left(waiting, answers, last[r].of)
      BY <1>1, <1>2, <1>3, <2>1 DEF LocalHeld, Left
    <2>2. ASSUME NEW c \in Client, NEW q \in asked'[c], q.of \in Client
          PROVE  q \in asked[c] /\ Left(waiting, answers, q.of)
      BY <1>2, <2>2 DEF LocalHeld, Left
    <2>3. QED  BY <1>1, <2>1, <2>2, LocalKept
  <1>6. AnsweredOnce'
    <2>1. \A a \in answers : waiting[a.to] = a.id  BY <1>2 DEF LocalHeld
    <2>2. QED  BY <1>1, <2>1, TellDue
  <1>7. QED  BY <1>4, <1>5, <1>6

(* A step in which an owner answers another local client. *)
LEMMA AskedReleased ==
    ASSUME HeldOnce, TypeOK', NEW c \in Client, NEW q \in asked[c], NEW ok \in BOOLEAN, NEW d,
           q.of # "root", Tell(waiting, Answer(q, ok, d)),
           asked' = [asked EXCEPT ![c] = @ \ {q}], UNCHANGED <<last, request, events>>
    PROVE  LocalHeld' /\ RemoteHeld' /\ AnsweredOnce'
  <1> USE TypeParts DEF HeldOnce
  <1> DEFINE answers == Answer(q, ok, d)
  <1>1. \A a \in answers : a.to = q.of /\ a.id = q.id /\ q.of \in Client
    <2>1. q \in Asked(Client \cup {"root", Null})  OBVIOUS
    <2>2. q.of \in Client \cup {Null}  BY <2>1 DEF Asked
    <2>3. QED  BY <2>2, AnswerTo
  <1>2. Tell(waiting, answers)  OBVIOUS
  <1> HIDE DEF answers
  <1>3. Descend(0) /\ 0 \in 0 .. 1  BY DescendSame
  <1>4. RemoteHeld'  BY <1>1, <1>2, <1>3, RemoteUntouched
  <1>5. LocalHeld'
    <2>1. ASSUME NEW r \in Selection, last'[r].of \in Client
          PROVE  last'[r] = last[r] /\ Left(waiting, answers, last[r].of)
      BY <1>1, <2>1 DEF LocalHeld, Left
    <2>2. ASSUME NEW e \in Client, NEW p \in asked'[e], p.of \in Client
          PROVE  p \in asked[e] /\ Left(waiting, answers, p.of)
      <3>1. p \in asked[e] /\ ~ (e = c /\ p = q)  OBVIOUS
      <3>2. q.of \in Client => p.of # q.of  BY <2>2, <3>1 DEF LocalHeld
      <3>3. QED  BY <1>1, <3>1, <3>2 DEF Left
    <2>3. QED  BY <1>2, <2>1, <2>2, LocalKept
  <1>6. AnsweredOnce'
    <2>1. \A a \in answers : waiting[a.to] = a.id  BY <1>1 DEF LocalHeld
    <2>2. QED  BY <1>2, <2>1, TellDue
  <1>7. QED  BY <1>4, <1>5, <1>6

LEMMA OwnersAnswerHeld ==
    ASSUME HeldOnce, TypeOK', NEW c \in Client, NEW q, LocalAnswers(c, q) \/ LocalRefuses(c, q)
    PROVE  LocalHeld' /\ RemoteHeld' /\ AnsweredOnce'
  <1> USE TypeParts DEF HeldOnce
  <1>1. q \in asked[c] /\ asked' = [asked EXCEPT ![c] = @ \ {q}] /\ last' = last
    BY DEF LocalAnswers, LocalRefuses, agent
  <1>2. q \in Asked(Client \cup {"root", Null})  BY <1>1
  <1>3. q.sel \in Selection  BY <1>2 DEF Asked
  <1>4. \A d \in Client : \A p \in asked'[d] : p \in asked[d]  BY <1>1
  <1> DEFINE s == q.sel
             e == [type |-> "self", sel |-> s]
             r == request[s]
             b == NotifySelf(r, s, FALSE)
  <1>5. CASE LocalAnswers(c, q) /\ q.of = "root"
    <2>1. /\ Tell(waiting, {}) /\ request' = request
          /\ events' = events \/ events' = Append(events, e)
      BY <1>5 DEF LocalAnswers, agent
    <2>2. e \in Event /\ e.type = "self"  BY <1>3, EventTypes
    <2> HIDE DEF e
    <2>3. ~ FromRemote(e)  BY <2>2 DEF FromRemote
    <2>4. Descend(0) /\ 0 \in 0 .. 1  BY <2>1, <2>2, <2>3, DescendSame, DescendOne
    <2>5. Released({})  BY <2>1 DEF Released
    <2>6. QED  BY <1>1, <1>4, <2>1, <2>4, <2>5, Silent
  <1>6. CASE LocalAnswers(c, q) /\ q.of # "root"
    <2> DEFINE data == [id |-> q.id, by |-> c]
    <2>1. Tell(waiting, Answer(q, TRUE, data)) /\ UNCHANGED <<request, events>>
      BY <1>6 DEF LocalAnswers, agent
    <2> HIDE DEF data
    <2>2. QED  BY <1>1, <1>6, <2>1, AskedReleased
  <1>7. CASE LocalRefuses(c, q) /\ r # NoRequest
    <2>1. /\ request' = [request EXCEPT ![s] = NoRequest]
          /\ Tell(waiting, Answer(r, FALSE, Nothing)) /\ events' = events \o b
      BY <1>7 DEF LocalRefuses
    <2> DEFINE S == {s}
               answers == Answer(r, FALSE, Nothing)
    <2>2. NoRequest.of \notin Remote  BY ClipboardAssumption DEF NoRequest
    <2>3. Released(S)  BY <1>3, <2>1, <2>2 DEF Released
    <2>4. ForThem(answers, S) /\ S \in SUBSET Selection
      <3>1. \A a \in answers :
               a.to = request[s].of /\ a.id = request[s].id /\ request[s].of \in Remote
        BY <1>3, RequestOf
      <3> HIDE DEF answers
      <3>2. QED  BY <1>3, <3>1 DEF ForThem
    <2>5. b \in Seq(Event) /\ \A f \in Items(b) : ~ FromRemote(f)
      <3> HIDE DEF s, r
      <3>1. b \in Seq(Event)  BY <1>3, NotifySelfType DEF s
      <3>2. \A f \in Items(b) : f.type = "notify"  BY <1>3, PlainOnes DEF s
      <3> HIDE DEF b
      <3>3. QED  BY <3>1, <3>2 DEF FromRemote
    <2> HIDE DEF S, answers, b
    <2>6. Descend(0) /\ 0 \in 0 .. 1
      <3>1. events \in Seq(Event) /\ events' = events \o b  BY <2>1
      <3>2. Descend(0)  BY <2>5, <3>1, DescendMore
      <3>3. QED  BY <3>2
    <2>7. Tell(waiting, answers)  BY <2>1 DEF answers
    <2>8. RemoteHeld' /\ AnsweredOnce'  BY <2>3, <2>4, <2>6, <2>7, RemoteReleased
    <2>9. \A a \in answers : a.to \in Remote  BY <2>4 DEF ForThem
    <2>10. LocalHeld'  BY <1>1, <1>4, <2>7, <2>9, LocalUntouched
    <2>11. QED  BY <2>8, <2>10
  <1>8. CASE LocalRefuses(c, q) /\ r = NoRequest
    <2>1. UNCHANGED <<request, events>>  BY <1>8 DEF LocalRefuses
    <2>2. CASE q.of = "root"
      <3>1. Tell(waiting, {})  BY <1>8, <2>2 DEF LocalRefuses
      <3>2. Released({})  BY <2>1 DEF Released
      <3>3. Descend(0) /\ 0 \in 0 .. 1  BY <2>1, DescendSame
      <3>4. QED  BY <1>1, <1>4, <3>1, <3>2, <3>3, Silent
    <2>3. CASE q.of # "root"
      <3>1. Tell(waiting, Answer(q, FALSE, Nothing))  BY <1>8, <2>3 DEF LocalRefuses
      <3>2. QED  BY <1>1, <2>1, <2>3, <3>1, AskedReleased
    <2>4. QED  BY <2>2, <2>3
  <1>9. QED  BY <1>5, <1>6, <1>7, <1>8

LEMMA RemoteSetsOwnerHeld ==
    ASSUME HeldOnce, TypeOK', NEW s \in Selection, NEW v \in Remote \cup {Null},
           RemoteSetsOwner(s, v)
    PROVE  LocalHeld' /\ RemoteHeld' /\ AnsweredOnce'
  <1> USE TypeParts DEF HeldOnce
  <1> DEFINE b == OwnerEvents(s, v)
  <1>1. /\ UNCHANGED <<last, request, asked>> /\ Tell(waiting, {})
        /\ events' = events \o b
    BY DEF RemoteSetsOwner, agent
  <1>2. b \in Seq(Event) /\ \A e \in Items(b) : e.type = "owner"
    BY OwnerEventsType, PlainOnes
  <1> HIDE DEF b
  <1>3. \A e \in Items(b) : ~ FromRemote(e)  BY <1>2 DEF FromRemote
  <1>4. Descend(0) /\ 0 \in 0 .. 1
    <2>1. events \in Seq(Event) /\ events' = events \o b /\ b \in Seq(Event)
      BY <1>1, <1>2
    <2>2. Descend(0)  BY <1>3, <2>1, DescendMore
    <2>3. QED  BY <2>2
  <1>5. Released({})  BY <1>1 DEF Released
  <1>6. QED  BY <1>1, <1>4, <1>5, Silent

LEMMA RemoteConvertsHeld ==
    ASSUME HeldOnce, TypeOK', NEW c \in Remote, NEW s \in Selection, NEW t \in Target,
           RemoteConverts(c, s, t)
    PROVE  LocalHeld' /\ RemoteHeld' /\ AnsweredOnce'
  <1> USE TypeParts DEF HeldOnce
  <1> DEFINE n == moves + 1
             w == [waiting EXCEPT ![c] = n]
             x == [type |-> "request", sel |-> s, id |-> n, of |-> c, target |-> t]
             none == {}
  <1>1. /\ waiting[c] = 0 /\ UNCHANGED <<request, last, asked>> /\ Tell(w, none)
        /\ events' = Append(events, x)
    BY DEF RemoteConverts, agent, Asks, Told
  <1>2. /\ n \in Nat /\ n # 0 /\ w \in [Client \cup Remote -> Nat] /\ w[c] = n
        /\ \A p \in Client \cup Remote : p # c => w[p] = waiting[p]
    BY Asking
  <1>3. x.of = c /\ x.id = n  OBVIOUS
  <1>4. /\ \A r \in Selection : request[r].of # c
        /\ \A i \in DOMAIN events : FromRemote(events[i]) => events[i].of # c
    BY <1>1, Unheld
  <1>5. /\ waiting'[c] = n
        /\ \A p \in Client \cup Remote : p # c => waiting'[p] = waiting[p]
    BY <1>1, <1>2 DEF Tell
  <1>6. (\A a \in none : a.to \in Remote) /\ \A a \in none : w[a.to] = a.id  OBVIOUS
  <1> HIDE DEF n, w, x, none
  <1>7. LocalHeld'
    <2>1. \A d \in Client : w[d] = waiting[d]  BY <1>2, ClipboardAssumption
    <2>2. QED  BY <1>1, <1>2, <1>6, <2>1, LocalUntouched
  <1>8. AnsweredOnce'  BY <1>1, <1>6, TellDue
  <1>9. ASSUME NEW i \in DOMAIN events'
        PROVE  \/ i \in DOMAIN events /\ events'[i] = events[i]
               \/ i = Len(events) + 1 /\ events'[i] = x
    BY <1>1, <1>9
  <1>10. ASSUME NEW r \in Selection, request'[r].of \in Remote
         PROVE  /\ request'[r].id = waiting'[request'[r].of] /\ request'[r].id # 0
                /\ \A o \in Selection : request'[o].of = request'[r].of => o = r
    BY <1>1, <1>4, <1>5, <1>10 DEF RemoteHeld
  <1>11. ASSUME NEW i \in DOMAIN events', FromRemote(events'[i])
         PROVE  /\ events'[i].id = waiting'[events'[i].of] /\ events'[i].id # 0
                /\ \A r \in Selection : request'[r].of # events'[i].of
                /\ \A j \in DOMAIN events' :
                       FromRemote(events'[j]) /\ events'[j].of = events'[i].of => j = i
    <2>1. CASE i \in DOMAIN events /\ events'[i] = events[i]
      <3>1. events[i].of # c /\ events[i].of \in Remote
        BY <1>4, <1>11, <2>1 DEF FromRemote
      <3>2. \A j \in DOMAIN events' :
                FromRemote(events'[j]) /\ events'[j].of = events'[i].of => j = i
        BY <1>3, <1>9, <1>11, <2>1, <3>1 DEF RemoteHeld
      <3>3. QED  BY <1>1, <1>5, <1>11, <2>1, <3>1, <3>2 DEF RemoteHeld
    <2>2. CASE i = Len(events) + 1 /\ events'[i] = x
      <3>1. \A j \in DOMAIN events' :
                FromRemote(events'[j]) /\ events'[j].of = c => j = i
        BY <1>4, <1>9, <2>2
      <3>2. QED  BY <1>1, <1>2, <1>3, <1>4, <1>5, <2>2, <3>1
    <2>3. QED  BY <1>9, <2>1, <2>2
  <1>12. RemoteHeld'  BY <1>10, <1>11 DEF RemoteHeld
  <1>13. QED  BY <1>7, <1>8, <1>12

LEMMA RemoteAnswersHeld ==
    ASSUME HeldOnce, TypeOK', NEW q, NEW ok \in BOOLEAN, RemoteAnswers(q, ok)
    PROVE  LocalHeld' /\ RemoteHeld' /\ AnsweredOnce'
  <1> USE TypeParts DEF HeldOnce
  <1> DEFINE e == Notify(q.sel, ok)
  <1>1. /\ UNCHANGED <<last, request, asked>> /\ Tell(waiting, {})
        /\ events' = Append(events, e) /\ q \in real.conversions
    BY DEF RemoteAnswers, agent
  <1>2. q.sel \in Selection  BY <1>1 DEF RealType, Asked
  <1>3. e \in Event /\ e.type = "notify"  BY <1>2, EventTypes DEF Notify
  <1> HIDE DEF e
  <1>4. ~ FromRemote(e)  BY <1>3 DEF FromRemote
  <1>5. Descend(0) /\ 0 \in 0 .. 1  BY <1>1, <1>3, <1>4, DescendOne
  <1>6. Released({})  BY <1>1 DEF Released
  <1>7. QED  BY <1>1, <1>5, <1>6, Silent

LEMMA HandleSelectionClearHeld ==
    ASSUME HeldOnce, TypeOK', HandleSelectionClear
    PROVE  LocalHeld' /\ RemoteHeld' /\ AnsweredOnce'
  <1> USE TypeParts DEF HeldOnce
  <1> DEFINE s == Head(events).sel
  <1>1. /\ UNCHANGED <<request, asked>> /\ Tell(waiting, {})
        /\ Received("owner") /\ events' = Tail(events)
        /\ last' = last \/ last' = [last EXCEPT ![s] = Idle]
    BY DEF HandleSelectionClear
  <1>2. Idle.of \notin Client  BY ClipboardAssumption DEF Idle
  <1> HIDE DEF s
  <1>3. \A r \in Selection : last'[r].of \in Client => last'[r] = last[r]
    BY <1>1, <1>2
  <1>4. Descend(1) /\ 1 \in 0 .. 1  BY <1>1, DescendTail
  <1>5. Released({})  BY <1>1 DEF Released
  <1>6. QED  BY <1>1, <1>3, <1>4, <1>5, Silent

(* A request of the real server is answered at once. *)
LEMMA ReplyHeld ==
    ASSUME HeldOnce, TypeOK', Received("request"), NEW ok \in BOOLEAN, NEW d,
           ReplyRequest(Head(events), ok, d), UNCHANGED <<last, request, asked>>
    PROVE  LocalHeld' /\ RemoteHeld' /\ AnsweredOnce'
  <1> USE TypeParts DEF HeldOnce
  <1> DEFINE q == Head(events)
             b == NotifySelf(q, q.sel, ok)
             answers == Answer(q, ok, d)
  <1>1. Tell(waiting, answers) /\ events' = Tail(events) \o b  BY DEF ReplyRequest
  <1>2. q.sel \in Selection /\ q.of \in Remote \cup {"agent"}  BY HeadOfType
  <1>3. /\ 1 \in DOMAIN events /\ events[1] = q /\ q.type = "request"
    BY DEF Received
  <1>4. b \in Seq(Event) /\ \A f \in Items(b) : f.type = "notify"
    <2> HIDE DEF q
    <2>1. QED  BY <1>2, NotifySelfType, PlainOnes
  <1> HIDE DEF b, q
  <1>5. \A f \in Items(b) : ~ FromRemote(f)  BY <1>4 DEF FromRemote
  <1>6. Descend(1) /\ 1 \in 0 .. 1
    <2>1. events \in Seq(Event) /\ events' = Tail(events) \o b /\ b \in Seq(Event)
      BY <1>1, <1>4
    <2>2. Descend(1)  BY <1>5, <2>1, DescendLess
    <2>3. QED  BY <2>2
  <1>7. \A a \in answers : /\ a.to = q.of /\ a.id = q.id /\ q.of \in Remote
                           /\ FromRemote(events[1])
    BY <1>2, <1>3, AnswerTo DEF FromRemote
  <1> HIDE DEF answers
  <1>8. events' \in Seq(Event)  BY TypePartsPrimed
  <1>9. \A s \in Selection : request'[s].of \in Remote =>
            request'[s] = request[s] /\ Left(waiting, answers, request[s].of)
    BY <1>3, <1>7 DEF RemoteHeld, Left
  <1>10. ASSUME NEW i \in DOMAIN events', FromRemote(events'[i])
         PROVE  Left(waiting, answers, events'[i].of)
    <2>1. i + 1 \in DOMAIN events /\ events[i + 1] = events'[i]  BY <1>6, <1>10 DEF Descend
    <2>2. i + 1 # 1  BY <1>8
    <2>3. QED  BY <1>3, <1>7, <1>10, <2>1, <2>2 DEF RemoteHeld, Left
  <1>11. RemoteHeld'  BY <1>1, <1>6, <1>8, <1>9, <1>10, RemoteKept
  <1>12. LocalHeld'  BY <1>1, <1>7, LocalUntouched
  <1>13. AnsweredOnce'
    <2>1. \A a \in answers : waiting[a.to] = a.id  BY <1>3, <1>7 DEF RemoteHeld
    <2>2. QED  BY <1>1, <2>1, TellDue
  <1>14. QED  BY <1>11, <1>12, <1>13

LEMMA RequestRepliedHeld ==
    ASSUME HeldOnce, TypeOK', RequestDenied \/ RequestAnswered \/ RequestNotAllowed
    PROVE  LocalHeld' /\ RemoteHeld' /\ AnsweredOnce'
  <1> DEFINE q == Head(events)
  <1>1. /\ Received("request") /\ UNCHANGED <<last, request, asked>>
        /\ \E ok \in BOOLEAN : \E d : ReplyRequest(q, ok, d)
    <2>1. CASE RequestDenied \/ RequestNotAllowed
      <3>1. ReplyRequest(q, FALSE, Nothing)  BY <2>1 DEF RequestDenied, RequestNotAllowed
      <3>2. QED  BY <2>1, <3>1 DEF RequestDenied, RequestNotAllowed, agent
    <2>2. CASE RequestAnswered
      <3> DEFINE d == [id |-> q.id, by |-> cache[q.sel].by]
      <3>1. ReplyRequest(q, TRUE, d)  BY <2>2 DEF RequestAnswered
      <3> HIDE DEF d, q
      <3>2. QED  BY <2>2, <3>1 DEF RequestAnswered, agent
    <2>3. QED  BY <2>1, <2>2
  <1>2. QED  BY <1>1, ReplyHeld

(* The request that leaves the queue is the pending one. *)
LEMMA HandleSelectionRequestHeld ==
    ASSUME HeldOnce, TypeOK', HandleSelectionRequest
    PROVE  LocalHeld' /\ RemoteHeld' /\ AnsweredOnce'
  <1> USE TypeParts DEF HeldOnce
  <1> DEFINE q == Head(events)
             s == q.sel
             c == owner[s]
             m == [id |-> q.id, of |-> q.of, target |-> q.target]
             n == [sel |-> s, id |-> q.id, of |-> "root", target |-> q.target]
             none == {}
  <1>1. /\ last' = last /\ Received("request") /\ events' = Tail(events)
        /\ request' = [request EXCEPT ![s] = m]
        /\ asked' = [asked EXCEPT ![c] = @ \cup {n}] /\ Tell(waiting, none)
    BY DEF HandleSelectionRequest
  <1>2. s \in Selection  BY <1>1, HeadOfType
  <1>3. 1 \in DOMAIN events /\ events[1] = q /\ q.type = "request"
    BY <1>1 DEF Received
  <1>4. n.of \notin Client /\ m.of = q.of /\ m.id = q.id  BY ClipboardAssumption
  <1>5. \A a \in none : a.to \in Remote /\ waiting[a.to] = a.id  OBVIOUS
  <1> HIDE DEF q, s, c, m, n, none
  <1>6. Descend(1)  BY <1>1, DescendTail
  <1>7. \A p \in Client \cup Remote : waiting'[p] = waiting[p]
    BY <1>1 DEF Tell, none
  <1>8. events' \in Seq(Event)  BY TypePartsPrimed
  <1>9. request'[s] = m /\ \A r \in Selection : r # s => request'[r] = request[r]
    BY <1>1, <1>2
  <1>10. q.of \in Remote => FromRemote(events[1])  BY <1>3 DEF FromRemote
  <1>11. ASSUME NEW r \in Selection, request'[r].of \in Remote
         PROVE  /\ request'[r].id = waiting'[request'[r].of] /\ request'[r].id # 0
                /\ \A o \in Selection : request'[o].of = request'[r].of => o = r
    <2>1. CASE r = s
      <3>1. /\ q.of \in Remote /\ q.id = waiting[q.of] /\ q.id # 0
            /\ \A o \in Selection : request[o].of # q.of
        BY <1>3, <1>4, <1>9, <1>10, <1>11, <2>1 DEF RemoteHeld
      <3>2. QED  BY <1>4, <1>7, <1>9, <2>1, <3>1
    <2>2. CASE r # s
      <3>1. request'[r] = request[r] /\ request[r].of # q.of
        BY <1>3, <1>9, <1>10, <1>11, <2>2 DEF RemoteHeld
      <3>2. ASSUME NEW o \in Selection, request'[o].of = request[r].of
            PROVE  o = r
        <4>1. o # s  BY <1>4, <1>9, <3>1, <3>2
        <4>2. request[o].of = request[r].of  BY <1>9, <3>2, <4>1
        <4>3. request[r].of \in Remote  BY <1>11, <3>1
        <4>4. QED  BY <4>2, <4>3 DEF RemoteHeld
      <3>3. QED  BY <1>7, <1>11, <3>1, <3>2 DEF RemoteHeld
    <2>3. QED  BY <2>1, <2>2
  <1>12. ASSUME NEW i \in DOMAIN events', FromRemote(events'[i])
         PROVE  /\ events'[i].id = waiting'[events'[i].of] /\ events'[i].id # 0
                /\ \A r \in Selection : request'[r].of # events'[i].of
                /\ \A j \in DOMAIN events' :
                       FromRemote(events'[j]) /\ events'[j].of = events'[i].of => j = i
    <2>1. i + 1 \in DOMAIN events /\ events[i + 1] = events'[i]  BY <1>6, <1>12 DEF Descend
    <2>2. events'[i].of \in Remote  BY <1>12 DEF FromRemote
    <2>3. i + 1 # 1  BY <1>8
    <2>4. q.of # events'[i].of  BY <1>3, <1>10, <1>12, <2>1, <2>2, <2>3 DEF RemoteHeld
    <2>5. \A r \in Selection : request'[r].of # events'[i].of
      BY <1>4, <1>9, <1>12, <2>1, <2>4 DEF RemoteHeld
    <2>6. ASSUME NEW j \in DOMAIN events', FromRemote(events'[j]), events'[j].of = events'[i].of
          PROVE  j = i
      <3>1. j + 1 \in DOMAIN events /\ events[j + 1] = events'[j]  BY <1>6, <2>6 DEF Descend
      <3>2. j + 1 = i + 1  BY <1>12, <2>1, <2>6, <3>1 DEF RemoteHeld
      <3>3. QED  BY <1>8, <3>2
    <2>7. QED  BY <1>7, <1>12, <2>1, <2>2, <2>5, <2>6 DEF RemoteHeld
  <1>13. RemoteHeld'  BY <1>11, <1>12 DEF RemoteHeld
  <1>14. LocalHeld'
    <2>1. \A d \in Client : \A p \in asked'[d] : p.of \in Client => p \in asked[d]
      BY <1>1, <1>4
    <2>2. QED  BY <1>1, <1>5, <2>1, LocalUntouched
  <1>15. AnsweredOnce'  BY <1>1, <1>5, TellDue
  <1>16. QED  BY <1>13, <1>14, <1>15

LEMMA HandlePropertyTransferHeld ==
    ASSUME HeldOnce, TypeOK', HandlePropertyTransfer
    PROVE  LocalHeld' /\ RemoteHeld' /\ AnsweredOnce'
  <1> USE TypeParts DEF HeldOnce
  <1> DEFINE s == Head(events).sel
             q == request[s]
             data == cut[owner[s]]
             b == NotifySelf(q, s, TRUE)
             answers == Answer(q, TRUE, data)
             S == {s}
  <1>1. Received("self") /\ UNCHANGED <<last, asked>>  BY DEF HandlePropertyTransfer
  <1>2. s \in Selection  BY <1>1, HeadOfType
  <1>3. CASE IsLocalOwner(s) /\ q # NoRequest
    <2>1. /\ request' = [request EXCEPT ![s] = NoRequest]
          /\ Tell(waiting, answers) /\ events' = Tail(events) \o b
      BY <1>3 DEF HandlePropertyTransfer
    <2>2. b \in Seq(Event) /\ \A e \in Items(b) : e.type = "notify"
      <3> HIDE DEF s, q
      <3>1. QED  BY <1>2, NotifySelfType, PlainOnes
    <2>3. \A a \in answers : a.to = q.of /\ a.id = q.id /\ q.of \in Remote
      BY <1>2, RequestOf
    <2> HIDE DEF b, data, answers
    <2>4. ForThem(answers, S) /\ S \in SUBSET Selection  BY <1>2, <2>3 DEF ForThem
    <2>5. NoRequest.of \notin Remote  BY ClipboardAssumption DEF NoRequest
    <2>6. Released(S)  BY <1>2, <2>1, <2>5 DEF Released
    <2> HIDE DEF s, q, S
    <2>7. \A e \in Items(b) : ~ FromRemote(e)  BY <2>2 DEF FromRemote
    <2>8. Descend(1) /\ 1 \in 0 .. 1
      <3>1. events \in Seq(Event) /\ events' = Tail(events) \o b /\ b \in Seq(Event)
        BY <2>1, <2>2
      <3>2. Descend(1)  BY <1>1, <2>7, <3>1, DescendLess
      <3>3. QED  BY <3>2
    <2>9. RemoteHeld' /\ AnsweredOnce'  BY <2>1, <2>4, <2>6, <2>8, RemoteReleased
    <2>10. \A a \in answers : a.to \in Remote  BY <2>3
    <2>11. LocalHeld'  BY <1>1, <2>1, <2>10, LocalUntouched
    <2>12. QED  BY <2>9, <2>11
  <1>4. CASE ~ (IsLocalOwner(s) /\ q # NoRequest)
    <2>1. events' = Tail(events) /\ Tell(waiting, {}) /\ request' = request
      BY <1>4 DEF HandlePropertyTransfer
    <2>2. Descend(1) /\ 1 \in 0 .. 1  BY <1>1, <2>1, DescendTail
    <2>3. Released({})  BY <2>1 DEF Released
    <2>4. QED  BY <1>1, <2>1, <2>2, <2>3, Silent
  <1>5. QED  BY <1>3, <1>4

LEMMA HandleSelectionNotifyHeld ==
    ASSUME HeldOnce, TypeOK', HandleSelectionNotify
    PROVE  LocalHeld' /\ RemoteHeld' /\ AnsweredOnce'
  <1> USE TypeParts DEF HeldOnce
  <1> DEFINE s == Head(events).sel
             r == CHOOSE i \in Free : \A j \in Free : i <= j
             e == [type |-> "collected", resource |-> r, data |-> real.buffer]
             Begun == last[s] # Idle /\ last[s].stage = "None" /\ Head(events).ok /\ Free # {}
  <1>1. Received("notify") /\ UNCHANGED <<request, asked>>  BY DEF HandleSelectionNotify
  <1>2. s \in Selection /\ Tail(events) \in Seq(Event)  BY <1>1, HeadOfType
  <1>3. CASE Begun
    <2>1. /\ last' = [last EXCEPT ![s].stage = "WaitData", ![s].resource = r]
          /\ events' = Append(Tail(events), e) /\ Tell(waiting, {})
      BY <1>3 DEF HandleSelectionNotify
    <2>2. r \in 1 .. Slots
      <3>1. Free \in SUBSET (1 .. Slots) /\ Free \in SUBSET Nat  BY DEF Free
      <3> HIDE DEF Free
      <3>2. r \in Free  BY <1>3, <3>1, LeastNumber
      <3>3. QED  BY <3>1, <3>2
    <2>3. e \in Event /\ e.type = "collected"
      <3> HIDE DEF r
      <3>1. QED  BY <2>2, EventTypes DEF RealType
    <2>4. \A p \in Selection : last'[p].of = last[p].of /\ last'[p].id = last[p].id
      <3> HIDE DEF s, r
      <3>1. last'[s].of = last[s].of /\ last'[s].id = last[s].id  BY <1>2, <2>1
      <3>2. \A p \in Selection : p # s => last'[p] = last[p]  BY <1>2, <2>1
      <3>3. QED  BY <3>1, <3>2
    <2> HIDE DEF e, s, r
    <2> DEFINE b == <<e>>
    <2>5. events' = Tail(events) \o b /\ b \in Seq(Event)
      BY <1>2, <2>1, <2>3, AppendOne
    <2>6. \A f \in Items(b) : ~ FromRemote(f)
      <3>1. Items(b) = {e}  BY PlainOnes
      <3>2. QED  BY <2>3, <3>1 DEF FromRemote
    <2> HIDE DEF b
    <2>7. Descend(1) /\ 1 \in 0 .. 1
      <3>1. events \in Seq(Event)  OBVIOUS
      <3>2. Descend(1)  BY <1>1, <2>5, <2>6, <3>1, DescendLess
      <3>3. QED  BY <3>2
    <2>8. Released({})  BY <1>1 DEF Released
    <2>9. QED  BY <1>1, <2>1, <2>4, <2>7, <2>8, Silent
  <1>4. CASE ~ Begun
    <2>1. EndTransfer(s, FALSE, Nothing) /\ events' = Tail(events)
      BY <1>4 DEF HandleSelectionNotify
    <2> HIDE DEF s
    <2>2. Descend(1) /\ 1 \in 0 .. 1  BY <1>1, <2>1, DescendTail
    <2> DEFINE ok == FALSE
    <2>3. EndTransfer(s, ok, Nothing) /\ ok \in BOOLEAN  BY <2>1
    <2> HIDE DEF ok
    <2>4. QED  BY <1>1, <1>2, <2>2, <2>3, LastReleased
  <1>5. QED  BY <1>3, <1>4

LEMMA CollectPropertyHeld ==
    ASSUME HeldOnce, TypeOK', NEW fits \in BOOLEAN, CollectProperty(fits)
    PROVE  LocalHeld' /\ RemoteHeld' /\ AnsweredOnce'
  <1> USE TypeParts DEF HeldOnce
  <1> DEFINE data == Head(events).data
             for == {s \in Selection : last[s].resource = Head(events).resource}
             s == CHOOSE i \in for : \A j \in for : i <= j
             ok == fits /\ data # Nothing
  <1>1. /\ Received("collected") /\ UNCHANGED <<request, asked>> /\ events' = Tail(events)
    BY DEF CollectProperty
  <1>2. Descend(1) /\ 1 \in 0 .. 1  BY <1>1, DescendTail
  <1>3. CASE for = {}
    <2>1. Tell(waiting, {}) /\ last' = last  BY <1>3 DEF CollectProperty
    <2>2. Released({})  BY <1>1 DEF Released
    <2>3. QED  BY <1>1, <1>2, <2>1, <2>2, Silent
  <1>4. CASE for # {}
    <2>1. EndTransfer(s, ok, data)  BY <1>4 DEF CollectProperty
    <2>2. s \in Selection
      <3>1. for \in SUBSET Nat /\ for \in SUBSET Selection  BY DEF Selection
      <3>2. s \in for
        <4> HIDE DEF for
        <4>1. QED  BY <1>4, <3>1, LeastNumber
      <3> HIDE DEF s
      <3>3. QED  BY <3>2
    <2>3. ok \in BOOLEAN  OBVIOUS
    <2> HIDE DEF ok, data, s
    <2>4. QED  BY <1>1, <1>2, <2>1, <2>2, <2>3, LastReleased
  <1>5. QED  BY <1>3, <1>4

(* On another display, nobody waits who waited at the last one. *)
LEMMA ReconnectHeld ==
    ASSUME HeldOnce, OwnersKept, Reconnect
    PROVE  LocalHeld' /\ RemoteHeld' /\ AnsweredOnce'
  <1> USE TypeParts DEF HeldOnce
  <1> DEFINE w == [p \in Client \cup Remote |-> IF p \in Remote THEN 0 ELSE waiting[p]]
             none == {}
  <1>1. /\ UNCHANGED <<last, asked>> /\ events' = << >> /\ Tell(w, none)
        /\ request' = IF Claims THEN At(request, Selection, NoRequest) ELSE request
    BY DEF Reconnect, Claims
  <1>2. \A s \in Selection : request'[s] = NoRequest
    BY <1>1 DEF OwnersKept, At
  <1>3. NoRequest.of \notin Remote  BY ClipboardAssumption DEF NoRequest
  <1>4. w \in [Client \cup Remote -> Nat] /\ \A c \in Client : w[c] = waiting[c]
    BY ClipboardAssumption
  <1>5. \A a \in none : a.to \in Remote /\ w[a.to] = a.id  OBVIOUS
  <1> HIDE DEF w, none
  <1>6. RemoteHeld'  BY <1>1, <1>2, <1>3 DEF RemoteHeld
  <1>7. LocalHeld'  BY <1>1, <1>4, <1>5, LocalUntouched
  <1>8. AnsweredOnce'  BY <1>1, <1>5, TellDue
  <1>9. QED  BY <1>6, <1>7, <1>8

LEMMA HeldStep ==
    ASSUME HeldOnce, AnsweredOnce, OwnersKept, TypeOK', [Next]_vars
    PROVE  LocalHeld' /\ RemoteHeld' /\ AnsweredOnce'
  <1>1. CASE Handle
    BY <1>1, HandleSelectionClearHeld, RequestRepliedHeld, HandleSelectionRequestHeld,
       HandlePropertyTransferHeld, HandleSelectionNotifyHeld, CollectPropertyHeld DEF Handle
  <1>2. CASE RemoteOwnerAnswers  BY <1>2, RemoteAnswersHeld DEF RemoteOwnerAnswers
  <1>3. CASE Reconnect  BY <1>3, ReconnectHeld
  <1>4. CASE \E c \in Client : OwnerAnswers(c) \/ CloseDownClient(c)
    BY <1>4, OwnersAnswerHeld, CloseDownClientHeld DEF OwnerAnswers
  <1>5. CASE \E s \in Selection, w \in Client \cup {Null} : SetSelectionOwner(s, w)
    BY <1>5, SetSelectionOwnerHeld
  <1>6. CASE \E c \in Client, s \in Selection, t \in Target :
                 \/ ConvertLocally(c, s, t) \/ ConvertRefused(c, s, t)
                 \/ ConvertAnswered(c, s, t) \/ ConvertSelection(c, s, t)
    BY <1>6, ConvertLocallyHeld, ConvertInsideHeld, ConvertSelectionHeld
  <1>7. CASE \/ \E s \in Selection, w \in Remote \cup {Null} : RemoteSetsOwner(s, w)
             \/ \E p \in Remote, s \in Selection, t \in Target : RemoteConverts(p, s, t)
    BY <1>7, RemoteSetsOwnerHeld, RemoteConvertsHeld
  <1>8. CASE UNCHANGED vars
    BY <1>8 DEF vars, agent, HeldOnce, LocalHeld, RemoteHeld, AnsweredOnce, FromRemote
  <1>9. QED
    BY <1>1, <1>2, <1>3, <1>4, <1>5, <1>6, <1>7, <1>8 DEF Next

LEMMA HeldInit ==
    ASSUME Init
    PROVE  LocalHeld /\ RemoteHeld /\ AnsweredOnce
  <1>1. Idle.of \notin Client /\ NoRequest.of \notin Remote
    BY ClipboardAssumption DEF Idle, NoRequest
  <1>2. /\ \A s \in Selection : last[s] = Idle /\ request[s] = NoRequest
        /\ \A c \in Client : asked[c] = {}
        /\ events = << >> /\ told = {}
    BY DEF Init
  <1>3. LocalHeld  BY <1>1, <1>2 DEF LocalHeld
  <1>4. RemoteHeld  BY <1>1, <1>2 DEF RemoteHeld
  <1>5. QED  BY <1>2, <1>3, <1>4 DEF AnsweredOnce

(* Every answer goes to a client that waits for it: nobody is told twice, by  *)
(* the owner and by the agent, and nobody of an earlier request.              *)
THEOREM AnswersDue == Spec => []AnsweredOnce
  <1> DEFINE Inv == /\ ExchangeInv /\ RightAnswers
                    /\ LocalHeld /\ RemoteHeld /\ AnsweredOnce
  <1>1. Init => Inv  BY ExchangeInit, HeldInit
  <1>2. Inv /\ [Next]_vars => Inv'
    <2> SUFFICES ASSUME Inv, [Next]_vars
                 PROVE  Inv'
      OBVIOUS
    <2>1. ExchangeInv' /\ RightAnswers'  BY ExchangeStep
    <2>2. HeldOnce /\ OwnersKept /\ TypeOK'  BY <2>1 DEF HeldOnce, ExchangeInv
    <2>3. QED  BY <2>1, <2>2, HeldStep
  <1>3. Inv => AnsweredOnce  OBVIOUS
  <1>4. QED  BY <1>1, <1>2, <1>3, PTL DEF Spec
=============================================================================
