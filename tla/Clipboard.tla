----------------------------- MODULE Clipboard -----------------------------
(***************************************************************************)
(* The clipboard of nxagent (Clipboard.c, with the places of the X server  *)
(* that call it: dispatch.c, NXdispatch.c, NXevents.c, NXproperty.c,       *)
(* Events.c).  The agent is one client of the real X server.  When one of  *)
(* its own clients takes a selection, the agent takes it on the real       *)
(* server; requests of remote clients are passed on to the local owner,    *)
(* whose answer goes through a property of the owner's window and a        *)
(* notification that the agent sends to itself.  Requests of local clients *)
(* for a selection owned outside are passed on to the real server; the     *)
(* answer comes in a property of the agent's window, which is collected.   *)
(*                                                                         *)
(* In neither direction does an answer carry the identity of its request.  *)
(* We number the requests, and data has the number of the request it was   *)
(* made for.  What the agent sends takes effect at the real server at      *)
(* once, and what comes back waits in a queue: that is every order of      *)
(* events that two queues have.  Times are left out: a request that finds  *)
(* another one pending may find it overdue or not.                         *)
(***************************************************************************)
EXTENDS Naturals, Sequences

CONSTANTS Client, Remote, \* clients of the agent and of the real server
          Null,
          Options,        \* values of the options Clipboard and TextClipboard
          Slots,          \* resources to collect properties with
          MaxMoves        \* bound: things that clients do of themselves

ASSUME ClipboardAssumption ==
    /\ Slots \in Nat /\ MaxMoves \in Nat
    /\ Options \subseteq [clipboard : {"both", "client", "server", "none"}, text : BOOLEAN]
    /\ Null \notin Client \cup Remote /\ Client \cap Remote = {}
    /\ {"agent", "root"} \cap (Client \cup Remote \cup {Null}) = {}

VARIABLES
    option,     \* nxagentOption(Clipboard), nxagentOption(TextClipboard)
    dix,        \* CurrentSelections: a client, "root" or Null
    owner,      \* lastSelectionOwner
    last,       \* lastClients: the local request sent to the real server
    request,    \* lastServers: the remote request sent to the local owner
    requested,  \* serverLastRequestedSelection
    cache,      \* targetCache: which way, and whose targets
    cut,        \* clientCutProperty of the windows of the clients
    real,       \* the real server: owners, serverTransToAgentProperty, conversions
    events,     \* from the real server to the agent
    asked,      \* requests that each local client is to answer
    waiting,    \* the number of the request each client waits for
    told,       \* ghost: the answers given in the last step
    excuses,    \* ghost: what happened that the exchange is not made for
    moves

agent == <<owner, last, request, requested, cache>>
vars == <<option, dix, agent, cut, real, events, asked, waiting, told, excuses, moves>>

Selection == {0, 1}  \* nxagentPrimarySelection, nxagentClipboardSelection
MaxSelections == 2

(* "other" stands for the targets that the agent serves or refuses by itself: *)
(* TIMESTAMP, MULTIPLE and such, and in text mode what is no text.            *)
Target == {"TARGETS", "data", "other"}

Idle == [id |-> 0, of |-> Null, target |-> "data", stage |-> "None", resource |-> 0]
NoRequest == [id |-> 0, of |-> Null, target |-> "data"]
Empty == [for |-> "nobody", by |-> Null]
Nothing == [id |-> 0, by |-> Null]

Init ==
    /\ option \in Options
    /\ dix = [s \in Selection |-> "root"]
    /\ owner = [s \in Selection |-> Null]
    /\ last = [s \in Selection |-> Idle] /\ request = [s \in Selection |-> NoRequest]
    /\ requested = MaxSelections /\ cache = [s \in Selection |-> Empty]
    /\ cut = [c \in Client |-> Nothing]
    /\ real = [owner |-> [s \in Selection |-> Null], buffer |-> Nothing, conversions |-> {}]
    /\ events = << >>
    /\ asked = [c \in Client |-> {}] /\ waiting = [p \in Client \cup Remote |-> 0]
    /\ told = {} /\ excuses = {} /\ moves = 0

-----------------------------------------------------------------------------
(* What the handlers are made of. *)

IsLocalOwner(s) == owner[s] # Null

(* sendSelectionNotifyEventToClient and the like: w is who waits for what. *)
Tell(w, answers) ==
    /\ told' = {[answer |-> a, due |-> w[a.to] = a.id] : a \in answers}
    /\ waiting' = [p \in DOMAIN w |->
                     IF \E a \in answers : a.to = p /\ a.id = w[p] THEN 0 ELSE w[p]]

(* The answer to q, if somebody asked; the agent is asked by itself when it   *)
(* converts a selection that the real server says it owns.                    *)
Answer(q, ok, data) ==
    IF q.of \in {Null, "agent"} THEN {}
    ELSE {[to |-> q.of, id |-> q.id, ok |-> ok, data |-> data]}

Notify(s, ok) == [type |-> "notify", sel |-> s, ok |-> ok]

NotifySelf(q, s, ok) == IF q.of = "agent" THEN <<Notify(s, ok)>> ELSE << >>

Filled(q, ok, data) == IF q.of = "agent" /\ ok THEN data ELSE real.buffer

(* replyRequestSelectionToXServer, which takes the first event with it, with  *)
(* the data in the property of the requestor.                                 *)
ReplyRequest(q, ok, data) ==
    /\ Tell(waiting, Answer(q, ok, data))
    /\ real' = [real EXCEPT !.buffer = Filled(q, ok, data)]
    /\ events' = Tail(events) \o NotifySelf(q, q.sel, ok)

(* The events of an XSetSelectionOwner: from XFixes, and a SelectionClear for *)
(* the last owner.  Those that name the agent as the owner are ignored.       *)
OwnerEvents(s, w) ==
    IF w = "agent" THEN << >>
    ELSE LET e == [type |-> "owner", sel |-> s]
         IN  IF real.owner[s] = "agent" THEN <<e, e>> ELSE <<e>>

Moved == moves < MaxMoves /\ moves' = moves + 1

At(f, S, v) == [s \in Selection |-> IF s \in S THEN v ELSE f[s]]

OwnerEvent(s) == \E i \in DOMAIN events : events[i].type = "owner" /\ events[i].sel = s

(* Mutant: the real server is told of new owners only. *)
SetSelectionOwnerOnXServerMutant(S, w) ==
    /\ owner' = At(owner, S, w)
    /\ request' = At(request, S, NoRequest)
    /\ real' = IF w = Null THEN real ELSE [real EXCEPT !.owner = At(@, S, "agent")]
    /\ UNCHANGED events

(* setSelectionOwnerOnXServer for the selections S, one after the other; w is *)
(* a client or Null.  Pending requests of remote clients are refused.         *)
SetSelectionOwnerOnXServer(S, w) ==
    LET x == IF w = Null THEN Null ELSE "agent"
        Sent(s) == IF s \in S THEN NotifySelf(request[s], s, FALSE) \o OwnerEvents(s, x)
                   ELSE << >>
    IN  /\ owner' = At(owner, S, w)
        /\ request' = At(request, S, NoRequest)
        /\ real' = [real EXCEPT !.owner = At(@, S, x)]
        /\ events' = events \o Sent(0) \o Sent(1)

Refusals(S) == UNION {Answer(request[s], FALSE, Nothing) : s \in S}

-----------------------------------------------------------------------------
(* Clients of the agent. *)

(* Mutant: the targets of the last owner are kept. *)
SetSelectionOwnerMutant(s, w) ==
    /\ Moved
    /\ dix' = [dix EXCEPT ![s] = w]
    /\ IF option.clipboard = "none"
       THEN Tell(waiting, {}) /\ UNCHANGED <<owner, last, request, real, events, excuses>>
       ELSE /\ SetSelectionOwnerOnXServer({s}, w)
            /\ last' = [last EXCEPT ![s] = Idle]
            /\ Tell(waiting, Refusals({s}))
            /\ UNCHANGED excuses
    /\ UNCHANGED <<option, requested, cache, cut, asked>>

(* ProcSetSelectionOwner and nxagentSetSelectionCallback: a client takes a    *)
(* selection, or w is Null and it is given up.  A request of a local client   *)
(* that is pending is dropped.                                                *)
SetSelectionOwner(s, w) ==
    /\ Moved
    /\ dix' = [dix EXCEPT ![s] = w]
    /\ cache' = [cache EXCEPT ![s] = Empty]
    /\ IF option.clipboard = "none"
       THEN Tell(waiting, {}) /\ UNCHANGED <<owner, last, request, real, events, excuses>>
       ELSE /\ SetSelectionOwnerOnXServer({s}, w)
            /\ last' = [last EXCEPT ![s] = Idle]
            /\ Tell(waiting, Refusals({s}))
            /\ excuses' = excuses \cup (IF last[s] # Idle THEN {"owner"} ELSE {})
                                  \cup (IF w # Null /\ OwnerEvent(s) THEN {"crossed"} ELSE {})
    /\ UNCHANGED <<option, requested, cut, asked>>

(* CloseDownClient: DeleteClientFromAnySelections with the callback, then     *)
(* nxagentClearClipboard for the client and for its window.  Those who were   *)
(* to answer it answer nobody.                                                *)
CloseDownClient(c) ==
    /\ Moved
    /\ LET S == {s \in Selection : owner[s] = c}
       IN  /\ SetSelectionOwnerOnXServer(S, Null)
           /\ last' = At(last, S \cup {s \in Selection : last[s].of = c}, Idle)
           /\ Tell([waiting EXCEPT ![c] = 0], Refusals(S))
           /\ excuses' = excuses
                  \cup (IF \E s \in S : last[s] # Idle THEN {"owner"} ELSE {})
                  \cup (IF \E q \in asked[c] : q.of \in Client \ {c} THEN {"gone"} ELSE {})
    /\ LET D == {s \in Selection : dix[s] = c}
       IN  dix' = At(dix, D, Null) /\ cache' = At(cache, D, Empty)
    /\ cut' = [cut EXCEPT ![c] = Nothing]
    /\ asked' = [d \in Client |->
                   IF d = c THEN {}
                   ELSE {[q EXCEPT !.of = IF @ = c THEN Null ELSE @] : q \in asked[d]}]
    /\ UNCHANGED <<option, requested>>

(* A conversion asked for by a client, with the number that it gets. *)
Wanted(c, t) == [id |-> moves + 1, of |-> c, target |-> t]

Asks(c, t) == waiting[c] = 0 /\ Moved

Told(c, t, answers) == Tell([waiting EXCEPT ![c] = moves + 1], answers)

(* ProcConvertSelection goes through nxagentConvertSelection. *)
Foreign(s) ==
    option.clipboard \in {"both", "client"} /\ dix[s] # Null /\ ~ IsLocalOwner(s)

(* ProcConvertSelection, without the agent. *)
ConvertLocally(c, s, t) ==
    /\ Asks(c, t) /\ ~ Foreign(s)
    /\ IF dix[s] \in Client
       THEN /\ asked' = [asked EXCEPT ![dix[s]] =
                           @ \cup {[sel |-> s, id |-> moves + 1, of |-> c, target |-> t]}]
            /\ Told(c, t, {})
       ELSE Told(c, t, Answer(Wanted(c, t), FALSE, Nothing)) /\ UNCHANGED asked
    /\ UNCHANGED <<option, dix, agent, cut, real, events, excuses>>

(* nxagentConvertSelection: another request is pending, and not overdue. *)
ConvertRefused(c, s, t) ==
    /\ Asks(c, t) /\ Foreign(s) /\ last[s] # Idle
    /\ Told(c, t, Answer(Wanted(c, t), FALSE, Nothing))
    /\ UNCHANGED <<option, dix, agent, cut, real, events, asked, excuses>>

(* A pending request is overdue, and ended. *)
Overdue(s) == Answer(last[s], FALSE, Nothing)

(* What the agent answers by itself: TARGETS that it knows, targets that only *)
(* an owner can serve, targets that are no text, or not in the cached list.   *)
ConvertAnswered(c, s, t) ==
    /\ Asks(c, t) /\ Foreign(s)
    /\ \/ t = "other"
       \/ t = "TARGETS" /\ option.text
       \/ ~ option.text /\ cache[s].for = "local"
    /\ Told(c, t, Overdue(s) \cup
                  Answer(Wanted(c, t), t = "TARGETS",
                         IF t = "TARGETS" THEN [id |-> moves + 1, by |-> cache[s].by]
                         ELSE Nothing))
    /\ last' = [last EXCEPT ![s] = Idle]
    /\ UNCHANGED <<option, dix, owner, request, requested, cache, cut, real, events, asked,
                   excuses>>

(* Something is left of an exchange with the real server. *)
Unfinished(s) ==
    \/ real.conversions # {}
    \/ \E i \in DOMAIN events : \/ events[i].type \in {"notify", "collected"}
                                \/ events[i].type = "request" /\ events[i].of = "agent"
    \/ \E r \in Selection : (r # s /\ last[r] # Idle) \/ request[r].of = "agent"

(* XConvertSelection at the real server; the property is deleted before. *)
XConvertSelection(s, q) ==
    LET o == real.owner[s]
    IN  /\ real' = [real EXCEPT
                      !.buffer = Nothing,
                      !.conversions = IF o \in Remote THEN @ \cup {[q EXCEPT !.of = o]} ELSE @]
        /\ events' = CASE o = Null -> Append(events, Notify(s, FALSE))
                       [] o = "agent" -> Append(events, [type |-> "request", sel |-> s,
                                            id |-> q.id, of |-> "agent", target |-> q.target])
                       [] OTHER -> events

(* The rest of nxagentConvertSelection: the request goes to the real server. *)
ConvertSelection(c, s, t) ==
    /\ Asks(c, t) /\ Foreign(s)
    /\ t = "data" \/ (t = "TARGETS" /\ ~ option.text /\ cache[s].for # "local")
    /\ Told(c, t, Overdue(s))
    /\ last' = [last EXCEPT ![s] = [id |-> moves + 1, of |-> c, target |-> t,
                                    stage |-> "None", resource |-> 0]]
    /\ XConvertSelection(s, [sel |-> s, id |-> moves + 1, of |-> Null, target |-> t])
    /\ excuses' = excuses \cup (IF Unfinished(s) THEN {"mixed"} ELSE {})
    /\ UNCHANGED <<option, dix, owner, request, requested, cache, cut, asked>>

(* The window whose property is set by an answer: nxagentGetClipboardWindow. *)
Written(data) ==
    IF requested \in Selection /\ IsLocalOwner(requested)
    THEN [cut EXCEPT ![owner[requested]] = data] ELSE cut

(* An owner has the data, sets the property and sends the notification:       *)
(* nxagentSendNotificationToSelfViaXServer for what the agent asked, the rest *)
(* of ProcSendEvent for another client.                                       *)
LocalAnswers(c, q) ==
    /\ q \in asked[c]
    /\ asked' = [asked EXCEPT ![c] = @ \ {q}]
    /\ LET data == [id |-> q.id, by |-> c]
       IN  IF q.of = "root"
           THEN /\ cut' = Written(data)
                /\ events' = IF request[q.sel] = NoRequest THEN events
                             ELSE Append(events, [type |-> "self", sel |-> q.sel])
                /\ Tell(waiting, {})
           ELSE Tell(waiting, Answer(q, TRUE, data)) /\ UNCHANGED <<cut, events>>
    /\ UNCHANGED <<option, dix, agent, real, excuses, moves>>

(* Mutant: the refused request stays pending. *)
LocalRefusesMutant(c, q) ==
    /\ q \in asked[c]
    /\ asked' = [asked EXCEPT ![c] = @ \ {q}]
    /\ Tell(waiting, IF q.of = "root" THEN Answer(request[q.sel], FALSE, Nothing)
                     ELSE Answer(q, FALSE, Nothing))
    /\ UNCHANGED <<option, dix, agent, cut, real, events, excuses, moves>>

(* An owner cannot convert.  While a remote request is pending the answer is  *)
(* taken for the answer to that, whoever the owner refused.                   *)
LocalRefuses(c, q) ==
    /\ q \in asked[c]
    /\ asked' = [asked EXCEPT ![c] = @ \ {q}]
    /\ LET r == request[q.sel]
       IN  IF r # NoRequest
           THEN /\ request' = [request EXCEPT ![q.sel] = NoRequest]
                /\ Tell(waiting, Answer(r, FALSE, Nothing))
                /\ events' = events \o NotifySelf(r, q.sel, FALSE)
                /\ excuses' = excuses \cup (IF q.of # "root" THEN {"refused"} ELSE {})
           ELSE /\ Tell(waiting, IF q.of = "root" THEN {} ELSE Answer(q, FALSE, Nothing))
                /\ UNCHANGED <<request, events, excuses>>
    /\ UNCHANGED <<option, dix, owner, last, requested, cache, cut, real, moves>>

-----------------------------------------------------------------------------
(* Clients of the real server. *)

RemoteSetsOwner(s, w) ==
    /\ Moved
    /\ real' = [real EXCEPT !.owner[s] = w]
    /\ events' = events \o OwnerEvents(s, w)
    /\ Tell(waiting, {})
    /\ UNCHANGED <<option, dix, agent, cut, asked, excuses>>

RemoteConverts(p, s, t) ==
    /\ real.owner[s] = "agent"
    /\ Asks(p, t) /\ Told(p, t, {})
    /\ events' = Append(events, [type |-> "request", sel |-> s, id |-> moves + 1,
                                 of |-> p, target |-> t])
    /\ UNCHANGED <<option, dix, agent, cut, real, asked, excuses>>

(* The owner that the real server asked fills the property, or refuses. *)
RemoteAnswers(q, ok) ==
    /\ q \in real.conversions
    /\ real' = [real EXCEPT !.conversions = @ \ {q},
                            !.buffer = IF ok THEN [id |-> q.id, by |-> q.of] ELSE @]
    /\ events' = Append(events, Notify(q.sel, ok))
    /\ Tell(waiting, {})
    /\ UNCHANGED <<option, dix, agent, cut, asked, excuses, moves>>

-----------------------------------------------------------------------------
(* The dispatch loop of the agent. *)

Received(t) == events # << >> /\ Head(events).type = t

(* nxagentHandleSelectionClearFromXServerByIndex.  A remote request that is   *)
(* pending is left alone.                                                     *)
HandleSelectionClear ==
    /\ Received("owner") /\ events' = Tail(events)
    /\ LET s == Head(events).sel
       IN  IF option.clipboard # "server" /\ IsLocalOwner(s)
           THEN /\ dix' = [dix EXCEPT ![s] = "root"]
                /\ owner' = [owner EXCEPT ![s] = Null]
                /\ last' = [last EXCEPT ![s] = Idle]
                /\ cache' = [cache EXCEPT ![s] = Empty]
                /\ excuses' = excuses \cup
                                (IF request[s] # NoRequest THEN {"owner"} ELSE {})
           ELSE UNCHANGED <<dix, owner, last, cache, excuses>>
    /\ Tell(waiting, {})
    /\ UNCHANGED <<option, request, requested, cut, real, asked, moves>>

(* nxagentHandleSelectionRequestFromXServer: what stops a request. *)
Known(q) ==
    q.target = "TARGETS" /\ (option.text \/ cache[q.sel].for = "remote")

RequestDenied ==
    /\ Received("request")
    /\ LET q == Head(events)
       IN  /\ \/ ~ IsLocalOwner(q.sel)
              \/ request[q.sel] # NoRequest
              \/ q.target = "other"
              \/ q.target = "data" /\ ~ option.text /\ cache[q.sel].for = "remote"
           /\ ReplyRequest(q, FALSE, Nothing)
    /\ UNCHANGED <<option, dix, agent, cut, asked, excuses, moves>>

Acceptable(q) == IsLocalOwner(q.sel) /\ request[q.sel] = NoRequest /\ q.target # "other"

(* TARGETS are answered from the cache, or with the list of the text mode. *)
RequestAnswered ==
    /\ Received("request")
    /\ LET q == Head(events)
       IN  /\ Acceptable(q) /\ Known(q)
           /\ ReplyRequest(q, TRUE, [id |-> q.id, by |-> cache[q.sel].by])
    /\ UNCHANGED <<option, dix, agent, cut, asked, excuses, moves>>

RequestNotAllowed ==
    /\ Received("request")
    /\ LET q == Head(events)
       IN  /\ Acceptable(q) /\ ~ Known(q) /\ option.clipboard \notin {"server", "both"}
           /\ requested' = q.sel
           /\ ReplyRequest(q, FALSE, Nothing)
    /\ UNCHANGED <<option, dix, owner, last, request, cache, cut, asked, excuses, moves>>

(* Something is left of an exchange with a local owner. *)
Unanswered(s) ==
    \/ \E c \in Client : \E q \in asked[c] : q.of = "root"
    \/ \E i \in DOMAIN events : events[i].type = "self"
    \/ \E r \in Selection : r # s /\ request[r] # NoRequest

(* Mutant: which selection was requested is not remembered. *)
HandleSelectionRequestMutant ==
    /\ Received("request") /\ events' = Tail(events)
    /\ LET q == Head(events)
       IN  /\ Acceptable(q) /\ ~ Known(q) /\ option.clipboard \in {"server", "both"}
           /\ request' = [request EXCEPT ![q.sel] = [id |-> q.id, of |-> q.of,
                                                     target |-> q.target]]
           /\ cut' = [cut EXCEPT ![owner[q.sel]] = Nothing]
           /\ asked' = [asked EXCEPT ![owner[q.sel]] =
                           @ \cup {[sel |-> q.sel, id |-> q.id, of |-> "root",
                                    target |-> q.target]}]
           /\ excuses' = excuses \cup (IF Unanswered(q.sel) THEN {"mixed"} ELSE {})
    /\ Tell(waiting, {})
    /\ UNCHANGED <<option, dix, owner, last, requested, cache, real, moves>>

(* The owner is asked; the property is deleted before. *)
HandleSelectionRequest ==
    /\ Received("request") /\ events' = Tail(events)
    /\ LET q == Head(events)
           c == owner[q.sel]
       IN  /\ Acceptable(q) /\ ~ Known(q) /\ option.clipboard \in {"server", "both"}
           /\ requested' = q.sel
           /\ request' = [request EXCEPT ![q.sel] = [id |-> q.id, of |-> q.of,
                                                     target |-> q.target]]
           /\ cut' = [cut EXCEPT ![c] = Nothing]
           /\ asked' = [asked EXCEPT ![c] = @ \cup {[sel |-> q.sel, id |-> q.id,
                                               of |-> "root", target |-> q.target]}]
           /\ excuses' = excuses \cup (IF Unanswered(q.sel) THEN {"mixed"} ELSE {})
    /\ Tell(waiting, {})
    /\ UNCHANGED <<option, dix, owner, last, cache, real, moves>>

(* handlePropertyTransferFromAgentToXserver, after the notification that the  *)
(* agent sent to itself.                                                      *)
HandlePropertyTransfer ==
    /\ Received("self")
    /\ LET s == Head(events).sel
           q == request[s]
       IN  IF IsLocalOwner(s) /\ q # NoRequest
           THEN LET data == cut[owner[s]]
                IN  /\ cache' = IF q.target = "TARGETS"
                                THEN [cache EXCEPT ![s] = [for |-> "remote", by |-> data.by]]
                                ELSE cache
                    /\ request' = [request EXCEPT ![s] = NoRequest]
                    /\ Tell(waiting, Answer(q, TRUE, data))
                    /\ real' = [real EXCEPT !.buffer = Filled(q, TRUE, data)]
                    /\ events' = Tail(events) \o NotifySelf(q, s, TRUE)
           ELSE /\ events' = Tail(events) /\ Tell(waiting, {})
                /\ UNCHANGED <<cache, request, real>>
    /\ UNCHANGED <<option, dix, owner, last, requested, cut, asked, excuses, moves>>

(* endTransfer. *)
EndTransfer(s, ok, data) ==
    /\ Tell(waiting, Answer(last[s], ok, data))
    /\ last' = [last EXCEPT ![s] = Idle]

Free == (1 .. Slots) \ {events[i].resource : i \in
                          {j \in DOMAIN events : events[j].type = "collected"}}

(* Mutant: a refusal of the remote owner is not passed on. *)
HandleSelectionNotifyMutant ==
    /\ Received("notify")
    /\ LET s == Head(events).sel
       IN  IF last[s] # Idle /\ last[s].stage = "None" /\ Head(events).ok /\ Free # {}
           THEN LET r == CHOOSE i \in Free : \A j \in Free : i <= j
                IN  /\ last' = [last EXCEPT ![s].stage = "WaitData", ![s].resource = r]
                    /\ events' = Append(Tail(events), [type |-> "collected", resource |-> r,
                                                       data |-> real.buffer])
           ELSE UNCHANGED last /\ events' = Tail(events)
    /\ Tell(waiting, {})
    /\ UNCHANGED <<option, dix, owner, request, requested, cache, cut, real, asked, excuses,
                   moves>>

(* nxagentHandleSelectionNotifyFromXServer and transferSelectionFromXServer,  *)
(* which starts to collect the property.                                      *)
HandleSelectionNotify ==
    /\ Received("notify")
    /\ LET s == Head(events).sel
       IN  IF last[s] # Idle /\ last[s].stage = "None" /\ Head(events).ok /\ Free # {}
           THEN LET r == CHOOSE i \in Free : \A j \in Free : i <= j
                IN  /\ last' = [last EXCEPT ![s].stage = "WaitData", ![s].resource = r]
                    /\ events' = Append(Tail(events), [type |-> "collected", resource |-> r,
                                                       data |-> real.buffer])
                    /\ Tell(waiting, {})
           ELSE EndTransfer(s, FALSE, Nothing) /\ events' = Tail(events)
    /\ UNCHANGED <<option, dix, owner, request, requested, cache, cut, real, asked, excuses,
                   moves>>

(* nxagentCollectPropertyEventFromXServer; fits tells whether the data is not *)
(* more than was asked for.                                                   *)
CollectProperty(fits) ==
    /\ Received("collected") /\ events' = Tail(events)
    /\ LET data == Head(events).data
           for == {s \in Selection : last[s].resource = Head(events).resource}
           s == CHOOSE i \in for : \A j \in for : i <= j
       IN  IF for = {}
           THEN Tell(waiting, {}) /\ UNCHANGED <<last, cache, real>>
           ELSE /\ EndTransfer(s, fits /\ data # Nothing, data)
                /\ real' = IF fits THEN [real EXCEPT !.buffer = Nothing] ELSE real
                /\ cache' = IF fits /\ data # Nothing /\ last[s].target = "TARGETS"
                            THEN [cache EXCEPT ![s] = [for |-> "local", by |-> data.by]]
                            ELSE cache
    /\ UNCHANGED <<option, dix, owner, request, requested, cut, asked, excuses, moves>>

(* nxagentInitClipboard on another display. *)
Reconnect ==
    /\ Moved
    /\ LET claims == option.clipboard \in {"server", "both"}
       IN  /\ real' = [owner |-> [s \in Selection |->
                                    IF claims /\ IsLocalOwner(s) THEN "agent" ELSE Null],
                       buffer |-> Nothing, conversions |-> {}]
           /\ request' = IF claims THEN At(request, Selection, NoRequest) ELSE request
           /\ cache' = IF claims THEN At(cache, Selection, Empty) ELSE cache
    /\ events' = << >>
    /\ Tell([p \in Client \cup Remote |-> IF p \in Remote THEN 0 ELSE waiting[p]], {})
    /\ excuses' = excuses \cup {"reconnect"}
    /\ UNCHANGED <<option, dix, owner, last, requested, cut, asked>>

Handle ==
    \/ HandleSelectionClear
    \/ RequestDenied \/ RequestAnswered \/ RequestNotAllowed \/ HandleSelectionRequest
    \/ HandlePropertyTransfer \/ HandleSelectionNotify
    \/ \E fits \in BOOLEAN : CollectProperty(fits)

OwnerAnswers(c) == \E q \in asked[c] : LocalAnswers(c, q) \/ LocalRefuses(c, q)

RemoteOwnerAnswers == \E q \in real.conversions, ok \in BOOLEAN : RemoteAnswers(q, ok)

Next ==
    \/ Handle \/ RemoteOwnerAnswers \/ Reconnect
    \/ \E c \in Client : OwnerAnswers(c) \/ CloseDownClient(c)
    \/ \E s \in Selection, w \in Client \cup {Null} : SetSelectionOwner(s, w)
    \/ \E c \in Client, s \in Selection, t \in Target :
           \/ ConvertLocally(c, s, t) \/ ConvertRefused(c, s, t)
           \/ ConvertAnswered(c, s, t) \/ ConvertSelection(c, s, t)
    \/ \E s \in Selection, w \in Remote \cup {Null} : RemoteSetsOwner(s, w)
    \/ \E p \in Remote, s \in Selection, t \in Target : RemoteConverts(p, s, t)

(* The agent reads its events, and the owners of selections answer. *)
Spec ==
    /\ Init /\ [][Next]_vars
    /\ WF_vars(Handle) /\ WF_vars(RemoteOwnerAnswers)
    /\ \A c \in Client : WF_vars(OwnerAnswers(c))

-----------------------------------------------------------------------------
Data == [id : Nat, by : Client \cup Remote \cup {Null}]

Event ==
    [type : {"owner", "self"}, sel : Selection]
        \cup [type : {"notify"}, sel : Selection, ok : BOOLEAN]
        \cup [type : {"request"}, sel : Selection, id : Nat, of : Remote \cup {"agent"},
              target : Target]
        \cup [type : {"collected"}, resource : 1 .. Slots, data : Data]

Asked(who) == [sel : Selection, id : Nat, of : who, target : Target]

(* Types. *)
TypeOK ==
    /\ option \in Options
    /\ dix \in [Selection -> Client \cup {"root", Null}]
    /\ owner \in [Selection -> Client \cup {Null}]
    /\ last \in [Selection -> [id : Nat, of : Client \cup {Null}, target : Target,
                               stage : {"None", "WaitData"}, resource : 0 .. Slots]]
    /\ request \in [Selection -> [id : Nat, of : Remote \cup {"agent", Null},
                                  target : Target]]
    /\ requested \in 0 .. MaxSelections
    /\ cache \in [Selection -> [for : {"nobody", "local", "remote"},
                                by : Client \cup Remote \cup {Null}]]
    /\ cut \in [Client -> Data]
    /\ real \in [owner : [Selection -> Remote \cup {"agent", Null}], buffer : Data,
                 conversions : SUBSET Asked(Remote)]
    /\ events \in Seq(Event)
    /\ asked \in [Client -> SUBSET Asked(Client \cup {"root", Null})]
    /\ waiting \in [Client \cup Remote -> Nat]
    /\ excuses \subseteq {"owner", "crossed", "mixed", "refused", "gone", "reconnect"}
    /\ moves \in 0 .. MaxMoves

(* The agent and the real server agree on who owns a selection: where the     *)
(* clipboard goes both ways (the option "both", and only there) a local owner *)
(* has it at the real server, or is about to hear that it has not; and with   *)
(* any option the real server does not send requests to an agent that has no  *)
(* owner, unless a claim and an older event crossed.                          *)
OwnersAgree ==
    \A s \in Selection :
        /\ IsLocalOwner(s) /\ option.clipboard = "both" =>
               real.owner[s] = "agent" \/ OwnerEvent(s)
        /\ real.owner[s] = "agent" => IsLocalOwner(s) \/ "crossed" \in excuses

(* An answer is given only to a client that waits for it: no request is       *)
(* answered twice, by the owner and by the agent.                             *)
AnsweredOnce == \A a \in told : a.due

(* A request gets the data that was made for it, and not for an earlier one   *)
(* or one of the other direction, whoever dies or takes a selection meanwhile *)
(* and whether or not the agent moves: the shared property and the window of  *)
(* the last request are mixed up only by two exchanges in the same direction. *)
RightAnswers ==
    "mixed" \notin excuses => \A a \in told : a.answer.ok => a.answer.data.id = a.answer.id

(* Cached targets serve one direction, the one in which the selection goes,   *)
(* and those for remote clients are the ones of the present owner, unless     *)
(* exchanges were mixed up.  Whose those for local clients are is not said:   *)
(* they may be of a remote owner that was.                                    *)
CachesFit ==
    \A s \in Selection :
        /\ cache[s].for = "local" => ~ IsLocalOwner(s)
        /\ cache[s].for = "remote" =>
               IsLocalOwner(s) /\ (cache[s].by = owner[s] \/ "mixed" \in excuses)

(* Everyone who asks is answered in the end, even when exchanges get mixed    *)
(* up, unless a selection changed hands while a request for it was under way, *)
(* an owner died, the agent moved to another display, or a refusal meant for  *)
(* a local client was taken for another.                                      *)
Answered ==
    \A p \in Client \cup Remote :
        waiting[p] # 0 ~> waiting[p] = 0 \/ excuses \ {"crossed", "mixed"} # {}
=============================================================================
