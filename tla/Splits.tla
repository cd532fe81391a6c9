------------------------------- MODULE Splits -------------------------------
(***************************************************************************)
(* The streaming of images: an agent encloses images between a start-split *)
(* and an end-split; the proxy at its side (ClientChannel.cpp) sends the   *)
(* images at once but without their data, which follows in chunks, while   *)
(* the proxy at the X server side (ServerChannel.cpp) looks for the data   *)
(* on disk and, when it finds it, reports it so that the transfer is       *)
(* aborted.  A split that is complete waits in a commit store, in the same *)
(* order on both sides, until the agent commits it; only then the image is *)
(* drawn and its slot in the message cache unlocked.  The agent is         *)
(* nxagent, with the record of its split resources (Split.c).              *)
(*                                                                         *)
(* An image is a key, all that goes into its MD5, and it has one slot of   *)
(* the message cache.  Its data is a number of chunks, in one of several   *)
(* formats: plain, compressed by this session, or compressed by the one    *)
(* that wrote the file on disk; c_size_ is the format it is taken to have. *)
(* The requests of the agent are read by its proxy as they are made; the   *)
(* events it gets back are queued.                                         *)
(***************************************************************************)
EXTENDS Integers, Sequences, FiniteSets, SequencesExt

CONSTANTS Resource, Key, Null,
          Compressible,       \* the images that compressBuffer makes smaller
          Modes,              \* the split modes the agent asks for
          Load,               \* splitState_.load: images are read from disk
          Checksums,          \* handleSplitChecksum sends the checksum
          May,                \* what may happen, see MayAssumption
          Chunks,             \* packets that a whole image takes
          MaxImages,          \* bounds for model checking: images sent,
          MaxStarts,          \* sequences started,
          MaxWire             \* and requests the link holds at most

ASSUME SizesAssumption == Chunks \in Nat \ {0} /\ Compressible \subseteq Key
\* The agent may abort splits, or repeat an image for a resource; an image may
\* find no slot in the cache; there may be files of earlier sessions on disk,
\* some of them cut short; the keeper may remove files.
ASSUME MayAssumption ==
    May \subseteq {"abort", "repeat", "discard", "old files", "cut files", "keeper"}
ASSUME ModesAssumption == Modes # {} /\ Modes \subseteq {"async", "sync"}
ASSUME FlagsAssumption == Load \in BOOLEAN /\ Checksums \in BOOLEAN

nothing == Null

VARIABLES
    client,     \* the splits, commits and cache of the agent's side
    server,     \* the splits, commits and cache of the X server's side
    disk,       \* the image files at the X server's side
    toServer,   \* requests and data on their way to the X server
    toClient,   \* split reports on their way back
    events,     \* notifications the agent has not handled
    agent,      \* the agent's record of each split resource
    drawn,      \* the image that was last written to the X server
    starts,     \* the sequences started so far
    sent,       \* the images sent so far, with their resources
    failed      \* a proxy or the agent gave up

vars == <<client, server, disk, toServer, toClient, events, agent, drawn,
          starts, sent, failed>>

Format == {"plain", "ours", "theirs"}
Data == Format \cup {"dummy"}            \* "dummy": the SPLIT_PATTERN
Action == {"hit", "added", "discarded"}
State == {"added", "missed", "loaded", "aborted", "notified"}
Slot == [locked : BOOLEAN, csize : Format, data : Data]

Split == [resource : Resource, key : Key, action : Action,
          mode : {"async", "sync"}, state : State, started : BOOLEAN,
          next : 0 .. Chunks, csize : Format, format : Format, data : Data,
          load : BOOLEAN]

File == [csize : Format, data : Data, whole : BOOLEAN]

Event == [type : {"no", "start", "end"}, resource : Resource]
         \cup [type : {"commit"}, resource : Resource, position : Key \cup {Null}]
         \cup {[type |-> "empty"]}

Message == [type : {"start", "end", "abort"}, resource : Resource]
           \cup [type : {"image"}, key : Key, action : Action, split : BOOLEAN]
           \cup [type : {"data"}, resource : Resource, start : BOOLEAN,
                 format : Format, abort : BOOLEAN, count : 0 .. Chunks]
           \cup [type : {"commit"}, resource : Resource,
                 position : Key \cup {Null}, commit : BOOLEAN]

ClientChannel == [resource : Resource \cup {nothing}, mode : Modes,
                  list : Seq(Resource), store : [Resource -> Seq(Split)],
                  commits : Seq(Split), pending : BOOLEAN,
                  cache : [Key -> Slot \cup {Null}]]

ServerChannel == [resource : Resource \cup {nothing},
                  store : [Resource -> Seq(Split)], commits : Seq(Split),
                  cache : [Key -> Slot \cup {Null}]]

TypeOK ==
    /\ client \in ClientChannel
    /\ server \in ServerChannel
    /\ disk \in [Key -> File \cup {Null}]
    /\ toServer \in Seq(Message)
    /\ toClient \in Seq([resource : Resource, key : Key, loaded : BOOLEAN,
                         csize : Format])
    /\ events \in Seq(Event)
    /\ agent \in [Resource -> {"free", "open", "waiting", "split", "released"}]
    /\ drawn \in [key : Key, image : {"whole", "lost", "garbage"}] \cup {Null}
    /\ sent \in Seq(Resource \X Key)
    /\ failed \in BOOLEAN

\* Nothing is told from a resource, an image, what is in a slot or on disk.
ASSUME NullAssumption == Null \notin Resource \cup Key \cup Slot \cup File

----------------------------------------------------------------------------
(* What both sides do. *)

\* The position that a commit is matched by; 0 for a discarded message.
Position(split) == IF split.action = "discarded" THEN Null ELSE split.key

\* The format the encoding side gives to the data of an image.
Compressed(k) == IF k \in Compressible THEN "ours" ELSE "plain"

NewSplit(r, k, action, mode) ==
    [resource |-> r, key |-> k, action |-> action, mode |-> mode,
     state |-> "added", started |-> FALSE, next |-> 0, csize |-> "plain",
     format |-> "plain", data |-> "dummy", load |-> FALSE]

\* lock: a message added to the cache is not used until it is recomposed.
LockedSlot == [locked |-> TRUE, csize |-> "plain", data |-> "dummy"]

\* A bug: the size is taken from the data, which this side doesn't keep.
UpdatedSlotMixed(slot, split) ==
    [locked |-> FALSE, csize |-> split.data, data |-> split.data]

\* CommitStore::update, called when a split is committed.  A size of 0 leaves
\* the compressed size of the message alone.
UpdatedSlot(slot, split) ==
    [locked |-> FALSE,
     csize |-> IF split.csize = "plain" THEN slot.csize ELSE split.csize,
     data |-> split.data]

CommitUpdate(cache, split) ==
    IF split.action = "added" /\ cache[split.key] # Null
    THEN [cache EXCEPT ![split.key] = UpdatedSlot(@, split)]
    ELSE cache

\* handleSplitCommitRemove finds the split the agent commits, and its slot.
CanCommit(side, r, position) ==
    /\ side.commits # <<>>
    /\ LET split == Head(side.commits)
       IN /\ split.resource = r
          /\ Position(split) = position
          /\ split.action = "added" => side.cache[split.key] # Null

Committed(side) ==
    [side EXCEPT !.cache = CommitUpdate(@, Head(side.commits)),
                 !.commits = Tail(@)]

\* Aborting throws the splits away, and removes from the cache the messages
\* that were hits; removing what is not there aborts the proxy.
HitsOf(splits) == {splits[i].key : i \in {j \in DOMAIN splits :
                                             splits[j].action = "hit"}}

CanRemove(cache, splits) ==
    /\ \A k \in HitsOf(splits) : cache[k] # Null
    /\ \A i, j \in DOMAIN splits :
          splits[i].action = "hit" /\ splits[j].action = "hit"
             /\ splits[i].key = splits[j].key => i = j

Discarded(side, r) ==
    [side EXCEPT !.cache = [k \in Key |-> IF k \in HitsOf(side.store[r])
                                            THEN Null ELSE @[k]],
                 !.store[r] = <<>>]

----------------------------------------------------------------------------
(* The agent's side.  A handler is a function of h, the state of the client
   with the link and the events of the agent, that it adds to.             *)

\* The elements of a sequence at the given places, in order.
InOrder(s, places) ==
    [i \in 1 .. Cardinality(places) |->
        s[CHOOSE p \in places : Cardinality({q \in places : q <= p}) = i]]

Handling(c) == [c |-> c, out |-> toServer, ev |-> events]

canSendSplit(split) ==
    split.mode # "sync" \/ split.state \in {"missed", "loaded"}

HeadCanBeSent(c, r) == c.store[r] # <<>> /\ canSendSplit(Head(c.store[r]))

\* A bug: the flag is not set.
PendingNever(c, r) == c

\* handleSplitPending(resource)
Pending(c, r) == [c EXCEPT !.pending = @ \/ HeadCanBeSent(c, r)]

\* handleSplitPending()
AnyPending(c) ==
    [c EXCEPT !.pending = \E i \in 1 .. Len(c.list) : HeadCanBeSent(c, c.list[i])]

Total(c) == {r \in Resource : c.store[r] # <<>>}

\* The end of handleRestart: an empty store is removed, unless its sequence
\* is still open.
RemoveEmpty(h, r) ==
    IF h.c.store[r] = <<>> /\ Contains(h.c.list, r) /\ r # h.c.resource
    THEN [h EXCEPT !.c.list = RemoveFirst(@, r),
                   !.ev = IF Total(h.c) = {} THEN Append(@, [type |-> "empty"])
                                             ELSE @]
    ELSE h

\* A bug: commits are notified again.
RestartMutant(h, r) ==
    LET notes == [i \in DOMAIN h.c.commits |->
                     [type |-> "commit", resource |-> r,
                      position |-> Position(h.c.commits[i])]]
        ended == IF h.c.store[r] = <<>> /\ r # h.c.resource
                 THEN <<[type |-> "end", resource |-> r]>> ELSE <<>>
    IN RemoveEmpty([h EXCEPT !.ev = @ \o notes \o ended], r)

\* handleRestart(sequence_deferred): a split was transferred or thrown away.
Restart(h, r) ==
    LET fresh == InOrder(h.c.commits, {i \in DOMAIN h.c.commits :
                                          h.c.commits[i].state # "notified"})
        notes == [i \in 1 .. Len(fresh) |->
                     [type |-> "commit", resource |-> r,
                      position |-> Position(fresh[i])]]
        ended == IF h.c.store[r] = <<>> /\ r # h.c.resource
                 THEN <<[type |-> "end", resource |-> r]>> ELSE <<>>
    IN RemoveEmpty(
           [h EXCEPT !.c.commits = [i \in DOMAIN @ |->
                                       [@[i] EXCEPT !.state = "notified"]],
                     !.ev = @ \o notes \o ended], r)

\* SplitStore::send: one packet of the split at the head of the store, or the
\* order to abort it; start compresses the data unless it will be aborted.
Sent(split, count) ==
    LET abort == split.state = "loaded"
    IN [split EXCEPT
          !.started = TRUE,
          !.csize = IF split.started \/ abort THEN @ ELSE Compressed(split.key),
          !.next = IF abort \/ @ + count > Chunks THEN Chunks ELSE @ + count,
          !.state = IF abort THEN "aborted" ELSE @]

DataMessage(split, count) ==
    [type |-> "data", resource |-> split.resource, start |-> ~ split.started,
     format |-> IF split.state = "loaded" THEN "plain" ELSE Compressed(split.key),
     abort |-> split.state = "loaded",
     count |-> Sent(split, count).next - split.next]

\* handleSplitSend
SplitSend(h, r, count) ==
    LET split == Sent(Head(h.c.store[r]), count)
        h1 == [h EXCEPT !.out = Append(@, DataMessage(Head(h.c.store[r]), count))]
    IN IF split.next # Chunks
       THEN [h1 EXCEPT !.c.store[r][1] = split]
       ELSE Restart([h1 EXCEPT !.c.store[r] = Tail(@),
                               !.c.commits = Append(@, split)], r)

\* The loops that send: over the stores of a list, as long as there is room, or
\* all there is.  Aborts need no room.
Sender == [c : ClientChannel, out : Seq(Message), ev : Seq(Event),
           list : Seq(Resource), room : 0 .. 1, all : BOOLEAN]

Sending(c, list, room, all) ==
    [c |-> c, out |-> toServer, ev |-> events, list |-> list, room |-> room, all |-> all]

CanSend(h, split) ==
    h.all \/ split.state = "loaded" \/ (h.room > 0 /\ canSendSplit(split))

SendTurn[h \in Sender] ==
    LET r == Head(h.list)
        split == Head(h.c.store[r])
    IN IF h.list = <<>> THEN h
       ELSE IF h.c.store[r] = <<>> \/ ~ CanSend(h, split)
       THEN [h EXCEPT !.c = Pending(@, r), !.list = Tail(@)]
       ELSE IF h.all \/ split.state = "loaded" THEN SplitSend(h, r, Chunks)
       ELSE SplitSend([h EXCEPT !.room = @ - 1], r, 1)

\* Each turn is done with a store or with a split, but for one without room.
SendAll(h) ==
    LET turn[n \in Nat] == IF n = 0 THEN h ELSE SendTurn[turn[n - 1]]
    IN turn[Len(h.list) + Len(sent) + 1]

\* handleSplit: the stores take their turns to be the first.
SplitData(c) ==
    LET list == IF Len(c.list) > 1 THEN Append(Tail(c.list), Head(c.list))
                                   ELSE c.list
    IN SendAll(Sending([c EXCEPT !.pending = FALSE, !.list = list], list, 1, FALSE))

\* handleSplitEvent: sends the aborts from the head of the store.
SendAborts(c, r) == SendAll(Sending(c, <<r>>, 0, FALSE))

\* handleFinishSplitRequest: sends all there is in the store.
FinishStore(c, r) == SendAll(Sending(c, <<r>>, 0, TRUE))

\* A bug: the report is taken to be of the split under way.
SplitFindMutant(c, r, k) == {i \in DOMAIN c.store[r] : i = 1}

\* handleSplitFind: the first split of the store with the given checksum,
\* which a hit doesn't have.
SplitFind(c, r, k) ==
    {i \in DOMAIN c.store[r] :
        /\ c.store[r][i].key = k /\ c.store[r][i].action # "hit"
        /\ \A j \in 1 .. i - 1 :
              c.store[r][j].key # k \/ c.store[r][j].action = "hit"}

\* What a report makes of the split it is about.
Loaded(c, r, i, csize) ==
    [c EXCEPT !.store[r][i] = [@ EXCEPT !.state = "loaded", !.csize = csize]]

Missed(c, r, i) == [c EXCEPT !.store[r][i] = [@ EXCEPT !.state = "missed"]]

\* A report that comes after the split was sent gives the size of the message.
Resized(c, k, csize) ==
    IF csize # "plain" /\ c.cache[k] # Null THEN [c EXCEPT !.cache[k].csize = csize]
    ELSE c

\* handleSplitEvent, of a report: the image was found on disk, or it was not,
\* or its split was already sent.
Reported(c, report) ==
    LET r == report.resource
        found == SplitFind(c, r, report.key)
        i == CHOOSE i \in found : TRUE
        h == SendAborts(Loaded(c, r, i, report.csize), r)
    IN CASE found # {} /\ report.loaded /\ i = 1 -> [h EXCEPT !.c = AnyPending(@)]
         [] found # {} /\ report.loaded /\ i # 1 ->
                Handling(Loaded(c, r, i, report.csize))
         [] found # {} /\ ~ report.loaded -> Handling(Pending(Missed(c, r, i), r))
         [] found = {} /\ report.loaded -> Handling(Resized(c, report.key, report.csize))
         [] found = {} /\ ~ report.loaded -> Handling(c)

----------------------------------------------------------------------------
(* Requests of the agent, as its proxy handles them. *)

OldFile(whole) == [csize |-> "theirs", data |-> "theirs", whole |-> whole]

OldFiles == (IF "old files" \in May THEN {OldFile(TRUE)} ELSE {})
            \cup (IF "cut files" \in May THEN {OldFile(FALSE)} ELSE {})

Init ==
    /\ client = [resource |-> nothing, mode |-> CHOOSE m \in Modes : TRUE,
                 list |-> <<>>, store |-> [r \in Resource |-> <<>>],
                 commits |-> <<>>, pending |-> FALSE,
                 cache |-> [k \in Key |-> Null]]
    /\ server = [resource |-> nothing, store |-> [r \in Resource |-> <<>>],
                 commits |-> <<>>, cache |-> [k \in Key |-> Null]]
    /\ disk \in [Key -> {Null} \cup OldFiles]
    /\ toServer = <<>> /\ toClient = <<>> /\ events = <<>>
    /\ agent = [r \in Resource |-> "free"]
    /\ drawn = Null
    /\ starts = 0
    /\ sent = <<>>
    /\ failed = FALSE

\* The agent handles one request at a time, and waits in the middle of none
\* but the end-split.
Idle == \A r \in Resource : agent[r] \notin {"open", "waiting"}

Applied(h) == client' = h.c /\ toServer' = h.out /\ events' = h.ev

StartSplit(r, mode) ==
    /\ agent[r] = "free" /\ Idle
    /\ starts < MaxStarts /\ Len(toServer) < MaxWire
    /\ starts' = starts + 1
    /\ agent' = [agent EXCEPT ![r] = "open"]
    /\ client' = [client EXCEPT !.resource = r, !.mode = mode]
    /\ toServer' = Append(toServer, [type |-> "start", resource |-> r])
    /\ UNCHANGED <<server, disk, toClient, events, drawn, sent, failed>>

\* What handleEncodeCached makes of an image: one that is locked is not used,
\* and one that is not in the cache may find no slot.
Actions(k) ==
    CASE client.cache[k] = Null ->
            {"added"} \cup (IF "discard" \in May THEN {"discarded"} ELSE {})
      [] client.cache[k] # Null /\ client.cache[k].locked -> {"discarded"}
      [] client.cache[k] # Null /\ ~ client.cache[k].locked -> {"hit"}

\* handleSplit: the image goes in one piece.
SplitRefused(r, action, small) == client.store[r] = <<>> /\ (action = "hit" \/ small)

WholeSlot(k) == [locked |-> FALSE, csize |-> Compressed(k), data |-> Compressed(k)]

ImageMessage(k, action, split) ==
    [type |-> "image", key |-> k, action |-> action, split |-> split]

Alloc(list, r) == IF Contains(list, r) THEN list ELSE Append(list, r)

\* handleSplit, of an image; it is added to the store of the open sequence.
SplitAdded(c, r, k, action) ==
    LET split == NewSplit(r, k, action, c.mode)
        state == CASE action = "hit" -> "loaded"
                   [] action # "hit" /\ ~ Checksums -> "missed"
                   [] OTHER -> "added"
    IN Pending([c EXCEPT !.store[r] = Append(@, [split EXCEPT !.state = state]),
                         !.cache[k] = IF action = "added" THEN LockedSlot ELSE @], r)

PutImage(r, k, action, small) ==
    LET c == [client EXCEPT !.list = Alloc(@, r)]
        refused == SplitRefused(r, action, small)
    IN /\ agent[r] = "open"
       /\ Len(sent) < MaxImages /\ Len(toServer) < MaxWire
       /\ "repeat" \in May \/ ~ Contains(sent, <<r, k>>)
       /\ action \in Actions(k)
       /\ client' = IF ~ refused THEN SplitAdded(c, r, k, action)
                    ELSE IF action = "added" THEN [c EXCEPT !.cache[k] = WholeSlot(k)]
                    ELSE c
       /\ toServer' = Append(toServer, ImageMessage(k, action, ~ refused))
       /\ sent' = Append(sent, <<r, k>>)
       /\ UNCHANGED <<server, disk, toClient, events, agent, drawn, starts, failed>>

\* handleEndSplitRequest, with handleRestart(sequence_immediate).
EndSplit(r) ==
    /\ agent[r] = "open"
    /\ agent' = [agent EXCEPT ![r] = "waiting"]
    /\ Applied([c |-> [AnyPending(client) EXCEPT !.resource = nothing],
                out |-> Append(toServer, [type |-> "end", resource |-> r]),
                ev |-> Append(events,
                              [type |-> IF client.store[r] = <<>> THEN "no" ELSE "start",
                               resource |-> r])])
    /\ UNCHANGED <<server, disk, toClient, drawn, starts, sent, failed>>

\* nxagentReleaseSplit: the drawable changed or went away.
AbortSplit(r) ==
    LET message == [type |-> "abort", resource |-> r]
        h == Handling(Discarded(client, r))
    IN /\ "abort" \in May
       /\ agent[r] = "split" /\ Idle
       /\ agent' = [agent EXCEPT ![r] = "released"]
       /\ failed' = ~ CanRemove(client.cache, client.store[r])
       /\ IF Contains(client.list, r)
          THEN LET a == Restart([h EXCEPT !.out = Append(@, message)], r)
               IN Applied([a EXCEPT !.c = AnyPending(@)])
          ELSE Applied([Handling(client) EXCEPT !.out = Append(@, message)])
       /\ UNCHANGED <<server, disk, toClient, drawn, starts, sent>>

\* nxagentWaitDrawable: the agent needs the drawable to be synchronized.
FinishSplit(r) ==
    LET h == FinishStore(client, r)
    IN /\ agent[r] = "split" /\ Idle
       /\ Contains(client.list, r)
       /\ Applied([h EXCEPT !.c = AnyPending(@)])
       /\ UNCHANGED <<server, disk, toClient, agent, drawn, starts, sent, failed>>

----------------------------------------------------------------------------
(* The agent handles its events. *)

\* nxagentHandleCommitSplitEvent and, at its proxy, handleCommitSplitRequest.
CommitRequest(r, position) ==
    [type |-> "commit", resource |-> r, position |-> position,
     commit |-> agent[r] \in {"open", "waiting", "split"}]

\* The agent commits what the event at place i of its queue tells.
Commit(h, i) ==
    LET e == h.ev[i]
    IN IF ~ CanCommit(h.c, e.resource, e.position) THEN [h EXCEPT !.failed = TRUE]
       ELSE [h EXCEPT !.c = Committed(@),
                      !.out = Append(@, CommitRequest(e.resource, e.position)),
                      !.ev = RemoveAt(@, i)]

Committer == [c : ClientChannel, out : Seq(Message), ev : Seq(Event),
              failed : BOOLEAN]

Committing(queue) == [c |-> client, out |-> toServer, ev |-> queue, failed |-> FALSE]

CommitsDone(h) == Applied(h) /\ failed' = h.failed

IsCommit(e) == e.type = "commit"

\* nxagentWaitCommitEvent: all the commits in the queue, whoever they are of.
CommitTurn[h \in Committer] ==
    LET i == SelectInSeq(h.ev, IsCommit)
    IN IF i = 0 THEN h ELSE Commit(h, i)

\* A bug: the commits are left in the queue.
HandleCommitsMutant(queue) ==
    events' = queue /\ UNCHANGED <<client, toServer, failed>>

\* The agent goes on with the given events; the commits are handled now.
HandleCommits(queue) ==
    LET turn[n \in Nat] == IF n = 0 THEN Committing(queue) ELSE CommitTurn[turn[n - 1]]
    IN CommitsDone(turn[Len(queue)])

\* nxagentWaitSplitEvent: blocks until the proxy says what became of the
\* sequence, passing over the other events.
IsOpening(e) == e.type \in {"no", "start"}

WaitSplitEvent(r) ==
    LET i == SelectInSeq(events, IsOpening)
    IN /\ agent[r] = "waiting"
       /\ i # 0
       /\ HandleCommits(RemoveAt(events, i))
       /\ agent' = [agent EXCEPT ![r] =
                       IF events[i] = [type |-> "start", resource |-> r]
                       THEN "split" ELSE "free"]
       /\ UNCHANGED <<server, disk, toClient, drawn, starts, sent>>

CommitSplitEvent ==
    /\ Idle /\ events # <<>> /\ Head(events).type = "commit"
    /\ CommitsDone(Commit(Committing(events), 1))
    /\ UNCHANGED <<server, disk, toClient, agent, drawn, starts, sent>>

\* nxagentHandleEndSplitEvent; the agent panics if it has no such resource.
EndSplitEvent ==
    /\ Idle /\ events # <<>> /\ Head(events).type = "end"
    /\ LET r == Head(events).resource
       IN IF agent[r] = "free"
          THEN failed' = TRUE /\ UNCHANGED <<client, toServer, events, agent>>
          ELSE HandleCommits(Tail(events)) /\ agent' = [agent EXCEPT ![r] = "free"]
    /\ UNCHANGED <<server, disk, toClient, drawn, starts, sent>>

EmptySplitEvent ==
    /\ Idle /\ events # <<>> /\ Head(events).type = "empty"
    /\ events' = Tail(events)
    /\ UNCHANGED <<client, server, disk, toServer, toClient, agent, drawn, starts, sent,
                   failed>>

----------------------------------------------------------------------------
(* The proxy of the agent sends data and reads reports. *)

HandleSplit ==
    /\ client.pending
    /\ Len(toServer) < MaxWire
    /\ Applied(SplitData(client))
    /\ UNCHANGED <<server, disk, toClient, agent, drawn, starts, sent, failed>>

HandleSplitEvent ==
    /\ toClient # <<>>
    /\ Applied(Reported(client, Head(toClient)))
    /\ toClient' = Tail(toClient)
    /\ UNCHANGED <<server, disk, agent, drawn, starts, sent, failed>>

----------------------------------------------------------------------------
(* The X server's side. *)

Received == toServer # <<>> /\ toServer' = Tail(toServer)

\* handleStartSplitRequest and handleEndSplitRequest.
ServerStartEnd ==
    /\ Received /\ Head(toServer).type \in {"start", "end"}
    /\ server' = [server EXCEPT !.resource =
                     IF Head(toServer).type = "start" THEN Head(toServer).resource
                     ELSE nothing]
    /\ UNCHANGED <<client, disk, toClient, events, agent, drawn, starts, sent, failed>>

\* CommitStore::expand: data that can't be decompressed is not drawn, while
\* anything is taken for plain data.
Expanded(k, data, csize) ==
    [key |-> k, image |-> CASE data = csize -> "whole"
                            [] data # csize /\ csize # "plain" -> "lost"
                            [] data # csize /\ csize = "plain" -> "garbage"]

\* An image that came in one piece.
ServerImage ==
    LET k == Head(toServer).key
        hit == Head(toServer).action = "hit"
        slot == IF hit THEN server.cache[k] ELSE WholeSlot(k)
    IN /\ Received /\ Head(toServer).type = "image" /\ ~ Head(toServer).split
       /\ failed' = (slot = Null)
       /\ drawn' = IF failed' THEN drawn
                   ELSE Expanded(k, slot.data, slot.csize)
       /\ server' = IF Head(toServer).action = "added"
                    THEN [server EXCEPT !.cache[k] = slot] ELSE server
       /\ UNCHANGED <<client, disk, toClient, events, agent, starts, sent>>

\* SplitStore::load: the split with what is in the file.  Its sizes are taken
\* from the header, then the data is read, which fails if the file is cut.
Loadable(split, file) == split.load /\ file # Null

\* A bug: the compressed size is the one the split had.
LoadedFromMutant(split, file) ==
    IF ~ Loadable(split, file) \/ ~ file.whole THEN [split EXCEPT !.state = "missed"]
    ELSE [split EXCEPT !.data = file.data, !.state = "loaded"]

LoadedFrom(split, file) ==
    IF ~ Loadable(split, file) THEN [split EXCEPT !.state = "missed"]
    ELSE [split EXCEPT !.csize = file.csize,
                       !.data = IF file.whole THEN file.data ELSE "dummy",
                       !.state = IF file.whole THEN "loaded" ELSE "missed"]

\* A file that can't be loaded is removed.
FileAfterLoad(split, file) ==
    IF Loadable(split, file) /\ ~ file.whole THEN Null ELSE file

\* handleSplitEvent, at the side that looked for the image.
Report(split) ==
    [resource |-> split.resource, key |-> split.key,
     loaded |-> split.state = "loaded", csize |-> split.csize]

\* The image that a hit takes from the cache, in plain form.
HitData(k) ==
    IF server.cache[k].data = server.cache[k].csize THEN "plain" ELSE "dummy"

\* handleSplit, of an image.
ServerSplit ==
    LET k == Head(toServer).key
        action == Head(toServer).action
        r == server.resource
        hit == action = "hit"
        new == NewSplit(r, k, action, "async")
        asked == [new EXCEPT !.load = Load]
        split == CASE hit -> [new EXCEPT !.state = "loaded", !.data = HitData(k)]
                   [] ~ hit /\ ~ Checksums -> [new EXCEPT !.state = "missed"]
                   [] ~ hit /\ Checksums -> LoadedFrom(asked, disk[k])
    IN /\ Received /\ Head(toServer).type = "image" /\ Head(toServer).split
       /\ failed' = (r = nothing \/ (hit /\ server.cache[k] = Null))
       /\ IF failed' THEN UNCHANGED <<server, disk, toClient>>
          ELSE /\ server' = [server EXCEPT
                                !.store[r] = Append(@, split),
                                !.cache[k] = IF action = "added" THEN LockedSlot ELSE @]
               /\ disk' = IF ~ hit /\ Checksums
                          THEN [disk EXCEPT ![k] = FileAfterLoad(asked, @)] ELSE disk
               /\ toClient' = IF ~ hit /\ Checksums
                              THEN Append(toClient, Report(split)) ELSE toClient
       /\ UNCHANGED <<client, events, agent, drawn, starts, sent>>

\* SplitStore::start, at the receiving side: the size is the one that the data
\* was compressed to, if it was.
Started(split, message) ==
    IF ~ message.start THEN split
    ELSE IF split.state = "loaded" THEN [split EXCEPT !.started = TRUE]
    ELSE [split EXCEPT !.started = TRUE, !.data = "dummy", !.format = message.format,
                       !.csize = IF message.format = "plain" THEN @ ELSE message.format]

\* SplitStore::receive: one packet of the split at the head of the store.
Receive(split, message) ==
    LET s == Started(split, message)
        next == IF message.abort THEN Chunks ELSE s.next + message.count
    IN [s EXCEPT !.next = next,
                 !.state = IF message.abort THEN "aborted" ELSE @,
                 !.data = IF ~ message.abort /\ s.state # "loaded" /\ next = Chunks
                          THEN s.format ELSE @]

\* SplitStore::save: a file that is there already is taken for an error, and
\* an error removes the file.
SavedFile(split) == [csize |-> split.csize, data |-> split.data, whole |-> TRUE]

SavedFiles(split) ==
    IF disk[split.key] = Null THEN {Null, SavedFile(split)}
    ELSE {Null}

Saves(split) == Checksums /\ split.state \notin {"loaded", "aborted"}

\* After a split is complete, the next one may be on disk by now.
Retried(splits) ==
    splits # <<>> /\ Head(splits).action = "discarded" /\ Head(splits).state = "missed"

\* What ServerData makes of a complete split, whose file is now the given one.
ServerCompletes(r, split, file) ==
    LET files == [disk EXCEPT ![split.key] = file]
        rest == Tail(server.store[r])
        k == Head(rest).key
        head == LoadedFrom(Head(rest), files[k])
        again == Retried(rest)
    IN /\ server' = [server EXCEPT
              !.commits = Append(@, split),
              !.store[r] = IF again THEN <<head>> \o Tail(rest) ELSE rest]
       /\ disk' = IF again THEN [files EXCEPT ![k] = FileAfterLoad(Head(rest), @)]
                  ELSE files
       /\ toClient' = IF again /\ head.state = "loaded"
                      THEN Append(toClient, Report(head)) ELSE toClient

\* handleSplit, of data.
ServerData ==
    LET message == Head(toServer)
        r == message.resource
        split == Receive(Head(server.store[r]), message)
    IN /\ Received /\ Head(toServer).type = "data"
       /\ failed' = (\/ server.store[r] = <<>>
                     \/ Head(server.store[r]).started = message.start
                     \/ split.next > Chunks)
       /\ IF failed'
          THEN UNCHANGED <<server, disk, toClient>>
          ELSE IF split.next # Chunks
          THEN /\ server' = [server EXCEPT !.store[r][1] = split]
               /\ UNCHANGED <<disk, toClient>>
          ELSE \E file \in IF Saves(split) THEN SavedFiles(split)
                           ELSE {disk[split.key]} :
                  ServerCompletes(r, split, file)
       /\ UNCHANGED <<client, events, agent, drawn, starts, sent>>

\* A bug: the splits go and the hits among them stay in the cache.
ServerAbortMutant ==
    LET r == Head(toServer).resource
    IN /\ Received /\ Head(toServer).type = "abort"
       /\ failed' = FALSE
       /\ server' = [server EXCEPT !.store[r] = <<>>]
       /\ UNCHANGED <<client, disk, toClient, events, agent, drawn, starts, sent>>

\* handleAbortSplitRequest
ServerAbort ==
    LET r == Head(toServer).resource
    IN /\ Received /\ Head(toServer).type = "abort"
       /\ failed' = ~ CanRemove(server.cache, server.store[r])
       /\ server' = Discarded(server, r)
       /\ UNCHANGED <<client, disk, toClient, events, agent, drawn, starts, sent>>

\* handleCommitSplitRequest
ServerCommit ==
    LET message == Head(toServer)
        split == Head(server.commits)
    IN /\ Received /\ Head(toServer).type = "commit"
       /\ failed' = ~ CanCommit(server, message.resource, message.position)
       /\ server' = IF failed' THEN server ELSE Committed(server)
       /\ drawn' = IF failed' \/ ~ message.commit THEN drawn
                   ELSE Expanded(split.key, split.data, split.csize)
       /\ UNCHANGED <<client, disk, toClient, events, agent, starts, sent>>

\* The keeper removes the files it finds too old or too many.
KeeperRemoves(k) ==
    /\ "keeper" \in May
    /\ disk[k] # Null
    /\ disk' = [disk EXCEPT ![k] = Null]
    /\ UNCHANGED <<client, server, toServer, toClient, events, agent, drawn, starts, sent,
                   failed>>

Server == ServerStartEnd \/ ServerImage \/ ServerSplit \/ ServerData
          \/ ServerAbort \/ ServerCommit

AgentEvent == CommitSplitEvent \/ EndSplitEvent \/ EmptySplitEvent

Next ==
    /\ ~ failed
    /\ \/ \E r \in Resource :
             \/ \E mode \in Modes : StartSplit(r, mode)
             \/ \E k \in Key, action \in Action, small \in BOOLEAN :
                   PutImage(r, k, action, small)
             \/ EndSplit(r)
             \/ AbortSplit(r)
             \/ FinishSplit(r)
             \/ WaitSplitEvent(r)
       \/ AgentEvent
       \/ HandleSplit
       \/ HandleSplitEvent
       \/ Server
       \/ \E k \in Key : KeeperRemoves(k)

Spec == Init /\ [][Next]_vars

\* Both proxies and the agent go on handling what they get, the agent ends the
\* sequences it starts, and the split timeout of the proxy comes.
Fairness ==
    /\ \A r \in Resource : WF_vars(EndSplit(r)) /\ WF_vars(WaitSplitEvent(r))
    /\ WF_vars(AgentEvent)
    /\ WF_vars(HandleSplit)
    /\ WF_vars(HandleSplitEvent)
    /\ WF_vars(Server)

FairSpec == Spec /\ Fairness

----------------------------------------------------------------------------
(* Properties *)

\* Neither proxy aborts and the agent never panics: data comes for a split that
\* is there, commits match the head of the commit stores on both sides, every
\* end of a split is of a resource in use, an abort finds the hits it removes,
\* unless it removes what another abort has removed.
NobodyGivesUp == ~ failed

\* An image that is committed, or taken from the cache, is drawn as the agent
\* sent it: its data is there, in the form that its size says.
DrawnIsWhole == drawn # Null => drawn.image = "whole"

\* Once all that was sent is received, the two sides hold the same splits, as
\* far along, in the same order, the same commits, and the same messages in the
\* caches, the same ones locked, though the reports and the aborts they lead to
\* cross the data, and the agent's side removes what the agent aborts while the
\* splits of the other side are further behind.
Outline(split) ==
    [resource |-> split.resource, key |-> split.key, action |-> split.action,
     next |-> split.next, started |-> split.started]

Skeleton(splits) == [i \in DOMAIN splits |-> Outline(splits[i])]

SlotsAlike(k) ==
    /\ client.cache[k] = Null <=> server.cache[k] = Null
    /\ client.cache[k] # Null => client.cache[k].locked = server.cache[k].locked

StoresInStep ==
    toServer = <<>> /\ ~ failed =>
        /\ \A r \in Resource :
              Skeleton(client.store[r]) = Skeleton(server.store[r])
        /\ Skeleton(client.commits) = Skeleton(server.commits)
        /\ \A k \in Key : SlotsAlike(k)

\* A message locked in the cache of the agent's side has its split under way,
\* as long as no sequence is aborted: if it had not, it would never be unlocked,
\* used or replaced.
LockedIsUnderWay ==
    \A k \in Key :
        client.cache[k] # Null /\ client.cache[k].locked =>
            \/ \E i \in DOMAIN client.commits :
                  client.commits[i].key = k /\ client.commits[i].action = "added"
            \/ \E r \in Resource : \E i \in DOMAIN client.store[r] :
                  client.store[r][i].key = k /\ client.store[r][i].action = "added"

\* A resource that is free for the agent has no split, in any store or on the
\* link, nor a commit it has not asked for.
FreeIsIdle ==
    \A r \in Resource : agent[r] = "free" /\ ~ failed =>
        /\ client.store[r] = <<>>
        /\ \A i \in DOMAIN client.commits : client.commits[i].resource # r
        /\ \A i \in DOMAIN events :
              events[i].type # "empty" => events[i].resource # r

\* The sizes that go into the checksum of the saved caches agree.
SizesAgree ==
    toServer = <<>> /\ toClient = <<>> /\ ~ failed =>
        \A k \in Key :
            client.cache[k] # Null /\ ~ client.cache[k].locked =>
                client.cache[k].csize = server.cache[k].csize

\* Every sequence the agent closes comes to its end.
SplitsEnd ==
    \A r \in Resource :
        agent[r] \in {"waiting", "split", "released"} ~> agent[r] = "free"
============================================================================
