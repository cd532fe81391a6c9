------------------------------ MODULE Channels ------------------------------
(***************************************************************************)
(* The channels multiplexed on the link between two proxies (Proxy.cpp).   *)
(* The client proxy gives an id to each connection it accepts and tells    *)
(* the server proxy, which connects to the real server.  When one end is   *)
(* closed its proxy marks the channel as finished and says so; the other   *)
(* marks it as closing, drops it and confirms; the id is then free again.  *)
(*                                                                         *)
(* Data is encoded in a buffer shared by all the channels and control      *)
(* codes are kept apart: a frame carries the codes in front of the data,   *)
(* so a code overtakes whatever is still in the buffer.  The id of the     *)
(* channel is only sent when the output moves to another channel.          *)
(*                                                                         *)
(* A handler runs from end to end.  While the client proxy writes a frame  *)
(* it also reads from the link (handleAsyncEvents): as the ids modelled    *)
(* here are never opened by the remote, what is read there only marks      *)
(* channels, and it is modelled as read before or after the handler.       *)
(***************************************************************************)
EXTENDS Naturals, Sequences, FiniteSets

CONSTANTS Limit,         \* ids that the client proxy can allocate
          MaxConn,       \* bound: connections accepted in a session
          MaxData,       \* bound: pieces of data read in a session
          Racing,        \* connections whose two ends may be closed at once
          ConnectFails,  \* connections that the real server may refuse
          WriteFails,    \* connections that writing to may fail
          Stalls         \* can a local connection be slow to take its data?

ASSUME LimitAssumption == Limit \in Nat \ {0} /\ MaxConn \in Nat /\ MaxData \in Nat

ASSUME EnvironmentAssumption ==
    Racing \cup ConnectFails \cup WriteFails \subseteq 1 .. MaxConn /\ Stalls \in BOOLEAN

Side == {"client", "server"}
Peer(s) == IF s = "client" THEN "server" ELSE "client"

Id == 0 .. Limit - 1
nothing == Limit          \* -1 in the code
Conn == 1 .. MaxConn

(* A channel object; conn tells the connections that used an id apart. *)
Channel == [conn : Conn, finish : BOOLEAN, closing : BOOLEAN, drop : BOOLEAN,
            congestion : BOOLEAN]
None == [conn |-> 0]      \* a null pointer in channels_

Code == [code : {"switch", "new", "finish", "drop", "begin", "end"},
         id : Id, conn : Conn]
Data == [code : {"data"}, id : Id, conn : Conn]
Message == Code \cup Data

VARIABLES
    channels,    \* channels_ of each proxy
    congestions, \* congestions_: the ids whose remote end does not keep up
    tx,          \* controlCodes_, encodeBuffer_, outputChannel_ and the link
    input,       \* inputChannel_
    opened,      \* connections accepted so far
    reads        \* pieces of data read so far

vars == <<channels, congestions, tx, input, opened, reads>>

Transmit == [control : Seq(Code), encode : Seq(Data),
             output : Id \cup {nothing}, link : Seq(Message)]

Init ==
    /\ channels = [s \in Side |-> [c \in Id |-> None]]
    /\ congestions = [s \in Side |-> {}]
    /\ tx = [s \in Side |-> [control |-> << >>, encode |-> << >>,
                             output |-> nothing, link |-> << >>]]
    /\ input = [s \in Side |-> nothing]
    /\ opened = 0 /\ reads = 0

-----------------------------------------------------------------------------
(* Building frames *)

(* handleFrame: the control codes, then the data. *)
handleFrame(t) ==
    [t EXCEPT !.control = << >>, !.encode = << >>,
              !.link = @ \o t.control \o t.encode]

addControlCodes(t, code, c, k) ==
    [t EXCEPT !.control = Append(@, [code |-> code, id |-> c, conn |-> k])]

(* handleControl for a code that is sent at once. *)
handleControl(t, code, c, k) == handleFrame(addControlCodes(t, code, c, k))

(* Mutant: what the channel has encoded is not sent first. *)
flushMutant(t, c) == t

(* needFlush(channelId) and handleFrame. *)
flush(t, c) == IF t.output = c /\ t.encode # << >> THEN handleFrame(t) ELSE t

(* Mutant: the data of the other channel is left in the buffer. *)
handleSwitchMutant(t, c, k) ==
    IF t.output = c THEN t
    ELSE [addControlCodes(t, "switch", c, k) EXCEPT !.output = c]

handleSwitch(t, c, k) ==
    IF t.output = c THEN t
    ELSE [addControlCodes(IF t.encode # << >> THEN handleFrame(t) ELSE t,
                          "switch", c, k) EXCEPT !.output = c]

(* Mutant: the remote is not told that its channel is gone. *)
handleDropMutant(t, ch, c) ==
    [flush(t, c) EXCEPT !.output = IF @ = c THEN nothing ELSE @]

(* What handleDrop writes for a channel, and the output it leaves. *)
handleDrop(t, ch, c) ==
    LET f == flush(t, c)
        g == IF ch.closing THEN handleControl(f, "drop", c, ch.conn) ELSE f
    IN  [g EXCEPT !.output = IF @ = c THEN nothing ELSE @]

-----------------------------------------------------------------------------
(* What a proxy does by itself *)

Open(s, c) == channels[s][c] # None

Fresh(k) == [conn |-> k, finish |-> FALSE, closing |-> FALSE, drop |-> FALSE,
             congestion |-> FALSE]

(* handleNewConnection: allocateChannelMap takes the first free id. *)
handleNewConnection ==
    /\ opened < MaxConn
    /\ opened' = opened + 1
    /\ \E c \in Id :
        /\ ~Open("client", c) /\ \A d \in 0 .. c - 1 : Open("client", d)
        /\ channels' = [channels EXCEPT !["client"][c] = Fresh(opened')]
        /\ tx' = [tx EXCEPT !["client"] = addControlCodes(@, "new", c, opened')]
    /\ UNCHANGED <<congestions, input, reads>>

(* setReadDescriptors and canRead: the connection is looked at. *)
Readable(s, c) ==
    Open(s, c) /\ ~channels[s][c].finish /\ c \notin congestions[s]

(* handleRead(fd): the channel encodes what its connection had to say. *)
handleReadChannel(s, c) ==
    /\ reads < MaxData
    /\ Readable(s, c)
    /\ LET k == channels[s][c].conn
           t == handleSwitch(tx[s], c, k)
       IN  tx' = [tx EXCEPT ![s] =
                     [t EXCEPT !.encode =
                         Append(@, [code |-> "data", id |-> c, conn |-> k])]]
    /\ reads' = reads + 1
    /\ UNCHANGED <<channels, congestions, input, opened>>

(* The flush at the end of every turn of the loop. *)
handleFlush(s) ==
    /\ tx[s].control # << >> \/ tx[s].encode # << >>
    /\ tx' = [tx EXCEPT ![s] = handleFrame(@)]
    /\ UNCHANGED <<channels, congestions, input, opened, reads>>

(* The remote end of a connection has already been closed. *)
Raced(s, k) ==
    \E c \in Id : /\ channels[Peer(s)][c].conn = k
                  /\ channels[Peer(s)][c].finish

(* Mutant: the channel is got rid of without waiting for the remote. *)
handleFinishMutant(s, c) ==
    /\ Readable(s, c)
    /\ channels[s][c].conn \in Racing \/ ~Raced(s, channels[s][c].conn)
    /\ channels' = [channels EXCEPT ![s][c] = None]
    /\ tx' = [tx EXCEPT ![s] =
                 handleControl(flush(@, c), "finish", c, channels[s][c].conn)]
    /\ UNCHANGED <<congestions, input, opened, reads>>

(* handleRead(fd) found the connection closed: handleFinish(channelId). *)
handleFinish(s, c) ==
    /\ Readable(s, c)
    /\ channels[s][c].conn \in Racing \/ ~Raced(s, channels[s][c].conn)
    /\ channels' = [channels EXCEPT ![s][c].finish = TRUE,
                                    ![s][c].congestion = FALSE]
    /\ tx' = [tx EXCEPT ![s] =
                 handleControl(flush(@, c), "finish", c, channels[s][c].conn)]
    /\ UNCHANGED <<congestions, input, opened, reads>>

(* Mutant: the id is given back with the congestion of its last channel. *)
DropCongestionMutant(s, c) == congestions

(* What handleDrop leaves of the congestions. *)
DropCongestion(s, c) == [congestions EXCEPT ![s] = @ \ {c}]

(* handleEvents: get rid of the channels marked by the remote. *)
handleEvents(s, c) ==
    /\ Open(s, c) /\ (channels[s][c].drop \/ channels[s][c].closing)
    /\ tx' = [tx EXCEPT ![s] = handleDrop(@, channels[s][c], c)]
    /\ channels' = [channels EXCEPT ![s][c] = None]
    /\ congestions' = DropCongestion(s, c)
    /\ UNCHANGED <<input, opened, reads>>

(* Channel::handleCongestion: the connection took what was waiting for it. *)
handleDecongestion(s, c) ==
    /\ Open(s, c) /\ ~channels[s][c].finish /\ channels[s][c].congestion
    /\ channels' = [channels EXCEPT ![s][c].congestion = FALSE]
    /\ tx' = [tx EXCEPT ![s] = handleControl(@, "end", c, channels[s][c].conn)]
    /\ UNCHANGED <<congestions, input, opened, reads>>

-----------------------------------------------------------------------------
(* What it does for a message from the other proxy *)

Incoming(s) == Head(tx[Peer(s)].link)

Receives(s, code) == tx[Peer(s)].link # << >> /\ Incoming(s).code = code

(* The link without its first message; the receiver's side becomes t. *)
Consumed(s, t) == [tx EXCEPT ![Peer(s)].link = Tail(@), ![s] = t]

SwitchFromProxy(s) ==
    /\ Receives(s, "switch")
    /\ input' = [input EXCEPT ![s] = Incoming(s).id]
    /\ tx' = Consumed(s, tx[s])
    /\ UNCHANGED <<channels, congestions, opened, reads>>

(* Data is decoded by the selected channel, or ignored if there is none. *)
DataFromProxy(s) ==
    /\ Receives(s, "data")
    /\ tx' = Consumed(s, tx[s])
    /\ UNCHANGED <<channels, congestions, input, opened, reads>>

(* The channel that decodes what is arriving, if it can write it. *)
Writable(s) ==
    input[s] # nothing /\ Open(s, input[s]) /\ ~channels[s][input[s]].finish

(* Channel::handleCongestion: the connection does not take the decoded data. *)
DataFromProxyStalls(s) ==
    /\ Stalls
    /\ Receives(s, "data")
    /\ Writable(s) /\ ~channels[s][input[s]].congestion
    /\ channels' = [channels EXCEPT ![s][input[s]].congestion = TRUE]
    /\ tx' = Consumed(s, handleControl(tx[s], "begin", input[s],
                                       channels[s][input[s]].conn))
    /\ UNCHANGED <<congestions, input, opened, reads>>

(* Channel::handleFlush could not write the decoded data: it sets finish_, and
   handleFinish, called by handleRead, finds it set. *)
DataFromProxyFails(s) ==
    /\ Receives(s, "data")
    /\ Writable(s) /\ channels[s][input[s]].conn \in WriteFails
    /\ channels' = [channels EXCEPT ![s][input[s]].finish = TRUE]
    /\ tx' = Consumed(s, flush(tx[s], input[s]))
    /\ congestions' = [congestions EXCEPT ![s] = @ \ {input[s]}]
    /\ UNCHANGED <<input, opened, reads>>

Stale(ch) == ch # None /\ (ch.drop \/ ch.closing)

(* A new connection first gets rid of a channel still to be dropped. *)
Cleared(s, c) ==
    IF Stale(channels[s][c]) THEN handleDrop(tx[s], channels[s][c], c) ELSE tx[s]

NewFromProxy(s) ==
    LET c == Incoming(s).id IN
    /\ Receives(s, "new")
    /\ ~Open(s, c) \/ Stale(channels[s][c])
    /\ channels' = [channels EXCEPT ![s][c] = Fresh(Incoming(s).conn)]
    /\ tx' = Consumed(s, Cleared(s, c))
    /\ congestions' = IF Open(s, c) THEN DropCongestion(s, c) ELSE congestions
    /\ UNCHANGED <<input, opened, reads>>

(* The id is in use, or connecting failed. *)
NewFromProxyRefused(s) ==
    LET c == Incoming(s).id IN
    /\ Receives(s, "new")
    /\ (Open(s, c) /\ ~Stale(channels[s][c])) \/ Incoming(s).conn \in ConnectFails
    /\ channels' = [channels EXCEPT ![s][c] = IF Stale(@) THEN None ELSE @]
    /\ tx' = Consumed(s, handleControl(Cleared(s, c), "drop", c, Incoming(s).conn))
    /\ congestions' = IF Stale(channels[s][c]) THEN DropCongestion(s, c)
                      ELSE congestions
    /\ UNCHANGED <<input, opened, reads>>

(* The channel is marked; handleEvents, later in the same turn of the loop or
   in the next one, gets rid of it. *)
handleFinishFromProxy(s) ==
    LET c == Incoming(s).id IN
    /\ Receives(s, "finish")
    /\ channels' = [channels EXCEPT ![s][c] =
                       IF @ = None THEN @
                       ELSE [@ EXCEPT !.closing = TRUE, !.finish = TRUE,
                                      !.congestion = FALSE]]
    /\ tx' = Consumed(s, IF Open(s, c) THEN flush(tx[s], c) ELSE tx[s])
    /\ congestions' = IF Open(s, c) THEN [congestions EXCEPT ![s] = @ \ {c}]
                      ELSE congestions
    /\ UNCHANGED <<input, opened, reads>>

handleDropFromProxy(s) ==
    LET c == Incoming(s).id IN
    /\ Receives(s, "drop")
    /\ channels' = [channels EXCEPT ![s][c] =
                       IF @ = None THEN @ ELSE [@ EXCEPT !.drop = TRUE]]
    /\ tx' = Consumed(s, tx[s])
    /\ UNCHANGED <<congestions, input, opened, reads>>

(* code_begin_congestion and code_end_congestion. *)
CongestionFromProxy(s) ==
    LET m == Incoming(s) IN
    /\ tx[Peer(s)].link # << >> /\ m.code \in {"begin", "end"}
    /\ tx' = Consumed(s, tx[s])
    /\ congestions' = [congestions EXCEPT ![s] =
                          IF ~Open(s, m.id) THEN @
                          ELSE IF m.code = "begin" THEN @ \cup {m.id} ELSE @ \ {m.id}]
    /\ UNCHANGED <<channels, input, opened, reads>>

FromProxy(s) ==
    \/ SwitchFromProxy(s) \/ DataFromProxy(s)
    \/ DataFromProxyStalls(s) \/ DataFromProxyFails(s)
    \/ NewFromProxy(s) \/ NewFromProxyRefused(s)
    \/ handleFinishFromProxy(s) \/ handleDropFromProxy(s)
    \/ CongestionFromProxy(s)

Next ==
    \/ handleNewConnection
    \/ \E s \in Side : handleFlush(s) \/ FromProxy(s)
    \/ \E s \in Side, c \in Id :
          \/ handleReadChannel(s, c) \/ handleDecongestion(s, c)
          \/ handleFinish(s, c) \/ handleEvents(s, c)

(* The loop of a proxy always gets to the link, to the flush and to the
   events; nothing makes a client connect, talk or leave. *)
Fairness ==
    /\ \A s \in Side : WF_vars(handleFlush(s)) /\ WF_vars(FromProxy(s))
    /\ \A s \in Side, c \in Id : WF_vars(handleEvents(s, c))

Spec == Init /\ [][Next]_vars /\ Fairness

-----------------------------------------------------------------------------
(* Properties *)

(* Every id, flag, buffer and message stays in its domain. *)
TypeOK ==
    /\ channels \in [Side -> [Id -> Channel \cup {None}]]
    /\ congestions \in [Side -> SUBSET Id]
    /\ tx \in [Side -> Transmit]
    /\ input \in [Side -> Id \cup {nothing}]
    /\ opened \in 0 .. MaxConn
    /\ reads \in 0 .. MaxData

(* Whatever is in the encode buffer belongs to the channel selected for output,
   which still exists: handleFrame asks that channel to complete the data, and
   the remote will give it to the peer of that channel. *)
OutputOwnsBuffer ==
    \A s \in Side : tx[s].encode # << >> =>
        /\ tx[s].output # nothing
        /\ \A i \in DOMAIN tx[s].encode :
               channels[s][tx[s].output].conn = tx[s].encode[i].conn

(* Data is decoded with the id of the channel that encoded it selected, though
   codes overtake data and the id is only sent when it changes. *)
SelectedForInput ==
    \A s \in Side : Receives(s, "data") => input[s] = Incoming(s).id

(* The connections that are neither refused nor broken, nor closed twice. *)
Polite == Conn \ (Racing \cup ConnectFails \cup WriteFails)

(* The data read from a connection reaches the channel the other proxy opened
   for that connection, and no message about an earlier connection touches a
   later one that got the same id. *)
NoCrossTalk ==
    \A s \in Side : tx[Peer(s)].link # << >> /\ Incoming(s).conn \in Polite =>
        LET m == Incoming(s) IN
        /\ m.code = "data" => input[s] # nothing
                                  /\ channels[s][input[s]].conn = m.conn
        /\ m.code \in {"finish", "drop"} => channels[s][m.id].conn \in {0, m.conn}
        /\ m.code = "new" => ~Open(s, m.id) \/ Stale(channels[s][m.id])

(* The messages that follow the selection of a channel find it valid: the
   acknowledged shutdown keeps it until the remote has stopped using it. *)
AcknowledgedShutdown ==
    \A s \in Side : Receives(s, "data") => input[s] # nothing /\ Open(s, input[s])

(* What is still to be said to a proxy about the congestion of a channel. *)
ToSay(s, c) ==
    {i \in DOMAIN tx[Peer(s)].link :
        tx[Peer(s)].link[i].id = c /\ tx[Peer(s)].link[i].code \in {"begin", "end"}}

(* The last that will be said is that the channel is congested. *)
LastSaidBegins(s, c) ==
    \E i \in ToSay(s, c) : /\ tx[Peer(s)].link[i].code = "begin"
                           /\ \A j \in ToSay(s, c) : j <= i

(* Once it has heard all that was said, a proxy stops reading from a connection
   exactly when the other end of that connection does not keep up.  A channel
   is never left unread by the congestion of an earlier one with its id. *)
BackPressure ==
    \A s \in Side, c \in Id :
        LET here == channels[s][c]  there == channels[Peer(s)][c] IN
        /\ Open(s, c) /\ Open(Peer(s), c) /\ here.conn = there.conn /\ here.conn \in Polite
        /\ ~here.finish /\ ~there.finish
        => there.congestion = IF ToSay(s, c) = {} THEN c \in congestions[s]
                              ELSE LastSaidBegins(s, c)

(* When one end of a connection is closed, both proxies get rid of its channel
   and the id becomes available again. *)
Reclaimed ==
    \A k \in Polite :
        (\E s \in Side, c \in Id : channels[s][c].conn = k /\ channels[s][c].finish)
            ~> (\A s \in Side, c \in Id : channels[s][c].conn # k)

=============================================================================
