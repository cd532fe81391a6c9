---------------------------- MODULE FlowControl ----------------------------
(***************************************************************************)
(* The tokens that limit how much a proxy sends ahead of its peer          *)
(* (Proxy.cpp: addTokenCodes, handleToken, handleTokenFromProxy,           *)
(* handleTokenReplyFromProxy, handlePing).  Every TokenSize bytes written  *)
(* cost a token, asked for with a code in front of the frame; the peer     *)
(* gives the same number of tokens back with a reply.  The client proxy    *)
(* stops reading from its channels when it has no control tokens, the      *)
(* generic channels of both sides stop without data tokens, the splits     *)
(* without split tokens.  A proxy that gets back more than it asked for    *)
(* ends the session.                                                       *)
(*                                                                         *)
(* Bytes are counted after compression; what is in them is left out.  A    *)
(* handler runs from end to end; what the client proxy reads from the link *)
(* while it writes a frame is modelled as read before or after it.         *)
(***************************************************************************)
EXTENDS Integers, Sequences, FiniteSets

CONSTANTS TokenSize, TokenLimit,
          MaxCount,    \* the most tokens in a code: 255
          SlowLink,    \* can a round trip take longer than the ping timeout?
          Burst,       \* bound: sizes of what is encoded at once
          MaxEncoded,  \* bound: bytes encoded and not yet accounted for
          MaxLink,     \* bound: nothing is read or pinged with so much in flight
          MaxDebt      \* bound: nobody pings with so many tokens missing

ASSUME TokensAssumption ==
    /\ TokenSize \in Nat \ {0} /\ TokenLimit \in Nat /\ MaxCount \in Nat \ {0}
    /\ SlowLink \in BOOLEAN
    /\ Burst \subseteq Nat \ {0}
    /\ {MaxEncoded, MaxLink, MaxDebt} \subseteq Nat

Side == {"client", "server"}
Peer(s) == IF s = "client" THEN "server" ELSE "client"
Token == {"control", "split", "data"}

AtLeastOne(n) == IF n < 1 THEN 1 ELSE n

(* handleLinkConfiguration. *)
Limit(t) == AtLeastOne(CASE t = "control" -> TokenLimit
                         [] t = "split" -> TokenLimit \div 2
                         [] t = "data" -> TokenLimit \div 4)

TokenCode == [code : {"request", "reply"}, token : Token, count : 1 .. MaxCount]
Frame == [code |-> "frame"]     \* data in the encode buffer, on the link

VARIABLES
    bytes,       \* bytes of each token
    remaining,   \* tokens left
    congestion,  \* congestion_ of the proxies
    encoded,     \* bytes encoded since handleToken last asked the statistics
    buffered,    \* is there anything in the encode buffer?
    control,     \* controlCodes_
    link         \* written by a proxy and not yet read by its peer

vars == <<bytes, remaining, congestion, encoded, buffered, control, link>>

Init ==
    /\ bytes = [s \in Side |-> [t \in Token |-> 0]]
    /\ remaining = [s \in Side |-> [t \in Token |-> Limit(t)]]
    /\ congestion = [s \in Side |-> FALSE]
    /\ encoded = [s \in Side |-> [t \in Token |-> 0]]
    /\ buffered = [s \in Side |-> FALSE]
    /\ control = [s \in Side |-> << >>]
    /\ link = [s \in Side |-> << >>]

-----------------------------------------------------------------------------
(* Asking for tokens *)

(* Mutant: the count is cut to a byte only when it is written. *)
CountUncut(b) == AtLeastOne(b \div TokenSize)

(* The weight addTokenCodes gives to b bytes. *)
Count(b) ==
    LET n == AtLeastOne(b \div TokenSize) IN IF n > MaxCount THEN MaxCount ELSE n

(* What the weight leaves for the next token. *)
Left(b) == IF b < TokenSize THEN 0 ELSE b % TokenSize

(* The code as it is written, in one byte. *)
Request(t, b) ==
    [code |-> "request", token |-> t, count |-> Count(b) % (MaxCount + 1)]

(* handleToken(frame_data): the tokens a proxy accounts for. *)
Accounted(s) == IF s = "client" THEN Token ELSE {"data"}

(* updateControlToken adds a byte for the frame. *)
Updated(s, t) == bytes[s][t] + encoded[s][t] + IF t = "control" THEN 1 ELSE 0

Asked(s) == {t \in Accounted(s) : Updated(s, t) > TokenSize}

(* The codes, in the order they are added. *)
Requests(s) ==
    LET of(t) == IF t \in Asked(s) THEN << Request(t, Updated(s, t)) >> ELSE << >>
    IN  of("control") \o of("split") \o of("data")

(* The rest of handleFrame: the codes and the data leave together. *)
Send(s, requests) ==
    /\ link' = [link EXCEPT ![s] =
                   @ \o control[s] \o requests
                     \o (IF buffered[s] THEN << Frame >> ELSE << >>)]
    /\ control' = [control EXCEPT ![s] = << >>]
    /\ buffered' = [buffered EXCEPT ![s] = FALSE]

(* handleFlush: handleFrame(frame_data), which runs out of control tokens. *)
handleFlush(s) ==
    /\ buffered[s] \/ control[s] # << >>
    /\ bytes' = [bytes EXCEPT ![s] =
                    [t \in Token |-> IF t \in Asked(s) THEN Left(Updated(s, t))
                                     ELSE IF t \in Accounted(s) THEN Updated(s, t)
                                     ELSE @[t]]]
    /\ encoded' = [encoded EXCEPT ![s] =
                      [t \in Token |-> IF t \in Accounted(s) THEN 0 ELSE @[t]]]
    /\ remaining' = [remaining EXCEPT ![s] =
                        [t \in Token |-> IF t \in Asked(s)
                                         THEN @[t] - Count(Updated(s, t)) ELSE @[t]]]
    /\ congestion' = [congestion EXCEPT ![s] =
                         @ \/ remaining'[s]["control"] <= 0]
    /\ Send(s, Requests(s))

(* Nothing of what a proxy wrote is still to be read or answered. *)
Quiet(s) == link[s] = << >> /\ control[Peer(s)] = << >> /\ link[Peer(s)] = << >>

(* handlePing.  Nothing may have come from the peer for twice the ping timeout:
   the client proxy stops, the server proxy stops and goes in turns.  The ping
   is a control token; only when it heard nothing the server proxy sends it.
   Pings are a timeout apart: with a faster link the last one was answered. *)
handlePing(s, silent, ping) ==
    /\ silent => link[Peer(s)] = << >>
    /\ ping => (s = "client" \/ silent) /\ (SlowLink \/ Quiet(s))
    /\ silent \/ ping
    /\ remaining[s]["control"] > -MaxDebt /\ Len(link[s]) < MaxLink
    /\ IF ping
       THEN /\ bytes' = [bytes EXCEPT ![s] = [t \in Token |-> 0]]
            /\ remaining' = [remaining EXCEPT ![s]["control"] =
                                @ - Count(bytes[s]["control"])]
            /\ Send(s, << Request("control", bytes[s]["control"]) >>)
       ELSE UNCHANGED <<bytes, remaining, control, buffered, link>>
    /\ congestion' = [congestion EXCEPT ![s] =
                         \/ silent /\ (s = "client" \/ ~@)
                         \/ ~silent /\ @
                         \/ ping /\ remaining'[s]["control"] <= 0]
    /\ UNCHANGED encoded

-----------------------------------------------------------------------------
(* What consumes tokens *)

(* A channel, or the split store, encodes n bytes. *)
Encode(s, kinds, n) ==
    /\ \A t \in kinds : encoded[s][t] + n <= MaxEncoded
    /\ Len(link[s]) < MaxLink
    /\ encoded' = [encoded EXCEPT ![s] =
                      [t \in Token |-> IF t \in kinds \cap Accounted(s)
                                       THEN @[t] + n ELSE @[t]]]
    /\ buffered' = [buffered EXCEPT ![s] = TRUE]
    /\ UNCHANGED <<bytes, remaining, congestion, control, link>>

(* handleRead(fd) for an X connection: isTimeToRead. *)
ReadX(s, n) == ~congestion[s] /\ Encode(s, {"control"}, n)

(* handleRead(fd) for any other. *)
ReadGeneric(s, n) ==
    /\ ~congestion[s] /\ remaining[s]["data"] > 0
    /\ Encode(s, {"control", "data"}, n)

(* handleEvents: isTimeToSplit.  The congestion is tested once for all the
   channels, before frames that their events may send. *)
handleSplit(n) ==
    /\ remaining["client"]["split"] > 0
    /\ Encode("client", {"control", "split"}, n)

-----------------------------------------------------------------------------
(* What comes from the peer *)

Incoming(s) == Head(link[Peer(s)])

Receives(s, code) == link[Peer(s)] # << >> /\ Incoming(s).code = code

(* Mutant: any data ends any congestion. *)
ConsumeAnything(s) ==
    /\ link' = [link EXCEPT ![Peer(s)] = Tail(@)]
    /\ congestion' = [congestion EXCEPT ![s] = FALSE]
    /\ UNCHANGED <<bytes, encoded, buffered>>

(* Mutant: the congestion is not looked at again. *)
ConsumeForgetful(s) ==
    /\ link' = [link EXCEPT ![Peer(s)] = Tail(@)]
    /\ UNCHANGED <<bytes, congestion, encoded, buffered>>

(* handleRead: having read something ends a congestion due to silence. *)
Consume(s) ==
    /\ link' = [link EXCEPT ![Peer(s)] = Tail(@)]
    /\ congestion' = [congestion EXCEPT ![s] =
                         @ /\ remaining'[s]["control"] <= 0]
    /\ UNCHANGED <<bytes, encoded, buffered>>

FrameFromProxy(s) ==
    /\ Receives(s, "frame")
    /\ UNCHANGED <<remaining, control>>
    /\ Consume(s)

(* The reply waits for the next frame: it is not one of the urgent codes. *)
handleTokenFromProxy(s) ==
    /\ Receives(s, "request")
    /\ control' = [control EXCEPT ![s] = Append(@, [Incoming(s) EXCEPT !.code = "reply"])]
    /\ UNCHANGED remaining
    /\ Consume(s)

(* Mutant: the reply is taken for one to a control request. *)
handleTokenReplyFromProxyMutant(s) ==
    /\ Receives(s, "reply")
    /\ remaining' = [remaining EXCEPT ![s]["control"] = @ + Incoming(s).count]
    /\ UNCHANGED control
    /\ Consume(s)

handleTokenReplyFromProxy(s) ==
    /\ Receives(s, "reply")
    /\ remaining' = [remaining EXCEPT ![s][Incoming(s).token] = @ + Incoming(s).count]
    /\ UNCHANGED control
    /\ Consume(s)

FromProxy(s) == FrameFromProxy(s) \/ handleTokenFromProxy(s)
                    \/ handleTokenReplyFromProxy(s)

Next ==
    \/ \E s \in Side :
          \/ handleFlush(s) \/ FromProxy(s)
          \/ \E silent, ping \in BOOLEAN : handlePing(s, silent, ping)
          \/ \E n \in Burst : ReadX(s, n) \/ ReadGeneric(s, n)
    \/ \E n \in Burst : handleSplit(n)

(* The server proxy flushes at every turn of its loop.  The client proxy may
   leave that to the agent (FlushPolicy), but it pings when nothing has been
   written for a while.  Both read what has arrived. *)
Fairness ==
    /\ \A s \in Side : WF_vars(FromProxy(s))
    /\ WF_vars(handleFlush("server"))
    /\ WF_vars(handleFlush("client")
                  \/ \E silent \in BOOLEAN : handlePing("client", silent, TRUE))

Spec == Init /\ [][Next]_vars /\ Fairness

-----------------------------------------------------------------------------
(* Properties *)

(* Counters, codes and flags stay in their domains: in particular every code on
   the link asks for at least a token, and for no more than fit in a byte. *)
TypeOK ==
    /\ bytes \in [Side -> [Token -> Nat]]
    /\ remaining \in [Side -> [Token -> Int]]
    /\ congestion \in [Side -> BOOLEAN]
    /\ encoded \in [Side -> [Token -> 0 .. MaxEncoded]]
    /\ buffered \in [Side -> BOOLEAN]
    /\ control \in [Side -> Seq(TokenCode)]
    /\ link \in [Side -> Seq(TokenCode \cup {Frame})]

(* The tokens of a kind in some codes, each with its place. *)
Units(codes, code, t) ==
    {u \in (1 .. Len(codes)) \X (1 .. MaxCount) :
        LET m == codes[u[1]] IN m.code = code /\ m.token = t /\ u[2] <= m.count}

Tokens(codes, code, t) == Cardinality(Units(codes, code, t))

(* No token is lost or made up: those left and those that the requests and
   the replies under way stand for are always as many as the limit.  The
   proxy never finds a token overflow, and its tokens can all come back. *)
TokensConserved ==
    \A s \in Side, t \in Token :
        remaining[s][t] + Tokens(link[s], "request", t)
            + Tokens(control[Peer(s)], "reply", t)
            + Tokens(link[Peer(s)], "reply", t) = Limit(t)

(* The client proxy does not read from its channels without control tokens,
   whatever the silences and what ended them. *)
StopsWithoutTokens == ~congestion["client"] => remaining["client"]["control"] > 0

(* The client proxy always gets back to its channels. *)
CongestionEnds == congestion["client"] ~> ~congestion["client"]

(* The generic channels of either side are never stopped for good. *)
DataResumes ==
    \A s \in Side : remaining[s]["data"] <= 0 ~> remaining[s]["data"] > 0

=============================================================================
