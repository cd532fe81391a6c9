-------------------------- MODULE FlowControlProofs --------------------------
(***************************************************************************)
(* For every size, limit and width of the tokens, and whatever pings,      *)
(* silences and replies cross on the link, the client proxy never reads    *)
(* its channels without control tokens, and no token is lost or made up.   *)
(***************************************************************************)
EXTENDS FlowControl, SequenceTheorems, FiniteSetTheorems, FunctionTheorems, TLAPS

(* A code asks for a token at least and for no more than fit in a byte. *)
LEMMA RequestType ==
    ASSUME NEW t \in Token, NEW b \in Nat
    PROVE  /\ Count(b) \in 1 .. MaxCount
           /\ Left(b) \in Nat
           /\ Request(t, b) \in TokenCode
           /\ Request(t, b).count = Count(b)
<1> USE TokensAssumption
<1>1. b \div TokenSize \in Nat /\ b % TokenSize \in Nat
    OBVIOUS
<1>2. Count(b) \in 1 .. MaxCount
    BY <1>1 DEF Count, AtLeastOne
<1>3. Count(b) % (MaxCount + 1) = Count(b)
    BY <1>2
<1>4. Left(b) \in Nat
    BY <1>1 DEF Left
<1>5. Request(t, b) = [code |-> "request", token |-> t, count |-> Count(b)]
    BY <1>3 DEF Request
<1>6. QED BY <1>2, <1>4, <1>5 DEF TokenCode

(* There is at least one token of each kind. *)
LEMMA LimitType == \A t \in Token : Limit(t) \in Nat \ {0}
<1> SUFFICES ASSUME NEW t \in Token
             PROVE  Limit(t) \in Nat \ {0}
    OBVIOUS
<1>1. TokenLimit \div 2 \in Nat /\ TokenLimit \div 4 \in Nat
    BY TokensAssumption
<1>2. QED BY <1>1, TokensAssumption DEF Limit, AtLeastOne, Token

(* The requests of a frame are codes. *)
LEMMA RequestsType ==
    ASSUME TypeOK, NEW s \in Side
    PROVE  /\ \A t \in Token : Updated(s, t) \in Nat
           /\ Requests(s) \in Seq(TokenCode)
<1>1. ASSUME NEW t \in Token
      PROVE  Updated(s, t) \in Nat
    BY TokensAssumption DEF TypeOK, Updated
<1> DEFINE of(t) == IF t \in Asked(s) THEN << Request(t, Updated(s, t)) >> ELSE << >>
<1>2. ASSUME NEW t \in Token
      PROVE  of(t) \in Seq(TokenCode)
    BY <1>1, RequestType
<1>3. /\ of("control") \in Seq(TokenCode) /\ of("split") \in Seq(TokenCode)
      /\ of("data") \in Seq(TokenCode)
    BY <1>2 DEF Token
<1>4. Requests(s) = of("control") \o of("split") \o of("data")
    BY DEF Requests
<1> HIDE DEF of
<1>5. of("control") \o of("split") \in Seq(TokenCode)
    BY <1>3, ConcatProperties
<1>6. of("control") \o of("split") \o of("data") \in Seq(TokenCode)
    BY <1>3, <1>5, ConcatProperties
<1>7. QED BY <1>1, <1>4, <1>6

(* A frame keeps the codes and the link well formed. *)
LEMMA SendType ==
    ASSUME TypeOK, NEW s \in Side, NEW requests \in Seq(TokenCode), Send(s, requests)
    PROVE  /\ control' \in [Side -> Seq(TokenCode)]
           /\ link' \in [Side -> Seq(TokenCode \cup {Frame})]
           /\ buffered' \in [Side -> BOOLEAN]
<1> DEFINE M == TokenCode \cup {Frame}
           data == IF buffered[s] THEN << Frame >> ELSE << >>
<1>1. control[s] \in Seq(M) /\ requests \in Seq(M) /\ link[s] \in Seq(M)
    BY DEF TypeOK
<1>2. data \in Seq(M)
  <2>1. Frame \in M
      OBVIOUS
  <2> HIDE DEF M
  <2>2. << Frame >> \in Seq(M) /\ << >> \in Seq(M)
      BY <2>1
  <2>3. QED BY <2>2
<1>3. link[s] \o control[s] \in Seq(M)
    BY <1>1, ConcatProperties
<1>4. link[s] \o control[s] \o requests \in Seq(M)
    BY <1>1, <1>3, ConcatProperties
<1>5. link[s] \o control[s] \o requests \o data \in Seq(M)
    BY <1>2, <1>4, ConcatProperties
<1>6. link' = [link EXCEPT ![s] = link[s] \o control[s] \o requests \o data]
    BY DEF Send, TypeOK
<1>7. link' \in [Side -> Seq(M)]
    BY <1>5, <1>6 DEF TypeOK
<1>8. QED BY <1>7 DEF Send, TypeOK

-----------------------------------------------------------------------------
(* The inductive invariant: a reply cannot take tokens away, so nothing but a
   request can leave the client proxy without. *)

Inv == TypeOK /\ StopsWithoutTokens

(* It holds when the link is set up. *)
LEMMA InitInv == Init => Inv
<1> SUFFICES ASSUME Init
             PROVE  Inv
    OBVIOUS
<1>1. "client" \in Side /\ "control" \in Token
    BY DEF Side, Token
<1>2. 0 \in 0 .. MaxEncoded
    BY TokensAssumption
<1>3. TypeOK
    BY <1>2, LimitType DEF Init, TypeOK
<1>4. StopsWithoutTokens
    BY <1>1, LimitType DEF Init, StopsWithoutTokens
<1>5. QED BY <1>3, <1>4 DEF Inv

(* handleFlush stops the client proxy when it spends the last control token. *)
LEMMA FlushInv == ASSUME Inv, NEW s \in Side, handleFlush(s) PROVE Inv'
<1> USE DEF Inv
<1>1. /\ \A t \in Token : Updated(s, t) \in Nat
      /\ Requests(s) \in Seq(TokenCode)
    BY RequestsType
<1>2. \A t \in Token : Count(Updated(s, t)) \in Int /\ Left(Updated(s, t)) \in Nat
    BY <1>1, RequestType, TokensAssumption
<1>3. /\ control' \in [Side -> Seq(TokenCode)]
      /\ link' \in [Side -> Seq(TokenCode \cup {Frame})]
      /\ buffered' \in [Side -> BOOLEAN]
    BY <1>1, SendType DEF handleFlush
<1>4. bytes' \in [Side -> [Token -> Nat]]
    BY <1>1, <1>2 DEF handleFlush, TypeOK
<1>5. remaining' \in [Side -> [Token -> Int]]
  <2>1. \A t \in Token : remaining[s][t] - Count(Updated(s, t)) \in Int
      BY <1>2 DEF TypeOK
  <2>2. QED BY <2>1 DEF handleFlush, TypeOK
<1>6. encoded' \in [Side -> [Token -> 0 .. MaxEncoded]]
    BY TokensAssumption DEF handleFlush, TypeOK
<1>7. "control" \in Token /\ "client" \in Side
    BY DEF Token, Side
<1>8. congestion'[s] = (congestion[s] \/ remaining'[s]["control"] <= 0)
    BY DEF handleFlush, TypeOK
<1>9. congestion' \in [Side -> BOOLEAN]
    BY DEF handleFlush, TypeOK
<1>10. remaining'["client"]["control"] \in Int
    BY <1>5, <1>7
<1>11. StopsWithoutTokens'
  <2>1. CASE s = "client"
    <3>1. ~congestion'["client"] => ~(remaining'["client"]["control"] <= 0)
        BY <2>1, <1>8
    <3>2. ~(remaining'["client"]["control"] <= 0) => remaining'["client"]["control"] > 0
        BY <1>10
    <3>3. QED BY <3>1, <3>2 DEF StopsWithoutTokens
  <2>2. CASE s # "client"
    <3>1. congestion'["client"] = congestion["client"]
        BY <2>2, <1>7 DEF handleFlush, TypeOK
    <3>2. remaining'["client"] = remaining["client"]
        BY <2>2, <1>7 DEF handleFlush, TypeOK
    <3>3. QED BY <3>1, <3>2 DEF StopsWithoutTokens
  <2>3. QED BY <2>1, <2>2
<1>12. QED BY <1>3, <1>4, <1>5, <1>6, <1>9, <1>11 DEF TypeOK

(* A ping costs a token, and a silence stops the client proxy. *)
LEMMA PingInv ==
    ASSUME Inv, NEW s \in Side, NEW silent \in BOOLEAN, NEW ping \in BOOLEAN,
           handlePing(s, silent, ping)
    PROVE  Inv'
<1> USE DEF Inv
<1>1. "control" \in Token /\ "client" \in Side
    BY DEF Token, Side
<1>2. bytes[s]["control"] \in Nat
    BY <1>1 DEF TypeOK
<1>3. /\ Count(bytes[s]["control"]) \in Int
      /\ << Request("control", bytes[s]["control"]) >> \in Seq(TokenCode)
    BY <1>1, <1>2, RequestType, TokensAssumption
<1>4. /\ bytes' \in [Side -> [Token -> Nat]]
      /\ remaining' \in [Side -> [Token -> Int]]
      /\ control' \in [Side -> Seq(TokenCode)]
      /\ link' \in [Side -> Seq(TokenCode \cup {Frame})]
      /\ buffered' \in [Side -> BOOLEAN]
  <2>1. CASE ping
    <3>0. /\ bytes' = [bytes EXCEPT ![s] = [t \in Token |-> 0]]
          /\ remaining' = [remaining EXCEPT ![s]["control"] =
                              @ - Count(bytes[s]["control"])]
        BY <2>1 DEF handlePing
    <3>1. bytes' \in [Side -> [Token -> Nat]]
        BY <3>0 DEF TypeOK
    <3>2. remaining[s]["control"] - Count(bytes[s]["control"]) \in Int
        BY <1>1, <1>3 DEF TypeOK
    <3>3. remaining' \in [Side -> [Token -> Int]]
        BY <1>1, <3>0, <3>2 DEF TypeOK
    <3>4. Send(s, << Request("control", bytes[s]["control"]) >>)
        BY <2>1 DEF handlePing
    <3>5. QED BY <1>3, <3>1, <3>3, <3>4, SendType
  <2>2. CASE ~ping
      BY <2>2 DEF handlePing, TypeOK
  <2>3. QED BY <2>1, <2>2
<1>5. /\ congestion' \in [Side -> BOOLEAN]
      /\ encoded' = encoded
    BY DEF handlePing, TypeOK
<1>6. remaining'["client"]["control"] \in Int
    BY <1>1, <1>4
<1>7. StopsWithoutTokens'
  <2>1. CASE s = "client" /\ silent
    <3>1. congestion'["client"]
        BY <2>1, <1>1 DEF handlePing, TypeOK
    <3>2. QED BY <3>1 DEF StopsWithoutTokens
  <2>2. CASE s = "client" /\ ~silent
    <3>1. ping /\ congestion'["client"]
                      = (congestion["client"] \/ remaining'["client"]["control"] <= 0)
        BY <2>2, <1>1 DEF handlePing, TypeOK
    <3>2. ~congestion'["client"] => ~(remaining'["client"]["control"] <= 0)
        BY <3>1
    <3>3. ~(remaining'["client"]["control"] <= 0) => remaining'["client"]["control"] > 0
        BY <1>6
    <3>4. QED BY <3>2, <3>3 DEF StopsWithoutTokens
  <2>3. CASE s # "client"
    <3>1. congestion'["client"] = congestion["client"]
        BY <2>3, <1>1 DEF handlePing, TypeOK
    <3>2. remaining'["client"] = remaining["client"]
      <4>1. CASE ping
          BY <2>3, <1>1, <4>1 DEF handlePing, TypeOK
      <4>2. CASE ~ping
          BY <4>2 DEF handlePing
      <4>3. QED BY <4>1, <4>2
    <3>3. QED BY <3>1, <3>2 DEF StopsWithoutTokens
  <2>4. QED BY <2>1, <2>2, <2>3
<1>8. QED BY <1>4, <1>5, <1>7 DEF TypeOK

(* What is encoded waits for a flush to be charged. *)
LEMMA EncodeInv ==
    ASSUME Inv, NEW s \in Side, NEW kinds \in SUBSET Token, NEW n \in Burst,
           Encode(s, kinds, n)
    PROVE  Inv'
<1> USE DEF Inv
<1>1. \A t \in kinds : encoded[s][t] + n \in 0 .. MaxEncoded
    BY TokensAssumption DEF Encode, TypeOK
<1>2. encoded' \in [Side -> [Token -> 0 .. MaxEncoded]]
    BY <1>1 DEF Encode, TypeOK
<1>3. buffered' \in [Side -> BOOLEAN]
    BY DEF Encode, TypeOK
<1>4. UNCHANGED <<bytes, remaining, congestion, control, link>>
    BY DEF Encode
<1>5. QED BY <1>2, <1>3, <1>4 DEF TypeOK, StopsWithoutTokens

(* The peer's messages only add tokens, and end a congestion only with some. *)
LEMMA ReceiveInv == ASSUME Inv, NEW s \in Side, FromProxy(s) PROVE Inv'
<1> USE DEF Inv
<1>1. Peer(s) \in Side /\ Peer(s) # s /\ "client" \in Side /\ "control" \in Token
    BY DEF Peer, Side, Token
<1> DEFINE M == TokenCode \cup {Frame}
           m == Incoming(s)
<1>2. link[Peer(s)] # << >> /\ Consume(s)
    BY DEF FromProxy, FrameFromProxy, handleTokenFromProxy,
           handleTokenReplyFromProxy, Receives
<1>3. link[Peer(s)] \in Seq(M)
    BY <1>1 DEF TypeOK
<1>4. m \in M /\ Tail(link[Peer(s)]) \in Seq(M)
  <2> HIDE DEF M
  <2>1. QED BY <1>2, <1>3, HeadTailProperties DEF Incoming
<1>5. link' \in [Side -> Seq(M)]
    BY <1>2, <1>4 DEF Consume, TypeOK
<1>6. UNCHANGED <<bytes, encoded, buffered>>
    BY <1>2 DEF Consume
<1>7. m.code # "frame" => m \in TokenCode
    BY <1>4 DEF Frame
<1>8. /\ control' \in [Side -> Seq(TokenCode)]
      /\ remaining' \in [Side -> [Token -> Int]]
      /\ \A u \in Side, t \in Token : remaining'[u][t] >= remaining[u][t]
  <2>1. CASE FrameFromProxy(s)
      BY <2>1 DEF FrameFromProxy, TypeOK
  <2>2. CASE handleTokenFromProxy(s)
    <3>1. m \in TokenCode
        BY <2>2, <1>7 DEF handleTokenFromProxy, Receives
    <3>2. [m EXCEPT !.code = "reply"] \in TokenCode
        BY <3>1 DEF TokenCode
    <3>3. Append(control[s], [m EXCEPT !.code = "reply"]) \in Seq(TokenCode)
        BY <3>2 DEF TypeOK
    <3>4. control' \in [Side -> Seq(TokenCode)]
        BY <2>2, <3>3 DEF handleTokenFromProxy, TypeOK
    <3>5. QED BY <2>2, <3>4 DEF handleTokenFromProxy, TypeOK
  <2>3. CASE handleTokenReplyFromProxy(s)
    <3>1. m \in TokenCode
        BY <2>3, <1>7 DEF handleTokenReplyFromProxy, Receives
    <3>2. m.token \in Token /\ m.count \in Nat
        BY <3>1, TokensAssumption DEF TokenCode
    <3>3. remaining' = [remaining EXCEPT ![s][m.token] = remaining[s][m.token] + m.count]
        BY <2>3, <3>2 DEF handleTokenReplyFromProxy, TypeOK
    <3> HIDE DEF m
    <3>4. /\ remaining' \in [Side -> [Token -> Int]]
          /\ \A u \in Side, t \in Token : remaining'[u][t] >= remaining[u][t]
        BY <3>2, <3>3 DEF TypeOK
    <3>5. QED BY <2>3, <3>4 DEF handleTokenReplyFromProxy, TypeOK
  <2>4. QED BY <2>1, <2>2, <2>3 DEF FromProxy
<1>9. congestion' = [congestion EXCEPT ![s] =
                        congestion[s] /\ remaining'[s]["control"] <= 0]
    BY <1>2 DEF Consume, TypeOK
<1>10. congestion' \in [Side -> BOOLEAN]
    BY <1>9 DEF TypeOK
<1>11. StopsWithoutTokens'
  <2>1. /\ remaining["client"]["control"] \in Int
        /\ remaining'["client"]["control"] \in Int
        /\ remaining'["client"]["control"] >= remaining["client"]["control"]
      BY <1>1, <1>8 DEF TypeOK
  <2>2. CASE s = "client"
    <3>1. congestion'["client"]
             = (congestion["client"] /\ remaining'["client"]["control"] <= 0)
        BY <1>1, <1>9, <2>2 DEF TypeOK
    <3>2. /\ ~(remaining'["client"]["control"] <= 0) => remaining'["client"]["control"] > 0
          /\ remaining["client"]["control"] > 0 => remaining'["client"]["control"] > 0
        BY <2>1
    <3>3. ~congestion'["client"] =>
              ~congestion["client"] \/ ~(remaining'["client"]["control"] <= 0)
        BY <3>1
    <3>4. QED BY <3>2, <3>3 DEF StopsWithoutTokens
  <2>3. CASE s # "client"
    <3>1. congestion'["client"] = congestion["client"]
        BY <1>1, <1>9, <2>3 DEF TypeOK
    <3>2. QED BY <2>1, <3>1 DEF StopsWithoutTokens
  <2>4. QED BY <2>2, <2>3
<1>12. QED BY <1>5, <1>6, <1>8, <1>10, <1>11 DEF TypeOK

(* Every step keeps the invariant. *)
LEMMA StepInv == Inv /\ [Next]_vars => Inv'
<1> SUFFICES ASSUME Inv, [Next]_vars
             PROVE  Inv'
    OBVIOUS
<1>1. CASE UNCHANGED vars
    BY <1>1 DEF vars, Inv, TypeOK, StopsWithoutTokens
<1>2. CASE \E s \in Side : handleFlush(s) \/ FromProxy(s)
    BY <1>2, FlushInv, ReceiveInv
<1>3. CASE \E s \in Side : \E silent, ping \in BOOLEAN : handlePing(s, silent, ping)
    BY <1>3, PingInv
<1>4. CASE \E s \in Side : \E n \in Burst : ReadX(s, n) \/ ReadGeneric(s, n)
  <2>1. PICK s \in Side, n \in Burst : ReadX(s, n) \/ ReadGeneric(s, n)
      BY <1>4
  <2>2. Encode(s, {"control"}, n) \/ Encode(s, {"control", "data"}, n)
      BY <2>1 DEF ReadX, ReadGeneric
  <2>3. {"control"} \in SUBSET Token /\ {"control", "data"} \in SUBSET Token
      BY DEF Token
  <2>4. QED BY <2>2, <2>3, EncodeInv
<1>5. CASE \E n \in Burst : handleSplit(n)
  <2>1. PICK n \in Burst : Encode("client", {"control", "split"}, n)
      BY <1>5 DEF handleSplit
  <2>2. "client" \in Side /\ {"control", "split"} \in SUBSET Token
      BY DEF Side, Token
  <2>3. QED BY <2>1, <2>2, EncodeInv
<1>6. QED BY <1>1, <1>2, <1>3, <1>4, <1>5 DEF Next

(* The counts asked for always fit in the byte that carries them, and a client
   proxy that reads its channels has control tokens: neither news from the
   peer nor a silence that ends can open them again too early. *)
THEOREM StopsInTime == Spec => [](TypeOK /\ StopsWithoutTokens)
<1>1. Inv => TypeOK /\ StopsWithoutTokens
    BY DEF Inv
<1>2. QED BY <1>1, InitInv, StepInv, PTL DEF Spec

-----------------------------------------------------------------------------
(* How the tokens of codes add up. *)

(* What is on the link. *)
Message == TokenCode \cup {Frame}

LEMMA UnitsFinite ==
    ASSUME NEW codes \in Seq(Message), NEW code, NEW t
    PROVE  IsFiniteSet(Units(codes, code, t)) /\ Tokens(codes, code, t) \in Nat
<1> DEFINE places == (1 .. Len(codes)) \X (1 .. MaxCount)
<1>1. IsFiniteSet(1 .. Len(codes)) /\ IsFiniteSet(1 .. MaxCount)
    BY FS_Interval, TokensAssumption, LenProperties
<1>2. IsFiniteSet(places)
    BY <1>1, FS_Product
<1>3. Units(codes, code, t) \in SUBSET places
    BY DEF Units
<1> HIDE DEF places
<1>4. IsFiniteSet(Units(codes, code, t))
    BY <1>2, <1>3, FS_Subset
<1>5. QED BY <1>4, FS_CardinalityType DEF Tokens

(* The tokens of two lots of codes add up. *)
LEMMA TokensConcat ==
    ASSUME NEW a \in Seq(Message), NEW b \in Seq(Message), NEW code, NEW t
    PROVE  Tokens(a \o b, code, t) = Tokens(a, code, t) + Tokens(b, code, t)
<1> DEFINE n == Len(a)
           A == Units(a, code, t)
           B == Units(b, code, t)
           C == {u \in Units(a \o b, code, t) : u[1] > n}
           f == [u \in B |-> << n + u[1], u[2] >>]
<1>1. /\ a \o b \in Seq(Message) /\ Len(a \o b) = n + Len(b) /\ n \in Nat /\ Len(b) \in Nat
      /\ \A i \in 1 .. n : (a \o b)[i] = a[i]
      /\ \A i \in 1 .. Len(b) : (a \o b)[n + i] = b[i]
    BY ConcatProperties, LenProperties
<1>2. \A u : u \in A <=> u \in Units(a \o b, code, t) /\ ~ u[1] > n
  <2> TAKE u
  <2>1. CASE u \in A
      BY <1>1, <2>1 DEF Units
  <2>2. CASE u \in Units(a \o b, code, t) /\ ~ u[1] > n
      BY <1>1, <2>2 DEF Units
  <2>3. QED BY <2>1, <2>2
<1>3. Units(a \o b, code, t) = A \cup C /\ A \cap C = {}
  <2> HIDE DEF A
  <2>1. QED BY <1>2
<1>4. ASSUME NEW u \in B
      PROVE  f[u] \in C
  <2>1. /\ u[1] \in 1 .. Len(b) /\ u[2] \in 1 .. MaxCount
        /\ LET m == b[u[1]] IN m.code = code /\ m.token = t /\ u[2] <= m.count
      BY DEF Units
  <2>2. n + u[1] \in 1 .. n + Len(b) /\ n + u[1] > n /\ (a \o b)[n + u[1]] = b[u[1]]
      BY <1>1, <2>1
  <2> DEFINE v == << n + u[1], u[2] >>
  <2>3. v[1] = n + u[1] /\ v[2] = u[2] /\ f[u] = v
      OBVIOUS
  <2>4. v \in (1 .. Len(a \o b)) \X (1 .. MaxCount)
      BY <1>1, <2>1, <2>2
  <2> HIDE DEF v, f, n
  <2>5. v \in Units(a \o b, code, t)
      BY <2>1, <2>2, <2>3, <2>4 DEF Units
  <2>6. QED BY <2>2, <2>3, <2>5
<1>5. ASSUME NEW u \in B, NEW v \in B, f[u] = f[v]
      PROVE  u = v
  <2>1. /\ u = << u[1], u[2] >> /\ u[1] \in Nat
        /\ v = << v[1], v[2] >> /\ v[1] \in Nat
      BY DEF Units
  <2>2. << n + u[1], u[2] >> = << n + v[1], v[2] >>
      BY <1>5
  <2>3. n + u[1] = n + v[1] /\ u[2] = v[2]
      BY <2>2
  <2>4. u[1] = v[1]
      BY <1>1, <2>1, <2>3
  <2>5. QED BY <2>1, <2>3, <2>4
<1>6. ASSUME NEW v \in C
      PROVE  \E u \in B : f[u] = v
  <2> DEFINE u == << v[1] - n, v[2] >>
  <2>1. /\ v[1] \in 1 .. n + Len(b) /\ v[1] > n /\ v[2] \in 1 .. MaxCount
        /\ v = << v[1], v[2] >>
        /\ LET m == (a \o b)[v[1]] IN m.code = code /\ m.token = t /\ v[2] <= m.count
      BY <1>1, <1>6 DEF Units
  <2>2. v[1] - n \in 1 .. Len(b) /\ n + (v[1] - n) = v[1]
      BY <1>1, <2>1
  <2>3. b[v[1] - n] = (a \o b)[v[1]]
      BY <1>1, <2>2
  <2>4. u \in B
      BY <2>1, <2>2, <2>3 DEF Units
  <2>5. f[u] = v
      BY <2>1, <2>2, <2>4
  <2>6. QED BY <2>4, <2>5
<1> HIDE DEF A, B, C, n
<1>7. f \in Bijection(B, C)
  <2>1. f \in [B -> C]
      BY <1>4
  <2> HIDE DEF f
  <2>2. QED BY <1>5, <1>6, <2>1, Fun_IsBij
<1>8. IsFiniteSet(A) /\ IsFiniteSet(B)
    BY UnitsFinite DEF A, B
<1>9. ExistsBijection(B, C)
    BY <1>7, Fun_ExistsBij
<1>10. IsFiniteSet(C) /\ Cardinality(C) = Cardinality(B)
    BY <1>8, <1>9, FS_Bijection
<1>11. Cardinality(A \cup C) = Cardinality(A) + Cardinality(C) - Cardinality(A \cap C)
    BY <1>8, <1>10, FS_Union
<1>12. Cardinality(A) \in Nat /\ Cardinality(C) \in Nat /\ Cardinality(A \cap C) = 0
    BY <1>3, <1>8, <1>10, FS_CardinalityType, FS_EmptySet
<1>13. QED BY <1>3, <1>10, <1>11, <1>12 DEF Tokens, A, B

LEMMA TokensThree ==
    ASSUME NEW a \in Seq(Message), NEW b \in Seq(Message), NEW c \in Seq(Message)
    PROVE  /\ a \o b \o c \in Seq(Message)
           /\ \A code, t : Tokens(a \o b \o c, code, t) =
                  Tokens(a, code, t) + Tokens(b, code, t) + Tokens(c, code, t)
<1> DEFINE d == a \o b
<1>1. d \in Seq(Message)
    BY ConcatProperties
<1>2. ASSUME NEW code, NEW t
      PROVE  Tokens(d, code, t) = Tokens(a, code, t) + Tokens(b, code, t)
    BY TokensConcat
<1> HIDE DEF d
<1>3. ASSUME NEW code, NEW t
      PROVE  Tokens(d \o c, code, t) = Tokens(d, code, t) + Tokens(c, code, t)
    BY <1>1, TokensConcat
<1>4. d \o c \in Seq(Message)
    BY <1>1, ConcatProperties
<1>5. QED BY <1>2, <1>3, <1>4 DEF d

LEMMA TokensOne ==
    ASSUME NEW m \in Message, NEW code \in {"request", "reply"}, NEW t
    PROVE  Tokens(<< m >>, code, t) =
               IF m.code = code /\ m.token = t THEN m.count ELSE 0
<1>1. CASE m.code = code /\ m.token = t
  <2>1. m \in TokenCode
      BY <1>1 DEF Message, Frame
  <2>2. m.count \in 1 .. MaxCount
      BY <2>1 DEF TokenCode
  <2>3. Units(<< m >>, code, t) = {1} \X (1 .. m.count)
      BY <1>1, <2>2, TokensAssumption DEF Units
  <2>4. /\ IsFiniteSet({1}) /\ Cardinality({1}) = 1
        /\ IsFiniteSet(1 .. m.count) /\ Cardinality(1 .. m.count) = m.count
    <3>1. 1 \in Int /\ m.count \in Int /\ ~ 1 > m.count /\ m.count - 1 + 1 = m.count
        BY <2>2, TokensAssumption
    <3>2. QED BY <3>1, FS_Singleton, FS_Interval
  <2>5. Cardinality({1} \X (1 .. m.count)) = 1 * m.count
    <3> DEFINE place == {1}
               units == 1 .. m.count
    <3>1. IsFiniteSet(place) /\ IsFiniteSet(units)
        BY <2>4
    <3>2. Cardinality(place) = 1 /\ Cardinality(units) = m.count
        BY <2>4
    <3> HIDE DEF place, units
    <3>3. Cardinality(place \X units) = Cardinality(place) * Cardinality(units)
        BY <3>1, FS_Product, Zenon
    <3>4. QED BY <3>2, <3>3 DEF place, units
  <2>6. QED BY <1>1, <2>2, <2>3, <2>5, TokensAssumption DEF Tokens
<1>2. CASE ~ (m.code = code /\ m.token = t)
  <2>1. Units(<< m >>, code, t) = {}
      BY <1>2 DEF Units
  <2>2. QED BY <1>2, <2>1, FS_EmptySet DEF Tokens
<1>3. QED BY <1>1, <1>2

LEMMA TokensNone == \A code, t : Tokens(<< >>, code, t) = 0
<1> TAKE code, t
<1>1. Units(<< >>, code, t) = {}
    BY DEF Units
<1>2. QED BY <1>1, FS_EmptySet DEF Tokens

-----------------------------------------------------------------------------
(* The codes that wait for a frame give back, they do not ask. *)
NothingAsked == \A s \in Side, t \in Token : Tokens(control[s], "request", t) = 0

Conserved == TypeOK /\ NothingAsked /\ TokensConserved

LEMMA TokensTypes ==
    ASSUME TypeOK, NEW s \in Side, NEW t
    PROVE  \A code : /\ Tokens(link[s], code, t) \in Nat
                     /\ Tokens(control[s], code, t) \in Nat
<1>1. link[s] \in Seq(Message) /\ control[s] \in Seq(Message)
    BY DEF TypeOK, Message
<1>2. QED BY <1>1, UnitsFinite

(* What a frame asks for, and what it gives back. *)
LEMMA RequestsTokens ==
    ASSUME TypeOK, NEW s \in Side, NEW t \in Token
    PROVE  /\ Tokens(Requests(s), "request", t) =
                  IF t \in Asked(s) THEN Count(Updated(s, t)) ELSE 0
           /\ Tokens(Requests(s), "reply", t) = 0
<1> DEFINE of(k) == IF k \in Asked(s) THEN << Request(k, Updated(s, k)) >> ELSE << >>
<1>1. ASSUME NEW k \in Token
      PROVE  /\ of(k) \in Seq(Message)
             /\ Tokens(of(k), "request", t) =
                    IF k = t /\ t \in Asked(s) THEN Count(Updated(s, t)) ELSE 0
             /\ Tokens(of(k), "reply", t) = 0
  <2> DEFINE m == Request(k, Updated(s, k))
  <2>1. /\ m \in Message /\ m.count = Count(Updated(s, k))
        /\ m.code = "request" /\ m.token = k
      BY RequestsType, RequestType DEF Message, Request
  <2>2. CASE k \in Asked(s)
    <3>1. of(k) = << m >>
        BY <2>2
    <3> HIDE DEF m, of
    <3>2. Tokens(<< m >>, "request", t) = IF k = t THEN m.count ELSE 0
        BY <2>1, TokensOne
    <3>3. Tokens(<< m >>, "reply", t) = 0
        BY <2>1, TokensOne
    <3>4. << m >> \in Seq(Message)
        BY <2>1
    <3>5. QED BY <2>1, <2>2, <3>1, <3>2, <3>3, <3>4
  <2>3. CASE k \notin Asked(s)
      BY <2>3, TokensNone
  <2>4. QED BY <2>2, <2>3
<1>2. Requests(s) = of("control") \o of("split") \o of("data")
    BY DEF Requests
<1>3. "control" \in Token /\ "split" \in Token /\ "data" \in Token
      /\ t \in {"control", "split", "data"}
    BY DEF Token
<1> DEFINE a == of("control")
           b == of("split")
           c == of("data")
<1>4. a \in Seq(Message) /\ b \in Seq(Message) /\ c \in Seq(Message)
    BY <1>1, <1>3
<1>5. /\ Tokens(a, "reply", t) = 0 /\ Tokens(b, "reply", t) = 0 /\ Tokens(c, "reply", t) = 0
      /\ Tokens(a, "request", t) =
             IF "control" = t /\ t \in Asked(s) THEN Count(Updated(s, t)) ELSE 0
      /\ Tokens(b, "request", t) =
             IF "split" = t /\ t \in Asked(s) THEN Count(Updated(s, t)) ELSE 0
      /\ Tokens(c, "request", t) =
             IF "data" = t /\ t \in Asked(s) THEN Count(Updated(s, t)) ELSE 0
    BY <1>1, <1>3
<1>6. Requests(s) = a \o b \o c
    BY <1>2
<1> HIDE DEF a, b, c, of
<1>7. \A code : Tokens(Requests(s), code, t) =
                    Tokens(a, code, t) + Tokens(b, code, t) + Tokens(c, code, t)
    BY <1>4, <1>6, TokensThree
<1>8. Count(Updated(s, t)) \in Nat
  <2>1. Updated(s, t) \in Nat
      BY RequestsType
  <2>2. Count(Updated(s, t)) \in 1 .. MaxCount
      BY <2>1, RequestType
  <2>3. QED BY <2>2, TokensAssumption
<1>9. QED BY <1>3, <1>5, <1>7, <1>8

(* A frame takes along the replies that wait, and what is asked for. *)
LEMMA SendTokens ==
    ASSUME TypeOK, NothingAsked, NEW s \in Side, NEW requests \in Seq(TokenCode),
           Send(s, requests), NEW t \in Token, Tokens(requests, "reply", t) = 0
    PROVE  /\ Tokens(link'[s], "request", t) =
                  Tokens(link[s], "request", t) + Tokens(requests, "request", t)
           /\ Tokens(link'[s], "reply", t) =
                  Tokens(link[s], "reply", t) + Tokens(control[s], "reply", t)
           /\ \A code : Tokens(control'[s], code, t) = 0
           /\ \A u \in Side : u # s => link'[u] = link[u] /\ control'[u] = control[u]
<1> DEFINE data == IF buffered[s] THEN << Frame >> ELSE << >>
<1>1. control[s] \in Seq(Message) /\ requests \in Seq(Message) /\ link[s] \in Seq(Message)
    BY DEF TypeOK, Message
<1>2. Frame \in Message /\ Frame.code = "frame"
    BY DEF Message, Frame
<1>3. /\ data \in Seq(Message)
      /\ Tokens(data, "request", t) = 0 /\ Tokens(data, "reply", t) = 0
  <2>1. CASE buffered[s]
    <3>1. Tokens(<< Frame >>, "request", t) = 0 /\ Tokens(<< Frame >>, "reply", t) = 0
        BY <1>2, TokensOne
    <3>2. << Frame >> \in Seq(Message)
        BY <1>2
    <3>3. QED BY <2>1, <3>1, <3>2
  <2>2. CASE ~ buffered[s]
      BY <2>2, TokensNone
  <2>3. QED BY <2>1, <2>2
<1>4. /\ link'[s] = link[s] \o control[s] \o requests \o data
      /\ control'[s] = << >>
      /\ \A u \in Side : u # s => link'[u] = link[u] /\ control'[u] = control[u]
    BY DEF Send, TypeOK
<1> HIDE DEF data
<1> DEFINE codes == link[s] \o control[s] \o requests
<1>5. /\ codes \in Seq(Message)
      /\ \A code : Tokens(codes, code, t) =
             Tokens(link[s], code, t) + Tokens(control[s], code, t) + Tokens(requests, code, t)
    BY <1>1, TokensThree
<1>6. link'[s] = codes \o data
    BY <1>4
<1> HIDE DEF codes
<1>7. ASSUME NEW code
      PROVE  Tokens(link'[s], code, t) =
                 Tokens(link[s], code, t) + Tokens(control[s], code, t)
                     + Tokens(requests, code, t) + Tokens(data, code, t)
  <2>1. Tokens(codes \o data, code, t) = Tokens(codes, code, t) + Tokens(data, code, t)
      BY <1>3, <1>5, TokensConcat
  <2>2. QED BY <1>5, <1>6, <2>1
<1>8. Tokens(control[s], "request", t) = 0
    BY DEF NothingAsked
<1>9. /\ Tokens(link[s], "request", t) \in Nat /\ Tokens(link[s], "reply", t) \in Nat
      /\ Tokens(control[s], "reply", t) \in Nat /\ Tokens(requests, "request", t) \in Nat
    BY <1>1, UnitsFinite
<1>10. QED BY <1>3, <1>4, <1>7, <1>8, <1>9, TokensNone

LEMMA OtherSide ==
    \A s \in Side : Peer(s) \in Side /\ Peer(s) # s /\ Peer(Peer(s)) = s
        /\ \A u \in Side : u = s \/ u = Peer(s)
BY DEF Side, Peer

(* What a proxy asks for in a frame, it has no more. *)
LEMMA AskedTokens ==
    ASSUME Conserved, NEW s \in Side, NEW requests \in Seq(TokenCode), Send(s, requests),
           \A t \in Token : Tokens(requests, "reply", t) = 0,
           \A t \in Token : remaining'[s][t] = remaining[s][t] - Tokens(requests, "request", t),
           \A u \in Side : u # s => remaining'[u] = remaining[u]
    PROVE  NothingAsked' /\ TokensConserved'
<1> USE DEF Conserved
<1> DEFINE p == Peer(s)
<1>1. p \in Side /\ p # s /\ Peer(p) = s /\ \A u \in Side : u = s \/ u = p
    BY OtherSide
<1> HIDE DEF p
<1>2. ASSUME NEW t \in Token
      PROVE  /\ Tokens(control'[s], "request", t) = 0
             /\ Tokens(control'[p], "request", t) = 0
    BY <1>1, SendTokens DEF NothingAsked
<1>3. NothingAsked'
    BY <1>1, <1>2 DEF NothingAsked
<1>4. ASSUME NEW t \in Token
      PROVE  /\ remaining'[s][t] + Tokens(link'[s], "request", t)
                    + Tokens(control'[p], "reply", t) + Tokens(link'[p], "reply", t) = Limit(t)
             /\ remaining'[p][t] + Tokens(link'[p], "request", t)
                    + Tokens(control'[s], "reply", t) + Tokens(link'[s], "reply", t) = Limit(t)
  <2>1. /\ Tokens(link'[s], "request", t) =
               Tokens(link[s], "request", t) + Tokens(requests, "request", t)
        /\ Tokens(link'[s], "reply", t) =
               Tokens(link[s], "reply", t) + Tokens(control[s], "reply", t)
        /\ Tokens(control'[s], "reply", t) = 0
        /\ link'[p] = link[p] /\ control'[p] = control[p] /\ remaining'[p] = remaining[p]
      BY <1>1, SendTokens
  <2>2. /\ remaining[s][t] + Tokens(link[s], "request", t)
               + Tokens(control[p], "reply", t) + Tokens(link[p], "reply", t) = Limit(t)
        /\ remaining[p][t] + Tokens(link[p], "request", t)
               + Tokens(control[s], "reply", t) + Tokens(link[s], "reply", t) = Limit(t)
      BY <1>1 DEF TokensConserved, p
  <2>3. /\ remaining[s][t] \in Int /\ remaining[p][t] \in Int
        /\ Tokens(requests, "request", t) \in Nat
        /\ \A code : /\ Tokens(link[s], code, t) \in Nat /\ Tokens(link[p], code, t) \in Nat
                     /\ Tokens(control[s], code, t) \in Nat
                     /\ Tokens(control[p], code, t) \in Nat
    <3>1. requests \in Seq(Message)
        BY DEF Message
    <3>2. QED BY <1>1, <3>1, UnitsFinite, TokensTypes DEF TypeOK
  <2> DEFINE n == Tokens(requests, "request", t)
  <2>4. /\ n \in Nat /\ remaining'[s][t] = remaining[s][t] - n
        /\ Tokens(link'[s], "request", t) = Tokens(link[s], "request", t) + n
      BY <2>1, <2>3
  <2> HIDE DEF n
  <2> DEFINE x1 == remaining[s][t]
             x2 == remaining[p][t]
             y1 == Tokens(link[s], "request", t)
             y2 == Tokens(link[p], "request", t)
             z1 == Tokens(control[p], "reply", t)
             z2 == Tokens(control[s], "reply", t)
             v1 == Tokens(link[p], "reply", t)
             v2 == Tokens(link[s], "reply", t)
  <2>5. /\ x1 \in Int /\ x2 \in Int /\ y1 \in Nat /\ y2 \in Nat
        /\ z1 \in Nat /\ z2 \in Nat /\ v1 \in Nat /\ v2 \in Nat
        /\ x1 + y1 + z1 + v1 = Limit(t) /\ x2 + y2 + z2 + v2 = Limit(t)
      BY <2>2, <2>3
  <2>6. /\ remaining'[s][t] = x1 - n /\ Tokens(link'[s], "request", t) = y1 + n
        /\ Tokens(control'[p], "reply", t) = z1 /\ Tokens(link'[p], "reply", t) = v1
        /\ remaining'[p][t] = x2 /\ Tokens(link'[p], "request", t) = y2
        /\ Tokens(control'[s], "reply", t) = 0 /\ Tokens(link'[s], "reply", t) = v2 + z2
      BY <2>1, <2>4
  <2> HIDE DEF x1, x2, y1, y2, z1, z2, v1, v2
  <2>7. QED BY <2>4, <2>5, <2>6
<1>5. TokensConserved'
  <2> SUFFICES ASSUME NEW u \in Side, NEW t \in Token
               PROVE  remaining'[u][t] + Tokens(link'[u], "request", t)
                          + Tokens(control'[Peer(u)], "reply", t)
                          + Tokens(link'[Peer(u)], "reply", t) = Limit(t)
      BY DEF TokensConserved
  <2>1. CASE u = s
      BY <1>4, <2>1 DEF p
  <2>2. CASE u = p
      BY <1>1, <1>4, <2>2
  <2>3. QED BY <1>1, <2>1, <2>2
<1>6. QED BY <1>3, <1>5

LEMMA FlushConserved ==
    ASSUME Conserved, NEW s \in Side, handleFlush(s)
    PROVE  NothingAsked' /\ TokensConserved'
<1> USE DEF Conserved
<1>1. Send(s, Requests(s)) /\ Requests(s) \in Seq(TokenCode)
    BY RequestsType DEF handleFlush
<1>2. ASSUME NEW t \in Token
      PROVE  /\ Tokens(Requests(s), "reply", t) = 0
             /\ remaining'[s][t] = remaining[s][t] - Tokens(Requests(s), "request", t)
  <2>1. remaining'[s][t] = IF t \in Asked(s) THEN remaining[s][t] - Count(Updated(s, t))
                           ELSE remaining[s][t]
      BY DEF handleFlush, TypeOK
  <2>2. remaining[s][t] \in Int
      BY DEF TypeOK
  <2>3. QED BY <2>1, <2>2, RequestsTokens
<1>3. \A u \in Side : u # s => remaining'[u] = remaining[u]
    BY DEF handleFlush, TypeOK
<1>4. QED BY <1>1, <1>2, <1>3, AskedTokens

LEMMA PingConserved ==
    ASSUME Conserved, NEW s \in Side, NEW silent \in BOOLEAN, NEW ping \in BOOLEAN,
           handlePing(s, silent, ping)
    PROVE  NothingAsked' /\ TokensConserved'
<1> USE DEF Conserved
<1> DEFINE m == Request("control", bytes[s]["control"])
           n == Count(bytes[s]["control"])
<1>1. CASE ping
  <2>1. /\ Send(s, << m >>)
        /\ remaining' = [remaining EXCEPT ![s]["control"] = @ - n]
      BY <1>1 DEF handlePing
  <2>2. "control" \in Token /\ bytes[s]["control"] \in Nat
      BY DEF TypeOK, Token
  <2>3. m \in TokenCode /\ m.count = n /\ m.code = "request" /\ m.token = "control"
      BY <2>2, RequestType DEF Request
  <2> HIDE DEF m, n
  <2>4. m \in Message /\ << m >> \in Seq(TokenCode)
      BY <2>3 DEF Message
  <2>5. ASSUME NEW t \in Token
        PROVE  /\ Tokens(<< m >>, "reply", t) = 0
               /\ remaining'[s][t] = remaining[s][t] - Tokens(<< m >>, "request", t)
    <3>1. /\ Tokens(<< m >>, "reply", t) = 0
          /\ Tokens(<< m >>, "request", t) = IF "control" = t THEN n ELSE 0
        BY <2>3, <2>4, TokensOne
    <3>2. /\ remaining[s][t] \in Int
          /\ remaining'[s][t] = IF t = "control" THEN remaining[s][t] - n ELSE remaining[s][t]
        BY <2>1 DEF TypeOK
    <3>3. QED BY <3>1, <3>2
  <2>6. \A u \in Side : u # s => remaining'[u] = remaining[u]
      BY <2>1 DEF TypeOK
  <2>7. QED BY <2>1, <2>4, <2>5, <2>6, AskedTokens
<1>2. CASE ~ ping
  <2>1. UNCHANGED <<remaining, control, link>>
      BY <1>2 DEF handlePing
  <2>2. QED BY <2>1 DEF NothingAsked, TokensConserved
<1>3. QED BY <1>1, <1>2

(* A request becomes a reply, and a reply becomes tokens. *)
LEMMA ReceiveConserved ==
    ASSUME Conserved, NEW s \in Side, FromProxy(s)
    PROVE  NothingAsked' /\ TokensConserved'
<1> USE DEF Conserved
<1> DEFINE p == Peer(s)
           m == Incoming(s)
           r == [m EXCEPT !.code = "reply"]
<1>1. p \in Side /\ p # s /\ Peer(p) = s /\ \A u \in Side : u = s \/ u = p
    BY OtherSide
<1>2. link[p] # << >> /\ link' = [link EXCEPT ![p] = Tail(@)]
    BY DEF FromProxy, FrameFromProxy, handleTokenFromProxy,
           handleTokenReplyFromProxy, Receives, Consume
<1>3. /\ link[p] \in Seq(Message) /\ control[s] \in Seq(Message)
      /\ m = Head(link[p])
    BY <1>1 DEF TypeOK, Message, Incoming
<1> HIDE DEF p, m
<1>4. m \in Message /\ Tail(link[p]) \in Seq(Message) /\ link[p] = << m >> \o Tail(link[p])
  <2>1. m \in Message /\ Tail(link[p]) \in Seq(Message)
      BY <1>2, <1>3, HeadTailProperties
  <2>2. << m >> \o Tail(link[p]) = link[p]
      BY <1>2, <1>3
  <2>3. QED BY <2>1, <2>2
<1>5. link'[p] = Tail(link[p]) /\ link'[s] = link[s]
    BY <1>1, <1>2 DEF TypeOK
<1>6. ASSUME NEW code, NEW t
      PROVE  Tokens(link[p], code, t) = Tokens(<< m >>, code, t) + Tokens(link'[p], code, t)
  <2> DEFINE a == << m >>
             b == Tail(link[p])
  <2>1. a \in Seq(Message) /\ b \in Seq(Message) /\ link[p] = a \o b /\ link'[p] = b
      BY <1>4, <1>5
  <2> HIDE DEF a, b
  <2>2. Tokens(a \o b, code, t) = Tokens(a, code, t) + Tokens(b, code, t)
      BY <2>1, TokensConcat
  <2>3. QED BY <2>1, <2>2 DEF a
<1>7. \A code, t : Tokens(link'[p], code, t) \in Nat
    BY <1>4, <1>5, UnitsFinite
<1>8. m.code # "frame" => m \in TokenCode
    BY <1>4 DEF Frame, Message
<1>9. ASSUME NEW t \in Token
      PROVE  /\ Tokens(<< m >>, "request", t) =
                    IF m.code = "request" /\ m.token = t THEN m.count ELSE 0
             /\ Tokens(<< m >>, "reply", t) =
                    IF m.code = "reply" /\ m.token = t THEN m.count ELSE 0
    BY <1>4, TokensOne
(* What the message does: control codes of s, tokens of s. *)
<1>10. ASSUME NEW t \in Token
       PROVE  /\ Tokens(control'[s], "request", t) = 0
              /\ Tokens(control'[s], "reply", t) =
                     Tokens(control[s], "reply", t) + Tokens(<< m >>, "request", t)
              /\ remaining'[s][t] = remaining[s][t] + Tokens(<< m >>, "reply", t)
              /\ control'[p] = control[p] /\ remaining'[p] = remaining[p]
  <2>1. /\ Tokens(control[s], "request", t) = 0
        /\ Tokens(control[s], "reply", t) \in Nat /\ remaining[s][t] \in Int
      BY TokensTypes DEF NothingAsked, TypeOK
  <2>2. CASE FrameFromProxy(s)
    <3>1. UNCHANGED <<remaining, control>> /\ m.code = "frame"
        BY <2>2 DEF FrameFromProxy, Receives, m
    <3>2. QED BY <1>9, <2>1, <3>1
  <2>3. CASE handleTokenFromProxy(s)
    <3>1. /\ control' = [control EXCEPT ![s] = Append(@, r)] /\ remaining' = remaining
          /\ m.code = "request"
        BY <2>3 DEF handleTokenFromProxy, Receives, m
    <3>2. r \in TokenCode /\ r.code = "reply" /\ r.token = m.token /\ r.count = m.count
        BY <1>8, <3>1 DEF TokenCode
    <3> HIDE DEF r
    <3>3. /\ r \in Message /\ << r >> \in Seq(Message)
          /\ control'[s] = Append(control[s], r) /\ control'[p] = control[p]
        BY <1>1, <3>1, <3>2 DEF TypeOK, Message
    <3>4. control'[s] = control[s] \o << r >>
      <4> DEFINE k == control'[s]
      <4>1. k = Append(control[s], r)
          BY <3>3
      <4> HIDE DEF k
      <4>2. k = control[s] \o << r >>
          BY <1>3, <3>3, <4>1
      <4>3. QED BY <4>2 DEF k
    <3>5. ASSUME NEW code
          PROVE  Tokens(control'[s], code, t) =
                     Tokens(control[s], code, t) + Tokens(<< r >>, code, t)
      <4> DEFINE a == control[s]
                 b == << r >>
      <4>1. a \in Seq(Message) /\ b \in Seq(Message) /\ control'[s] = a \o b
          BY <1>3, <3>3, <3>4
      <4> HIDE DEF a, b
      <4>2. Tokens(a \o b, code, t) = Tokens(a, code, t) + Tokens(b, code, t)
          BY <4>1, TokensConcat
      <4>3. QED BY <4>1, <4>2 DEF a, b
    <3>6. /\ Tokens(<< r >>, "request", t) = 0
          /\ Tokens(<< r >>, "reply", t) = IF m.token = t THEN m.count ELSE 0
        BY <3>2, <3>3, TokensOne
    <3>7. /\ Tokens(control'[s], "request", t) = 0
          /\ Tokens(control'[s], "reply", t) =
                 Tokens(control[s], "reply", t) + Tokens(<< m >>, "request", t)
      <4>1. /\ Tokens(control'[s], "request", t) =
                   Tokens(control[s], "request", t) + Tokens(<< r >>, "request", t)
            /\ Tokens(control'[s], "reply", t) =
                   Tokens(control[s], "reply", t) + Tokens(<< r >>, "reply", t)
          BY <3>5
      <4>2. Tokens(<< r >>, "reply", t) = Tokens(<< m >>, "request", t)
          BY <1>9, <3>1, <3>6
      <4>3. QED BY <2>1, <3>6, <4>1, <4>2
    <3>8. remaining'[s][t] = remaining[s][t] + Tokens(<< m >>, "reply", t)
        BY <1>9, <2>1, <3>1
    <3>9. QED BY <3>1, <3>3, <3>7, <3>8
  <2>4. CASE handleTokenReplyFromProxy(s)
    <3>1. /\ control' = control /\ m.code = "reply"
          /\ remaining' = [remaining EXCEPT ![s][m.token] = @ + m.count]
        BY <2>4 DEF handleTokenReplyFromProxy, Receives, m
    <3>2. m.token \in Token
        BY <1>8, <3>1 DEF TokenCode
    <3>3. /\ remaining'[s][t] = IF m.token = t THEN remaining[s][t] + m.count
                                ELSE remaining[s][t]
          /\ remaining'[p] = remaining[p]
        BY <1>1, <3>1, <3>2 DEF TypeOK
    <3>4. QED BY <1>9, <2>1, <3>1, <3>3
  <2>5. QED BY <2>2, <2>3, <2>4 DEF FromProxy
<1>11. NothingAsked'
  <2>1. \A t \in Token : Tokens(control'[p], "request", t) = 0
      BY <1>1, <1>10 DEF NothingAsked
  <2>2. QED BY <1>1, <1>10, <2>1 DEF NothingAsked
<1>12. ASSUME NEW t \in Token
       PROVE  /\ remaining'[s][t] + Tokens(link'[s], "request", t)
                     + Tokens(control'[p], "reply", t) + Tokens(link'[p], "reply", t) = Limit(t)
              /\ remaining'[p][t] + Tokens(link'[p], "request", t)
                     + Tokens(control'[s], "reply", t) + Tokens(link'[s], "reply", t) = Limit(t)
  <2>1. /\ remaining[s][t] + Tokens(link[s], "request", t)
               + Tokens(control[p], "reply", t) + Tokens(link[p], "reply", t) = Limit(t)
        /\ remaining[p][t] + Tokens(link[p], "request", t)
               + Tokens(control[s], "reply", t) + Tokens(link[s], "reply", t) = Limit(t)
      BY <1>1 DEF TokensConserved, p
  <2>2. /\ remaining[s][t] \in Int /\ remaining[p][t] \in Int
        /\ \A code : /\ Tokens(link[s], code, t) \in Nat
                     /\ Tokens(control[s], code, t) \in Nat
                     /\ Tokens(control[p], code, t) \in Nat
                     /\ Tokens(<< m >>, code, t) \in Nat
    <3>1. << m >> \in Seq(Message)
        BY <1>4
    <3>2. QED BY <1>1, <3>1, UnitsFinite, TokensTypes DEF TypeOK
  <2> DEFINE q == Tokens(<< m >>, "request", t)
             y == Tokens(<< m >>, "reply", t)
  <2>3. /\ remaining'[s][t] = remaining[s][t] + y /\ remaining'[p] = remaining[p]
        /\ Tokens(link'[s], "request", t) = Tokens(link[s], "request", t)
        /\ Tokens(link'[s], "reply", t) = Tokens(link[s], "reply", t)
        /\ Tokens(control'[p], "reply", t) = Tokens(control[p], "reply", t)
        /\ Tokens(control'[s], "reply", t) = Tokens(control[s], "reply", t) + q
        /\ Tokens(link[p], "reply", t) = y + Tokens(link'[p], "reply", t)
        /\ Tokens(link[p], "request", t) = q + Tokens(link'[p], "request", t)
      BY <1>5, <1>6, <1>10
  <2>4. /\ Tokens(link'[p], "reply", t) \in Nat /\ Tokens(link'[p], "request", t) \in Nat
        /\ q \in Nat /\ y \in Nat
      BY <1>7, <2>2
  <2> HIDE DEF q, y
  <2>5. QED BY <2>1, <2>2, <2>3, <2>4
<1>13. TokensConserved'
  <2> SUFFICES ASSUME NEW u \in Side, NEW t \in Token
               PROVE  remaining'[u][t] + Tokens(link'[u], "request", t)
                          + Tokens(control'[Peer(u)], "reply", t)
                          + Tokens(link'[Peer(u)], "reply", t) = Limit(t)
      BY DEF TokensConserved
  <2>1. CASE u = s
      BY <1>12, <2>1 DEF p
  <2>2. CASE u = p
      BY <1>1, <1>12, <2>2
  <2>3. QED BY <1>1, <2>1, <2>2
<1>14. QED BY <1>11, <1>13

LEMMA InitConserved == Init => NothingAsked /\ TokensConserved
<1> SUFFICES ASSUME Init
             PROVE  NothingAsked /\ TokensConserved
    OBVIOUS
<1>1. \A s \in Side : link[s] = << >> /\ control[s] = << >>
    BY DEF Init
<1>2. \A s \in Side, t \in Token : remaining[s][t] = Limit(t) /\ Limit(t) \in Nat
    BY LimitType DEF Init
<1>3. NothingAsked
    BY <1>1, TokensNone DEF NothingAsked
<1>4. TokensConserved
    BY <1>1, <1>2, OtherSide, TokensNone DEF TokensConserved
<1>5. QED BY <1>3, <1>4

LEMMA StepConserved ==
    ASSUME Conserved, [Next]_vars
    PROVE  NothingAsked' /\ TokensConserved'
<1>1. CASE UNCHANGED vars
    BY <1>1 DEF vars, Conserved, NothingAsked, TokensConserved
<1>2. CASE \E s \in Side : handleFlush(s) \/ FromProxy(s)
    BY <1>2, FlushConserved, ReceiveConserved
<1>3. CASE \E s \in Side : \E silent, ping \in BOOLEAN : handlePing(s, silent, ping)
    BY <1>3, PingConserved
<1>4. CASE \/ \E s \in Side : \E n \in Burst : ReadX(s, n) \/ ReadGeneric(s, n)
           \/ \E n \in Burst : handleSplit(n)
  <2>1. UNCHANGED <<remaining, control, link>>
      BY <1>4 DEF ReadX, ReadGeneric, handleSplit, Encode
  <2>2. QED BY <2>1 DEF Conserved, NothingAsked, TokensConserved
<1>5. QED BY <1>1, <1>2, <1>3, <1>4 DEF Next

(* No token is lost or made up, whatever crosses on the link and whoever pings:
   what a proxy has left and what is under way for it are always the limit. A
   proxy that gets tokens back has never more of them than it started with. *)
THEOREM TokensAreConserved == Spec => []TokensConserved
<1>1. Init => Inv /\ NothingAsked /\ TokensConserved
    BY InitInv, InitConserved
<1>2. (Inv /\ NothingAsked /\ TokensConserved) /\ [Next]_vars
          => (Inv /\ NothingAsked /\ TokensConserved)'
    BY StepInv, StepConserved DEF Conserved, Inv
<1>3. QED BY <1>1, <1>2, PTL DEF Spec
=============================================================================
