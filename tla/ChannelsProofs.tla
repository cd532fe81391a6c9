--------------------------- MODULE ChannelsProofs ---------------------------
(***************************************************************************)
(* For any number of ids, connections and messages, and whatever fails or  *)
(* races, data is framed so that it is decoded by the channel with the id  *)
(* of the one that encoded it.                                             *)
(*                                                                         *)
(* The argument follows the codes a proxy has written and its peer has not *)
(* read, on the link or still in controlCodes_: the last switch in front   *)
(* of a piece of data, or the id the peer has selected if there is none,   *)
(* is the id of the data.                                                  *)
(*                                                                         *)
(* Then, for the connections that close properly, that nothing said of one *)
(* reaches another with the same id and that each proxy knows whether the  *)
(* other keeps up.  That argument follows, id by id, everything a proxy    *)
(* has said and its peer has not read, encoded data included: what is said *)
(* of a connection comes behind its announcement and in front of its end,  *)
(* and the two channels are in a state that fits what is on its way.       *)
(***************************************************************************)
EXTENDS Channels, SequenceTheorems, TLAPS

(* What a proxy has written and its peer has not read. *)
Written(t) == t.link \o t.control

(* After n of the messages T the peer, who had selected in, has selected c. *)
Picked(T, in, n, c) ==
    \E j \in 0 .. n :
        /\ \A i \in j + 1 .. n : T[i].code # "switch"
        /\ IF j = 0 THEN in = c ELSE T[j].code = "switch" /\ T[j].id = c

(* All the data in T finds its channel selected. *)
Selected(T, in) ==
    \A i \in 1 .. Len(T) : T[i].code = "data" => Picked(T, in, i - 1, T[i].id)

(* The output of a proxy is what its peer will have selected in the end, and
   only data of the output is in the encode buffer. *)
Good(t, in) ==
    /\ Selected(Written(t), in)
    /\ t.output # nothing => Picked(Written(t), in, Len(Written(t)), t.output)
    /\ t.encode # << >> => t.output # nothing
    /\ \A i \in 1 .. Len(t.encode) : t.encode[i].id = t.output

(* The encoded data belongs to the connection of the output. *)
Own(t, chans) ==
    t.encode # << >> => \A i \in 1 .. Len(t.encode) :
                            chans[t.output].conn = t.encode[i].conn

(* The inductive invariant of the frames. *)
Inv ==
    /\ TypeOK
    /\ \A s \in Side : Good(tx[s], input[Peer(s)])
    /\ \A s \in Side : Own(tx[s], channels[s])

-----------------------------------------------------------------------------
(* Switches and data in a sequence of messages *)

(* Messages without a switch leave the selection as it is. *)
LEMMA PickedMore ==
    ASSUME NEW T \in Seq(Message), NEW U \in Seq(Message), NEW in, NEW c,
           NEW n \in 0 .. Len(T), Picked(T, in, n, c)
    PROVE  /\ Picked(T \o U, in, n, c)
           /\ \A m \in n .. Len(T \o U) :
                  (\A i \in n + 1 .. m : (T \o U)[i].code # "switch")
                      => Picked(T \o U, in, m, c)
<1> DEFINE W == T \o U
<1>1. /\ W \in Seq(Message) /\ Len(W) = Len(T) + Len(U)
      /\ \A i \in 1 .. Len(T) : W[i] = T[i]
    BY ConcatProperties
<1> HIDE DEF W
<1>2. PICK j \in 0 .. n :
          /\ \A i \in j + 1 .. n : T[i].code # "switch"
          /\ IF j = 0 THEN in = c ELSE T[j].code = "switch" /\ T[j].id = c
    BY DEF Picked
<1>3. Len(T) \in Nat /\ Len(U) \in Nat /\ n \in Nat
    OBVIOUS
<1>4. \A i \in j + 1 .. n : W[i].code # "switch"
    BY <1>1, <1>2, <1>3
<1>5. IF j = 0 THEN in = c ELSE W[j].code = "switch" /\ W[j].id = c
    BY <1>1, <1>2, <1>3
<1>6. ASSUME NEW m \in n .. Len(W), \A i \in n + 1 .. m : W[i].code # "switch"
      PROVE  Picked(W, in, m, c)
  <2>1. \A i \in j + 1 .. m : W[i].code # "switch"
      BY <1>3, <1>4, <1>6
  <2>2. j \in 0 .. m
      BY <1>3
  <2>3. QED BY <1>5, <2>1, <2>2 DEF Picked
<1>7. n \in n .. Len(W) /\ \A i \in n + 1 .. n : W[i].code # "switch"
    BY <1>1, <1>3
<1>8. QED BY <1>6, <1>7 DEF W

(* Data and other codes written after T. *)
LEMMA SelectedMore ==
    ASSUME NEW T \in Seq(Message), NEW U \in Seq(Message), NEW in, Selected(T, in),
           \A i \in 1 .. Len(U) : /\ U[i].code # "switch"
                                  /\ U[i].code = "data" =>
                                         Picked(T, in, Len(T), U[i].id)
    PROVE  /\ Selected(T \o U, in)
           /\ \A c : Picked(T, in, Len(T), c) => Picked(T \o U, in, Len(T \o U), c)
<1> DEFINE W == T \o U
<1>1. /\ W \in Seq(Message) /\ Len(W) = Len(T) + Len(U)
      /\ \A i \in 1 .. Len(T) : W[i] = T[i]
      /\ \A i \in Len(T) + 1 .. Len(T) + Len(U) : W[i] = U[i - Len(T)]
    BY ConcatProperties
<1>2. Len(T) \in Nat /\ Len(U) \in Nat /\ Len(T) \in 0 .. Len(T)
    OBVIOUS
<1>3. \A i \in Len(T) + 1 .. Len(W) :
          /\ W[i].code # "switch"
          /\ W[i].code = "data" => Picked(T, in, Len(T), W[i].id)
  <2> SUFFICES ASSUME NEW i \in Len(T) + 1 .. Len(W)
               PROVE  /\ W[i].code # "switch"
                      /\ W[i].code = "data" => Picked(T, in, Len(T), W[i].id)
      OBVIOUS
  <2> HIDE DEF W
  <2>1. i - Len(T) \in 1 .. Len(U) /\ W[i] = U[i - Len(T)]
      BY <1>1, <1>2
  <2>2. QED BY <2>1
<1>4. ASSUME NEW c, Picked(T, in, Len(T), c), NEW m \in Len(T) .. Len(W)
      PROVE  Picked(W, in, m, c)
  <2>1. \A i \in Len(T) + 1 .. m : W[i].code # "switch"
    <3> HIDE DEF W
    <3>1. QED BY <1>1, <1>2, <1>3
  <2>2. QED BY <1>2, <1>4, <2>1, PickedMore
<1>5. ASSUME NEW i \in 1 .. Len(W), W[i].code = "data"
      PROVE  Picked(W, in, i - 1, W[i].id)
  <2>1. CASE i <= Len(T)
    <3>1. i \in 1 .. Len(T) /\ i - 1 \in 0 .. Len(T) /\ W[i] = T[i]
      <4> HIDE DEF W
      <4>1. QED BY <1>1, <1>2, <2>1
    <3>2. Picked(T, in, i - 1, W[i].id)
        BY <1>5, <3>1 DEF Selected
    <3>3. QED BY <3>1, <3>2, PickedMore
  <2>2. CASE i > Len(T)
    <3>1. i \in Len(T) + 1 .. Len(W) /\ i - 1 \in Len(T) .. Len(W)
      <4> HIDE DEF W
      <4>1. QED BY <1>1, <1>2, <2>2
    <3>2. QED BY <1>3, <1>4, <1>5, <3>1
  <2>3. QED BY <1>1, <1>2, <2>1, <2>2
<1>6. Len(W) \in Len(T) .. Len(W)
  <2> HIDE DEF W
  <2>1. QED BY <1>1, <1>2
<1>7. QED BY <1>4, <1>5, <1>6 DEF Selected

(* A switch written after T. *)
LEMMA SelectedSwitch ==
    ASSUME NEW T \in Seq(Message), NEW m \in Message, m.code = "switch",
           NEW in, Selected(T, in)
    PROVE  /\ Selected(T \o << m >>, in)
           /\ Picked(T \o << m >>, in, Len(T \o << m >>), m.id)
<1> DEFINE W == T \o << m >>
<1>0. << m >> \in Seq(Message) /\ Len(<< m >>) = 1
    OBVIOUS
<1>1. /\ W \in Seq(Message) /\ Len(W) = Len(T) + 1
      /\ \A i \in 1 .. Len(T) : W[i] = T[i]
      /\ W[Len(T) + 1] = m
    OBVIOUS
<1>2. Len(T) \in Nat
    OBVIOUS
<1>3. Picked(W, in, Len(W), m.id)
  <2> HIDE DEF W
  <2>1. /\ Len(W) \in 0 .. Len(W) /\ Len(W) # 0
        /\ \A i \in Len(W) + 1 .. Len(W) : W[i].code # "switch"
        /\ W[Len(W)] = m
      BY <1>1, <1>2
  <2>2. QED BY <2>1 DEF Picked
<1>4. ASSUME NEW i \in 1 .. Len(W), W[i].code = "data"
      PROVE  Picked(W, in, i - 1, W[i].id)
  <2>1. i \in 1 .. Len(T) /\ i - 1 \in 0 .. Len(T) /\ W[i] = T[i]
    <3> HIDE DEF W
    <3>1. i # Len(T) + 1
        BY <1>1, <1>4
    <3>2. QED BY <1>1, <1>2, <3>1
  <2>2. Picked(T, in, i - 1, W[i].id)
      BY <1>4, <2>1 DEF Selected
  <2>3. QED BY <1>0, <2>1, <2>2, PickedMore
<1>5. QED BY <1>3, <1>4 DEF Selected

(* What the peer has selected after it read the first of T. *)
Turned(T, in) == IF Head(T).code = "switch" THEN Head(T).id ELSE in

(* Reading a message keeps the selections that are still to come. *)
LEMMA SelectedTail ==
    ASSUME NEW T \in Seq(Message), T # << >>, NEW in
    PROVE  /\ \A c : \A n \in 1 .. Len(T) :
                  Picked(T, in, n, c) => Picked(Tail(T), Turned(T, in), n - 1, c)
           /\ Selected(T, in) => Selected(Tail(T), Turned(T, in))
<1> DEFINE W == Tail(T)
<1>1. /\ W \in Seq(Message) /\ Len(T) \in Nat \ {0} /\ Len(W) = Len(T) - 1
      /\ Head(T) = T[1]
      /\ \A i \in 1 .. Len(W) : W[i] = T[i + 1]
    BY HeadTailProperties
<1> HIDE DEF W
<1>2. ASSUME NEW c, NEW n \in 1 .. Len(T), Picked(T, in, n, c)
      PROVE  Picked(W, Turned(T, in), n - 1, c)
  <2>1. PICK j \in 0 .. n :
            /\ \A i \in j + 1 .. n : T[i].code # "switch"
            /\ IF j = 0 THEN in = c ELSE T[j].code = "switch" /\ T[j].id = c
      BY <1>2 DEF Picked
  <2>2. n - 1 \in Nat /\ n - 1 <= Len(W)
      BY <1>1
  <2>3. CASE j \in {0, 1}
    <3>1. \A i \in 1 .. n - 1 : W[i].code # "switch"
        BY <1>1, <2>1, <2>3
    <3>2. Turned(T, in) = c
        BY <1>1, <2>1, <2>3 DEF Turned
    <3>3. 0 \in 0 .. n - 1
        BY <2>2
    <3>4. QED BY <3>1, <3>2, <3>3 DEF Picked
  <2>4. CASE j > 1
    <3>1. \A i \in (j - 1) + 1 .. n - 1 : W[i].code # "switch"
        BY <1>1, <2>1, <2>4
    <3>2. j - 1 \in 0 .. n - 1 /\ j - 1 # 0 /\ W[j - 1] = T[j]
        BY <1>1, <2>4
    <3>3. QED BY <2>1, <2>4, <3>1, <3>2 DEF Picked
  <2>5. QED BY <2>3, <2>4
<1>3. ASSUME Selected(T, in), NEW i \in 1 .. Len(W), W[i].code = "data"
      PROVE  Picked(W, Turned(T, in), i - 1, W[i].id)
  <2>1. i + 1 \in 1 .. Len(T) /\ W[i] = T[i + 1] /\ (i + 1) - 1 = i /\ i \in 1 .. Len(T)
      BY <1>1
  <2>2. Picked(T, in, i, W[i].id)
      BY <1>3, <2>1 DEF Selected
  <2>3. QED BY <1>2, <2>1, <2>2
<1>4. QED BY <1>2, <1>3 DEF Selected, W

-----------------------------------------------------------------------------
(* The operations on a transmitter *)

(* A transmitter's sequences are sequences of messages. *)
LEMMA TransmitType ==
    ASSUME NEW t \in Transmit
    PROVE  /\ t.link \in Seq(Message) /\ t.control \in Seq(Message)
           /\ t.encode \in Seq(Message) /\ Written(t) \in Seq(Message)
           /\ t.encode \in Seq(Data) /\ t.control \in Seq(Code)
           /\ t.output \in Id \cup {nothing}
<1>1. /\ t.link \in Seq(Message) /\ t.control \in Seq(Code)
      /\ t.encode \in Seq(Data) /\ t.output \in Id \cup {nothing}
    BY DEF Transmit
<1>2. t.control \in Seq(Message) /\ t.encode \in Seq(Message)
    BY <1>1 DEF Message
<1>3. QED BY <1>1, <1>2, ConcatProperties DEF Written

(* A frame sends the buffer of the output, which the peer has selected. *)
LEMMA FrameGood ==
    ASSUME NEW t \in Transmit, NEW in, Good(t, in)
    PROVE  /\ handleFrame(t) \in Transmit
           /\ Good(handleFrame(t), in)
           /\ handleFrame(t).encode = << >>
           /\ handleFrame(t).output = t.output
<1> DEFINE u == handleFrame(t)
           T == Written(t)
<1>1. /\ t.link \in Seq(Message) /\ t.control \in Seq(Message)
      /\ t.encode \in Seq(Message) /\ T \in Seq(Message) /\ t.encode \in Seq(Data)
    BY TransmitType
<1>2. /\ u.control = << >> /\ u.encode = << >> /\ u.output = t.output
      /\ u.link = T \o t.encode
    BY DEF handleFrame, Transmit, Written
<1>4. T \o t.encode \in Seq(Message)
    BY <1>1, ConcatProperties
<1>5. u \in Transmit
  <2>1. u = [t EXCEPT !.control = << >>, !.encode = << >>, !.link = T \o t.encode]
      BY DEF handleFrame, Transmit, Written
  <2> HIDE DEF T, u
  <2>2. << >> \in Seq(Code) /\ << >> \in Seq(Data)
      OBVIOUS
  <2>3. QED BY <1>4, <2>1, <2>2 DEF Transmit
<1>6. Written(u) = T \o t.encode
    BY <1>2, <1>4, ConcatEmptySeq DEF Written
<1>7. \A i \in 1 .. Len(t.encode) :
          /\ t.encode[i].code # "switch"
          /\ t.encode[i].code = "data" => Picked(T, in, Len(T), t.encode[i].id)
  <2> SUFFICES ASSUME NEW i \in 1 .. Len(t.encode)
               PROVE  /\ t.encode[i].code # "switch"
                      /\ Picked(T, in, Len(T), t.encode[i].id)
      OBVIOUS
  <2>1. t.encode[i] \in Data
      BY <1>1
  <2>2. t.encode # << >>
      BY <1>1
  <2>3. QED BY <2>1, <2>2 DEF Good, Data
<1>8. Selected(T, in)
    BY DEF Good
<1>9. /\ Selected(T \o t.encode, in)
      /\ \A c : Picked(T, in, Len(T), c)
                    => Picked(T \o t.encode, in, Len(T \o t.encode), c)
    BY <1>1, <1>7, <1>8, SelectedMore
<1>10. Good(u, in)
  <2> HIDE DEF u
  <2>1. u.output # nothing => Picked(Written(u), in, Len(Written(u)), u.output)
      BY <1>2, <1>6, <1>9 DEF Good
  <2>2. Len(u.encode) = 0
      BY <1>2
  <2>3. Selected(Written(u), in)
      BY <1>6, <1>9
  <2>4. QED BY <1>2, <2>1, <2>2, <2>3 DEF Good
<1>11. QED BY <1>2, <1>5, <1>10

(* The codes of a transmitter after one more is added. *)
LEMMA CodeAdded ==
    ASSUME NEW t \in Transmit, NEW c \in Id, NEW k \in Conn,
           NEW code \in {"switch", "new", "finish", "drop", "begin", "end"}
    PROVE  LET u == addControlCodes(t, code, c, k)
               m == [code |-> code, id |-> c, conn |-> k]
           IN  /\ m \in Message /\ u \in Transmit
               /\ Written(u) = Written(t) \o << m >>
               /\ u.encode = t.encode /\ u.output = t.output
<1> DEFINE u == addControlCodes(t, code, c, k)
           m == [code |-> code, id |-> c, conn |-> k]
<1>1. m \in Code /\ m \in Message
    BY DEF Code, Message
<1>2. /\ t.link \in Seq(Message) /\ t.control \in Seq(Message) /\ t.control \in Seq(Code)
    BY TransmitType
<1>3. u = [t EXCEPT !.control = Append(t.control, m)]
    BY DEF addControlCodes, Transmit
<1> HIDE DEF m, u
<1>4. Append(t.control, m) \in Seq(Code) /\ Append(t.control, m) = t.control \o << m >>
    BY <1>1, <1>2, AppendIsConcat
<1>5. /\ u \in Transmit /\ u.encode = t.encode /\ u.output = t.output
      /\ u.link = t.link /\ u.control = Append(t.control, m)
    BY <1>3, <1>4 DEF Transmit
<1>6. << m >> \in Seq(Message)
    BY <1>1
<1>7. t.link \o (t.control \o << m >>) = (t.link \o t.control) \o << m >>
  <2> DEFINE q == << m >>
  <2>1. q \in Seq(Message)
      BY <1>6
  <2> HIDE DEF q
  <2>2. \A a, b, d \in Seq(Message) : (a \o b) \o d = a \o (b \o d)
      BY ConcatAssociative
  <2> DEFINE l == t.link  o == t.control
  <2>3. l \in Seq(Message) /\ o \in Seq(Message)
      BY <1>2
  <2> HIDE DEF l, o
  <2>4. (l \o o) \o q = l \o (o \o q)
      BY <2>1, <2>2, <2>3
  <2>5. QED BY <2>4 DEF q, l, o
<1>8. Written(u) = Written(t) \o << m >>
    BY <1>4, <1>5, <1>7 DEF Written
<1>9. QED BY <1>1, <1>5, <1>8 DEF m, u

(* A code that is not a switch changes no selection. *)
LEMMA CodeGood ==
    ASSUME NEW t \in Transmit, NEW in, Good(t, in), NEW c \in Id, NEW k \in Conn,
           NEW code \in {"new", "finish", "drop", "begin", "end"}
    PROVE  LET u == addControlCodes(t, code, c, k)
           IN  /\ u \in Transmit /\ Good(u, in)
               /\ u.encode = t.encode /\ u.output = t.output
<1> DEFINE u == addControlCodes(t, code, c, k)
           m == [code |-> code, id |-> c, conn |-> k]
           T == Written(t)
<1>0. code \in {"switch", "new", "finish", "drop", "begin", "end"}
    OBVIOUS
<1>1. /\ m \in Message /\ u \in Transmit /\ Written(u) = T \o << m >>
      /\ u.encode = t.encode /\ u.output = t.output
    BY <1>0, CodeAdded
<1>2. m.code # "switch" /\ m.code # "data"
    OBVIOUS
<1>3. T \in Seq(Message)
    BY TransmitType
<1> HIDE DEF m, u, T
<1>4. << m >> \in Seq(Message)
    BY <1>1
<1>5. \A i \in 1 .. Len(<< m >>) :
          /\ << m >>[i].code # "switch"
          /\ << m >>[i].code = "data" => Picked(T, in, Len(T), << m >>[i].id)
    BY <1>2
<1>6. Selected(T, in)
    BY DEF Good, T
<1>7. /\ Selected(T \o << m >>, in)
      /\ \A d : Picked(T, in, Len(T), d)
                    => Picked(T \o << m >>, in, Len(T \o << m >>), d)
    BY <1>3, <1>4, <1>5, <1>6, SelectedMore
<1>8. Good(u, in)
    BY <1>1, <1>7 DEF Good, T
<1>9. QED BY <1>1, <1>8 DEF u

(* Nor does a code that is sent at once. *)
LEMMA ControlGood ==
    ASSUME NEW t \in Transmit, NEW in, Good(t, in), NEW c \in Id, NEW k \in Conn,
           NEW code \in {"new", "finish", "drop", "begin", "end"}
    PROVE  LET u == handleControl(t, code, c, k)
           IN  /\ u \in Transmit /\ Good(u, in)
               /\ u.encode = << >> /\ u.output = t.output
<1> DEFINE v == addControlCodes(t, code, c, k)
<1>1. v \in Transmit /\ Good(v, in) /\ v.output = t.output
    BY CodeGood
<1> HIDE DEF v
<1>2. /\ handleFrame(v) \in Transmit /\ Good(handleFrame(v), in)
      /\ handleFrame(v).encode = << >> /\ handleFrame(v).output = v.output
    BY <1>1, FrameGood
<1>3. QED BY <1>1, <1>2 DEF handleControl, v

(* What an operation about channel c may do to the buffer of another. *)
Kept(t, u, c) ==
    u.encode # << >> => u.encode = t.encode /\ u.output = t.output /\ t.output # c

(* The flush before a channel finishes or is dropped empties its buffer. *)
LEMMA FlushGood ==
    ASSUME NEW t \in Transmit, NEW in, Good(t, in), NEW c
    PROVE  /\ flush(t, c) \in Transmit /\ Good(flush(t, c), in)
           /\ Kept(t, flush(t, c), c) /\ flush(t, c).output = t.output
<1>1. CASE t.output = c /\ t.encode # << >>
    BY <1>1, FrameGood DEF flush, Kept
<1>2. CASE ~(t.output = c /\ t.encode # << >>)
    BY <1>2 DEF flush, Kept
<1>3. QED BY <1>1, <1>2

(* After a switch the peer will have selected the new output. *)
LEMMA SwitchGood ==
    ASSUME NEW t \in Transmit, NEW in, Good(t, in), NEW c \in Id, NEW k \in Conn
    PROVE  LET u == handleSwitch(t, c, k)
           IN  /\ u \in Transmit /\ Good(u, in) /\ u.output = c
               /\ u.encode = IF t.output = c THEN t.encode ELSE << >>
<1>1. CASE t.output = c
    BY <1>1 DEF handleSwitch
<1>2. CASE t.output # c
  <2> DEFINE v == IF t.encode # << >> THEN handleFrame(t) ELSE t
             w == addControlCodes(v, "switch", c, k)
             m == [code |-> "switch", id |-> c, conn |-> k]
             u == handleSwitch(t, c, k)
  <2>1. v \in Transmit /\ Good(v, in) /\ v.encode = << >>
      BY FrameGood
  <2> HIDE DEF v
  <2>2. /\ m \in Message /\ w \in Transmit
        /\ Written(w) = Written(v) \o << m >> /\ w.encode = << >>
      BY <2>1, CodeAdded
  <2>3. u = [w EXCEPT !.output = c]
      BY <1>2 DEF handleSwitch, v
  <2>4. m.code = "switch" /\ m.id = c
      OBVIOUS
  <2>5. Written(v) \in Seq(Message) /\ Selected(Written(v), in)
      BY <2>1, TransmitType DEF Good
  <2> HIDE DEF w, u, m
  <2>6. /\ u \in Transmit /\ u.output = c /\ u.encode = << >>
        /\ u.link = w.link /\ u.control = w.control
      BY <2>2, <2>3 DEF Transmit
  <2>7. Written(u) = Written(v) \o << m >>
      BY <2>2, <2>6 DEF Written
  <2>8. Selected(Written(u), in) /\ Picked(Written(u), in, Len(Written(u)), c)
      BY <2>2, <2>4, <2>5, <2>7, SelectedSwitch
  <2>9. Len(u.encode) = 0
      BY <2>6
  <2>10. Good(u, in)
      BY <2>6, <2>8, <2>9 DEF Good
  <2>11. QED BY <1>2, <2>6, <2>10 DEF u
<1>3. QED BY <1>1, <1>2

(* Dropping a channel empties its buffer before the output is forgotten. *)
LEMMA DropGood ==
    ASSUME NEW t \in Transmit, NEW in, Good(t, in), NEW c \in Id, NEW ch \in Channel
    PROVE  LET u == handleDrop(t, ch, c)
           IN  u \in Transmit /\ Good(u, in) /\ Kept(t, u, c)
<1> DEFINE f == flush(t, c)
           g == IF ch.closing THEN handleControl(f, "drop", c, ch.conn) ELSE f
           u == handleDrop(t, ch, c)
<1>1. f \in Transmit /\ Good(f, in) /\ Kept(t, f, c) /\ f.output = t.output
    BY FlushGood
<1>2. ch.conn \in Conn
    BY DEF Channel
<1> HIDE DEF f
<1>3. g \in Transmit /\ Good(g, in) /\ Kept(t, g, c) /\ g.output = t.output
    BY <1>1, <1>2, ControlGood DEF Kept
<1>4. u = [g EXCEPT !.output = IF g.output = c THEN nothing ELSE g.output]
    BY <1>3 DEF handleDrop, f, Transmit
<1> HIDE DEF g, u
<1>5. /\ u \in Transmit /\ u.encode = g.encode /\ u.link = g.link
      /\ u.control = g.control
      /\ u.output = IF g.output = c THEN nothing ELSE g.output
    BY <1>3, <1>4 DEF Transmit
<1>6. Written(u) = Written(g)
    BY <1>5 DEF Written
<1>7. CASE g.output = c
  <2>1. u.encode = << >> /\ u.output = nothing
      BY <1>3, <1>5, <1>7 DEF Kept
  <2>2. Len(u.encode) = 0
      BY <2>1
  <2>3. QED BY <1>3, <1>5, <1>6, <2>1, <2>2 DEF Good, Kept, u
<1>8. CASE g.output # c
  <2>1. u.output = g.output
      BY <1>5, <1>8
  <2>2. Good(u, in)
      BY <1>3, <1>5, <1>6, <2>1 DEF Good
  <2>3. QED BY <1>3, <1>5, <2>1, <2>2 DEF Kept, u
<1>9. QED BY <1>7, <1>8

(* A channel that is the output may encode more data. *)
LEMMA EncodeGood ==
    ASSUME NEW t \in Transmit, NEW in, Good(t, in), NEW c \in Id, NEW k \in Conn,
           t.output = c
    PROVE  LET m == [code |-> "data", id |-> c, conn |-> k]
               u == [t EXCEPT !.encode = Append(@, m)]
           IN  /\ u \in Transmit /\ Good(u, in) /\ u.output = c
               /\ u.encode = Append(t.encode, m)
<1> DEFINE m == [code |-> "data", id |-> c, conn |-> k]
           u == [t EXCEPT !.encode = Append(@, m)]
<1>1. m \in Data /\ m.id = c
    BY DEF Data
<1>2. t.encode \in Seq(Data)
    BY TransmitType
<1>3. c # nothing
    BY LimitAssumption DEF Id, nothing
<1> HIDE DEF m
<1>4. Append(t.encode, m) \in Seq(Data)
    BY <1>1, <1>2
<1>5. /\ u \in Transmit /\ u.encode = Append(t.encode, m) /\ u.output = c
      /\ u.link = t.link /\ u.control = t.control
    BY <1>4 DEF Transmit
<1>6. \A i \in 1 .. Len(Append(t.encode, m)) : Append(t.encode, m)[i].id = c
  <2>1. \A i \in 1 .. Len(t.encode) : t.encode[i].id = c
      BY DEF Good
  <2>2. QED BY <1>1, <1>2, <2>1
<1> HIDE DEF u
<1>7. Written(u) = Written(t)
    BY <1>5 DEF Written
<1>8. Good(u, in)
    BY <1>3, <1>5, <1>6, <1>7 DEF Good
<1>9. QED BY <1>5, <1>8 DEF u, m

(* The first message is taken from the link, in front of the codes. *)
LEMMA TailConcat ==
    ASSUME NEW a \in Seq(Message), NEW b \in Seq(Message), a # << >>
    PROVE  a \o b # << >> /\ Head(a \o b) = Head(a) /\ Tail(a \o b) = Tail(a) \o b
<1>1. /\ a \o b \in Seq(Message) /\ Len(a \o b) = Len(a) + Len(b)
      /\ \A i \in 1 .. Len(a) + Len(b) :
             (a \o b)[i] = IF i <= Len(a) THEN a[i] ELSE b[i - Len(a)]
    BY ConcatProperties
<1>2. Len(a) \in Nat \ {0} /\ Len(b) \in Nat
    OBVIOUS
<1>3. a \o b # << >> /\ Head(a \o b) = Head(a)
    BY <1>1, <1>2
<1>4. /\ Tail(a \o b) \in Seq(Message) /\ Len(Tail(a \o b)) = Len(a) + Len(b) - 1
      /\ \A i \in 1 .. Len(a) + Len(b) - 1 : Tail(a \o b)[i] = (a \o b)[i + 1]
    BY <1>1, <1>3, HeadTailProperties
<1>5. /\ Tail(a) \in Seq(Message) /\ Len(Tail(a)) = Len(a) - 1
      /\ \A i \in 1 .. Len(a) - 1 : Tail(a)[i] = a[i + 1]
    BY HeadTailProperties
<1>6. /\ Tail(a) \o b \in Seq(Message) /\ Len(Tail(a) \o b) = Len(a) - 1 + Len(b)
      /\ \A i \in 1 .. Len(a) - 1 + Len(b) :
             (Tail(a) \o b)[i] = IF i <= Len(a) - 1 THEN Tail(a)[i]
                                 ELSE b[i - (Len(a) - 1)]
    BY <1>5, ConcatProperties
<1>7. \A i \in 1 .. Len(Tail(a \o b)) : Tail(a \o b)[i] = (Tail(a) \o b)[i]
  <2> SUFFICES ASSUME NEW i \in 1 .. Len(Tail(a \o b))
               PROVE  Tail(a \o b)[i] = (Tail(a) \o b)[i]
      OBVIOUS
  <2>1. i \in 1 .. Len(a) + Len(b) - 1 /\ i + 1 \in 1 .. Len(a) + Len(b)
      BY <1>2, <1>4
  <2>2. Tail(a \o b)[i] = IF i + 1 <= Len(a) THEN a[i + 1] ELSE b[i + 1 - Len(a)]
      BY <1>1, <1>4, <2>1
  <2>3. (Tail(a) \o b)[i] = IF i <= Len(a) - 1 THEN a[i + 1] ELSE b[i - (Len(a) - 1)]
      BY <1>2, <1>5, <1>6, <2>1
  <2>4. i + 1 - Len(a) = i - (Len(a) - 1) /\ (i + 1 <= Len(a) <=> i <= Len(a) - 1)
      BY <1>2, <2>1
  <2>5. QED BY <2>2, <2>3, <2>4
<1>8. Tail(a \o b) = Tail(a) \o b
  <2>1. Len(Tail(a \o b)) = Len(Tail(a) \o b)
      BY <1>2, <1>4, <1>6
  <2>2. QED BY <1>4, <1>6, <1>7, <2>1, SeqEqual
<1>9. QED BY <1>3, <1>8

(* The peer reads a message of the link. *)
LEMMA TailGood ==
    ASSUME NEW t \in Transmit, NEW in, Good(t, in), t.link # << >>
    PROVE  LET u == [t EXCEPT !.link = Tail(@)]
           IN  /\ Head(t.link) \in Message
               /\ u \in Transmit /\ Good(u, Turned(t.link, in))
               /\ u.encode = t.encode /\ u.output = t.output
<1> DEFINE u == [t EXCEPT !.link = Tail(@)]
           T == Written(t)
<1>1. /\ t.link \in Seq(Message) /\ t.control \in Seq(Message) /\ T \in Seq(Message)
    BY TransmitType
<1>2. Head(t.link) \in Message /\ Tail(t.link) \in Seq(Message)
    BY <1>1, HeadTailProperties
<1>3. /\ u \in Transmit /\ u.encode = t.encode /\ u.output = t.output
      /\ u.link = Tail(t.link) /\ u.control = t.control
    BY <1>2 DEF Transmit
<1> HIDE DEF u
<1>4. T # << >> /\ Head(T) = Head(t.link) /\ Tail(T) = Tail(t.link) \o t.control
    BY <1>1, TailConcat DEF Written
<1>5. Turned(T, in) = Turned(t.link, in)
    BY <1>4 DEF Turned
<1>6. Written(u) = Tail(T) /\ Len(Tail(T)) = Len(T) - 1 /\ Len(T) \in 1 .. Len(T)
  <2>1. Written(u) = Tail(T)
      BY <1>3, <1>4 DEF Written
  <2> HIDE DEF T
  <2>2. QED BY <1>1, <1>4, <2>1, HeadTailProperties
<1>7. /\ \A c : Picked(T, in, Len(T), c)
                    => Picked(Tail(T), Turned(T, in), Len(T) - 1, c)
      /\ Selected(Tail(T), Turned(T, in))
    BY <1>1, <1>4, <1>6, SelectedTail DEF Good
<1>8. Good(u, Turned(t.link, in))
    BY <1>3, <1>5, <1>6, <1>7 DEF Good
<1>9. QED BY <1>2, <1>3, <1>8 DEF u

-----------------------------------------------------------------------------
(* The steps of the two proxies *)

(* No channel is the null pointer. *)
LEMMA NoneIsNoChannel == None \notin Channel /\ None.conn = 0 /\ 0 \notin Conn
BY LimitAssumption DEF None, Channel, Conn

(* The types of what the proxies hold. *)
LEMMA SideType ==
    ASSUME TypeOK, NEW s \in Side
    PROVE  /\ Peer(s) \in Side /\ Peer(s) # s /\ Peer(Peer(s)) = s
           /\ tx[s] \in Transmit
           /\ input[s] \in Id \cup {nothing}
           /\ channels[s] \in [Id -> Channel \cup {None}]
BY DEF TypeOK, Side, Peer

(* One channel of a proxy is replaced. *)
LEMMA ChannelChanged ==
    ASSUME TypeOK, NEW s \in Side, NEW c \in Id, NEW ch \in Channel \cup {None},
           channels' = [channels EXCEPT ![s][c] = ch]
    PROVE  /\ channels' \in [Side -> [Id -> Channel \cup {None}]]
           /\ channels'[Peer(s)] = channels[Peer(s)]
           /\ channels'[s][c] = ch
           /\ \A d \in Id \ {c} : channels'[s][d] = channels[s][d]
BY SideType DEF TypeOK

(* What is left in the buffer does not belong to the channel that changes. *)
LEMMA OwnKept ==
    ASSUME NEW t \in Transmit, NEW u, NEW in, NEW c \in Id, Good(t, in),
           NEW old, NEW new, Own(t, old), Kept(t, u, c),
           \A d \in Id \ {c} : new[d] = old[d]
    PROVE  Own(u, new)
<1> SUFFICES ASSUME u.encode # << >>
             PROVE  Own(u, new)
    BY DEF Own
<1>1. u.encode = t.encode /\ u.output = t.output /\ t.output # c
    BY DEF Kept
<1>2. t.output \in Id \ {c}
    BY <1>1, TransmitType DEF Good
<1>3. QED BY <1>1, <1>2 DEF Own

(* The channel that changes still serves the same connection. *)
LEMMA OwnSame ==
    ASSUME NEW t \in Transmit, NEW u, NEW in, NEW c \in Id, Good(t, in),
           NEW old, NEW new, Own(t, old),
           u.encode = t.encode, u.output = t.output,
           \A d \in Id : new[d].conn = old[d].conn
    PROVE  Own(u, new)
<1> SUFFICES ASSUME u.encode # << >>
             PROVE  Own(u, new)
    BY DEF Own
<1>1. t.output \in Id
    BY TransmitType DEF Good
<1>2. QED BY <1>1 DEF Own

(* An id without a channel has nothing in the buffer. *)
LEMMA OwnFree ==
    ASSUME NEW t \in Transmit, NEW in, NEW c \in Id, Good(t, in),
           NEW old, Own(t, old), old[c] = None, t.encode # << >>
    PROVE  t.output # c
<1> SUFFICES ASSUME t.output = c
             PROVE  FALSE
    OBVIOUS
<1>1. t.encode \in Seq(Data)
    BY TransmitType
<1>2. 1 \in 1 .. Len(t.encode)
    BY <1>1
<1>3. t.encode[1].conn \in Conn
  <2>1. t.encode[1] \in Data
      BY <1>1, <1>2
  <2>2. QED BY <2>1 DEF Data
<1>4. old[c].conn = t.encode[1].conn
    BY <1>2 DEF Own
<1>5. QED BY <1>3, <1>4, NoneIsNoChannel

(* A step that leaves the link to the peer alone. *)
LEMMA LocalInv ==
    ASSUME Inv, NEW s \in Side, NEW u \in Transmit, Good(u, input[Peer(s)]),
           tx' = [tx EXCEPT ![s] = u], input' = input,
           channels' \in [Side -> [Id -> Channel \cup {None}]],
           channels'[Peer(s)] = channels[Peer(s)], Own(u, channels'[s]),
           congestions' \in [Side -> SUBSET Id],
           opened' \in 0 .. MaxConn, reads' \in 0 .. MaxData
    PROVE  Inv'
<1>1. Peer(s) \in Side /\ Peer(s) # s /\ \A r \in Side : r = s \/ r = Peer(s)
    BY DEF Side, Peer
<1>2. tx' \in [Side -> Transmit] /\ tx'[s] = u /\ tx'[Peer(s)] = tx[Peer(s)]
    BY <1>1 DEF Inv, TypeOK
<1>3. TypeOK'
    BY <1>2 DEF Inv, TypeOK
<1>4. \A r \in Side : Good(tx'[r], input'[Peer(r)])
    BY <1>1, <1>2 DEF Inv
<1>5. \A r \in Side : Own(tx'[r], channels'[r])
    BY <1>1, <1>2 DEF Inv
<1>6. QED BY <1>3, <1>4, <1>5 DEF Inv

(* A step that reads a message of the peer. *)
LEMMA RemoteInv ==
    ASSUME Inv, NEW s \in Side, NEW u \in Transmit, Good(u, input[Peer(s)]),
           tx[Peer(s)].link # << >>, tx' = Consumed(s, u),
           input' = [input EXCEPT ![s] = Turned(tx[Peer(s)].link, @)],
           channels' \in [Side -> [Id -> Channel \cup {None}]],
           channels'[Peer(s)] = channels[Peer(s)], Own(u, channels'[s]),
           congestions' \in [Side -> SUBSET Id],
           opened' = opened, reads' = reads
    PROVE  Inv'
<1> DEFINE p == Peer(s)
           v == [tx[p] EXCEPT !.link = Tail(@)]
<1>1. /\ p \in Side /\ p # s /\ Peer(p) = s
      /\ \A r \in Side : r = s \/ r = p
    BY DEF Side, Peer
<1>2. tx[p] \in Transmit /\ Good(tx[p], input[s])
    BY <1>1 DEF Inv, TypeOK
<1>3. /\ Head(tx[p].link) \in Message /\ v \in Transmit
      /\ Good(v, Turned(tx[p].link, input[s]))
      /\ v.encode = tx[p].encode /\ v.output = tx[p].output
    BY <1>2, TailGood
<1>4. tx' \in [Side -> Transmit] /\ tx'[s] = u /\ tx'[p] = v
  <2>1. tx' = [tx EXCEPT ![p] = v, ![s] = u]
      BY <1>1, <1>2 DEF Consumed, Inv, TypeOK, Transmit
  <2> HIDE DEF v, p
  <2>2. QED BY <1>1, <1>3, <2>1 DEF Inv, TypeOK
<1>5. Turned(tx[p].link, input[s]) \in Id \cup {nothing}
  <2>1. Head(tx[p].link).id \in Id
      BY <1>3 DEF Message, Code, Data
  <2>2. QED BY <2>1 DEF Turned, Inv, TypeOK
<1>6. /\ input' \in [Side -> Id \cup {nothing}]
      /\ input'[s] = Turned(tx[p].link, input[s]) /\ input'[p] = input[p]
  <2> HIDE DEF v
  <2>1. QED BY <1>1, <1>5 DEF Inv, TypeOK
<1> HIDE DEF v, p
<1>7. TypeOK'
    BY <1>4, <1>6 DEF Inv, TypeOK
<1>8. \A r \in Side : Good(tx'[r], input'[Peer(r)])
  <2>1. Good(tx'[s], input'[Peer(s)])
      BY <1>4, <1>6 DEF p
  <2>2. Good(tx'[p], input'[Peer(p)])
      BY <1>1, <1>3, <1>4, <1>6
  <2>3. QED BY <1>1, <2>1, <2>2
<1>9. \A r \in Side : Own(tx'[r], channels'[r])
  <2>1. Own(tx[p], channels[p])
      BY <1>1 DEF Inv
  <2>2. Own(tx'[p], channels'[p])
      BY <1>3, <1>4, <2>1 DEF Own, p
  <2>3. QED BY <1>1, <1>4, <2>2
<1>10. QED BY <1>7, <1>8, <1>9 DEF Inv

(* The client proxy gives a free id to a connection. *)
LEMMA NewConnectionInv == ASSUME Inv, handleNewConnection PROVE Inv'
<1> DEFINE s == "client"
<1>1. s \in Side
    BY DEF Side
<1>2. PICK c \in Id :
          /\ ~Open(s, c)
          /\ channels' = [channels EXCEPT ![s][c] = Fresh(opened')]
          /\ tx' = [tx EXCEPT ![s] = addControlCodes(@, "new", c, opened')]
    BY DEF handleNewConnection
<1>3. opened' \in Conn /\ opened' \in 0 .. MaxConn
    BY LimitAssumption DEF handleNewConnection, Inv, TypeOK, Conn
<1> DEFINE t == tx[s]
           u == addControlCodes(t, "new", c, opened')
<1>4. /\ t \in Transmit /\ Good(t, input[Peer(s)]) /\ Own(t, channels[s])
    BY <1>1 DEF Inv, TypeOK
<1>5. u \in Transmit /\ Good(u, input[Peer(s)])
          /\ u.encode = t.encode /\ u.output = t.output
    BY <1>3, <1>4, CodeGood
<1>6. Fresh(opened') \in Channel
    BY <1>3 DEF Fresh, Channel
<1> HIDE DEF s
<1>7. /\ channels' \in [Side -> [Id -> Channel \cup {None}]]
      /\ channels'[Peer(s)] = channels[Peer(s)]
      /\ \A d \in Id \ {c} : channels'[s][d] = channels[s][d]
    BY <1>1, <1>2, <1>6, ChannelChanged DEF Inv
<1>8. tx' = [tx EXCEPT ![s] = u]
    BY <1>1, <1>2 DEF Inv, TypeOK
<1> HIDE DEF t, u
<1>9. channels[s][c] = None
    BY <1>2 DEF Open
<1>10. t.encode # << >> => t.output # c
    BY <1>4, <1>9, OwnFree
<1>11. Kept(t, u, c)
    BY <1>5, <1>10 DEF Kept
<1>12. Own(u, channels'[s])
    BY <1>4, <1>7, <1>11, OwnKept
<1>13. /\ input' = input /\ congestions' \in [Side -> SUBSET Id]
       /\ reads' \in 0 .. MaxData
    BY DEF handleNewConnection, Inv, TypeOK
<1>14. QED BY <1>1, <1>3, <1>5, <1>7, <1>8, <1>12, <1>13, LocalInv

(* A channel encodes what its connection said. *)
LEMMA ReadInv ==
    ASSUME Inv, NEW s \in Side, NEW c \in Id, handleReadChannel(s, c)
    PROVE  Inv'
<1> DEFINE k == channels[s][c].conn
           t == handleSwitch(tx[s], c, k)
           m == [code |-> "data", id |-> c, conn |-> k]
           u == [t EXCEPT !.encode = Append(@, m)]
<1>1. /\ tx[s] \in Transmit /\ Good(tx[s], input[Peer(s)]) /\ Own(tx[s], channels[s])
    BY DEF Inv, TypeOK
<1>2. k \in Conn
  <2>1. channels[s][c] \in Channel
      BY DEF handleReadChannel, Readable, Open, Inv, TypeOK
  <2>2. QED BY <2>1 DEF Channel
<1>3. /\ tx' = [tx EXCEPT ![s] = u] /\ input' = input /\ channels' = channels
      /\ congestions' = congestions /\ opened' = opened
      /\ reads' \in 0 .. MaxData
    BY LimitAssumption DEF handleReadChannel, Inv, TypeOK
<1> HIDE DEF k
<1>4. /\ t \in Transmit /\ Good(t, input[Peer(s)]) /\ t.output = c
      /\ t.encode = IF tx[s].output = c THEN tx[s].encode ELSE << >>
    BY <1>1, <1>2, SwitchGood
<1> HIDE DEF t
<1>5. /\ u \in Transmit /\ Good(u, input[Peer(s)]) /\ u.output = c
      /\ u.encode = Append(t.encode, m)
    BY <1>2, <1>4, EncodeGood
<1>6. Own(u, channels[s])
  <2>1. \A i \in 1 .. Len(t.encode) : t.encode[i].conn = k
    <3>1. CASE tx[s].output = c
        BY <1>1, <1>4, <3>1 DEF Own, k
    <3>2. CASE tx[s].output # c
        BY <1>4, <3>2
    <3>3. QED BY <3>1, <3>2
  <2>2. t.encode \in Seq(Data) /\ m.conn = k
      BY <1>4, TransmitType
  <2> HIDE DEF m, u
  <2>3. \A i \in 1 .. Len(Append(t.encode, m)) : Append(t.encode, m)[i].conn = k
      BY <2>1, <2>2
  <2>4. QED BY <1>5, <2>3 DEF Own, k
<1> HIDE DEF u
<1>7. /\ channels' \in [Side -> [Id -> Channel \cup {None}]]
      /\ channels'[Peer(s)] = channels[Peer(s)] /\ Own(u, channels'[s])
      /\ congestions' \in [Side -> SUBSET Id] /\ opened' \in 0 .. MaxConn
    BY <1>3, <1>6 DEF Inv, TypeOK
<1>8. QED BY <1>3, <1>5, <1>7, LocalInv

(* The flush at the end of a turn. *)
LEMMA FlushInv == ASSUME Inv, NEW s \in Side, handleFlush(s) PROVE Inv'
<1> DEFINE u == handleFrame(tx[s])
<1>1. tx[s] \in Transmit /\ Good(tx[s], input[Peer(s)])
    BY DEF Inv, TypeOK
<1>2. u \in Transmit /\ Good(u, input[Peer(s)]) /\ u.encode = << >>
    BY <1>1, FrameGood
<1>3. /\ tx' = [tx EXCEPT ![s] = u] /\ input' = input /\ channels' = channels
      /\ congestions' = congestions /\ opened' = opened /\ reads' = reads
    BY DEF handleFlush, Inv, TypeOK
<1> HIDE DEF u
<1>4. /\ channels' \in [Side -> [Id -> Channel \cup {None}]]
      /\ channels'[Peer(s)] = channels[Peer(s)] /\ Own(u, channels'[s])
      /\ congestions' \in [Side -> SUBSET Id]
      /\ opened' \in 0 .. MaxConn /\ reads' \in 0 .. MaxData
    BY <1>2, <1>3 DEF Inv, TypeOK, Own
<1>5. QED BY <1>2, <1>3, <1>4, LocalInv

(* A connection was closed. *)
LEMMA FinishInv ==
    ASSUME Inv, NEW s \in Side, NEW c \in Id, handleFinish(s, c)
    PROVE  Inv'
<1> DEFINE k == channels[s][c].conn
           f == flush(tx[s], c)
           u == handleControl(f, "finish", c, k)
           ch == [channels[s][c] EXCEPT !.finish = TRUE, !.congestion = FALSE]
<1>1. tx[s] \in Transmit /\ Good(tx[s], input[Peer(s)])
    BY DEF Inv, TypeOK
<1>2. channels[s][c] \in Channel
    BY DEF handleFinish, Readable, Open, Inv, TypeOK
<1>3. k \in Conn /\ ch \in Channel \cup {None}
    BY <1>2 DEF Channel
<1>4. channels' = [channels EXCEPT ![s][c] = ch]
    BY <1>2 DEF handleFinish, Inv, TypeOK
<1>5. /\ tx' = [tx EXCEPT ![s] = u] /\ input' = input
      /\ congestions' = congestions /\ opened' = opened /\ reads' = reads
    BY DEF handleFinish, Inv, TypeOK
<1> HIDE DEF ch, k
<1>6. /\ channels' \in [Side -> [Id -> Channel \cup {None}]]
      /\ channels'[Peer(s)] = channels[Peer(s)]
    BY <1>3, <1>4, ChannelChanged DEF Inv
<1>7. f \in Transmit /\ Good(f, input[Peer(s)])
    BY <1>1, FlushGood
<1> HIDE DEF f
<1>8. u \in Transmit /\ Good(u, input[Peer(s)]) /\ u.encode = << >>
    BY <1>3, <1>7, ControlGood
<1> HIDE DEF u
<1>9. /\ Own(u, channels'[s])
      /\ congestions' \in [Side -> SUBSET Id]
      /\ opened' \in 0 .. MaxConn /\ reads' \in 0 .. MaxData
    BY <1>5, <1>8 DEF Inv, TypeOK, Own
<1>10. QED BY <1>5, <1>6, <1>8, <1>9, LocalInv

(* A connection took what was waiting for it. *)
LEMMA DecongestionInv ==
    ASSUME Inv, NEW s \in Side, NEW c \in Id, handleDecongestion(s, c)
    PROVE  Inv'
<1> DEFINE k == channels[s][c].conn
           u == handleControl(tx[s], "end", c, k)
           ch == [channels[s][c] EXCEPT !.congestion = FALSE]
<1>1. tx[s] \in Transmit /\ Good(tx[s], input[Peer(s)])
    BY DEF Inv, TypeOK
<1>2. channels[s][c] \in Channel
    BY DEF handleDecongestion, Open, Inv, TypeOK
<1>3. k \in Conn /\ ch \in Channel \cup {None}
    BY <1>2 DEF Channel
<1>4. channels' = [channels EXCEPT ![s][c] = ch]
    BY <1>2 DEF handleDecongestion, Inv, TypeOK
<1>5. /\ tx' = [tx EXCEPT ![s] = u] /\ input' = input
      /\ congestions' = congestions /\ opened' = opened /\ reads' = reads
    BY DEF handleDecongestion, Inv, TypeOK
<1> HIDE DEF ch, k
<1>6. /\ channels' \in [Side -> [Id -> Channel \cup {None}]]
      /\ channels'[Peer(s)] = channels[Peer(s)]
    BY <1>3, <1>4, ChannelChanged DEF Inv
<1>7. u \in Transmit /\ Good(u, input[Peer(s)]) /\ u.encode = << >>
    BY <1>1, <1>3, ControlGood
<1> HIDE DEF u
<1>8. /\ Own(u, channels'[s])
      /\ congestions' \in [Side -> SUBSET Id]
      /\ opened' \in 0 .. MaxConn /\ reads' \in 0 .. MaxData
    BY <1>5, <1>7 DEF Inv, TypeOK, Own
<1>9. QED BY <1>5, <1>6, <1>7, <1>8, LocalInv

(* A channel marked by the remote is got rid of. *)
LEMMA EventsInv ==
    ASSUME Inv, NEW s \in Side, NEW c \in Id, handleEvents(s, c)
    PROVE  Inv'
<1> DEFINE u == handleDrop(tx[s], channels[s][c], c)
<1>1. tx[s] \in Transmit /\ Good(tx[s], input[Peer(s)]) /\ Own(tx[s], channels[s])
    BY DEF Inv, TypeOK
<1>2. channels[s][c] \in Channel
    BY DEF handleEvents, Open, Inv, TypeOK
<1>3. u \in Transmit /\ Good(u, input[Peer(s)]) /\ Kept(tx[s], u, c)
    BY <1>1, <1>2, DropGood
<1>4. /\ tx' = [tx EXCEPT ![s] = u] /\ input' = input
      /\ channels' = [channels EXCEPT ![s][c] = None]
      /\ opened' = opened /\ reads' = reads
      /\ congestions' \in [Side -> SUBSET Id]
    BY DEF handleEvents, DropCongestion, Inv, TypeOK
<1> HIDE DEF u
<1>5. /\ channels' \in [Side -> [Id -> Channel \cup {None}]]
      /\ channels'[Peer(s)] = channels[Peer(s)]
      /\ \A d \in Id \ {c} : channels'[s][d] = channels[s][d]
    BY <1>4, ChannelChanged DEF Inv
<1>6. Own(u, channels'[s])
    BY <1>1, <1>3, <1>5, OwnKept
<1>7. opened' \in 0 .. MaxConn /\ reads' \in 0 .. MaxData
    BY <1>4 DEF Inv, TypeOK
<1>8. QED BY <1>3, <1>4, <1>5, <1>6, <1>7, LocalInv

-----------------------------------------------------------------------------
(* The messages of the peer *)

(* The message a proxy reads. *)
LEMMA IncomingType ==
    ASSUME Inv, NEW s \in Side, tx[Peer(s)].link # << >>
    PROVE  Incoming(s).id \in Id /\ Incoming(s).conn \in Conn
<1>1. tx[Peer(s)] \in Transmit
    BY SideType DEF Inv
<1>2. Incoming(s) \in Message
    BY <1>1, TransmitType, HeadTailProperties DEF Incoming
<1>3. QED BY <1>2 DEF Message, Code, Data

(* A message that is not a switch leaves the selected id alone. *)
LEMMA NotTurned ==
    ASSUME TypeOK, NEW s \in Side, Incoming(s).code # "switch", input' = input
    PROVE  input' = [input EXCEPT ![s] = Turned(tx[Peer(s)].link, @)]
BY DEF Turned, Incoming, TypeOK

(* The messages that change neither the channels nor the transmitter. *)
LEMMA PassiveInv ==
    ASSUME Inv, NEW s \in Side, tx[Peer(s)].link # << >>, tx' = Consumed(s, tx[s]),
           input' = [input EXCEPT ![s] = Turned(tx[Peer(s)].link, @)],
           channels' = channels, congestions' \in [Side -> SUBSET Id],
           opened' = opened, reads' = reads
    PROVE  Inv'
<1>1. tx[s] \in Transmit /\ Good(tx[s], input[Peer(s)]) /\ Own(tx[s], channels'[s])
    BY DEF Inv, TypeOK
<1>2. /\ channels' \in [Side -> [Id -> Channel \cup {None}]]
      /\ channels'[Peer(s)] = channels[Peer(s)]
    BY DEF Inv, TypeOK
<1>3. QED BY <1>1, <1>2, RemoteInv

(* The selection of a channel. *)
LEMMA SwitchFromProxyInv == ASSUME Inv, NEW s \in Side, SwitchFromProxy(s) PROVE Inv'
<1>1. /\ tx[Peer(s)].link # << >> /\ tx' = Consumed(s, tx[s])
      /\ Head(tx[Peer(s)].link).code = "switch"
      /\ input' = [input EXCEPT ![s] = Head(tx[Peer(s)].link).id]
      /\ channels' = channels /\ congestions' = congestions
      /\ opened' = opened /\ reads' = reads
    BY DEF SwitchFromProxy, Receives, Incoming
<1>2. input' = [input EXCEPT ![s] = Turned(tx[Peer(s)].link, @)]
    BY <1>1 DEF Turned, Inv, TypeOK
<1>3. congestions' \in [Side -> SUBSET Id]
    BY <1>1 DEF Inv, TypeOK
<1>4. QED BY <1>1, <1>2, <1>3, PassiveInv

(* Data that is decoded. *)
LEMMA DataFromProxyInv == ASSUME Inv, NEW s \in Side, DataFromProxy(s) PROVE Inv'
<1>1. /\ tx[Peer(s)].link # << >> /\ tx' = Consumed(s, tx[s])
      /\ Incoming(s).code # "switch" /\ input' = input
      /\ channels' = channels /\ congestions' = congestions
      /\ opened' = opened /\ reads' = reads
    BY DEF DataFromProxy, Receives
<1>2. input' = [input EXCEPT ![s] = Turned(tx[Peer(s)].link, @)]
    BY <1>1, NotTurned DEF Inv
<1>3. congestions' \in [Side -> SUBSET Id]
    BY <1>1 DEF Inv, TypeOK
<1>4. QED BY <1>1, <1>2, <1>3, PassiveInv

(* Data that the connection does not take. *)
LEMMA DataFromProxyStallsInv ==
    ASSUME Inv, NEW s \in Side, DataFromProxyStalls(s)
    PROVE  Inv'
<1> DEFINE c == input[s]
           k == channels[s][c].conn
           u == handleControl(tx[s], "begin", c, k)
           ch == [channels[s][c] EXCEPT !.congestion = TRUE]
<1>1. tx[s] \in Transmit /\ Good(tx[s], input[Peer(s)])
    BY DEF Inv, TypeOK
<1>2. c \in Id /\ channels[s][c] \in Channel
    BY DEF DataFromProxyStalls, Writable, Open, Inv, TypeOK
<1>3. k \in Conn /\ ch \in Channel \cup {None}
    BY <1>2 DEF Channel
<1>4. channels' = [channels EXCEPT ![s][c] = ch]
    BY <1>2 DEF DataFromProxyStalls, Inv, TypeOK
<1>5. /\ tx[Peer(s)].link # << >> /\ tx' = Consumed(s, u)
      /\ Incoming(s).code # "switch" /\ input' = input
      /\ opened' = opened /\ reads' = reads /\ congestions' \in [Side -> SUBSET Id]
    BY DEF DataFromProxyStalls, Receives, Inv, TypeOK
<1> HIDE DEF ch, k, c
<1>6. /\ channels' \in [Side -> [Id -> Channel \cup {None}]]
      /\ channels'[Peer(s)] = channels[Peer(s)]
    BY <1>2, <1>3, <1>4, ChannelChanged DEF Inv
<1>7. u \in Transmit /\ Good(u, input[Peer(s)]) /\ u.encode = << >>
    BY <1>1, <1>2, <1>3, ControlGood
<1> HIDE DEF u
<1>8. Own(u, channels'[s])
    BY <1>7 DEF Own
<1>9. input' = [input EXCEPT ![s] = Turned(tx[Peer(s)].link, @)]
    BY <1>5, NotTurned DEF Inv
<1>10. QED BY <1>5, <1>6, <1>7, <1>8, <1>9, RemoteInv

(* Data that cannot be written. *)
LEMMA DataFromProxyFailsInv ==
    ASSUME Inv, NEW s \in Side, DataFromProxyFails(s)
    PROVE  Inv'
<1> DEFINE c == input[s]
           u == flush(tx[s], c)
           ch == [channels[s][c] EXCEPT !.finish = TRUE]
<1>1. tx[s] \in Transmit /\ Good(tx[s], input[Peer(s)]) /\ Own(tx[s], channels[s])
    BY DEF Inv, TypeOK
<1>2. c \in Id /\ channels[s][c] \in Channel
    BY DEF DataFromProxyFails, Writable, Open, Inv, TypeOK
<1>3. ch \in Channel \cup {None}
    BY <1>2 DEF Channel
<1>4. channels' = [channels EXCEPT ![s][c] = ch]
    BY <1>2 DEF DataFromProxyFails, Inv, TypeOK
<1>5. /\ tx[Peer(s)].link # << >> /\ tx' = Consumed(s, u)
      /\ Incoming(s).code # "switch" /\ input' = input
      /\ opened' = opened /\ reads' = reads /\ congestions' \in [Side -> SUBSET Id]
    BY DEF DataFromProxyFails, Receives, Inv, TypeOK
<1> HIDE DEF ch, c
<1>6. /\ channels' \in [Side -> [Id -> Channel \cup {None}]]
      /\ channels'[Peer(s)] = channels[Peer(s)]
      /\ \A d \in Id \ {c} : channels'[s][d] = channels[s][d]
    BY <1>2, <1>3, <1>4, ChannelChanged DEF Inv
<1>7. u \in Transmit /\ Good(u, input[Peer(s)]) /\ Kept(tx[s], u, c)
    BY <1>1, FlushGood
<1> HIDE DEF u
<1>8. Own(u, channels'[s])
    BY <1>1, <1>2, <1>6, <1>7, OwnKept
<1>9. input' = [input EXCEPT ![s] = Turned(tx[Peer(s)].link, @)]
    BY <1>5, NotTurned DEF Inv
<1>10. QED BY <1>5, <1>6, <1>7, <1>8, <1>9, RemoteInv

(* Getting rid of a channel still to be dropped. *)
LEMMA ClearedGood ==
    ASSUME Inv, NEW s \in Side, NEW c \in Id
    PROVE  /\ Cleared(s, c) \in Transmit /\ Good(Cleared(s, c), input[Peer(s)])
           /\ ~Open(s, c) \/ Stale(channels[s][c]) => Kept(tx[s], Cleared(s, c), c)
           /\ ~Stale(channels[s][c]) => Cleared(s, c) = tx[s]
<1>1. /\ tx[s] \in Transmit /\ Good(tx[s], input[Peer(s)]) /\ Own(tx[s], channels[s])
      /\ channels[s][c] \in Channel \cup {None}
    BY DEF Inv, TypeOK
<1>2. CASE Stale(channels[s][c])
  <2>1. channels[s][c] \in Channel
      BY <1>1, <1>2 DEF Stale
  <2>2. QED BY <1>1, <1>2, <2>1, DropGood DEF Cleared
<1>3. CASE ~Stale(channels[s][c])
  <2>1. Cleared(s, c) = tx[s]
      BY <1>3 DEF Cleared
  <2>2. ~Open(s, c) => Kept(tx[s], tx[s], c)
      BY <1>1, OwnFree DEF Open, Kept
  <2>3. QED BY <1>1, <1>3, <2>1, <2>2
<1>4. QED BY <1>2, <1>3

(* A new connection, accepted. *)
LEMMA NewFromProxyInv == ASSUME Inv, NEW s \in Side, NewFromProxy(s) PROVE Inv'
<1> DEFINE c == Incoming(s).id
           u == Cleared(s, c)
<1>1. /\ tx[Peer(s)].link # << >> /\ tx' = Consumed(s, u)
      /\ Incoming(s).code # "switch" /\ input' = input
      /\ ~Open(s, c) \/ Stale(channels[s][c])
      /\ channels' = [channels EXCEPT ![s][c] = Fresh(Incoming(s).conn)]
      /\ opened' = opened /\ reads' = reads /\ congestions' \in [Side -> SUBSET Id]
    BY DEF NewFromProxy, Receives, DropCongestion, Inv, TypeOK
<1>2. c \in Id /\ Incoming(s).conn \in Conn
    BY <1>1, IncomingType
<1>3. Fresh(Incoming(s).conn) \in Channel \cup {None}
    BY <1>2 DEF Fresh, Channel
<1>4. tx[s] \in Transmit /\ Good(tx[s], input[Peer(s)]) /\ Own(tx[s], channels[s])
    BY DEF Inv, TypeOK
<1> HIDE DEF c
<1>5. u \in Transmit /\ Good(u, input[Peer(s)]) /\ Kept(tx[s], u, c)
    BY <1>1, <1>2, ClearedGood
<1> HIDE DEF u
<1>6. /\ channels' \in [Side -> [Id -> Channel \cup {None}]]
      /\ channels'[Peer(s)] = channels[Peer(s)]
      /\ \A d \in Id \ {c} : channels'[s][d] = channels[s][d]
    BY <1>1, <1>2, <1>3, ChannelChanged DEF Inv
<1>7. Own(u, channels'[s])
    BY <1>2, <1>4, <1>5, <1>6, OwnKept
<1>8. input' = [input EXCEPT ![s] = Turned(tx[Peer(s)].link, @)]
    BY <1>1, NotTurned DEF Inv
<1>9. QED BY <1>1, <1>5, <1>6, <1>7, <1>8, RemoteInv

(* A new connection, refused. *)
LEMMA NewFromProxyRefusedInv ==
    ASSUME Inv, NEW s \in Side, NewFromProxyRefused(s)
    PROVE  Inv'
<1> DEFINE c == Incoming(s).id
           k == Incoming(s).conn
           u == handleControl(Cleared(s, c), "drop", c, k)
           ch == IF Stale(channels[s][c]) THEN None ELSE channels[s][c]
<1>1. tx[Peer(s)].link # << >>
    BY DEF NewFromProxyRefused, Receives
<1>2. c \in Id /\ k \in Conn
    BY <1>1, IncomingType
<1>3. /\ tx' = Consumed(s, u) /\ Incoming(s).code # "switch" /\ input' = input
      /\ opened' = opened /\ reads' = reads /\ congestions' \in [Side -> SUBSET Id]
    BY DEF NewFromProxyRefused, Receives, DropCongestion, Inv, TypeOK
<1>4. channels' = [channels EXCEPT ![s][c] = ch]
    BY <1>2 DEF NewFromProxyRefused, Inv, TypeOK
<1>5. ch \in Channel \cup {None}
    BY <1>2 DEF Inv, TypeOK
<1> HIDE DEF c, k, ch
<1>6. /\ channels' \in [Side -> [Id -> Channel \cup {None}]]
      /\ channels'[Peer(s)] = channels[Peer(s)]
    BY <1>2, <1>4, <1>5, ChannelChanged DEF Inv
<1>7. u \in Transmit /\ Good(u, input[Peer(s)]) /\ u.encode = << >>
    BY <1>2, ClearedGood, ControlGood
<1> HIDE DEF u
<1>8. Own(u, channels'[s])
    BY <1>7 DEF Own
<1>9. input' = [input EXCEPT ![s] = Turned(tx[Peer(s)].link, @)]
    BY <1>3, NotTurned DEF Inv
<1>10. QED BY <1>1, <1>3, <1>6, <1>7, <1>8, <1>9, RemoteInv

(* The end of a connection at the peer. *)
LEMMA FinishFromProxyInv ==
    ASSUME Inv, NEW s \in Side, handleFinishFromProxy(s)
    PROVE  Inv'
<1> DEFINE c == Incoming(s).id
           u == IF Open(s, c) THEN flush(tx[s], c) ELSE tx[s]
           ch == IF channels[s][c] = None THEN channels[s][c]
                 ELSE [channels[s][c] EXCEPT !.closing = TRUE, !.finish = TRUE,
                                             !.congestion = FALSE]
<1>1. /\ tx[Peer(s)].link # << >> /\ tx' = Consumed(s, u)
      /\ Incoming(s).code # "switch" /\ input' = input
      /\ opened' = opened /\ reads' = reads /\ congestions' \in [Side -> SUBSET Id]
    BY DEF handleFinishFromProxy, Receives, Inv, TypeOK
<1>2. c \in Id
    BY <1>1, IncomingType
<1>3. channels[s][c] \in Channel \cup {None}
    BY <1>2 DEF Inv, TypeOK
<1>4. ch \in Channel \cup {None}
    BY <1>3 DEF Channel
<1>5. channels' = [channels EXCEPT ![s][c] = ch]
    BY <1>2 DEF handleFinishFromProxy, Inv, TypeOK
<1>6. tx[s] \in Transmit /\ Good(tx[s], input[Peer(s)]) /\ Own(tx[s], channels[s])
    BY DEF Inv, TypeOK
<1> HIDE DEF c, ch
<1>7. /\ channels' \in [Side -> [Id -> Channel \cup {None}]]
      /\ channels'[Peer(s)] = channels[Peer(s)]
      /\ \A d \in Id \ {c} : channels'[s][d] = channels[s][d]
    BY <1>2, <1>4, <1>5, ChannelChanged DEF Inv
<1>8. u \in Transmit /\ Good(u, input[Peer(s)]) /\ Kept(tx[s], u, c)
  <2>1. CASE Open(s, c)
      BY <1>6, <2>1, FlushGood
  <2>2. CASE ~Open(s, c)
      BY <1>2, <1>6, <2>2, OwnFree DEF Open, Kept
  <2>3. QED BY <2>1, <2>2
<1> HIDE DEF u
<1>9. Own(u, channels'[s])
    BY <1>2, <1>6, <1>7, <1>8, OwnKept
<1>10. input' = [input EXCEPT ![s] = Turned(tx[Peer(s)].link, @)]
    BY <1>1, NotTurned DEF Inv
<1>11. QED BY <1>1, <1>7, <1>8, <1>9, <1>10, RemoteInv

(* The peer got rid of its channel. *)
LEMMA DropFromProxyInv ==
    ASSUME Inv, NEW s \in Side, handleDropFromProxy(s)
    PROVE  Inv'
<1> DEFINE c == Incoming(s).id
           ch == IF channels[s][c] = None THEN channels[s][c]
                 ELSE [channels[s][c] EXCEPT !.drop = TRUE]
<1>1. /\ tx[Peer(s)].link # << >> /\ tx' = Consumed(s, tx[s])
      /\ Incoming(s).code # "switch" /\ input' = input
      /\ opened' = opened /\ reads' = reads /\ congestions' \in [Side -> SUBSET Id]
    BY DEF handleDropFromProxy, Receives, Inv, TypeOK
<1>2. c \in Id
    BY <1>1, IncomingType
<1>3. channels[s][c] \in Channel \cup {None}
    BY <1>2 DEF Inv, TypeOK
<1>4. ch \in Channel \cup {None} /\ ch.conn = channels[s][c].conn
    BY <1>3 DEF Channel
<1>5. channels' = [channels EXCEPT ![s][c] = ch]
    BY <1>2 DEF handleDropFromProxy, Inv, TypeOK
<1>6. tx[s] \in Transmit /\ Good(tx[s], input[Peer(s)]) /\ Own(tx[s], channels[s])
    BY DEF Inv, TypeOK
<1> HIDE DEF c, ch
<1>7. /\ channels' \in [Side -> [Id -> Channel \cup {None}]]
      /\ channels'[Peer(s)] = channels[Peer(s)]
      /\ channels'[s][c] = ch
      /\ \A d \in Id \ {c} : channels'[s][d] = channels[s][d]
    BY <1>2, <1>4, <1>5, ChannelChanged DEF Inv
<1>8. \A d \in Id : channels'[s][d].conn = channels[s][d].conn
    BY <1>4, <1>7
<1>9. Own(tx[s], channels'[s])
    BY <1>2, <1>6, <1>8, OwnSame
<1>10. input' = [input EXCEPT ![s] = Turned(tx[Peer(s)].link, @)]
    BY <1>1, NotTurned DEF Inv
<1>11. QED BY <1>1, <1>6, <1>7, <1>9, <1>10, RemoteInv

(* The congestion of a channel at the peer. *)
LEMMA CongestionFromProxyInv ==
    ASSUME Inv, NEW s \in Side, CongestionFromProxy(s)
    PROVE  Inv'
<1>1. /\ tx[Peer(s)].link # << >> /\ tx' = Consumed(s, tx[s])
      /\ Incoming(s).code # "switch" /\ input' = input
      /\ channels' = channels /\ opened' = opened /\ reads' = reads
    BY DEF CongestionFromProxy
<1>2. Incoming(s).id \in Id
    BY <1>1, IncomingType
<1>3. congestions' \in [Side -> SUBSET Id]
    BY <1>2 DEF CongestionFromProxy, Inv, TypeOK
<1>4. input' = [input EXCEPT ![s] = Turned(tx[Peer(s)].link, @)]
    BY <1>1, NotTurned DEF Inv
<1>5. QED BY <1>1, <1>3, <1>4, PassiveInv

-----------------------------------------------------------------------------

(* The invariant holds when the link is set up. *)
LEMMA InitInv == Init => Inv
<1> SUFFICES ASSUME Init
             PROVE  Inv
    OBVIOUS
<1> DEFINE t == [control |-> << >>, encode |-> << >>, output |-> nothing, link |-> << >>]
<1>1. t \in Transmit
  <2>1. << >> \in Seq(Code) /\ << >> \in Seq(Data) /\ << >> \in Seq(Message)
      OBVIOUS
  <2>2. QED BY <2>1 DEF Transmit
<1>2. 0 \in 0 .. MaxConn /\ 0 \in 0 .. MaxData
    BY LimitAssumption
<1>3. TypeOK
    BY <1>1, <1>2 DEF Init, TypeOK
<1>4. \A s \in Side : tx[s] = t
    BY DEF Init
<1>5. Written(t) = << >> /\ Len(<< >>) = 0
    BY DEF Written
<1>6. \A in : Good(t, in)
  <2>1. t.encode = << >> /\ t.output = nothing
      OBVIOUS
  <2> HIDE DEF t
  <2>2. QED BY <1>5, <2>1 DEF Good, Selected
<1>7. \A chans : Own(t, chans)
    BY DEF Own
<1>8. QED BY <1>3, <1>4, <1>6, <1>7 DEF Inv

(* Every step keeps it. *)
LEMMA StepInv == Inv /\ [Next]_vars => Inv'
<1> SUFFICES ASSUME Inv, [Next]_vars
             PROVE  Inv'
    OBVIOUS
<1>1. CASE UNCHANGED vars
    BY <1>1 DEF vars, Inv, TypeOK
<1>2. CASE handleNewConnection
    BY <1>2, NewConnectionInv
<1>3. CASE \E s \in Side : handleFlush(s)
    BY <1>3, FlushInv
<1>4. CASE \E s \in Side : FromProxy(s)
    BY <1>4, SwitchFromProxyInv, DataFromProxyInv, DataFromProxyStallsInv,
       DataFromProxyFailsInv, NewFromProxyInv, NewFromProxyRefusedInv,
       FinishFromProxyInv, DropFromProxyInv, CongestionFromProxyInv DEF FromProxy
<1>5. CASE \E s \in Side, c \in Id :
               \/ handleReadChannel(s, c) \/ handleDecongestion(s, c)
               \/ handleFinish(s, c) \/ handleEvents(s, c)
    BY <1>5, ReadInv, DecongestionInv, FinishInv, EventsInv
<1>6. QED BY <1>1, <1>2, <1>3, <1>4, <1>5 DEF Next

(* The next piece of data to be read finds its channel selected. *)
LEMMA InvImplies == Inv => OutputOwnsBuffer /\ SelectedForInput
<1> SUFFICES ASSUME Inv
             PROVE  OutputOwnsBuffer /\ SelectedForInput
    OBVIOUS
<1>1. ASSUME NEW s \in Side, tx[s].encode # << >>
      PROVE  /\ tx[s].output # nothing
             /\ \A i \in DOMAIN tx[s].encode :
                    channels[s][tx[s].output].conn = tx[s].encode[i].conn
  <2>1. tx[s].encode \in Seq(Data)
      BY TransmitType DEF Inv, TypeOK
  <2>2. DOMAIN tx[s].encode = 1 .. Len(tx[s].encode)
      BY <2>1
  <2>3. QED BY <1>1, <2>2 DEF Inv, Good, Own
<1>2. ASSUME NEW s \in Side, Receives(s, "data")
      PROVE  input[s] = Incoming(s).id
  <2> DEFINE t == tx[Peer(s)]
             T == Written(t)
  <2>1. /\ Peer(s) \in Side /\ Peer(Peer(s)) = s /\ t \in Transmit
      BY SideType DEF Inv
  <2>2. t.link # << >> /\ Head(t.link).code = "data" /\ Incoming(s) = Head(t.link)
      BY <1>2 DEF Receives, Incoming
  <2>3. t.link \in Seq(Message) /\ t.control \in Seq(Message) /\ T \in Seq(Message)
      BY <2>1, TransmitType
  <2>4. T # << >> /\ Head(T) = Head(t.link)
      BY <2>2, <2>3, TailConcat DEF Written
  <2>5. Selected(T, input[s])
      BY <2>1 DEF Inv, Good
  <2> HIDE DEF T
  <2>6. 1 \in 1 .. Len(T) /\ T[1] = Head(T) /\ 1 - 1 = 0
      BY <2>3, <2>4
  <2>7. Picked(T, input[s], 0, Incoming(s).id)
      BY <2>2, <2>4, <2>5, <2>6 DEF Selected
  <2>8. QED BY <2>7 DEF Picked
<1>3. QED BY <1>1, <1>2 DEF OutputOwnsBuffer, SelectedForInput

(* Whatever closes, fails, races or stalls, encoded data belongs to the output
   channel, which still serves the connection it was read from, and is decoded
   with the id of that channel selected, although control codes overtake it. *)
THEOREM FramingSafe == Spec => [](TypeOK /\ OutputOwnsBuffer /\ SelectedForInput)
<1>1. Inv => TypeOK
    BY DEF Inv
<1>2. QED BY <1>1, InitInv, StepInv, InvImplies, PTL DEF Spec

(* What is in the encode buffer was read from the channel that is selected for
   output, and that channel was not reused since. *)
THEOREM BufferOwned == Spec => []OutputOwnsBuffer
BY FramingSafe, PTL

-----------------------------------------------------------------------------
(* What is said in a sequence of messages, and in which order *)

(* One of the messages is in P. *)
Has(F, P) == \E i \in 1 .. Len(F) : F[i] \in P

(* Once one of them was in P, none is in Q. *)
Never(F, P, Q) ==
    \A i, j \in 1 .. Len(F) : i < j /\ F[i] \in P => F[j] \notin Q

(* None is in P before one was in Q. *)
Led(F, P, Q) ==
    \A i \in 1 .. Len(F) : F[i] \in P => \E j \in 1 .. i - 1 : F[j] \in Q

(* One is in P and those after it are not in Q. *)
Last(F, P, Q) ==
    \E i \in 1 .. Len(F) : F[i] \in P /\ \A j \in i + 1 .. Len(F) : F[j] \notin Q

(* G is F with m put in after its first n messages. *)
Put(F, m, n, G) ==
    /\ Len(G) = Len(F) + 1
    /\ G[n + 1] = m
    /\ \A i \in 1 .. n : G[i] = F[i]
    /\ \A i \in n + 1 .. Len(F) : G[i + 1] = F[i]

(* What is said is what was said and the message that was put in. *)
LEMMA PutHas ==
    ASSUME NEW F \in Seq(Message), NEW G \in Seq(Message), NEW m, NEW n \in 0 .. Len(F),
           Put(F, m, n, G), NEW P
    PROVE  Has(G, P) <=> Has(F, P) \/ m \in P
<1>1. Len(F) \in Nat /\ Len(G) = Len(F) + 1
    BY DEF Put
<1>2. ASSUME Has(G, P)
      PROVE  Has(F, P) \/ m \in P
  <2>1. PICK i \in 1 .. Len(G) : G[i] \in P
      BY <1>2 DEF Has
  <2>2. CASE i = n + 1
      BY <2>1, <2>2 DEF Put
  <2>3. CASE i <= n
      BY <1>1, <2>1, <2>3 DEF Put, Has
  <2>4. CASE i > n + 1
    <3>1. i - 1 \in n + 1 .. Len(F) /\ (i - 1) + 1 = i
        BY <1>1, <2>1, <2>4
    <3>2. F[i - 1] \in P /\ i - 1 \in 1 .. Len(F)
        BY <2>1, <3>1, <1>1 DEF Put
    <3>3. QED BY <3>2 DEF Has
  <2>5. QED BY <1>1, <2>2, <2>3, <2>4
<1>3. ASSUME Has(F, P)
      PROVE  Has(G, P)
  <2>1. PICK i \in 1 .. Len(F) : F[i] \in P
      BY <1>3 DEF Has
  <2>2. CASE i <= n
      BY <1>1, <2>1, <2>2 DEF Put, Has
  <2>3. CASE i > n
    <3>1. i \in n + 1 .. Len(F) /\ i + 1 \in 1 .. Len(G)
        BY <1>1, <2>1, <2>3
    <3>2. G[i + 1] \in P
        BY <2>1, <3>1 DEF Put
    <3>3. QED BY <3>1, <3>2 DEF Has
  <2>4. QED BY <1>1, <2>2, <2>3
<1>4. ASSUME m \in P
      PROVE  Has(G, P)
    BY <1>1, <1>4 DEF Put, Has
<1>5. QED BY <1>2, <1>3, <1>4

(* Where the messages of G come from. *)
LEMMA PutFrom ==
    ASSUME NEW F \in Seq(Message), NEW G \in Seq(Message), NEW m, NEW n \in 0 .. Len(F),
           Put(F, m, n, G), NEW i \in 1 .. Len(G)
    PROVE  \/ i <= n /\ i \in 1 .. Len(F) /\ G[i] = F[i]
           \/ i = n + 1 /\ G[i] = m
           \/ i > n + 1 /\ i - 1 \in n + 1 .. Len(F) /\ G[i] = F[i - 1]
<1>1. Len(F) \in Nat /\ Len(G) = Len(F) + 1
    BY DEF Put
<1>2. CASE i <= n
    BY <1>1, <1>2 DEF Put
<1>3. CASE i = n + 1
    BY <1>3 DEF Put
<1>4. CASE i > n + 1
  <2>1. i - 1 \in n + 1 .. Len(F) /\ (i - 1) + 1 = i
      BY <1>1, <1>4
  <2>2. G[(i - 1) + 1] = F[i - 1]
      BY <2>1 DEF Put
  <2>3. QED BY <1>4, <2>1, <2>2
<1>5. QED BY <1>1, <1>2, <1>3, <1>4

(* The message keeps the order if nothing before it forbids it, nor it what follows. *)
LEMMA PutNever ==
    ASSUME NEW F \in Seq(Message), NEW G \in Seq(Message), NEW m, NEW n \in 0 .. Len(F),
           Put(F, m, n, G), NEW P, NEW Q, Never(F, P, Q),
           m \in P => \A i \in n + 1 .. Len(F) : F[i] \notin Q,
           m \in Q => ~Has(F, P)
    PROVE  Never(G, P, Q)
<1> SUFFICES ASSUME NEW i \in 1 .. Len(G), NEW j \in 1 .. Len(G),
                    i < j, G[i] \in P, G[j] \in Q
             PROVE  FALSE
    BY DEF Never
<1>1. Len(F) \in Nat /\ n \in Nat
    OBVIOUS
<1>2. \/ i <= n /\ i \in 1 .. Len(F) /\ G[i] = F[i]
      \/ i = n + 1 /\ G[i] = m
      \/ i > n + 1 /\ i - 1 \in n + 1 .. Len(F) /\ G[i] = F[i - 1]
    BY PutFrom
<1>3. \/ j <= n /\ j \in 1 .. Len(F) /\ G[j] = F[j]
      \/ j = n + 1 /\ G[j] = m
      \/ j > n + 1 /\ j - 1 \in n + 1 .. Len(F) /\ G[j] = F[j - 1]
    BY PutFrom
<1>4. CASE i = n + 1
    BY <1>1, <1>2, <1>3, <1>4
<1>5. CASE j = n + 1
    BY <1>1, <1>2, <1>3, <1>5 DEF Has
<1>6. CASE i # n + 1 /\ j # n + 1
  <2> DEFINE a == IF i <= n THEN i ELSE i - 1
             b == IF j <= n THEN j ELSE j - 1
  <2>1. a \in 1 .. Len(F) /\ b \in 1 .. Len(F) /\ a < b /\ F[a] \in P /\ F[b] \in Q
      BY <1>1, <1>2, <1>3, <1>6
  <2> HIDE DEF a, b
  <2>2. QED BY <2>1 DEF Never
<1>7. QED BY <1>4, <1>5, <1>6

(* The message keeps the order if it follows what has to come first. *)
LEMMA PutLed ==
    ASSUME NEW F \in Seq(Message), NEW G \in Seq(Message), NEW m, NEW n \in 0 .. Len(F),
           Put(F, m, n, G), NEW P, NEW Q, Led(F, P, Q),
           m \in P => Has(F, Q),
           \A i \in n + 1 .. Len(F) : F[i] \notin Q
    PROVE  Led(G, P, Q)
<1> SUFFICES ASSUME NEW i \in 1 .. Len(G), G[i] \in P
             PROVE  \E j \in 1 .. i - 1 : G[j] \in Q
    BY DEF Led
<1>1. Len(F) \in Nat /\ n \in Nat /\ Len(G) = Len(F) + 1
    BY DEF Put
<1>2. \/ i <= n /\ i \in 1 .. Len(F) /\ G[i] = F[i]
      \/ i = n + 1 /\ G[i] = m
      \/ i > n + 1 /\ i - 1 \in n + 1 .. Len(F) /\ G[i] = F[i - 1]
    BY PutFrom
<1>3. ASSUME NEW a \in 1 .. Len(F), F[a] \in Q, a < i
      PROVE  \E j \in 1 .. i - 1 : G[j] \in Q
  <2>1. a \in 1 .. n
      BY <1>1, <1>3
  <2>2. G[a] \in Q /\ a \in 1 .. i - 1
      BY <1>1, <1>3, <2>1 DEF Put
  <2>3. QED BY <2>2
<1>4. CASE i <= n /\ i \in 1 .. Len(F) /\ G[i] = F[i]
  <2>1. PICK a \in 1 .. i - 1 : F[a] \in Q
      BY <1>4 DEF Led
  <2>2. a \in 1 .. Len(F) /\ a < i
      BY <1>1, <1>4
  <2>3. QED BY <1>3, <2>1, <2>2
<1>5. CASE i = n + 1 /\ G[i] = m
  <2>1. PICK a \in 1 .. Len(F) : F[a] \in Q
      BY <1>5 DEF Has
  <2>2. a < i
      BY <1>1, <1>5, <2>1
  <2>3. QED BY <1>3, <2>1, <2>2
<1>6. CASE i > n + 1 /\ i - 1 \in n + 1 .. Len(F) /\ G[i] = F[i - 1]
  <2>1. i - 1 \in 1 .. Len(F)
      BY <1>1, <1>6
  <2>2. PICK a \in 1 .. (i - 1) - 1 : F[a] \in Q
      BY <1>6, <2>1 DEF Led
  <2>3. a \in 1 .. Len(F) /\ a < i
      BY <1>1, <2>1
  <2>4. QED BY <1>3, <2>2, <2>3
<1>7. QED BY <1>2, <1>4, <1>5, <1>6

(* What is said last when the message is put in. *)
LEMMA PutLast ==
    ASSUME NEW F \in Seq(Message), NEW G \in Seq(Message), NEW m, NEW n \in 0 .. Len(F),
           Put(F, m, n, G), NEW P, NEW Q, P \subseteq Q,
           \A i \in n + 1 .. Len(F) : F[i] \notin Q
    PROVE  Last(G, P, Q) <=> IF m \in Q THEN m \in P ELSE Last(F, P, Q)
<1>1. Len(F) \in Nat /\ n \in Nat /\ Len(G) = Len(F) + 1
    BY DEF Put
<1>2. ASSUME NEW i \in 1 .. Len(G)
      PROVE  \/ i <= n /\ i \in 1 .. Len(F) /\ G[i] = F[i]
             \/ i = n + 1 /\ G[i] = m
             \/ i > n + 1 /\ i - 1 \in n + 1 .. Len(F) /\ G[i] = F[i - 1]
    BY PutFrom
<1>3. \A i \in n + 2 .. Len(G) : G[i] \notin Q
    BY <1>1, <1>2
<1>4. n + 1 \in 1 .. Len(G) /\ G[n + 1] = m
    BY <1>1 DEF Put
<1>5. CASE m \in Q
  <2>1. ASSUME m \in P
        PROVE  Last(G, P, Q)
      BY <1>1, <1>3, <1>4, <2>1 DEF Last
  <2>2. ASSUME Last(G, P, Q)
        PROVE  m \in P
    <3>1. PICK i \in 1 .. Len(G) :
              G[i] \in P /\ \A j \in i + 1 .. Len(G) : G[j] \notin Q
        BY <2>2 DEF Last
    <3>2. ~(i < n + 1)
        BY <1>1, <1>4, <1>5, <3>1
    <3>3. ~(i > n + 1)
        BY <1>1, <1>3, <3>1
    <3>4. i = n + 1
        BY <1>1, <3>2, <3>3
    <3>5. QED BY <1>4, <3>1, <3>4
  <2>3. QED BY <1>5, <2>1, <2>2
<1>6. CASE m \notin Q
  <2>1. ASSUME Last(F, P, Q)
        PROVE  Last(G, P, Q)
    <3>1. PICK i \in 1 .. Len(F) :
              F[i] \in P /\ \A j \in i + 1 .. Len(F) : F[j] \notin Q
        BY <2>1 DEF Last
    <3>2. i \in 1 .. n
        BY <1>1, <3>1
    <3>3. G[i] \in P /\ i \in 1 .. Len(G)
        BY <1>1, <3>1, <3>2 DEF Put
    <3>4. \A j \in i + 1 .. Len(G) : G[j] \notin Q
        BY <1>1, <1>2, <1>6, <3>1
    <3>5. QED BY <3>3, <3>4 DEF Last
  <2>2. ASSUME Last(G, P, Q)
        PROVE  Last(F, P, Q)
    <3>1. PICK i \in 1 .. Len(G) :
              G[i] \in P /\ \A j \in i + 1 .. Len(G) : G[j] \notin Q
        BY <2>2 DEF Last
    <3>2. i <= n
        BY <1>1, <1>3, <1>4, <1>6, <3>1
    <3>3. i \in 1 .. Len(F) /\ F[i] \in P
        BY <1>1, <3>1, <3>2 DEF Put
    <3>4. ASSUME NEW j \in i + 1 .. Len(F)
          PROVE  F[j] \notin Q
      <4>1. CASE j > n
          BY <1>1, <4>1
      <4>2. CASE j <= n
        <5>1. G[j] = F[j] /\ j \in i + 1 .. Len(G)
            BY <1>1, <3>3, <4>2 DEF Put
        <5>2. QED BY <3>1, <5>1
      <4>3. QED BY <1>1, <3>3, <4>1, <4>2
    <3>5. QED BY <3>3, <3>4 DEF Last
  <2>3. QED BY <1>6, <2>1, <2>2
<1>7. QED BY <1>5, <1>6

(* What is said is the first message and what follows it. *)
LEMMA TailHas ==
    ASSUME NEW F \in Seq(Message), F # << >>, NEW P
    PROVE  Has(F, P) <=> Has(Tail(F), P) \/ Head(F) \in P
<1> DEFINE G == Tail(F)
<1>1. /\ Len(F) \in Nat \ {0} /\ Len(G) = Len(F) - 1 /\ Head(F) = F[1]
      /\ \A i \in 1 .. Len(G) : G[i] = F[i + 1]
    BY HeadTailProperties
<1> HIDE DEF G
<1>2. ASSUME NEW i \in 1 .. Len(F), i # 1
      PROVE  i - 1 \in 1 .. Len(G) /\ G[i - 1] = F[i]
  <2>1. i - 1 \in 1 .. Len(G) /\ (i - 1) + 1 = i
      BY <1>1, <1>2
  <2>2. QED BY <1>1, <2>1
<1>3. \A i \in 1 .. Len(G) : i + 1 \in 1 .. Len(F)
    BY <1>1
<1>4. Has(F, P) => Has(G, P) \/ Head(F) \in P
    BY <1>1, <1>2 DEF Has
<1>5. Has(G, P) => Has(F, P)
    BY <1>1, <1>3 DEF Has
<1>6. Head(F) \in P => Has(F, P)
    BY <1>1 DEF Has
<1>7. QED BY <1>4, <1>5, <1>6 DEF G

(* The facts about the order of the messages, after the first is read. *)
LEMMA TailOrder ==
    ASSUME NEW F \in Seq(Message), F # << >>, NEW P, NEW Q
    PROVE  /\ Never(F, P, Q) => Never(Tail(F), P, Q)
           /\ Never(F, P, Q) /\ Head(F) \in P => ~Has(Tail(F), Q)
           /\ Led(F, P, Q) => Head(F) \notin P
           /\ Led(F, P, Q) /\ Head(F) \notin Q => Led(Tail(F), P, Q)
           /\ Has(Tail(F), Q) \/ Head(F) \notin Q
                  => (P \subseteq Q => (Last(F, P, Q) <=> Last(Tail(F), P, Q)))
           /\ ~Has(Tail(F), Q) /\ Head(F) \in Q /\ P \subseteq Q
                  => (Last(F, P, Q) <=> Head(F) \in P)
<1> DEFINE G == Tail(F)
<1>1. /\ Len(F) \in Nat \ {0} /\ Len(G) = Len(F) - 1 /\ Head(F) = F[1]
      /\ \A i \in 1 .. Len(G) : G[i] = F[i + 1]
    BY HeadTailProperties
<1> HIDE DEF G
<1>2. ASSUME NEW i \in 1 .. Len(F), i # 1
      PROVE  i - 1 \in 1 .. Len(G) /\ G[i - 1] = F[i]
  <2>1. i - 1 \in 1 .. Len(G) /\ (i - 1) + 1 = i
      BY <1>1, <1>2
  <2>2. QED BY <1>1, <2>1
<1>3. \A i \in 1 .. Len(G) : i + 1 \in 1 .. Len(F) /\ i + 1 # 1 /\ G[i] = F[i + 1]
    BY <1>1
<1>4. ASSUME Never(F, P, Q)
      PROVE  Never(G, P, Q)
  <2>1. SUFFICES ASSUME NEW i \in 1 .. Len(G), NEW j \in 1 .. Len(G), i < j, G[i] \in P
                 PROVE  G[j] \notin Q
      BY DEF Never
  <2>2. i + 1 < j + 1
      BY <1>1, <2>1
  <2>3. QED BY <1>3, <1>4, <2>1, <2>2 DEF Never
<1>5. ASSUME Never(F, P, Q), F[1] \in P
      PROVE  ~Has(G, Q)
  <2>1. SUFFICES ASSUME NEW i \in 1 .. Len(G), G[i] \in Q
                 PROVE  FALSE
      BY DEF Has
  <2>2. 1 < i + 1 /\ 1 \in 1 .. Len(F)
      BY <1>1, <2>1
  <2>3. QED BY <1>3, <1>5, <2>1, <2>2 DEF Never
<1>6. ASSUME Led(F, P, Q), F[1] \in P
      PROVE  FALSE
  <2>1. PICK j \in 1 .. 1 - 1 : F[j] \in Q
      BY <1>1, <1>6 DEF Led
  <2>2. QED BY <2>1
<1>7. ASSUME Led(F, P, Q), F[1] \notin Q
      PROVE  Led(G, P, Q)
  <2>1. SUFFICES ASSUME NEW i \in 1 .. Len(G), G[i] \in P
                 PROVE  \E j \in 1 .. i - 1 : G[j] \in Q
      BY DEF Led
  <2>2. PICK j \in 1 .. (i + 1) - 1 : F[j] \in Q
      BY <1>3, <1>7, <2>1 DEF Led
  <2>3. j \in 1 .. Len(F) /\ j # 1 /\ j - 1 \in 1 .. i - 1
      BY <1>1, <1>7, <2>1, <2>2
  <2>4. G[j - 1] \in Q
      BY <1>2, <2>2, <2>3
  <2>5. QED BY <2>3, <2>4
<1>8. ASSUME Last(G, P, Q)
      PROVE  Last(F, P, Q)
  <2>1. PICK i \in 1 .. Len(G) : G[i] \in P /\ \A j \in i + 1 .. Len(G) : G[j] \notin Q
      BY <1>8 DEF Last
  <2>2. i + 1 \in 1 .. Len(F) /\ F[i + 1] \in P
      BY <1>3, <2>1
  <2>3. ASSUME NEW j \in (i + 1) + 1 .. Len(F)
        PROVE  F[j] \notin Q
    <3>1. j \in 1 .. Len(F) /\ j # 1 /\ j - 1 \in i + 1 .. Len(G)
        BY <1>1, <2>2
    <3>2. QED BY <1>2, <2>1, <3>1
  <2>4. QED BY <2>2, <2>3 DEF Last
<1>9. ASSUME Last(F, P, Q), Has(G, Q) \/ F[1] \notin Q, P \subseteq Q
      PROVE  Last(G, P, Q)
  <2>1. PICK i \in 1 .. Len(F) : F[i] \in P /\ \A j \in i + 1 .. Len(F) : F[j] \notin Q
      BY <1>9 DEF Last
  <2>2. i # 1
    <3>1. ASSUME i = 1
          PROVE  FALSE
      <4>1. PICK j \in 1 .. Len(G) : G[j] \in Q
          BY <1>9, <2>1, <3>1 DEF Has
      <4>2. j + 1 \in 1 + 1 .. Len(F) /\ F[j + 1] \in Q
          BY <1>1, <1>3, <4>1
      <4>3. QED BY <2>1, <3>1, <4>2
    <3>2. QED BY <3>1
  <2>3. i - 1 \in 1 .. Len(G) /\ G[i - 1] \in P
      BY <1>2, <2>1, <2>2
  <2>4. ASSUME NEW j \in (i - 1) + 1 .. Len(G)
        PROVE  G[j] \notin Q
    <3>1. j \in 1 .. Len(G) /\ j + 1 \in i + 1 .. Len(F)
        BY <1>1, <2>1, <2>3
    <3>2. QED BY <1>3, <2>1, <3>1
  <2>5. QED BY <2>3, <2>4 DEF Last
<1>10. ASSUME ~Has(G, Q), F[1] \in Q, P \subseteq Q
       PROVE  Last(F, P, Q) <=> F[1] \in P
  <2>1. \A i \in 2 .. Len(F) : F[i] \notin Q
      BY <1>1, <1>2, <1>10 DEF Has
  <2>2. ASSUME Last(F, P, Q)
        PROVE  F[1] \in P
    <3>1. PICK i \in 1 .. Len(F) : F[i] \in P
        BY <2>2 DEF Last
    <3>2. QED BY <1>1, <1>10, <2>1, <3>1
  <2>3. ASSUME F[1] \in P
        PROVE  Last(F, P, Q)
      BY <1>1, <2>1, <2>3 DEF Last
  <2>4. QED BY <2>2, <2>3
<1>11. QED BY <1>1, <1>4, <1>5, <1>6, <1>7, <1>8, <1>9, <1>10 DEF G

-----------------------------------------------------------------------------
(* What is said of the connections that use an id *)

(* What is said of the connection k that uses, or has used, the id c. *)
About(c, k) == {m \in Message : m.id = c /\ m.conn = k /\ m.code # "switch"}
News(c, k) == {m \in About(c, k) : m.code = "new"}
Later(c, k) == {m \in About(c, k) : m.code # "new"}
Finishes(c, k) == {m \in About(c, k) : m.code = "finish"}
Drops(c, k) == {m \in About(c, k) : m.code = "drop"}
Ends(c, k) == {m \in About(c, k) : m.code \in {"finish", "drop"}}
Begins(c, k) == {m \in About(c, k) : m.code = "begin"}
Said(c, k) == {m \in About(c, k) : m.code \in {"begin", "end"}}

(* What is said of a kind is said of a larger one. *)
LEMMA HasSubset ==
    ASSUME NEW F, NEW P, NEW Q, P \subseteq Q
    PROVE  Has(F, P) => Has(F, Q)
BY DEF Has

(* The kinds that are parts of others. *)
LEMMA SaidSubsets ==
    ASSUME NEW F, NEW c, NEW k
    PROVE  /\ Has(F, News(c, k)) => Has(F, About(c, k))
           /\ Has(F, Later(c, k)) => Has(F, About(c, k))
           /\ Has(F, Finishes(c, k)) => Has(F, Ends(c, k))
           /\ Has(F, Drops(c, k)) => Has(F, Ends(c, k))
           /\ Has(F, Ends(c, k)) => Has(F, About(c, k))
           /\ Has(F, Said(c, k)) => Has(F, About(c, k))
           /\ Has(F, Ends(c, k)) => Has(F, Finishes(c, k)) \/ Has(F, Drops(c, k))
<1>1. /\ News(c, k) \subseteq About(c, k) /\ Later(c, k) \subseteq About(c, k)
      /\ Finishes(c, k) \subseteq Ends(c, k) /\ Drops(c, k) \subseteq Ends(c, k)
      /\ Ends(c, k) \subseteq About(c, k) /\ Said(c, k) \subseteq About(c, k)
    BY DEF News, Later, Finishes, Drops, Ends, Said
<1>2. Has(F, Ends(c, k)) => Has(F, Finishes(c, k)) \/ Has(F, Drops(c, k))
    BY DEF Has, Ends, Finishes, Drops
<1>3. QED BY <1>1, <1>2, HasSubset

(* The kinds of a message about the id c. *)
LEMMA Kinds ==
    ASSUME NEW m \in Message, NEW c, NEW k
    PROVE  /\ m \in About(c, k) <=> m.id = c /\ m.conn = k /\ m.code # "switch"
           /\ m \in News(c, k) <=> m.id = c /\ m.conn = k /\ m.code = "new"
           /\ m \in Later(c, k) <=> m.id = c /\ m.conn = k /\ m.code \notin {"switch", "new"}
           /\ m \in Finishes(c, k) <=> m.id = c /\ m.conn = k /\ m.code = "finish"
           /\ m \in Drops(c, k) <=> m.id = c /\ m.conn = k /\ m.code = "drop"
           /\ m \in Ends(c, k) <=> m.id = c /\ m.conn = k /\ m.code \in {"finish", "drop"}
           /\ m \in Begins(c, k) <=> m.id = c /\ m.conn = k /\ m.code = "begin"
           /\ m \in Said(c, k) <=> m.id = c /\ m.conn = k /\ m.code \in {"begin", "end"}
BY DEF About, News, Later, Finishes, Drops, Ends, Begins, Said

(* m is put into F in front of some of the data at the end of F. *)
Inserted(F, m, G) ==
    \E n \in 0 .. Len(F) :
        Put(F, m, n, G) /\ \A i \in n + 1 .. Len(F) : F[i].code = "data"

(* No data about c at the end of F is behind m. *)
Behind(F, m, G, c) ==
    \E n \in 0 .. Len(F) :
        /\ Put(F, m, n, G)
        /\ \A i \in n + 1 .. Len(F) : F[i].code = "data" /\ F[i].id # c

(* What is said when a message is inserted. *)
LEMMA InsertedHas ==
    ASSUME NEW F \in Seq(Message), NEW G \in Seq(Message), NEW m \in Message,
           Inserted(F, m, G), NEW c, NEW k
    PROVE  /\ Has(G, About(c, k)) <=> Has(F, About(c, k)) \/ m \in About(c, k)
           /\ Has(G, News(c, k)) <=> Has(F, News(c, k)) \/ m \in News(c, k)
           /\ Has(G, Finishes(c, k)) <=> Has(F, Finishes(c, k)) \/ m \in Finishes(c, k)
           /\ Has(G, Drops(c, k)) <=> Has(F, Drops(c, k)) \/ m \in Drops(c, k)
           /\ Has(G, Ends(c, k)) <=> Has(F, Ends(c, k)) \/ m \in Ends(c, k)
           /\ Has(G, Said(c, k)) <=> Has(F, Said(c, k)) \/ m \in Said(c, k)
<1>1. \A P : Has(G, P) <=> Has(F, P) \/ m \in P
    BY PutHas DEF Inserted
<1>2. QED BY <1>1

(* A connection is announced once if the message is not a second announcement. *)
LEMMA InsertedNews ==
    ASSUME NEW F \in Seq(Message), NEW G \in Seq(Message), NEW m \in Message,
           Inserted(F, m, G), NEW c, NEW k, Never(F, News(c, k), News(c, k)),
           m \in News(c, k) => ~Has(F, News(c, k))
    PROVE  Never(G, News(c, k), News(c, k))
<1>1. PICK n \in 0 .. Len(F) :
          Put(F, m, n, G) /\ \A i \in n + 1 .. Len(F) : F[i].code = "data"
    BY DEF Inserted
<1>2. \A i \in n + 1 .. Len(F) : F[i] \in Message
    OBVIOUS
<1>3. \A i \in n + 1 .. Len(F) : F[i] \notin News(c, k)
    BY <1>1, <1>2, Kinds
<1>4. QED BY <1>1, <1>3, PutNever

(* Nothing follows an end if the message does not, and is behind what it ends. *)
LEMMA InsertedEnds ==
    ASSUME NEW F \in Seq(Message), NEW G \in Seq(Message), NEW m \in Message,
           Inserted(F, m, G), NEW c, NEW k, Never(F, Ends(c, k), About(c, k)),
           m \in Ends(c, k) => Behind(F, m, G, c),
           m \in About(c, k) => ~Has(F, Ends(c, k))
    PROVE  Never(G, Ends(c, k), About(c, k))
<1>1. CASE m \in Ends(c, k)
  <2>1. PICK a \in 0 .. Len(F) :
            /\ Put(F, m, a, G)
            /\ \A i \in a + 1 .. Len(F) : F[i].code = "data" /\ F[i].id # c
      BY <1>1 DEF Behind
  <2>2. \A i \in a + 1 .. Len(F) : F[i] \notin About(c, k)
      BY <2>1 DEF About
  <2>3. QED BY <2>1, <2>2, PutNever
<1>2. CASE m \notin Ends(c, k)
    BY <1>2, PutNever DEF Inserted
<1>3. QED BY <1>1, <1>2

(* A connection is announced first if the message is about one that was. *)
LEMMA InsertedLater ==
    ASSUME NEW F \in Seq(Message), NEW G \in Seq(Message), NEW m \in Message,
           Inserted(F, m, G), NEW c, NEW k, Led(F, Later(c, k), News(c, k)),
           m \in Later(c, k) => Has(F, News(c, k))
    PROVE  Led(G, Later(c, k), News(c, k))
<1>1. PICK n \in 0 .. Len(F) :
          Put(F, m, n, G) /\ \A i \in n + 1 .. Len(F) : F[i].code = "data"
    BY DEF Inserted
<1>2. \A i \in n + 1 .. Len(F) : F[i] \in Message
    OBVIOUS
<1>3. \A i \in n + 1 .. Len(F) : F[i] \notin News(c, k)
    BY <1>1, <1>2, Kinds
<1>4. QED BY <1>1, <1>3, PutLed

(* The drop comes before the next connection if it was there first. *)
LEMMA InsertedNext ==
    ASSUME NEW F \in Seq(Message), NEW G \in Seq(Message), NEW m \in Message,
           Inserted(F, m, G), NEW c, NEW k, NEW l, Led(F, News(c, l), Drops(c, k)),
           m \in News(c, l) => Has(F, Drops(c, k))
    PROVE  Led(G, News(c, l), Drops(c, k))
<1>1. PICK n \in 0 .. Len(F) :
          Put(F, m, n, G) /\ \A i \in n + 1 .. Len(F) : F[i].code = "data"
    BY DEF Inserted
<1>2. \A i \in n + 1 .. Len(F) : F[i] \in Message
    OBVIOUS
<1>3. \A i \in n + 1 .. Len(F) : F[i] \notin Drops(c, k)
    BY <1>1, <1>2, Kinds
<1>4. QED BY <1>1, <1>3, PutLed

(* The congestion that is said last when a message is inserted. *)
LEMMA InsertedSaid ==
    ASSUME NEW F \in Seq(Message), NEW G \in Seq(Message), NEW m \in Message,
           Inserted(F, m, G), NEW c, NEW k
    PROVE  /\ Has(G, Said(c, k)) <=> Has(F, Said(c, k)) \/ m \in Said(c, k)
           /\ Last(G, Begins(c, k), Said(c, k)) <=>
                  IF m \in Said(c, k) THEN m \in Begins(c, k)
                  ELSE Last(F, Begins(c, k), Said(c, k))
<1>1. PICK n \in 0 .. Len(F) :
          Put(F, m, n, G) /\ \A i \in n + 1 .. Len(F) : F[i].code = "data"
    BY DEF Inserted
<1>2. \A i \in n + 1 .. Len(F) : F[i] \in Message
    OBVIOUS
<1>3. \A i \in n + 1 .. Len(F) : F[i] \notin Said(c, k)
    BY <1>1, <1>2, Kinds
<1>4. Begins(c, k) \subseteq Said(c, k)
    BY DEF Begins, Said
<1>5. QED BY <1>1, <1>3, <1>4, PutLast, InsertedHas

(* What was said when data or a congestion is added. *)
LEMMA TalkHas ==
    ASSUME NEW F \in Seq(Message), NEW G \in Seq(Message), NEW m \in Message,
           Inserted(F, m, G), NEW c, NEW k, m.id = c, m.code \in {"data", "begin", "end"}
    PROVE  /\ Has(G, About(c, k)) <=> Has(F, About(c, k)) \/ k = m.conn
           /\ Has(G, News(c, k)) <=> Has(F, News(c, k))
           /\ Has(G, Finishes(c, k)) <=> Has(F, Finishes(c, k))
           /\ Has(G, Drops(c, k)) <=> Has(F, Drops(c, k))
           /\ Has(G, Ends(c, k)) <=> Has(F, Ends(c, k))
BY InsertedHas, InsertedSaid, Kinds

(* What was said when the end of a connection is added. *)
LEMMA FinishHas ==
    ASSUME NEW F \in Seq(Message), NEW G \in Seq(Message), NEW m \in Message,
           Inserted(F, m, G), NEW c, NEW k, m.id = c, m.code = "finish"
    PROVE  /\ Has(G, About(c, k)) <=> Has(F, About(c, k)) \/ k = m.conn
           /\ Has(G, News(c, k)) <=> Has(F, News(c, k))
           /\ Has(G, Finishes(c, k)) <=> Has(F, Finishes(c, k)) \/ k = m.conn
           /\ Has(G, Drops(c, k)) <=> Has(F, Drops(c, k))
           /\ Has(G, Ends(c, k)) <=> Has(F, Ends(c, k)) \/ k = m.conn
           /\ Has(G, Said(c, k)) <=> Has(F, Said(c, k))
           /\ Last(G, Begins(c, k), Said(c, k)) <=> Last(F, Begins(c, k), Said(c, k))
BY InsertedHas, InsertedSaid, Kinds

(* What was said when the drop of a channel is added. *)
LEMMA DropHas ==
    ASSUME NEW F \in Seq(Message), NEW G \in Seq(Message), NEW m \in Message,
           Inserted(F, m, G), NEW c, NEW k, m.id = c, m.code = "drop"
    PROVE  /\ Has(G, About(c, k)) <=> Has(F, About(c, k)) \/ k = m.conn
           /\ Has(G, News(c, k)) <=> Has(F, News(c, k))
           /\ Has(G, Finishes(c, k)) <=> Has(F, Finishes(c, k))
           /\ Has(G, Drops(c, k)) <=> Has(F, Drops(c, k)) \/ k = m.conn
           /\ Has(G, Ends(c, k)) <=> Has(F, Ends(c, k)) \/ k = m.conn
           /\ Has(G, Said(c, k)) <=> Has(F, Said(c, k))
           /\ Last(G, Begins(c, k), Said(c, k)) <=> Last(F, Begins(c, k), Said(c, k))
BY InsertedHas, InsertedSaid, Kinds

(* What was said when a connection is announced. *)
LEMMA NewHas ==
    ASSUME NEW F \in Seq(Message), NEW G \in Seq(Message), NEW m \in Message,
           Inserted(F, m, G), NEW c, NEW k, m.id = c, m.code = "new"
    PROVE  /\ Has(G, About(c, k)) <=> Has(F, About(c, k)) \/ k = m.conn
           /\ Has(G, News(c, k)) <=> Has(F, News(c, k)) \/ k = m.conn
           /\ Has(G, Finishes(c, k)) <=> Has(F, Finishes(c, k))
           /\ Has(G, Drops(c, k)) <=> Has(F, Drops(c, k))
           /\ Has(G, Ends(c, k)) <=> Has(F, Ends(c, k))
           /\ Has(G, Said(c, k)) <=> Has(F, Said(c, k))
           /\ Last(G, Begins(c, k), Said(c, k)) <=> Last(F, Begins(c, k), Said(c, k))
BY InsertedHas, InsertedSaid, Kinds

(* What is said when the first message is read. *)
LEMMA TailKinds ==
    ASSUME NEW F \in Seq(Message), F # << >>, NEW c, NEW k
    PROVE  LET G == Tail(F)  m == Head(F) IN
           /\ Has(F, About(c, k)) <=> Has(G, About(c, k)) \/ m \in About(c, k)
           /\ Has(F, News(c, k)) <=> Has(G, News(c, k)) \/ m \in News(c, k)
           /\ Has(F, Finishes(c, k)) <=> Has(G, Finishes(c, k)) \/ m \in Finishes(c, k)
           /\ Has(F, Drops(c, k)) <=> Has(G, Drops(c, k)) \/ m \in Drops(c, k)
           /\ Has(F, Ends(c, k)) <=> Has(G, Ends(c, k)) \/ m \in Ends(c, k)
           /\ Has(F, Said(c, k)) <=> Has(G, Said(c, k)) \/ m \in Said(c, k)
<1>1. \A P : Has(F, P) <=> Has(Tail(F), P) \/ Head(F) \in P
    BY TailHas
<1>2. QED BY <1>1

(* A connection is announced once, though the first message is read. *)
LEMMA TailNews ==
    ASSUME NEW F \in Seq(Message), F # << >>, NEW c, NEW k,
           Never(F, News(c, k), News(c, k))
    PROVE  /\ Never(Tail(F), News(c, k), News(c, k))
           /\ Head(F) \in News(c, k) => ~Has(Tail(F), News(c, k))
BY TailOrder

(* Nothing follows the end of a connection that is read. *)
LEMMA TailEnds ==
    ASSUME NEW F \in Seq(Message), F # << >>, NEW c, NEW k,
           Never(F, Ends(c, k), About(c, k))
    PROVE  /\ Never(Tail(F), Ends(c, k), About(c, k))
           /\ Head(F) \in Ends(c, k) => ~Has(Tail(F), About(c, k))
BY TailOrder

(* What is read about a connection is its announcement first. *)
LEMMA TailLater ==
    ASSUME NEW F \in Seq(Message), F # << >>, NEW c, NEW k,
           Led(F, Later(c, k), News(c, k))
    PROVE  /\ Head(F) \notin Later(c, k)
           /\ Head(F) \notin News(c, k) => Led(Tail(F), Later(c, k), News(c, k))
BY TailOrder

(* What is read is the drop first, then the next connection. *)
LEMMA TailNext ==
    ASSUME NEW F \in Seq(Message), F # << >>, NEW c, NEW k, NEW l,
           Led(F, News(c, l), Drops(c, k))
    PROVE  /\ Head(F) \notin News(c, l)
           /\ Head(F) \notin Drops(c, k) => Led(Tail(F), News(c, l), Drops(c, k))
BY TailOrder

(* The congestion that is said last when the first message is read. *)
LEMMA TailSaid ==
    ASSUME NEW F \in Seq(Message), F # << >>, NEW c, NEW k
    PROVE  LET G == Tail(F)  m == Head(F) IN
           Last(F, Begins(c, k), Said(c, k)) <=>
               IF Has(G, Said(c, k)) \/ m \notin Said(c, k)
               THEN Last(G, Begins(c, k), Said(c, k)) ELSE m \in Begins(c, k)
<1>1. Begins(c, k) \subseteq Said(c, k)
    BY DEF Begins, Said
<1>2. CASE Has(Tail(F), Said(c, k)) \/ Head(F) \notin Said(c, k)
    BY <1>1, <1>2, TailOrder
<1>3. CASE ~(Has(Tail(F), Said(c, k)) \/ Head(F) \notin Said(c, k))
    BY <1>1, <1>3, TailOrder
<1>4. QED BY <1>2, <1>3

-----------------------------------------------------------------------------
(* The invariant: what the two proxies have and say of an id *)

(* Connections that close badly, or that are refused, come after those that do
   not; without it a late message about one of them can reach a later
   connection with the same id. *)
RudeLast == \A k \in Polite, r \in Conn \ Polite : k < r

(* The numbers of connections grow with time: what uses an id, or is said about
   it, is not later than the channel of the client proxy. *)
Numbered(c, F, h, o) ==
    /\ \A s \in Side : h[s].conn <= o
    /\ \A s \in Side, k \in Conn : Has(F[s], About(c, k)) => k <= o
    /\ h["client"] # None =>
           /\ h["server"].conn <= h["client"].conn
           /\ \A s \in Side, k \in Conn :
                  Has(F[s], About(c, k)) => k <= h["client"].conn

ClientOpens(c, F) == \A k \in Conn : ~Has(F["server"], News(c, k))

Unread(h, g) == \A s \in Side : h[s] = None => ~g[s]

(* Until the server proxy reads that a connection is new, it knows nothing of it. *)
Opening(c, k, F, h, g) ==
    /\ Never(F["client"], News(c, k), News(c, k))
    /\ Has(F["client"], News(c, k)) =>
           /\ h["client"].conn = k /\ h["server"].conn # k
           /\ ~Has(F["server"], About(c, k)) /\ ~g["client"]

(* Nothing follows the message that ends a connection. *)
Ended(c, k, s, F) == Never(F[s], Ends(c, k), About(c, k))

(* While a proxy uses a connection the other has it, or will. *)
Heard(c, k, s, F, h) ==
    h[s].conn = k /\ ~h[s].finish =>
        /\ ~Has(F[s], Ends(c, k))
        /\ h[Peer(s)].conn = k \/ Has(F[s], News(c, k))

(* A channel the peer has finished: the peer waits for it to be dropped. *)
Closing(c, k, s, F, h) ==
    h[s].conn = k /\ h[s].closing =>
        /\ h[Peer(s)].conn = k /\ h[Peer(s)].finish
        /\ ~h[Peer(s)].closing /\ ~h[Peer(s)].drop
        /\ h[s].finish /\ ~h[s].drop
        /\ ~Has(F[s], Ends(c, k)) /\ ~Has(F[Peer(s)], About(c, k))

(* A channel the peer has dropped: nothing is left of the connection elsewhere. *)
Dropped(c, k, s, F, h) ==
    h[s].conn = k /\ h[s].drop =>
        /\ h[s].finish /\ ~h[s].closing
        /\ h[Peer(s)].conn # k
        /\ ~Has(F[s], About(c, k)) /\ ~Has(F[Peer(s)], About(c, k))

(* The peer has still to be told that the channel is finished. *)
Finishing(c, k, s, F, h) ==
    Has(F[s], Finishes(c, k)) =>
        /\ h[s].conn = k /\ h[s].finish /\ ~h[s].closing /\ ~h[s].drop
        /\ ~Has(F[Peer(s)], Ends(c, k))
        /\ ~(h[Peer(s)].conn = k /\ h[Peer(s)].finish)

(* The peer has still to be told that the channel is gone. *)
Dropping(c, k, s, F, h) ==
    Has(F[s], Drops(c, k)) =>
        /\ h[s].conn # k
        /\ h[Peer(s)].conn = k /\ h[Peer(s)].finish
        /\ ~h[Peer(s)].closing /\ ~h[Peer(s)].drop
        /\ ~Has(F[Peer(s)], About(c, k))

(* What is said of a connection finds it, or follows its announcement. *)
Introduced(c, k, s, F, h) ==
    \/ h[Peer(s)].conn = k
    \/ k \notin Polite /\ h[Peer(s)].conn \notin Polite
    \/ Led(F[s], Later(c, k), News(c, k))

(* The server proxy gets rid of a connection before the next one with its id. *)
Succeeds(c, k, F, h) ==
    h["server"].conn = k =>
        /\ \A l \in Conn : k < l =>
               h["server"].drop \/ Led(F["client"], News(c, l), Drops(c, k))
        /\ h["client"].conn # k => h["server"].drop \/ Has(F["client"], Drops(c, k))
        /\ k < h["client"].conn => Has(F["client"], News(c, h["client"].conn))

(* What a proxy knows, or will, of the congestion of the peer's channel. *)
Pressed(c, k, s, F, h, g) ==
    h[s].conn = k /\ ~h[s].finish =>
        (h[s].congestion <=>
            IF Has(F[s], Said(c, k)) THEN Last(F[s], Begins(c, k), Said(c, k))
            ELSE h[Peer(s)].conn = k /\ g[Peer(s)])

Typed(F, h, g) ==
    /\ F \in [Side -> Seq(Message)]
    /\ h \in [Side -> Channel \cup {None}]
    /\ g \in [Side -> BOOLEAN]

Upheld(c, k, s, F, h, g) ==
    /\ Ended(c, k, s, F) /\ Heard(c, k, s, F, h) /\ Closing(c, k, s, F, h)
    /\ Dropped(c, k, s, F, h) /\ Finishing(c, k, s, F, h) /\ Dropping(c, k, s, F, h)
    /\ Pressed(c, k, s, F, h, g)

Sound(c, F, h, g, o) ==
    /\ Typed(F, h, g)
    /\ Numbered(c, F, h, o)
    /\ ClientOpens(c, F)
    /\ Unread(h, g)
    /\ \A k \in Polite : Opening(c, k, F, h, g) /\ Succeeds(c, k, F, h)
    /\ \A k \in Polite, s \in Side : Upheld(c, k, s, F, h, g)
    /\ \A k \in Conn, s \in Side : Introduced(c, k, s, F, h)

(* There are two proxies. *)
LEMMA Sides ==
    ASSUME NEW s \in Side
    PROVE  /\ Peer(s) \in Side /\ Peer(s) # s /\ Peer(Peer(s)) = s
           /\ Side = {s, Peer(s)}
           /\ "client" \in Side /\ "server" \in Side
           /\ Peer("client") = "server" /\ Peer("server") = "client"
           /\ s = "client" \/ s = "server"
BY DEF Side, Peer

(* Connections have numbers, and no channel has the number 0. *)
LEMMA PoliteType == Polite \subseteq Conn /\ Conn \subseteq Nat \ {0} /\ 0 \notin Conn
BY LimitAssumption DEF Polite, Conn

(* The parts of a channel, or of none. *)
LEMMA ChannelType ==
    ASSUME NEW x \in Channel \cup {None}
    PROVE  /\ x.conn \in Conn \cup {0} /\ x.conn \in Nat
           /\ x # None <=> x.conn \in Conn
           /\ x # None => x \in Channel
           /\ x # None => /\ x.finish \in BOOLEAN /\ x.closing \in BOOLEAN
                          /\ x.drop \in BOOLEAN /\ x.congestion \in BOOLEAN
<1>1. CASE x = None
    BY <1>1, NoneIsNoChannel, PoliteType
<1>2. CASE x # None
    BY <1>2, NoneIsNoChannel, PoliteType DEF Channel
<1>3. QED BY <1>1, <1>2

(* A proxy that has a channel may speak about it: the peer has the connection,
   or the announcement is on its way, or the peer has a rude connection or none
   for a rude one. *)
LEMMA SpeakerKnown ==
    ASSUME RudeLast, NEW c, NEW F, NEW h, NEW g, NEW o \in Nat, Sound(c, F, h, g, o),
           NEW s \in Side, NEW k \in Conn, h[s].conn = k,
           k \in Polite => h[Peer(s)].conn = k \/ Has(F[s], News(c, k))
    PROVE  \/ h[Peer(s)].conn = k
           \/ k \notin Polite /\ h[Peer(s)].conn \notin Polite
           \/ Has(F[s], News(c, k))
<1> DEFINE p == Peer(s)
<1>1. /\ p \in Side
      /\ \/ s = "client" /\ p = "server"
         \/ s = "server" /\ p = "client"
    BY Sides
<1>2. h[s] \in Channel \cup {None} /\ h[p] \in Channel \cup {None}
    BY <1>1 DEF Sound, Typed
<1> HIDE DEF p
<1>3. CASE k \notin Polite /\ h[p].conn \in Polite
  <2>1. h[p].conn \in Conn /\ h[p].conn < k
      BY <1>3, PoliteType DEF RudeLast
  <2>2. s = "client" /\ p = "server"
    <3>1. h["client"] # None => h["server"].conn <= h["client"].conn
        BY DEF Sound, Numbered
    <3>2. h[p] # None /\ ~(h[s].conn <= h[p].conn)
        BY <1>2, <2>1, ChannelType, PoliteType
    <3>3. QED BY <1>1, <3>1, <3>2
  <2>3. Has(F[s], News(c, k))
      BY <1>3, <2>1, <2>2 DEF Sound, Succeeds
  <2>4. QED BY <2>3
<1>4. QED BY <1>3 DEF p

(* Data, or news of a congestion, that a proxy adds about a connection in use. *)
LEMMA TalkSound ==
    ASSUME RudeLast, NEW c, NEW F, NEW h, NEW g, NEW o \in Nat, Sound(c, F, h, g, o),
           NEW s \in Side, h[s] # None, ~h[s].finish,
           NEW m \in Message, m.id = c, m.conn = h[s].conn,
           m.code \in {"data", "begin", "end"},
           NEW G \in Seq(Message), Inserted(F[s], m, G),
           NEW x \in Channel, x.conn = h[s].conn, x.finish = h[s].finish,
           x.closing = h[s].closing, x.drop = h[s].drop,
           m.code = "data" => x.congestion = h[s].congestion,
           m.code # "data" => (x.congestion <=> m.code = "begin"),
           NEW F2, NEW h2, Typed(F2, h2, g), F2[s] = G, h2[s] = x,
           F2[Peer(s)] = F[Peer(s)], h2[Peer(s)] = h[Peer(s)]
    PROVE  Sound(c, F2, h2, g, o)
<1> DEFINE p == Peer(s)
<1>1. /\ p \in Side /\ Peer(p) = s /\ p # s
      /\ \A r \in Side : r = s \/ r = p
      /\ \/ s = "client" /\ p = "server"
         \/ s = "server" /\ p = "client"
    BY Sides DEF p
<1>2. Typed(F, h, g)
    BY DEF Sound
<1>3. /\ F[s] \in Seq(Message) /\ F[p] \in Seq(Message)
      /\ h[s] \in Channel \cup {None} /\ h[p] \in Channel \cup {None}
      /\ F2[p] = F[p] /\ h2[p] = h[p]
    BY <1>1, <1>2 DEF Typed
<1>4. /\ h[s].conn \in Conn /\ h[s].conn \in Nat /\ h[p].conn \in Nat /\ x # None
      /\ h[p] # None <=> h[p].conn \in Conn
    BY <1>3, ChannelType, NoneIsNoChannel
<1> HIDE DEF p
<1>5. ASSUME NEW k
      PROVE  /\ Has(G, About(c, k)) <=> Has(F[s], About(c, k)) \/ k = h[s].conn
             /\ Has(G, News(c, k)) <=> Has(F[s], News(c, k))
             /\ Has(G, Finishes(c, k)) <=> Has(F[s], Finishes(c, k))
             /\ Has(G, Drops(c, k)) <=> Has(F[s], Drops(c, k))
             /\ Has(G, Ends(c, k)) <=> Has(F[s], Ends(c, k))
  <2>1. /\ Has(G, About(c, k)) <=> Has(F[s], About(c, k)) \/ k = m.conn
        /\ Has(G, News(c, k)) <=> Has(F[s], News(c, k))
        /\ Has(G, Finishes(c, k)) <=> Has(F[s], Finishes(c, k))
        /\ Has(G, Drops(c, k)) <=> Has(F[s], Drops(c, k))
        /\ Has(G, Ends(c, k)) <=> Has(F[s], Ends(c, k))
    <3>1. F[s] \in Seq(Message)
        BY <1>3
    <3>2. QED BY <3>1, TalkHas
  <2>2. QED BY <2>1
<1>6. Numbered(c, F2, h2, o)
  <2>1. Numbered(c, F, h, o)
      BY DEF Sound
  <2>2. \A r \in Side : h2[r].conn = h[r].conn /\ (h2[r] = None <=> h[r] = None)
      BY <1>1, <1>3, <1>4
  <2>3. \A r \in Side, k \in Conn :
            Has(F2[r], About(c, k)) => Has(F[r], About(c, k)) \/ k = h[s].conn
      BY <1>1, <1>3, <1>5
  <2>4. h["client"] # None => h[s].conn <= h["client"].conn
    <3>1. CASE s = "client"
        BY <1>4, <3>1
    <3>2. CASE s = "server"
        BY <2>1, <3>2 DEF Numbered
    <3>3. QED BY <1>1, <3>1, <3>2
  <2>5. QED BY <1>4, <2>1, <2>2, <2>3, <2>4, Sides DEF Numbered
<1>7. ClientOpens(c, F2)
    BY <1>1, <1>3, <1>5 DEF Sound, ClientOpens
<1>8. Unread(h2, g)
    BY <1>1, <1>3, <1>4 DEF Sound, Unread
<1>9. ASSUME NEW k \in Polite
      PROVE  Opening(c, k, F2, h2, g)
  <2>1. Opening(c, k, F, h, g)
      BY DEF Sound
  <2>2. Never(F[s], News(c, k), News(c, k)) => Never(G, News(c, k), News(c, k))
      BY <1>3, InsertedNews, Kinds
  <2>3. QED BY <1>1, <1>3, <1>5, <2>1, <2>2 DEF Opening
<1>10. ASSUME NEW k \in Polite
       PROVE  Succeeds(c, k, F2, h2)
  <2>1. Succeeds(c, k, F, h)
      BY DEF Sound
  <2>2. \A l \in Conn : Led(F[s], News(c, l), Drops(c, k)) => Led(G, News(c, l), Drops(c, k))
      BY <1>3, InsertedNext, Kinds
  <2>3. QED BY <1>1, <1>3, <1>5, <2>1, <2>2 DEF Succeeds
<1>11. ASSUME NEW k \in Polite
       PROVE  Upheld(c, k, s, F2, h2, g) /\ Upheld(c, k, p, F2, h2, g)
  <2>1. Upheld(c, k, s, F, h, g) /\ Upheld(c, k, p, F, h, g)
      BY <1>1 DEF Sound
  <2>2. k \in Conn
      BY PoliteType
  <2>3. Ended(c, k, s, F2) /\ Ended(c, k, p, F2)
    <3>1. h[s].conn = k => ~Has(F[s], Ends(c, k))
        BY <2>1 DEF Upheld, Heard
    <3>2. m \in About(c, k) => h[s].conn = k
        BY Kinds
    <3>3. m \notin Ends(c, k)
        BY Kinds
    <3>4. Never(F[s], Ends(c, k), About(c, k)) => Never(G, Ends(c, k), About(c, k))
        BY <1>3, <3>1, <3>2, <3>3, InsertedEnds
    <3>5. QED BY <1>3, <2>1, <3>4 DEF Upheld, Ended
  <2>4. Heard(c, k, s, F2, h2) /\ Heard(c, k, p, F2, h2)
      BY <1>1, <1>3, <1>5, <2>1 DEF Upheld, Heard, p
  <2>5. Closing(c, k, s, F2, h2) /\ Closing(c, k, p, F2, h2)
      BY <1>1, <1>3, <1>5, <2>1 DEF Upheld, Closing, p
  <2>6. Dropped(c, k, s, F2, h2) /\ Dropped(c, k, p, F2, h2)
      BY <1>1, <1>3, <1>5, <2>1 DEF Upheld, Dropped, p
  <2>7. Finishing(c, k, s, F2, h2) /\ Finishing(c, k, p, F2, h2)
      BY <1>1, <1>3, <1>5, <2>1 DEF Upheld, Finishing, p
  <2>8. Dropping(c, k, s, F2, h2) /\ Dropping(c, k, p, F2, h2)
      BY <1>1, <1>3, <1>5, <2>1 DEF Upheld, Dropping, p
  <2>9. Pressed(c, k, s, F2, h2, g) /\ Pressed(c, k, p, F2, h2, g)
    <3>1. /\ Has(G, Said(c, k)) <=> Has(F[s], Said(c, k)) \/ m \in Said(c, k)
          /\ Last(G, Begins(c, k), Said(c, k)) <=>
                 IF m \in Said(c, k) THEN m \in Begins(c, k)
                 ELSE Last(F[s], Begins(c, k), Said(c, k))
        BY <1>3, InsertedSaid
    <3>2. /\ m \in Said(c, k) <=> h[s].conn = k /\ m.code # "data"
          /\ m \in Begins(c, k) <=> h[s].conn = k /\ m.code = "begin"
        BY Kinds
    <3>3. Pressed(c, k, s, F2, h2, g)
        BY <1>3, <2>1, <3>1, <3>2 DEF Upheld, Pressed, p
    <3>4. Pressed(c, k, p, F2, h2, g)
        BY <1>1, <1>3, <2>1 DEF Upheld, Pressed, p
    <3>5. QED BY <3>3, <3>4
  <2>10. QED BY <2>3, <2>4, <2>5, <2>6, <2>7, <2>8, <2>9 DEF Upheld
<1>12. ASSUME NEW k \in Conn
       PROVE  Introduced(c, k, s, F2, h2) /\ Introduced(c, k, p, F2, h2)
  <2>1. Introduced(c, k, s, F, h) /\ Introduced(c, k, p, F, h)
      BY <1>1 DEF Sound
  <2>2. Introduced(c, k, p, F2, h2)
      BY <1>1, <1>3, <2>1 DEF Introduced, p
  <2>3. CASE h[s].conn # k
    <3>1. Led(F[s], Later(c, k), News(c, k)) => Led(G, Later(c, k), News(c, k))
        BY <1>3, <2>3, InsertedLater, Kinds
    <3>2. QED BY <1>3, <2>1, <2>2, <3>1 DEF Introduced, p
  <2>4. CASE h[s].conn = k
    <3>1. k \in Polite => h[p].conn = k \/ Has(F[s], News(c, k))
        BY <1>1, <2>4 DEF Sound, Upheld, Heard, p
    <3>2. \/ h[p].conn = k
          \/ k \notin Polite /\ h[p].conn \notin Polite
          \/ Has(F[s], News(c, k))
        BY <2>4, <3>1, SpeakerKnown DEF p
    <3>3. Has(F[s], News(c, k)) /\ Led(F[s], Later(c, k), News(c, k))
              => Led(G, Later(c, k), News(c, k))
        BY <1>3, InsertedLater
    <3>4. QED BY <1>3, <2>1, <2>2, <3>2, <3>3 DEF Introduced, p
  <2>5. QED BY <2>3, <2>4
<1>13. QED BY <1>1, <1>3, <1>6, <1>7, <1>8, <1>9, <1>10, <1>11, <1>12 DEF Sound

(* A connection is closed at one end. *)
LEMMA FinishedSound ==
    ASSUME RudeLast, NEW c, NEW F, NEW h, NEW g, NEW o \in Nat, Sound(c, F, h, g, o),
           NEW s \in Side, h[s] # None, ~h[s].finish,
           h[s].conn \in Polite => ~(h[Peer(s)].conn = h[s].conn /\ h[Peer(s)].finish),
           NEW m \in Message, m.id = c, m.conn = h[s].conn, m.code = "finish",
           NEW G \in Seq(Message), Inserted(F[s], m, G), Behind(F[s], m, G, c),
           NEW x \in Channel, x.conn = h[s].conn, x.finish,
           x.closing = h[s].closing, x.drop = h[s].drop,
           NEW F2, NEW h2, Typed(F2, h2, g), F2[s] = G, h2[s] = x,
           F2[Peer(s)] = F[Peer(s)], h2[Peer(s)] = h[Peer(s)]
    PROVE  Sound(c, F2, h2, g, o)
<1> DEFINE p == Peer(s)
<1>1. /\ p \in Side /\ Peer(p) = s /\ p # s
      /\ \A r \in Side : r = s \/ r = p
      /\ \/ s = "client" /\ p = "server"
         \/ s = "server" /\ p = "client"
    BY Sides DEF p
<1>2. F[s] \in Seq(Message)
    BY DEF Sound, Typed
<1>3. /\ h[s] \in Channel \cup {None} /\ h[p] \in Channel \cup {None}
      /\ F2[p] = F[p] /\ h2[p] = h[p]
    BY <1>1 DEF Sound, Typed
<1>4. /\ h[s].conn \in Conn /\ h[s].conn \in Nat /\ h[p].conn \in Nat /\ x # None
      /\ h[p] # None <=> h[p].conn \in Conn
    BY <1>3, ChannelType, NoneIsNoChannel
<1> HIDE DEF p
<1>5. ASSUME NEW k
      PROVE  /\ Has(G, About(c, k)) <=> Has(F[s], About(c, k)) \/ k = h[s].conn
             /\ Has(G, News(c, k)) <=> Has(F[s], News(c, k))
             /\ Has(G, Finishes(c, k)) <=> Has(F[s], Finishes(c, k)) \/ k = h[s].conn
             /\ Has(G, Drops(c, k)) <=> Has(F[s], Drops(c, k))
             /\ Has(G, Ends(c, k)) <=> Has(F[s], Ends(c, k)) \/ k = h[s].conn
             /\ Has(G, Said(c, k)) <=> Has(F[s], Said(c, k))
             /\ Last(G, Begins(c, k), Said(c, k)) <=> Last(F[s], Begins(c, k), Said(c, k))
  <2>1. /\ Has(G, About(c, k)) <=> Has(F[s], About(c, k)) \/ k = m.conn
        /\ Has(G, News(c, k)) <=> Has(F[s], News(c, k))
        /\ Has(G, Finishes(c, k)) <=> Has(F[s], Finishes(c, k)) \/ k = m.conn
        /\ Has(G, Drops(c, k)) <=> Has(F[s], Drops(c, k))
        /\ Has(G, Ends(c, k)) <=> Has(F[s], Ends(c, k)) \/ k = m.conn
        /\ Has(G, Said(c, k)) <=> Has(F[s], Said(c, k))
        /\ Last(G, Begins(c, k), Said(c, k)) <=> Last(F[s], Begins(c, k), Said(c, k))
      BY <1>2, FinishHas
  <2>2. QED BY <2>1
<1>6. Numbered(c, F2, h2, o)
  <2>1. Numbered(c, F, h, o)
      BY DEF Sound
  <2>2. \A r \in Side : h2[r].conn = h[r].conn /\ (h2[r] = None <=> h[r] = None)
      BY <1>1, <1>3, <1>4
  <2>3. \A r \in Side, k \in Conn :
            Has(F2[r], About(c, k)) => Has(F[r], About(c, k)) \/ k = h[s].conn
      BY <1>1, <1>3, <1>5
  <2>4. h["client"] # None => h[s].conn <= h["client"].conn
    <3>1. CASE s = "client"
        BY <1>4, <3>1
    <3>2. CASE s = "server"
        BY <2>1, <3>2 DEF Numbered
    <3>3. QED BY <1>1, <3>1, <3>2
  <2>5. QED BY <1>4, <2>1, <2>2, <2>3, <2>4, Sides DEF Numbered
<1>7. ClientOpens(c, F2)
    BY <1>1, <1>3, <1>5 DEF Sound, ClientOpens
<1>8. Unread(h2, g)
    BY <1>1, <1>3, <1>4 DEF Sound, Unread
<1>9. ASSUME NEW k \in Polite
      PROVE  Opening(c, k, F2, h2, g)
  <2>1. Opening(c, k, F, h, g)
      BY DEF Sound
  <2>2. Never(F[s], News(c, k), News(c, k)) => Never(G, News(c, k), News(c, k))
      BY <1>2, InsertedNews, Kinds
  <2>3. QED BY <1>1, <1>3, <1>5, <2>1, <2>2 DEF Opening
<1>10. ASSUME NEW k \in Polite
       PROVE  Succeeds(c, k, F2, h2)
  <2>1. Succeeds(c, k, F, h)
      BY DEF Sound
  <2>2. \A l \in Conn : Led(F[s], News(c, l), Drops(c, k)) => Led(G, News(c, l), Drops(c, k))
      BY <1>2, InsertedNext, Kinds
  <2>3. QED BY <1>1, <1>3, <1>5, <2>1, <2>2 DEF Succeeds
<1>11. ASSUME NEW k \in Polite
       PROVE  Upheld(c, k, s, F2, h2, g) /\ Upheld(c, k, p, F2, h2, g)
  <2>1. Upheld(c, k, s, F, h, g) /\ Upheld(c, k, p, F, h, g)
      BY <1>1 DEF Sound
  <2>3. Ended(c, k, s, F2) /\ Ended(c, k, p, F2)
    <3>1. h[s].conn = k => ~Has(F[s], Ends(c, k))
        BY <2>1 DEF Upheld, Heard
    <3>2. m \in About(c, k) => h[s].conn = k
        BY Kinds
    <3>4. Never(F[s], Ends(c, k), About(c, k)) => Never(G, Ends(c, k), About(c, k))
        BY <1>2, <3>1, <3>2, InsertedEnds
    <3>5. QED BY <1>3, <2>1, <3>4 DEF Upheld, Ended
  <2>4. Heard(c, k, s, F2, h2) /\ Heard(c, k, p, F2, h2)
      BY <1>1, <1>3, <1>5, <2>1 DEF Upheld, Heard, p
  <2>5. Closing(c, k, s, F2, h2) /\ Closing(c, k, p, F2, h2)
      BY <1>1, <1>3, <1>5, <2>1 DEF Upheld, Closing, p
  <2>6. Dropped(c, k, s, F2, h2) /\ Dropped(c, k, p, F2, h2)
      BY <1>1, <1>3, <1>5, <2>1 DEF Upheld, Dropped, p
  <2>7. Finishing(c, k, s, F2, h2) /\ Finishing(c, k, p, F2, h2)
    <3>1. h[s].conn = k => ~Has(F[p], Ends(c, k))
      <4>1. h[s].conn = k => ~Has(F[p], Finishes(c, k)) /\ ~Has(F[p], Drops(c, k))
          BY <1>1, <2>1 DEF Upheld, Finishing, Dropping, p
      <4>2. QED BY <4>1, SaidSubsets
    <3>2. Finishing(c, k, s, F2, h2)
        BY <1>1, <1>3, <1>5, <2>1, <3>1 DEF Upheld, Finishing, Closing, Dropped, p
    <3>3. Finishing(c, k, p, F2, h2)
        BY <1>1, <1>3, <1>5, <2>1, <3>1 DEF Upheld, Finishing, p
    <3>4. QED BY <3>2, <3>3
  <2>8. Dropping(c, k, s, F2, h2) /\ Dropping(c, k, p, F2, h2)
      BY <1>1, <1>3, <1>5, <2>1 DEF Upheld, Dropping, p
  <2>9. Pressed(c, k, s, F2, h2, g) /\ Pressed(c, k, p, F2, h2, g)
      BY <1>1, <1>3, <2>1 DEF Upheld, Pressed, p
  <2>10. QED BY <2>3, <2>4, <2>5, <2>6, <2>7, <2>8, <2>9 DEF Upheld
<1>12. ASSUME NEW k \in Conn
       PROVE  Introduced(c, k, s, F2, h2) /\ Introduced(c, k, p, F2, h2)
  <2>1. Introduced(c, k, s, F, h) /\ Introduced(c, k, p, F, h)
      BY <1>1 DEF Sound
  <2>2. Introduced(c, k, p, F2, h2)
      BY <1>1, <1>3, <2>1 DEF Introduced, p
  <2>3. CASE h[s].conn # k
    <3>1. Led(F[s], Later(c, k), News(c, k)) => Led(G, Later(c, k), News(c, k))
        BY <1>2, <2>3, InsertedLater, Kinds
    <3>2. QED BY <1>3, <2>1, <2>2, <3>1 DEF Introduced, p
  <2>4. CASE h[s].conn = k
    <3>1. k \in Polite => h[p].conn = k \/ Has(F[s], News(c, k))
        BY <1>1, <2>4 DEF Sound, Upheld, Heard, p
    <3>2. \/ h[p].conn = k
          \/ k \notin Polite /\ h[p].conn \notin Polite
          \/ Has(F[s], News(c, k))
        BY <2>4, <3>1, SpeakerKnown DEF p
    <3>3. Has(F[s], News(c, k)) /\ Led(F[s], Later(c, k), News(c, k))
              => Led(G, Later(c, k), News(c, k))
        BY <1>2, InsertedLater
    <3>4. QED BY <1>3, <2>1, <2>2, <3>2, <3>3 DEF Introduced, p
  <2>5. QED BY <2>3, <2>4
<1>13. QED BY <1>1, <1>6, <1>7, <1>8, <1>9, <1>10, <1>11, <1>12 DEF Sound

(* Of what is never said nothing comes too early. *)
LEMMA SilentLed ==
    ASSUME NEW F, NEW P, NEW Q, ~Has(F, P)
    PROVE  Led(F, P, Q)
BY DEF Has, Led

(* What is said in G, which is F with the drop of the connection l. *)
DropAdds(F, G, c, k, l) ==
    /\ Has(G, About(c, k)) <=> Has(F, About(c, k)) \/ k = l
    /\ Has(G, News(c, k)) <=> Has(F, News(c, k))
    /\ Has(G, Finishes(c, k)) <=> Has(F, Finishes(c, k))
    /\ Has(G, Drops(c, k)) <=> Has(F, Drops(c, k)) \/ k = l
    /\ Has(G, Ends(c, k)) <=> Has(F, Ends(c, k)) \/ k = l
    /\ Has(G, Said(c, k)) <=> Has(F, Said(c, k))
    /\ Last(G, Begins(c, k), Said(c, k)) <=> Last(F, Begins(c, k), Said(c, k))

(* A drop adds to what is said nothing but itself. *)
LEMMA DropAdded ==
    ASSUME NEW F \in Seq(Message), NEW G \in Seq(Message), NEW m \in Message,
           Inserted(F, m, G), NEW c, NEW k, m.id = c, m.code = "drop"
    PROVE  DropAdds(F, G, c, k, m.conn)
BY DropHas DEF DropAdds

(* A channel marked by the remote goes away; if it was closed there, the remote
   is told. *)
LEMMA RemoveSound ==
    ASSUME RudeLast, NEW c, NEW F, NEW h, NEW g, NEW o \in Nat, Sound(c, F, h, g, o),
           NEW s \in Side, h[s] # None, h[s].closing \/ h[s].drop,
           NEW m \in Message, m.id = c, m.conn = h[s].conn, m.code = "drop",
           NEW G \in Seq(Message),
           h[s].closing => Inserted(F[s], m, G) /\ Behind(F[s], m, G, c),
           ~h[s].closing => G = F[s],
           NEW F2, NEW h2, NEW g2, Typed(F2, h2, g2),
           F2[s] = G, h2[s] = None, ~g2[s],
           F2[Peer(s)] = F[Peer(s)], h2[Peer(s)] = h[Peer(s)], g2[Peer(s)] = g[Peer(s)]
    PROVE  Sound(c, F2, h2, g2, o)
<1> DEFINE p == Peer(s)
<1>1. /\ p \in Side /\ Peer(p) = s /\ p # s
      /\ \A r \in Side : r = s \/ r = p
      /\ \/ s = "client" /\ p = "server"
         \/ s = "server" /\ p = "client"
    BY Sides DEF p
<1>2. F[s] \in Seq(Message)
    BY DEF Sound, Typed
<1>3. /\ h[s] \in Channel \cup {None} /\ h[p] \in Channel \cup {None}
      /\ F2[p] = F[p] /\ h2[p] = h[p] /\ g2[p] = g[p]
    BY <1>1 DEF Sound, Typed
<1>4. /\ h[s].conn \in Conn /\ h[s].conn \in Nat /\ h[p].conn \in Nat
      /\ h[p] # None <=> h[p].conn \in Conn
      /\ h2[s].conn = 0 /\ 0 \notin Conn /\ 0 \notin Polite /\ Polite \subseteq Conn
    BY <1>3, ChannelType, NoneIsNoChannel, PoliteType
<1> HIDE DEF p
<1>5. ASSUME NEW k
      PROVE  /\ Has(G, About(c, k)) <=>
                    Has(F[s], About(c, k)) \/ (h[s].closing /\ k = h[s].conn)
             /\ Has(G, News(c, k)) <=> Has(F[s], News(c, k))
             /\ Has(G, Finishes(c, k)) <=> Has(F[s], Finishes(c, k))
             /\ Has(G, Drops(c, k)) <=>
                    Has(F[s], Drops(c, k)) \/ (h[s].closing /\ k = h[s].conn)
             /\ Has(G, Ends(c, k)) <=>
                    Has(F[s], Ends(c, k)) \/ (h[s].closing /\ k = h[s].conn)
             /\ Has(G, Said(c, k)) <=> Has(F[s], Said(c, k))
             /\ Last(G, Begins(c, k), Said(c, k)) <=> Last(F[s], Begins(c, k), Said(c, k))
  <2>1. CASE h[s].closing
    <3>1. Inserted(F[s], m, G)
        BY <2>1
    <3>2. DropAdds(F[s], G, c, k, m.conn)
        BY <1>2, <3>1, DropAdded
    <3>3. QED BY <2>1, <3>2 DEF DropAdds
  <2>2. CASE ~h[s].closing
      BY <2>2
  <2>3. QED BY <2>1, <2>2
<1>6. Numbered(c, F2, h2, o)
  <2>1. Numbered(c, F, h, o)
      BY DEF Sound
  <2>2. \A r \in Side, k \in Conn :
            Has(F2[r], About(c, k)) => Has(F[r], About(c, k)) \/ k = h[s].conn
      BY <1>1, <1>3, <1>5
  <2>3. \A r \in Side : h2[r].conn <= o
    <3>1. h[s].conn <= o /\ h[p].conn <= o /\ Has(F[s], About(c, h[s].conn)) => 0 <= o
        BY <1>4, <2>1 DEF Numbered
    <3>2. QED BY <1>1, <1>3, <1>4, <2>1 DEF Numbered
  <2>4. \A r \in Side, k \in Conn : Has(F2[r], About(c, k)) => k <= o
      BY <1>4, <2>1, <2>2 DEF Numbered
  <2>5. CASE s = "client"
      BY <2>3, <2>4, <2>5 DEF Numbered
  <2>6. CASE s = "server"
    <3>1. h2["client"] = h["client"] /\ h2["server"].conn = 0 /\ h["client"].conn \in Nat
        BY <1>1, <1>3, <1>4, <2>6
    <3>2. h["client"] # None => h[s].conn <= h["client"].conn
        BY <2>1, <2>6 DEF Numbered
    <3>3. h["client"] # None => \A r \in Side, k \in Conn :
              Has(F2[r], About(c, k)) => k <= h["client"].conn
        BY <2>1, <2>2, <3>2 DEF Numbered
    <3>4. QED BY <2>3, <2>4, <3>1, <3>3 DEF Numbered
  <2>7. QED BY <1>1, <2>5, <2>6
<1>7. ClientOpens(c, F2)
    BY <1>1, <1>3, <1>5 DEF Sound, ClientOpens
<1>8. Unread(h2, g2)
    BY <1>1, <1>3 DEF Sound, Unread
<1>9. ASSUME NEW k \in Polite
      PROVE  /\ Upheld(c, k, s, F, h, g) /\ Upheld(c, k, p, F, h, g)
             /\ h[s].conn = k /\ h[s].closing =>
                    /\ h[p].conn = k /\ h[p].finish /\ ~h[p].closing /\ ~h[p].drop
                    /\ h[s].finish /\ ~h[s].drop
                    /\ ~Has(F[s], Ends(c, k)) /\ ~Has(F[p], About(c, k))
             /\ h[s].conn = k /\ ~h[s].closing =>
                    /\ h[p].conn # k
                    /\ ~Has(F[s], About(c, k)) /\ ~Has(F[p], About(c, k))
  <2>1. Upheld(c, k, s, F, h, g) /\ Upheld(c, k, p, F, h, g)
      BY <1>1 DEF Sound
  <2>2. QED BY <2>1 DEF Upheld, Closing, Dropped, p
<1>10. ASSUME NEW k \in Polite
       PROVE  Opening(c, k, F2, h2, g2)
  <2>1. Opening(c, k, F, h, g)
      BY DEF Sound
  <2>2. Never(F[s], News(c, k), News(c, k)) => Never(G, News(c, k), News(c, k))
    <3>1. CASE h[s].closing
      <4>1. Inserted(F[s], m, G)
          BY <3>1
      <4>2. QED BY <1>2, <4>1, InsertedNews, Kinds
    <3>2. CASE ~h[s].closing
        BY <3>2
    <3>3. QED BY <3>1, <3>2
  <2>3. h[s].conn = k /\ s = "client" => ~Has(F[s], News(c, k))
    <3>1. h[s].conn = k /\ ~h[s].closing => ~Has(F[s], News(c, k))
        BY <1>9, SaidSubsets
    <3>2. h[s].conn = k /\ h[s].closing /\ s = "client" => ~Has(F[s], News(c, k))
        BY <1>1, <1>9, <2>1 DEF Opening
    <3>3. QED BY <3>1, <3>2
  <2>4. CASE s = "client"
      BY <1>1, <1>3, <1>5, <2>1, <2>2, <2>3, <2>4 DEF Opening
  <2>5. CASE s = "server"
    <3>1. Has(F2["client"], News(c, k)) => ~Has(F2["server"], About(c, k))
        BY <1>1, <1>3, <1>5, <2>1, <2>5 DEF Opening
    <3>2. QED BY <1>1, <1>3, <1>4, <2>1, <2>5, <3>1 DEF Opening
  <2>6. QED BY <1>1, <2>4, <2>5
<1>11. ASSUME NEW k \in Polite
       PROVE  Succeeds(c, k, F2, h2)
  <2>1. Succeeds(c, k, F, h)
      BY DEF Sound
  <2>2. CASE s = "server"
      BY <1>4, <2>2 DEF Succeeds
  <2>3. CASE s = "client"
    <3>1. ASSUME NEW l \in Conn, Led(F[s], News(c, l), Drops(c, k))
          PROVE  Led(G, News(c, l), Drops(c, k))
      <4>1. CASE h[s].closing
        <5>1. Inserted(F[s], m, G)
            BY <4>1
        <5>2. QED BY <1>2, <3>1, <5>1, InsertedNext, Kinds
      <4>2. CASE ~h[s].closing
          BY <3>1, <4>2
      <4>3. QED BY <4>1, <4>2
    <3>2. h[p].conn = k => h[p].drop \/ Has(G, Drops(c, k))
        BY <1>1, <1>5, <1>9, <2>1, <2>3 DEF Succeeds
    <3>3. ~(k < 0)
        BY PoliteType
    <3>4. QED BY <1>1, <1>3, <1>4, <2>1, <2>3, <3>1, <3>2, <3>3 DEF Succeeds
  <2>4. QED BY <1>1, <2>2, <2>3
<1>12. ASSUME NEW k \in Polite
       PROVE  Upheld(c, k, s, F2, h2, g2) /\ Upheld(c, k, p, F2, h2, g2)
  <2>1. Upheld(c, k, s, F, h, g) /\ Upheld(c, k, p, F, h, g)
      BY <1>1 DEF Sound
  <2>2. h2[s].conn # k
      BY <1>4
  <2>3. Ended(c, k, s, F2) /\ Ended(c, k, p, F2)
    <3>1. Never(F[s], Ends(c, k), About(c, k)) => Never(G, Ends(c, k), About(c, k))
      <4>1. CASE h[s].closing
        <5>1. Inserted(F[s], m, G) /\ Behind(F[s], m, G, c)
            BY <4>1
        <5>2. m \in About(c, k) => ~Has(F[s], Ends(c, k))
            BY <1>9, <4>1, Kinds
        <5>3. QED BY <1>2, <5>1, <5>2, InsertedEnds
      <4>2. CASE ~h[s].closing
          BY <4>2
      <4>3. QED BY <4>1, <4>2
    <3>2. QED BY <1>3, <2>1, <3>1 DEF Upheld, Ended
  <2>4. Heard(c, k, s, F2, h2) /\ Heard(c, k, p, F2, h2)
      BY <1>1, <1>3, <1>5, <1>9, <2>1, <2>2 DEF Upheld, Heard, p
  <2>5. Closing(c, k, s, F2, h2) /\ Closing(c, k, p, F2, h2)
      BY <1>1, <1>3, <1>5, <1>9, <2>1, <2>2 DEF Upheld, Closing, p
  <2>6. Dropped(c, k, s, F2, h2) /\ Dropped(c, k, p, F2, h2)
      BY <1>1, <1>3, <1>5, <1>9, <2>1, <2>2 DEF Upheld, Dropped, p
  <2>7. Finishing(c, k, s, F2, h2) /\ Finishing(c, k, p, F2, h2)
    <3>1. Has(F[s], Finishes(c, k)) => h[s].conn # k
      <4>1. Has(F[s], Finishes(c, k)) => Has(F[s], Ends(c, k)) /\ Has(F[s], About(c, k))
          BY SaidSubsets
      <4>2. QED BY <1>9, <4>1
    <3>2. Has(F[p], Finishes(c, k)) => h[s].conn # k
      <4>1. Has(F[p], Finishes(c, k)) => Has(F[p], About(c, k))
          BY SaidSubsets
      <4>2. QED BY <1>9, <4>1
    <3>3. QED BY <1>1, <1>3, <1>5, <2>1, <2>2, <3>1, <3>2 DEF Upheld, Finishing, p
  <2>8. Dropping(c, k, s, F2, h2) /\ Dropping(c, k, p, F2, h2)
    <3>1. Has(F[p], Drops(c, k)) => h[s].conn # k
      <4>1. Has(F[p], Drops(c, k)) => Has(F[p], About(c, k))
          BY SaidSubsets
      <4>2. QED BY <1>9, <4>1
    <3>2. Dropping(c, k, p, F2, h2)
        BY <1>1, <1>3, <1>5, <2>1, <2>2, <3>1 DEF Upheld, Dropping, p
    <3>3. Dropping(c, k, s, F2, h2)
        BY <1>1, <1>3, <1>5, <1>9, <2>1, <2>2 DEF Upheld, Dropping, p
    <3>4. QED BY <3>2, <3>3
  <2>9. Pressed(c, k, s, F2, h2, g2) /\ Pressed(c, k, p, F2, h2, g2)
    <3>1. h[p].conn = k /\ ~h[p].finish => h[s].conn # k
        BY <1>9
    <3>2. QED BY <1>1, <1>3, <2>1, <2>2, <3>1 DEF Upheld, Pressed, p
  <2>10. QED BY <2>3, <2>4, <2>5, <2>6, <2>7, <2>8, <2>9 DEF Upheld
<1>13. ASSUME NEW k \in Conn
       PROVE  Introduced(c, k, s, F2, h2) /\ Introduced(c, k, p, F2, h2)
  <2>1. Introduced(c, k, s, F, h) /\ Introduced(c, k, p, F, h)
      BY <1>1 DEF Sound
  <2>2. Introduced(c, k, p, F2, h2)
    <3>1. h[s].conn = k /\ k \in Polite => Led(F[p], Later(c, k), News(c, k))
      <4>1. h[s].conn = k /\ k \in Polite => ~Has(F[p], Later(c, k))
          BY <1>9, SaidSubsets
      <4>2. QED BY <4>1, SilentLed
    <3>2. QED BY <1>1, <1>3, <1>4, <2>1, <3>1 DEF Introduced, p
  <2>3. CASE ~h[s].closing
      BY <1>3, <2>1, <2>2, <2>3 DEF Introduced, p
  <2>4. CASE h[s].closing /\ h[s].conn # k
    <3>1. Inserted(F[s], m, G) /\ m \notin Later(c, k)
        BY <2>4, Kinds
    <3>2. Led(F[s], Later(c, k), News(c, k)) => Led(G, Later(c, k), News(c, k))
        BY <1>2, <3>1, InsertedLater
    <3>3. QED BY <1>3, <2>1, <2>2, <3>2 DEF Introduced, p
  <2>5. CASE h[s].closing /\ h[s].conn = k
    <3>1. k \in Polite => h[p].conn = k
        BY <1>9, <2>5
    <3>2. \/ h[p].conn = k
          \/ k \notin Polite /\ h[p].conn \notin Polite
          \/ Has(F[s], News(c, k))
        BY <2>5, <3>1, SpeakerKnown DEF p
    <3>3. Has(F[s], News(c, k)) /\ Led(F[s], Later(c, k), News(c, k))
              => Led(G, Later(c, k), News(c, k))
      <4>1. Inserted(F[s], m, G)
          BY <2>5
      <4>2. QED BY <1>2, <4>1, InsertedLater
    <3>4. QED BY <1>3, <2>1, <2>2, <3>2, <3>3 DEF Introduced, p
  <2>6. QED BY <2>3, <2>4, <2>5
<1>14. QED BY <1>1, <1>6, <1>7, <1>8, <1>10, <1>11, <1>12, <1>13 DEF Sound

NewAdds(F, G, c, k, l) ==
    /\ Has(G, About(c, k)) <=> Has(F, About(c, k)) \/ k = l
    /\ Has(G, News(c, k)) <=> Has(F, News(c, k)) \/ k = l
    /\ Has(G, Finishes(c, k)) <=> Has(F, Finishes(c, k))
    /\ Has(G, Drops(c, k)) <=> Has(F, Drops(c, k))
    /\ Has(G, Ends(c, k)) <=> Has(F, Ends(c, k))
    /\ Has(G, Said(c, k)) <=> Has(F, Said(c, k))
    /\ Last(G, Begins(c, k), Said(c, k)) <=> Last(F, Begins(c, k), Said(c, k))

(* An announcement adds to what is said nothing but itself. *)
LEMMA NewAdded ==
    ASSUME NEW F \in Seq(Message), NEW G \in Seq(Message), NEW m \in Message,
           Inserted(F, m, G), NEW c, NEW k, m.id = c, m.code = "new"
    PROVE  NewAdds(F, G, c, k, m.conn)
BY NewHas DEF NewAdds

(* The client proxy accepts a connection, with the next number. *)
LEMMA AcceptedSound ==
    ASSUME RudeLast, NEW c, NEW F, NEW h, NEW g, NEW o \in Nat, Sound(c, F, h, g, o),
           h["client"] = None, o + 1 \in Conn,
           NEW m \in Message, m.id = c, m.conn = o + 1, m.code = "new",
           NEW G \in Seq(Message), Inserted(F["client"], m, G),
           NEW x \in Channel, x.conn = o + 1, ~x.finish, ~x.closing, ~x.drop, ~x.congestion,
           NEW F2, NEW h2, Typed(F2, h2, g), F2["client"] = G, h2["client"] = x,
           F2["server"] = F["server"], h2["server"] = h["server"]
    PROVE  Sound(c, F2, h2, g, o + 1)
<1> DEFINE A == F["client"]
           B == F["server"]
           y == h["server"]
<1>1. /\ \A r \in Side : r = "client" \/ r = "server"
      /\ "client" \in Side /\ "server" \in Side
      /\ Peer("client") = "server" /\ Peer("server") = "client"
    BY DEF Side, Peer
<1>2. A \in Seq(Message) /\ B \in Seq(Message)
    BY <1>1 DEF Sound, Typed
<1>3. h["server"] \in Channel \cup {None}
    BY <1>1 DEF Sound, Typed
<1>4. /\ h["server"].conn \in Nat /\ x # None /\ h["client"].conn = 0
      /\ h["server"] # None <=> h["server"].conn \in Conn
      /\ 0 \notin Conn /\ 0 \notin Polite /\ Polite \subseteq Conn /\ Conn \subseteq Nat
    BY <1>3, ChannelType, NoneIsNoChannel, PoliteType
<1>5. /\ \A s \in Side : h[s].conn <= o
      /\ \A s \in Side, k \in Conn : Has(F[s], About(c, k)) => k <= o
    BY DEF Sound, Numbered
<1>6. y.conn <= o /\ y.conn # o + 1
    BY <1>1, <1>4, <1>5
<1>7. ~Has(A, About(c, o + 1)) /\ ~Has(B, About(c, o + 1))
    BY <1>1, <1>5
<1>8. ASSUME NEW k
      PROVE  /\ NewAdds(A, G, c, k, o + 1)
             /\ Has(G, About(c, k)) <=> Has(A, About(c, k)) \/ k = o + 1
             /\ Has(G, News(c, k)) <=> Has(A, News(c, k)) \/ k = o + 1
             /\ Has(G, Finishes(c, k)) <=> Has(A, Finishes(c, k))
             /\ Has(G, Drops(c, k)) <=> Has(A, Drops(c, k))
             /\ Has(G, Ends(c, k)) <=> Has(A, Ends(c, k))
             /\ Has(G, Said(c, k)) <=> Has(A, Said(c, k))
  <2>1. NewAdds(A, G, c, k, m.conn)
      BY <1>2, NewAdded
  <2>2. QED BY <2>1 DEF NewAdds
<1>9. Numbered(c, F2, h2, o + 1)
  <2>1. \A s \in Side : h2[s].conn <= o + 1
      BY <1>1, <1>4, <1>6
  <2>2. \A s \in Side, k \in Conn : Has(F2[s], About(c, k)) => k <= o + 1
      BY <1>1, <1>4, <1>5, <1>8
  <2>3. QED BY <2>1, <2>2, <1>4, <1>6 DEF Numbered
<1>10. ClientOpens(c, F2)
    BY DEF Sound, ClientOpens
<1>11. Unread(h2, g) /\ ~g["client"]
    BY <1>1, <1>4 DEF Sound, Unread
<1>12. ASSUME NEW k \in Polite
       PROVE  Opening(c, k, F2, h2, g)
  <2>1. Opening(c, k, F, h, g)
      BY DEF Sound
  <2>2. Never(A, News(c, k), News(c, k)) => Never(G, News(c, k), News(c, k))
    <3>1. m \in News(c, k) => ~Has(A, News(c, k))
        BY <1>7, Kinds, SaidSubsets
    <3>2. QED BY <1>2, <3>1, InsertedNews
  <2>3. ~Has(A, News(c, k))
      BY <1>4, <2>1 DEF Opening
  <2>4. QED BY <1>6, <1>7, <1>8, <1>11, <2>1, <2>2, <2>3 DEF Opening
<1>13. ASSUME NEW k \in Polite
       PROVE  Succeeds(c, k, F2, h2)
  <2>1. Succeeds(c, k, F, h)
      BY DEF Sound
  <2>2. y.conn = k => y.drop \/ Has(A, Drops(c, k))
      BY <1>4, <2>1 DEF Succeeds
  <2>3. ASSUME NEW l \in Conn, Led(A, News(c, l), Drops(c, k)), Has(A, Drops(c, k))
        PROVE  Led(G, News(c, l), Drops(c, k))
      BY <1>2, <2>3, InsertedNext
  <2>4. QED BY <1>6, <1>8, <2>1, <2>2, <2>3 DEF Succeeds
<1>14. ASSUME NEW k \in Polite
       PROVE  Upheld(c, k, "client", F2, h2, g) /\ Upheld(c, k, "server", F2, h2, g)
  <2>1. Upheld(c, k, "client", F, h, g) /\ Upheld(c, k, "server", F, h, g)
      BY <1>1 DEF Sound
  <2>2. h["client"].conn # k /\ k \in Conn
      BY <1>4
  <2>3. ~Has(B, News(c, k))
      BY <2>2 DEF Sound, ClientOpens
  <2>4. Ended(c, k, "client", F2) /\ Ended(c, k, "server", F2)
    <3>1. m \in About(c, k) => ~Has(A, Ends(c, k))
        BY <1>7, Kinds, SaidSubsets
    <3>2. m \notin Ends(c, k)
        BY Kinds
    <3>3. Never(A, Ends(c, k), About(c, k)) => Never(G, Ends(c, k), About(c, k))
        BY <1>2, <3>1, <3>2, InsertedEnds
    <3>4. QED BY <2>1, <3>3 DEF Upheld, Ended
  <2>5. y.conn = k => y.finish /\ ~y.closing
      BY <1>1, <2>1, <2>2, <2>3 DEF Upheld, Heard, Closing
  <2>6. Heard(c, k, "client", F2, h2) /\ Heard(c, k, "server", F2, h2)
    <3>1. ~Has(A, Ends(c, o + 1))
        BY <1>7, SaidSubsets
    <3>2. QED BY <1>1, <1>8, <2>5, <3>1 DEF Heard
  <2>7. Closing(c, k, "client", F2, h2) /\ Closing(c, k, "server", F2, h2)
      BY <1>1, <2>5 DEF Closing
  <2>8. Dropped(c, k, "client", F2, h2) /\ Dropped(c, k, "server", F2, h2)
      BY <1>1, <1>6, <1>8, <2>1 DEF Upheld, Dropped
  <2>9. Finishing(c, k, "client", F2, h2) /\ Finishing(c, k, "server", F2, h2)
      BY <1>1, <1>8, <2>1, <2>2 DEF Upheld, Finishing
  <2>10. Dropping(c, k, "client", F2, h2) /\ Dropping(c, k, "server", F2, h2)
    <3>1. Has(A, Drops(c, k)) => k # o + 1
        BY <1>7, SaidSubsets
    <3>2. QED BY <1>1, <1>8, <2>1, <2>2, <3>1 DEF Upheld, Dropping
  <2>11. Pressed(c, k, "client", F2, h2, g) /\ Pressed(c, k, "server", F2, h2, g)
    <3>1. ~Has(A, Said(c, o + 1))
        BY <1>7, SaidSubsets
    <3>2. Pressed(c, k, "client", F2, h2, g)
        BY <1>1, <1>6, <1>8, <3>1 DEF Pressed
    <3>3. Pressed(c, k, "server", F2, h2, g)
        BY <2>5 DEF Pressed
    <3>4. QED BY <3>2, <3>3
  <2>12. QED BY <2>4, <2>6, <2>7, <2>8, <2>9, <2>10, <2>11 DEF Upheld
<1>15. ASSUME NEW k \in Conn
       PROVE  Introduced(c, k, "client", F2, h2) /\ Introduced(c, k, "server", F2, h2)
  <2>1. Introduced(c, k, "client", F, h) /\ Introduced(c, k, "server", F, h)
      BY <1>1 DEF Sound
  <2>2. Introduced(c, k, "client", F2, h2)
    <3>1. m \notin Later(c, k)
        BY Kinds
    <3>2. Led(A, Later(c, k), News(c, k)) => Led(G, Later(c, k), News(c, k))
        BY <1>2, <3>1, InsertedLater
    <3>3. QED BY <1>1, <2>1, <3>2 DEF Introduced
  <2>3. Introduced(c, k, "server", F2, h2)
    <3>1. CASE Has(B, About(c, k)) /\ k \notin Polite
      <4>1. k <= o /\ k \in Nat /\ ~(o + 1 < k)
          BY <1>1, <1>4, <1>5, <3>1
      <4>2. o + 1 \notin Polite
          BY <3>1, <4>1 DEF RudeLast
      <4>3. QED BY <1>1, <3>1, <4>2 DEF Introduced
    <3>2. CASE ~Has(B, About(c, k))
      <4>1. Led(B, Later(c, k), News(c, k))
          BY <3>2, SaidSubsets, SilentLed
      <4>2. QED BY <4>1 DEF Introduced
    <3>3. CASE k \in Polite
        BY <1>1, <1>4, <2>1, <3>3 DEF Introduced
    <3>4. QED BY <3>1, <3>2, <3>3
  <2>4. QED BY <2>2, <2>3
<1>16. QED BY <1>1, <1>9, <1>10, <1>11, <1>12, <1>13, <1>14, <1>15 DEF Sound

-----------------------------------------------------------------------------
(* What reading a message finds and leaves *)

(* What was said in F, and is in T, which is F without its first message m. *)
Reads(F, T, m, c, k) ==
    /\ Has(F, About(c, k)) <=> Has(T, About(c, k)) \/ m.conn = k
    /\ Has(F, News(c, k)) <=> Has(T, News(c, k)) \/ (m.conn = k /\ m.code = "new")
    /\ Has(F, Finishes(c, k)) <=> Has(T, Finishes(c, k)) \/ (m.conn = k /\ m.code = "finish")
    /\ Has(F, Drops(c, k)) <=> Has(T, Drops(c, k)) \/ (m.conn = k /\ m.code = "drop")
    /\ Has(F, Ends(c, k)) <=>
           Has(T, Ends(c, k)) \/ (m.conn = k /\ m.code \in {"finish", "drop"})
    /\ Has(F, Said(c, k)) <=>
           Has(T, Said(c, k)) \/ (m.conn = k /\ m.code \in {"begin", "end"})
    /\ Never(F, News(c, k), News(c, k)) =>
           /\ Never(T, News(c, k), News(c, k))
           /\ m.conn = k /\ m.code = "new" => ~Has(T, News(c, k))
    /\ Never(F, Ends(c, k), About(c, k)) =>
           /\ Never(T, Ends(c, k), About(c, k))
           /\ m.conn = k /\ m.code \in {"finish", "drop"} => ~Has(T, About(c, k))
    /\ Led(F, Later(c, k), News(c, k)) =>
           /\ m.conn = k => m.code = "new"
           /\ ~(m.conn = k /\ m.code = "new") => Led(T, Later(c, k), News(c, k))
    /\ Has(T, Said(c, k)) \/ ~(m.conn = k /\ m.code \in {"begin", "end"}) =>
           (Last(F, Begins(c, k), Said(c, k)) <=> Last(T, Begins(c, k), Said(c, k)))
    /\ ~Has(T, Said(c, k)) /\ m.conn = k /\ m.code \in {"begin", "end"} =>
           (Last(F, Begins(c, k), Said(c, k)) <=> m.code = "begin")

ReadsNext(F, T, m, c, k, l) ==
    Led(F, News(c, l), Drops(c, k)) =>
        /\ ~(m.conn = l /\ m.code = "new")
        /\ ~(m.conn = k /\ m.code = "drop") => Led(T, News(c, l), Drops(c, k))

(* What a message that is read leaves of what was said. *)
LEMMA ReadsTail ==
    ASSUME NEW F \in Seq(Message), F # << >>, NEW m \in Message, m = Head(F),
           NEW T, T = Tail(F),
           NEW c, NEW k, m.id = c, m.code # "switch"
    PROVE  Reads(F, T, m, c, k)
<1>1. /\ m \in About(c, k) <=> m.conn = k
      /\ m \in News(c, k) <=> m.conn = k /\ m.code = "new"
      /\ m \in Later(c, k) <=> m.conn = k /\ m.code # "new"
      /\ m \in Finishes(c, k) <=> m.conn = k /\ m.code = "finish"
      /\ m \in Drops(c, k) <=> m.conn = k /\ m.code = "drop"
      /\ m \in Ends(c, k) <=> m.conn = k /\ m.code \in {"finish", "drop"}
      /\ m \in Begins(c, k) <=> m.conn = k /\ m.code = "begin"
      /\ m \in Said(c, k) <=> m.conn = k /\ m.code \in {"begin", "end"}
    BY Kinds
<1>2. /\ Has(F, About(c, k)) <=> Has(T, About(c, k)) \/ m \in About(c, k)
      /\ Has(F, News(c, k)) <=> Has(T, News(c, k)) \/ m \in News(c, k)
      /\ Has(F, Finishes(c, k)) <=> Has(T, Finishes(c, k)) \/ m \in Finishes(c, k)
      /\ Has(F, Drops(c, k)) <=> Has(T, Drops(c, k)) \/ m \in Drops(c, k)
      /\ Has(F, Ends(c, k)) <=> Has(T, Ends(c, k)) \/ m \in Ends(c, k)
      /\ Has(F, Said(c, k)) <=> Has(T, Said(c, k)) \/ m \in Said(c, k)
    BY TailKinds
<1>3. Never(F, News(c, k), News(c, k)) =>
          /\ Never(T, News(c, k), News(c, k))
          /\ m \in News(c, k) => ~Has(T, News(c, k))
    BY TailNews
<1>4. Never(F, Ends(c, k), About(c, k)) =>
          /\ Never(T, Ends(c, k), About(c, k))
          /\ m \in Ends(c, k) => ~Has(T, About(c, k))
    BY TailEnds
<1>5. Led(F, Later(c, k), News(c, k)) =>
          /\ m \notin Later(c, k)
          /\ m \notin News(c, k) => Led(T, Later(c, k), News(c, k))
    BY TailLater
<1>6. Last(F, Begins(c, k), Said(c, k)) <=>
          IF Has(T, Said(c, k)) \/ m \notin Said(c, k)
          THEN Last(T, Begins(c, k), Said(c, k)) ELSE m \in Begins(c, k)
    BY TailSaid
<1>7. QED BY <1>1, <1>2, <1>3, <1>4, <1>5, <1>6 DEF Reads

(* What it leaves of the order of two connections. *)
LEMMA ReadsTailNext ==
    ASSUME NEW F \in Seq(Message), F # << >>, NEW m \in Message, m = Head(F),
           NEW T, T = Tail(F),
           NEW c, NEW k, NEW l, m.id = c, m.code # "switch"
    PROVE  ReadsNext(F, T, m, c, k, l)
<1>1. /\ m \in News(c, l) <=> m.conn = l /\ m.code = "new"
      /\ m \in Drops(c, k) <=> m.conn = k /\ m.code = "drop"
    BY Kinds
<1>2. Led(F, News(c, l), Drops(c, k)) =>
          /\ m \notin News(c, l)
          /\ m \notin Drops(c, k) => Led(T, News(c, l), Drops(c, k))
    BY TailNext
<1>3. QED BY <1>1, <1>2 DEF ReadsNext

(* What is read about an id finds the connection it is about, if that one, or
   the one that is found, is polite. *)
LEMMA Finds ==
    ASSUME NEW c, NEW F, NEW h, NEW g, NEW o \in Nat, Sound(c, F, h, g, o),
           NEW s \in Side, F[Peer(s)] # << >>,
           NEW m \in Message, m = Head(F[Peer(s)]), m.id = c,
           m.code \notin {"switch", "new"}
    PROVE  h[s].conn = m.conn \/ (m.conn \notin Polite /\ h[s].conn \notin Polite)
<1>1. Peer(s) \in Side /\ Peer(Peer(s)) = s
    BY Sides
<1>2. F[Peer(s)] \in Seq(Message) /\ m.conn \in Conn
    BY <1>1 DEF Sound, Typed, Message, Code, Data
<1>3. Introduced(c, m.conn, Peer(s), F, h)
    BY <1>1, <1>2 DEF Sound
<1>4. Reads(F[Peer(s)], Tail(F[Peer(s)]), m, c, m.conn)
    BY <1>2, ReadsTail
<1>5. ~Led(F[Peer(s)], Later(c, m.conn), News(c, m.conn))
    BY <1>4 DEF Reads
<1>6. QED BY <1>1, <1>3, <1>5 DEF Introduced

(* A new connection that finds its id in use is not polite, nor the other. *)
LEMMA NewFinds ==
    ASSUME RudeLast, NEW c, NEW F, NEW h, NEW g, NEW o \in Nat, Sound(c, F, h, g, o),
           F["client"] # << >>,
           NEW m \in Message, m = Head(F["client"]), m.id = c, m.code = "new",
           h["server"] # None, ~h["server"].drop
    PROVE  m.conn \notin Polite /\ h["server"].conn \notin Polite
<1>1. /\ F["client"] \in Seq(Message) /\ m.conn \in Conn
      /\ h["server"] \in Channel \cup {None} /\ h["client"] \in Channel \cup {None}
    BY DEF Sound, Typed, Message, Code, Data, Side
<1>2. h["server"].conn \in Conn /\ Conn \subseteq Nat /\ Polite \subseteq Conn
    BY <1>1, ChannelType, PoliteType
<1>3. Has(F["client"], News(c, m.conn))
  <2>1. Reads(F["client"], Tail(F["client"]), m, c, m.conn)
      BY <1>1, ReadsTail
  <2>2. QED BY <2>1 DEF Reads
<1>4. m.conn \in Polite => h["client"].conn = m.conn /\ h["server"].conn # m.conn
    BY <1>3 DEF Sound, Opening
<1>5. h["client"] # None => h["server"].conn <= h["client"].conn
    BY DEF Sound, Numbered
<1>6. m.conn \in Polite => h["server"].conn < m.conn
  <2>1. m.conn \in Polite => h["client"] # None
      BY <1>1, <1>2, <1>4, ChannelType
  <2>2. m.conn \in Polite => h["server"].conn <= m.conn /\ h["server"].conn # m.conn
      BY <1>4, <1>5, <2>1
  <2> DEFINE a == h["server"].conn
             b == m.conn
  <2>3. a \in Nat /\ b \in Nat /\ (b \in Polite => a <= b /\ a # b)
      BY <1>1, <1>2, <2>2
  <2> HIDE DEF a, b
  <2>4. b \in Polite => a < b
      BY <2>3
  <2>5. QED BY <2>4 DEF a, b
<1>7. h["server"].conn \in Polite => ~(h["server"].conn < m.conn)
  <2> SUFFICES ASSUME h["server"].conn \in Polite, h["server"].conn < m.conn
               PROVE  FALSE
      OBVIOUS
  <2>1. Led(F["client"], News(c, m.conn), Drops(c, h["server"].conn))
      BY <1>1 DEF Sound, Succeeds
  <2>2. ReadsNext(F["client"], Tail(F["client"]), m, c, h["server"].conn, m.conn)
      BY <1>1, ReadsTailNext
  <2>3. QED BY <2>1, <2>2 DEF ReadsNext
<1> DEFINE a == h["server"].conn
           b == m.conn
<1>8. a \in Conn /\ b \in Conn /\ (b \in Polite => a < b) /\ (a \in Polite => ~(a < b))
    BY <1>1, <1>2, <1>6, <1>7
<1> HIDE DEF a, b
<1>9. /\ a \in Nat /\ b \in Nat
      /\ a \in Polite /\ b \notin Polite => a < b
      /\ b \in Polite /\ a \notin Polite => b < a
    BY <1>2, <1>8 DEF RudeLast
<1>10. a \notin Polite /\ b \notin Polite
    BY <1>8, <1>9
<1>11. QED BY <1>10 DEF a, b

(* A message is read that says nothing, of a polite connection, but that it is
   congested: data, a message for a channel that is gone or, from a connection
   that is refused, the news that it exists. *)
LEMMA ReadSound ==
    ASSUME NEW c, NEW F, NEW h, NEW g, NEW o \in Nat, Sound(c, F, h, g, o),
           NEW s \in Side, F[Peer(s)] # << >>,
           NEW m \in Message, m = Head(F[Peer(s)]), m.id = c, m.code # "switch",
           m.code = "new" => m.conn \notin Polite /\ h[s].conn \notin Polite,
           m.code \in {"finish", "drop"} => h[s] = None,
           NEW F2, NEW g2, Typed(F2, h, g2),
           F2[Peer(s)] = Tail(F[Peer(s)]), F2[s] = F[s],
           m.code \notin {"begin", "end"} => g2[s] = g[s],
           m.code \in {"begin", "end"} /\ h[s] = None => ~g2[s],
           m.code \in {"begin", "end"} /\ h[s] # None => (g2[s] <=> m.code = "begin"),
           g2[Peer(s)] = g[Peer(s)]
    PROVE  Sound(c, F2, h, g2, o)
<1> DEFINE p == Peer(s)
           T == F2[p]
<1>1. /\ p \in Side /\ Peer(p) = s /\ p # s
      /\ \A r \in Side : r = s \/ r = p
      /\ \/ s = "client" /\ p = "server"
         \/ s = "server" /\ p = "client"
    BY Sides DEF p
<1>2. F[p] \in Seq(Message)
    BY <1>1 DEF Sound, Typed
<1>3. F2[s] = F[s] /\ g2[p] = g[p] /\ m.conn \in Conn /\ 0 \notin Polite /\ Polite \subseteq Conn
    BY PoliteType DEF Message, Code, Data
<1>4. h[s].conn = m.conn \/ (m.conn \notin Polite /\ h[s].conn \notin Polite)
  <2>1. CASE m.code = "new"
      BY <2>1
  <2>2. CASE m.code # "new"
      BY <2>2, Finds
  <2>3. QED BY <2>1, <2>2
<1>5. h[s] # None <=> h[s].conn \in Conn
    BY ChannelType DEF Sound, Typed
<1>6. ASSUME NEW k
      PROVE  Reads(F[p], T, m, c, k)
    BY <1>2, ReadsTail
<1> HIDE DEF p, T
<1>7. ASSUME NEW k \in Polite
      PROVE  /\ m.conn = k => m.code \in {"data", "begin", "end"}
             /\ m.conn = k <=> h[s].conn = k
    BY <1>3, <1>4, <1>5, NoneIsNoChannel DEF Message, Code, Data
<1>8. F2[p] = T
    BY DEF T
<1>9. Numbered(c, F2, h, o)
  <2>1. Numbered(c, F, h, o)
      BY DEF Sound
  <2>2. \A r \in Side, k \in Conn : Has(F2[r], About(c, k)) => Has(F[r], About(c, k))
      BY <1>1, <1>3, <1>6, <1>8 DEF Reads
  <2>3. QED BY <2>1, <2>2 DEF Numbered
<1>10. ClientOpens(c, F2)
    BY <1>1, <1>3, <1>6, <1>8 DEF Sound, ClientOpens, Reads
<1>11. Unread(h, g2)
  <2>1. Unread(h, g)
      BY DEF Sound
  <2>2. h[s] = None => ~g2[s]
      BY <1>1, <2>1 DEF Unread
  <2>3. QED BY <1>1, <1>3, <2>1, <2>2 DEF Unread
<1>12. ASSUME NEW k \in Polite
       PROVE  Opening(c, k, F2, h, g2)
  <2>1. Opening(c, k, F, h, g)
      BY DEF Sound
  <2>2. CASE p = "client"
      BY <1>1, <1>3, <1>6, <1>8, <2>1, <2>2 DEF Opening, Reads
  <2>3. CASE p = "server"
    <3>1. s = "client"
        BY <1>1, <2>3
    <3>2. Has(F["client"], News(c, k)) => m.conn # k /\ h["client"].conn = k
        BY <1>6, <2>1, <2>3 DEF Opening, Reads
    <3>3. ~Has(F["client"], News(c, k))
        BY <1>7, <3>1, <3>2
    <3>4. QED BY <1>3, <2>1, <3>1, <3>3 DEF Opening
  <2>4. QED BY <1>1, <2>2, <2>3
<1>13. ASSUME NEW k \in Polite
       PROVE  Succeeds(c, k, F2, h)
  <2>1. Succeeds(c, k, F, h)
      BY DEF Sound
  <2>2. CASE p = "client" /\ h["server"].conn = k
    <3>1. m.code \in {"data", "begin", "end"}
        BY <1>1, <1>7, <2>2
    <3>2. ASSUME NEW l \in Conn, Led(F["client"], News(c, l), Drops(c, k))
          PROVE  Led(T, News(c, l), Drops(c, k))
      <4>1. ReadsNext(F[p], Tail(F[p]), m, c, k, l)
          BY <1>2, ReadsTailNext DEF p
      <4>2. QED BY <1>8, <2>2, <3>1, <3>2, <4>1 DEF ReadsNext, T, p
    <3>3. \A l : Has(F["client"], News(c, l)) <=> Has(T, News(c, l))
        BY <1>6, <2>2, <3>1 DEF Reads
    <3>4. Has(F["client"], Drops(c, k)) <=> Has(T, Drops(c, k))
        BY <1>6, <2>2, <3>1 DEF Reads
    <3>5. QED BY <1>8, <2>1, <2>2, <3>2, <3>3, <3>4 DEF Succeeds
  <2>3. CASE p = "server"
      BY <1>1, <1>3, <2>1, <2>3 DEF Succeeds
  <2>4. CASE h["server"].conn # k
      BY <2>4 DEF Succeeds
  <2>5. QED BY <1>1, <2>2, <2>3, <2>4
<1>14. ASSUME NEW k \in Polite
       PROVE  Upheld(c, k, s, F2, h, g2) /\ Upheld(c, k, p, F2, h, g2)
  <2>1. Upheld(c, k, s, F, h, g) /\ Upheld(c, k, p, F, h, g)
      BY <1>1 DEF Sound
  <2>2. Reads(F[p], T, m, c, k)
      BY <1>6
  <2>3. /\ Has(T, About(c, k)) => Has(F[p], About(c, k))
        /\ Has(F[p], News(c, k)) <=> Has(T, News(c, k))
        /\ Has(F[p], Finishes(c, k)) <=> Has(T, Finishes(c, k))
        /\ Has(F[p], Drops(c, k)) <=> Has(T, Drops(c, k))
        /\ Has(F[p], Ends(c, k)) <=> Has(T, Ends(c, k))
      BY <1>7, <2>2 DEF Reads
  <2>4. Ended(c, k, s, F2) /\ Ended(c, k, p, F2)
      BY <1>3, <1>8, <2>1, <2>2 DEF Upheld, Ended, Reads
  <2>5. Heard(c, k, s, F2, h) /\ Heard(c, k, p, F2, h)
      BY <1>1, <1>3, <1>8, <2>1, <2>3 DEF Upheld, Heard
  <2>6. Closing(c, k, s, F2, h) /\ Closing(c, k, p, F2, h)
      BY <1>1, <1>3, <1>8, <2>1, <2>3 DEF Upheld, Closing, p
  <2>7. Dropped(c, k, s, F2, h) /\ Dropped(c, k, p, F2, h)
      BY <1>1, <1>3, <1>8, <2>1, <2>3 DEF Upheld, Dropped, p
  <2>8. Finishing(c, k, s, F2, h) /\ Finishing(c, k, p, F2, h)
      BY <1>1, <1>3, <1>8, <2>1, <2>3 DEF Upheld, Finishing, p
  <2>9. Dropping(c, k, s, F2, h) /\ Dropping(c, k, p, F2, h)
      BY <1>1, <1>3, <1>8, <2>1, <2>3 DEF Upheld, Dropping, p
  <2>10. Pressed(c, k, s, F2, h, g2)
      BY <1>1, <1>3, <2>1 DEF Upheld, Pressed, p
  <2>11. Pressed(c, k, p, F2, h, g2)
    <3>1. Pressed(c, k, p, F, h, g)
        BY <2>1 DEF Upheld
    <3>2. CASE m.conn = k /\ m.code \in {"begin", "end"}
      <4>1. Has(F[p], Said(c, k))
          BY <2>2, <3>2 DEF Reads
      <4>2. h[s].conn = k /\ (g2[s] <=> m.code = "begin")
          BY <1>3, <1>5, <1>7, <3>2
      <4>3. CASE Has(T, Said(c, k))
          BY <1>1, <1>8, <2>2, <3>1, <4>1, <4>3 DEF Pressed, Reads
      <4>4. CASE ~Has(T, Said(c, k))
        <5>1. Last(F[p], Begins(c, k), Said(c, k)) <=> m.code = "begin"
            BY <2>2, <3>2, <4>4 DEF Reads
        <5>2. QED BY <1>1, <1>8, <3>1, <4>1, <4>2, <4>4, <5>1 DEF Pressed
      <4>5. QED BY <4>3, <4>4
    <3>3. CASE ~(m.conn = k /\ m.code \in {"begin", "end"})
      <4>1. /\ Has(F[p], Said(c, k)) <=> Has(T, Said(c, k))
            /\ Last(F[p], Begins(c, k), Said(c, k)) <=> Last(T, Begins(c, k), Said(c, k))
          BY <2>2, <3>3 DEF Reads
      <4>2. h[s].conn = k => g2[s] = g[s]
          BY <1>7, <3>3
      <4>3. QED BY <1>1, <1>8, <3>1, <4>1, <4>2 DEF Pressed
    <3>4. QED BY <3>2, <3>3
  <2>12. QED BY <2>4, <2>5, <2>6, <2>7, <2>8, <2>9, <2>10, <2>11 DEF Upheld
<1>15. ASSUME NEW k \in Conn
       PROVE  Introduced(c, k, s, F2, h) /\ Introduced(c, k, p, F2, h)
  <2>1. Introduced(c, k, s, F, h) /\ Introduced(c, k, p, F, h)
      BY <1>1 DEF Sound
  <2>2. Introduced(c, k, s, F2, h)
      BY <1>3, <2>1 DEF Introduced
  <2>3. CASE m.conn = k /\ m.code = "new"
      BY <1>1, <2>2, <2>3 DEF Introduced
  <2>4. CASE ~(m.conn = k /\ m.code = "new")
      BY <1>1, <1>6, <1>8, <2>1, <2>2, <2>4 DEF Introduced, Reads
  <2>5. QED BY <2>3, <2>4
<1>16. QED BY <1>1, <1>9, <1>10, <1>11, <1>12, <1>13, <1>14, <1>15 DEF Sound

(* The remote end of a connection was closed: the channel is marked. *)
LEMMA FinishReadSound ==
    ASSUME NEW c, NEW F, NEW h, NEW g, NEW o \in Nat, Sound(c, F, h, g, o),
           NEW s \in Side, F[Peer(s)] # << >>,
           NEW m \in Message, m = Head(F[Peer(s)]), m.id = c, m.code = "finish",
           h[s] # None,
           NEW x \in Channel, x.conn = h[s].conn, x.finish, x.closing, x.drop = h[s].drop,
           NEW F2, NEW h2, NEW g2, Typed(F2, h2, g2),
           F2[Peer(s)] = Tail(F[Peer(s)]), F2[s] = F[s],
           h2[Peer(s)] = h[Peer(s)], h2[s] = x, g2[Peer(s)] = g[Peer(s)], ~g2[s]
    PROVE  Sound(c, F2, h2, g2, o)
<1> DEFINE p == Peer(s)
           T == F2[p]
<1>1. /\ p \in Side /\ Peer(p) = s /\ p # s
      /\ \A r \in Side : r = s \/ r = p
      /\ \/ s = "client" /\ p = "server"
         \/ s = "server" /\ p = "client"
    BY Sides DEF p
<1>2. F[p] \in Seq(Message)
    BY <1>1 DEF Sound, Typed
<1>3. /\ F2[s] = F[s] /\ g2[p] = g[p] /\ h2[p] = h[p]
      /\ m.conn \in Conn /\ 0 \notin Polite /\ Polite \subseteq Conn
    BY PoliteType DEF Message, Code, Data
<1>4. h[s].conn = m.conn \/ (m.conn \notin Polite /\ h[s].conn \notin Polite)
    BY Finds
<1>5. /\ h[s].conn \in Conn /\ h2[s].conn = h[s].conn /\ h2[s] # None
    BY ChannelType, NoneIsNoChannel DEF Sound, Typed
<1>6. ASSUME NEW k
      PROVE  /\ Reads(F[p], T, m, c, k)
             /\ Has(T, About(c, k)) => Has(F[p], About(c, k))
             /\ Has(F[p], News(c, k)) <=> Has(T, News(c, k))
             /\ Has(T, Finishes(c, k)) => Has(F[p], Finishes(c, k))
             /\ Has(F[p], Drops(c, k)) <=> Has(T, Drops(c, k))
             /\ Has(T, Ends(c, k)) => Has(F[p], Ends(c, k))
             /\ Has(F[p], Said(c, k)) <=> Has(T, Said(c, k))
             /\ Last(F[p], Begins(c, k), Said(c, k)) <=> Last(T, Begins(c, k), Said(c, k))
  <2>1. Reads(F[p], T, m, c, k)
      BY <1>2, ReadsTail
  <2>2. QED BY <2>1 DEF Reads
<1> HIDE DEF p, T
<1>7. F2[p] = T
    BY DEF T
<1>8. ASSUME NEW k \in Polite
      PROVE  /\ Upheld(c, k, s, F, h, g) /\ Upheld(c, k, p, F, h, g)
             /\ m.conn = k <=> h[s].conn = k
             /\ h[s].conn = k =>
                    /\ h[p].conn = k /\ h[p].finish /\ ~h[p].closing /\ ~h[p].drop
                    /\ ~h[s].finish /\ ~h[s].drop
                    /\ ~Has(F[s], Ends(c, k)) /\ ~Has(T, About(c, k))
                    /\ Has(F[p], Ends(c, k)) /\ Has(F[p], About(c, k))
  <2>1. Upheld(c, k, s, F, h, g) /\ Upheld(c, k, p, F, h, g)
      BY <1>1 DEF Sound
  <2>2. m.conn = k <=> h[s].conn = k
      BY <1>3, <1>4
  <2>3. CASE m.conn = k
    <3>1. /\ Has(F[p], Finishes(c, k)) /\ Has(F[p], Ends(c, k)) /\ Has(F[p], About(c, k))
        BY <1>6, <2>3 DEF Reads
    <3>2. ~Has(T, About(c, k))
        BY <1>6, <2>1, <2>3 DEF Reads, Upheld, Ended
    <3>3. /\ h[p].conn = k /\ h[p].finish /\ ~h[p].closing /\ ~h[p].drop
          /\ ~Has(F[s], Ends(c, k)) /\ ~h[s].finish
        BY <1>1, <2>1, <2>2, <2>3, <3>1 DEF Upheld, Finishing
    <3>4. ~h[s].drop
        BY <2>1, <2>2, <2>3, <3>3 DEF Upheld, Dropped
    <3>5. QED BY <2>1, <2>2, <3>1, <3>2, <3>3, <3>4
  <2>4. QED BY <2>1, <2>2, <2>3
<1>9. Numbered(c, F2, h2, o)
  <2>1. Numbered(c, F, h, o)
      BY DEF Sound
  <2>2. \A r \in Side, k \in Conn : Has(F2[r], About(c, k)) => Has(F[r], About(c, k))
      BY <1>1, <1>3, <1>6, <1>7
  <2>3. \A r \in Side : h2[r].conn = h[r].conn
      BY <1>1, <1>3, <1>5
  <2>4. h2["client"] # None => h["client"] # None
      BY <1>1, <1>3
  <2>5. "client" \in Side /\ "server" \in Side
      BY <1>1
  <2>6. QED BY <2>1, <2>2, <2>3, <2>4, <2>5 DEF Numbered
<1>10. ClientOpens(c, F2)
    BY <1>1, <1>3, <1>6, <1>7 DEF Sound, ClientOpens
<1>11. Unread(h2, g2)
    BY <1>1, <1>3, <1>5 DEF Sound, Unread
<1>12. ASSUME NEW k \in Polite
       PROVE  Opening(c, k, F2, h2, g2)
  <2>1. Opening(c, k, F, h, g)
      BY DEF Sound
  <2>2. CASE p = "client"
      BY <1>1, <1>3, <1>5, <1>6, <1>7, <2>1, <2>2 DEF Opening, Reads
  <2>3. CASE p = "server"
      BY <1>1, <1>3, <1>5, <1>6, <1>7, <2>1, <2>3 DEF Opening
  <2>4. QED BY <1>1, <2>2, <2>3
<1>13. ASSUME NEW k \in Polite
       PROVE  Succeeds(c, k, F2, h2)
  <2>1. Succeeds(c, k, F, h)
      BY DEF Sound
  <2>2. CASE p = "client"
    <3>1. ASSUME NEW l \in Conn, Led(F["client"], News(c, l), Drops(c, k))
          PROVE  Led(T, News(c, l), Drops(c, k))
      <4>1. ReadsNext(F[p], Tail(F[p]), m, c, k, l)
          BY <1>2, ReadsTailNext DEF p
      <4>2. QED BY <2>2, <3>1, <4>1 DEF ReadsNext, T, p
    <3>2. QED BY <1>1, <1>3, <1>5, <1>6, <1>7, <2>1, <2>2, <3>1 DEF Succeeds
  <2>3. CASE p = "server"
      BY <1>1, <1>3, <1>5, <2>1, <2>3 DEF Succeeds
  <2>4. QED BY <1>1, <2>2, <2>3
<1>14. ASSUME NEW k \in Polite
       PROVE  Upheld(c, k, s, F2, h2, g2) /\ Upheld(c, k, p, F2, h2, g2)
  <2>1. Upheld(c, k, s, F, h, g) /\ Upheld(c, k, p, F, h, g)
      BY <1>8
  <2>2. Ended(c, k, s, F2) /\ Ended(c, k, p, F2)
      BY <1>3, <1>6, <1>7, <2>1 DEF Upheld, Ended, Reads
  <2>3. Heard(c, k, s, F2, h2) /\ Heard(c, k, p, F2, h2)
      BY <1>1, <1>3, <1>5, <1>6, <1>7, <2>1 DEF Upheld, Heard
  <2>4. Closing(c, k, s, F2, h2) /\ Closing(c, k, p, F2, h2)
    <3>1. Closing(c, k, s, F2, h2)
      <4>1. x.finish /\ (x.drop <=> h[s].drop)
          OBVIOUS
      <4>2. QED BY <1>1, <1>3, <1>5, <1>7, <1>8, <4>1 DEF Closing, p
    <3>2. Closing(c, k, p, F2, h2)
        BY <1>1, <1>3, <1>5, <1>8, <2>1 DEF Upheld, Closing
    <3>3. QED BY <3>1, <3>2
  <2>5. Dropped(c, k, s, F2, h2) /\ Dropped(c, k, p, F2, h2)
      BY <1>1, <1>3, <1>5, <1>6, <1>7, <1>8, <2>1 DEF Upheld, Dropped
  <2>6. Finishing(c, k, s, F2, h2) /\ Finishing(c, k, p, F2, h2)
    <3>1. Has(F[s], Finishes(c, k)) => Has(F[s], Ends(c, k))
        BY SaidSubsets
    <3>2. Has(T, Finishes(c, k)) => Has(T, About(c, k))
        BY SaidSubsets
    <3>3. Finishing(c, k, s, F2, h2)
        BY <1>3, <1>8, <2>1, <3>1 DEF Upheld, Finishing
    <3>4. Finishing(c, k, p, F2, h2)
        BY <1>1, <1>3, <1>5, <1>6, <1>7, <1>8, <2>1, <3>2 DEF Upheld, Finishing
    <3>5. QED BY <3>3, <3>4
  <2>7. Dropping(c, k, s, F2, h2) /\ Dropping(c, k, p, F2, h2)
    <3>1. Has(T, Drops(c, k)) => Has(T, About(c, k))
        BY SaidSubsets
    <3>2. Dropping(c, k, s, F2, h2)
        BY <1>1, <1>3, <1>5, <1>6, <1>7, <2>1 DEF Upheld, Dropping, p
    <3>3. Dropping(c, k, p, F2, h2)
        BY <1>1, <1>6, <1>7, <1>8, <2>1, <3>1 DEF Upheld, Dropping
    <3>4. QED BY <3>2, <3>3
  <2>8. Pressed(c, k, s, F2, h2, g2)
      BY DEF Pressed
  <2>9. Pressed(c, k, p, F2, h2, g2)
      BY <1>1, <1>3, <1>5, <1>6, <1>7, <1>8, <2>1 DEF Upheld, Pressed
  <2>10. QED BY <2>2, <2>3, <2>4, <2>5, <2>6, <2>7, <2>8, <2>9 DEF Upheld
<1>15. ASSUME NEW k \in Conn
       PROVE  Introduced(c, k, s, F2, h2) /\ Introduced(c, k, p, F2, h2)
  <2>1. Introduced(c, k, s, F, h) /\ Introduced(c, k, p, F, h)
      BY <1>1 DEF Sound
  <2>2. Introduced(c, k, s, F2, h2)
      BY <1>1, <1>3, <2>1 DEF Introduced, p
  <2>3. Introduced(c, k, p, F2, h2)
      BY <1>1, <1>5, <1>6, <1>7, <2>1 DEF Introduced, Reads
  <2>4. QED BY <2>2, <2>3
<1>16. QED BY <1>1, <1>9, <1>10, <1>11, <1>12, <1>13, <1>14, <1>15 DEF Sound

(* The remote has got rid of its channel: this one is marked. *)
LEMMA DropReadSound ==
    ASSUME NEW c, NEW F, NEW h, NEW g, NEW o \in Nat, Sound(c, F, h, g, o),
           NEW s \in Side, F[Peer(s)] # << >>,
           NEW m \in Message, m = Head(F[Peer(s)]), m.id = c, m.code = "drop",
           h[s] # None,
           NEW x \in Channel, x.conn = h[s].conn, x.finish = h[s].finish,
           x.closing = h[s].closing, x.drop, x.congestion = h[s].congestion,
           NEW F2, NEW h2, Typed(F2, h2, g),
           F2[Peer(s)] = Tail(F[Peer(s)]), F2[s] = F[s],
           h2[Peer(s)] = h[Peer(s)], h2[s] = x
    PROVE  Sound(c, F2, h2, g, o)
<1> DEFINE p == Peer(s)
           T == F2[p]
<1>1. /\ p \in Side /\ Peer(p) = s /\ p # s
      /\ \A r \in Side : r = s \/ r = p
      /\ \/ s = "client" /\ p = "server"
         \/ s = "server" /\ p = "client"
    BY Sides DEF p
<1>2. F[p] \in Seq(Message)
    BY <1>1 DEF Sound, Typed
<1>3. /\ F2[s] = F[s] /\ h2[p] = h[p]
      /\ m.conn \in Conn /\ 0 \notin Polite /\ Polite \subseteq Conn
    BY PoliteType DEF Message, Code, Data
<1>4. h[s].conn = m.conn \/ (m.conn \notin Polite /\ h[s].conn \notin Polite)
    BY Finds
<1>5. /\ h[s].conn \in Conn /\ h2[s].conn = h[s].conn /\ h2[s] # None
    BY ChannelType, NoneIsNoChannel DEF Sound, Typed
<1>6. ASSUME NEW k
      PROVE  /\ Reads(F[p], T, m, c, k)
             /\ Has(T, About(c, k)) => Has(F[p], About(c, k))
             /\ Has(F[p], News(c, k)) <=> Has(T, News(c, k))
             /\ Has(T, Finishes(c, k)) => Has(F[p], Finishes(c, k))
             /\ Has(T, Drops(c, k)) => Has(F[p], Drops(c, k))
             /\ Has(T, Ends(c, k)) => Has(F[p], Ends(c, k))
             /\ Has(F[p], Said(c, k)) <=> Has(T, Said(c, k))
             /\ Last(F[p], Begins(c, k), Said(c, k)) <=> Last(T, Begins(c, k), Said(c, k))
  <2>1. Reads(F[p], T, m, c, k)
      BY <1>2, ReadsTail
  <2>2. QED BY <2>1 DEF Reads
<1> HIDE DEF p, T
<1>7. F2[p] = T
    BY DEF T
<1>8. ASSUME NEW k \in Polite
      PROVE  /\ Upheld(c, k, s, F, h, g) /\ Upheld(c, k, p, F, h, g)
             /\ m.conn = k <=> h[s].conn = k
             /\ h[s].conn = k =>
                    /\ h[p].conn # k
                    /\ h[s].finish /\ ~h[s].closing /\ ~h[s].drop
                    /\ ~Has(F[s], About(c, k)) /\ ~Has(T, About(c, k))
                    /\ Has(F[p], Ends(c, k)) /\ Has(F[p], About(c, k))
  <2>1. Upheld(c, k, s, F, h, g) /\ Upheld(c, k, p, F, h, g)
      BY <1>1 DEF Sound
  <2>2. m.conn = k <=> h[s].conn = k
      BY <1>3, <1>4
  <2>3. CASE m.conn = k
    <3>1. /\ Has(F[p], Drops(c, k)) /\ Has(F[p], Ends(c, k)) /\ Has(F[p], About(c, k))
        BY <1>6, <2>3 DEF Reads
    <3>2. ~Has(T, About(c, k))
        BY <1>6, <2>1, <2>3 DEF Reads, Upheld, Ended
    <3>3. /\ h[p].conn # k /\ h[s].finish /\ ~h[s].closing /\ ~h[s].drop
          /\ ~Has(F[s], About(c, k))
        BY <1>1, <2>1, <2>2, <2>3, <3>1 DEF Upheld, Dropping
    <3>4. QED BY <2>1, <2>2, <3>1, <3>2, <3>3
  <2>4. QED BY <2>1, <2>2, <2>3
<1>9. Numbered(c, F2, h2, o)
  <2>1. Numbered(c, F, h, o)
      BY DEF Sound
  <2>2. \A r \in Side, k \in Conn : Has(F2[r], About(c, k)) => Has(F[r], About(c, k))
      BY <1>1, <1>3, <1>6, <1>7
  <2>3. \A r \in Side : h2[r].conn = h[r].conn
      BY <1>1, <1>3, <1>5
  <2>4. h2["client"] # None => h["client"] # None
      BY <1>1, <1>3
  <2>5. "client" \in Side /\ "server" \in Side
      BY <1>1
  <2>6. QED BY <2>1, <2>2, <2>3, <2>4, <2>5 DEF Numbered
<1>10. ClientOpens(c, F2)
    BY <1>1, <1>3, <1>6, <1>7 DEF Sound, ClientOpens
<1>11. Unread(h2, g)
    BY <1>1, <1>3, <1>5 DEF Sound, Unread
<1>12. ASSUME NEW k \in Polite
       PROVE  Opening(c, k, F2, h2, g)
  <2>1. Opening(c, k, F, h, g)
      BY DEF Sound
  <2>2. CASE p = "client"
      BY <1>1, <1>3, <1>5, <1>6, <1>7, <2>1, <2>2 DEF Opening, Reads
  <2>3. CASE p = "server"
      BY <1>1, <1>3, <1>5, <1>6, <1>7, <2>1, <2>3 DEF Opening
  <2>4. QED BY <1>1, <2>2, <2>3
<1>13. ASSUME NEW k \in Polite
       PROVE  Succeeds(c, k, F2, h2)
  <2>1. Succeeds(c, k, F, h)
      BY DEF Sound
  <2>2. CASE p = "client"
    <3>1. h2["server"].conn = h["server"].conn /\ h2["server"].drop /\ h2["client"] = h["client"]
        BY <1>1, <1>3, <1>5, <2>2
    <3>2. \A l : Has(F["client"], News(c, l)) => Has(F2["client"], News(c, l))
        BY <1>6, <1>7, <2>2
    <3>3. QED BY <2>1, <3>1, <3>2 DEF Succeeds
  <2>3. CASE p = "server"
      BY <1>1, <1>3, <1>5, <2>1, <2>3 DEF Succeeds
  <2>4. QED BY <1>1, <2>2, <2>3
<1>14. ASSUME NEW k \in Polite
       PROVE  Upheld(c, k, s, F2, h2, g) /\ Upheld(c, k, p, F2, h2, g)
  <2>1. Upheld(c, k, s, F, h, g) /\ Upheld(c, k, p, F, h, g)
      BY <1>8
  <2>2. Ended(c, k, s, F2) /\ Ended(c, k, p, F2)
      BY <1>3, <1>6, <1>7, <2>1 DEF Upheld, Ended, Reads
  <2>3. Heard(c, k, s, F2, h2) /\ Heard(c, k, p, F2, h2)
      BY <1>1, <1>3, <1>5, <1>6, <1>7, <2>1 DEF Upheld, Heard
  <2>4. Closing(c, k, s, F2, h2) /\ Closing(c, k, p, F2, h2)
      BY <1>1, <1>3, <1>5, <1>7, <1>8, <2>1 DEF Upheld, Closing
  <2>5. Dropped(c, k, s, F2, h2) /\ Dropped(c, k, p, F2, h2)
    <3>1. Dropped(c, k, s, F2, h2)
      <4>1. (x.finish <=> h[s].finish) /\ (x.closing <=> h[s].closing)
          OBVIOUS
      <4>2. QED BY <1>1, <1>3, <1>5, <1>7, <1>8, <4>1 DEF Dropped, p
    <3>2. Dropped(c, k, p, F2, h2)
        BY <1>1, <1>3, <1>5, <1>6, <1>7, <2>1 DEF Upheld, Dropped
    <3>3. QED BY <3>1, <3>2
  <2>6. Finishing(c, k, s, F2, h2) /\ Finishing(c, k, p, F2, h2)
    <3>1. Has(F[s], Finishes(c, k)) => Has(F[s], About(c, k))
        BY SaidSubsets
    <3>2. Finishing(c, k, s, F2, h2)
        BY <1>3, <1>8, <2>1, <3>1 DEF Upheld, Finishing
    <3>3. Finishing(c, k, p, F2, h2)
        BY <1>1, <1>3, <1>5, <1>6, <1>7, <2>1 DEF Upheld, Finishing
    <3>4. QED BY <3>2, <3>3
  <2>7. Dropping(c, k, s, F2, h2) /\ Dropping(c, k, p, F2, h2)
    <3>1. Has(T, Drops(c, k)) => Has(T, About(c, k))
        BY SaidSubsets
    <3>2. Dropping(c, k, s, F2, h2)
        BY <1>1, <1>3, <1>5, <1>6, <1>7, <2>1 DEF Upheld, Dropping, p
    <3>3. Dropping(c, k, p, F2, h2)
        BY <1>1, <1>6, <1>7, <1>8, <2>1, <3>1 DEF Upheld, Dropping
    <3>4. QED BY <3>2, <3>3
  <2>8. Pressed(c, k, s, F2, h2, g)
      BY <1>1, <1>3, <1>5, <2>1 DEF Upheld, Pressed, p
  <2>9. Pressed(c, k, p, F2, h2, g)
      BY <1>1, <1>3, <1>5, <1>6, <1>7, <2>1 DEF Upheld, Pressed
  <2>10. QED BY <2>2, <2>3, <2>4, <2>5, <2>6, <2>7, <2>8, <2>9 DEF Upheld
<1>15. ASSUME NEW k \in Conn
       PROVE  Introduced(c, k, s, F2, h2) /\ Introduced(c, k, p, F2, h2)
  <2>1. Introduced(c, k, s, F, h) /\ Introduced(c, k, p, F, h)
      BY <1>1 DEF Sound
  <2>2. Introduced(c, k, s, F2, h2)
      BY <1>1, <1>3, <2>1 DEF Introduced, p
  <2>3. Introduced(c, k, p, F2, h2)
      BY <1>1, <1>5, <1>6, <1>7, <2>1 DEF Introduced, Reads
  <2>4. QED BY <2>2, <2>3
<1>16. QED BY <1>1, <1>9, <1>10, <1>11, <1>12, <1>13, <1>14, <1>15 DEF Sound

(* The server proxy reads that a connection is new and makes a channel for it. *)
LEMMA NewReadSound ==
    ASSUME RudeLast, NEW c, NEW F, NEW h, NEW g, NEW o \in Nat, Sound(c, F, h, g, o),
           F["client"] # << >>, h["server"] = None,
           NEW m \in Message, m = Head(F["client"]), m.id = c, m.code = "new",
           NEW x \in Channel, x.conn = m.conn, ~x.finish, ~x.closing, ~x.drop, ~x.congestion,
           NEW F2, NEW h2, NEW g2, Typed(F2, h2, g2),
           F2["client"] = Tail(F["client"]), F2["server"] = F["server"],
           h2["client"] = h["client"], h2["server"] = x,
           g2["client"] = g["client"], ~g2["server"]
    PROVE  Sound(c, F2, h2, g2, o)
<1> DEFINE A == F["client"]
           B == F["server"]
           T == F2["client"]
           n == m.conn
<1>1. /\ \A r \in Side : r = "client" \/ r = "server"
      /\ "client" \in Side /\ "server" \in Side
      /\ Peer("client") = "server" /\ Peer("server") = "client"
    BY DEF Side, Peer
<1>2. A \in Seq(Message) /\ B \in Seq(Message)
    BY <1>1 DEF Sound, Typed
<1>3. h["client"] \in Channel \cup {None}
    BY <1>1 DEF Sound, Typed
<1>4. /\ h["client"].conn \in Nat /\ x # None /\ h["server"].conn = 0
      /\ h["client"] # None <=> h["client"].conn \in Conn
      /\ 0 \notin Conn /\ 0 \notin Polite /\ Polite \subseteq Conn /\ Conn \subseteq Nat
      /\ n \in Conn
    BY <1>3, ChannelType, NoneIsNoChannel, PoliteType DEF Message, Code, Data
<1>5. ASSUME NEW k
      PROVE  /\ Reads(A, T, m, c, k)
             /\ Has(A, About(c, k)) <=> Has(T, About(c, k)) \/ n = k
             /\ Has(A, News(c, k)) <=> Has(T, News(c, k)) \/ n = k
             /\ Has(A, Finishes(c, k)) <=> Has(T, Finishes(c, k))
             /\ Has(A, Drops(c, k)) <=> Has(T, Drops(c, k))
             /\ Has(A, Ends(c, k)) <=> Has(T, Ends(c, k))
             /\ Has(A, Said(c, k)) <=> Has(T, Said(c, k))
             /\ Last(A, Begins(c, k), Said(c, k)) <=> Last(T, Begins(c, k), Said(c, k))
  <2>1. Reads(A, T, m, c, k)
      BY <1>2, ReadsTail
  <2>2. QED BY <2>1 DEF Reads
<1> HIDE DEF A, B, T, n
<1>6. Has(A, About(c, n)) /\ Has(A, News(c, n))
    BY <1>5
<1>7. /\ n <= o
      /\ h["client"] # None => n <= h["client"].conn
      /\ h["client"] # None =>
             \A k \in Conn : Has(A, About(c, k)) => k <= h["client"].conn
    BY <1>1, <1>4, <1>6 DEF Sound, Numbered, A
<1>8. n \in Polite => /\ h["client"].conn = n /\ ~Has(B, About(c, n)) /\ ~g["client"]
                      /\ ~Has(T, News(c, n))
                      /\ \A k \in Conn : Has(A, About(c, k)) => k <= n
  <2> SUFFICES ASSUME n \in Polite
               PROVE  /\ h["client"].conn = n /\ ~Has(B, About(c, n)) /\ ~g["client"]
                      /\ ~Has(T, News(c, n))
                      /\ \A k \in Conn : Has(A, About(c, k)) => k <= n
      OBVIOUS
  <2>1. Opening(c, n, F, h, g)
      BY DEF Sound
  <2>2. /\ h["client"].conn = n /\ ~Has(B, About(c, n)) /\ ~g["client"]
        /\ Never(A, News(c, n), News(c, n))
      BY <1>6, <2>1 DEF Opening, A, B
  <2>3. ~Has(T, News(c, n))
      BY <1>5, <2>2 DEF Reads, n
  <2>4. QED BY <1>4, <1>7, <2>2, <2>3
<1>9. Numbered(c, F2, h2, o)
  <2>1. Numbered(c, F, h, o)
      BY DEF Sound
  <2>2. \A r \in Side, k \in Conn : Has(F2[r], About(c, k)) => Has(F[r], About(c, k))
      BY <1>1, <1>5 DEF A, T
  <2>3. h2["server"].conn = n
      BY DEF n
  <2>4. QED BY <1>1, <1>7, <2>1, <2>2, <2>3 DEF Numbered
<1>10. ClientOpens(c, F2)
    BY DEF Sound, ClientOpens
<1>11. Unread(h2, g2)
    BY <1>1 DEF Sound, Unread
<1>12. ASSUME NEW k \in Polite
       PROVE  Opening(c, k, F2, h2, g2)
  <2>1. Opening(c, k, F, h, g)
      BY DEF Sound
  <2>2. Never(T, News(c, k), News(c, k))
      BY <1>5, <2>1 DEF Opening, Reads, A
  <2>3. Has(T, News(c, k)) => Has(A, News(c, k)) /\ n # k
      BY <1>5, <1>8
  <2>4. QED BY <2>1, <2>2, <2>3 DEF Opening, A, T, n
<1>13. ASSUME NEW k \in Polite
       PROVE  Succeeds(c, k, F2, h2)
  <2> SUFFICES ASSUME n = k
               PROVE  Succeeds(c, k, F2, h2)
      BY DEF Succeeds, n
  <2>1. \A l \in Conn : k < l => ~Has(T, News(c, l))
    <3>1. \A l \in Conn : Has(T, News(c, l)) => Has(A, About(c, l))
        BY <1>5, SaidSubsets
    <3>2. \A l \in Conn : k < l => ~(l <= k)
        BY <1>4
    <3>3. QED BY <1>8, <3>1, <3>2
  <2>2. \A l \in Conn : k < l => Led(T, News(c, l), Drops(c, k))
      BY <2>1, SilentLed
  <2>3. h2["client"].conn = k /\ ~(k < k)
      BY <1>4, <1>8
  <2>4. QED BY <2>2, <2>3 DEF Succeeds, T
<1>14. ASSUME NEW k \in Polite
       PROVE  Upheld(c, k, "client", F2, h2, g2) /\ Upheld(c, k, "server", F2, h2, g2)
  <2>1. Upheld(c, k, "client", F, h, g) /\ Upheld(c, k, "server", F, h, g)
      BY <1>1 DEF Sound
  <2>2. h["server"].conn # k /\ k \in Conn
      BY <1>4
  <2>3. Ended(c, k, "client", F2) /\ Ended(c, k, "server", F2)
      BY <1>5, <2>1 DEF Upheld, Ended, Reads, A, T
  <2>4. Heard(c, k, "client", F2, h2) /\ Heard(c, k, "server", F2, h2)
    <3>1. Heard(c, k, "client", F2, h2)
        BY <1>1, <1>5, <2>1, <2>2 DEF Upheld, Heard, A, T, n
    <3>2. n = k => ~Has(B, Ends(c, k)) /\ h["client"].conn = k
        BY <1>8, SaidSubsets
    <3>3. Heard(c, k, "server", F2, h2)
        BY <1>1, <3>2 DEF Heard, B, n
    <3>4. QED BY <3>1, <3>3
  <2>5. Closing(c, k, "client", F2, h2) /\ Closing(c, k, "server", F2, h2)
      BY <1>1, <2>1, <2>2 DEF Upheld, Closing
  <2>6. Dropped(c, k, "client", F2, h2) /\ Dropped(c, k, "server", F2, h2)
      BY <1>1, <1>5, <1>6, <2>1 DEF Upheld, Dropped, A, T, n
  <2>7. Finishing(c, k, "client", F2, h2) /\ Finishing(c, k, "server", F2, h2)
      BY <1>1, <1>5, <2>1, <2>2 DEF Upheld, Finishing, A, T
  <2>8. Dropping(c, k, "client", F2, h2) /\ Dropping(c, k, "server", F2, h2)
    <3>1. Has(B, Drops(c, k)) => n # k
        BY <1>8, SaidSubsets
    <3>2. QED BY <1>1, <1>5, <2>1, <2>2, <3>1 DEF Upheld, Dropping, A, B, T, n
  <2>9. Pressed(c, k, "client", F2, h2, g2)
      BY <1>1, <1>5, <2>1, <2>2 DEF Upheld, Pressed, A, T
  <2>10. Pressed(c, k, "server", F2, h2, g2)
    <3>1. n = k => ~Has(B, Said(c, k)) /\ ~g["client"]
        BY <1>8, SaidSubsets
    <3>2. QED BY <1>1, <3>1 DEF Pressed, B, n
  <2>11. QED BY <2>3, <2>4, <2>5, <2>6, <2>7, <2>8, <2>9, <2>10 DEF Upheld
<1>15. ASSUME NEW k \in Conn
       PROVE  Introduced(c, k, "client", F2, h2) /\ Introduced(c, k, "server", F2, h2)
  <2>1. Introduced(c, k, "client", F, h) /\ Introduced(c, k, "server", F, h)
      BY <1>1 DEF Sound
  <2>2. Introduced(c, k, "server", F2, h2)
      BY <1>1, <2>1 DEF Introduced
  <2>3. CASE n = k
      BY <1>1, <2>2, <2>3 DEF Introduced, n
  <2>4. CASE n # k /\ k \notin Polite /\ n \in Polite
    <3>1. ~(k <= n) /\ ~Has(A, About(c, k))
      <4>1. n < k
          BY <2>4 DEF RudeLast
      <4>2. ~(k <= n)
          BY <1>4, <4>1
      <4>3. QED BY <1>8, <2>4, <4>2
    <3>2. Led(T, Later(c, k), News(c, k))
        BY <1>5, <3>1, SaidSubsets, SilentLed
    <3>3. QED BY <2>2, <3>2 DEF Introduced, T
  <2>5. CASE n # k /\ k \notin Polite /\ n \notin Polite
      BY <1>1, <2>2, <2>5 DEF Introduced, n
  <2>6. CASE n # k /\ k \in Polite
    <3>1. Led(A, Later(c, k), News(c, k))
        BY <1>1, <1>4, <2>1, <2>6 DEF Introduced, A
    <3>2. Led(T, Later(c, k), News(c, k))
        BY <1>5, <2>6, <3>1 DEF Reads, n
    <3>3. QED BY <2>2, <3>2 DEF Introduced, T
  <2>7. QED BY <2>3, <2>4, <2>5, <2>6
<1>16. QED BY <1>1, <1>9, <1>10, <1>11, <1>12, <1>13, <1>14, <1>15 DEF Sound

(* Writing to a connection that is not polite fails. *)
LEMMA FailsSound ==
    ASSUME NEW c, NEW F, NEW h, NEW g, NEW o \in Nat, Sound(c, F, h, g, o),
           NEW s \in Side, h[s] # None, h[s].conn \notin Polite,
           NEW x \in Channel, x.conn = h[s].conn,
           NEW h2, NEW g2, Typed(F, h2, g2),
           h2[Peer(s)] = h[Peer(s)], h2[s] = x, g2[Peer(s)] = g[Peer(s)], ~g2[s]
    PROVE  Sound(c, F, h2, g2, o)
<1> DEFINE p == Peer(s)
<1>1. /\ p \in Side /\ Peer(p) = s /\ p # s
      /\ \A r \in Side : r = s \/ r = p
      /\ \/ s = "client" /\ p = "server"
         \/ s = "server" /\ p = "client"
      /\ "client" \in Side /\ "server" \in Side
    BY Sides DEF p
<1>2. g2[p] = g[p] /\ h2[p] = h[p]
    OBVIOUS
<1>3. h2[s].conn = h[s].conn /\ h2[s] # None
    BY NoneIsNoChannel
<1> HIDE DEF p
<1>4. \A r \in Side : h2[r].conn = h[r].conn
    BY <1>1, <1>2, <1>3
<1>5. Numbered(c, F, h2, o)
    BY <1>1, <1>2, <1>4 DEF Sound, Numbered
<1>6. Unread(h2, g2)
    BY <1>1, <1>2 DEF Sound, Unread
<1>7. ASSUME NEW k \in Polite
      PROVE  Opening(c, k, F, h2, g2)
    BY <1>1, <1>2, <1>4 DEF Sound, Opening
<1>8. ASSUME NEW k \in Polite
      PROVE  Succeeds(c, k, F, h2)
    BY <1>1, <1>2, <1>3 DEF Sound, Succeeds
<1>9. ASSUME NEW k \in Polite
      PROVE  Upheld(c, k, s, F, h2, g2) /\ Upheld(c, k, p, F, h2, g2)
  <2>1. Upheld(c, k, s, F, h, g) /\ Upheld(c, k, p, F, h, g)
      BY <1>1 DEF Sound
  <2>2. h2[s].conn # k /\ h[s].conn # k
      BY <1>3
  <2>3. Upheld(c, k, s, F, h2, g2)
      BY <1>1, <1>2, <2>1, <2>2
         DEF Upheld, Ended, Heard, Closing, Dropped, Finishing, Dropping, Pressed, p
  <2>4. Upheld(c, k, p, F, h2, g2)
      BY <1>1, <1>2, <2>1, <2>2
         DEF Upheld, Ended, Heard, Closing, Dropped, Finishing, Dropping, Pressed
  <2>5. QED BY <2>3, <2>4
<1>10. ASSUME NEW k \in Conn, NEW r \in Side
       PROVE  Introduced(c, k, r, F, h2)
  <2>1. Introduced(c, k, r, F, h) /\ Peer(r) \in Side
      BY Sides DEF Sound
  <2>2. QED BY <1>4, <2>1 DEF Introduced
<1>11. QED BY <1>1, <1>5, <1>6, <1>7, <1>8, <1>9, <1>10 DEF Sound

(* The server proxy says that it refused a connection, which is not polite. *)
LEMMA RefusedSound ==
    ASSUME RudeLast, NEW c, NEW F, NEW h, NEW g, NEW o \in Nat, Sound(c, F, h, g, o),
           NEW m \in Message, m.id = c, m.code = "drop", m.conn \notin Polite,
           m.conn <= o, h["client"] # None => m.conn <= h["client"].conn,
           NEW G \in Seq(Message), Inserted(F["server"], m, G),
           NEW F2, Typed(F2, h, g), F2["server"] = G, F2["client"] = F["client"]
    PROVE  Sound(c, F2, h, g, o)
<1> DEFINE B == F["server"]
           n == m.conn
<1>1. /\ \A r \in Side : r = "client" \/ r = "server"
      /\ "client" \in Side /\ "server" \in Side
      /\ Peer("client") = "server" /\ Peer("server") = "client"
    BY DEF Side, Peer
<1>2. B \in Seq(Message) /\ h["client"] \in Channel \cup {None}
    BY <1>1 DEF Sound, Typed
<1>3. /\ 0 \notin Polite /\ Polite \subseteq Conn /\ Conn \subseteq Nat /\ n \in Conn
      /\ h["client"].conn \in Nat
      /\ h["client"] # None <=> h["client"].conn \in Conn
    BY <1>2, ChannelType, PoliteType DEF Message, Code, Data
<1>4. ASSUME NEW k
      PROVE  /\ Has(G, About(c, k)) <=> Has(B, About(c, k)) \/ k = n
             /\ Has(G, News(c, k)) <=> Has(B, News(c, k))
             /\ Has(G, Finishes(c, k)) <=> Has(B, Finishes(c, k))
             /\ Has(G, Drops(c, k)) <=> Has(B, Drops(c, k)) \/ k = n
             /\ Has(G, Ends(c, k)) <=> Has(B, Ends(c, k)) \/ k = n
             /\ Has(G, Said(c, k)) <=> Has(B, Said(c, k))
             /\ Last(G, Begins(c, k), Said(c, k)) <=> Last(B, Begins(c, k), Said(c, k))
  <2>1. DropAdds(B, G, c, k, m.conn)
      BY <1>2, DropAdded
  <2>2. QED BY <2>1 DEF DropAdds
<1>5. Numbered(c, F2, h, o)
  <2>1. Numbered(c, F, h, o)
      BY DEF Sound
  <2>2. \A r \in Side, k \in Conn :
            Has(F2[r], About(c, k)) => Has(F[r], About(c, k)) \/ k = n
      BY <1>1, <1>4
  <2>3. QED BY <2>1, <2>2 DEF Numbered
<1>6. ClientOpens(c, F2)
    BY <1>4 DEF Sound, ClientOpens
<1>7. ASSUME NEW k \in Polite
      PROVE  /\ k # n
             /\ Opening(c, k, F2, h, g) /\ Succeeds(c, k, F2, h)
             /\ Upheld(c, k, "client", F2, h, g) /\ Upheld(c, k, "server", F2, h, g)
  <2>1. /\ Opening(c, k, F, h, g) /\ Succeeds(c, k, F, h)
        /\ Upheld(c, k, "client", F, h, g) /\ Upheld(c, k, "server", F, h, g)
      BY <1>1 DEF Sound
  <2>2. k # n
      OBVIOUS
  <2>3. Opening(c, k, F2, h, g)
      BY <1>4, <2>1, <2>2 DEF Opening
  <2>4. Succeeds(c, k, F2, h)
      BY <2>1 DEF Succeeds
  <2>5. Ended(c, k, "server", F2)
    <3>1. m \notin About(c, k) /\ m \notin Ends(c, k)
        BY <2>2, Kinds
    <3>2. Never(B, Ends(c, k), About(c, k)) => Never(G, Ends(c, k), About(c, k))
        BY <1>2, <3>1, InsertedEnds
    <3>3. QED BY <2>1, <3>2 DEF Upheld, Ended
  <2>6. Upheld(c, k, "client", F2, h, g)
      BY <1>1, <1>4, <2>1, <2>2
         DEF Upheld, Ended, Heard, Closing, Dropped, Finishing, Dropping, Pressed
  <2>7. Upheld(c, k, "server", F2, h, g)
      BY <1>1, <1>4, <2>1, <2>2, <2>5
         DEF Upheld, Heard, Closing, Dropped, Finishing, Dropping, Pressed
  <2>8. QED BY <2>2, <2>3, <2>4, <2>6, <2>7
<1>8. ASSUME NEW k \in Conn
      PROVE  Introduced(c, k, "client", F2, h) /\ Introduced(c, k, "server", F2, h)
  <2>1. Introduced(c, k, "client", F, h) /\ Introduced(c, k, "server", F, h)
      BY <1>1 DEF Sound
  <2>2. Introduced(c, k, "client", F2, h)
      BY <1>1, <2>1 DEF Introduced
  <2>3. CASE k # n
    <3>1. m \notin Later(c, k)
        BY <2>3, Kinds
    <3>2. Led(B, Later(c, k), News(c, k)) => Led(G, Later(c, k), News(c, k))
        BY <1>2, <3>1, InsertedLater
    <3>3. QED BY <1>1, <2>1, <2>2, <3>2 DEF Introduced
  <2>4. CASE k = n
    <3>1. h["client"].conn \notin Polite
      <4> SUFFICES ASSUME h["client"].conn \in Polite
                   PROVE  FALSE
          OBVIOUS
      <4>1. h["client"].conn < n
          BY <1>3 DEF RudeLast
      <4>2. n <= h["client"].conn /\ h["client"].conn \in Nat /\ n \in Nat
          BY <1>3
      <4>3. QED BY <4>1, <4>2
    <3>2. QED BY <1>1, <2>2, <2>4, <3>1 DEF Introduced
  <2>5. QED BY <2>3, <2>4
<1>9. QED BY <1>1, <1>5, <1>6, <1>7, <1>8 DEF Sound

-----------------------------------------------------------------------------
(* What the operations write *)

(* What a proxy has said and its peer has not read, the encoded data included. *)
Stream(t) == Written(t) \o t.encode

(* What was said is a sequence of messages. *)
LEMMA StreamType ==
    ASSUME NEW t \in Transmit
    PROVE  Stream(t) \in Seq(Message)
BY TransmitType, ConcatProperties DEF Stream

(* A message written in front of the encoded data. *)
LEMMA PutMiddle ==
    ASSUME NEW T \in Seq(Message), NEW E \in Seq(Message), NEW m \in Message
    PROVE  /\ Len(T) \in 0 .. Len(T \o E)
           /\ Put(T \o E, m, Len(T), (T \o << m >>) \o E)
           /\ \A i \in Len(T) + 1 .. Len(T \o E) :
                  i - Len(T) \in 1 .. Len(E) /\ (T \o E)[i] = E[i - Len(T)]
<1> DEFINE F == T \o E
           U == T \o << m >>
           G == U \o E
           n == Len(T)
           e == Len(E)
<1>1. /\ << m >> \in Seq(Message) /\ Len(<< m >>) = 1 /\ << m >>[1] = m
      /\ n \in Nat /\ e \in Nat
    OBVIOUS
<1>2. /\ F \in Seq(Message) /\ Len(F) = n + e
      /\ \A i \in 1 .. n + e : F[i] = IF i <= n THEN T[i] ELSE E[i - n]
    BY ConcatProperties
<1>3. /\ U \in Seq(Message) /\ Len(U) = n + 1
      /\ \A i \in 1 .. n + 1 : U[i] = IF i <= n THEN T[i] ELSE << m >>[i - n]
    BY <1>1, ConcatProperties
<1>4. /\ G \in Seq(Message) /\ Len(G) = Len(U) + e
      /\ \A i \in 1 .. Len(U) + e : G[i] = IF i <= Len(U) THEN U[i] ELSE E[i - Len(U)]
    BY <1>3, ConcatProperties
<1> HIDE DEF F, U, G, n, e
<1>5. n + 1 - n = 1 /\ ~(n + 1 <= n) /\ n + 1 \in 1 .. n + 1
    BY <1>1
<1>6. U[n + 1] = m /\ \A i \in 1 .. n : U[i] = T[i]
    BY <1>1, <1>3, <1>5
<1>7. G[n + 1] = m /\ \A i \in 1 .. n : G[i] = T[i]
    BY <1>1, <1>3, <1>4, <1>6
<1>8. \A i \in n + 1 .. n + e :
          /\ F[i] = E[i - n]
          /\ G[i + 1] = E[(i + 1) - (n + 1)] /\ (i + 1) - (n + 1) = i - n
  <2> SUFFICES ASSUME NEW i \in n + 1 .. n + e
               PROVE  /\ F[i] = E[i - n]
                      /\ G[i + 1] = E[(i + 1) - (n + 1)] /\ (i + 1) - (n + 1) = i - n
      OBVIOUS
  <2>1. i \in 1 .. n + e /\ ~(i <= n)
      BY <1>1
  <2>2. i + 1 \in 1 .. (n + 1) + e /\ ~(i + 1 <= n + 1) /\ (i + 1) - (n + 1) = i - n
      BY <1>1
  <2>3. F[i] = E[i - n]
      BY <1>2, <2>1
  <2>4. G[i + 1] = E[(i + 1) - (n + 1)]
      BY <1>3, <1>4, <2>2
  <2>5. QED BY <2>2, <2>3, <2>4
<1>9. \A i \in 1 .. n : F[i] = T[i]
    BY <1>1, <1>2
<1>10. Put(F, m, n, G)
  <2>1. Len(G) = Len(F) + 1
      BY <1>1, <1>2, <1>3, <1>4
  <2>2. \A i \in n + 1 .. Len(F) : G[i + 1] = F[i]
      BY <1>2, <1>8
  <2>3. QED BY <1>7, <1>9, <2>1, <2>2 DEF Put
<1>11. n \in 0 .. Len(F)
    BY <1>1, <1>2
<1>12. \A i \in n + 1 .. Len(F) : i - n \in 1 .. e /\ F[i] = E[i - n]
  <2>1. \A i \in n + 1 .. n + e : i - n \in 1 .. e
      BY <1>1
  <2>2. QED BY <1>2, <1>8, <2>1
<1>13. QED BY <1>10, <1>11, <1>12 DEF F, U, G, n, e

(* Sending what is written changes nothing to the stream. *)
LEMMA FrameStream ==
    ASSUME NEW t \in Transmit
    PROVE  /\ handleFrame(t) \in Transmit /\ Stream(handleFrame(t)) = Stream(t)
           /\ handleFrame(t).control = << >> /\ handleFrame(t).encode = << >>
           /\ handleFrame(t).output = t.output
<1> DEFINE u == handleFrame(t)
           T == Written(t)
<1>1. /\ T \in Seq(Message) /\ t.encode \in Seq(Message)
    BY TransmitType
<1>2. /\ u.control = << >> /\ u.encode = << >> /\ u.output = t.output
      /\ u.link = T \o t.encode
    BY DEF handleFrame, Transmit, Written
<1>3. T \o t.encode \in Seq(Message)
    BY <1>1, ConcatProperties
<1>4. u \in Transmit
  <2>1. u = [t EXCEPT !.control = << >>, !.encode = << >>, !.link = T \o t.encode]
      BY DEF handleFrame, Transmit, Written
  <2> HIDE DEF T, u
  <2>2. << >> \in Seq(Code) /\ << >> \in Seq(Data)
      OBVIOUS
  <2>3. QED BY <1>3, <2>1, <2>2 DEF Transmit
<1>5. Stream(u) = T \o t.encode
  <2>1. (T \o t.encode) \o << >> = T \o t.encode
      BY <1>3, ConcatEmptySeq
  <2> HIDE DEF T, u
  <2>2. QED BY <1>2, <2>1 DEF Stream, Written
<1>6. QED BY <1>2, <1>4, <1>5 DEF Stream

(* Sending the data of a channel first changes nothing to the stream. *)
LEMMA FlushStream ==
    ASSUME NEW t \in Transmit, NEW c
    PROVE  /\ flush(t, c) \in Transmit /\ Stream(flush(t, c)) = Stream(t)
           /\ flush(t, c).output = t.output
           /\ flush(t, c).encode = t.encode \/ flush(t, c).encode = << >>
           /\ flush(t, c).encode = << >> \/ flush(t, c).output # c
           /\ flush(t, c).control = t.control \/ flush(t, c).control = << >>
<1>1. CASE t.output = c /\ t.encode # << >>
    BY <1>1, FrameStream DEF flush
<1>2. CASE ~(t.output = c /\ t.encode # << >>)
    BY <1>2 DEF flush
<1>3. QED BY <1>1, <1>2

(* A code is written in front of the encoded data. *)
LEMMA CodeStream ==
    ASSUME NEW t \in Transmit, NEW c \in Id, NEW k \in Conn,
           NEW code \in {"switch", "new", "finish", "drop", "begin", "end"}
    PROVE  LET u == addControlCodes(t, code, c, k)
               m == [code |-> code, id |-> c, conn |-> k]
           IN  /\ m \in Message /\ u \in Transmit
               /\ u.encode = t.encode /\ u.output = t.output
               /\ Inserted(Stream(t), m, Stream(u))
               /\ (\A i \in 1 .. Len(t.encode) : t.encode[i].id # c)
                      => Behind(Stream(t), m, Stream(u), c)
<1> DEFINE u == addControlCodes(t, code, c, k)
           m == [code |-> code, id |-> c, conn |-> k]
           T == Written(t)
           E == t.encode
           n == Len(T)
<1>1. /\ m \in Message /\ u \in Transmit
      /\ Written(u) = T \o << m >>
      /\ u.encode = t.encode /\ u.output = t.output
    BY CodeAdded
<1>2. T \in Seq(Message) /\ E \in Seq(Message) /\ E \in Seq(Data)
    BY TransmitType
<1>3. Stream(t) = T \o E /\ Stream(u) = (T \o << m >>) \o E
    BY <1>1 DEF Stream
<1> HIDE DEF u, m, T, E
<1>4. /\ n \in 0 .. Len(T \o E)
      /\ Put(T \o E, m, n, (T \o << m >>) \o E)
      /\ \A i \in n + 1 .. Len(T \o E) :
             i - n \in 1 .. Len(E) /\ (T \o E)[i] = E[i - n]
    BY <1>1, <1>2, PutMiddle
<1>5. \A i \in 1 .. Len(E) : E[i].code = "data"
  <2>1. \A i \in 1 .. Len(E) : E[i] \in Data
      BY <1>2
  <2>2. QED BY <2>1 DEF Data
<1>6. \A i \in n + 1 .. Len(T \o E) : (T \o E)[i].code = "data"
    BY <1>4, <1>5
<1>7. Inserted(Stream(t), m, Stream(u))
    BY <1>3, <1>4, <1>6 DEF Inserted
<1>8. ASSUME \A i \in 1 .. Len(E) : E[i].id # c
      PROVE  Behind(Stream(t), m, Stream(u), c)
  <2>1. \A i \in n + 1 .. Len(T \o E) : (T \o E)[i].id # c
      BY <1>4, <1>8
  <2> HIDE DEF n
  <2>2. QED BY <1>3, <1>4, <1>6, <2>1 DEF Behind
<1>9. QED BY <1>1, <1>7, <1>8 DEF u, m, E

(* A code that is sent at once is in front of the encoded data too. *)
LEMMA ControlStream ==
    ASSUME NEW t \in Transmit, NEW c \in Id, NEW k \in Conn,
           NEW code \in {"switch", "new", "finish", "drop", "begin", "end"}
    PROVE  LET u == handleControl(t, code, c, k)
               m == [code |-> code, id |-> c, conn |-> k]
           IN  /\ m \in Message /\ u \in Transmit
               /\ u.encode = << >> /\ u.control = << >> /\ u.output = t.output
               /\ Inserted(Stream(t), m, Stream(u))
               /\ (\A i \in 1 .. Len(t.encode) : t.encode[i].id # c)
                      => Behind(Stream(t), m, Stream(u), c)
<1> DEFINE v == addControlCodes(t, code, c, k)
           m == [code |-> code, id |-> c, conn |-> k]
<1>1. /\ m \in Message /\ v \in Transmit /\ v.output = t.output
      /\ Inserted(Stream(t), m, Stream(v))
      /\ (\A i \in 1 .. Len(t.encode) : t.encode[i].id # c)
             => Behind(Stream(t), m, Stream(v), c)
    BY CodeStream
<1> HIDE DEF v, m
<1>2. QED BY <1>1, FrameStream DEF handleControl, v, m

(* Only the data of the output is in the buffer. *)
LEMMA OthersBuffer ==
    ASSUME NEW t, NEW in, Good(t, in), NEW u, NEW c,
           u.encode = t.encode \/ u.encode = << >>, u.encode = << >> \/ t.output # c
    PROVE  \A i \in 1 .. Len(u.encode) : u.encode[i].id # c
<1>1. CASE u.encode = << >>
    BY <1>1
<1>2. CASE u.encode = t.encode /\ t.output # c
    BY <1>2 DEF Good
<1>3. QED BY <1>1, <1>2

(* A channel says that it is finished or dropped behind all its data. *)
LEMMA LastStream ==
    ASSUME NEW t \in Transmit, NEW in, Good(t, in), NEW c \in Id, NEW k \in Conn,
           NEW code \in {"finish", "drop"}
    PROVE  LET u == handleControl(flush(t, c), code, c, k)
               m == [code |-> code, id |-> c, conn |-> k]
           IN  /\ m \in Message /\ u \in Transmit /\ u.control = << >>
               /\ u.encode = << >> /\ u.output = t.output
               /\ Inserted(Stream(t), m, Stream(u))
               /\ Behind(Stream(t), m, Stream(u), c)
<1> DEFINE f == flush(t, c)
<1>1. /\ f \in Transmit /\ Stream(f) = Stream(t) /\ f.output = t.output
      /\ f.encode = t.encode \/ f.encode = << >>
      /\ f.encode = << >> \/ f.output # c
    BY FlushStream
<1>2. \A i \in 1 .. Len(f.encode) : f.encode[i].id # c
  <2> HIDE DEF f
  <2>1. QED BY <1>1, OthersBuffer
<1> DEFINE u == handleControl(f, code, c, k)
           m == [code |-> code, id |-> c, conn |-> k]
<1> HIDE DEF f
<1>3. code \in {"switch", "new", "finish", "drop", "begin", "end"}
    OBVIOUS
<1>4. /\ m \in Message /\ u \in Transmit
      /\ u.encode = << >> /\ u.control = << >> /\ u.output = f.output
      /\ Inserted(Stream(f), m, Stream(u))
      /\ (\A i \in 1 .. Len(f.encode) : f.encode[i].id # c)
             => Behind(Stream(f), m, Stream(u), c)
    BY <1>1, <1>3, ControlStream
<1> HIDE DEF u, m
<1>5. QED BY <1>1, <1>2, <1>4 DEF f, u, m

(* What is written when a channel is got rid of. *)
LEMMA DropStream ==
    ASSUME NEW t \in Transmit, NEW in, Good(t, in), NEW c \in Id, NEW ch \in Channel
    PROVE  LET u == handleDrop(t, ch, c)
               m == [code |-> "drop", id |-> c, conn |-> ch.conn]
           IN  /\ m \in Message /\ u \in Transmit
               /\ ch.closing => /\ Inserted(Stream(t), m, Stream(u))
                                /\ Behind(Stream(t), m, Stream(u), c)
               /\ ~ch.closing => Stream(u) = Stream(t)
               /\ u.control = t.control \/ u.control = << >>
<1> DEFINE f == flush(t, c)
           g == IF ch.closing THEN handleControl(f, "drop", c, ch.conn) ELSE f
           m == [code |-> "drop", id |-> c, conn |-> ch.conn]
           u == handleDrop(t, ch, c)
<1>1. ch.conn \in Conn /\ m \in Message
    BY DEF Channel, Message, Code
<1>2. /\ f \in Transmit /\ Stream(f) = Stream(t) /\ f.output = t.output
      /\ f.control = t.control \/ f.control = << >>
    BY FlushStream
<1>3. /\ g \in Transmit
      /\ ch.closing => /\ Inserted(Stream(t), m, Stream(g))
                       /\ Behind(Stream(t), m, Stream(g), c)
      /\ ~ch.closing => Stream(g) = Stream(t)
      /\ g.control = t.control \/ g.control = << >>
  <2>1. CASE ch.closing
      BY <1>1, <2>1, LastStream
  <2>2. CASE ~ch.closing
      BY <1>2, <2>2
  <2>3. QED BY <2>1, <2>2
<1>4. u = [g EXCEPT !.output = IF g.output = c THEN nothing ELSE g.output]
  <2>1. u = [g EXCEPT !.output = IF @ = c THEN nothing ELSE @]
      BY DEF handleDrop
  <2> HIDE DEF g, u
  <2>2. QED BY <1>3, <2>1 DEF Transmit
<1> HIDE DEF g, u, m
<1>5. /\ u \in Transmit /\ u.encode = g.encode /\ u.link = g.link
      /\ u.control = g.control
    BY <1>3, <1>4 DEF Transmit
<1>6. Stream(u) = Stream(g)
    BY <1>5 DEF Stream, Written
<1>7. QED BY <1>1, <1>3, <1>5, <1>6 DEF u, m

(* What is written when the output moves to a channel. *)
LEMMA SwitchStream ==
    ASSUME NEW t \in Transmit, NEW c \in Id, NEW k \in Conn
    PROVE  LET u == handleSwitch(t, c, k)
               m == [code |-> "switch", id |-> c, conn |-> k]
           IN  /\ m \in Message /\ u \in Transmit
               /\ Stream(u) = Stream(t) \/ Inserted(Stream(t), m, Stream(u))
               /\ \/ u.control = t.control
                  \/ u.control = Append(t.control, m)
                  \/ u.control = Append(<< >>, m)
<1> DEFINE m == [code |-> "switch", id |-> c, conn |-> k]
           v == IF t.encode # << >> THEN handleFrame(t) ELSE t
           w == addControlCodes(v, "switch", c, k)
           u == handleSwitch(t, c, k)
<1>1. m \in Message
    BY DEF Message, Code
<1>2. CASE t.output = c
    BY <1>1, <1>2 DEF handleSwitch
<1>3. CASE t.output # c
  <2>1. /\ v \in Transmit /\ Stream(v) = Stream(t)
        /\ v.control = t.control \/ v.control = << >>
      BY FrameStream
  <2> HIDE DEF v
  <2>2. /\ w \in Transmit /\ Inserted(Stream(v), m, Stream(w))
      BY <2>1, CodeStream
  <2>3. w.control = Append(v.control, m)
      BY <2>1 DEF addControlCodes, Transmit
  <2>4. u = [w EXCEPT !.output = c]
      BY <1>3 DEF handleSwitch, v
  <2> HIDE DEF w, u
  <2>5. /\ u \in Transmit /\ u.encode = w.encode /\ u.link = w.link
        /\ u.control = w.control
      BY <2>2, <2>4 DEF Transmit
  <2>6. Stream(u) = Stream(w)
      BY <2>5 DEF Stream, Written
  <2> HIDE DEF m
  <2>7. QED BY <1>1, <2>1, <2>2, <2>3, <2>5, <2>6 DEF u, m
<1>4. QED BY <1>2, <1>3

(* Data is encoded behind everything. *)
LEMMA EncodeStream ==
    ASSUME NEW t \in Transmit, NEW c \in Id, NEW k \in Conn
    PROVE  LET m == [code |-> "data", id |-> c, conn |-> k]
               u == [t EXCEPT !.encode = Append(@, m)]
           IN  /\ m \in Message /\ u \in Transmit /\ u.control = t.control
               /\ Inserted(Stream(t), m, Stream(u))
<1> DEFINE m == [code |-> "data", id |-> c, conn |-> k]
           u == [t EXCEPT !.encode = Append(@, m)]
           F == Stream(t)
<1>1. m \in Data /\ m \in Message
    BY DEF Data, Message
<1>2. t.encode \in Seq(Data) /\ t.encode \in Seq(Message) /\ Written(t) \in Seq(Message)
    BY TransmitType
<1>3. F \in Seq(Message) /\ F = Written(t) \o t.encode
    BY StreamType DEF Stream
<1> HIDE DEF m
<1>4. Append(t.encode, m) \in Seq(Data) /\ Append(t.encode, m) = t.encode \o << m >>
    BY <1>1, <1>2, AppendIsConcat
<1>5. /\ u \in Transmit /\ u.encode = Append(t.encode, m)
      /\ u.link = t.link /\ u.control = t.control
    BY <1>4 DEF Transmit
<1> HIDE DEF u, F
<1>6. Stream(u) = F \o << m >>
  <2> DEFINE a == Written(t)
             b == t.encode
             d == << m >>
  <2>1. a \in Seq(Message) /\ b \in Seq(Message) /\ d \in Seq(Message)
      BY <1>1, <1>2
  <2>2. Stream(u) = a \o (b \o d) /\ F = a \o b
      BY <1>3, <1>4, <1>5 DEF Stream, Written
  <2> HIDE DEF a, b, d
  <2>3. a \o (b \o d) = (a \o b) \o d
      BY <2>1, ConcatAssociative
  <2>4. QED BY <2>2, <2>3 DEF d
<1>7. Inserted(F, m, Stream(u))
  <2>1. /\ Len(F) \in 0 .. Len(F \o << >>)
        /\ Put(F \o << >>, m, Len(F), (F \o << m >>) \o << >>)
    <3>1. << >> \in Seq(Message)
        OBVIOUS
    <3>2. QED BY <1>1, <1>3, <3>1, PutMiddle
  <2>2. F \o << m >> \in Seq(Message)
      BY <1>1, <1>3, ConcatProperties
  <2>3. F \o << >> = F /\ (F \o << m >>) \o << >> = F \o << m >>
      BY <1>3, <2>2, ConcatEmptySeq
  <2>4. Put(F, m, Len(F), Stream(u)) /\ Len(F) \in 0 .. Len(F)
      BY <1>6, <2>1, <2>3
  <2>5. \A i \in Len(F) + 1 .. Len(F) : F[i].code = "data"
      BY <1>3
  <2>6. QED BY <2>4, <2>5 DEF Inserted
<1>8. QED BY <1>1, <1>5, <1>7 DEF m, u, F

(* The peer reads the first message. *)
LEMMA TailStream ==
    ASSUME NEW t \in Transmit, t.link # << >>
    PROVE  LET u == [t EXCEPT !.link = Tail(@)]
           IN  /\ u \in Transmit /\ u.control = t.control
               /\ Stream(t) # << >> /\ Head(Stream(t)) = Head(t.link)
               /\ Stream(u) = Tail(Stream(t))
<1> DEFINE u == [t EXCEPT !.link = Tail(@)]
<1>1. /\ t.link \in Seq(Message) /\ t.control \in Seq(Message)
      /\ t.encode \in Seq(Message) /\ Written(t) \in Seq(Message)
    BY TransmitType
<1>2. Tail(t.link) \in Seq(Message)
    BY <1>1, HeadTailProperties
<1>3. /\ u \in Transmit /\ u.encode = t.encode /\ u.link = Tail(t.link)
      /\ u.control = t.control
    BY <1>2 DEF Transmit
<1> HIDE DEF u
<1>4. /\ Written(t) # << >> /\ Head(Written(t)) = Head(t.link)
      /\ Tail(Written(t)) = Tail(t.link) \o t.control
    BY <1>1, TailConcat DEF Written
<1>5. /\ Written(t) \o t.encode # << >>
      /\ Head(Written(t) \o t.encode) = Head(Written(t))
      /\ Tail(Written(t) \o t.encode) = Tail(Written(t)) \o t.encode
    BY <1>1, <1>4, TailConcat
<1>6. Written(u) = Tail(Written(t))
    BY <1>3, <1>4 DEF Written
<1>7. QED BY <1>3, <1>4, <1>5, <1>6 DEF Stream, u

-----------------------------------------------------------------------------
(* Steps that are about another id *)

(* G says of the connection k of the id c what F says. *)
Alike(F, G, c, k) ==
    /\ Has(F, About(c, k)) <=> Has(G, About(c, k))
    /\ Has(F, News(c, k)) <=> Has(G, News(c, k))
    /\ Has(F, Finishes(c, k)) <=> Has(G, Finishes(c, k))
    /\ Has(F, Drops(c, k)) <=> Has(G, Drops(c, k))
    /\ Has(F, Ends(c, k)) <=> Has(G, Ends(c, k))
    /\ Has(F, Said(c, k)) <=> Has(G, Said(c, k))
    /\ Never(F, News(c, k), News(c, k)) => Never(G, News(c, k), News(c, k))
    /\ Never(F, Ends(c, k), About(c, k)) => Never(G, Ends(c, k), About(c, k))
    /\ Led(F, Later(c, k), News(c, k)) => Led(G, Later(c, k), News(c, k))
    /\ \A l : Led(F, News(c, l), Drops(c, k)) => Led(G, News(c, l), Drops(c, k))
    /\ Last(F, Begins(c, k), Said(c, k)) <=> Last(G, Begins(c, k), Said(c, k))

(* Nothing, or one message that is about the id c or a switch, is added to F or
   read from it. *)
Foreign(m, c) == m.id = c \/ m.code = "switch"

Moves(F, G, c) ==
    \/ G = F
    \/ \E m \in Message : Foreign(m, c) /\ Inserted(F, m, G)
    \/ F # << >> /\ G = Tail(F) /\ Foreign(Head(F), c)

(* A message is not about another id. *)
LEMMA ForeignKinds ==
    ASSUME NEW m \in Message, NEW c, NEW d, d # c, Foreign(m, c), NEW k
    PROVE  /\ m \notin About(d, k) /\ m \notin News(d, k) /\ m \notin Later(d, k)
           /\ m \notin Finishes(d, k) /\ m \notin Drops(d, k) /\ m \notin Ends(d, k)
           /\ m \notin Begins(d, k) /\ m \notin Said(d, k)
BY DEF Foreign, About, News, Later, Finishes, Drops, Ends, Begins, Said

(* What is said or read about an id is nothing to another. *)
LEMMA MovedAlike ==
    ASSUME NEW F \in Seq(Message), NEW G \in Seq(Message), NEW c, Moves(F, G, c),
           NEW d, d # c, NEW k
    PROVE  Alike(F, G, d, k)
<1>1. CASE G = F
    BY <1>1 DEF Alike
<1>2. CASE \E m \in Message : Foreign(m, c) /\ Inserted(F, m, G)
  <2>1. PICK m \in Message : Foreign(m, c) /\ Inserted(F, m, G)
      BY <1>2
  <2>2. /\ m \notin About(d, k) /\ m \notin News(d, k) /\ m \notin Later(d, k)
        /\ m \notin Finishes(d, k) /\ m \notin Drops(d, k) /\ m \notin Ends(d, k)
        /\ m \notin Begins(d, k) /\ m \notin Said(d, k)
        /\ \A l : m \notin News(d, l)
      BY <2>1, ForeignKinds
  <2>3. /\ Has(G, About(d, k)) <=> Has(F, About(d, k)) \/ m \in About(d, k)
        /\ Has(G, News(d, k)) <=> Has(F, News(d, k)) \/ m \in News(d, k)
        /\ Has(G, Finishes(d, k)) <=> Has(F, Finishes(d, k)) \/ m \in Finishes(d, k)
        /\ Has(G, Drops(d, k)) <=> Has(F, Drops(d, k)) \/ m \in Drops(d, k)
        /\ Has(G, Ends(d, k)) <=> Has(F, Ends(d, k)) \/ m \in Ends(d, k)
        /\ Has(G, Said(d, k)) <=> Has(F, Said(d, k)) \/ m \in Said(d, k)
      BY <2>1, InsertedHas
  <2>4. Never(F, News(d, k), News(d, k)) => Never(G, News(d, k), News(d, k))
      BY <2>1, <2>2, InsertedNews
  <2>5. Never(F, Ends(d, k), About(d, k)) => Never(G, Ends(d, k), About(d, k))
      BY <2>1, <2>2, InsertedEnds
  <2>6. Led(F, Later(d, k), News(d, k)) => Led(G, Later(d, k), News(d, k))
      BY <2>1, <2>2, InsertedLater
  <2>7. \A l : Led(F, News(d, l), Drops(d, k)) => Led(G, News(d, l), Drops(d, k))
      BY <2>1, <2>2, InsertedNext
  <2>8. Last(G, Begins(d, k), Said(d, k)) <=>
            IF m \in Said(d, k) THEN m \in Begins(d, k)
            ELSE Last(F, Begins(d, k), Said(d, k))
      BY <2>1, InsertedSaid
  <2>9. QED BY <2>2, <2>3, <2>4, <2>5, <2>6, <2>7, <2>8 DEF Alike
<1>3. CASE F # << >> /\ G = Tail(F) /\ Foreign(Head(F), c)
  <2> DEFINE m == Head(F)
  <2>1. m \in Message
      BY <1>3, HeadTailProperties
  <2>2. /\ m \notin About(d, k) /\ m \notin News(d, k) /\ m \notin Later(d, k)
        /\ m \notin Finishes(d, k) /\ m \notin Drops(d, k) /\ m \notin Ends(d, k)
        /\ m \notin Begins(d, k) /\ m \notin Said(d, k)
        /\ \A l : m \notin News(d, l)
      BY <1>3, <2>1, ForeignKinds
  <2>3. /\ Has(F, About(d, k)) <=> Has(G, About(d, k)) \/ m \in About(d, k)
        /\ Has(F, News(d, k)) <=> Has(G, News(d, k)) \/ m \in News(d, k)
        /\ Has(F, Finishes(d, k)) <=> Has(G, Finishes(d, k)) \/ m \in Finishes(d, k)
        /\ Has(F, Drops(d, k)) <=> Has(G, Drops(d, k)) \/ m \in Drops(d, k)
        /\ Has(F, Ends(d, k)) <=> Has(G, Ends(d, k)) \/ m \in Ends(d, k)
        /\ Has(F, Said(d, k)) <=> Has(G, Said(d, k)) \/ m \in Said(d, k)
      BY <1>3, TailKinds
  <2>4. Never(F, News(d, k), News(d, k)) => Never(G, News(d, k), News(d, k))
      BY <1>3, TailNews
  <2>5. Never(F, Ends(d, k), About(d, k)) => Never(G, Ends(d, k), About(d, k))
      BY <1>3, TailEnds
  <2>6. Led(F, Later(d, k), News(d, k)) => Led(G, Later(d, k), News(d, k))
      BY <1>3, <2>2, TailLater
  <2>7. \A l : Led(F, News(d, l), Drops(d, k)) => Led(G, News(d, l), Drops(d, k))
      BY <1>3, <2>2, TailNext
  <2>8. Last(F, Begins(d, k), Said(d, k)) <=>
            IF Has(G, Said(d, k)) \/ m \notin Said(d, k)
            THEN Last(G, Begins(d, k), Said(d, k)) ELSE m \in Begins(d, k)
      BY <1>3, TailSaid
  <2>9. QED BY <2>2, <2>3, <2>4, <2>5, <2>6, <2>7, <2>8 DEF Alike
<1>4. QED BY <1>1, <1>2, <1>3 DEF Moves

(* What is said of other ids disturbs nothing. *)
LEMMA FrameSound ==
    ASSUME NEW c, NEW F, NEW h, NEW g, NEW o \in Nat, Sound(c, F, h, g, o),
           NEW o2 \in Nat, o <= o2, NEW F2, Typed(F2, h, g),
           \A s \in Side : \A k : Alike(F[s], F2[s], c, k)
    PROVE  Sound(c, F2, h, g, o2)
<1>1. /\ \A r \in Side : r = "client" \/ r = "server"
      /\ \A r \in Side : Peer(r) \in Side
      /\ "client" \in Side /\ "server" \in Side
    BY DEF Side, Peer
<1>2. ASSUME NEW s \in Side, NEW k
      PROVE  /\ Alike(F[s], F2[s], c, k)
             /\ Has(F[s], About(c, k)) <=> Has(F2[s], About(c, k))
             /\ Has(F[s], News(c, k)) <=> Has(F2[s], News(c, k))
             /\ Has(F[s], Finishes(c, k)) <=> Has(F2[s], Finishes(c, k))
             /\ Has(F[s], Drops(c, k)) <=> Has(F2[s], Drops(c, k))
             /\ Has(F[s], Ends(c, k)) <=> Has(F2[s], Ends(c, k))
             /\ Has(F[s], Said(c, k)) <=> Has(F2[s], Said(c, k))
             /\ Last(F[s], Begins(c, k), Said(c, k)) <=> Last(F2[s], Begins(c, k), Said(c, k))
  <2>1. Alike(F[s], F2[s], c, k)
      OBVIOUS
  <2>2. QED BY <2>1 DEF Alike
<1>3. Numbered(c, F2, h, o2)
  <2>1. Numbered(c, F, h, o) /\ Conn \subseteq Nat
      BY PoliteType DEF Sound
  <2>2. \A s \in Side : h[s].conn \in Nat
      BY ChannelType DEF Typed
  <2>3. \A s \in Side : h[s].conn <= o2
      BY <2>1, <2>2 DEF Numbered
  <2>4. \A s \in Side, k \in Conn : Has(F2[s], About(c, k)) => k <= o2
      BY <1>2, <2>1 DEF Numbered
  <2>5. QED BY <1>2, <2>1, <2>3, <2>4 DEF Numbered
<1>4. ClientOpens(c, F2)
    BY <1>1, <1>2 DEF Sound, ClientOpens
<1>5. Unread(h, g)
    BY DEF Sound
<1>6. ASSUME NEW k \in Polite
      PROVE  Opening(c, k, F2, h, g)
  <2>1. Opening(c, k, F, h, g)
      BY DEF Sound
  <2>2. Never(F2["client"], News(c, k), News(c, k))
      BY <1>1, <1>2, <2>1 DEF Opening, Alike
  <2>3. QED BY <1>1, <1>2, <2>1, <2>2 DEF Opening
<1>7. ASSUME NEW k \in Polite
      PROVE  Succeeds(c, k, F2, h)
  <2>1. Succeeds(c, k, F, h)
      BY DEF Sound
  <2>2. \A l : Led(F["client"], News(c, l), Drops(c, k))
                   => Led(F2["client"], News(c, l), Drops(c, k))
      BY <1>1, <1>2 DEF Alike
  <2>3. QED BY <1>1, <1>2, <2>1, <2>2 DEF Succeeds
<1>8. ASSUME NEW k \in Polite, NEW s \in Side
      PROVE  Upheld(c, k, s, F2, h, g)
  <2>1. Upheld(c, k, s, F, h, g)
      BY DEF Sound
  <2>2. Ended(c, k, s, F2)
      BY <1>2, <2>1 DEF Upheld, Ended, Alike
  <2>3. Pressed(c, k, s, F2, h, g)
      BY <1>2, <2>1 DEF Upheld, Pressed
  <2>4. QED BY <1>1, <1>2, <2>1, <2>2, <2>3
            DEF Upheld, Heard, Closing, Dropped, Finishing, Dropping
<1>9. ASSUME NEW k \in Conn, NEW s \in Side
      PROVE  Introduced(c, k, s, F2, h)
  <2>1. Introduced(c, k, s, F, h)
      BY DEF Sound
  <2>2. Led(F[s], Later(c, k), News(c, k)) => Led(F2[s], Later(c, k), News(c, k))
      BY <1>2 DEF Alike
  <2>3. QED BY <2>1, <2>2 DEF Introduced
<1>10. QED BY <1>3, <1>4, <1>5, <1>6, <1>7, <1>8, <1>9 DEF Sound

(* The two channels with an id, and the congestions for it. *)
Pair(chans, c) == [s \in Side |-> chans[s][c]]
Held(congs, c) == [s \in Side |-> c \in congs[s]]

AllSound(F, chans, congs, o) ==
    \A c \in Id : Sound(c, F, Pair(chans, c), Held(congs, c), o)

(* The step concerns the id c only. *)
Apart(F, chans, congs, F2, chans2, congs2, c) ==
    /\ F \in [Side -> Seq(Message)] /\ F2 \in [Side -> Seq(Message)]
    /\ \A s \in Side : Moves(F[s], F2[s], c)
    /\ \A s \in Side, d \in Id \ {c} : chans2[s][d] = chans[s][d]
    /\ \A s \in Side, d \in Id \ {c} : d \in congs2[s] <=> d \in congs[s]

(* A step about one id leaves what holds for the others. *)
LEMMA OneSound ==
    ASSUME NEW F, NEW chans, NEW congs, NEW o \in Nat, AllSound(F, chans, congs, o),
           NEW F2, NEW chans2, NEW congs2, NEW o2 \in Nat, o <= o2,
           NEW c \in Id, Apart(F, chans, congs, F2, chans2, congs2, c),
           Sound(c, F2, Pair(chans2, c), Held(congs2, c), o2)
    PROVE  AllSound(F2, chans2, congs2, o2)
<1> SUFFICES ASSUME NEW d \in Id, d # c
             PROVE  Sound(d, F2, Pair(chans2, d), Held(congs2, d), o2)
    BY DEF AllSound
<1>1. Pair(chans2, d) = Pair(chans, d)
    BY DEF Pair, Apart
<1>2. Held(congs2, d) = Held(congs, d)
    BY DEF Held, Apart
<1>3. Sound(d, F, Pair(chans, d), Held(congs, d), o)
    BY DEF AllSound
<1>4. \A s \in Side : \A k : Alike(F[s], F2[s], d, k)
    BY MovedAlike DEF Apart
<1>5. Typed(F2, Pair(chans, d), Held(congs, d))
    BY <1>3 DEF Sound, Typed, Apart
<1>6. QED BY <1>1, <1>2, <1>3, <1>4, <1>5, FrameSound

-----------------------------------------------------------------------------
(* The steps as relations between what is had and said of an id *)

(* The steps above, as relations between what two proxies have and say of an id
   before and after. *)
Before(c, F, h, g, o, s) ==
    s \in Side /\ o \in Nat /\ Sound(c, F, h, g, o)

Writes(F, s, m, c, k, G, F2) ==
    /\ m \in Message /\ m.id = c /\ m.conn = k
    /\ G \in Seq(Message) /\ Inserted(F[s], m, G)
    /\ F2[s] = G /\ F2[Peer(s)] = F[Peer(s)]

Hears(F, s, m, c, F2) ==
    /\ F[Peer(s)] # << >> /\ m \in Message /\ m = Head(F[Peer(s)]) /\ m.id = c
    /\ F2[Peer(s)] = Tail(F[Peer(s)]) /\ F2[s] = F[s]

Becomes(h, s, x, h2) ==
    x \in Channel /\ h2[s] = x /\ h2[Peer(s)] = h[Peer(s)]

Marks(h, s, x, h2) ==
    Becomes(h, s, x, h2) /\ h[s] # None /\ x.conn = h[s].conn

Talks(c, F, h, g, o, s, m, G, x, F2, h2) ==
    /\ Before(c, F, h, g, o, s) /\ Typed(F2, h2, g)
    /\ Writes(F, s, m, c, h[s].conn, G, F2) /\ Marks(h, s, x, h2)
    /\ m.code \in {"data", "begin", "end"} /\ ~h[s].finish
    /\ x.finish = h[s].finish /\ x.closing = h[s].closing /\ x.drop = h[s].drop
    /\ m.code = "data" => x.congestion = h[s].congestion
    /\ m.code # "data" => (x.congestion <=> m.code = "begin")

(* A channel talks. *)
LEMMA TalkStep ==
    ASSUME RudeLast, NEW c, NEW F, NEW h, NEW g, NEW o, NEW s, NEW m, NEW G, NEW x,
           NEW F2, NEW h2, Talks(c, F, h, g, o, s, m, G, x, F2, h2)
    PROVE  Sound(c, F2, h2, g, o)
BY TalkSound DEF Talks, Before, Writes, Marks, Becomes

Leaves(c, F, h, g, o, s, m, G, x, F2, h2) ==
    /\ Before(c, F, h, g, o, s) /\ Typed(F2, h2, g)
    /\ Writes(F, s, m, c, h[s].conn, G, F2) /\ Behind(F[s], m, G, c)
    /\ Marks(h, s, x, h2)
    /\ m.code = "finish" /\ ~h[s].finish
    /\ h[s].conn \in Polite => ~(h[Peer(s)].conn = h[s].conn /\ h[Peer(s)].finish)
    /\ x.finish /\ x.closing = h[s].closing /\ x.drop = h[s].drop

(* It says that it is finished. *)
LEMMA LeaveStep ==
    ASSUME RudeLast, NEW c, NEW F, NEW h, NEW g, NEW o, NEW s, NEW m, NEW G, NEW x,
           NEW F2, NEW h2, Leaves(c, F, h, g, o, s, m, G, x, F2, h2)
    PROVE  Sound(c, F2, h2, g, o)
BY FinishedSound DEF Leaves, Before, Writes, Marks, Becomes

Removes(c, F, h, g, o, s, m, G, F2, h2, g2) ==
    /\ Before(c, F, h, g, o, s) /\ Typed(F2, h2, g2)
    /\ h[s] # None /\ (h[s].closing \/ h[s].drop)
    /\ m \in Message /\ m.id = c /\ m.conn = h[s].conn /\ m.code = "drop"
    /\ G \in Seq(Message)
    /\ h[s].closing => Inserted(F[s], m, G) /\ Behind(F[s], m, G, c)
    /\ ~h[s].closing => G = F[s]
    /\ F2[s] = G /\ F2[Peer(s)] = F[Peer(s)]
    /\ h2[s] = None /\ h2[Peer(s)] = h[Peer(s)]
    /\ ~g2[s] /\ g2[Peer(s)] = g[Peer(s)]

(* It is got rid of. *)
LEMMA RemoveStep ==
    ASSUME RudeLast, NEW c, NEW F, NEW h, NEW g, NEW o, NEW s, NEW m, NEW G,
           NEW F2, NEW h2, NEW g2, Removes(c, F, h, g, o, s, m, G, F2, h2, g2)
    PROVE  Sound(c, F2, h2, g2, o)
BY RemoveSound DEF Removes, Before

Unmarked(x) == ~x.finish /\ ~x.closing /\ ~x.drop /\ ~x.congestion

Accepts(c, F, h, g, o, m, G, x, F2, h2) ==
    /\ Before(c, F, h, g, o, "client") /\ Typed(F2, h2, g)
    /\ h["client"] = None /\ o + 1 \in Conn
    /\ Writes(F, "client", m, c, o + 1, G, F2) /\ m.code = "new"
    /\ Becomes(h, "client", x, h2) /\ x.conn = o + 1 /\ Unmarked(x)

(* A connection is accepted. *)
LEMMA AcceptStep ==
    ASSUME RudeLast, NEW c, NEW F, NEW h, NEW g, NEW o, NEW m, NEW G, NEW x,
           NEW F2, NEW h2, Accepts(c, F, h, g, o, m, G, x, F2, h2)
    PROVE  Sound(c, F2, h2, g, o + 1)
<1>1. Peer("client") = "server"
    BY DEF Peer
<1>2. QED BY <1>1, AcceptedSound DEF Accepts, Before, Writes, Becomes, Unmarked

Ignores(c, F, h, g, o, s, m, F2, g2) ==
    /\ Before(c, F, h, g, o, s) /\ Typed(F2, h, g2)
    /\ Hears(F, s, m, c, F2) /\ m.code # "switch"
    /\ m.code = "new" => m.conn \notin Polite /\ h[s].conn \notin Polite
    /\ m.code \in {"finish", "drop"} => h[s] = None
    /\ m.code \notin {"begin", "end"} => g2[s] = g[s]
    /\ m.code \in {"begin", "end"} /\ h[s] = None => ~g2[s]
    /\ m.code \in {"begin", "end"} /\ h[s] # None => (g2[s] <=> m.code = "begin")
    /\ g2[Peer(s)] = g[Peer(s)]

(* What is read changes at most a congestion. *)
LEMMA IgnoreStep ==
    ASSUME NEW c, NEW F, NEW h, NEW g, NEW o, NEW s, NEW m,
           NEW F2, NEW g2, Ignores(c, F, h, g, o, s, m, F2, g2)
    PROVE  Sound(c, F2, h, g2, o)
BY ReadSound DEF Ignores, Before, Hears

HearsFinish(c, F, h, g, o, s, m, x, F2, h2, g2) ==
    /\ Before(c, F, h, g, o, s) /\ Typed(F2, h2, g2)
    /\ Hears(F, s, m, c, F2) /\ m.code = "finish"
    /\ Marks(h, s, x, h2) /\ x.finish /\ x.closing /\ x.drop = h[s].drop
    /\ ~g2[s] /\ g2[Peer(s)] = g[Peer(s)]

(* The end of the peer is read. *)
LEMMA HearFinishStep ==
    ASSUME NEW c, NEW F, NEW h, NEW g, NEW o, NEW s, NEW m, NEW x,
           NEW F2, NEW h2, NEW g2, HearsFinish(c, F, h, g, o, s, m, x, F2, h2, g2)
    PROVE  Sound(c, F2, h2, g2, o)
BY FinishReadSound DEF HearsFinish, Before, Hears, Marks, Becomes

HearsDrop(c, F, h, g, o, s, m, x, F2, h2) ==
    /\ Before(c, F, h, g, o, s) /\ Typed(F2, h2, g)
    /\ Hears(F, s, m, c, F2) /\ m.code = "drop"
    /\ Marks(h, s, x, h2) /\ x.finish = h[s].finish /\ x.closing = h[s].closing
    /\ x.drop /\ x.congestion = h[s].congestion

(* The drop of the peer is read. *)
LEMMA HearDropStep ==
    ASSUME NEW c, NEW F, NEW h, NEW g, NEW o, NEW s, NEW m, NEW x,
           NEW F2, NEW h2, HearsDrop(c, F, h, g, o, s, m, x, F2, h2)
    PROVE  Sound(c, F2, h2, g, o)
BY DropReadSound DEF HearsDrop, Before, Hears, Marks, Becomes

HearsNew(c, F, h, g, o, m, x, F2, h2, g2) ==
    /\ Before(c, F, h, g, o, "server") /\ Typed(F2, h2, g2)
    /\ Hears(F, "server", m, c, F2) /\ m.code = "new" /\ h["server"] = None
    /\ Becomes(h, "server", x, h2) /\ x.conn = m.conn /\ Unmarked(x)
    /\ ~g2["server"] /\ g2["client"] = g["client"]

(* A connection is opened for the peer. *)
LEMMA HearNewStep ==
    ASSUME RudeLast, NEW c, NEW F, NEW h, NEW g, NEW o, NEW m, NEW x,
           NEW F2, NEW h2, NEW g2, HearsNew(c, F, h, g, o, m, x, F2, h2, g2)
    PROVE  Sound(c, F2, h2, g2, o)
<1>1. Peer("server") = "client"
    BY DEF Peer
<1>2. QED BY <1>1, NewReadSound DEF HearsNew, Before, Hears, Becomes, Unmarked

Breaks(c, F, h, g, o, s, x, h2, g2) ==
    /\ Before(c, F, h, g, o, s) /\ Typed(F, h2, g2)
    /\ Marks(h, s, x, h2) /\ h[s].conn \notin Polite
    /\ ~g2[s] /\ g2[Peer(s)] = g[Peer(s)]

(* A rude connection breaks. *)
LEMMA BreakStep ==
    ASSUME NEW c, NEW F, NEW h, NEW g, NEW o, NEW s, NEW x, NEW h2, NEW g2,
           Breaks(c, F, h, g, o, s, x, h2, g2)
    PROVE  Sound(c, F, h2, g2, o)
BY FailsSound DEF Breaks, Before, Marks, Becomes

Refuses(c, F, h, g, o, m, G, F2) ==
    /\ Before(c, F, h, g, o, "server") /\ Typed(F2, h, g)
    /\ Writes(F, "server", m, c, m.conn, G, F2)
    /\ m.code = "drop" /\ m.conn \notin Polite
    /\ m.conn <= o /\ (h["client"] # None => m.conn <= h["client"].conn)

(* A rude connection is refused. *)
LEMMA RefuseStep ==
    ASSUME RudeLast, NEW c, NEW F, NEW h, NEW g, NEW o, NEW m, NEW G, NEW F2,
           Refuses(c, F, h, g, o, m, G, F2)
    PROVE  Sound(c, F2, h, g, o)
<1>1. Peer("server") = "client"
    BY DEF Peer
<1>2. QED BY <1>1, RefusedSound DEF Refuses, Before, Writes

FindsUsed(c, F, h, g, o, m) ==
    /\ Before(c, F, h, g, o, "server") /\ F["client"] # << >>
    /\ m \in Message /\ m = Head(F["client"]) /\ m.id = c /\ m.code = "new"
    /\ h["server"] # None /\ ~h["server"].drop

(* A connection that finds its id in use, and the one it finds, are rude. *)
LEMMA FindUsed ==
    ASSUME RudeLast, NEW c, NEW F, NEW h, NEW g, NEW o, NEW m, FindsUsed(c, F, h, g, o, m)
    PROVE  m.conn \notin Polite /\ h["server"].conn \notin Polite
BY NewFinds DEF FindsUsed, Before

Shape(F, chans, congs) ==
    /\ F \in [Side -> Seq(Message)]
    /\ chans \in [Side -> [Id -> Channel \cup {None}]]
    /\ congs \in [Side -> SUBSET Id]

(* A step of s about the id c, with at most one message of r about it. *)
Turn(F, chans, congs, F2, chans2, congs2, s, r, c) ==
    /\ s \in Side /\ r \in Side /\ c \in Id
    /\ Shape(F, chans, congs) /\ Shape(F2, chans2, congs2)
    /\ Moves(F[r], F2[r], c) /\ F2[Peer(r)] = F[Peer(r)]
    /\ chans2[Peer(s)] = chans[Peer(s)] /\ congs2[Peer(s)] = congs[Peer(s)]
    /\ \A d \in Id \ {c} : chans2[s][d] = chans[s][d]
    /\ \A d \in Id \ {c} : d \in congs2[s] <=> d \in congs[s]

(* What a step about the id c has to show. *)
LEMMA After ==
    ASSUME NEW F, NEW chans, NEW congs, NEW o \in Nat, AllSound(F, chans, congs, o),
           NEW F2, NEW chans2, NEW congs2, NEW o2 \in Nat, o <= o2,
           NEW s, NEW r, NEW c, Turn(F, chans, congs, F2, chans2, congs2, s, r, c)
    PROVE  /\ Sound(c, F, Pair(chans, c), Held(congs, c), o)
           /\ Typed(F2, Pair(chans2, c), Held(congs2, c))
           /\ Sound(c, F2, Pair(chans2, c), Held(congs2, c), o2)
                  => AllSound(F2, chans2, congs2, o2)
           /\ \A q \in Side : /\ Pair(chans, c)[q] = chans[q][c]
                              /\ Pair(chans2, c)[q] = chans2[q][c]
                              /\ Held(congs, c)[q] <=> c \in congs[q]
                              /\ Held(congs2, c)[q] <=> c \in congs2[q]
           /\ Pair(chans2, c)[Peer(s)] = Pair(chans, c)[Peer(s)]
           /\ Held(congs2, c)[Peer(s)] = Held(congs, c)[Peer(s)]
<1>1. /\ s \in Side /\ r \in Side /\ c \in Id
      /\ Shape(F, chans, congs) /\ Shape(F2, chans2, congs2)
      /\ Moves(F[r], F2[r], c) /\ F2[Peer(r)] = F[Peer(r)]
      /\ chans2[Peer(s)] = chans[Peer(s)] /\ congs2[Peer(s)] = congs[Peer(s)]
      /\ \A d \in Id \ {c} : chans2[s][d] = chans[s][d]
      /\ \A d \in Id \ {c} : d \in congs2[s] <=> d \in congs[s]
    BY DEF Turn
<1>2. /\ \A q \in Side : q = s \/ q = Peer(s)
      /\ \A q \in Side : q = r \/ q = Peer(r)
    BY <1>1 DEF Side, Peer
<1>3. Sound(c, F, Pair(chans, c), Held(congs, c), o)
    BY <1>1 DEF AllSound
<1>4. Typed(F2, Pair(chans2, c), Held(congs2, c))
    BY <1>1 DEF Typed, Shape, Pair, Held
<1>5. ASSUME Sound(c, F2, Pair(chans2, c), Held(congs2, c), o2)
      PROVE  AllSound(F2, chans2, congs2, o2)
  <2>1. \A q \in Side : Moves(F[q], F2[q], c)
      BY <1>1, <1>2 DEF Moves
  <2>2. \A q \in Side, d \in Id \ {c} : chans2[q][d] = chans[q][d]
      BY <1>1, <1>2
  <2>3. \A q \in Side, d \in Id \ {c} : d \in congs2[q] <=> d \in congs[q]
      BY <1>1, <1>2
  <2>4. F \in [Side -> Seq(Message)] /\ F2 \in [Side -> Seq(Message)]
      BY <1>1 DEF Shape
  <2>5. Apart(F, chans, congs, F2, chans2, congs2, c)
      BY <2>1, <2>2, <2>3, <2>4 DEF Apart
  <2>6. QED BY <1>1, <1>5, <2>5, OneSound
<1>6. \A q \in Side : /\ Pair(chans, c)[q] = chans[q][c]
                     /\ Pair(chans2, c)[q] = chans2[q][c]
                     /\ Held(congs, c)[q] = (c \in congs[q])
                     /\ Held(congs2, c)[q] = (c \in congs2[q])
    BY DEF Pair, Held
<1>7. Peer(s) \in Side
    BY <1>1, Sides
<1>8. /\ Pair(chans2, c)[Peer(s)] = Pair(chans, c)[Peer(s)]
      /\ Held(congs2, c)[Peer(s)] = Held(congs, c)[Peer(s)]
    BY <1>1, <1>6, <1>7
<1>9. QED BY <1>3, <1>4, <1>5, <1>6, <1>8

(* The codes kept apart announce connections and selections only. *)
Plain(t) == \A i \in 1 .. Len(t.control) : t.control[i].code \in {"new", "switch"}

Flow(x) == [s \in Side |-> Stream(x[s])]

CInv ==
    /\ Inv
    /\ AllSound(Flow(tx), channels, congestions, opened)
    /\ \A s \in Side : Plain(tx[s])

(* The streams of the two proxies. *)
LEMMA FlowType ==
    ASSUME NEW x \in [Side -> Transmit]
    PROVE  /\ Flow(x) \in [Side -> Seq(Message)]
           /\ \A s \in Side : Flow(x)[s] = Stream(x[s])
BY StreamType DEF Flow

(* The types of what is had and said. *)
LEMMA NowShape ==
    ASSUME TypeOK
    PROVE  /\ Shape(Flow(tx), channels, congestions) /\ opened \in Nat
           /\ \A s \in Side : Flow(tx)[s] = Stream(tx[s])
BY FlowType, LimitAssumption DEF TypeOK, Shape

(* No code is kept apart. *)
LEMMA PlainEmpty ==
    ASSUME NEW u, u.control = << >>
    PROVE  Plain(u)
BY DEF Plain

(* An announcement or a selection may be kept apart. *)
LEMMA PlainMore ==
    ASSUME NEW t \in Transmit, Plain(t), NEW u, NEW m,
           m.code \in {"new", "switch"},
           \/ u.control = t.control
           \/ u.control = << >>
           \/ u.control = Append(t.control, m)
           \/ u.control = Append(<< >>, m)
    PROVE  Plain(u)
<1>1. t.control \in Seq(Code)
    BY TransmitType
<1>2. CASE u.control = t.control
    BY <1>2 DEF Plain
<1>3. CASE u.control = << >>
    BY <1>3 DEF Plain
<1>4. CASE u.control = Append(t.control, m)
    BY <1>1, <1>4 DEF Plain
<1>5. CASE u.control = Append(<< >>, m)
    BY <1>5 DEF Plain
<1>6. QED BY <1>2, <1>3, <1>4, <1>5

(* What a local step leaves of the streams. *)
LEMMA LocalFlow ==
    ASSUME TypeOK, NEW s \in Side, NEW u \in Transmit, tx' = [tx EXCEPT ![s] = u],
           \A q \in Side : Plain(tx[q]), Plain(u)
    PROVE  /\ tx'[s] = u /\ tx'[Peer(s)] = tx[Peer(s)] /\ tx' \in [Side -> Transmit]
           /\ Flow(tx')[s] = Stream(u)
           /\ Flow(tx')[Peer(s)] = Flow(tx)[Peer(s)]
           /\ \A q \in Side : Plain(tx'[q])
<1>1. tx' \in [Side -> Transmit] /\ tx'[s] = u
    BY DEF TypeOK
<1>2. \A q \in Side \ {s} : tx'[q] = tx[q]
    BY DEF TypeOK
<1>3. Peer(s) \in Side \ {s}
    BY DEF Side, Peer
<1>4. QED BY <1>1, <1>2, <1>3, FlowType DEF TypeOK

-----------------------------------------------------------------------------
(* The actions *)

(* A switch is about no connection. *)
LEMMA SwitchAlike ==
    ASSUME NEW F \in Seq(Message), NEW G \in Seq(Message), NEW d, NEW k,
           \/ G = F
           \/ \E m \in Message : m.code = "switch" /\ Inserted(F, m, G)
           \/ F # << >> /\ G = Tail(F) /\ Head(F).code = "switch"
    PROVE  Alike(F, G, d, k)
<1> DEFINE c == IF d = 0 THEN 1 ELSE 0
<1>1. d # c
    OBVIOUS
<1>2. Moves(F, G, c)
    BY DEF Moves, Foreign
<1> HIDE DEF c
<1>3. QED BY <1>1, <1>2, MovedAlike

(* What is all the same is all the same in two steps. *)
LEMMA AlikeBoth ==
    ASSUME NEW F, NEW G, NEW H, NEW d, NEW k, Alike(F, G, d, k), Alike(G, H, d, k)
    PROVE  Alike(F, H, d, k)
BY DEF Alike

(* Nothing changes but for the id c at s. *)
Elsewhere(s, c) ==
    /\ channels'[Peer(s)] = channels[Peer(s)] /\ congestions'[Peer(s)] = congestions[Peer(s)]
    /\ \A d \in Id \ {c} : channels'[s][d] = channels[s][d]
    /\ \A d \in Id \ {c} : d \in congestions'[s] <=> d \in congestions[s]

(* A step about the id c keeps the invariant if it keeps that of c. *)
LEMMA Onward ==
    ASSUME CInv, Inv', NEW s \in Side, NEW c \in Id, opened <= opened', Elsewhere(s, c),
           \A q \in Side, d \in Id \ {c} : \A k : Alike(Flow(tx)[q], Flow(tx')[q], d, k),
           \A q \in Side : Plain(tx'[q]),
           Sound(c, Flow(tx'), Pair(channels', c), Held(congestions', c), opened')
    PROVE  CInv'
<1> DEFINE F == Flow(tx)
           F2 == Flow(tx')
<1>1. TypeOK /\ TypeOK' /\ opened \in Nat /\ opened' \in Nat
    BY LimitAssumption DEF CInv, Inv, TypeOK
<1>2. F2 \in [Side -> Seq(Message)]
    BY <1>1, FlowType DEF TypeOK
<1>3. \A q \in Side : q = s \/ q = Peer(s)
    BY DEF Side, Peer
<1> HIDE DEF F, F2
<1>4. ASSUME NEW d \in Id, d # c
      PROVE  Sound(d, F2, Pair(channels', d), Held(congestions', d), opened')
  <2>1. Pair(channels', d) = Pair(channels, d)
      BY <1>3, <1>4 DEF Pair, Elsewhere
  <2>2. Held(congestions', d) = Held(congestions, d)
      BY <1>3, <1>4 DEF Held, Elsewhere
  <2>3. Sound(d, F, Pair(channels, d), Held(congestions, d), opened)
      BY <1>4 DEF CInv, AllSound, F
  <2>4. Typed(F2, Pair(channels, d), Held(congestions, d))
      BY <1>2, <2>3 DEF Sound, Typed
  <2>5. \A q \in Side : \A k : Alike(F[q], F2[q], d, k)
      BY <1>4 DEF F, F2
  <2>6. QED BY <1>1, <2>1, <2>2, <2>3, <2>4, <2>5, FrameSound
<1>5. AllSound(F2, channels', congestions', opened')
  <2>1. Sound(c, F2, Pair(channels', c), Held(congestions', c), opened')
      BY DEF F2
  <2>2. QED BY <1>4, <2>1 DEF AllSound
<1>6. QED BY <1>5 DEF CInv, F2

(* What a proxy does by itself about the id c. *)
Locally(s, c, u, x) ==
    /\ u \in Transmit /\ x \in Channel \cup {None}
    /\ tx' = [tx EXCEPT ![s] = u] /\ Plain(u)
    /\ channels' = [channels EXCEPT ![s][c] = x]
    /\ congestions'[Peer(s)] = congestions[Peer(s)]
    /\ \A d \in Id \ {c} : d \in congestions'[s] <=> d \in congestions[s]
    /\ opened <= opened'
    /\ \A d \in Id \ {c} : \A k : Alike(Stream(tx[s]), Stream(u), d, k)

Ahead(s, c, u, x, F, h, g, o, F2, h2, g2) ==
    /\ Before(c, F, h, g, o, s) /\ Typed(F2, h2, g2)
    /\ F[s] = Stream(tx[s]) /\ F2[s] = Stream(u) /\ F2[Peer(s)] = F[Peer(s)]
    /\ h[s] = channels[s][c] /\ h2[s] = x /\ h2[Peer(s)] = h[Peer(s)]
    /\ g2[s] <=> c \in congestions'[s]
    /\ g2[Peer(s)] = g[Peer(s)]
    /\ congestions' = congestions => g2 = g

(* What a proxy knows of congestions changes with its own set only. *)
LEMMA HeldAs ==
    ASSUME NEW congs, NEW congs2, NEW c, NEW q \in Side, congs2[q] = congs[q]
    PROVE  Held(congs2, c)[q] = Held(congs, c)[q]
BY DEF Held

(* A proxy acts by itself. *)
LEMMA LocalStep ==
    ASSUME CInv, Inv', NEW s \in Side, NEW c \in Id, NEW u, NEW x, Locally(s, c, u, x)
    PROVE  /\ Ahead(s, c, u, x, Flow(tx), Pair(channels, c), Held(congestions, c), opened,
                    Flow(tx'), Pair(channels', c), Held(congestions', c))
           /\ Sound(c, Flow(tx'), Pair(channels', c), Held(congestions', c), opened')
                  => CInv'
<1> DEFINE F == Flow(tx)
           F2 == Flow(tx')
           p == Peer(s)
<1>1. /\ TypeOK /\ TypeOK' /\ tx[s] \in Transmit
      /\ u \in Transmit /\ x \in Channel \cup {None} /\ tx' = [tx EXCEPT ![s] = u]
      /\ p \in Side /\ p # s /\ \A q \in Side : q = s \/ q = p
    BY DEF CInv, Inv, TypeOK, Locally, Side, Peer
<1>2. /\ F2[s] = Stream(u) /\ F2[p] = F[p] /\ \A q \in Side : Plain(tx'[q])
    BY <1>1, LocalFlow DEF Locally, CInv
<1>3. /\ channels'[p] = channels[p] /\ channels'[s][c] = x
      /\ \A d \in Id \ {c} : channels'[s][d] = channels[s][d]
    BY <1>1, ChannelChanged DEF Locally
<1>4. /\ Shape(F, channels, congestions) /\ opened \in Nat
      /\ F[s] = Stream(tx[s]) /\ F \in [Side -> Seq(Message)]
    BY <1>1, NowShape DEF Shape
<1>5. F2 \in [Side -> Seq(Message)]
    BY <1>1, FlowType DEF TypeOK
<1>6. Typed(F2, Pair(channels', c), Held(congestions', c))
  <2>1. channels' \in [Side -> [Id -> Channel \cup {None}]]
      BY <1>1 DEF TypeOK
  <2>2. Pair(channels', c) \in [Side -> Channel \cup {None}]
      BY <2>1 DEF Pair
  <2>3. Held(congestions', c) \in [Side -> BOOLEAN]
      BY DEF Held
  <2> HIDE DEF F2
  <2>4. QED BY <1>5, <2>2, <2>3 DEF Typed
<1>7. Before(c, F, Pair(channels, c), Held(congestions, c), opened, s)
    BY <1>4 DEF Before, CInv, AllSound
<1>8. /\ Pair(channels, c)[s] = channels[s][c] /\ Pair(channels', c)[s] = x
      /\ Pair(channels', c)[p] = Pair(channels, c)[p]
    BY <1>1, <1>3 DEF Pair
<1>9. /\ Held(congestions', c)[s] <=> c \in congestions'[s]
      /\ Held(congestions', c)[p] = Held(congestions, c)[p]
  <2>1. congestions'[p] = congestions[p]
      BY DEF Locally
  <2>2. QED BY <1>1, <2>1, HeldAs DEF Held
<1>10. Elsewhere(s, c)
    BY <1>3 DEF Elsewhere, Locally
<1>11. \A q \in Side, d \in Id \ {c} : \A k : Alike(F[q], F2[q], d, k)
  <2>1. \A d \in Id \ {c} : \A k : Alike(F[s], F2[s], d, k)
      BY <1>2, <1>4 DEF Locally
  <2>2. \A d \in Id \ {c} : \A k : Alike(F[p], F2[p], d, k)
    <3>1. F[p] \in Seq(Message)
        BY <1>1, <1>4
    <3>2. \A d, k : Alike(F[p], F[p], d, k)
        BY <3>1, SwitchAlike
    <3>3. QED BY <1>2, <3>2
  <2>3. QED BY <1>1, <2>1, <2>2
<1>12. Sound(c, F2, Pair(channels', c), Held(congestions', c), opened') => CInv'
  <2>1. opened <= opened'
      BY DEF Locally
  <2>2. QED BY <1>2, <1>10, <1>11, <2>1, Onward
<1>13. QED BY <1>2, <1>4, <1>6, <1>7, <1>8, <1>9, <1>12 DEF Ahead

(* What is written about the id c, or nothing, is all the same to the others. *)
LEMMA InsertedAlike ==
    ASSUME NEW F \in Seq(Message), NEW G \in Seq(Message), NEW c \in Id,
           NEW m \in Message, m.id = c, G = F \/ Inserted(F, m, G)
    PROVE  \A d \in Id \ {c} : \A k : Alike(F, G, d, k)
BY MovedAlike DEF Moves, Foreign

(* A connection took what was waiting for it. *)
LEMMA DecongestionSound ==
    ASSUME RudeLast, CInv, NEW s \in Side, NEW c \in Id, handleDecongestion(s, c), Inv'
    PROVE  CInv'
<1> DEFINE k == channels[s][c].conn
           u == handleControl(tx[s], "end", c, k)
           m == [code |-> "end", id |-> c, conn |-> k]
           x == [channels[s][c] EXCEPT !.congestion = FALSE]
           F == Flow(tx)
           F2 == Flow(tx')
           h == Pair(channels, c)
           g == Held(congestions, c)
           h2 == Pair(channels', c)
           g2 == Held(congestions', c)
           o == opened
<1>1. TypeOK /\ tx[s] \in Transmit /\ o \in Nat
    BY LimitAssumption DEF CInv, Inv, TypeOK
<1>2. channels[s][c] \in Channel /\ channels[s][c] # None /\ ~channels[s][c].finish
    BY <1>1 DEF handleDecongestion, Open, TypeOK
<1>3. k \in Conn /\ x \in Channel /\ x.conn = k /\ x.finish = channels[s][c].finish
      /\ x.closing = channels[s][c].closing /\ x.drop = channels[s][c].drop
      /\ x.congestion = FALSE
    BY <1>2 DEF Channel
<1>4. /\ tx' = [tx EXCEPT ![s] = u] /\ congestions' = congestions /\ opened' = opened
      /\ channels' = [channels EXCEPT ![s][c] = x]
    BY <1>1, <1>2 DEF handleDecongestion, TypeOK
<1>5. m.id = c /\ m.conn = k /\ m.code = "end"
    OBVIOUS
<1> HIDE DEF x, k
<1>6. /\ m \in Message /\ u \in Transmit /\ u.control = << >>
      /\ Inserted(Stream(tx[s]), m, Stream(u))
    BY <1>1, <1>3, ControlStream
<1> HIDE DEF u, m
<1>7. Stream(tx[s]) \in Seq(Message) /\ Stream(u) \in Seq(Message)
    BY <1>1, <1>6, StreamType
<1>8. Locally(s, c, u, x)
  <2>1. \A d \in Id \ {c} : \A l : Alike(Stream(tx[s]), Stream(u), d, l)
      BY <1>5, <1>6, <1>7, InsertedAlike
  <2>2. QED BY <1>1, <1>3, <1>4, <1>6, <2>1, PlainEmpty DEF Locally
<1>9. /\ Ahead(s, c, u, x, F, h, g, o, F2, h2, g2)
      /\ Sound(c, F2, h2, g2, opened') => CInv'
    BY <1>8, LocalStep
<1> HIDE DEF F, h, g, F2, h2, g2, o
<1>10. Talks(c, F, h, g, o, s, m, Stream(u), x, F2, h2) /\ g2 = g
    BY <1>2, <1>3, <1>4, <1>5, <1>6, <1>7, <1>9
       DEF Talks, Ahead, Before, Writes, Marks, Becomes, k
<1>11. Sound(c, F2, h2, g, o)
    BY <1>10, TalkStep
<1>12. QED BY <1>4, <1>9, <1>10, <1>11 DEF o

(* The client proxy gives a free id to a connection. *)
LEMMA NewConnectionSound ==
    ASSUME RudeLast, CInv, handleNewConnection, Inv'
    PROVE  CInv'
<1> DEFINE s == "client"
<1>1. PICK c \in Id :
          /\ ~Open(s, c)
          /\ channels' = [channels EXCEPT ![s][c] = Fresh(opened')]
          /\ tx' = [tx EXCEPT ![s] = addControlCodes(@, "new", c, opened')]
    BY DEF handleNewConnection
<1>2. /\ TypeOK /\ s \in Side /\ tx[s] \in Transmit /\ opened \in Nat
      /\ opened' = opened + 1 /\ opened' \in Conn /\ congestions' = congestions
    BY LimitAssumption DEF handleNewConnection, CInv, Inv, TypeOK, Conn, Side
<1> DEFINE u == addControlCodes(tx[s], "new", c, opened')
           m == [code |-> "new", id |-> c, conn |-> opened']
           x == Fresh(opened')
           F == Flow(tx)
           F2 == Flow(tx')
           h == Pair(channels, c)
           g == Held(congestions, c)
           h2 == Pair(channels', c)
           g2 == Held(congestions', c)
<1>3. /\ x \in Channel /\ x.conn = opened' /\ Unmarked(x)
      /\ m.id = c /\ m.conn = opened' /\ m.code = "new"
    BY <1>2 DEF Fresh, Unmarked, Channel
<1>4. /\ tx' = [tx EXCEPT ![s] = u] /\ channels' = [channels EXCEPT ![s][c] = x]
      /\ channels[s][c] = None
    BY <1>1, <1>2 DEF Open
<1>5. /\ m \in Message /\ u \in Transmit /\ Inserted(Stream(tx[s]), m, Stream(u))
    BY <1>2, CodeStream
<1>6. u.control = Append(tx[s].control, m)
    BY <1>2 DEF addControlCodes, Transmit
<1> HIDE DEF u, m, x, s
<1>7. Stream(tx[s]) \in Seq(Message) /\ Stream(u) \in Seq(Message)
    BY <1>2, <1>5, StreamType
<1>8. Locally(s, c, u, x)
  <2>1. \A d \in Id \ {c} : \A l : Alike(Stream(tx[s]), Stream(u), d, l)
      BY <1>3, <1>5, <1>7, InsertedAlike
  <2>2. Plain(u)
      BY <1>2, <1>3, <1>6, PlainMore DEF CInv
  <2>3. opened <= opened'
      BY <1>2
  <2>4. QED BY <1>2, <1>3, <1>4, <1>5, <2>1, <2>2, <2>3 DEF Locally
<1>9. /\ Ahead(s, c, u, x, F, h, g, opened, F2, h2, g2)
      /\ Sound(c, F2, h2, g2, opened') => CInv'
    BY <1>2, <1>8, LocalStep
<1> HIDE DEF F, h, g, F2, h2, g2
<1>10. Accepts(c, F, h, g, opened, m, Stream(u), x, F2, h2) /\ g2 = g
    BY <1>2, <1>3, <1>4, <1>5, <1>7, <1>9
       DEF Accepts, Ahead, Before, Writes, Becomes, s
<1>11. Sound(c, F2, h2, g, opened + 1)
    BY <1>10, AcceptStep
<1>12. QED BY <1>2, <1>9, <1>10, <1>11

(* A frame is sent. *)
LEMMA FlushSound ==
    ASSUME CInv, NEW s \in Side, handleFlush(s), Inv'
    PROVE  CInv'
<1> DEFINE u == handleFrame(tx[s])
<1>1. /\ TypeOK /\ tx[s] \in Transmit /\ tx' = [tx EXCEPT ![s] = u]
      /\ channels' = channels /\ congestions' = congestions /\ opened' = opened
    BY DEF handleFlush, CInv, Inv, TypeOK
<1>2. u \in Transmit /\ Stream(u) = Stream(tx[s]) /\ u.control = << >>
    BY <1>1, FrameStream
<1> HIDE DEF u
<1>3. /\ Flow(tx')[s] = Stream(u) /\ Flow(tx')[Peer(s)] = Flow(tx)[Peer(s)]
      /\ \A q \in Side : Plain(tx'[q])
    BY <1>1, <1>2, LocalFlow, PlainEmpty DEF CInv
<1>4. Flow(tx') = Flow(tx)
  <2>1. \A q \in Side : q = s \/ q = Peer(s)
      BY DEF Side, Peer
  <2>2. \A q \in Side : Stream(tx'[q]) = Stream(tx[q])
      BY <1>2, <1>3, <2>1, SideType, <1>1 DEF Flow
  <2>3. QED BY <2>2 DEF Flow
<1>5. QED BY <1>1, <1>3, <1>4 DEF CInv

(* A channel whose connection was closed tells the peer. *)
LEMMA FinishSound ==
    ASSUME RudeLast, CInv, NEW s \in Side, NEW c \in Id, handleFinish(s, c), Inv'
    PROVE  CInv'
<1> DEFINE k == channels[s][c].conn
           u == handleControl(flush(tx[s], c), "finish", c, k)
           m == [code |-> "finish", id |-> c, conn |-> k]
           x == [channels[s][c] EXCEPT !.finish = TRUE, !.congestion = FALSE]
           F == Flow(tx)
           F2 == Flow(tx')
           h == Pair(channels, c)
           g == Held(congestions, c)
           h2 == Pair(channels', c)
           g2 == Held(congestions', c)
           o == opened
<1>1. TypeOK /\ tx[s] \in Transmit /\ o \in Nat /\ Good(tx[s], input[Peer(s)])
    BY LimitAssumption DEF CInv, Inv, TypeOK
<1>2. channels[s][c] \in Channel /\ channels[s][c] # None /\ ~channels[s][c].finish
    BY <1>1 DEF handleFinish, Readable, Open, TypeOK
<1>3. k \in Conn /\ x \in Channel /\ x.conn = k /\ x.finish
      /\ x.closing = channels[s][c].closing /\ x.drop = channels[s][c].drop
    BY <1>2 DEF Channel
<1>4. /\ tx' = [tx EXCEPT ![s] = u] /\ congestions' = congestions /\ opened' = opened
      /\ channels' = [channels EXCEPT ![s][c] = x]
    BY <1>1, <1>2 DEF handleFinish, TypeOK
<1>5. m.id = c /\ m.conn = k /\ m.code = "finish"
    OBVIOUS
<1>6. k \in Polite => ~(channels[Peer(s)][c].conn = k /\ channels[Peer(s)][c].finish)
    BY DEF handleFinish, Raced, Polite
<1> HIDE DEF x, k
<1>7. /\ m \in Message /\ u \in Transmit /\ u.control = << >>
      /\ Inserted(Stream(tx[s]), m, Stream(u))
      /\ Behind(Stream(tx[s]), m, Stream(u), c)
    BY <1>1, <1>3, LastStream
<1> HIDE DEF u, m
<1>8. Stream(tx[s]) \in Seq(Message) /\ Stream(u) \in Seq(Message)
    BY <1>1, <1>7, StreamType
<1>9. Locally(s, c, u, x)
  <2>1. \A d \in Id \ {c} : \A l : Alike(Stream(tx[s]), Stream(u), d, l)
      BY <1>5, <1>7, <1>8, InsertedAlike
  <2>2. QED BY <1>1, <1>3, <1>4, <1>7, <2>1, PlainEmpty DEF Locally
<1>10. /\ Ahead(s, c, u, x, F, h, g, o, F2, h2, g2)
       /\ Sound(c, F2, h2, g2, opened') => CInv'
    BY <1>9, LocalStep
<1>11. h[Peer(s)] = channels[Peer(s)][c]
    BY <1>1, SideType DEF Pair
<1> HIDE DEF F, h, g, F2, h2, g2, o
<1>12. Leaves(c, F, h, g, o, s, m, Stream(u), x, F2, h2) /\ g2 = g
    BY <1>2, <1>3, <1>4, <1>5, <1>6, <1>7, <1>8, <1>10, <1>11
       DEF Leaves, Ahead, Before, Writes, Marks, Becomes, k
<1>13. Sound(c, F2, h2, g, o)
    BY <1>12, LeaveStep
<1>14. QED BY <1>4, <1>10, <1>12, <1>13 DEF o

(* A channel that was marked is got rid of. *)
LEMMA EventsSound ==
    ASSUME RudeLast, CInv, NEW s \in Side, NEW c \in Id, handleEvents(s, c), Inv'
    PROVE  CInv'
<1> DEFINE ch == channels[s][c]
           u == handleDrop(tx[s], ch, c)
           m == [code |-> "drop", id |-> c, conn |-> ch.conn]
           F == Flow(tx)
           F2 == Flow(tx')
           h == Pair(channels, c)
           g == Held(congestions, c)
           h2 == Pair(channels', c)
           g2 == Held(congestions', c)
           o == opened
<1>1. TypeOK /\ tx[s] \in Transmit /\ o \in Nat /\ Good(tx[s], input[Peer(s)])
    BY LimitAssumption DEF CInv, Inv, TypeOK
<1>2. ch \in Channel /\ ch # None /\ (ch.drop \/ ch.closing)
    BY <1>1 DEF handleEvents, Open, TypeOK
<1>3. /\ tx' = [tx EXCEPT ![s] = u] /\ opened' = opened
      /\ channels' = [channels EXCEPT ![s][c] = None]
      /\ congestions' = [congestions EXCEPT ![s] = @ \ {c}]
    BY <1>1, <1>2 DEF handleEvents, DropCongestion, TypeOK
<1>4. m.id = c /\ m.conn = ch.conn /\ m.code = "drop"
    OBVIOUS
<1>5. /\ m \in Message /\ u \in Transmit
      /\ ch.closing => /\ Inserted(Stream(tx[s]), m, Stream(u))
                       /\ Behind(Stream(tx[s]), m, Stream(u), c)
      /\ ~ch.closing => Stream(u) = Stream(tx[s])
      /\ u.control = tx[s].control \/ u.control = << >>
    BY <1>1, <1>2, DropStream
<1> HIDE DEF u, m, ch
<1>6. Stream(tx[s]) \in Seq(Message) /\ Stream(u) \in Seq(Message)
    BY <1>1, <1>5, StreamType
<1>7. /\ congestions'[Peer(s)] = congestions[Peer(s)] /\ c \notin congestions'[s]
      /\ \A d \in Id \ {c} : d \in congestions'[s] <=> d \in congestions[s]
    BY <1>1, <1>3, SideType DEF TypeOK
<1>8. Locally(s, c, u, None)
  <2>1. \A d \in Id \ {c} : \A l : Alike(Stream(tx[s]), Stream(u), d, l)
      BY <1>4, <1>5, <1>6, InsertedAlike
  <2>2. Plain(u)
      BY <1>5, PlainEmpty DEF CInv, Plain
  <2>3. QED BY <1>1, <1>3, <1>5, <1>7, <2>1, <2>2 DEF Locally
<1>9. /\ Ahead(s, c, u, None, F, h, g, o, F2, h2, g2)
      /\ Sound(c, F2, h2, g2, opened') => CInv'
    BY <1>8, LocalStep
<1> HIDE DEF F, h, g, F2, h2, g2, o
<1>10. Removes(c, F, h, g, o, s, m, Stream(u), F2, h2, g2)
    BY <1>2, <1>4, <1>5, <1>6, <1>7, <1>9 DEF Removes, Ahead, ch
<1>11. Sound(c, F2, h2, g2, o)
    BY <1>10, RemoveStep
<1>12. QED BY <1>3, <1>9, <1>11 DEF o

(* A switch disturbs no connection. *)
LEMMA SwitchSound ==
    ASSUME NEW c, NEW F, NEW h, NEW g, NEW o \in Nat, Sound(c, F, h, g, o),
           NEW s \in Side, NEW G \in Seq(Message), NEW F2 \in [Side -> Seq(Message)],
           F2[s] = G, F2[Peer(s)] = F[Peer(s)],
           \/ G = F[s]
           \/ \E m \in Message : m.code = "switch" /\ Inserted(F[s], m, G)
           \/ F[s] # << >> /\ G = Tail(F[s]) /\ Head(F[s]).code = "switch"
    PROVE  Sound(c, F2, h, g, o)
<1>1. Typed(F, h, g)
    BY DEF Sound
<1>2. Typed(F2, h, g) /\ F[s] \in Seq(Message) /\ F[Peer(s)] \in Seq(Message)
    BY <1>1, Sides DEF Typed
<1>3. \A k : Alike(F[s], G, c, k)
    BY <1>2, SwitchAlike
<1>4. \A k : Alike(F[Peer(s)], F[Peer(s)], c, k)
    BY <1>2, SwitchAlike
<1>5. \A q \in Side : q = s \/ q = Peer(s)
    BY DEF Side, Peer
<1>6. \A q \in Side : \A k : Alike(F[q], F2[q], c, k)
    BY <1>3, <1>4, <1>5
<1>7. o <= o
    OBVIOUS
<1>8. Typed(F2, h, g)
    BY <1>2
<1>9. QED BY <1>6, <1>7, <1>8, FrameSound

(* A channel encodes what its connection had to say. *)
LEMMA ReadChannelSound ==
    ASSUME RudeLast, CInv, NEW s \in Side, NEW c \in Id, handleReadChannel(s, c), Inv'
    PROVE  CInv'
<1> DEFINE x == channels[s][c]
           k == x.conn
           t == handleSwitch(tx[s], c, k)
           m == [code |-> "data", id |-> c, conn |-> k]
           w == [code |-> "switch", id |-> c, conn |-> k]
           u == [t EXCEPT !.encode = Append(@, m)]
           F == Flow(tx)
           F1 == [F EXCEPT ![s] = Stream(t)]
           F2 == Flow(tx')
           h == Pair(channels, c)
           g == Held(congestions, c)
           h2 == Pair(channels', c)
           g2 == Held(congestions', c)
           o == opened
<1>1. TypeOK /\ tx[s] \in Transmit /\ o \in Nat /\ F \in [Side -> Seq(Message)]
    BY LimitAssumption, NowShape DEF CInv, Inv, TypeOK, Shape
<1>2. x \in Channel /\ x # None /\ ~x.finish
    BY <1>1 DEF handleReadChannel, Readable, Open, TypeOK
<1>3. k \in Conn
    BY <1>2 DEF Channel
<1>4. /\ tx' = [tx EXCEPT ![s] = u] /\ congestions' = congestions /\ opened' = opened
      /\ channels' = channels
    BY <1>1 DEF handleReadChannel, TypeOK
<1>5. channels' = [channels EXCEPT ![s][c] = x]
    BY <1>1, <1>4 DEF TypeOK
<1>6. m.id = c /\ m.conn = k /\ m.code = "data" /\ w.id = c /\ w.code = "switch"
    OBVIOUS
<1> HIDE DEF k
<1>7. /\ w \in Message /\ t \in Transmit
      /\ Stream(t) = Stream(tx[s]) \/ Inserted(Stream(tx[s]), w, Stream(t))
      /\ \/ t.control = tx[s].control
         \/ t.control = Append(tx[s].control, w)
         \/ t.control = Append(<< >>, w)
    BY <1>1, <1>3, SwitchStream
<1> HIDE DEF t, w
<1>8. /\ m \in Message /\ u \in Transmit /\ u.control = t.control
      /\ Inserted(Stream(t), m, Stream(u))
    BY <1>3, <1>7, EncodeStream
<1> HIDE DEF u, m, x
<1>9. /\ Stream(tx[s]) \in Seq(Message) /\ Stream(u) \in Seq(Message)
      /\ Stream(t) \in Seq(Message)
    BY <1>1, <1>7, <1>8, StreamType
<1>10. Locally(s, c, u, x)
  <2>1. \A d \in Id \ {c} : \A l : Alike(Stream(tx[s]), Stream(t), d, l)
      BY <1>6, <1>7, <1>9, InsertedAlike
  <2>2. \A d \in Id \ {c} : \A l : Alike(Stream(t), Stream(u), d, l)
      BY <1>6, <1>8, <1>9, InsertedAlike
  <2>3. \A d \in Id \ {c} : \A l : Alike(Stream(tx[s]), Stream(u), d, l)
      BY <2>1, <2>2, AlikeBoth
  <2>4. Plain(u)
      BY <1>1, <1>6, <1>7, <1>8, PlainMore DEF CInv
  <2>5. opened <= opened' /\ x \in Channel \cup {None} /\ u \in Transmit
      BY <1>1, <1>2, <1>4, <1>8
  <2> HIDE DEF F, F1, F2, h, g, h2, g2, o
  <2>6. QED BY <1>4, <1>5, <2>3, <2>4, <2>5 DEF Locally
<1>11. /\ Ahead(s, c, u, x, F, h, g, o, F2, h2, g2)
       /\ Sound(c, F2, h2, g2, opened') => CInv'
    BY <1>10, LocalStep
<1>12. /\ F1[s] = Stream(t) /\ F1[Peer(s)] = F[Peer(s)]
       /\ F1 \in [Side -> Seq(Message)]
  <2> HIDE DEF F
  <2>1. QED BY <1>1, <1>9, Sides
<1>13. h2 = h /\ g2 = g
    BY <1>4
<1> HIDE DEF F, F1, h, g, F2, h2, g2, o
<1>14. Before(c, F, h, g, o, s) /\ F[s] = Stream(tx[s])
    BY <1>11 DEF Ahead
<1>15. Sound(c, F1, h, g, o)
    BY <1>1, <1>6, <1>7, <1>9, <1>12, <1>14, SwitchSound DEF Before
<1>16. Talks(c, F1, h, g, o, s, m, Stream(u), x, F2, h2)
    BY <1>1, <1>2, <1>6, <1>8, <1>9, <1>11, <1>12, <1>13, <1>15
       DEF Talks, Ahead, Before, Writes, Marks, Becomes, k
<1>17. Sound(c, F2, h2, g, o)
    BY <1>16, TalkStep
<1>18. QED BY <1>4, <1>11, <1>13, <1>17 DEF o

(* The link without its first message, at the side that wrote it. *)
LEMMA RemoteTx ==
    ASSUME TypeOK, NEW s \in Side, NEW u \in Transmit, tx[Peer(s)].link # << >>,
           tx' = Consumed(s, u), \A q \in Side : Plain(tx[q]), Plain(u)
    PROVE  /\ tx' \in [Side -> Transmit] /\ tx'[s] = u
           /\ Flow(tx)[Peer(s)] # << >> /\ Head(Flow(tx)[Peer(s)]) = Incoming(s)
           /\ Flow(tx')[Peer(s)] = Tail(Flow(tx)[Peer(s)])
           /\ Flow(tx')[s] = Stream(u)
           /\ Incoming(s) \in Message
           /\ \A q \in Side : Plain(tx'[q])
<1> DEFINE p == Peer(s)
           v == [tx[p] EXCEPT !.link = Tail(@)]
<1>1. p \in Side /\ p # s /\ \A q \in Side : q = s \/ q = p
    BY DEF Side, Peer
<1>2. tx[p] \in Transmit /\ tx \in [Side -> Transmit]
    BY <1>1 DEF TypeOK
<1>3. /\ v \in Transmit /\ v.control = tx[p].control
      /\ Stream(tx[p]) # << >> /\ Head(Stream(tx[p])) = Head(tx[p].link)
      /\ Stream(v) = Tail(Stream(tx[p]))
    BY <1>2, TailStream
<1>4. tx' = [tx EXCEPT ![p] = v, ![s] = u]
    BY <1>1, <1>2 DEF Consumed, Transmit
<1> HIDE DEF v
<1>5. tx' \in [Side -> Transmit] /\ tx'[s] = u /\ tx'[p] = v
  <2> HIDE DEF p
  <2>1. QED BY <1>1, <1>2, <1>3, <1>4
<1>6. Plain(v)
    BY <1>1, <1>3 DEF Plain
<1>7. Incoming(s) \in Message
    BY <1>2, TransmitType, HeadTailProperties DEF Incoming
<1>8. /\ Flow(tx)[p] = Stream(tx[p]) /\ Flow(tx')[p] = Stream(v) /\ Flow(tx')[s] = Stream(u)
    BY <1>1, <1>2, <1>5, FlowType
<1>9. \A q \in Side : Plain(tx'[q])
    BY <1>1, <1>5, <1>6
<1>10. QED BY <1>3, <1>5, <1>7, <1>8, <1>9 DEF Incoming

(* What a proxy does about the id c of a message of its peer. *)
Remotely(s, c, u, x) ==
    /\ u \in Transmit /\ x \in Channel \cup {None}
    /\ tx[Peer(s)].link # << >> /\ Incoming(s).id = c
    /\ tx' = Consumed(s, u) /\ Plain(u)
    /\ channels' = [channels EXCEPT ![s][c] = x]
    /\ congestions'[Peer(s)] = congestions[Peer(s)]
    /\ \A d \in Id \ {c} : d \in congestions'[s] <=> d \in congestions[s]
    /\ opened' = opened
    /\ \A d \in Id \ {c} : \A k : Alike(Stream(tx[s]), Stream(u), d, k)

(* F1 is what is said when the message was read and nothing else done. *)
Halfway(s, c, u, x, F, h, g, o, F1, F2, h2, g2) ==
    /\ Before(c, F, h, g, o, s) /\ Typed(F1, h, g) /\ Typed(F2, h2, g2)
    /\ F1 = [F EXCEPT ![Peer(s)] = Tail(@)]
    /\ Hears(F, s, Incoming(s), c, F1)
    /\ F[s] = Stream(tx[s]) /\ F2[s] = Stream(u) /\ F2[Peer(s)] = F1[Peer(s)]
    /\ Stream(u) = Stream(tx[s]) => F2 = F1
    /\ h[s] = channels[s][c] /\ h2[s] = x /\ h2[Peer(s)] = h[Peer(s)]
    /\ g[s] <=> c \in congestions[s]
    /\ g2[s] <=> c \in congestions'[s]
    /\ g2[Peer(s)] = g[Peer(s)]
    /\ congestions' = congestions => g2 = g
    /\ channels' = channels => h2 = h

(* A proxy acts on a message of its peer. *)
LEMMA RemoteStep ==
    ASSUME CInv, Inv', NEW s \in Side, NEW c \in Id, NEW u, NEW x, Remotely(s, c, u, x),
           NEW F1, F1 = [Flow(tx) EXCEPT ![Peer(s)] = Tail(@)]
    PROVE  /\ Halfway(s, c, u, x, Flow(tx), Pair(channels, c), Held(congestions, c), opened,
                      F1, Flow(tx'), Pair(channels', c), Held(congestions', c))
           /\ Sound(c, Flow(tx'), Pair(channels', c), Held(congestions', c), opened)
                  => CInv'
<1> DEFINE F == Flow(tx)
           F2 == Flow(tx')
           p == Peer(s)
<1>1. /\ TypeOK /\ TypeOK' /\ tx[s] \in Transmit
      /\ u \in Transmit /\ x \in Channel \cup {None} /\ tx' = Consumed(s, u)
      /\ p \in Side /\ p # s /\ \A q \in Side : q = s \/ q = p
      /\ channels' \in [Side -> [Id -> Channel \cup {None}]]
      /\ opened' = opened /\ Incoming(s).id = c
    BY DEF CInv, Inv, TypeOK, Remotely, Side, Peer
<1>2. /\ F[p] # << >> /\ Head(F[p]) = Incoming(s) /\ F2[p] = Tail(F[p])
      /\ F2[s] = Stream(u) /\ \A q \in Side : Plain(tx'[q])
      /\ Incoming(s) \in Message
  <2>1. /\ tx[Peer(s)].link # << >> /\ Plain(u)
        /\ \A q \in Side : Plain(tx[q])
      BY DEF Remotely, CInv
  <2>2. QED BY <1>1, <2>1, RemoteTx
<1>3. /\ channels'[p] = channels[p] /\ channels'[s][c] = x
      /\ \A d \in Id \ {c} : channels'[s][d] = channels[s][d]
    BY <1>1, ChannelChanged DEF Remotely
<1>4. /\ opened \in Nat /\ F[s] = Stream(tx[s]) /\ F \in [Side -> Seq(Message)]
    BY <1>1, NowShape DEF Shape
<1>5. F2 \in [Side -> Seq(Message)]
    BY <1>1, FlowType DEF TypeOK
<1>6. Typed(F2, Pair(channels', c), Held(congestions', c))
  <2>1. Pair(channels', c) \in [Side -> Channel \cup {None}]
      BY <1>1 DEF Pair
  <2>2. Held(congestions', c) \in [Side -> BOOLEAN]
      BY DEF Held
  <2> HIDE DEF F2
  <2>3. QED BY <1>5, <2>1, <2>2 DEF Typed
<1>7. Before(c, F, Pair(channels, c), Held(congestions, c), opened, s)
    BY <1>4 DEF Before, CInv, AllSound
<1> HIDE DEF F, F2
<1>8. /\ F1 \in [Side -> Seq(Message)] /\ F1[p] = Tail(F[p]) /\ F1[s] = F[s]
  <2>1. F1 = [F EXCEPT ![p] = Tail(F[p])] /\ Tail(F[p]) \in Seq(Message)
      BY <1>1, <1>2, <1>4, HeadTailProperties DEF F
  <2> HIDE DEF p
  <2>2. QED BY <1>1, <1>4, <2>1
<1>9. Typed(F1, Pair(channels, c), Held(congestions, c))
    BY <1>7, <1>8 DEF Before, Sound, Typed
<1>10. Stream(u) = Stream(tx[s]) => F2 = F1
    BY <1>1, <1>2, <1>4, <1>5, <1>8
<1>11. Hears(F, s, Incoming(s), c, F1)
    BY <1>1, <1>2, <1>8 DEF Hears
<1>12. /\ Pair(channels, c)[s] = channels[s][c] /\ Pair(channels', c)[s] = x
       /\ Pair(channels', c)[p] = Pair(channels, c)[p]
    BY <1>1, <1>3 DEF Pair
<1>13. /\ Held(congestions', c)[s] <=> c \in congestions'[s]
       /\ Held(congestions, c)[s] <=> c \in congestions[s]
       /\ Held(congestions', c)[p] = Held(congestions, c)[p]
  <2>1. congestions'[p] = congestions[p]
      BY DEF Remotely
  <2>2. QED BY <1>1, <2>1, HeldAs DEF Held
<1>14. Elsewhere(s, c)
    BY <1>3 DEF Elsewhere, Remotely
<1>15. \A q \in Side, d \in Id \ {c} : \A k : Alike(F[q], F2[q], d, k)
  <2>1. \A d \in Id \ {c} : \A k : Alike(F[s], F2[s], d, k)
      BY <1>2, <1>4 DEF Remotely
  <2>2. \A d \in Id \ {c} : \A k : Alike(F[p], F2[p], d, k)
    <3>1. F[p] \in Seq(Message) /\ F2[p] \in Seq(Message)
        BY <1>1, <1>4, <1>5
    <3>2. Moves(F[p], F2[p], c)
        BY <1>1, <1>2 DEF Moves, Foreign
    <3>3. QED BY <3>1, <3>2, MovedAlike
  <2>3. QED BY <1>1, <2>1, <2>2
<1>16. Sound(c, F2, Pair(channels', c), Held(congestions', c), opened) => CInv'
  <2> SUFFICES ASSUME Sound(c, F2, Pair(channels', c), Held(congestions', c), opened)
               PROVE  CInv'
      OBVIOUS
  <2>1. opened' = opened /\ opened <= opened'
      BY <1>1, <1>4
  <2>2. Sound(c, Flow(tx'), Pair(channels', c), Held(congestions', c), opened')
      BY <2>1 DEF F2
  <2>3. \A q \in Side, d \in Id \ {c} : \A k : Alike(Flow(tx)[q], Flow(tx')[q], d, k)
      BY <1>15 DEF F, F2
  <2>4. \A q \in Side : Plain(tx'[q])
      BY <1>2
  <2>5. QED BY <1>14, <2>1, <2>2, <2>3, <2>4, Onward
<1>17. QED
  <2>1. F1 = [F EXCEPT ![Peer(s)] = Tail(@)]
      BY DEF F
  <2>2. QED BY <1>2, <1>4, <1>6, <1>7, <1>8, <1>9, <1>10, <1>11, <1>12, <1>13, <1>16,
               <2>1 DEF Halfway, F, F2

(* A message that changes at most the congestion of its id. *)
LEMMA PassiveStep ==
    ASSUME CInv, NEW s \in Side, NEW c \in Id,
           tx[Peer(s)].link # << >>, Incoming(s).id = c,
           tx' = Consumed(s, tx[s]), channels' = channels, opened' = opened,
           congestions'[Peer(s)] = congestions[Peer(s)],
           \A d \in Id \ {c} : d \in congestions'[s] <=> d \in congestions[s]
    PROVE  Remotely(s, c, tx[s], channels[s][c])
<1>1. TypeOK /\ tx[s] \in Transmit /\ channels[s][c] \in Channel \cup {None}
    BY DEF CInv, Inv, TypeOK
<1>2. channels' = [channels EXCEPT ![s][c] = channels[s][c]]
    BY <1>1 DEF TypeOK
<1>3. \A d \in Id \ {c} : \A k : Alike(Stream(tx[s]), Stream(tx[s]), d, k)
    BY <1>1, StreamType, SwitchAlike
<1>4. Plain(tx[s])
    BY DEF CInv
<1>5. QED BY <1>1, <1>2, <1>3, <1>4 DEF Remotely

(* The selection of a channel. *)
LEMMA SwitchFromProxySound ==
    ASSUME CInv, NEW s \in Side, SwitchFromProxy(s), Inv'
    PROVE  CInv'
<1> DEFINE m == Incoming(s)
           c == m.id
           x == channels[s][c]
           F == Flow(tx)
           F1 == [F EXCEPT ![Peer(s)] = Tail(@)]
           F2 == Flow(tx')
           h == Pair(channels, c)
           g == Held(congestions, c)
           h2 == Pair(channels', c)
           g2 == Held(congestions', c)
           o == opened
<1>1. /\ tx[Peer(s)].link # << >> /\ m.code = "switch" /\ tx' = Consumed(s, tx[s])
      /\ channels' = channels /\ congestions' = congestions /\ opened' = opened
    BY DEF SwitchFromProxy, Receives
<1>2. c \in Id
    BY <1>1, IncomingType DEF CInv
<1>3. Remotely(s, c, tx[s], x)
    BY <1>1, <1>2, PassiveStep
<1>4. /\ Halfway(s, c, tx[s], x, F, h, g, o, F1, F2, h2, g2)
      /\ Sound(c, F2, h2, g2, o) => CInv'
    BY <1>2, <1>3, RemoteStep
<1> HIDE DEF F, F1, F2, h, g, h2, g2, o, m
<1>5. Before(c, F, h, g, o, s) /\ Hears(F, s, m, c, F1) /\ F2 = F1 /\ h2 = h /\ g2 = g
    BY <1>1, <1>4 DEF Halfway, m
<1>6. Sound(c, F1, h, g, o)
  <2>1. Peer(s) \in Side /\ Peer(Peer(s)) = s
      BY Sides
  <2>2. /\ F[Peer(s)] # << >> /\ m = Head(F[Peer(s)])
        /\ F1[Peer(s)] = Tail(F[Peer(s)]) /\ F1[s] = F[s]
      BY <1>5 DEF Hears
  <2>3. F1 \in [Side -> Seq(Message)]
      BY <1>4 DEF Halfway, Typed
  <2>4. F1[Peer(s)] \in Seq(Message)
      BY <2>1, <2>3
  <2>5. Sound(c, F, h, g, o) /\ o \in Nat
      BY <1>5 DEF Before
  <2>6. QED BY <1>1, <2>1, <2>2, <2>3, <2>4, <2>5, SwitchSound
<1>7. QED BY <1>4, <1>5, <1>6

(* Data that is decoded. *)
LEMMA DataFromProxySound ==
    ASSUME CInv, NEW s \in Side, DataFromProxy(s), Inv'
    PROVE  CInv'
<1> DEFINE m == Incoming(s)
           c == m.id
           x == channels[s][c]
           F == Flow(tx)
           F1 == [F EXCEPT ![Peer(s)] = Tail(@)]
           F2 == Flow(tx')
           h == Pair(channels, c)
           g == Held(congestions, c)
           h2 == Pair(channels', c)
           g2 == Held(congestions', c)
           o == opened
<1>1. /\ tx[Peer(s)].link # << >> /\ m.code = "data" /\ tx' = Consumed(s, tx[s])
      /\ channels' = channels /\ congestions' = congestions /\ opened' = opened
    BY DEF DataFromProxy, Receives
<1>2. c \in Id
    BY <1>1, IncomingType DEF CInv
<1>3. Remotely(s, c, tx[s], x)
    BY <1>1, <1>2, PassiveStep
<1>4. /\ Halfway(s, c, tx[s], x, F, h, g, o, F1, F2, h2, g2)
      /\ Sound(c, F2, h2, g2, o) => CInv'
    BY <1>2, <1>3, RemoteStep
<1> HIDE DEF F, F1, F2, h, g, h2, g2, o, m
<1>5. Ignores(c, F, h, g, o, s, m, F1, g) /\ F2 = F1 /\ h2 = h /\ g2 = g
    BY <1>1, <1>4 DEF Halfway, Ignores, m
<1>6. QED BY <1>4, <1>5, IgnoreStep

(* The congestion of the other end. *)
LEMMA CongestionFromProxySound ==
    ASSUME CInv, NEW s \in Side, CongestionFromProxy(s), Inv'
    PROVE  CInv'
<1> DEFINE m == Incoming(s)
           c == m.id
           x == channels[s][c]
           F == Flow(tx)
           F1 == [F EXCEPT ![Peer(s)] = Tail(@)]
           F2 == Flow(tx')
           h == Pair(channels, c)
           g == Held(congestions, c)
           h2 == Pair(channels', c)
           g2 == Held(congestions', c)
           o == opened
<1>1. /\ tx[Peer(s)].link # << >> /\ m.code \in {"begin", "end"}
      /\ tx' = Consumed(s, tx[s]) /\ channels' = channels /\ opened' = opened
      /\ congestions' = [congestions EXCEPT ![s] =
                            IF ~Open(s, c) THEN @
                            ELSE IF m.code = "begin" THEN @ \cup {c} ELSE @ \ {c}]
    BY DEF CongestionFromProxy
<1>2. c \in Id
    BY <1>1, IncomingType DEF CInv
<1>3. /\ congestions'[Peer(s)] = congestions[Peer(s)]
      /\ \A d \in Id \ {c} : d \in congestions'[s] <=> d \in congestions[s]
      /\ Open(s, c) => (c \in congestions'[s] <=> m.code = "begin")
      /\ ~Open(s, c) => (c \in congestions'[s] <=> c \in congestions[s])
  <2>1. /\ congestions \in [Side -> SUBSET Id]
        /\ Peer(s) \in Side /\ Peer(s) # s
      BY SideType DEF CInv, Inv, TypeOK
  <2>2. /\ congestions'[Peer(s)] = congestions[Peer(s)]
        /\ congestions'[s] = IF ~Open(s, c) THEN congestions[s]
                             ELSE IF m.code = "begin" THEN congestions[s] \cup {c}
                             ELSE congestions[s] \ {c}
    <3> HIDE DEF m
    <3>1. QED BY <1>1, <2>1
  <2>3. QED BY <1>1, <2>2
<1>4. Remotely(s, c, tx[s], x)
    BY <1>1, <1>2, <1>3, PassiveStep
<1>5. /\ Halfway(s, c, tx[s], x, F, h, g, o, F1, F2, h2, g2)
      /\ Sound(c, F2, h2, g2, o) => CInv'
    BY <1>2, <1>4, RemoteStep
<1> HIDE DEF F, F1, F2, h, g, h2, g2, o, m
<1>6. h[s] = None => ~g[s]
    BY <1>5 DEF Halfway, Before, Sound, Unread
<1>7. Ignores(c, F, h, g, o, s, m, F1, g2) /\ F2 = F1 /\ h2 = h
  <2>1. F2 = F1 /\ h2 = h
      BY <1>1, <1>5 DEF Halfway
  <2>2. /\ Before(c, F, h, g, o, s) /\ Typed(F1, h, g2) /\ Hears(F, s, m, c, F1)
        /\ g2[Peer(s)] = g[Peer(s)]
      BY <1>5, <2>1 DEF Halfway, m
  <2>3. /\ h[s] = None => ~g2[s]
        /\ h[s] # None => (g2[s] <=> m.code = "begin")
      BY <1>3, <1>5, <1>6 DEF Halfway, Open
  <2>4. m.code \notin {"switch", "new", "finish", "drop"}
      BY <1>1
  <2>5. QED BY <1>1, <2>1, <2>2, <2>3, <2>4 DEF Ignores
<1>8. QED BY <1>5, <1>7, IgnoreStep

(* The peer has dropped its channel. *)
LEMMA DropFromProxySound ==
    ASSUME CInv, NEW s \in Side, handleDropFromProxy(s), Inv'
    PROVE  CInv'
<1> DEFINE m == Incoming(s)
           c == m.id
           ch == channels[s][c]
           x == IF ch = None THEN ch ELSE [ch EXCEPT !.drop = TRUE]
           F == Flow(tx)
           F1 == [F EXCEPT ![Peer(s)] = Tail(@)]
           F2 == Flow(tx')
           h == Pair(channels, c)
           g == Held(congestions, c)
           h2 == Pair(channels', c)
           g2 == Held(congestions', c)
           o == opened
<1>1. /\ tx[Peer(s)].link # << >> /\ m.code = "drop" /\ tx' = Consumed(s, tx[s])
      /\ congestions' = congestions /\ opened' = opened
    BY DEF handleDropFromProxy, Receives
<1>2. c \in Id /\ TypeOK /\ ch \in Channel \cup {None}
    BY <1>1, IncomingType DEF CInv, Inv, TypeOK
<1>3. channels' = [channels EXCEPT ![s][c] = x]
    BY <1>2 DEF handleDropFromProxy, TypeOK
<1>4. /\ x \in Channel \cup {None}
      /\ ch = None => x = None
      /\ ch # None => /\ x \in Channel /\ x.conn = ch.conn /\ x.finish = ch.finish
                      /\ x.closing = ch.closing /\ x.drop /\ x.congestion = ch.congestion
    BY <1>2 DEF Channel
<1> HIDE DEF x
<1>5. Remotely(s, c, tx[s], x)
  <2>1. \A d \in Id \ {c} : \A k : Alike(Stream(tx[s]), Stream(tx[s]), d, k)
      BY <1>2, StreamType, SwitchAlike DEF TypeOK
  <2>2. Plain(tx[s]) /\ tx[s] \in Transmit
      BY <1>2 DEF CInv, TypeOK
  <2>3. /\ congestions'[Peer(s)] = congestions[Peer(s)]
        /\ \A d \in Id \ {c} : d \in congestions'[s] <=> d \in congestions[s]
        /\ Incoming(s).id = c
      BY <1>1
  <2> HIDE DEF F, F1, F2, h, g, h2, g2, o, c, m, ch
  <2>4. QED BY <1>1, <1>3, <1>4, <2>1, <2>2, <2>3 DEF Remotely
<1>6. /\ Halfway(s, c, tx[s], x, F, h, g, o, F1, F2, h2, g2)
      /\ Sound(c, F2, h2, g2, o) => CInv'
    BY <1>2, <1>5, RemoteStep
<1> HIDE DEF F, F1, F2, h, g, h2, g2, o, m, ch
<1>7. F2 = F1 /\ g2 = g /\ h[s] = ch /\ h2[s] = x /\ h2[Peer(s)] = h[Peer(s)]
    BY <1>1, <1>6 DEF Halfway, ch
<1>8. Before(c, F, h, g, o, s) /\ Hears(F, s, m, c, F1) /\ Typed(F1, h, g)
      /\ Typed(F1, h2, g)
    BY <1>6, <1>7 DEF Halfway, m
<1>9. CASE ch = None
  <2>1. h2 = h
    <3>1. \A q \in Side : q = s \/ q = Peer(s)
        BY DEF Side, Peer
    <3>2. h \in [Side -> Channel \cup {None}] /\ h2 \in [Side -> Channel \cup {None}]
        BY <1>8 DEF Typed
    <3>3. QED BY <1>4, <1>7, <1>9, <3>1, <3>2
  <2>2. Ignores(c, F, h, g, o, s, m, F1, g)
      BY <1>1, <1>7, <1>8, <1>9 DEF Ignores
  <2>3. QED BY <1>6, <1>7, <2>1, <2>2, IgnoreStep
<1>10. CASE ch # None
  <2>1. HearsDrop(c, F, h, g, o, s, m, x, F1, h2)
      BY <1>1, <1>4, <1>7, <1>8, <1>10 DEF HearsDrop, Marks, Becomes
  <2>2. QED BY <1>6, <1>7, <2>1, HearDropStep
<1>11. QED BY <1>9, <1>10

(* The peer has closed its end. *)
LEMMA FinishFromProxySound ==
    ASSUME CInv, NEW s \in Side, handleFinishFromProxy(s), Inv'
    PROVE  CInv'
<1> DEFINE m == Incoming(s)
           c == m.id
           ch == channels[s][c]
           u == IF Open(s, c) THEN flush(tx[s], c) ELSE tx[s]
           x == IF ch = None THEN ch ELSE [ch EXCEPT !.closing = TRUE, !.finish = TRUE,
                                                     !.congestion = FALSE]
           F == Flow(tx)
           F1 == [F EXCEPT ![Peer(s)] = Tail(@)]
           F2 == Flow(tx')
           h == Pair(channels, c)
           g == Held(congestions, c)
           h2 == Pair(channels', c)
           g2 == Held(congestions', c)
           o == opened
<1>1. /\ tx[Peer(s)].link # << >> /\ m.code = "finish" /\ tx' = Consumed(s, u)
      /\ opened' = opened
      /\ congestions' = IF Open(s, c) THEN [congestions EXCEPT ![s] = @ \ {c}]
                        ELSE congestions
    BY DEF handleFinishFromProxy, Receives
<1>2. /\ c \in Id /\ TypeOK /\ ch \in Channel \cup {None} /\ tx[s] \in Transmit
      /\ congestions \in [Side -> SUBSET Id]
    BY <1>1, IncomingType DEF CInv, Inv, TypeOK
<1>3. channels' = [channels EXCEPT ![s][c] = x]
    BY <1>2 DEF handleFinishFromProxy, TypeOK
<1>4. /\ x \in Channel \cup {None}
      /\ ch = None => x = None
      /\ ch # None => /\ x \in Channel /\ x.conn = ch.conn /\ x.finish
                      /\ x.closing /\ x.drop = ch.drop
    BY <1>2 DEF Channel
<1>5. /\ u \in Transmit /\ Stream(u) = Stream(tx[s])
      /\ u.control = tx[s].control \/ u.control = << >>
    BY <1>2, FlushStream
<1>6. /\ congestions'[Peer(s)] = congestions[Peer(s)]
      /\ \A d \in Id \ {c} : d \in congestions'[s] <=> d \in congestions[s]
      /\ ch # None => c \notin congestions'[s]
      /\ ch = None => congestions' = congestions
  <2>1. Peer(s) # s /\ Peer(s) \in Side
      BY Sides
  <2> HIDE DEF m, u
  <2>2. QED BY <1>1, <1>2, <2>1 DEF Open
<1> HIDE DEF x, u
<1>7. Remotely(s, c, u, x)
  <2>1. \A d \in Id \ {c} : \A k : Alike(Stream(tx[s]), Stream(u), d, k)
      BY <1>2, <1>5, StreamType, SwitchAlike
  <2>2. Plain(u)
      BY <1>5, PlainEmpty DEF CInv, Plain
  <2>3. Incoming(s).id = c
      OBVIOUS
  <2> HIDE DEF F, F1, F2, h, g, h2, g2, o, c, m, ch
  <2>4. QED BY <1>1, <1>3, <1>4, <1>5, <1>6, <2>1, <2>2, <2>3 DEF Remotely
<1>8. /\ Halfway(s, c, u, x, F, h, g, o, F1, F2, h2, g2)
      /\ Sound(c, F2, h2, g2, o) => CInv'
    BY <1>2, <1>7, RemoteStep
<1> HIDE DEF F, F1, F2, h, g, h2, g2, o, m, ch
<1>9. /\ F2 = F1 /\ h[s] = ch /\ h2[s] = x /\ h2[Peer(s)] = h[Peer(s)]
      /\ g2[Peer(s)] = g[Peer(s)]
    BY <1>5, <1>8 DEF Halfway, ch
<1>10. Before(c, F, h, g, o, s) /\ Hears(F, s, m, c, F1) /\ Typed(F1, h, g)
       /\ Typed(F1, h2, g2)
    BY <1>8, <1>9 DEF Halfway, m
<1>11. CASE ch = None
  <2>1. h2 = h
    <3>1. \A q \in Side : q = s \/ q = Peer(s)
        BY DEF Side, Peer
    <3>2. h \in [Side -> Channel \cup {None}] /\ h2 \in [Side -> Channel \cup {None}]
        BY <1>10 DEF Typed
    <3>3. QED BY <1>4, <1>9, <1>11, <3>1, <3>2
  <2>2. g2 = g
      BY <1>6, <1>8, <1>11 DEF Halfway
  <2>3. Ignores(c, F, h, g, o, s, m, F1, g)
      BY <1>1, <1>9, <1>10, <1>11 DEF Ignores
  <2>4. QED BY <1>8, <1>9, <2>1, <2>2, <2>3, IgnoreStep
<1>12. CASE ch # None
  <2>1. ~g2[s]
      BY <1>6, <1>8, <1>12 DEF Halfway
  <2>2. HearsFinish(c, F, h, g, o, s, m, x, F1, h2, g2)
      BY <1>1, <1>4, <1>9, <1>10, <1>12, <2>1 DEF HearsFinish, Marks, Becomes
  <2>3. QED BY <1>8, <1>9, <2>2, HearFinishStep
<1>13. QED BY <1>11, <1>12

(* The connection does not take the decoded data. *)
LEMMA DataFromProxyStallsSound ==
    ASSUME RudeLast, CInv, NEW s \in Side, DataFromProxyStalls(s), Inv'
    PROVE  CInv'
<1> DEFINE m == Incoming(s)
           c == m.id
           ch == channels[s][c]
           k == ch.conn
           u == handleControl(tx[s], "begin", c, k)
           w == [code |-> "begin", id |-> c, conn |-> k]
           x == [ch EXCEPT !.congestion = TRUE]
           F == Flow(tx)
           F1 == [F EXCEPT ![Peer(s)] = Tail(@)]
           F2 == Flow(tx')
           h == Pair(channels, c)
           g == Held(congestions, c)
           h2 == Pair(channels', c)
           g2 == Held(congestions', c)
           o == opened
<1>1. /\ tx[Peer(s)].link # << >> /\ m.code = "data" /\ input[s] = c
      /\ congestions' = congestions /\ opened' = opened
  <2>1. Receives(s, "data")
      BY DEF DataFromProxyStalls
  <2>2. input[s] = Incoming(s).id
      BY <2>1, InvImplies DEF CInv, SelectedForInput
  <2>3. QED BY <2>1, <2>2 DEF DataFromProxyStalls, Receives
<1>2. c \in Id /\ TypeOK /\ tx[s] \in Transmit
    BY <1>1, IncomingType DEF CInv, Inv, TypeOK
<1>3. ch \in Channel /\ ch # None /\ ~ch.finish
    BY <1>1, <1>2 DEF DataFromProxyStalls, Writable, Open, TypeOK
<1>4. /\ k \in Conn /\ x \in Channel /\ x.conn = k /\ x.finish = ch.finish
      /\ x.closing = ch.closing /\ x.drop = ch.drop /\ x.congestion = TRUE
    BY <1>3 DEF Channel
<1>5. tx' = Consumed(s, u) /\ channels' = [channels EXCEPT ![s][c] = x]
    BY <1>1, <1>2 DEF DataFromProxyStalls, TypeOK
<1>6. w.id = c /\ w.conn = k /\ w.code = "begin"
    OBVIOUS
<1> HIDE DEF x, k
<1>7. /\ w \in Message /\ u \in Transmit /\ u.control = << >>
      /\ Inserted(Stream(tx[s]), w, Stream(u))
    BY <1>2, <1>4, ControlStream
<1> HIDE DEF u, w
<1>8. Stream(tx[s]) \in Seq(Message) /\ Stream(u) \in Seq(Message)
    BY <1>2, <1>7, StreamType
<1>9. Remotely(s, c, u, x)
  <2>1. \A d \in Id \ {c} : \A l : Alike(Stream(tx[s]), Stream(u), d, l)
      BY <1>2, <1>6, <1>7, <1>8, InsertedAlike
  <2>2. Plain(u)
      BY <1>7, PlainEmpty
  <2>3. Incoming(s).id = c
      OBVIOUS
  <2> HIDE DEF F, F1, F2, h, g, h2, g2, o, c, m, ch
  <2>4. QED BY <1>1, <1>4, <1>5, <1>7, <2>1, <2>2, <2>3 DEF Remotely
<1>10. /\ Halfway(s, c, u, x, F, h, g, o, F1, F2, h2, g2)
       /\ Sound(c, F2, h2, g2, o) => CInv'
    BY <1>2, <1>9, RemoteStep
<1> HIDE DEF F, F1, F2, h, g, h2, g2, o, m, ch
<1>11. /\ Before(c, F, h, g, o, s) /\ Typed(F1, h, g) /\ Typed(F2, h2, g2) /\ g2 = g
       /\ Hears(F, s, m, c, F1)
       /\ F1[s] = Stream(tx[s]) /\ F2[s] = Stream(u) /\ F2[Peer(s)] = F1[Peer(s)]
       /\ h[s] = ch /\ h2[s] = x /\ h2[Peer(s)] = h[Peer(s)]
    BY <1>1, <1>10 DEF Halfway, Hears, m, ch
<1>12. Ignores(c, F, h, g, o, s, m, F1, g)
    BY <1>1, <1>11 DEF Ignores
<1>13. Before(c, F1, h, g, o, s)
    BY <1>11, <1>12, IgnoreStep DEF Before
<1>14. Talks(c, F1, h, g, o, s, w, Stream(u), x, F2, h2)
    BY <1>3, <1>4, <1>6, <1>7, <1>8, <1>11, <1>13
       DEF Talks, Writes, Marks, Becomes, k
<1>15. QED BY <1>10, <1>11, <1>14, TalkStep

(* The connection could not be written. *)
LEMMA DataFromProxyFailsSound ==
    ASSUME CInv, NEW s \in Side, DataFromProxyFails(s), Inv'
    PROVE  CInv'
<1> DEFINE m == Incoming(s)
           c == m.id
           ch == channels[s][c]
           u == flush(tx[s], c)
           x == [ch EXCEPT !.finish = TRUE]
           F == Flow(tx)
           F1 == [F EXCEPT ![Peer(s)] = Tail(@)]
           F2 == Flow(tx')
           h == Pair(channels, c)
           g == Held(congestions, c)
           h2 == Pair(channels', c)
           g2 == Held(congestions', c)
           o == opened
<1>1. /\ tx[Peer(s)].link # << >> /\ m.code = "data" /\ input[s] = c
      /\ congestions' = [congestions EXCEPT ![s] = @ \ {c}] /\ opened' = opened
  <2>1. Receives(s, "data")
      BY DEF DataFromProxyFails
  <2>2. input[s] = Incoming(s).id
      BY <2>1, InvImplies DEF CInv, SelectedForInput
  <2>3. QED BY <2>1, <2>2 DEF DataFromProxyFails, Receives
<1>2. /\ c \in Id /\ TypeOK /\ tx[s] \in Transmit
      /\ congestions \in [Side -> SUBSET Id]
    BY <1>1, IncomingType DEF CInv, Inv, TypeOK
<1>3. ch \in Channel /\ ch # None /\ ch.conn \notin Polite
    BY <1>1, <1>2 DEF DataFromProxyFails, Writable, Open, TypeOK, Polite
<1>4. x \in Channel /\ x.conn = ch.conn
    BY <1>3 DEF Channel
<1>5. tx' = Consumed(s, u) /\ channels' = [channels EXCEPT ![s][c] = x]
    BY <1>1, <1>2 DEF DataFromProxyFails, TypeOK
<1>6. /\ u \in Transmit /\ Stream(u) = Stream(tx[s])
      /\ u.control = tx[s].control \/ u.control = << >>
    BY <1>2, FlushStream
<1>7. /\ congestions'[Peer(s)] = congestions[Peer(s)]
      /\ \A d \in Id \ {c} : d \in congestions'[s] <=> d \in congestions[s]
      /\ c \notin congestions'[s]
  <2>1. Peer(s) # s /\ Peer(s) \in Side
      BY Sides
  <2> HIDE DEF m
  <2>2. QED BY <1>1, <1>2, <2>1
<1> HIDE DEF x, u
<1>8. Remotely(s, c, u, x)
  <2>1. \A d \in Id \ {c} : \A k : Alike(Stream(tx[s]), Stream(u), d, k)
      BY <1>2, <1>6, StreamType, SwitchAlike
  <2>2. Plain(u)
      BY <1>6, PlainEmpty DEF CInv, Plain
  <2>3. Incoming(s).id = c
      OBVIOUS
  <2> HIDE DEF F, F1, F2, h, g, h2, g2, o, c, m, ch
  <2>4. QED BY <1>1, <1>4, <1>5, <1>6, <1>7, <2>1, <2>2, <2>3 DEF Remotely
<1>9. /\ Halfway(s, c, u, x, F, h, g, o, F1, F2, h2, g2)
      /\ Sound(c, F2, h2, g2, o) => CInv'
    BY <1>2, <1>8, RemoteStep
<1> HIDE DEF F, F1, F2, h, g, h2, g2, o, m, ch
<1>10. /\ Before(c, F, h, g, o, s) /\ Typed(F1, h, g) /\ Typed(F2, h2, g2)
       /\ Hears(F, s, m, c, F1) /\ F2 = F1
       /\ h[s] = ch /\ h2[s] = x /\ h2[Peer(s)] = h[Peer(s)]
       /\ ~g2[s] /\ g2[Peer(s)] = g[Peer(s)]
    BY <1>6, <1>7, <1>9 DEF Halfway, m, ch
<1>11. Ignores(c, F, h, g, o, s, m, F1, g)
    BY <1>1, <1>10 DEF Ignores
<1>12. Before(c, F1, h, g, o, s)
    BY <1>10, <1>11, IgnoreStep DEF Before
<1>13. Breaks(c, F1, h, g, o, s, x, h2, g2)
    BY <1>3, <1>4, <1>10, <1>12 DEF Breaks, Marks, Becomes
<1>14. QED BY <1>9, <1>10, <1>13, BreakStep

(* Only the server proxy is told of new connections. *)
LEMMA NewAtServer ==
    ASSUME CInv, NEW s \in Side, Receives(s, "new")
    PROVE  s = "server"
<1> SUFFICES ASSUME s # "server"
             PROVE  FALSE
    OBVIOUS
<1> DEFINE m == Incoming(s)
           c == m.id
           F == Flow(tx)
<1>1. s = "client" /\ Peer(s) = "server" /\ "server" \in Side
    BY DEF Side, Peer
<1>2. TypeOK /\ tx["server"] \in Transmit /\ tx["server"].link # << >> /\ m.code = "new"
    BY <1>1 DEF CInv, Inv, TypeOK, Receives
<1>3. c \in Id /\ m.conn \in Conn
    BY <1>1, <1>2, IncomingType DEF CInv
<1>4. /\ F["server"] \in Seq(Message) /\ F["server"] # << >>
      /\ Head(F["server"]) = m
  <2>1. F["server"] = Stream(tx["server"])
      BY <1>1, <1>2, NowShape
  <2>2. QED BY <1>1, <1>2, <2>1, TailStream, StreamType DEF Incoming
<1>5. m \in Message
    BY <1>4, HeadTailProperties
<1>6. m \in News(c, m.conn)
    BY <1>2, <1>5, Kinds
<1>7. Has(F["server"], News(c, m.conn))
    BY <1>4, <1>5, <1>6, TailKinds
<1>8. ClientOpens(c, F)
    BY <1>3 DEF CInv, AllSound, Sound
<1>9. QED BY <1>3, <1>7, <1>8 DEF ClientOpens

(* What is left of an id when a channel still to be dropped is got rid of. *)
HavingCleared(s, c, u, F, h, g, o, FA, hA, gA) ==
    /\ Before(c, FA, hA, gA, o, s)
    /\ FA = [F EXCEPT ![s] = Stream(u)]
    /\ hA = [h EXCEPT ![s] = IF Stale(@) THEN None ELSE @]
    /\ gA = [g EXCEPT ![s] = ~Stale(h[s]) /\ @]

(* Clearing an id keeps its invariant. *)
LEMMA ClearStep ==
    ASSUME RudeLast, CInv, NEW s \in Side, NEW c \in Id,
           NEW u, u = Cleared(s, c), NEW F, F = Flow(tx), NEW h, h = Pair(channels, c),
           NEW g, g = Held(congestions, c),
           NEW FA, FA = [F EXCEPT ![s] = Stream(u)],
           NEW hA, hA = [h EXCEPT ![s] = IF Stale(@) THEN None ELSE @],
           NEW gA, gA = [g EXCEPT ![s] = ~Stale(h[s]) /\ @]
    PROVE  /\ u \in Transmit /\ Plain(u)
           /\ \A d \in Id \ {c} : \A k : Alike(Stream(tx[s]), Stream(u), d, k)
           /\ HavingCleared(s, c, u, F, h, g, opened, FA, hA, gA)
<1> DEFINE ch == channels[s][c]
           m == [code |-> "drop", id |-> c, conn |-> ch.conn]
<1>1. /\ TypeOK /\ tx[s] \in Transmit /\ opened \in Nat /\ Good(tx[s], input[Peer(s)])
      /\ F \in [Side -> Seq(Message)] /\ F[s] = Stream(tx[s]) /\ Plain(tx[s])
      /\ ch \in Channel \cup {None}
    BY NowShape DEF CInv, Inv, TypeOK, Shape
<1>2. /\ h \in [Side -> Channel \cup {None}] /\ h[s] = ch
      /\ g \in [Side -> BOOLEAN]
      /\ Before(c, F, h, g, opened, s)
  <2>1. Sound(c, F, h, g, opened)
      BY DEF CInv, AllSound
  <2>2. Typed(F, h, g)
      BY <2>1 DEF Sound
  <2>3. h[s] = ch
      BY DEF Pair
  <2>4. QED BY <1>1, <2>1, <2>2, <2>3 DEF Typed, Before
<1>3. \A q \in Side : q = s \/ q = Peer(s)
    BY DEF Side, Peer
<1>4. CASE ~Stale(ch)
  <2>1. u = tx[s]
      BY <1>4 DEF Cleared
  <2>2. FA = F /\ hA = h
      BY <1>1, <1>2, <1>4, <2>1
  <2>3. gA = g
    <3>1. gA \in [Side -> BOOLEAN] /\ \A q \in Side : gA[q] = g[q]
        BY <1>2, <1>4
    <3>2. QED BY <1>2, <3>1
  <2>4. \A d \in Id \ {c} : \A k : Alike(Stream(tx[s]), Stream(u), d, k)
      BY <1>1, <2>1, StreamType, SwitchAlike
  <2>5. QED BY <1>1, <1>2, <2>1, <2>2, <2>3, <2>4 DEF HavingCleared
<1>5. CASE Stale(ch)
  <2>1. u = handleDrop(tx[s], ch, c) /\ ch \in Channel /\ ch # None /\ (ch.drop \/ ch.closing)
      BY <1>1, <1>5 DEF Cleared, Stale
  <2>2. m.id = c /\ m.conn = ch.conn /\ m.code = "drop"
      OBVIOUS
  <2>3. /\ m \in Message /\ u \in Transmit
        /\ ch.closing => /\ Inserted(Stream(tx[s]), m, Stream(u))
                         /\ Behind(Stream(tx[s]), m, Stream(u), c)
        /\ ~ch.closing => Stream(u) = Stream(tx[s])
        /\ u.control = tx[s].control \/ u.control = << >>
    <3> DEFINE v == handleDrop(tx[s], ch, c)
    <3>1. /\ m \in Message /\ v \in Transmit
          /\ ch.closing => /\ Inserted(Stream(tx[s]), m, Stream(v))
                           /\ Behind(Stream(tx[s]), m, Stream(v), c)
          /\ ~ch.closing => Stream(v) = Stream(tx[s])
          /\ v.control = tx[s].control \/ v.control = << >>
      <4> HIDE DEF ch
      <4>1. QED BY <1>1, <2>1, DropStream
    <3> HIDE DEF ch, m
    <3>2. u = v
        BY <2>1
    <3> HIDE DEF v
    <3>3. QED BY <3>1, <3>2
  <2> HIDE DEF m, ch
  <2>4. Stream(tx[s]) \in Seq(Message) /\ Stream(u) \in Seq(Message)
      BY <1>1, <2>3, StreamType
  <2>5. \A d \in Id \ {c} : \A k : Alike(Stream(tx[s]), Stream(u), d, k)
      BY <2>2, <2>3, <2>4, InsertedAlike
  <2>6. Plain(u)
      BY <1>1, <2>3, PlainEmpty DEF Plain
  <2>7. /\ FA \in [Side -> Seq(Message)] /\ FA[s] = Stream(u) /\ FA[Peer(s)] = F[Peer(s)]
        /\ hA \in [Side -> Channel \cup {None}] /\ hA[s] = None /\ hA[Peer(s)] = h[Peer(s)]
      BY <1>1, <1>2, <1>5, <2>4, Sides
  <2>8. gA \in [Side -> BOOLEAN] /\ ~gA[s] /\ gA[Peer(s)] = g[Peer(s)]
    <3>1. (~Stale(h[s]) /\ g[s]) = FALSE
        BY <1>2, <1>5
    <3>2. gA = [g EXCEPT ![s] = FALSE]
        BY <3>1
    <3>3. QED BY <1>2, <3>2, Sides
  <2>9. Typed(FA, hA, gA)
      BY <2>7, <2>8 DEF Typed
  <2>10. Removes(c, F, h, g, opened, s, m, Stream(u), FA, hA, gA)
      BY <1>1, <1>2, <2>1, <2>2, <2>3, <2>4, <2>7, <2>8, <2>9 DEF Removes
  <2>11. Sound(c, FA, hA, gA, opened)
      BY <2>10, RemoveStep
  <2>12. QED BY <1>1, <2>3, <2>5, <2>6, <2>11 DEF HavingCleared, Before
<1>6. QED BY <1>4, <1>5

(* The server proxy opens a channel for the connection it is told of. *)
LEMMA NewFromProxySound ==
    ASSUME RudeLast, CInv, NEW s \in Side, NewFromProxy(s), Inv'
    PROVE  CInv'
<1> DEFINE m == Incoming(s)
           c == m.id
           ch == channels[s][c]
           u == Cleared(s, c)
           x == Fresh(m.conn)
           F == Flow(tx)
           F1 == [F EXCEPT ![Peer(s)] = Tail(@)]
           F2 == Flow(tx')
           h == Pair(channels, c)
           g == Held(congestions, c)
           h2 == Pair(channels', c)
           g2 == Held(congestions', c)
           FA == [F EXCEPT ![s] = Stream(u)]
           hA == [h EXCEPT ![s] = IF Stale(@) THEN None ELSE @]
           gA == [g EXCEPT ![s] = ~Stale(h[s]) /\ @]
           o == opened
<1>1. /\ tx[Peer(s)].link # << >> /\ m.code = "new" /\ tx' = Consumed(s, u)
      /\ opened' = opened /\ channels' = [channels EXCEPT ![s][c] = x]
      /\ congestions' = IF Open(s, c) THEN [congestions EXCEPT ![s] = @ \ {c}]
                        ELSE congestions
      /\ ~Open(s, c) \/ Stale(ch)
      /\ s = "server"
    BY NewAtServer DEF NewFromProxy, Receives, DropCongestion
<1>2. /\ c \in Id /\ m.conn \in Conn /\ TypeOK /\ congestions \in [Side -> SUBSET Id]
    BY <1>1, IncomingType DEF CInv, Inv, TypeOK
<1>3. x \in Channel /\ x.conn = m.conn /\ Unmarked(x)
    BY <1>2 DEF Fresh, Unmarked, Channel
<1>4. /\ u \in Transmit /\ Plain(u)
      /\ \A d \in Id \ {c} : \A k : Alike(Stream(tx[s]), Stream(u), d, k)
      /\ HavingCleared(s, c, u, F, h, g, o, FA, hA, gA)
  <2> HIDE DEF m, x
  <2>1. QED BY <1>2, ClearStep
<1>5. /\ congestions'[Peer(s)] = congestions[Peer(s)]
      /\ \A d \in Id \ {c} : d \in congestions'[s] <=> d \in congestions[s]
      /\ Open(s, c) => c \notin congestions'[s]
      /\ ~Open(s, c) => congestions' = congestions
  <2>1. Peer(s) # s /\ Peer(s) \in Side
      BY Sides
  <2> HIDE DEF m, u
  <2>2. QED BY <1>1, <1>2, <2>1
<1> HIDE DEF x, u
<1>6. Remotely(s, c, u, x)
  <2>1. Incoming(s).id = c
      OBVIOUS
  <2> HIDE DEF F, F1, F2, h, g, h2, g2, FA, hA, gA, o, c, m, ch
  <2>2. QED BY <1>1, <1>3, <1>4, <1>5, <2>1 DEF Remotely
<1>7. /\ Halfway(s, c, u, x, F, h, g, o, F1, F2, h2, g2)
      /\ Sound(c, F2, h2, g2, o) => CInv'
    BY <1>2, <1>6, RemoteStep
<1> HIDE DEF F, F1, F2, h, g, h2, g2, FA, hA, gA, o, m, ch
<1>8. /\ Before(c, F, h, g, o, s) /\ Typed(F, h, g) /\ Typed(F2, h2, g2)
      /\ Hears(F, s, m, c, F1) /\ F2[s] = Stream(u) /\ F2[Peer(s)] = F1[Peer(s)]
      /\ h[s] = ch /\ h2[s] = x /\ h2[Peer(s)] = h[Peer(s)]
      /\ g2[Peer(s)] = g[Peer(s)] /\ (h[s] = None => ~g[s])
    BY <1>7 DEF Halfway, Before, Sound, Unread, m, ch
<1>9. ~g2[s]
  <2>1. CASE Open(s, c)
      BY <1>5, <1>7, <2>1 DEF Halfway
  <2>2. CASE ~Open(s, c)
    <3>1. ch = None
        BY <2>2 DEF Open, ch
    <3>2. g2 = g
        BY <1>5, <1>7, <2>2 DEF Halfway
    <3>3. QED BY <1>8, <3>1, <3>2
  <2>3. QED BY <2>1, <2>2
<1>10. /\ Before(c, FA, hA, gA, o, s)
       /\ FA[s] = Stream(u) /\ FA[Peer(s)] = F[Peer(s)]
       /\ hA[s] = None /\ hA[Peer(s)] = h[Peer(s)] /\ gA[Peer(s)] = g[Peer(s)]
  <2>1. /\ FA = [F EXCEPT ![s] = Stream(u)]
        /\ hA = [h EXCEPT ![s] = IF Stale(h[s]) THEN None ELSE h[s]]
        /\ gA = [g EXCEPT ![s] = ~Stale(h[s]) /\ g[s]]
        /\ Before(c, FA, hA, gA, o, s)
      BY <1>4 DEF HavingCleared
  <2>2. /\ DOMAIN F = Side /\ DOMAIN h = Side /\ DOMAIN g = Side
        /\ Peer(s) # s /\ Peer(s) \in Side
      BY <1>8, Sides DEF Typed
  <2>3. Stale(h[s]) \/ h[s] = None
      BY <1>1, <1>8 DEF Open, ch
  <2>4. QED BY <2>1, <2>2, <2>3
<1>11. Hears(FA, s, m, c, F2)
    BY <1>8, <1>10 DEF Hears
<1>12. Peer("server") = "client"
    BY DEF Peer
<1>13. HearsNew(c, FA, hA, gA, o, m, x, F2, h2, g2)
    BY <1>1, <1>3, <1>8, <1>9, <1>10, <1>11, <1>12 DEF HearsNew, Becomes
<1>14. QED BY <1>7, <1>13, HearNewStep

(* The id is in use, or connecting failed: the client proxy is told to drop. *)
LEMMA NewFromProxyRefusedSound ==
    ASSUME RudeLast, CInv, NEW s \in Side, NewFromProxyRefused(s), Inv'
    PROVE  CInv'
<1> DEFINE m == Incoming(s)
           c == m.id
           k == m.conn
           ch == channels[s][c]
           u == Cleared(s, c)
           v == handleControl(u, "drop", c, k)
           w == [code |-> "drop", id |-> c, conn |-> k]
           x == IF Stale(ch) THEN None ELSE ch
           F == Flow(tx)
           F1 == [F EXCEPT ![Peer(s)] = Tail(@)]
           F2 == Flow(tx')
           h == Pair(channels, c)
           g == Held(congestions, c)
           h2 == Pair(channels', c)
           g2 == Held(congestions', c)
           FA == [F EXCEPT ![s] = Stream(u)]
           hA == [h EXCEPT ![s] = IF Stale(@) THEN None ELSE @]
           gA == [g EXCEPT ![s] = ~Stale(h[s]) /\ @]
           FB == [FA EXCEPT ![Peer(s)] = Tail(@)]
           o == opened
<1>1. /\ tx[Peer(s)].link # << >> /\ m.code = "new" /\ tx' = Consumed(s, v)
      /\ opened' = opened
      /\ congestions' = IF Stale(ch) THEN [congestions EXCEPT ![s] = @ \ {c}]
                        ELSE congestions
      /\ (Open(s, c) /\ ~Stale(ch)) \/ k \in ConnectFails
      /\ s = "server"
    BY NewAtServer DEF NewFromProxyRefused, Receives, DropCongestion
<1>2. /\ c \in Id /\ k \in Conn /\ TypeOK /\ congestions \in [Side -> SUBSET Id]
      /\ ch \in Channel \cup {None}
    BY <1>1, IncomingType DEF CInv, Inv, TypeOK
<1>3. channels' = [channels EXCEPT ![s][c] = x] /\ x \in Channel \cup {None}
    BY <1>2 DEF NewFromProxyRefused, TypeOK
<1>4. /\ u \in Transmit /\ Plain(u)
      /\ \A d \in Id \ {c} : \A l : Alike(Stream(tx[s]), Stream(u), d, l)
      /\ HavingCleared(s, c, u, F, h, g, o, FA, hA, gA)
  <2> HIDE DEF m, x
  <2>1. QED BY <1>2, ClearStep
<1>5. /\ congestions'[Peer(s)] = congestions[Peer(s)]
      /\ \A d \in Id \ {c} : d \in congestions'[s] <=> d \in congestions[s]
      /\ Stale(ch) => c \notin congestions'[s]
      /\ ~Stale(ch) => congestions' = congestions
  <2>1. Peer(s) # s /\ Peer(s) \in Side
      BY Sides
  <2> HIDE DEF m, u, v, ch
  <2>2. QED BY <1>1, <1>2, <2>1
<1>6. w.id = c /\ w.conn = k /\ w.code = "drop"
    OBVIOUS
<1> HIDE DEF u, k
<1>7. /\ w \in Message /\ v \in Transmit /\ v.control = << >>
      /\ Inserted(Stream(u), w, Stream(v))
    BY <1>2, <1>4, ControlStream
<1> HIDE DEF x, v, w
<1>8. /\ Stream(u) \in Seq(Message) /\ Stream(v) \in Seq(Message)
      /\ Stream(tx[s]) \in Seq(Message)
    BY <1>2, <1>4, <1>7, StreamType DEF TypeOK
<1>9. Remotely(s, c, v, x)
  <2>1. \A d \in Id \ {c} : \A l : Alike(Stream(u), Stream(v), d, l)
      BY <1>2, <1>6, <1>7, <1>8, InsertedAlike
  <2>2. \A d \in Id \ {c} : \A l : Alike(Stream(tx[s]), Stream(v), d, l)
      BY <1>4, <2>1, AlikeBoth
  <2>3. Incoming(s).id = c
      OBVIOUS
  <2>4. Plain(v)
      BY <1>7, PlainEmpty
  <2> HIDE DEF F, F1, F2, h, g, h2, g2, FA, hA, gA, FB, o, c, m, ch
  <2>5. QED BY <1>1, <1>3, <1>5, <1>7, <2>2, <2>3, <2>4 DEF Remotely
<1>10. /\ Halfway(s, c, v, x, F, h, g, o, F1, F2, h2, g2)
       /\ Sound(c, F2, h2, g2, o) => CInv'
    BY <1>2, <1>9, RemoteStep
<1>11. FB = [FA EXCEPT ![Peer(s)] = Tail(@)]
    OBVIOUS
<1> HIDE DEF F, F1, F2, h, g, h2, g2, FA, hA, gA, FB, o, m, ch
<1>12. /\ Before(c, F, h, g, o, s) /\ Typed(F, h, g) /\ Typed(F2, h2, g2)
       /\ Hears(F, s, m, c, F1) /\ F2[s] = Stream(v) /\ F2[Peer(s)] = F1[Peer(s)]
       /\ h[s] = ch /\ h2[s] = x /\ h2[Peer(s)] = h[Peer(s)]
       /\ g[s] <=> c \in congestions[s]
       /\ g2[s] <=> c \in congestions'[s]
       /\ g2[Peer(s)] = g[Peer(s)]
    BY <1>10 DEF Halfway, Before, Sound, m, ch
<1>13. /\ Before(c, FA, hA, gA, o, s)
       /\ FA[s] = Stream(u) /\ FA[Peer(s)] = F[Peer(s)]
       /\ hA[s] = x /\ hA[Peer(s)] = h[Peer(s)]
       /\ gA[s] <=> ~Stale(ch) /\ g[s]
       /\ gA[Peer(s)] = g[Peer(s)]
       /\ Typed(FA, hA, gA)
  <2>1. /\ FA = [F EXCEPT ![s] = Stream(u)]
        /\ hA = [h EXCEPT ![s] = IF Stale(h[s]) THEN None ELSE h[s]]
        /\ gA = [g EXCEPT ![s] = ~Stale(h[s]) /\ g[s]]
        /\ Before(c, FA, hA, gA, o, s)
      BY <1>4 DEF HavingCleared
  <2>2. /\ DOMAIN F = Side /\ DOMAIN h = Side /\ DOMAIN g = Side
        /\ Peer(s) # s /\ Peer(s) \in Side
      BY <1>12, Sides DEF Typed
  <2>3. hA[s] = x
      BY <1>12, <2>1, <2>2 DEF x
  <2>4. Typed(FA, hA, gA)
      BY <2>1 DEF Before, Sound
  <2>5. QED BY <1>12, <2>1, <2>2, <2>3, <2>4
<1>14. \A q \in Side : q = s \/ q = Peer(s)
    BY DEF Side, Peer
<1>15. h2 = hA
  <2>1. h2 \in [Side -> Channel \cup {None}] /\ hA \in [Side -> Channel \cup {None}]
      BY <1>12, <1>13 DEF Typed
  <2>2. QED BY <1>12, <1>13, <1>14, <2>1
<1>16. g2 = gA
  <2>1. g2 \in [Side -> BOOLEAN] /\ gA \in [Side -> BOOLEAN]
      BY <1>12, <1>13 DEF Typed
  <2>2. g2[s] <=> gA[s]
      BY <1>5, <1>12, <1>13
  <2>3. g2[Peer(s)] <=> gA[Peer(s)]
      BY <1>12, <1>13
  <2>4. \A q \in Side : g2[q] = gA[q]
      BY <1>14, <2>1, <2>2, <2>3
  <2>5. QED BY <2>1, <2>4
<1>17. /\ FB \in [Side -> Seq(Message)] /\ FB[s] = Stream(u) /\ FB[Peer(s)] = F1[Peer(s)]
       /\ F1[Peer(s)] = Tail(F[Peer(s)])
  <2>1. FA \in [Side -> Seq(Message)] /\ Peer(s) # s /\ Peer(s) \in Side
      BY <1>13, Sides DEF Typed
  <2>2. FA[Peer(s)] # << >> /\ F1[Peer(s)] = Tail(F[Peer(s)])
      BY <1>12, <1>13 DEF Hears
  <2>3. Tail(FA[Peer(s)]) \in Seq(Message)
      BY <2>1, <2>2, HeadTailProperties
  <2>4. QED BY <1>11, <1>13, <2>1, <2>2, <2>3
<1>18. Typed(FB, hA, gA)
    BY <1>13, <1>17 DEF Typed
<1>19. Hears(FA, s, m, c, FB)
    BY <1>12, <1>13, <1>17 DEF Hears
<1>20. k \notin Polite /\ hA[s].conn \notin Polite
  <2>1. CASE k \in ConnectFails /\ (~Open(s, c) \/ Stale(ch))
    <3>1. hA[s] = None
        BY <1>12, <1>13, <2>1 DEF Open, ch, x
    <3>2. None.conn \notin Polite
        BY NoneIsNoChannel, PoliteType
    <3>3. QED BY <2>1, <3>1, <3>2 DEF Polite
  <2>2. CASE Open(s, c) /\ ~Stale(ch)
    <3>1. ch # None /\ ~ch.drop /\ hA[s] = ch
        BY <1>13, <2>2 DEF Stale, Open, ch, x
    <3>2. Peer(s) = "client"
        BY <1>1 DEF Peer
    <3>3. FindsUsed(c, F, h, g, o, m)
        BY <1>1, <1>12, <3>1, <3>2 DEF FindsUsed, Hears
    <3>4. m.conn \notin Polite /\ h["server"].conn \notin Polite
        BY <3>3, FindUsed
    <3>5. QED BY <1>1, <1>12, <3>1, <3>4 DEF k
  <2>3. QED BY <1>1, <2>1, <2>2
<1>21. Ignores(c, FA, hA, gA, o, s, m, FB, gA)
    BY <1>1, <1>13, <1>18, <1>19, <1>20 DEF Ignores, k
<1>22. Before(c, FB, hA, gA, o, s)
    BY <1>13, <1>21, IgnoreStep DEF Before
<1>23. k <= o /\ (hA["client"] # None => k <= hA["client"].conn)
  <2>1. "client" \in Side /\ Peer(s) = "client"
      BY <1>1 DEF Peer, Side
  <2>2. /\ F["client"] \in Seq(Message) /\ F["client"] # << >> /\ m = Head(F["client"])
        /\ m \in Message /\ m.id = c
      BY <1>12, <2>1 DEF Hears, Typed
  <2>3. m \in About(c, k)
      BY <1>1, <2>2, Kinds DEF k
  <2>4. Has(F["client"], About(c, k))
      BY <2>2, <2>3, TailKinds
  <2>5. Numbered(c, F, h, o)
      BY <1>12 DEF Before, Sound
  <2>6. k <= o /\ (h["client"] # None => k <= h["client"].conn)
      BY <1>2, <2>1, <2>4, <2>5 DEF Numbered
  <2>7. QED BY <1>13, <2>1, <2>6
<1>24. Refuses(c, FB, hA, gA, o, w, Stream(v), F2)
  <2>1. Writes(FB, s, w, c, k, Stream(v), F2)
      BY <1>6, <1>7, <1>8, <1>12, <1>17 DEF Writes
  <2>2. Typed(F2, hA, gA)
      BY <1>12, <1>15, <1>16
  <2>3. QED BY <1>1, <1>6, <1>20, <1>22, <1>23, <2>1, <2>2 DEF Refuses
<1>25. QED BY <1>10, <1>15, <1>16, <1>24, RefuseStep

(* Nothing was said yet. *)
LEMMA InitSound == Init => CInv
<1> SUFFICES ASSUME Init
             PROVE  CInv
    OBVIOUS
<1>1. Inv /\ TypeOK
    BY InitInv DEF Inv
<1>2. /\ channels = [s \in Side |-> [c \in Id |-> None]]
      /\ congestions = [s \in Side |-> {}]
      /\ opened = 0 /\ opened \in Nat
      /\ \A s \in Side : /\ tx[s].control = << >> /\ tx[s].encode = << >>
                         /\ tx[s].link = << >>
    BY DEF Init
<1> DEFINE F == Flow(tx)
<1>3. F \in [Side -> Seq(Message)] /\ \A s \in Side : F[s] = << >>
  <2>1. \A s \in Side : Stream(tx[s]) = << >>
    <3>1. << >> \o << >> = << >>
        OBVIOUS
    <3>2. QED BY <1>2, <3>1 DEF Stream, Written
  <2>2. QED BY <1>1, <2>1, FlowType DEF TypeOK
<1> HIDE DEF F
<1>4. \A s \in Side : /\ \A P : ~Has(F[s], P)
                      /\ \A P, Q : Never(F[s], P, Q)
                      /\ \A P, Q : Led(F[s], P, Q)
    BY <1>3 DEF Has, Never, Led
<1>5. ASSUME NEW c \in Id
      PROVE  Sound(c, F, Pair(channels, c), Held(congestions, c), opened)
  <2> DEFINE h == Pair(channels, c)
             g == Held(congestions, c)
  <2>1. /\ h \in [Side -> Channel \cup {None}] /\ g \in [Side -> BOOLEAN]
        /\ \A s \in Side : h[s] = None /\ h[s].conn = 0 /\ ~g[s]
    <3>1. \A s \in Side : channels[s][c] = None /\ c \notin congestions[s]
        BY <1>2, <1>5
    <3>2. h \in [Side -> Channel \cup {None}] /\ \A s \in Side : h[s] = None
        BY <3>1 DEF Pair
    <3>3. g \in [Side -> BOOLEAN]
        BY DEF Held
    <3>4. \A s \in Side : g[s] <=> c \in congestions[s]
        BY DEF Held
    <3> HIDE DEF h, g
    <3>5. QED BY <3>1, <3>2, <3>3, <3>4, NoneIsNoChannel
  <2> HIDE DEF h, g
  <2>2. /\ "client" \in Side /\ "server" \in Side /\ 0 \notin Polite /\ 0 <= opened
        /\ \A s \in Side : Peer(s) \in Side
      BY <1>2, PoliteType DEF Side, Peer
  <2>3. Typed(F, h, g)
      BY <1>3, <2>1 DEF Typed
  <2>4. Numbered(c, F, h, opened)
      BY <1>4, <2>1, <2>2 DEF Numbered
  <2>5. ClientOpens(c, F) /\ Unread(h, g)
      BY <1>4, <2>1, <2>2 DEF ClientOpens, Unread
  <2>6. \A k \in Polite : Opening(c, k, F, h, g) /\ Succeeds(c, k, F, h)
      BY <1>4, <2>1, <2>2 DEF Opening, Succeeds
  <2>7. \A k \in Polite, s \in Side : Upheld(c, k, s, F, h, g)
      BY <1>4, <2>1, <2>2
         DEF Upheld, Ended, Heard, Closing, Dropped, Finishing, Dropping, Pressed
  <2>8. \A k \in Conn, s \in Side : Introduced(c, k, s, F, h)
      BY <1>4 DEF Introduced
  <2>9. QED BY <2>3, <2>4, <2>5, <2>6, <2>7, <2>8 DEF Sound, h, g
<1>6. \A s \in Side : Plain(tx[s])
    BY <1>2, PlainEmpty
<1>7. QED BY <1>1, <1>5, <1>6 DEF CInv, AllSound, F

(* Every step keeps the invariant. *)
LEMMA StepSound ==
    ASSUME RudeLast, CInv, [Next]_vars
    PROVE  CInv'
<1>1. Inv'
    BY StepInv DEF CInv
<1>2. CASE UNCHANGED vars
  <2>1. /\ tx' = tx /\ channels' = channels /\ congestions' = congestions
        /\ opened' = opened
      BY <1>2 DEF vars
  <2>2. QED BY <1>1, <2>1 DEF CInv
<1>3. CASE handleNewConnection
    BY <1>1, <1>3, NewConnectionSound
<1>4. CASE \E s \in Side : handleFlush(s)
    BY <1>1, <1>4, FlushSound
<1>5. CASE \E s \in Side : FromProxy(s)
    BY <1>1, <1>5, SwitchFromProxySound, DataFromProxySound, DataFromProxyStallsSound,
       DataFromProxyFailsSound, NewFromProxySound, NewFromProxyRefusedSound,
       FinishFromProxySound, DropFromProxySound, CongestionFromProxySound DEF FromProxy
<1>6. CASE \E s \in Side, c \in Id :
               \/ handleReadChannel(s, c) \/ handleDecongestion(s, c)
               \/ handleFinish(s, c) \/ handleEvents(s, c)
    BY <1>1, <1>6, ReadChannelSound, DecongestionSound, FinishSound, EventsSound
<1>7. QED BY <1>2, <1>3, <1>4, <1>5, <1>6 DEF Next

(* A message of the link is in the stream. *)
LEMMA StreamAt ==
    ASSUME NEW t \in Transmit
    PROVE  LET S == Stream(t)  n == Len(t.link) IN
           /\ n \in Nat /\ n <= Len(S) /\ Len(S) \in Nat /\ DOMAIN t.link = 1 .. n
           /\ \A i \in 1 .. n : S[i] = t.link[i]
           /\ Plain(t) => \A i \in 1 .. Len(S) :
                              i > n => S[i].code \in {"new", "switch", "data"}
<1> DEFINE a == t.link
           b == t.control
           d == t.encode
           W == a \o b
           S == W \o d
<1>1. a \in Seq(Message) /\ b \in Seq(Message) /\ d \in Seq(Message) /\ d \in Seq(Data)
    BY TransmitType
<1>2. /\ W \in Seq(Message) /\ Len(W) = Len(a) + Len(b)
      /\ \A i \in 1 .. Len(a) + Len(b) :
             W[i] = IF i <= Len(a) THEN a[i] ELSE b[i - Len(a)]
    BY <1>1, ConcatProperties
<1>3. /\ S \in Seq(Message) /\ Len(S) = Len(W) + Len(d)
      /\ \A i \in 1 .. Len(W) + Len(d) :
             S[i] = IF i <= Len(W) THEN W[i] ELSE d[i - Len(W)]
  <2>1. W \in Seq(Message) /\ d \in Seq(Message)
      BY <1>1, <1>2
  <2> HIDE DEF a, b, W, d
  <2>2. QED BY <2>1, ConcatProperties
<1>4. /\ Len(a) \in Nat /\ Len(b) \in Nat /\ Len(d) \in Nat
      /\ DOMAIN a = 1 .. Len(a)
      /\ \A i \in 1 .. Len(d) : d[i].code = "data"
  <2>1. \A i \in 1 .. Len(d) : d[i] \in Data
      BY <1>1
  <2>2. QED BY <1>1, <2>1 DEF Data
<1>5. Plain(t) => \A i \in 1 .. Len(b) : b[i].code \in {"new", "switch"}
    BY DEF Plain
<1>6. Stream(t) = S
    BY DEF Stream, Written
<1> HIDE DEF a, b, d, W, S
<1>7. \A i \in 1 .. Len(a) : S[i] = a[i]
    BY <1>2, <1>3, <1>4
<1>8. ASSUME Plain(t), NEW i \in 1 .. Len(S), i > Len(a)
      PROVE  S[i].code \in {"new", "switch", "data"}
  <2>1. CASE i <= Len(W)
    <3>1. i - Len(a) \in 1 .. Len(b) /\ S[i] = b[i - Len(a)]
        BY <1>2, <1>3, <1>4, <1>8, <2>1
    <3>2. QED BY <1>5, <1>8, <3>1
  <2>2. CASE ~(i <= Len(W))
    <3>1. i - Len(W) \in 1 .. Len(d) /\ S[i] = d[i - Len(W)]
        BY <1>2, <1>3, <1>4, <2>2
    <3>2. QED BY <1>4, <3>1
  <2>3. QED BY <2>1, <2>2
<1>9. Len(a) <= Len(S) /\ Len(S) \in Nat
    BY <1>2, <1>3, <1>4
<1>10. QED BY <1>4, <1>6, <1>7, <1>8, <1>9 DEF a

(* No message about a polite connection finds another in its place. *)
LEMMA CrossTalkless ==
    ASSUME RudeLast, CInv
    PROVE  NoCrossTalk
<1> SUFFICES ASSUME NEW s \in Side, tx[Peer(s)].link # << >>, Incoming(s).conn \in Polite
             PROVE  LET m == Incoming(s) IN
                    /\ m.code = "data" => input[s] # nothing
                                              /\ channels[s][input[s]].conn = m.conn
                    /\ m.code \in {"finish", "drop"} =>
                           channels[s][m.id].conn \in {0, m.conn}
                    /\ m.code = "new" => ~Open(s, m.id) \/ Stale(channels[s][m.id])
    BY DEF NoCrossTalk
<1> DEFINE m == Incoming(s)
           c == m.id
           F == Flow(tx)
           h == Pair(channels, c)
           g == Held(congestions, c)
<1>1. TypeOK /\ opened \in Nat /\ Peer(s) \in Side
    BY SideType, NowShape DEF CInv, Inv
<1>2. c \in Id /\ c # nothing
    BY IncomingType, LimitAssumption DEF CInv, Id, nothing
<1>3. /\ F[Peer(s)] # << >> /\ m = Head(F[Peer(s)]) /\ m \in Message
  <2>1. tx[Peer(s)] \in Transmit /\ F[Peer(s)] = Stream(tx[Peer(s)])
      BY <1>1, NowShape DEF TypeOK
  <2>2. QED BY <2>1, TailStream, StreamType, HeadTailProperties DEF Incoming
<1>4. Sound(c, F, h, g, opened) /\ h[s] = channels[s][c]
    BY <1>2 DEF CInv, AllSound, Pair
<1>5. m.code = "data" => input[s] = c
    BY InvImplies DEF CInv, SelectedForInput, Receives
<1>6. m.code = "new" => s = "server" /\ Peer(s) = "client"
    BY NewAtServer DEF Receives, Peer
<1>7. m.code \notin {"switch", "new"} => h[s].conn = m.conn
  <2> HIDE DEF m, F, h, g
  <2>1. QED BY <1>1, <1>3, <1>4, Finds DEF m
<1>8. ASSUME m.code = "new", Open(s, c)
      PROVE  Stale(channels[s][c])
  <2>1. h[s] # None
      BY <1>4, <1>8 DEF Open
  <2>2. s = "server" /\ Peer(s) = "client"
      BY <1>6, <1>8
  <2>3. ~h[s].drop => FALSE
    <3> SUFFICES ASSUME ~h[s].drop
                 PROVE  FALSE
        OBVIOUS
    <3>1. FindsUsed(c, F, h, g, opened, m)
        BY <1>1, <1>3, <1>4, <1>8, <2>1, <2>2 DEF FindsUsed, Before
    <3>2. QED BY <3>1, FindUsed
  <2>4. QED BY <1>4, <2>1, <2>3 DEF Stale
<1>9. QED BY <1>2, <1>4, <1>5, <1>7, <1>8

(* The congestions that are still to be said are about the connection of both
   ends. *)
LEMMA SaidOfThis ==
    ASSUME RudeLast, NEW c, NEW F, NEW h, NEW g, NEW o \in Nat, Sound(c, F, h, g, o),
           NEW s \in Side, NEW k \in Polite, h[s].conn = k, h[Peer(s)].conn = k,
           NEW i \in 1 .. Len(F[s]), F[s][i].id = c, F[s][i].code \in {"begin", "end"}
    PROVE  F[s][i].conn = k
<1> DEFINE m == F[s][i]
           l == m.conn
<1> SUFFICES ASSUME l # k
             PROVE  FALSE
    OBVIOUS
<1>1. /\ F[s] \in Seq(Message) /\ m \in Message
      /\ h["client"] \in Channel \cup {None}
    BY DEF Sound, Typed, Side
<1>2. l \in Conn /\ k \in Conn /\ k \in Nat /\ l \in Nat
    BY <1>1, PoliteType DEF Message, Code, Data
<1>3. m \in Later(c, l)
    BY <1>1, Kinds
<1>4. Led(F[s], Later(c, l), News(c, l))
    BY <1>2 DEF Sound, Introduced
<1>5. Has(F[s], News(c, l))
    BY <1>1, <1>3, <1>4 DEF Led, Has
<1>6. s = "client"
    BY <1>2, <1>5 DEF Sound, ClientOpens, Side
<1>7. l \notin Polite
    BY <1>5, <1>6 DEF Sound, Opening
<1>8. k < l
    BY <1>2, <1>7 DEF RudeLast
<1>9. Has(F[s], About(c, l))
    BY <1>5, SaidSubsets
<1>10. h["client"] # None
    BY <1>1, <1>2, <1>6, ChannelType
<1>11. l <= k
    BY <1>2, <1>6, <1>9, <1>10 DEF Sound, Numbered, Side
<1>12. QED BY <1>2, <1>8, <1>11

(* A proxy knows, once it has heard all that was said, whether the other end of
   a polite connection keeps up. *)
LEMMA PressureKnown ==
    ASSUME RudeLast, CInv
    PROVE  BackPressure
<1> SUFFICES ASSUME NEW s \in Side, NEW c \in Id,
                    Open(s, c), Open(Peer(s), c),
                    channels[s][c].conn = channels[Peer(s)][c].conn,
                    channels[s][c].conn \in Polite,
                    ~channels[s][c].finish, ~channels[Peer(s)][c].finish
             PROVE  channels[Peer(s)][c].congestion =
                        IF ToSay(s, c) = {} THEN c \in congestions[s]
                        ELSE LastSaidBegins(s, c)
    BY DEF BackPressure
<1> DEFINE p == Peer(s)
           k == channels[s][c].conn
           t == tx[p]
           F == Flow(tx)
           h == Pair(channels, c)
           g == Held(congestions, c)
<1>1. /\ TypeOK /\ opened \in Nat /\ p \in Side /\ Peer(p) = s /\ t \in Transmit
      /\ F[p] = Stream(t) /\ Plain(t)
    BY SideType, NowShape DEF CInv, Inv, TypeOK
<1>2. /\ Sound(c, F, h, g, opened) /\ h[s] = channels[s][c] /\ h[p] = channels[p][c]
      /\ g[s] <=> c \in congestions[s]
    BY <1>1 DEF CInv, AllSound, Pair, Held
<1>3. channels[p][c].congestion \in BOOLEAN
    BY <1>1, ChannelType DEF TypeOK, Open
<1>4. h[p].congestion <=>
          IF Has(F[p], Said(c, k)) THEN Last(F[p], Begins(c, k), Said(c, k)) ELSE g[s]
  <2>1. Pressed(c, k, p, F, h, g)
      BY <1>1, <1>2 DEF Sound, Upheld
  <2>2. h[p].conn = k /\ ~h[p].finish /\ h[s].conn = k
      BY <1>2
  <2> HIDE DEF k, F, h, g, p
  <2>3. QED BY <1>1, <2>1, <2>2 DEF Pressed
<1> DEFINE S == Stream(t)
           n == Len(t.link)
<1>5. /\ n \in Nat /\ n <= Len(S) /\ Len(S) \in Nat /\ DOMAIN t.link = 1 .. n
      /\ \A i \in 1 .. n : S[i] = t.link[i]
      /\ \A i \in 1 .. Len(S) : i > n => S[i].code \in {"new", "switch", "data"}
      /\ \A i \in 1 .. Len(S) : S[i] \in Message
  <2>1. S \in Seq(Message)
      BY <1>1, StreamType
  <2>2. QED BY <1>1, <2>1, StreamAt
<1>6. ToSay(s, c) = {i \in 1 .. n : t.link[i].id = c /\ t.link[i].code \in {"begin", "end"}}
    BY <1>5 DEF ToSay
<1>7. \A i \in 1 .. Len(S) : S[i].id = c /\ S[i].code \in {"begin", "end"} => S[i].conn = k
    BY <1>1, <1>2, SaidOfThis
<1> HIDE DEF S, n
<1>8. \A i \in 1 .. Len(S) :
          /\ S[i] \in Said(c, k) <=> i \in ToSay(s, c)
          /\ S[i] \in Begins(c, k) <=> i \in ToSay(s, c) /\ t.link[i].code = "begin"
  <2> SUFFICES ASSUME NEW i \in 1 .. Len(S)
               PROVE  /\ S[i] \in Said(c, k) <=> i \in ToSay(s, c)
                      /\ S[i] \in Begins(c, k) <=> i \in ToSay(s, c) /\ t.link[i].code = "begin"
      OBVIOUS
  <2>1. /\ S[i] \in Said(c, k) <=> S[i].id = c /\ S[i].conn = k /\ S[i].code \in {"begin", "end"}
        /\ S[i] \in Begins(c, k) <=> S[i].id = c /\ S[i].conn = k /\ S[i].code = "begin"
      BY <1>5, Kinds
  <2>2. CASE i <= n
    <3>1. i \in 1 .. n /\ S[i] = t.link[i]
        BY <1>5, <2>2
    <3> HIDE DEF k, t
    <3>2. QED BY <1>6, <1>7, <2>1, <3>1
  <2>3. CASE i > n
    <3>1. S[i].code \notin {"begin", "end"} /\ i \notin ToSay(s, c)
        BY <1>5, <1>6, <2>3
    <3>2. QED BY <2>1, <3>1
  <2>4. QED BY <1>5, <2>2, <2>3
<1>9. \A i \in ToSay(s, c) : i \in 1 .. Len(S)
    BY <1>5, <1>6
<1>10. Has(F[p], Said(c, k)) <=> ToSay(s, c) # {}
    BY <1>1, <1>8, <1>9 DEF Has, S
<1>11. ToSay(s, c) # {} =>
           (Last(F[p], Begins(c, k), Said(c, k)) <=> LastSaidBegins(s, c))
  <2>1. F[p] = S
      BY <1>1 DEF S
  <2>2. LastSaidBegins(s, c) <=>
            \E i \in ToSay(s, c) : /\ t.link[i].code = "begin"
                                   /\ \A j \in ToSay(s, c) : j <= i
      BY DEF LastSaidBegins
  <2> HIDE DEF t, k, F, p
  <2>3. Len(S) \in Nat
      BY <1>5
  <2>4. QED BY <1>8, <1>9, <2>1, <2>2, <2>3 DEF Last
<1>12. CASE ToSay(s, c) = {}
  <2>1. channels[p][c].congestion <=> c \in congestions[s]
      BY <1>2, <1>4, <1>10, <1>12
  <2>2. channels[p][c].congestion = (c \in congestions[s])
      BY <1>3, <2>1
  <2>3. QED BY <1>12, <2>2
<1>13. CASE ToSay(s, c) # {}
  <2>1. channels[p][c].congestion <=> LastSaidBegins(s, c)
      BY <1>2, <1>4, <1>10, <1>11, <1>13
  <2>2. channels[p][c].congestion = LastSaidBegins(s, c)
      BY <1>3, <2>1 DEF LastSaidBegins
  <2>3. QED BY <1>13, <2>2
<1>14. QED BY <1>12, <1>13

(* When the connections that may be refused, fail or be closed at both ends at
   once come after the others, as when there are none: nothing that one proxy
   says of a connection, be it data, its end or its start, reaches a channel the
   other uses for another connection, although the ids are given again
   (allocateChannelMap, handleNewConnectionFromProxy, handleFinishFromProxy and
   handleDropFromProxy of Proxy.cpp).  Without the hypothesis it is false. *)
THEOREM NoCrossTalkIfPolite == RudeLast => (Spec => []NoCrossTalk)
<1> SUFFICES ASSUME RudeLast
             PROVE  Spec => []NoCrossTalk
    OBVIOUS
<1>1. CInv /\ [Next]_vars => CInv'
    BY StepSound
<1>2. CInv => NoCrossTalk
    BY CrossTalkless
<1>3. QED BY <1>1, <1>2, InitSound, PTL DEF Spec

(* Under the same hypothesis: a proxy that has heard all that was said of the
   congestion of a channel reads from the connection exactly when its other end
   keeps up, and an id is never left congested by an earlier channel
   (congestions_, code_begin_congestion and code_end_congestion). *)
THEOREM BackPressureIfPolite == RudeLast => (Spec => []BackPressure)
<1> SUFFICES ASSUME RudeLast
             PROVE  Spec => []BackPressure
    OBVIOUS
<1>1. CInv /\ [Next]_vars => CInv'
    BY StepSound
<1>2. CInv => BackPressure
    BY PressureKnown
<1>3. QED BY <1>1, <1>2, InitSound, PTL DEF Spec

=============================================================================
