------------------------ MODULE PersistentCacheProofs ------------------------
(***************************************************************************)
(* Proofs about PersistentCache: the two proxies have the same stores, and *)
(* no crash loses a cache, for any names and any number of sessions.       *)
(***************************************************************************)
EXTENDS PersistentCache, TLAPS

(* Each message starts from where the one before it ended. *)
Chained ==
    \A i \in 1 .. Len(wire) - 1 : wire[i + 1].from = wire[i].to

Started == client.stage \in {"operational", "saving", "ended"}

Working == server.stage \in {"operational", "saving"}

(* The chain leads from what the server has to what the client has. *)
Linked ==
    /\ Working /\ wire # << >> => View(server) = wire[1].from
    /\ Started /\ wire # << >> => wire[Len(wire)].to = View(client)
    /\ Started /\ Working /\ wire = << >> => View(server) = View(client)

(* What each message does to the stores and the channels. *)
Effect(m) ==
    /\ m.type = "load" => m.from.channels = 0 /\ m.to.channels = 0
    /\ m.type = "open" => m.to = [m.from EXCEPT !.channels = 1]
    /\ m.type = "data" => m.to.channels = m.from.channels
    /\ m.type = "drop" => m.to = [m.from EXCEPT !.channels = 0]
    /\ m.type = "save" => m.to = m.from /\ m.from.channels = 0 /\ m.from.store # Null

Effects == \A i \in 1 .. Len(wire) : Effect(wire[i])

(* A request to load comes first, and the server has the cache in question. *)
Loads ==
    \A i \in 1 .. Len(wire) :
        wire[i].type = "load" =>
            /\ i = 1 /\ server.stage # "saving"
            /\ Working => server.name = wire[i].to.store /\ server.name # Null
                          /\ ~ server.loaded

(* The stages of the two proxies. *)
Stages ==
    /\ client.stage \in {"off", "offered"} =>
           client.name = Null /\ View(client) = View(ClientOff)
    /\ client.stage = "saving" => client.channels = 0 /\ client.store # Null
    /\ server.stage \in {"off", "waiting"} => ~ server.loaded /\ View(server) = View(ServerOff)
    /\ server.stage = "waiting" => client.stage = "offered" /\ wire = << >>
    /\ server.stage = "saving" => server.store # Null
    /\ client.stage = "offered" /\ Working =>
           /\ server.stage = "operational" /\ wire = << >> /\ choice = server.name
           /\ ~ server.loaded /\ View(server) = View(ServerOff)
    /\ server.loaded => server.name # Null

(* The file that is being saved is in its place. *)
Saving ==
    ~ touched =>
        /\ client.stage = "saving" => dir["C-"][client.store] = "good"
        /\ server.stage = "saving" => dir["S-"][server.store] = "good"

Inv ==
    TypeOK /\ Chained /\ Linked /\ Effects /\ Loads /\ Stages /\ NeverWithout /\ Saving

-----------------------------------------------------------------------------
Wires == [type : {"load", "open", "data", "drop", "save"}, from : Views, to : Views]

LEMMA ViewType ==
    /\ ClientOK => View(client) \in Views
    /\ ServerOK => View(server) \in Views
  BY DEF ClientOK, ServerOK, View, Views

(* The client sends a message. *)
LEMMA Sent ==
    ASSUME Inv, NEW t \in {"load", "open", "data", "drop", "save"},
           ClientOK', UNCHANGED server, Started',
           wire' = Append(wire, Message(t, client')),
           Started \/ (client.stage = "offered" /\ server.stage = "operational"),
           Effect(Message(t, client'))
    PROVE  /\ wire' \in Seq(Wires) /\ Len(wire') = Len(wire) + 1
           /\ \A i \in 1 .. Len(wire) : wire'[i] = wire[i]
           /\ wire'[Len(wire) + 1] = Message(t, client')
           /\ Chained' /\ Linked' /\ Effects'
<1> DEFINE m == Message(t, client')
<1>1. wire \in Seq(Wires) /\ Len(wire) \in Nat /\ ClientOK /\ ServerOK
  BY DEF Inv, TypeOK, Wires
<1>2. m \in Wires /\ m.from = View(client) /\ m.to = View(client')
  BY <1>1, ViewType DEF Message, Wires, View, Views, ClientOK
<1>3. /\ wire' \in Seq(Wires) /\ Len(wire') = Len(wire) + 1
      /\ \A i \in 1 .. Len(wire) : wire'[i] = wire[i]
      /\ wire'[Len(wire) + 1] = m
  BY <1>1, <1>2
<1>4. wire # << >> => Started /\ wire[Len(wire)].to = View(client)
  BY DEF Inv, Linked, Stages, Working
<1>5. Chained'
  <2> SUFFICES ASSUME NEW i \in 1 .. Len(wire') - 1 PROVE wire'[i + 1].from = wire'[i].to
    BY DEF Chained
  <2>1. CASE i < Len(wire)
    <3>1. i \in 1 .. Len(wire) - 1 /\ i \in 1 .. Len(wire) /\ i + 1 \in 1 .. Len(wire)
      BY <1>1, <1>3, <2>1
    <3> QED
      BY <1>3, <3>1 DEF Inv, Chained
  <2>2. CASE i = Len(wire)
    <3>1. wire # << >> /\ i \in 1 .. Len(wire)
      BY <1>1, <2>2
    <3> QED
      BY <1>2, <1>3, <1>4, <2>2, <3>1
  <2> QED
    BY <1>1, <1>3, <2>1, <2>2
<1>6. Linked'
  <2>1. wire' # << >> /\ wire'[Len(wire')].to = View(client')
    BY <1>1, <1>2, <1>3
  <2>2. ASSUME Working PROVE View(server) = wire'[1].from
    <3>1. CASE wire = << >>
      <4>1. View(server) = View(client)
        BY <2>2, <3>1 DEF Inv, Linked, Stages, Working, View, ClientOff, ServerOff
      <4> QED
        BY <1>2, <1>3, <3>1, <4>1
    <3>2. CASE wire # << >>
      <4>1. 1 \in 1 .. Len(wire)
        BY <1>1, <3>2
      <4> QED
        BY <1>3, <2>2, <3>2, <4>1 DEF Inv, Linked
    <3> QED
      BY <3>1, <3>2
  <2>3. Working' <=> Working
    BY DEF Working
  <2>4. View(server)' = View(server)
    BY DEF View
  <2> QED
    BY <2>1, <2>2, <2>3, <2>4 DEF Linked
<1>7. Effects'
  BY <1>1, <1>3 DEF Inv, Effects
<1> QED
  BY <1>3, <1>5, <1>6, <1>7

(* The server takes the next message and gets where it leads. *)
LEMMA Taken ==
    ASSUME Inv, server.stage = "operational", wire # << >>, wire' = Tail(wire),
           UNCHANGED client, View(server)' = wire[1].to,
           server'.stage \in {"operational", "saving"}
    PROVE  /\ wire' \in Seq(Wires)
           /\ Chained' /\ Linked' /\ Effects' /\ Loads'
<1>1. wire \in Seq(Wires) /\ Len(wire) \in Nat /\ Len(wire) >= 1
  BY DEF Inv, TypeOK, Wires
<1>2. /\ wire' \in Seq(Wires) /\ Len(wire') = Len(wire) - 1
      /\ \A i \in 1 .. Len(wire') : wire'[i] = wire[i + 1] /\ i + 1 \in 1 .. Len(wire)
  BY <1>1
<1>3. Chained'
  <2> SUFFICES ASSUME NEW i \in 1 .. Len(wire') - 1 PROVE wire'[i + 1].from = wire'[i].to
    BY DEF Chained
  <2>1. i + 1 \in 1 .. Len(wire) - 1 /\ i \in 1 .. Len(wire') /\ i + 1 \in 1 .. Len(wire')
    BY <1>1, <1>2
  <2> QED
    BY <1>2, <2>1 DEF Inv, Chained
<1>4. Linked'
  <2>1. ASSUME wire' # << >> PROVE View(server)' = wire'[1].from
    <3>1. 1 \in 1 .. Len(wire') /\ 1 \in 1 .. Len(wire) - 1
      BY <1>1, <1>2, <2>1
    <3> QED
      BY <1>2, <3>1 DEF Inv, Chained
  <2>2. ASSUME wire' # << >>, Started PROVE wire'[Len(wire')].to = View(client)
    <3>1. Len(wire') \in 1 .. Len(wire') /\ Len(wire') + 1 = Len(wire)
      BY <1>1, <1>2, <2>2
    <3> QED
      BY <1>2, <2>2, <3>1 DEF Inv, Linked
  <2>3. ASSUME wire' = << >>, Started PROVE View(server)' = View(client)
    <3>1. Len(wire') = 0
      <4>1. \A w \in Seq(Wires) : w = << >> => Len(w) = 0
        OBVIOUS
      <4> QED
        BY <1>2, <2>3, <4>1
    <3>2. Len(wire) = 1
      BY <1>1, <1>2, <3>1
    <3> QED
      BY <2>3, <3>2 DEF Inv, Linked
  <2>4. (Started' <=> Started) /\ View(client)' = View(client)
    BY DEF Started, View
  <2> QED
    BY <2>1, <2>2, <2>3, <2>4 DEF Linked
<1>5. Effects'
  BY <1>1, <1>2 DEF Inv, Effects
<1>6. Loads'
  <2>1. \A i \in 1 .. Len(wire') : wire'[i].type # "load"
    BY <1>1, <1>2 DEF Inv, Loads
  <2> QED
    BY <2>1 DEF Loads
<1> QED
  BY <1>2, <1>3, <1>4, <1>5, <1>6

-----------------------------------------------------------------------------
Dirs == [Side -> [Name -> {"none", "good", "bad"}]]

LEMMA UnlinkedIs ==
    ASSUME NEW d \in Dirs, NEW side \in Side, NEW n \in Name
    PROVE  /\ Unlinked(d, side, n) \in Dirs
           /\ \A s \in Side, k \in Name :
                  Unlinked(d, side, n)[s][k] = IF s = side /\ k = n THEN "none" ELSE d[s][k]
  BY DEF Unlinked, Dirs

LEMMA WrittenIs ==
    ASSUME NEW d \in Dirs, NEW side \in Side, NEW n \in Name
    PROVE  /\ Written(d, side, n) \in Dirs
           /\ \A s \in Side, k \in Name :
                  Written(d, side, n)[s][k] = IF s = side /\ k = n THEN "good" ELSE d[s][k]
  BY DEF Written, Dirs

(* Whether or not a file could be moved to its place, no other is lost. *)
LEMMA MovedIs ==
    ASSUME dir \in Dirs, touched \in BOOLEAN, NEW side \in Side, NEW n \in Name, Moved(side, n)
    PROVE  /\ dir' \in Dirs /\ touched' \in BOOLEAN
           /\ ~ touched' => ~ touched /\ dir'[side][n] = "good"
           /\ \A s \in Side, k \in Name :
                  /\ s # side => dir'[s][k] = dir[s][k]
                  /\ dir[s][k] = "good" => dir'[s][k] = "good"
<1>1. CASE dir' = Written(dir, side, n) /\ UNCHANGED touched
  BY <1>1, WrittenIs
<1>2. CASE dir' = dir /\ touched' = TRUE
  BY <1>2
<1> QED
  BY <1>1, <1>2 DEF Moved

(* A message other than a request to load. *)
LEMMA SentOther ==
    ASSUME Inv, NEW t \in {"open", "data", "drop", "save"},
           ClientOK', UNCHANGED server, Started, Started',
           wire' = Append(wire, Message(t, client')),
           Effect(Message(t, client'))
    PROVE  wire' \in Seq(Wires) /\ Chained' /\ Linked' /\ Effects' /\ Loads' /\ wire' # << >>
<1>1. /\ wire' \in Seq(Wires) /\ Len(wire') = Len(wire) + 1
      /\ \A i \in 1 .. Len(wire) : wire'[i] = wire[i]
      /\ wire'[Len(wire) + 1] = Message(t, client')
      /\ Chained' /\ Linked' /\ Effects'
  BY Sent
<1>2. Len(wire) \in Nat /\ Message(t, client').type = t
  BY DEF Inv, TypeOK, Message
<1>3. Loads'
  BY <1>1, <1>2 DEF Inv, Loads, Working
<1> QED
  BY <1>1, <1>2, <1>3

LEMMA OpenChannelInv == Inv /\ OpenChannel => Inv'
<1> SUFFICES ASSUME Inv, OpenChannel PROVE Inv'
  OBVIOUS
<1>1. /\ client' = [client EXCEPT !.channels = 1] /\ wire' = Append(wire, Message("open", client'))
      /\ client.stage = "operational"
      /\ UNCHANGED <<dir, server, offer, choice, touched>>
  BY DEF OpenChannel, Send
<1>2. ClientOK' /\ Started /\ Started'
  BY <1>1 DEF Inv, TypeOK, ClientOK, Started
<1>3. Effect(Message("open", client'))
  BY <1>1 DEF Effect, Message, View, Inv, TypeOK, ClientOK
<1>4. wire' \in Seq(Wires) /\ Chained' /\ Linked' /\ Effects' /\ Loads'
  BY <1>1, <1>2, <1>3, SentOther
<1>5. TypeOK'
  BY <1>1, <1>2, <1>4 DEF Inv, TypeOK, ServerOK, Wires
<1>6. Stages' /\ NeverWithout' /\ Saving'
  BY <1>1 DEF Inv, TypeOK, ClientOK, Stages, NeverWithout, Saving, View, Working
<1> QED
  BY <1>4, <1>5, <1>6 DEF Inv

LEMMA EncodeInv == Inv /\ Encode => Inv'
<1> SUFFICES ASSUME Inv, Encode PROVE Inv'
  OBVIOUS
<1>1. PICK n \in Name :
        client' = [client EXCEPT !.store = n] /\ wire' = Append(wire, Message("data", client'))
  BY DEF Encode, Send
<1>2. /\ client.stage = "operational" /\ client.channels = 1
      /\ UNCHANGED <<dir, server, offer, choice, touched>>
  BY DEF Encode
<1>3. ClientOK' /\ Started /\ Started'
  BY <1>1, <1>2 DEF Inv, TypeOK, ClientOK, Started
<1>4. Effect(Message("data", client'))
  BY <1>1 DEF Effect, Message, View, Inv, TypeOK, ClientOK
<1>5. wire' \in Seq(Wires) /\ Chained' /\ Linked' /\ Effects' /\ Loads'
  BY <1>1, <1>2, <1>3, <1>4, SentOther
<1>6. TypeOK'
  BY <1>2, <1>3, <1>5 DEF Inv, TypeOK, ServerOK, Wires
<1>7. Stages' /\ NeverWithout' /\ Saving'
  BY <1>1, <1>2 DEF Inv, TypeOK, ClientOK, Stages, NeverWithout, Saving, View, Working
<1> QED
  BY <1>5, <1>6, <1>7 DEF Inv

LEMMA CloseChannelInv == Inv /\ CloseChannel => Inv'
<1> SUFFICES ASSUME Inv, CloseChannel PROVE Inv'
  OBVIOUS
<1>1. /\ client' = [client EXCEPT !.channels = 0] /\ wire' = Append(wire, Message("drop", client'))
      /\ client.stage = "operational"
      /\ UNCHANGED <<dir, server, offer, choice, touched>>
  BY DEF CloseChannel, Send
<1>2. ClientOK' /\ Started /\ Started'
  BY <1>1 DEF Inv, TypeOK, ClientOK, Started
<1>3. Effect(Message("drop", client'))
  BY <1>1 DEF Effect, Message, View, Inv, TypeOK, ClientOK
<1>4. wire' \in Seq(Wires) /\ Chained' /\ Linked' /\ Effects' /\ Loads'
  BY <1>1, <1>2, <1>3, SentOther
<1>5. TypeOK'
  BY <1>1, <1>2, <1>4 DEF Inv, TypeOK, ServerOK, Wires
<1>6. Stages' /\ NeverWithout' /\ Saving'
  BY <1>1 DEF Inv, TypeOK, ClientOK, Stages, NeverWithout, Saving, View, Working
<1> QED
  BY <1>4, <1>5, <1>6 DEF Inv

LEMMA ClientForgetsInv == Inv /\ ClientForgets => Inv'
<1> SUFFICES ASSUME Inv, ClientForgets PROVE Inv'
  OBVIOUS
<1>1. /\ client' = [client EXCEPT !.stage = "ended", !.name = client.store]
      /\ wire' = Append(wire, Message("save", client'))
      /\ client.stage = "saving"
      /\ UNCHANGED <<server, offer, choice, touched>>
      /\ dir' = IF Forgotten(client) THEN Unlinked(dir, "C-", client.name) ELSE dir
  BY DEF ClientForgets, Send
<1>2. ClientOK' /\ Started /\ Started'
  BY <1>1 DEF Inv, TypeOK, ClientOK, Started
<1>3. Effect(Message("save", client'))
  BY <1>1 DEF Effect, Message, View, Inv, TypeOK, ClientOK, Stages
<1>4. wire' \in Seq(Wires) /\ Chained' /\ Linked' /\ Effects' /\ Loads'
  BY <1>1, <1>2, <1>3, SentOther
<1>5. dir \in Dirs /\ client.store \in Name /\ client.name \in Name \cup {Null}
  BY <1>1 DEF Inv, TypeOK, ClientOK, Stages, Dirs
<1>6. /\ dir' \in Dirs /\ dir'["C-"][client.store] = dir["C-"][client.store]
      /\ \A k \in Name : dir'["S-"][k] = dir["S-"][k]
  <2>1. CASE Forgotten(client)
    <3>1. dir' = Unlinked(dir, "C-", client.name) /\ client.name \in Name
          /\ client.name # client.store /\ "C-" \in Side /\ "S-" \in Side
      BY <1>1, <1>5, <2>1 DEF Forgotten, Side
    <3> QED
      BY <1>5, <3>1, UnlinkedIs
  <2>2. CASE ~ Forgotten(client)
    BY <1>1, <1>5, <2>2
  <2> QED
    BY <2>1, <2>2
<1>7. TypeOK'
  BY <1>1, <1>2, <1>4, <1>6 DEF Inv, TypeOK, ServerOK, Wires, Dirs
<1>8. Stages'
  BY <1>1 DEF Inv, TypeOK, ClientOK, Stages, View, Working
<1>9. NeverWithout' /\ Saving'
  BY <1>1, <1>5, <1>6 DEF Inv, TypeOK, ClientOK, ServerOK, Stages, NeverWithout, Saving
<1> QED
  BY <1>4, <1>7, <1>8, <1>9 DEF Inv

LEMMA ClientLoadsInv == Inv /\ ClientLoads => Inv'
<1> SUFFICES ASSUME Inv, ClientLoads PROVE Inv'
  OBVIOUS
<1>1. /\ client' = [client EXCEPT !.stage = "operational", !.name = choice, !.store = choice]
      /\ wire' = Append(wire, Message("load", client'))
      /\ client.stage = "offered" /\ server.stage = "operational"
      /\ choice # Null /\ dir["C-"][choice] = "good"
      /\ UNCHANGED <<dir, server, offer, choice, touched>>
  BY DEF ClientLoads
<1>2. ClientOK' /\ Started'
  BY <1>1 DEF Inv, TypeOK, ClientOK, Started
<1>3. Effect(Message("load", client'))
  BY <1>1 DEF Effect, Message, View, Inv, TypeOK, ClientOK, Stages, ClientOff
<1>4. /\ wire' \in Seq(Wires) /\ Len(wire') = Len(wire) + 1
      /\ wire'[Len(wire) + 1] = Message("load", client')
      /\ Chained' /\ Linked' /\ Effects'
  BY <1>1, <1>2, <1>3, Sent
<1>5. wire = << >> /\ choice = server.name /\ ~ server.loaded
  BY <1>1 DEF Inv, Stages, Working
<1>6. Loads'
  <2>1. Message("load", client').to.store = choice
    BY <1>1, <1>2 DEF Message, View, ClientOK, Inv, TypeOK
  <2>2. Len(wire') = 1 /\ wire'[1] = Message("load", client')
    BY <1>4, <1>5
  <2> QED
    BY <1>1, <1>5, <2>1, <2>2 DEF Loads, Working
<1>7. TypeOK'
  BY <1>1, <1>2, <1>4 DEF Inv, TypeOK, ServerOK, Wires
<1>8. Stages' /\ NeverWithout' /\ Saving'
  BY <1>1 DEF Inv, TypeOK, ClientOK, Stages, NeverWithout, Saving, View, Working
<1> QED
  BY <1>4, <1>6, <1>7, <1>8 DEF Inv

-----------------------------------------------------------------------------
(* The message that the server reads. *)
LEMMA Read ==
    ASSUME Inv, NEW t, Receives(t)
    PROVE  /\ server.stage = "operational" /\ wire # << >>
           /\ wire[1] = Head(wire) /\ wire[1].type = t /\ wire[1] \in Wires
           /\ View(server) = wire[1].from /\ Effect(wire[1])
           /\ client.stage # "offered"
           /\ t = "load" => /\ server.name = wire[1].to.store /\ server.name # Null
                            /\ ~ server.loaded
<1>1. wire \in Seq(Wires) /\ server.stage = "operational" /\ wire # << >> /\ Head(wire).type = t
  BY DEF Inv, TypeOK, Wires, Receives
<1>2. wire[1] = Head(wire) /\ 1 \in 1 .. Len(wire) /\ wire[1] \in Wires
  BY <1>1
<1> QED
  BY <1>1, <1>2 DEF Inv, Linked, Effects, Loads, Stages, Working

(* Where the steps of the server leave what they do not concern. *)
LEMMA TakenInv ==
    ASSUME Inv, wire' \in Seq(Wires), UNCHANGED <<client, offer, choice>>,
           touched \in BOOLEAN => touched' \in BOOLEAN, ~ touched' => ~ touched,
           ServerOK', client.stage # "offered",
           server'.stage \in {"operational", "saving"},
           server'.stage = "saving" => server'.store # Null,
           server'.loaded => server'.name # Null,
           dir' \in Dirs, \A k \in Name : dir'["C-"][k] = dir["C-"][k],
           ~ touched' => /\ server'.loaded => dir'["S-"][server'.name] = "good"
                         /\ server'.stage = "saving" => dir'["S-"][server'.store] = "good"
    PROVE  TypeOK' /\ Stages' /\ NeverWithout' /\ Saving'
<1>1. TypeOK'
  BY DEF Inv, TypeOK, ClientOK, Wires, Dirs
<1>2. Stages'
  BY DEF Inv, Stages, View, Working
<1>3. NeverWithout' /\ Saving'
  BY DEF Inv, TypeOK, ClientOK, NeverWithout, Saving, Stages
<1> QED
  BY <1>1, <1>2, <1>3

LEMMA ServerLoadsInv == Inv /\ ServerLoads => Inv'
<1> SUFFICES ASSUME Inv, ServerLoads PROVE Inv'
  OBVIOUS
<1>1. /\ Receives("load") /\ server.channels = 0 /\ dir["S-"][server.name] = "good"
      /\ server' = [server EXCEPT !.store = server.name, !.loaded = TRUE]
      /\ wire' = Tail(wire) /\ UNCHANGED <<client, offer, choice, touched, dir>>
  BY DEF ServerLoads, Took
<1>2. ServerOK' /\ ServerOK /\ server'.stage = server.stage /\ server'.name = server.name
  BY <1>1 DEF Inv, TypeOK, ServerOK
<1>3. View(server)' = wire[1].to
  BY <1>1, <1>2, Read DEF View, Wires, Views, ServerOK, Effect
<1>4. wire' \in Seq(Wires) /\ Chained' /\ Linked' /\ Effects' /\ Loads'
  BY <1>1, <1>2, <1>3, Taken, Read
<1>5. TypeOK' /\ Stages' /\ NeverWithout' /\ Saving'
  <2>1. dir \in Dirs
    BY DEF Inv, TypeOK, Dirs
  <2> QED
    BY <1>1, <1>2, <1>4, <2>1, Read, TakenInv
<1> QED
  BY <1>4, <1>5 DEF Inv

LEMMA NewXConnectionInv == Inv /\ NewXConnection => Inv'
<1> SUFFICES ASSUME Inv, NewXConnection PROVE Inv'
  OBVIOUS
<1> DEFINE unused == server.name # Null /\ ~ server.loaded
<1>1. /\ Receives("open")
      /\ dir' = IF unused THEN Unlinked(dir, "S-", server.name) ELSE dir
      /\ server' = [server EXCEPT !.channels = 1, !.name = IF unused THEN Null ELSE server.name]
      /\ wire' = Tail(wire) /\ UNCHANGED <<client, offer, choice, touched>>
  BY DEF NewXConnection, Took, Inv, TypeOK, ServerOK
<1>2. ServerOK' /\ ServerOK /\ server'.stage = server.stage /\ server'.loaded = server.loaded
  BY <1>1 DEF Inv, TypeOK, ServerOK
<1>3. View(server)' = wire[1].to
  BY <1>1, <1>2, Read DEF View, Wires, Views, ServerOK, Effect
<1>4. wire' \in Seq(Wires) /\ Chained' /\ Linked' /\ Effects' /\ Loads'
  BY <1>1, <1>2, <1>3, Taken, Read
<1>5. /\ dir' \in Dirs /\ \A k \in Name : dir'["C-"][k] = dir["C-"][k]
      /\ server.loaded => dir' = dir /\ server'.name = server.name
  <2>1. dir \in Dirs /\ "S-" \in Side /\ "C-" \in Side
    BY DEF Inv, TypeOK, Dirs, Side
  <2>2. CASE unused
    <3>1. server.name \in Name /\ dir' = Unlinked(dir, "S-", server.name)
      BY <1>1, <1>2, <2>2 DEF ServerOK
    <3> QED
      BY <2>1, <2>2, <3>1, UnlinkedIs
  <2>3. CASE ~ unused
    BY <1>1, <1>2, <2>1, <2>3 DEF ServerOK
  <2> QED
    BY <2>2, <2>3
<1>6. TypeOK' /\ Stages' /\ NeverWithout' /\ Saving'
  <2>1. server.loaded => server.name # Null /\ (~ touched => dir["S-"][server.name] = "good")
    BY DEF Inv, Stages, NeverWithout
  <2>2. server.stage = "operational" /\ client.stage # "offered"
    BY <1>1, Read
  <2> QED
    BY <1>1, <1>2, <1>4, <1>5, <2>1, <2>2, TakenInv
<1> QED
  BY <1>4, <1>6 DEF Inv

(* A message that concerns neither the name of the cache nor the files. *)
LEMMA PlainInv ==
    ASSUME Inv, NEW t, Receives(t), ServerOK', server'.stage = "operational",
           server'.name = server.name, server'.loaded = server.loaded,
           View(server)' = wire[1].to, wire' = Tail(wire),
           UNCHANGED <<client, offer, choice, touched, dir>>
    PROVE  Inv'
<1>1. server.stage = "operational" /\ client.stage # "offered" /\ wire # << >>
  BY Read
<1>2. wire' \in Seq(Wires) /\ Chained' /\ Linked' /\ Effects' /\ Loads'
  BY <1>1, Taken
<1>3. /\ server.loaded => server.name # Null /\ (~ touched => dir["S-"][server.name] = "good")
      /\ dir \in Dirs
  BY DEF Inv, TypeOK, Stages, NeverWithout, Dirs
<1>4. TypeOK' /\ Stages' /\ NeverWithout' /\ Saving'
  BY <1>1, <1>2, <1>3, TakenInv
<1> QED
  BY <1>2, <1>4 DEF Inv

LEMMA DecodeInv == Inv /\ Decode => Inv'
<1> SUFFICES ASSUME Inv, Decode PROVE Inv'
  OBVIOUS
<1>1. /\ Receives("data")
      /\ server' = [server EXCEPT !.store = Head(wire).to.store]
      /\ wire' = Tail(wire) /\ UNCHANGED <<client, offer, choice, touched, dir>>
  BY DEF Decode, Took
<1>2. /\ server.stage = "operational" /\ wire[1] = Head(wire) /\ wire[1] \in Wires
      /\ View(server) = wire[1].from /\ Effect(wire[1]) /\ wire[1].type = "data"
  BY <1>1, Read
<1>3. ServerOK /\ wire[1].to \in Views /\ wire[1].from \in Views
  BY <1>2 DEF Inv, TypeOK, Wires
<1>4. /\ ServerOK' /\ server'.stage = "operational"
      /\ server'.name = server.name /\ server'.loaded = server.loaded
  BY <1>1, <1>2, <1>3 DEF ServerOK, Views
<1>5. View(server)' = wire[1].to
  BY <1>1, <1>2, <1>3 DEF View, Views, ServerOK, Effect
<1> QED
  BY <1>1, <1>4, <1>5, PlainInv

LEMMA DropChannelInv == Inv /\ DropChannel => Inv'
<1> SUFFICES ASSUME Inv, DropChannel PROVE Inv'
  OBVIOUS
<1>1. /\ Receives("drop") /\ server' = [server EXCEPT !.channels = 0]
      /\ wire' = Tail(wire) /\ UNCHANGED <<client, offer, choice, touched, dir>>
  BY DEF DropChannel, Took
<1>2. /\ server.stage = "operational" /\ wire[1] = Head(wire) /\ wire[1] \in Wires
      /\ View(server) = wire[1].from /\ Effect(wire[1]) /\ wire[1].type = "drop"
  BY <1>1, Read
<1>3. ServerOK /\ wire[1].to \in Views /\ wire[1].from \in Views
  BY <1>2 DEF Inv, TypeOK, Wires
<1>4. /\ ServerOK' /\ server'.stage = "operational"
      /\ server'.name = server.name /\ server'.loaded = server.loaded
  BY <1>1, <1>2, <1>3 DEF ServerOK
<1>5. View(server)' = wire[1].to
  BY <1>1, <1>2, <1>3 DEF View, Views, ServerOK, Effect
<1> QED
  BY <1>1, <1>4, <1>5, PlainInv

LEMMA ServerDoesNotSaveInv == Inv /\ ServerDoesNotSave => Inv'
<1> SUFFICES ASSUME Inv, ServerDoesNotSave PROVE Inv'
  OBVIOUS
<1>1. /\ Receives("save") /\ server' = server
      /\ wire' = Tail(wire) /\ UNCHANGED <<client, offer, choice, touched, dir>>
  BY DEF ServerDoesNotSave, Took
<1>2. /\ server.stage = "operational" /\ View(server) = wire[1].from /\ Effect(wire[1])
      /\ wire[1].type = "save"
  BY <1>1, Read
<1>3. ServerOK' /\ View(server)' = wire[1].to
  BY <1>1, <1>2 DEF Inv, TypeOK, ServerOK, View, Effect
<1> QED
  BY <1>1, <1>2, <1>3, PlainInv

LEMMA ServerSavesInv == Inv /\ ServerSaves => Inv'
<1> SUFFICES ASSUME Inv, ServerSaves PROVE Inv'
  OBVIOUS
<1>1. /\ Receives("save") /\ server' = [server EXCEPT !.stage = "saving"]
      /\ Moved("S-", server.store)
      /\ wire' = Tail(wire) /\ UNCHANGED <<client, offer, choice>>
  BY DEF ServerSaves, Took
<1>2. /\ server.stage = "operational" /\ client.stage # "offered"
      /\ View(server) = wire[1].from /\ Effect(wire[1])
      /\ wire[1].type = "save" /\ wire # << >>
  BY <1>1, Read
<1>3. /\ ServerOK' /\ ServerOK /\ server'.stage = "saving" /\ server'.name = server.name
      /\ server'.store = server.store /\ server'.loaded = server.loaded
  BY <1>1 DEF Inv, TypeOK, ServerOK
<1>4. View(server)' = wire[1].to /\ server.store # Null
  BY <1>2, <1>3, <1>1 DEF View, Effect, ServerOK
<1>5. wire' \in Seq(Wires) /\ Chained' /\ Linked' /\ Effects' /\ Loads'
  BY <1>1, <1>2, <1>3, <1>4, Taken
<1>6. /\ dir' \in Dirs /\ touched' \in BOOLEAN
      /\ ~ touched' => ~ touched /\ dir'["S-"][server.store] = "good"
      /\ \A k \in Name : dir'["C-"][k] = dir["C-"][k]
      /\ \A k \in Name : dir["S-"][k] = "good" => dir'["S-"][k] = "good"
  BY <1>1, <1>3, <1>4, MovedIs DEF Inv, TypeOK, Dirs, Side, ServerOK
<1>7. /\ server.loaded => server.name # Null /\ (~ touched => dir["S-"][server.name] = "good")
      /\ server.name # Null => server.name \in Name
  BY <1>3 DEF Inv, TypeOK, Stages, NeverWithout, ServerOK
<1>8. TypeOK' /\ Stages' /\ NeverWithout' /\ Saving'
  BY <1>1, <1>2, <1>3, <1>4, <1>5, <1>6, <1>7, TakenInv
<1> QED
  BY <1>5, <1>8 DEF Inv

-----------------------------------------------------------------------------
(* Nothing is on its way. *)
LEMMA EmptyWire ==
    ASSUME wire' = << >>, Started' /\ Working' => View(server)' = View(client)'
    PROVE  wire' \in Seq(Wires) /\ Chained' /\ Linked' /\ Effects' /\ Loads'
<1>1. wire' \in Seq(Wires) /\ Len(wire') = 0
  OBVIOUS
<1>2. 1 .. Len(wire') = {} /\ 1 .. Len(wire') - 1 = {}
  BY <1>1
<1> QED
  BY <1>1, <1>2 DEF Chained, Linked, Effects, Loads

LEMMA SendProxyCachesInv == Inv /\ SendProxyCaches => Inv'
<1> SUFFICES ASSUME Inv, SendProxyCaches PROVE Inv'
  OBVIOUS
<1>1. /\ client.stage = "off" /\ server.stage = "off"
      /\ client' = [client EXCEPT !.stage = "offered"]
      /\ server' = [server EXCEPT !.stage = "waiting"]
      /\ wire' = << >> /\ touched' = FALSE /\ UNCHANGED <<dir, choice>>
      /\ offer' \subseteq Name
  BY DEF SendProxyCaches, Present
<1>2. ClientOK' /\ ServerOK' /\ ~ Started' /\ ~ Working'
  BY <1>1 DEF Inv, TypeOK, ClientOK, ServerOK, Started, Working
<1>3. wire' \in Seq(Wires) /\ Chained' /\ Linked' /\ Effects' /\ Loads'
  BY <1>1, <1>2, EmptyWire
<1>4. TypeOK'
  BY <1>1, <1>2, <1>3 DEF Inv, TypeOK, Wires
<1>5. Stages' /\ NeverWithout' /\ Saving'
  BY <1>1, <1>2 DEF Inv, TypeOK, ClientOK, ServerOK, Stages, NeverWithout, Saving, View, Working
<1> QED
  BY <1>3, <1>4, <1>5 DEF Inv

LEMMA GetLastCacheInv == Inv /\ GetLastCache => Inv'
<1> SUFFICES ASSUME Inv, GetLastCache PROVE Inv'
  OBVIOUS
<1>1. PICK n \in Name \cup {Null} :
        server' = [server EXCEPT !.stage = "operational", !.name = n] /\ choice' = n
  BY DEF GetLastCache, Present
<1>2. /\ server.stage = "waiting" /\ client.stage = "offered"
      /\ UNCHANGED <<dir, client, offer, wire, touched>>
  BY DEF GetLastCache
<1>3. wire' = << >> /\ ServerOK' /\ ~ Started'
  BY <1>1, <1>2 DEF Inv, TypeOK, ServerOK, Stages, Started
<1>4. wire' \in Seq(Wires) /\ Chained' /\ Linked' /\ Effects' /\ Loads'
  BY <1>3, EmptyWire
<1>5. TypeOK'
  BY <1>1, <1>2, <1>3, <1>4 DEF Inv, TypeOK, ClientOK, Wires
<1>6. Stages' /\ NeverWithout' /\ Saving'
  BY <1>1, <1>2, <1>3 DEF Inv, TypeOK, ServerOK, Stages, NeverWithout, Saving, View, Working
<1> QED
  BY <1>4, <1>5, <1>6 DEF Inv

(* The client starts without a cache. *)
LEMMA StartsEmpty ==
    ASSUME Inv, client.stage = "offered", server.stage = "operational",
           client' = [client EXCEPT !.stage = "operational"],
           dir' \in Dirs, \A k \in Name : dir'["S-"][k] = dir["S-"][k],
           UNCHANGED <<server, offer, choice, wire, touched>>
    PROVE  Inv'
<1>1. /\ wire' = << >> /\ ClientOK' /\ ~ server.loaded
      /\ View(server)' = View(ServerOff) /\ View(client)' = View(ClientOff)
  BY DEF Inv, TypeOK, ClientOK, Stages, Working, View
<1>2. wire' \in Seq(Wires) /\ Chained' /\ Linked' /\ Effects' /\ Loads'
  <2>1. View(server)' = View(client)'
    BY <1>1 DEF View, ServerOff, ClientOff
  <2> QED
    BY <1>1, <2>1, EmptyWire
<1>3. TypeOK'
  BY <1>1, <1>2 DEF Inv, TypeOK, ServerOK, Wires, Dirs
<1>4. Stages' /\ NeverWithout' /\ Saving'
  BY <1>1 DEF Inv, TypeOK, ClientOK, Stages, NeverWithout, Saving, View, Working
<1> QED
  BY <1>2, <1>3, <1>4 DEF Inv

LEMMA NothingToLoadInv == Inv /\ NothingToLoad => Inv'
<1> SUFFICES ASSUME Inv, NothingToLoad PROVE Inv'
  OBVIOUS
<1>1. dir' \in Dirs /\ \A k \in Name : dir'["S-"][k] = dir["S-"][k]
  BY DEF NothingToLoad, Inv, TypeOK, Dirs
<1> QED
  BY <1>1, StartsEmpty DEF NothingToLoad

LEMMA ClientCannotLoadInv == Inv /\ ClientCannotLoad => Inv'
<1> SUFFICES ASSUME Inv, ClientCannotLoad PROVE Inv'
  OBVIOUS
<1>1. dir \in Dirs /\ choice \in Name /\ "C-" \in Side /\ "S-" \in Side
  BY DEF ClientCannotLoad, Inv, TypeOK, Dirs, Side
<1>2. dir' \in Dirs /\ \A k \in Name : dir'["S-"][k] = dir["S-"][k]
  BY <1>1, UnlinkedIs DEF ClientCannotLoad
<1> QED
  BY <1>2, StartsEmpty DEF ClientCannotLoad

LEMMA ClientEndsInv == Inv /\ ClientEnds => Inv'
<1> SUFFICES ASSUME Inv, ClientEnds PROVE Inv'
  OBVIOUS
<1>1. /\ client' = ClientOff /\ offer' = {} /\ choice' = Null
      /\ server' = IF server.stage = "waiting" THEN ServerOff ELSE server
      /\ UNCHANGED <<dir, wire, touched>>
  BY DEF ClientEnds
<1>2. TypeOK' /\ ~ Started' /\ (Working' => server' = server)
  BY <1>1 DEF Inv, TypeOK, ClientOK, ServerOK, ClientOff, ServerOff, Started, Working
<1>3. Chained' /\ Linked' /\ Effects' /\ Loads'
  <2>1. Chained' /\ Effects'
    BY <1>1 DEF Inv, Chained, Effects
  <2>2. Linked'
    BY <1>1, <1>2 DEF Inv, Linked, View, Working
  <2>3. Loads'
    BY <1>1, <1>2 DEF Inv, Loads, Working, ServerOff
  <2> QED
    BY <2>1, <2>2, <2>3
<1>4. Stages' /\ NeverWithout' /\ Saving'
  BY <1>1 DEF Inv, Stages, NeverWithout, Saving, View, Working, ClientOff, ServerOff
<1> QED
  BY <1>2, <1>3, <1>4 DEF Inv

(* The server is gone. *)
LEMMA ServerGone ==
    ASSUME Inv, server' = ServerOff, wire' = << >>, offer' = {}, choice' = Null,
           UNCHANGED <<client, touched>>,
           dir' \in Dirs, \A k \in Name : dir'["C-"][k] = dir["C-"][k]
    PROVE  Inv'
<1>1. ServerOK' /\ ~ Working'
  BY DEF ServerOK, ServerOff, Working
<1>2. wire' \in Seq(Wires) /\ Chained' /\ Linked' /\ Effects' /\ Loads'
  BY <1>1, EmptyWire
<1>3. TypeOK'
  BY <1>1, <1>2 DEF Inv, TypeOK, ClientOK, Wires, Dirs
<1>4. Stages' /\ NeverWithout' /\ Saving'
  BY <1>1 DEF Inv, TypeOK, ClientOK, Stages, NeverWithout, Saving, View, Working, ServerOff
<1> QED
  BY <1>2, <1>3, <1>4 DEF Inv

LEMMA ServerEndsInv == Inv /\ ServerEnds => Inv'
<1> SUFFICES ASSUME Inv, ServerEnds PROVE Inv'
  OBVIOUS
<1>1. dir' \in Dirs /\ \A k \in Name : dir'["C-"][k] = dir["C-"][k]
  BY DEF ServerEnds, Inv, TypeOK, Dirs
<1> QED
  BY <1>1, ServerGone DEF ServerEnds

LEMMA ServerCannotLoadInv == Inv /\ ServerCannotLoad => Inv'
<1> SUFFICES ASSUME Inv, ServerCannotLoad PROVE Inv'
  OBVIOUS
<1>1. dir \in Dirs /\ server.name \in Name /\ "C-" \in Side /\ "S-" \in Side
  BY DEF ServerCannotLoad, Inv, TypeOK, ServerOK, Dirs, Side
<1>2. dir' \in Dirs /\ \A k \in Name : dir'["C-"][k] = dir["C-"][k]
  BY <1>1, UnlinkedIs DEF ServerCannotLoad
<1> QED
  BY <1>2, ServerGone DEF ServerCannotLoad, Aborted

LEMMA ClientSavesInv == Inv /\ ClientSaves => Inv'
<1> SUFFICES ASSUME Inv, ClientSaves PROVE Inv'
  OBVIOUS
<1>1. /\ client.stage = "operational" /\ client.channels = 0 /\ client.store # Null
      /\ client' = [client EXCEPT !.stage = "saving"]
      /\ Moved("C-", client.store)
      /\ UNCHANGED <<server, offer, choice, wire>>
  BY DEF ClientSaves
<1>2. /\ ClientOK /\ ClientOK' /\ Started /\ Started' /\ View(client)' = View(client)
      /\ client'.name = client.name /\ client'.store = client.store
  BY <1>1 DEF Inv, TypeOK, ClientOK, Started, View
<1>3. /\ dir' \in Dirs /\ touched' \in BOOLEAN
      /\ ~ touched' => ~ touched /\ dir'["C-"][client.store] = "good"
      /\ \A k \in Name : dir'["S-"][k] = dir["S-"][k]
      /\ \A k \in Name : dir["C-"][k] = "good" => dir'["C-"][k] = "good"
  BY <1>1, <1>2, MovedIs DEF Inv, TypeOK, Dirs, Side, ClientOK
<1>4. TypeOK'
  BY <1>1, <1>2, <1>3 DEF Inv, TypeOK, ServerOK, Dirs
<1>5. Chained' /\ Linked' /\ Effects' /\ Loads'
  <2>1. Chained' /\ Effects' /\ Loads'
    BY <1>1 DEF Inv, Chained, Effects, Loads, Working
  <2>2. Linked'
    BY <1>1, <1>2 DEF Inv, Linked, Working, View
  <2> QED
    BY <2>1, <2>2
<1>6. Stages'
  BY <1>1 DEF Inv, TypeOK, ClientOK, Stages, View, Working
<1>7. NeverWithout' /\ Saving'
  BY <1>1, <1>2, <1>3 DEF Inv, TypeOK, ClientOK, ServerOK, NeverWithout, Saving, Stages
<1> QED
  BY <1>4, <1>5, <1>6, <1>7 DEF Inv

LEMMA ServerForgetsInv == Inv /\ ServerForgets => Inv'
<1> SUFFICES ASSUME Inv, ServerForgets PROVE Inv'
  OBVIOUS
<1>1. /\ server.stage = "saving"
      /\ server' = [server EXCEPT !.stage = "operational", !.name = server.store]
      /\ dir' = IF Forgotten(server) THEN Unlinked(dir, "S-", server.name) ELSE dir
      /\ UNCHANGED <<client, offer, choice, wire, touched>>
  BY DEF ServerForgets
<1>2. /\ ServerOK /\ ServerOK' /\ Working /\ Working' /\ View(server)' = View(server)
      /\ server.store \in Name
  BY <1>1 DEF Inv, TypeOK, ServerOK, Working, View, Stages
<1>3. /\ dir' \in Dirs /\ dir'["S-"][server.store] = dir["S-"][server.store]
      /\ \A k \in Name : dir'["C-"][k] = dir["C-"][k]
  <2>1. dir \in Dirs /\ "S-" \in Side /\ "C-" \in Side
    BY DEF Inv, TypeOK, Dirs, Side
  <2>2. CASE Forgotten(server)
    <3>1. /\ dir' = Unlinked(dir, "S-", server.name) /\ server.name \in Name
          /\ server.name # server.store
      BY <1>1, <1>2, <2>2 DEF Forgotten, ServerOK
    <3> QED
      BY <1>2, <2>1, <3>1, UnlinkedIs
  <2>3. CASE ~ Forgotten(server)
    BY <1>1, <2>1, <2>3
  <2> QED
    BY <2>2, <2>3
<1>4. TypeOK'
  BY <1>1, <1>2, <1>3 DEF Inv, TypeOK, ClientOK, Dirs
<1>5. Chained' /\ Linked' /\ Effects' /\ Loads'
  <2>1. Chained' /\ Effects' /\ Loads'
    BY <1>1 DEF Inv, Chained, Effects, Loads
  <2>2. Linked'
    BY <1>1, <1>2 DEF Inv, Linked, Started, View
  <2> QED
    BY <2>1, <2>2
<1>6. Stages'
  BY <1>1, <1>2 DEF Inv, TypeOK, ServerOK, Stages, View, Working, CacheAssumption
<1>7. NeverWithout' /\ Saving'
  BY <1>1, <1>2, <1>3 DEF Inv, TypeOK, ClientOK, ServerOK, NeverWithout, Saving, Stages
<1> QED
  BY <1>4, <1>5, <1>6, <1>7 DEF Inv

LEMMA OthersInv == Inv /\ Others => Inv'
<1> SUFFICES ASSUME Inv, Others PROVE Inv'
  OBVIOUS
<1>1. dir \in Dirs
  BY DEF Inv, TypeOK, Dirs
<1>2. dir' \in Dirs /\ touched' = TRUE /\ UNCHANGED <<client, server, offer, choice, wire>>
  <2>1. CASE FileRemoved
    BY <1>1, <2>1, UnlinkedIs DEF FileRemoved, Touch, Present
  <2>2. CASE FileWritten
    BY <1>1, <2>2, WrittenIs DEF FileWritten, Touch
  <2>3. CASE FileDamaged
    BY <1>1, <2>3 DEF FileDamaged, Touch, Present, Dirs
  <2> QED
    BY <2>1, <2>2, <2>3 DEF Others
<1>3. TypeOK'
  BY <1>2 DEF Inv, TypeOK, ClientOK, ServerOK, Dirs
<1>4. Chained' /\ Linked' /\ Effects' /\ Loads'
  BY <1>2 DEF Inv, Chained, Linked, Effects, Loads, Started, Working, View
<1>5. Stages' /\ NeverWithout' /\ Saving'
  BY <1>2 DEF Inv, Stages, NeverWithout, Saving, View, Working
<1> QED
  BY <1>3, <1>4, <1>5 DEF Inv

-----------------------------------------------------------------------------
LEMMA InitInv == Init => Inv
<1> SUFFICES ASSUME Init PROVE Inv
  OBVIOUS
<1>1. wire = << >> /\ wire \in Seq(Wires) /\ Len(wire) = 0
  BY DEF Init
<1>2. TypeOK
  BY <1>1 DEF Init, TypeOK, ClientOK, ServerOK, ClientOff, ServerOff, Wires
<1>3. 1 .. Len(wire) = {} /\ 1 .. Len(wire) - 1 = {}
  BY <1>1
<1>4. Chained /\ Linked /\ Effects /\ Loads
  BY <1>1, <1>3 DEF Init, Chained, Linked, Effects, Loads, Started, ClientOff
<1>5. Stages /\ NeverWithout /\ Saving
  BY DEF Init, Stages, NeverWithout, Saving, Working, ClientOff, ServerOff
<1> QED
  BY <1>2, <1>4, <1>5 DEF Inv

LEMMA NextInv == Inv /\ [Next]_vars => Inv'
<1> SUFFICES ASSUME Inv, [Next]_vars PROVE Inv'
  OBVIOUS
<1>1. CASE UNCHANGED vars
  <2>1. TypeOK'
    BY <1>1 DEF vars, Inv, TypeOK, ClientOK, ServerOK
  <2>2. Chained' /\ Linked' /\ Effects' /\ Loads'
    BY <1>1 DEF vars, Inv, Chained, Linked, Effects, Loads, Started, Working, View
  <2>3. Stages' /\ NeverWithout' /\ Saving'
    BY <1>1 DEF vars, Inv, Stages, NeverWithout, Saving, View, Working
  <2> QED
    BY <2>1, <2>2, <2>3 DEF Inv
<1> QED
  BY <1>1, SendProxyCachesInv, GetLastCacheInv, NothingToLoadInv, ClientLoadsInv,
     ClientCannotLoadInv, OpenChannelInv, EncodeInv, CloseChannelInv, ClientSavesInv,
     ClientForgetsInv, ClientEndsInv, ServerLoadsInv, ServerCannotLoadInv,
     NewXConnectionInv, DecodeInv, DropChannelInv, ServerSavesInv, ServerForgetsInv,
     ServerDoesNotSaveInv, ServerEndsInv, OthersInv DEF Next

LEMMA Always == Spec => []Inv
  BY InitInv, NextInv, PTL DEF Spec

(* The state of the two proxies, the wire and the directories has its type in *)
(* every session.                                                             *)
THEOREM CacheTypes == Spec => []TypeOK
<1>1. Inv => TypeOK
  BY DEF Inv
<1> QED
  BY <1>1, Always, PTL

(* Whatever files are lost, damaged or removed by others, and whichever proxy *)
(* dies, the server reads each message with the stores the client wrote it    *)
(* with: handleLoad, handleLoadFromProxy and handleCheckLoad leave both with  *)
(* the same cache or both without.                                            *)
THEOREM SameStores == Spec => []StoresMatch
<1>1. Inv => StoresMatch
  <2> SUFFICES ASSUME Inv, server.stage = "operational", wire # << >>
               PROVE  View(server) = Head(wire).from
    BY DEF StoresMatch
  <2> QED
    BY DEF Inv, TypeOK, Linked, Working
<1> QED
  BY <1>1, Always, PTL

(* handleLoadFromProxy and handleSaveFromProxy never report a "Protocol       *)
(* violation" of the other proxy.                                             *)
THEOREM RequestsExpected == Spec => []NoProtocolViolation
<1>1. Inv => NoProtocolViolation
  <2> SUFFICES ASSUME Inv PROVE NoProtocolViolation
    OBVIOUS
  <2>1. ASSUME Receives("load")
        PROVE  server.channels = 0 /\ server.name # Null /\ ~ server.loaded
    BY <2>1, Read DEF View, Effect
  <2>2. ASSUME Receives("save") PROVE server.channels = 0 /\ server.store # Null
    BY <2>2, Read DEF View, Effect
  <2> QED
    BY <2>1, <2>2 DEF NoProtocolViolation
<1> QED
  BY <1>1, Always, PTL

(* A proxy that dies while handleSaveStores replaces its file has the old one *)
(* or the new one on disk.                                                    *)
THEOREM CrashSafe == Spec => []NeverWithout
<1>1. Inv => NeverWithout
  BY DEF Inv
<1> QED
  BY <1>1, Always, PTL
==============================================================================
