--------------------------- MODULE PersistentCache ---------------------------
(***************************************************************************)
(* The message stores on disk (Proxy.cpp, Message.cpp, and the negotiation *)
(* of Loop.cpp).  At the end of a session each proxy writes its stores to  *)
(* a file of its own machine, named after a digest; at the start of the    *)
(* next one the client proxy offers the names it has, the server proxy     *)
(* chooses one it has too, and both load their files, the server when the  *)
(* client tells it that it did.  Either proxy may die at any step, files   *)
(* get lost or damaged, and other sessions of the same user write and      *)
(* remove files in the same directories.                                   *)
(*                                                                         *)
(* A store is what its digest tells of it: places, opcodes, sizes and      *)
(* identities of the messages.  The digest leaves out the data, and so do  *)
(* we.  Stores change only by messages that the client encodes; that the   *)
(* server decodes each of them to the same store is shown in MessageStore. *)
(* A temporary file is not in the directory: nobody looks for its name.    *)
(***************************************************************************)
EXTENDS Naturals, Sequences, FiniteSets

CONSTANTS Name,     \* digests of stores
          Null,     \* no name, and empty stores
          Entries,  \* DEFAULT_REMOTE_CACHE_ENTRIES
          MaxWire   \* bound for model checking: messages on their way

ASSUME CacheAssumption == Null \notin Name /\ Entries \in Nat /\ MaxWire \in Nat

VARIABLES
    dir,      \* the files of the two machines: none, good or bad
    client,   \* the client proxy
    server,   \* the server proxy
    offer,    \* the list of caches on its way to the server
    choice,   \* the cache selected, on its way to the client
    wire,     \* messages on their way to the server
    touched   \* ghost: in this session somebody else changed a file, or a
              \* file could not be moved to its place

vars == <<dir, client, server, offer, choice, wire, touched>>

Side == {"C-", "S-"}

Present(side) == {n \in Name : dir[side][n] # "none"}

Unlinked(d, side, n) == [d EXCEPT ![side][n] = "none"]

Written(d, side, n) == [d EXCEPT ![side][n] = "good"]

(* What a message finds at the side that reads it. *)
View(p) == [store |-> p.store, channels |-> p.channels]

(* A message, with what the client had before it and what it has after it. *)
Message(t, c) == [type |-> t, from |-> View(client), to |-> View(c)]

ClientOff == [stage |-> "off", name |-> Null, store |-> Null, channels |-> 0]

ServerOff == [stage |-> "off", name |-> Null, store |-> Null, channels |-> 0, loaded |-> FALSE]

Init ==
    /\ dir = [side \in Side |-> [n \in Name |-> "none"]]
    /\ client = ClientOff /\ server = ServerOff
    /\ offer = {} /\ choice = Null /\ wire = << >>
    /\ touched = FALSE

-----------------------------------------------------------------------------
(* Negotiation. *)

(* SendProxyCaches of the client, in a new session.  The option load = 0 and  *)
(* a disabled delta compression make the list empty.                          *)
SendProxyCaches ==
    /\ client.stage = "off" /\ server.stage = "off"
    /\ \E list \in SUBSET Present("C-") :
           /\ \/ list = {} \/ list = Present("C-")
              \/ Cardinality(list) = Entries
           /\ Cardinality(list) <= Entries
           /\ offer' = list
    /\ client' = [client EXCEPT !.stage = "offered"]
    /\ server' = [server EXCEPT !.stage = "waiting"]
    /\ wire' = << >> /\ touched' = FALSE
    /\ UNCHANGED <<dir, choice>>

(* ReadProxyCaches and SendProxyCaches of the server.  GetLastCache takes the *)
(* newest of the files in common; times are left out.                         *)
GetLastCache ==
    /\ server.stage = "waiting" /\ client.stage = "offered"
    /\ LET found == offer \cap Present("S-")
       IN  \E n \in IF found = {} THEN {Null} ELSE found :
               /\ server' = [server EXCEPT !.stage = "operational", !.name = n]
               /\ choice' = n
    /\ UNCHANGED <<dir, client, offer, wire, touched>>

(* ReadProxyCaches of the client, with no cache selected. *)
NothingToLoad ==
    /\ client.stage = "offered" /\ server.stage = "operational" /\ choice = Null
    /\ client' = [client EXCEPT !.stage = "operational"]
    /\ UNCHANGED <<dir, server, offer, choice, wire, touched>>

(* ReadProxyCaches and handleLoad of the client. *)
ClientLoads ==
    /\ client.stage = "offered" /\ server.stage = "operational" /\ choice # Null
    /\ dir["C-"][choice] = "good"
    /\ LET c == [client EXCEPT !.stage = "operational", !.name = choice, !.store = choice]
       IN  client' = c /\ wire' = Append(wire, Message("load", c))
    /\ UNCHANGED <<dir, server, offer, choice, touched>>

(* Mutant: what was loaded before the error stays in the stores. *)
ClientCannotLoadMutant ==
    /\ client.stage = "offered" /\ server.stage = "operational" /\ choice # Null
    /\ dir["C-"][choice] # "good"
    /\ dir' = Unlinked(dir, "C-", choice)
    /\ client' = [client EXCEPT !.stage = "operational", !.store = choice]
    /\ UNCHANGED <<server, offer, choice, wire, touched>>

(* The file is gone, damaged or of another version: it is removed, the stores *)
(* are recreated and the server is not told to load.                          *)
ClientCannotLoad ==
    /\ client.stage = "offered" /\ server.stage = "operational" /\ choice # Null
    /\ dir["C-"][choice] # "good"
    /\ dir' = Unlinked(dir, "C-", choice)
    /\ client' = [client EXCEPT !.stage = "operational"]
    /\ UNCHANGED <<server, offer, choice, wire, touched>>

-----------------------------------------------------------------------------
(* The session, at the client. *)

Send(t, c) ==
    /\ Len(wire) < MaxWire
    /\ client' = c
    /\ wire' = Append(wire, Message(t, c))

(* The first X channel.  Others change nothing here. *)
OpenChannel ==
    /\ client.stage = "operational" /\ client.channels = 0
    /\ Send("open", [client EXCEPT !.channels = 1])
    /\ UNCHANGED <<dir, server, offer, choice, touched>>

Encode ==
    /\ client.stage = "operational" /\ client.channels = 1
    /\ \E n \in Name : Send("data", [client EXCEPT !.store = n])
    /\ UNCHANGED <<dir, server, offer, choice, touched>>

(* The last X channel is dropped. *)
CloseChannel ==
    /\ client.stage = "operational" /\ client.channels = 1
    /\ Send("drop", [client EXCEPT !.channels = 0])
    /\ UNCHANGED <<dir, server, offer, choice, touched>>

(* The file is moved into the directory when it is whole.  The result of      *)
(* rename is not looked at: a file that stays where it was counts as saved.   *)
Moved(side, n) ==
    \/ dir' = Written(dir, side, n) /\ UNCHANGED touched
    \/ dir' = dir /\ touched' = TRUE

(* Mutant: the X channels are not waited for. *)
ClientSavesMutant ==
    /\ client.stage = "operational"
    /\ client.store # Null
    /\ Moved("C-", client.store)
    /\ client' = [client EXCEPT !.stage = "saving"]
    /\ UNCHANGED <<server, offer, choice, wire>>

(* handleSave and handleSaveAllStores of the client. *)
ClientSaves ==
    /\ client.stage = "operational" /\ client.channels = 0
    /\ client.store # Null
    /\ Moved("C-", client.store)
    /\ client' = [client EXCEPT !.stage = "saving"]
    /\ UNCHANGED <<server, offer, choice, wire>>

(* The rest of handleSaveStores: the file that was loaded is removed, unless  *)
(* it is the same, and the server is told to save.                            *)
Forgotten(p) == p.name # Null /\ p.name # p.store

ClientForgets ==
    /\ client.stage = "saving"
    /\ dir' = IF Forgotten(client) THEN Unlinked(dir, "C-", client.name) ELSE dir
    /\ Send("save", [client EXCEPT !.stage = "ended", !.name = client.store])
    /\ UNCHANGED <<server, offer, choice, touched>>

(* The client proxy ends, or dies. *)
ClientEnds ==
    /\ client.stage # "off"
    /\ client' = ClientOff /\ offer' = {} /\ choice' = Null
    /\ server' = IF server.stage = "waiting" THEN ServerOff ELSE server
    /\ UNCHANGED <<dir, wire, touched>>

-----------------------------------------------------------------------------
(* The session, at the server. *)

Receives(t) == server.stage = "operational" /\ wire # << >> /\ Head(wire).type = t

Took(s) == server' = s /\ wire' = Tail(wire) /\ UNCHANGED <<client, offer, choice>>

(* handleLoadFromProxy. *)
ServerLoads ==
    /\ Receives("load") /\ server.channels = 0 /\ server.name # Null
    /\ dir["S-"][server.name] = "good"
    /\ Took([server EXCEPT !.store = server.name, !.loaded = TRUE])
    /\ UNCHANGED <<dir, touched>>

(* The session is over at the server. *)
Aborted ==
    /\ server' = ServerOff /\ wire' = << >> /\ offer' = {} /\ choice' = Null
    /\ UNCHANGED <<client, touched>>

(* Mutant: the corrupted file stays. *)
ServerCannotLoadMutant ==
    /\ Receives("load") /\ server.channels = 0 /\ server.name # Null
    /\ dir["S-"][server.name] # "good"
    /\ Aborted
    /\ UNCHANGED dir

(* The file cannot be loaded: it is removed, and the session aborted. *)
ServerCannotLoad ==
    /\ Receives("load") /\ server.channels = 0 /\ server.name # Null
    /\ dir["S-"][server.name] # "good"
    /\ dir' = Unlinked(dir, "S-", server.name)
    /\ Aborted

(* handleNewXConnectionFromProxy, and handleCheckLoad: the client did not     *)
(* load its file.  That no X server answers, which closes the channel again,  *)
(* is ConnectFails of Channels and left out here.                             *)
NewXConnection ==
    /\ Receives("open")
    /\ LET unused == server.name # Null /\ ~ server.loaded
       IN  /\ dir' = IF unused THEN Unlinked(dir, "S-", server.name) ELSE dir
           /\ Took([server EXCEPT !.channels = 1, !.name = IF unused THEN Null ELSE @])
    /\ UNCHANGED touched

Decode ==
    /\ Receives("data")
    /\ Took([server EXCEPT !.store = Head(wire).to.store])
    /\ UNCHANGED <<dir, touched>>

(* The drop of the remote, which handleCheckDrop completes. *)
DropChannel ==
    /\ Receives("drop")
    /\ Took([server EXCEPT !.channels = 0])
    /\ UNCHANGED <<dir, touched>>

(* Mutant: the old file goes first. *)
ServerSavesMutant ==
    /\ Receives("save") /\ server.channels = 0
    /\ dir' = IF Forgotten(server) THEN Unlinked(dir, "S-", server.name) ELSE dir
    /\ Took([server EXCEPT !.stage = "saving"])
    /\ UNCHANGED touched

(* handleSaveFromProxy, up to the move of the file. *)
ServerSaves ==
    /\ Receives("save") /\ server.channels = 0
    /\ Moved("S-", server.store)
    /\ Took([server EXCEPT !.stage = "saving"])

ServerForgets ==
    /\ server.stage = "saving"
    /\ dir' = IF Forgotten(server) THEN Unlinked(dir, "S-", server.name) ELSE dir
    /\ server' = [server EXCEPT !.stage = "operational", !.name = server.store]
    /\ UNCHANGED <<client, offer, choice, wire, touched>>

(* The file cannot be written, which is not an error ("Don't abort the        *)
(* connection if can't write to disk"), or the stores are too small.          *)
ServerDoesNotSave ==
    /\ Receives("save") /\ server.channels = 0
    /\ Took(server)
    /\ UNCHANGED <<dir, touched>>

(* The server proxy ends, or dies. *)
ServerEnds ==
    /\ server.stage # "off"
    /\ server' = ServerOff /\ wire' = << >> /\ offer' = {} /\ choice' = Null
    /\ UNCHANGED <<dir, client, touched>>

-----------------------------------------------------------------------------
(* What happens to files meanwhile. *)

Touch(d) == dir' = d /\ touched' = TRUE /\ UNCHANGED <<client, server, offer, choice, wire>>

(* Keeper::cleanup, or another session that has a newer file. *)
FileRemoved == \E side \in Side : \E n \in Present(side) : Touch(Unlinked(dir, side, n))

(* Another session saves. *)
FileWritten == \E side \in Side, n \in Name : Touch(Written(dir, side, n))

(* The disk. *)
FileDamaged ==
    \E side \in Side : \E n \in Present(side) : Touch([dir EXCEPT ![side][n] = "bad"])

Others == FileRemoved \/ FileWritten \/ FileDamaged

Next ==
    \/ SendProxyCaches \/ GetLastCache \/ NothingToLoad \/ ClientLoads \/ ClientCannotLoad
    \/ OpenChannel \/ Encode \/ CloseChannel \/ ClientSaves \/ ClientForgets \/ ClientEnds
    \/ ServerLoads \/ ServerCannotLoad \/ NewXConnection \/ Decode \/ DropChannel
    \/ ServerSaves \/ ServerForgets \/ ServerDoesNotSave \/ ServerEnds
    \/ Others

Spec == Init /\ [][Next]_vars

-----------------------------------------------------------------------------
ClientOK ==
    client \in [stage : {"off", "offered", "operational", "saving", "ended"},
                name : Name \cup {Null}, store : Name \cup {Null}, channels : {0, 1}]

ServerOK ==
    server \in [stage : {"off", "waiting", "operational", "saving"},
                name : Name \cup {Null}, store : Name \cup {Null}, channels : {0, 1},
                loaded : BOOLEAN]

Views == [store : Name \cup {Null}, channels : {0, 1}]

(* Types. *)
TypeOK ==
    /\ dir \in [Side -> [Name -> {"none", "good", "bad"}]]
    /\ ClientOK /\ ServerOK
    /\ offer \subseteq Name /\ choice \in Name \cup {Null}
    /\ wire \in Seq([type : {"load", "open", "data", "drop", "save"}, from : Views, to : Views])
    /\ touched \in BOOLEAN

(* The server reads each message with the stores, and the channels, that the  *)
(* client had when it wrote it: either both loaded the same cache or both     *)
(* started with empty stores, whatever happened to the files.                 *)
StoresMatch ==
    server.stage = "operational" /\ wire # << >> => View(server) = Head(wire).from

(* The branches of handleLoadFromProxy, handleSaveFromProxy, handleLoadStores *)
(* for a "Protocol violation" are never taken.                                *)
NoProtocolViolation ==
    /\ Receives("load") => server.channels = 0 /\ server.name # Null /\ ~ server.loaded
    /\ Receives("save") => server.channels = 0 /\ server.store # Null

(* A proxy that dies, even while it saves, leaves the cache it loaded or the  *)
(* one it has just saved, if others leave the files alone and the new file    *)
(* could be moved to its place.                                               *)
NeverWithout ==
    ~ touched =>
        /\ client.name # Null => dir["C-"][client.name] = "good"
        /\ server.loaded => dir["S-"][server.name] = "good"

(* A damaged cache does not stop session after session: "to run further       *)
(* sessions on the same host, user had to delete the cache file manually" was *)
(* a bug that has been fixed.                                                 *)
AbortsEnd == <>[][~ Others]_vars => <>[][~ ServerCannotLoad]_vars
=============================================================================
