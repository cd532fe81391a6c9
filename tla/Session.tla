------------------------------- MODULE Session -------------------------------
(***************************************************************************)
(* How nxagent leaves a display and comes back on another (Reconnect.c,    *)
(* Display.c, the handlers of Handlers.c).  A SIGHUP or the failure of the *)
(* display only raises a flag: the wakeup handler acts on it, in the main  *)
(* loop.  To suspend, the agent breaks its own connection, forgets the ids *)
(* of its resources and keeps the dead display record to go on working     *)
(* with; to resume, it opens a new display and rebuilds the resources in   *)
(* twelve steps, any of which can fail.  Signals come between any two      *)
(* steps, and the display can fail at any moment.                          *)
(*                                                                         *)
(* What the steps rebuild is left out: home tells on which display a step  *)
(* was last carried out.  So are the dialogs, the lossy levels, the saved  *)
(* options and the bitmap GC, which is kept and freed with its display.    *)
(* Line 647 looks for a change of state during the reconnection: nothing   *)
(* that runs there changes it (Rejoining).                                 *)
(***************************************************************************)
EXTENDS Naturals, Sequences

CONSTANTS
    Render,   \* nxagentRenderEnable
    Silent,   \* can opening the display fail without an I/O error?
    MaxOpens  \* bound: the displays opened

ASSUME SessionAssumption ==
    Render \in BOOLEAN /\ Silent \in BOOLEAN /\ MaxOpens \in Nat \ {0}

Step == {"screen", "font", "pixmap", "gc", "colormap", "window", "glyphset",
         "pictformat", "picture", "cursor", "window cursors", "keyboard"}

(* The order in which nxagentReconnectSession rebuilds the session. *)
Steps == <<"screen", "font", "pixmap", "gc", "colormap", "window">>
           \o (IF Render THEN <<"glyphset", "pictformat", "picture">> ELSE << >>)
           \o <<"cursor", "window cursors", "keyboard">>

(* FIXME of Reconnect.c: "nxagentReconnectAllPixmaps will always return 1". *)
CanFail(s) == s # "pixmap"

(* Mutant: the ids of the graphic contexts are kept. *)
ForgottenMutant == {"window", "cursor", "pixmap"} \cup (IF Render THEN {"picture"} ELSE {})

(* What nxagentDisconnectSession forgets the ids of. *)
Forgotten == {"window", "cursor", "pixmap", "gc"} \cup (IF Render THEN {"picture"} ELSE {})

Display == 1 .. MaxOpens
None == 0                   \* NULL, and no id

VARIABLES
    state,       \* nxagentSessionState
    file,        \* what saveAgentState last wrote
    sigHup,      \* nxagentException.sigHup > 0
    ioError,     \* nxagentException.ioError > 0
    terminate,   \* dispatchException & DE_TERMINATE
    persistent,  \* nxagentOption(Persistent)
    pc, back,    \* where the main loop is, and where it returns from a change
    step,        \* the next step of the reconnection
    display,     \* nxagentDisplay
    backup,      \* nxagentDisplayBackup
    saved,       \* nxagentDisplayInfoSaved
    opened,      \* reconnectDisplayState: "nothing", "partly", "everything"
    conn,        \* of each display record: is it live, dead, closed?
    home,        \* the display on which a step was last carried out
    transport,   \* NXTransRunning
    trap         \* nxagentReconnectTrap

signals == <<sigHup, terminate, persistent>>
records == <<display, backup, saved, opened, conn>>
vars == <<state, file, signals, ioError, pc, back, step, records, home, transport, trap>>

Init ==
    /\ state = "STARTING" /\ file = "STARTING"
    /\ sigHup = FALSE /\ ioError = FALSE /\ terminate = FALSE
    /\ persistent \in BOOLEAN
    /\ pc = "loop" /\ back = "errors" /\ step = 1
    /\ display = 1 /\ backup = None /\ saved = FALSE
    /\ opened = IF persistent THEN "everything" ELSE "nothing"
    /\ conn = [d \in Display |-> IF d = 1 THEN "live" ELSE "unused"]
    /\ home = [s \in Step |-> 1]
    /\ transport \in BOOLEAN /\ trap = FALSE

-----------------------------------------------------------------------------
(* Signals and failures. *)

(* nxagentSighupHandler. *)
Sighup ==
    /\ ~ terminate
    /\ state = "UP" => persistent
    /\ state \in {"UP", "STARTING", "DOWN"}
    /\ sigHup' = TRUE
    /\ UNCHANGED <<state, file, terminate, persistent, ioError, pc, back, step, records,
                   home, transport, trap>>

(* SIGTERM, or the end of the last client: outside of these files. *)
Terminate ==
    /\ terminate' = TRUE
    /\ UNCHANGED <<state, file, sigHup, persistent, ioError, pc, back, step, records,
                   home, transport, trap>>

(* An operation of Xlib on a live display fails, because the peer is gone or  *)
(* because nxagentDisplayErrorPredicate saw a flag: the display is marked and *)
(* nxagentIOErrorHandler called.  Xlib does neither again on a marked display.*)
DisplayFails ==
    /\ conn[display] = "live"
    /\ conn' = [conn EXCEPT ![display] = "dead"]
    /\ ioError' = TRUE
    /\ UNCHANGED <<state, file, signals, pc, back, step, display, backup, saved, opened,
                   home, transport, trap>>

-----------------------------------------------------------------------------
(* XCloseDisplay. *)
Closed(c, d) ==
    IF d = None THEN c
    ELSE [c EXCEPT ![d] = IF @ = "closed" THEN "closed twice" ELSE "closed"]

(* nxagentWaitDisplay: NXForceDisplayError, and the end of the transport. *)
Broken(c) == IF c[display] = "live" THEN [c EXCEPT ![display] = "dead"] ELSE c

(* nxagentBackupDisplayInfo: the first record saved stays. *)
Saved == IF saved THEN backup ELSE display

(* nxagentDisconnectDisplay closes a display that is not the one saved, and   *)
(* goes back to that one.                                                     *)
nxagentDisconnectDisplay(c) ==
    /\ conn' = IF opened # "nothing" /\ display # Saved THEN Closed(c, display) ELSE c
    /\ display' = Saved /\ opened' = "nothing"

nxagentDisconnectSession ==
    /\ nxagentDisconnectDisplay(Broken(conn))
    /\ ioError' = (ioError \/ conn[display] = "live")
    /\ backup' = Saved /\ saved' = TRUE
    /\ home' = [s \in Step |-> IF s \in Forgotten THEN None ELSE home[s]]
    /\ transport' = FALSE

(* Mutant: the record of the old display is kept when a step fails. *)
CleanupForgotten ==
    /\ conn' = conn
    /\ backup' = None /\ saved' = FALSE

(* nxagentCleanupBackupDisplayInfo. *)
nxagentCleanupBackupDisplayInfo ==
    /\ conn' = Closed(conn, backup)
    /\ backup' = None /\ saved' = FALSE

-----------------------------------------------------------------------------
(* The main loop. *)

(* A turn of the loop of dispatch.  In the first the session has started. *)
Turn ==
    /\ pc = "loop" /\ ~ terminate
    /\ IF state = "STARTING" THEN state' = "UP" /\ file' = "RUNNING"
       ELSE UNCHANGED <<state, file>>
    /\ pc' = "block"
    /\ UNCHANGED <<signals, ioError, back, step, records, home, transport, trap>>

nxagentNeedConnectionChange == state \in {"GOING_DOWN", "GOING_UP"}

(* nxagentBlockHandler, nxagentShadowBlockHandler. *)
BlockHandler ==
    /\ pc = "block"
    /\ pc' = IF nxagentNeedConnectionChange THEN "change" ELSE "wakeup"
    /\ back' = "wakeup"
    /\ UNCHANGED <<state, file, signals, ioError, step, records, home, transport, trap>>

(* nxagentWakeupHandler, nxagentShadowWakeupHandler, and the first lines of   *)
(* nxagentHandleConnectionStates.                                             *)
WakeupHandler ==
    /\ pc = "wakeup"
    /\ sigHup' = FALSE
    /\ pc' = CASE sigHup -> "signal" [] ioError /\ ~ sigHup -> "change" [] OTHER -> "loop"
    /\ back' = "errors"
    /\ UNCHANGED <<state, file, terminate, persistent, ioError, step, records, home,
                   transport, trap>>

(* nxagentHandleConnectionStates, what a signal asks for. *)
HandleSignal ==
    /\ pc = "signal"
    /\ state' = CASE state = "UP" /\ persistent -> "GOING_DOWN"
                  [] state = "DOWN" /\ ~ transport -> "GOING_UP"
                  [] OTHER -> state
    /\ terminate' = (terminate \/ state = "STARTING" \/ (state = "UP" /\ ~ persistent))
    /\ pc' = "change"
    /\ UNCHANGED <<file, sigHup, persistent, ioError, back, step, records, home,
                   transport, trap>>

(* nxagentHandleConnectionChanges. *)
NoChange ==
    /\ pc = "change" /\ ~ nxagentNeedConnectionChange
    /\ pc' = back
    /\ UNCHANGED <<state, file, signals, ioError, back, step, records, home, transport, trap>>

Suspend ==
    /\ pc = "change" /\ state = "GOING_DOWN"
    /\ file' = "SUSPENDING" /\ nxagentDisconnectSession
    /\ pc' = back
    /\ UNCHANGED <<state, signals, back, step, trap>>

(* The first lines of nxagentReconnectSession. *)
Resume ==
    /\ pc = "change" /\ state = "GOING_UP"
    /\ file' = "RESUMING" /\ nxagentDisconnectSession
    /\ trap' = TRUE
    /\ pc' = "open"
    /\ UNCHANGED <<state, signals, back, step>>

-----------------------------------------------------------------------------
(* nxagentReconnectSession. *)

(* strndup or XOpenDisplay returns NULL.  The error path then goes back to    *)
(* the saved display.  XOpenDisplay reports an I/O error when the connection  *)
(* breaks while it is set up, and none when there is nobody to connect to.    *)
OpenFails ==
    /\ pc = "open" /\ opened = "nothing"
    /\ \E reported \in BOOLEAN, running \in BOOLEAN :
           /\ Silent \/ reported
           /\ ioError' = (ioError \/ reported)
           /\ transport' = running
    /\ display' = backup
    /\ pc' = "undo"
    /\ UNCHANGED <<state, file, signals, back, step, backup, saved, opened, conn, home, trap>>

NewDisplay(d) == conn[d] = "unused" /\ \A e \in Display : e < d => conn[e] # "unused"

(* nxagentReconnectDisplay: open, then compare depths, visuals and formats.   *)
Open ==
    /\ pc = "open" /\ opened = "nothing"
    /\ \E d \in Display, matches \in BOOLEAN, running \in BOOLEAN :
           /\ NewDisplay(d)
           /\ display' = d /\ conn' = [conn EXCEPT ![d] = "live"]
           /\ opened' = IF matches THEN "everything" ELSE "partly"
           /\ pc' = IF matches THEN "rebuild" ELSE "undo"
           /\ transport' = running
    /\ step' = 1
    /\ UNCHANGED <<state, file, signals, ioError, back, backup, saved, home, trap>>

(* Mutant: a step that fails is skipped. *)
RebuildSkipping ==
    /\ pc = "rebuild" /\ step <= Len(Steps)
    /\ \E done \in BOOLEAN :
           home' = IF done THEN [home EXCEPT ![Steps[step]] = display] ELSE home
    /\ step' = step + 1
    /\ UNCHANGED <<state, file, signals, ioError, pc, back, records, transport, trap>>

(* A step rebuilds its resources on the display, which may be dead. *)
Rebuild ==
    /\ pc = "rebuild" /\ step <= Len(Steps)
    /\ home' = [home EXCEPT ![Steps[step]] = display]
    /\ step' = step + 1
    /\ UNCHANGED <<state, file, signals, ioError, pc, back, records, transport, trap>>

(* A step fails: the new display becomes the record to keep. *)
RebuildFails ==
    /\ pc = "rebuild" /\ step <= Len(Steps) /\ CanFail(Steps[step])
    /\ nxagentCleanupBackupDisplayInfo
    /\ pc' = "undo"
    /\ UNCHANGED <<state, file, signals, ioError, back, step, display, opened, home,
                   transport, trap>>

(* Mutant: after a failure the session is still going up. *)
UndoMutant ==
    /\ pc = "undo"
    /\ file' = "SUSPENDING" /\ nxagentDisconnectSession
    /\ pc' = back
    /\ UNCHANGED <<state, signals, back, step, trap>>

(* nxagentHandleConnectionChanges after a failure. *)
Undo ==
    /\ pc = "undo"
    /\ state' = "GOING_DOWN"
    /\ file' = "SUSPENDING" /\ nxagentDisconnectSession
    /\ pc' = back
    /\ UNCHANGED <<signals, back, step, trap>>

Resumed ==
    /\ pc = "rebuild" /\ step > Len(Steps)
    /\ trap' = FALSE
    /\ file' = "RUNNING" /\ nxagentCleanupBackupDisplayInfo
    /\ state' = "UP"
    /\ pc' = back
    /\ UNCHANGED <<signals, ioError, back, step, display, opened, home, transport>>

-----------------------------------------------------------------------------
(* nxagentHandleConnectionStates, what an I/O error asks for.                 *)

NoError ==
    /\ pc = "errors" /\ ~ ioError
    /\ pc' = "loop"
    /\ UNCHANGED <<state, file, signals, ioError, back, step, records, home, transport, trap>>

(* nxagentTerminateSession. *)
ErrorEnds ==
    /\ pc = "errors" /\ ioError /\ (~ persistent \/ state = "STARTING")
    /\ ioError' = FALSE /\ terminate' = TRUE
    /\ pc' = "loop"
    /\ UNCHANGED <<state, file, sigHup, persistent, back, step, records, home, transport, trap>>

(* The display failed while the session was up. *)
ErrorSuspends ==
    /\ pc = "errors" /\ ioError /\ persistent /\ state = "UP"
    /\ ioError' = FALSE
    /\ file' = IF terminate THEN file ELSE "SUSPENDING"
    /\ pc' = "lost"
    /\ UNCHANGED <<state, signals, back, step, records, home, transport, trap>>

Lost ==
    /\ pc = "lost"
    /\ nxagentDisconnectSession
    /\ state' = "DOWN" /\ file' = "SUSPENDED"
    /\ pc' = "loop"
    /\ UNCHANGED <<signals, back, step, trap>>

(* Mutant: the flag is left for later, as the TODO of the code would have it. *)
ErrorCompletesMutant ==
    /\ pc = "errors" /\ ioError /\ persistent /\ state = "GOING_DOWN"
    /\ state' = "DOWN" /\ file' = "SUSPENDED"
    /\ pc' = "loop"
    /\ UNCHANGED <<signals, ioError, back, step, records, home, transport, trap>>

(* The session was going down: it is down. *)
ErrorCompletes ==
    /\ pc = "errors" /\ ioError /\ persistent /\ state = "GOING_DOWN"
    /\ ioError' = FALSE
    /\ state' = "DOWN" /\ file' = "SUSPENDED"
    /\ pc' = "loop"
    /\ UNCHANGED <<signals, back, step, records, home, transport, trap>>

(* dispatch leaves its loop. *)
Terminated ==
    /\ pc = "loop" /\ terminate
    /\ file' = "TERMINATED"
    /\ conn' = Broken(conn) /\ ioError' = (ioError \/ conn[display] = "live")
    /\ transport' = FALSE
    /\ pc' = "over"
    /\ UNCHANGED <<state, signals, back, step, display, backup, saved, opened, home, trap>>

-----------------------------------------------------------------------------
Agent ==
    \/ Turn \/ BlockHandler \/ WakeupHandler \/ HandleSignal
    \/ NoChange \/ Suspend \/ Resume
    \/ OpenFails \/ Open \/ Rebuild \/ RebuildFails \/ Undo \/ Resumed
    \/ NoError \/ ErrorEnds \/ ErrorSuspends \/ Lost \/ ErrorCompletes
    \/ Terminated

Next == Agent \/ Sighup \/ Terminate \/ DisplayFails

Spec == Init /\ [][Next]_vars

(* The agent runs: the dispatcher never rests between two turns for longer    *)
(* than the timeout of its select.                                            *)
FairSpec == Spec /\ WF_vars(Agent)

-----------------------------------------------------------------------------
FlagsOK ==
    /\ sigHup \in BOOLEAN /\ ioError \in BOOLEAN /\ terminate \in BOOLEAN
    /\ persistent \in BOOLEAN /\ saved \in BOOLEAN /\ transport \in BOOLEAN
    /\ trap \in BOOLEAN

RecordsOK ==
    /\ step \in 1 .. Len(Steps) + 1
    /\ display \in Display /\ backup \in Display \cup {None}
    /\ conn \in [Display -> {"unused", "live", "dead", "closed", "closed twice"}]
    /\ home \in [Step -> Display \cup {None}]

(* Types: in particular, the display is never NULL at the end of a handler. *)
TypeOK ==
    /\ FlagsOK /\ RecordsOK
    /\ state \in {"STARTING", "UP", "DOWN", "GOING_DOWN", "GOING_UP"}
    /\ file \in {"STARTING", "RUNNING", "SUSPENDING", "SUSPENDED", "RESUMING", "TERMINATED"}
    /\ pc \in {"loop", "block", "wakeup", "signal", "change", "open", "rebuild", "undo",
               "errors", "lost", "over"}
    /\ back \in {"wakeup", "errors"}
    /\ opened \in {"nothing", "partly", "everything"}

(* "We must always have a good display record" (nxagentBackupDisplayInfo):    *)
(* the display in use was never closed, the saved one neither, no record is   *)
(* closed twice, and every other record was closed.                           *)
RecordsKept ==
    /\ conn[display] \in {"live", "dead"}
    /\ saved => backup # None /\ conn[backup] = "dead"
    /\ \A d \in Display :
           /\ conn[d] # "closed twice"
           /\ conn[d] \in {"live", "dead"} => d \in {display, backup}

(* When the session is up, every step was carried out on the display in use,  *)
(* whatever reconnections failed before, and the screen functions behave as   *)
(* usual again.                                                               *)
UpIsWhole ==
    state = "UP" => ~ trap /\ \A i \in 1 .. Len(Steps) : home[Steps[i]] = display

(* When the session is down, the connection and the transport are gone, so    *)
(* that the next SIGHUP resumes it; the display can be opened anew, and the   *)
(* resources that are made again have no ids of a display that is gone.       *)
DownIsClean ==
    state = "DOWN" =>
        /\ conn[display] = "dead" /\ ~ transport /\ opened = "nothing"
        /\ \A s \in {"window", "cursor", "pixmap", "gc"} : home[s] = None
        /\ Render => home["picture"] = None

(* A pending error is one of the display in use, and none is pending when a   *)
(* display is opened: nxagentDisplayErrorPredicate would break it at once.    *)
(* The branches of nxagentHandleConnectionStates for an error in the states   *)
(* DOWN and GOING_UP are never taken.                                         *)
ErrorsAreCurrent ==
    /\ ioError => conn[display] = "dead"
    /\ pc = "open" => ~ ioError
    /\ pc = "errors" /\ ioError => state \in {"STARTING", "UP", "GOING_DOWN"}

(* Going down from a display that has failed already, with the failure        *)
(* already handled: no other is to come.                                      *)
Stuck == state = "GOING_DOWN" /\ conn[display] = "dead" /\ ~ ioError

(* A session that goes up or down gets there: nxagentHandleConnectionStates   *)
(* moves from GOING_DOWN to DOWN only at an I/O error, which the agent has to *)
(* cause itself.  The one exception is a display that could not be opened for *)
(* a reason other than an I/O error: nothing ever gets the agent out of it.   *)
Settles ==
    nxagentNeedConnectionChange
        ~> (state \in {"UP", "DOWN"} \/ pc = "over" \/ (Silent /\ Stuck))
=============================================================================
