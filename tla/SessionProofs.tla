---------------------------- MODULE SessionProofs ----------------------------
(* What Session keeps in every state, for any number of displays. *)
EXTENDS Session, TLAPS

(* The session is as nxagentDisconnectSession leaves it. *)
Clean ==
    /\ saved /\ conn[display] = "dead" /\ ~ transport /\ opened = "nothing"
    /\ \A s \in Forgotten : home[s] = None

(* Where the main loop is tells how far a change has come. *)
Progress ==
    /\ state \in {"STARTING", "UP"} =>
           /\ ~ saved /\ ~ trap
           /\ \A i \in 1 .. Len(Steps) : home[Steps[i]] = display
           /\ pc \notin {"open", "rebuild", "undo"}
    /\ state = "DOWN" => Clean /\ pc \notin {"open", "rebuild", "undo", "lost"}
    /\ state = "DOWN" /\ pc # "over" => ~ ioError
    /\ state = "GOING_DOWN" =>
           /\ pc \notin {"open", "rebuild", "undo", "lost"}
           /\ pc # "change" => Clean
    /\ state = "GOING_UP" => pc \in {"change", "open", "rebuild", "undo"}
    /\ state = "GOING_UP" /\ pc \in {"change", "open"} => Clean /\ ~ ioError
    /\ pc = "rebuild" =>
           /\ saved /\ backup # display /\ opened = "everything"
           /\ \A i \in 1 .. Len(Steps) : i < step => home[Steps[i]] = display
    /\ pc = "lost" => state = "UP" /\ conn[display] = "dead" /\ ~ ioError

(* The record saved is the display in use, except while a new one is tried. *)
Records ==
    /\ ~ saved => backup = None
    /\ saved /\ display # backup => pc \in {"rebuild", "undo"} /\ opened # "nothing"

Inv == TypeOK /\ RecordsKept /\ ErrorsAreCurrent /\ Progress /\ Records

LEMMA StepsAreSteps == Len(Steps) \in Nat /\ \A i \in 1 .. Len(Steps) : Steps[i] \in Step
<1> DEFINE A == <<"screen", "font", "pixmap", "gc", "colormap", "window">>
           B == <<"glyphset", "pictformat", "picture">>
           C == <<"cursor", "window cursors", "keyboard">>
           E == IF Render THEN B ELSE << >>
<1>1. A \in Seq(Step) /\ C \in Seq(Step)
  BY DEF Step
<1>2. E \in Seq(Step)
  <2>1. B \in Seq(Step) /\ << >> \in Seq(Step)
    BY DEF Step
  <2> QED
    BY <2>1
<1>3. Steps = A \o E \o C
  BY DEF Steps
<1> HIDE DEF A, C, E
<1>4. A \o E \in Seq(Step)
  BY <1>1, <1>2
<1>5. Steps \in Seq(Step)
  BY <1>1, <1>3, <1>4
<1> QED
  BY <1>5

LEMMA NoneIsNoDisplay == None \notin Display
  BY SessionAssumption DEF None, Display

LEMMA Disconnect ==
    ASSUME Inv, nxagentDisconnectSession
    PROVE  /\ display' \in Display /\ backup' = display'
           /\ conn' \in [Display -> {"unused", "live", "dead", "closed", "closed twice"}]
           /\ home' \in [Step -> Display \cup {None}]
           /\ RecordsKept' /\ Clean'
           /\ ioError' = (ioError \/ conn[display] = "live")
<1> DEFINE broken == Broken(conn)
<1>1. RecordsOK /\ RecordsKept /\ Records
  BY DEF Inv, TypeOK
<1>2. /\ broken \in [Display -> {"unused", "live", "dead", "closed", "closed twice"}]
      /\ broken[display] = "dead"
      /\ \A d \in Display : d # display => broken[d] = conn[d]
  BY <1>1 DEF Broken, RecordsOK, RecordsKept
<1> DEFINE Goal ==
        /\ display' \in Display /\ backup' = display'
        /\ conn' \in [Display -> {"unused", "live", "dead", "closed", "closed twice"}]
        /\ RecordsKept' /\ conn'[display'] = "dead"
<1>3. ASSUME Saved = display PROVE Goal
  <2>1. conn' = broken /\ display' = display /\ backup' = display /\ saved'
    BY <1>3 DEF nxagentDisconnectSession, nxagentDisconnectDisplay
  <2>2. saved => backup = display
    BY <1>3 DEF Saved
  <2>3. ~ saved => backup = None
    BY <1>1 DEF Records
  <2>4. \A d \in Display : conn[d] \in {"live", "dead"} => d = display
    BY <1>1, <2>2, <2>3, NoneIsNoDisplay DEF RecordsKept
  <2>5. RecordsKept'
    BY <1>1, <1>2, <2>1, <2>4, NoneIsNoDisplay DEF RecordsKept, RecordsOK
  <2> QED
    BY <1>1, <1>2, <2>1, <2>5 DEF RecordsOK
<1>4. ASSUME Saved # display PROVE Goal
  <2>1. saved /\ Saved = backup /\ backup # display
    BY <1>4 DEF Saved
  <2>2. opened # "nothing" /\ backup # None /\ conn[backup] = "dead" /\ backup \in Display
    BY <1>1, <2>1 DEF Records, RecordsKept, RecordsOK
  <2>3. conn' = [broken EXCEPT ![display] = "closed"]
    <3>1. conn' = Closed(broken, display)
      BY <2>1, <2>2 DEF nxagentDisconnectSession, nxagentDisconnectDisplay
    <3> QED
      BY <1>1, <1>2, <3>1, NoneIsNoDisplay DEF Closed, RecordsOK
  <2>4. display' = backup /\ backup' = backup /\ saved'
    BY <2>1 DEF nxagentDisconnectSession, nxagentDisconnectDisplay
  <2>5. RecordsKept'
    BY <1>1, <1>2, <2>1, <2>2, <2>3, <2>4 DEF RecordsKept, RecordsOK
  <2> QED
    BY <1>1, <1>2, <2>1, <2>2, <2>3, <2>4, <2>5 DEF RecordsOK
<1>5. home' \in [Step -> Display \cup {None}] /\ \A s \in Forgotten : home'[s] = None
  BY <1>1 DEF nxagentDisconnectSession, RecordsOK, Forgotten, Step
<1>6. Clean'
  <2>1. saved' /\ ~ transport' /\ opened' = "nothing"
    BY DEF nxagentDisconnectSession, nxagentDisconnectDisplay
  <2> QED
    BY <1>3, <1>4, <1>5, <2>1 DEF Clean
<1> QED
  BY <1>3, <1>4, <1>5, <1>6 DEF nxagentDisconnectSession, nxagentDisconnectDisplay

(* Most actions leave the display records and the resources alone. *)
LEMMA Kept ==
    ASSUME Inv, UNCHANGED <<step, records, home>>
    PROVE  RecordsOK' /\ RecordsKept'
  BY DEF Inv, TypeOK, RecordsOK, RecordsKept, records

LEMMA SighupInv == ASSUME Inv, Sighup PROVE Inv'
<1>1. UNCHANGED <<step, records, home>>
  BY DEF Sighup
<1>2. FlagsOK'
  BY Zenon DEF Sighup, Inv, TypeOK, FlagsOK, records, signals
<1>3. TypeOK'
  BY <1>1, <1>2, Kept DEF Sighup, Inv, TypeOK, records, signals
<1>4. ErrorsAreCurrent'
  BY DEF Sighup, Inv, ErrorsAreCurrent, Progress, TypeOK, records, signals
<1>5. Progress'
  BY DEF Sighup, Inv, Progress, Clean, TypeOK, ErrorsAreCurrent, records, signals
<1>6. Records'
  BY DEF Sighup, Inv, Records, TypeOK, Progress, records, signals
<1> QED
  BY <1>1, <1>3, <1>4, <1>5, <1>6, Kept DEF Inv

LEMMA TerminateInv == ASSUME Inv, Terminate PROVE Inv'
<1>1. UNCHANGED <<step, records, home>>
  BY DEF Terminate
<1>2. FlagsOK'
  BY Zenon DEF Terminate, Inv, TypeOK, FlagsOK, records, signals
<1>3. TypeOK'
  BY <1>1, <1>2, Kept DEF Terminate, Inv, TypeOK, records, signals
<1>4. ErrorsAreCurrent'
  BY DEF Terminate, Inv, ErrorsAreCurrent, Progress, TypeOK, records, signals
<1>5. Progress'
  BY DEF Terminate, Inv, Progress, Clean, TypeOK, ErrorsAreCurrent, records, signals
<1>6. Records'
  BY DEF Terminate, Inv, Records, TypeOK, Progress, records, signals
<1> QED
  BY <1>1, <1>3, <1>4, <1>5, <1>6, Kept DEF Inv

LEMMA DisplayFailsInv == ASSUME Inv, DisplayFails PROVE Inv'
<1>1. FlagsOK'
  BY Zenon DEF DisplayFails, Inv, TypeOK, FlagsOK, records, signals
<1>2. RecordsOK'
  BY StepsAreSteps DEF DisplayFails, Inv, TypeOK, RecordsOK, records, signals
<1>3. TypeOK'
  BY <1>1, <1>2 DEF DisplayFails, Inv, TypeOK, records, signals
<1>4. RecordsKept'
  BY <1>2 DEF DisplayFails, Inv, RecordsKept, TypeOK, FlagsOK, RecordsOK, records, signals
<1>5. ErrorsAreCurrent'
  BY DEF DisplayFails, Inv, ErrorsAreCurrent, TypeOK, FlagsOK, RecordsOK, Progress,
     Clean, records, signals
<1>6. Progress'
  BY DEF DisplayFails, Inv, Progress, Clean, TypeOK, FlagsOK, RecordsOK,
     ErrorsAreCurrent, records, signals
<1>7. Records'
  BY DEF DisplayFails, Inv, Records, TypeOK, FlagsOK, RecordsOK, Progress, Clean,
     records, signals
<1> QED
  BY <1>3, <1>4, <1>5, <1>6, <1>7 DEF Inv

LEMMA TurnInv == ASSUME Inv, Turn PROVE Inv'
<1>1. UNCHANGED <<step, records, home>>
  BY DEF Turn
<1>2. FlagsOK'
  BY Zenon DEF Turn, Inv, TypeOK, FlagsOK, records, signals
<1>3. TypeOK'
  BY <1>1, <1>2, Kept DEF Turn, Inv, TypeOK, records, signals
<1>4. ErrorsAreCurrent'
  BY DEF Turn, Inv, ErrorsAreCurrent, Progress, TypeOK, records, signals
<1>5. Progress'
  BY DEF Turn, Inv, Progress, Clean, TypeOK, ErrorsAreCurrent, records, signals
<1>6. Records'
  BY DEF Turn, Inv, Records, TypeOK, Progress, records, signals
<1> QED
  BY <1>1, <1>3, <1>4, <1>5, <1>6, Kept DEF Inv

LEMMA BlockHandlerInv == ASSUME Inv, BlockHandler PROVE Inv'
<1>1. UNCHANGED <<step, records, home>>
  BY DEF BlockHandler
<1>2. FlagsOK'
  BY Zenon DEF BlockHandler, Inv, TypeOK, FlagsOK, records, signals
<1>3. TypeOK'
  BY <1>1, <1>2, Kept DEF BlockHandler, Inv, TypeOK, records, signals,
     nxagentNeedConnectionChange
<1>4. ErrorsAreCurrent'
  BY DEF BlockHandler, Inv, ErrorsAreCurrent, Progress, TypeOK, records, signals,
     nxagentNeedConnectionChange
<1>5. Progress'
  BY DEF BlockHandler, Inv, Progress, Clean, TypeOK, ErrorsAreCurrent, records, signals,
     nxagentNeedConnectionChange
<1>6. Records'
  BY DEF BlockHandler, Inv, Records, TypeOK, Progress, records, signals,
     nxagentNeedConnectionChange
<1> QED
  BY <1>1, <1>3, <1>4, <1>5, <1>6, Kept DEF Inv

LEMMA WakeupHandlerInv == ASSUME Inv, WakeupHandler PROVE Inv'
<1>1. UNCHANGED <<step, records, home>>
  BY DEF WakeupHandler
<1>2. FlagsOK'
  BY Zenon DEF WakeupHandler, Inv, TypeOK, FlagsOK, records, signals
<1>3. TypeOK'
  BY <1>1, <1>2, Kept DEF WakeupHandler, Inv, TypeOK, records, signals
<1>4. ErrorsAreCurrent'
  BY DEF WakeupHandler, Inv, ErrorsAreCurrent, Progress, TypeOK, records, signals
<1>5. Progress'
  BY DEF WakeupHandler, Inv, Progress, Clean, TypeOK, ErrorsAreCurrent, records, signals
<1>6. Records'
  BY DEF WakeupHandler, Inv, Records, TypeOK, Progress, records, signals
<1> QED
  BY <1>1, <1>3, <1>4, <1>5, <1>6, Kept DEF Inv

LEMMA HandleSignalInv == ASSUME Inv, HandleSignal PROVE Inv'
<1>1. UNCHANGED <<step, records, home>>
  BY DEF HandleSignal
<1>2. FlagsOK'
  BY Zenon DEF HandleSignal, Inv, TypeOK, FlagsOK, records, signals
<1>3. TypeOK'
  BY <1>1, <1>2, Kept DEF HandleSignal, Inv, TypeOK, records, signals
<1>4. ErrorsAreCurrent'
  BY DEF HandleSignal, Inv, ErrorsAreCurrent, Progress, TypeOK, records, signals
<1>5. Progress'
  BY DEF HandleSignal, Inv, Progress, Clean, TypeOK, ErrorsAreCurrent, records, signals
<1>6. Records'
  BY DEF HandleSignal, Inv, Records, TypeOK, Progress, records, signals
<1> QED
  BY <1>1, <1>3, <1>4, <1>5, <1>6, Kept DEF Inv

LEMMA NoChangeInv == ASSUME Inv, NoChange PROVE Inv'
<1>1. UNCHANGED <<step, records, home>>
  BY DEF NoChange
<1>2. FlagsOK'
  BY Zenon DEF NoChange, Inv, TypeOK, FlagsOK, records, signals
<1>3. TypeOK'
  BY <1>1, <1>2, Kept DEF NoChange, Inv, TypeOK, records, signals,
     nxagentNeedConnectionChange
<1>4. ErrorsAreCurrent'
  BY DEF NoChange, Inv, ErrorsAreCurrent, Progress, TypeOK, records, signals,
     nxagentNeedConnectionChange
<1>5. Progress'
  BY DEF NoChange, Inv, Progress, Clean, TypeOK, ErrorsAreCurrent, records, signals,
     nxagentNeedConnectionChange
<1>6. Records'
  BY DEF NoChange, Inv, Records, TypeOK, Progress, records, signals,
     nxagentNeedConnectionChange
<1> QED
  BY <1>1, <1>3, <1>4, <1>5, <1>6, Kept DEF Inv

LEMMA NoErrorInv == ASSUME Inv, NoError PROVE Inv'
<1>1. UNCHANGED <<step, records, home>>
  BY DEF NoError
<1>2. FlagsOK'
  BY Zenon DEF NoError, Inv, TypeOK, FlagsOK, records, signals
<1>3. TypeOK'
  BY <1>1, <1>2, Kept DEF NoError, Inv, TypeOK, records, signals
<1>4. ErrorsAreCurrent'
  BY DEF NoError, Inv, ErrorsAreCurrent, Progress, TypeOK, records, signals
<1>5. Progress'
  BY DEF NoError, Inv, Progress, Clean, TypeOK, ErrorsAreCurrent, records, signals
<1>6. Records'
  BY DEF NoError, Inv, Records, TypeOK, Progress, records, signals
<1> QED
  BY <1>1, <1>3, <1>4, <1>5, <1>6, Kept DEF Inv

LEMMA ErrorEndsInv == ASSUME Inv, ErrorEnds PROVE Inv'
<1>1. UNCHANGED <<step, records, home>>
  BY DEF ErrorEnds
<1>2. FlagsOK'
  BY Zenon DEF ErrorEnds, Inv, TypeOK, FlagsOK, records, signals
<1>3. TypeOK'
  BY <1>1, <1>2, Kept DEF ErrorEnds, Inv, TypeOK, records, signals
<1>4. ErrorsAreCurrent'
  BY DEF ErrorEnds, Inv, ErrorsAreCurrent, Progress, TypeOK, records, signals
<1>5. Progress'
  BY DEF ErrorEnds, Inv, Progress, Clean, TypeOK, ErrorsAreCurrent, records, signals
<1>6. Records'
  BY DEF ErrorEnds, Inv, Records, TypeOK, Progress, records, signals
<1> QED
  BY <1>1, <1>3, <1>4, <1>5, <1>6, Kept DEF Inv

LEMMA ErrorSuspendsInv == ASSUME Inv, ErrorSuspends PROVE Inv'
<1>1. UNCHANGED <<step, records, home>>
  BY DEF ErrorSuspends
<1>2. FlagsOK'
  BY Zenon DEF ErrorSuspends, Inv, TypeOK, FlagsOK, records, signals
<1>3. TypeOK'
  BY <1>1, <1>2, Kept DEF ErrorSuspends, Inv, TypeOK, records, signals
<1>4. ErrorsAreCurrent'
  BY DEF ErrorSuspends, Inv, ErrorsAreCurrent, Progress, TypeOK, records, signals
<1>5. Progress'
  BY DEF ErrorSuspends, Inv, Progress, Clean, TypeOK, ErrorsAreCurrent, records, signals
<1>6. Records'
  BY DEF ErrorSuspends, Inv, Records, TypeOK, Progress, records, signals
<1> QED
  BY <1>1, <1>3, <1>4, <1>5, <1>6, Kept DEF Inv

LEMMA ErrorCompletesInv == ASSUME Inv, ErrorCompletes PROVE Inv'
<1>1. UNCHANGED <<step, records, home>>
  BY DEF ErrorCompletes
<1>2. FlagsOK'
  BY Zenon DEF ErrorCompletes, Inv, TypeOK, FlagsOK, records, signals
<1>3. TypeOK'
  BY <1>1, <1>2, Kept DEF ErrorCompletes, Inv, TypeOK, records, signals
<1>4. ErrorsAreCurrent'
  BY DEF ErrorCompletes, Inv, ErrorsAreCurrent, Progress, TypeOK, records, signals
<1>5. Progress'
  BY DEF ErrorCompletes, Inv, Progress, Clean, TypeOK, ErrorsAreCurrent, records,
     signals
<1>6. Records'
  BY DEF ErrorCompletes, Inv, Records, TypeOK, Progress, records, signals
<1> QED
  BY <1>1, <1>3, <1>4, <1>5, <1>6, Kept DEF Inv

LEMMA TerminatedInv == ASSUME Inv, Terminated PROVE Inv'
<1>1. FlagsOK'
  BY Zenon DEF Terminated, Inv, TypeOK, FlagsOK, Broken, records, signals
<1>2. RecordsOK'
  BY StepsAreSteps DEF Terminated, Inv, TypeOK, RecordsOK, Broken, records, signals
<1>3. TypeOK'
  BY <1>1, <1>2 DEF Terminated, Inv, TypeOK, Broken, records, signals
<1>4. RecordsKept'
  BY <1>2 DEF Terminated, Inv, RecordsKept, TypeOK, FlagsOK, RecordsOK, Broken, records,
     signals
<1>5. ErrorsAreCurrent'
  BY DEF Terminated, Inv, ErrorsAreCurrent, TypeOK, FlagsOK, RecordsOK, Progress, Clean,
     Broken, records, signals
<1>6. Progress'
  BY DEF Terminated, Inv, Progress, Clean, TypeOK, FlagsOK, RecordsOK, ErrorsAreCurrent,
     Broken, records, signals
<1>7. Records'
  BY DEF Terminated, Inv, Records, TypeOK, FlagsOK, RecordsOK, Progress, Clean, Broken,
     records, signals
<1> QED
  BY <1>3, <1>4, <1>5, <1>6, <1>7 DEF Inv

LEMMA RebuildInv == ASSUME Inv, Rebuild PROVE Inv'
<1>1. FlagsOK'
  BY Zenon DEF Rebuild, Inv, TypeOK, FlagsOK, records, signals
<1>2. /\ step \in 1 .. Len(Steps) /\ Steps[step] \in Step
      /\ display \in Display /\ home \in [Step -> Display \cup {None}]
  <2>1. step \in 1 .. Len(Steps) + 1 /\ step <= Len(Steps)
    BY DEF Rebuild, Inv, TypeOK, RecordsOK
  <2>2. step \in 1 .. Len(Steps)
    BY <2>1, StepsAreSteps
  <2> QED
    BY <2>2, StepsAreSteps DEF Inv, TypeOK, RecordsOK
<1>3. RecordsOK'
  <2>1. home' \in [Step -> Display \cup {None}]
    BY <1>2 DEF Rebuild
  <2>2. step' \in 1 .. Len(Steps) + 1
    BY <1>2, StepsAreSteps DEF Rebuild
  <2> QED
    BY <2>1, <2>2 DEF Rebuild, Inv, TypeOK, RecordsOK, records
<1>4. TypeOK'
  BY <1>1, <1>3 DEF Rebuild, Inv, TypeOK, records
<1>5. RecordsKept'
  BY DEF Rebuild, Inv, RecordsKept, records
<1>6. ErrorsAreCurrent'
  BY DEF Rebuild, Inv, ErrorsAreCurrent, records
<1>7. Progress'
  <2>1. state = "GOING_UP"
    BY DEF Rebuild, Inv, Progress, TypeOK
  <2>2. \A i \in 1 .. Len(Steps) : i < step' => home'[Steps[i]] = display
    BY <1>2, StepsAreSteps DEF Rebuild, Inv, Progress
  <2> QED
    BY <2>1, <2>2 DEF Rebuild, Inv, Progress, records
<1>8. Records'
  BY DEF Rebuild, Inv, Records, records
<1> QED
  BY <1>4, <1>5, <1>6, <1>7, <1>8 DEF Inv

LEMMA OpenFailsInv == ASSUME Inv, OpenFails PROVE Inv'
<1>1. FlagsOK'
  BY Zenon DEF OpenFails, Inv, TypeOK, FlagsOK, signals
<1>2. display = backup /\ saved /\ conn[display] = "dead" /\ state = "GOING_UP"
  BY DEF OpenFails, Inv, Progress, Records, Clean, TypeOK
<1>3. UNCHANGED <<display, conn, backup, saved, opened, home, state, step>>
  BY <1>2 DEF OpenFails
<1>4. RecordsOK'
  BY <1>3 DEF Inv, TypeOK, RecordsOK
<1>5. TypeOK'
  BY <1>1, <1>4 DEF OpenFails, Inv, TypeOK, signals
<1>6. RecordsKept'
  BY <1>3 DEF Inv, RecordsKept
<1>7. ErrorsAreCurrent'
  BY <1>2, <1>3 DEF OpenFails, ErrorsAreCurrent
<1>8. Progress'
  BY <1>2, <1>3 DEF OpenFails, Progress
<1>9. Records'
  BY <1>2, <1>3 DEF Records
<1> QED
  BY <1>5, <1>6, <1>7, <1>8, <1>9 DEF Inv

LEMMA OpenInv == ASSUME Inv, Open PROVE Inv'
<1>1. FlagsOK'
  BY Zenon DEF Open, Inv, TypeOK, FlagsOK, signals
<1>2. /\ display = backup /\ saved /\ conn[display] = "dead" /\ state = "GOING_UP"
      /\ ~ ioError
  BY DEF Open, Inv, Progress, Records, Clean, TypeOK
<1>3. PICK d \in Display :
          /\ conn[d] = "unused"
          /\ display' = d /\ conn' = [conn EXCEPT ![d] = "live"]
          /\ opened' \in {"partly", "everything"}
          /\ pc' \in {"rebuild", "undo"}
          /\ pc' = "rebuild" => opened' = "everything"
  BY DEF Open, NewDisplay
<1>4. UNCHANGED <<backup, saved, home, state, ioError>> /\ step' = 1
  BY DEF Open
<1>5. RecordsOK'
  <2>1. step' \in 1 .. Len(Steps) + 1
    BY <1>4, StepsAreSteps
  <2> QED
    BY <1>3, <1>4, <2>1 DEF Inv, TypeOK, RecordsOK
<1>6. TypeOK'
  BY <1>1, <1>3, <1>5 DEF Open, Inv, TypeOK, signals
<1>7. RecordsKept'
  BY <1>2, <1>3, <1>4 DEF Inv, RecordsKept, TypeOK, RecordsOK
<1>8. ErrorsAreCurrent'
  BY <1>2, <1>3, <1>4 DEF ErrorsAreCurrent
<1>9. Progress'
  <2>1. \A i \in 1 .. Len(Steps) : ~ (i < step')
    BY <1>4, StepsAreSteps
  <2>2. backup' # display'
    BY <1>2, <1>3, <1>4
  <2> QED
    BY <1>2, <1>3, <1>4, <2>1, <2>2 DEF Progress
<1>10. Records'
  BY <1>2, <1>3, <1>4 DEF Records
<1> QED
  BY <1>6, <1>7, <1>8, <1>9, <1>10 DEF Inv

(* The saved record is closed once, and the display stays. *)
LEMMA Cleanup ==
    ASSUME Inv, pc = "rebuild", nxagentCleanupBackupDisplayInfo, display' = display
    PROVE  /\ conn' \in [Display -> {"unused", "live", "dead", "closed", "closed twice"}]
           /\ conn'[display] = conn[display]
           /\ RecordsKept' /\ Records'
<1>1. saved /\ backup # display /\ backup # None /\ backup \in Display /\ conn[backup] = "dead"
  BY DEF Inv, Progress, RecordsKept, TypeOK, RecordsOK
<1>2. conn' = [conn EXCEPT ![backup] = "closed"] /\ ~ saved' /\ backup' = None
  BY <1>1 DEF nxagentCleanupBackupDisplayInfo, Closed, Inv, TypeOK, RecordsOK
<1>3. RecordsKept'
  BY <1>1, <1>2 DEF Inv, RecordsKept, TypeOK, RecordsOK
<1>4. Records'
  BY <1>2 DEF Records
<1> QED
  BY <1>1, <1>2, <1>3, <1>4 DEF Inv, TypeOK, RecordsOK

LEMMA RebuildFailsInv == ASSUME Inv, RebuildFails PROVE Inv'
<1>1. FlagsOK'
  BY Zenon DEF RebuildFails, Inv, TypeOK, FlagsOK, nxagentCleanupBackupDisplayInfo, signals
<1>2. pc = "rebuild" /\ nxagentCleanupBackupDisplayInfo /\ display' = display
  BY DEF RebuildFails
<1>3. RecordsOK'
  BY <1>2, Cleanup DEF RebuildFails, nxagentCleanupBackupDisplayInfo, Inv, TypeOK, RecordsOK
<1>4. TypeOK'
  BY <1>1, <1>3 DEF RebuildFails, Inv, TypeOK, signals
<1>5. ErrorsAreCurrent'
  BY <1>2, Cleanup DEF RebuildFails, Inv, ErrorsAreCurrent
<1>6. Progress'
  <2>1. state = "GOING_UP"
    BY <1>2 DEF Inv, Progress, TypeOK
  <2> QED
    BY <2>1 DEF RebuildFails, Progress
<1> QED
  BY <1>2, <1>4, <1>5, <1>6, Cleanup DEF Inv

LEMMA ResumedInv == ASSUME Inv, Resumed PROVE Inv'
<1>1. FlagsOK'
  BY Zenon DEF Resumed, Inv, TypeOK, FlagsOK, nxagentCleanupBackupDisplayInfo, signals
<1>2. pc = "rebuild" /\ nxagentCleanupBackupDisplayInfo /\ display' = display
  BY DEF Resumed
<1>3. RecordsOK'
  BY <1>2, Cleanup DEF Resumed, nxagentCleanupBackupDisplayInfo, Inv, TypeOK, RecordsOK
<1>4. TypeOK'
  BY <1>1, <1>3 DEF Resumed, Inv, TypeOK, signals
<1>5. ErrorsAreCurrent'
  BY <1>2, Cleanup DEF Resumed, Inv, ErrorsAreCurrent, TypeOK
<1>6. Progress'
  <2>1. \A i \in 1 .. Len(Steps) : i < step
    <3>1. step \in 1 .. Len(Steps) + 1 /\ step > Len(Steps)
      BY DEF Resumed, Inv, TypeOK, RecordsOK
    <3> QED
      BY <3>1, StepsAreSteps
  <2>2. \A i \in 1 .. Len(Steps) : home[Steps[i]] = display
    BY <2>1 DEF Resumed, Inv, Progress
  <2>3. pc' \in {"wakeup", "errors"} /\ state' = "UP" /\ ~ trap' /\ ~ saved'
    BY DEF Resumed, Inv, TypeOK, nxagentCleanupBackupDisplayInfo
  <2> QED
    BY <2>2, <2>3 DEF Resumed, Progress
<1> QED
  BY <1>2, <1>4, <1>5, <1>6, Cleanup DEF Inv

LEMMA SuspendInv == ASSUME Inv, Suspend PROVE Inv'
<1>1. FlagsOK'
  BY Zenon DEF Suspend, Inv, TypeOK, FlagsOK, nxagentDisconnectSession, signals
<1>2. nxagentDisconnectSession
  BY DEF Suspend
<1>3. RecordsOK'
  BY <1>2, Disconnect, StepsAreSteps DEF Suspend, Inv, TypeOK, RecordsOK
<1>4. TypeOK'
  BY <1>1, <1>3 DEF Suspend, Inv, TypeOK, nxagentDisconnectSession,
     nxagentDisconnectDisplay, signals
<1>5. ErrorsAreCurrent'
  BY <1>2, Disconnect DEF Suspend, Inv, ErrorsAreCurrent, Progress, Clean, TypeOK
<1>6. Progress'
  BY <1>2, Disconnect DEF Suspend, Inv, Progress, Clean, TypeOK
<1>7. Records'
  BY <1>2, Disconnect DEF Records, Clean
<1> QED
  BY <1>2, <1>4, <1>5, <1>6, <1>7, Disconnect DEF Inv

LEMMA ResumeInv == ASSUME Inv, Resume PROVE Inv'
<1>1. FlagsOK'
  BY Zenon DEF Resume, Inv, TypeOK, FlagsOK, nxagentDisconnectSession, signals
<1>2. nxagentDisconnectSession
  BY DEF Resume
<1>3. RecordsOK'
  BY <1>2, Disconnect, StepsAreSteps DEF Resume, Inv, TypeOK, RecordsOK
<1>4. TypeOK'
  BY <1>1, <1>3 DEF Resume, Inv, TypeOK, nxagentDisconnectSession,
     nxagentDisconnectDisplay, signals
<1>5. ErrorsAreCurrent'
  BY <1>2, Disconnect DEF Resume, Inv, ErrorsAreCurrent, Progress, Clean, TypeOK
<1>6. Progress'
  BY <1>2, Disconnect DEF Resume, Inv, Progress, Clean, TypeOK
<1>7. Records'
  BY <1>2, Disconnect DEF Records, Clean
<1> QED
  BY <1>2, <1>4, <1>5, <1>6, <1>7, Disconnect DEF Inv

LEMMA UndoInv == ASSUME Inv, Undo PROVE Inv'
<1>1. FlagsOK'
  BY Zenon DEF Undo, Inv, TypeOK, FlagsOK, nxagentDisconnectSession, signals
<1>2. nxagentDisconnectSession
  BY DEF Undo
<1>3. RecordsOK'
  BY <1>2, Disconnect, StepsAreSteps DEF Undo, Inv, TypeOK, RecordsOK
<1>4. TypeOK'
  BY <1>1, <1>3 DEF Undo, Inv, TypeOK, nxagentDisconnectSession,
     nxagentDisconnectDisplay, signals
<1>5. ErrorsAreCurrent'
  BY <1>2, Disconnect DEF Undo, Inv, ErrorsAreCurrent, Progress, Clean, TypeOK
<1>6. Progress'
  BY <1>2, Disconnect DEF Undo, Inv, Progress, Clean, TypeOK
<1>7. Records'
  BY <1>2, Disconnect DEF Records, Clean
<1> QED
  BY <1>2, <1>4, <1>5, <1>6, <1>7, Disconnect DEF Inv

LEMMA LostInv == ASSUME Inv, Lost PROVE Inv'
<1>1. FlagsOK'
  BY Zenon DEF Lost, Inv, TypeOK, FlagsOK, nxagentDisconnectSession, signals
<1>2. nxagentDisconnectSession
  BY DEF Lost
<1>3. RecordsOK'
  BY <1>2, Disconnect, StepsAreSteps DEF Lost, Inv, TypeOK, RecordsOK
<1>4. TypeOK'
  BY <1>1, <1>3 DEF Lost, Inv, TypeOK, nxagentDisconnectSession,
     nxagentDisconnectDisplay, signals
<1>5. ErrorsAreCurrent'
  BY <1>2, Disconnect DEF Lost, Inv, ErrorsAreCurrent, Progress, Clean, TypeOK
<1>6. Progress'
  BY <1>2, Disconnect DEF Lost, Inv, Progress, Clean, TypeOK
<1>7. Records'
  BY <1>2, Disconnect DEF Records, Clean
<1> QED
  BY <1>2, <1>4, <1>5, <1>6, <1>7, Disconnect DEF Inv

LEMMA NextInv == ASSUME Inv, [Next]_vars PROVE Inv'
<1>1. CASE UNCHANGED vars
  <2>1. FlagsOK'
    BY <1>1, Zenon DEF vars, signals, records, Inv, TypeOK, FlagsOK
  <2>2. RecordsOK'
    BY <1>1 DEF vars, records, Inv, TypeOK, RecordsOK
  <2>3. TypeOK'
    BY <1>1, <2>1, <2>2 DEF vars, records, Inv, TypeOK
  <2>4. RecordsKept' /\ Records'
    BY <1>1 DEF vars, records, Inv, RecordsKept, Records
  <2>5. ErrorsAreCurrent'
    BY <1>1 DEF vars, records, Inv, ErrorsAreCurrent
  <2>6. Progress'
    BY <1>1 DEF vars, records, Inv, Progress, Clean
  <2> QED
    BY <2>3, <2>4, <2>5, <2>6 DEF Inv
<1>2. CASE Next
  BY <1>2, SighupInv, TerminateInv, DisplayFailsInv, TurnInv, BlockHandlerInv,
     WakeupHandlerInv, HandleSignalInv, NoChangeInv, SuspendInv, ResumeInv, OpenFailsInv,
     OpenInv, RebuildInv, RebuildFailsInv, UndoInv, ResumedInv, NoErrorInv, ErrorEndsInv,
     ErrorSuspendsInv, LostInv, ErrorCompletesInv, TerminatedInv
     DEF Next, Agent
<1> QED
  BY <1>1, <1>2

LEMMA InitInv == Init => Inv
<1> SUFFICES ASSUME Init PROVE Inv
  OBVIOUS
<1>1. FlagsOK
  BY Zenon DEF Init, FlagsOK
<1>2. 1 \in Display /\ None \notin Display
  BY SessionAssumption DEF Display, None
<1>3. RecordsOK
  BY <1>2, StepsAreSteps DEF Init, RecordsOK
<1>4. TypeOK
  BY <1>1, <1>3 DEF Init, TypeOK
<1>5. RecordsKept /\ ErrorsAreCurrent /\ Records
  BY <1>2 DEF Init, RecordsKept, ErrorsAreCurrent, Records
<1>6. Progress
  BY StepsAreSteps DEF Init, Progress
<1> QED
  BY <1>4, <1>5, <1>6 DEF Inv

LEMMA Always == Spec => []Inv
  BY InitInv, NextInv, PTL DEF Spec

(* The state of the agent stays well-formed, and the display is never NULL    *)
(* when a handler returns (nxagentReconnectSession goes back to the backup).  *)
THEOREM SessionTypes == Spec => []TypeOK
  BY Always, PTL DEF Inv

(* The agent always has a good display record, closes every other once, and   *)
(* never one that is in use, for any number of reconnections and failures.    *)
THEOREM DisplayRecords == Spec => []RecordsKept
  BY Always, PTL DEF Inv

(* A session that is up was rebuilt entirely on its display.  *)
THEOREM UpWhole == Spec => []UpIsWhole
<1>1. Inv => UpIsWhole
  BY DEF Inv, Progress, UpIsWhole
<1> QED
  BY <1>1, Always, PTL

(* A session that is down can be resumed, and holds no id of the old display. *)
THEOREM DownClean == Spec => []DownIsClean
<1>1. Inv => DownIsClean
  BY DEF Inv, Progress, Clean, Forgotten, DownIsClean
<1> QED
  BY <1>1, Always, PTL

(* No error of a display that is gone is ever taken for one of a new display. *)
THEOREM ErrorsCurrent == Spec => []ErrorsAreCurrent
  BY Always, PTL DEF Inv
=============================================================================
