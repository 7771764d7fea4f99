-------------------------- MODULE DesktopParts_proofs --------------------------
(***************************************************************************)
(* Theorems about the parts of the desktop application that do not depend  *)
(* on each other: how it ends (Shutdown), its settings (SettingsFile), the *)
(* way of an invite (Invites), what a device is told (OutputRange), the    *)
(* motion a host makes itself (DemoMotion), the diagnostic log             *)
(* (DiagnosticLog) and the output log and its window (OutputLog).          *)
(***************************************************************************)
EXTENDS Shutdown, SettingsFile, Invites, OutputRange, DemoMotion, DiagnosticLog, OutputLog,
        SequenceTheorems, WellFoundedInduction, TLAPS

(***************************************************************************)
(* Shutdown.                                                               *)
(***************************************************************************)
LEMMA InitShutdown == ShutdownInit => ShutdownInv
  <1> SUFFICES ASSUME ShutdownInit PROVE ShutdownInv
    OBVIOUS
  <1>1. {onMac, opened, inRoom, demoRuns, frameWaits, quitting, gone, late} \subseteq BOOLEAN
    BY DEF ShutdownInit
  <1> QED BY <1>1 DEF ShutdownInit, ShutdownInv, ShutdownTypeOK, QuitLeavesNothing

\* asking the hardware keeps its queue's type, and the queue is not empty then
LEMMA QueueTyped ==
    ASSUME tasks \in Seq(Kinds), NEW kind \in Kinds,
           \/ tasks' = Append(tasks, kind)
           \/ tasks # <<>> /\ tasks' = tasks
    PROVE  tasks' \in Seq(Kinds) /\ tasks' # <<>> /\ Len(tasks') \in Nat /\ Len(tasks') >= Len(tasks)
  OBVIOUS

LEMMA AskTyped ==
    ASSUME tasks \in Seq(Kinds), NEW kind \in Kinds, Ask(kind) \/ AskFor(kind)
    PROVE  tasks' \in Seq(Kinds) /\ tasks' # <<>> /\ Len(tasks') \in Nat /\ Len(tasks') >= Len(tasks)
  BY QueueTyped DEF Ask, AskFor

\* a request to shut down, whether it begins or is shared
LEMMA ShutDownKeeps ==
    ASSUME ShutdownInv, ShutDown, ~gone
    PROVE  /\ {inRoom, demoRuns, frameWaits, late}' \subseteq BOOLEAN
           /\ device' \in {"disconnected", "stopped", "moved"}
           /\ tasks' \in Seq(Kinds) /\ awaited' \in 0..Len(tasks')
           /\ shutdown' \in {"none", "stop", "disconnect", "flush"}
           /\ shutdown' # "none" /\ ~late' => NothingMoves' /\ AllAwaited'
  <1> USE DEF ShutdownInv
  <1>1. CASE shutdown # "none"
    BY <1>1 DEF ShutDown, ShutdownTypeOK, NothingMoves, AllAwaited
  <1>2. CASE shutdown = "none"
    <2>1. PICK kind \in Kinds : Ask(kind)
      BY <1>2 DEF ShutDown, Kinds
    <2>2. tasks' \in Seq(Kinds) /\ tasks' # <<>> /\ Len(tasks') \in Nat /\ awaited' = Len(tasks')
      BY <2>1, AskTyped DEF Ask, ShutdownTypeOK
    <2>3. /\ ~demoRuns' /\ ~inRoom' /\ ~frameWaits' /\ ~late'
          /\ {inRoom', demoRuns', frameWaits', late'} \subseteq BOOLEAN
      BY <1>2 DEF ShutDown
    <2>4. shutdown' \in {"stop", "disconnect"} /\ device' = device
      BY <1>2 DEF ShutDown
    <2> QED BY <2>2, <2>3, <2>4 DEF ShutdownTypeOK, NothingMoves, AllAwaited
  <1> QED BY <1>1, <1>2

LEMMA NextShutdown ==
    ASSUME ShutdownInv, [ShutdownNext]_shutdownVars
    PROVE  ShutdownInv'
  <1> USE DEF ShutdownInv
  <1>1. CASE MotionComes
    BY <1>1 DEF MotionComes, ShutdownTypeOK, NothingMoves, AllAwaited, QuitLeavesNothing
  <1>2. CASE MotionIsWritten
    BY <1>2 DEF MotionIsWritten, ShutdownTypeOK, NothingMoves, AllAwaited, QuitLeavesNothing
  <1>3. CASE TaskEnds
    <2>1. /\ tasks' \in Seq(Kinds) /\ Len(tasks') = Len(tasks) - 1
          /\ Len(tasks) \in Nat \ {0} /\ (Len(tasks) = 1 => tasks' = <<>>)
      BY <1>3 DEF TaskEnds, ShutdownTypeOK
    <2>2. device' \in {"disconnected", "stopped"}
      BY <1>3 DEF TaskEnds
    <2>3. awaited' \in 0..Len(tasks') /\ (awaited = Len(tasks) => awaited' = Len(tasks'))
      <3>1. awaited' = (IF awaited = 0 THEN 0 ELSE awaited - 1) /\ awaited \in 0..Len(tasks)
        BY <1>3 DEF TaskEnds, ShutdownTypeOK
      <3> QED BY <2>1, <3>1
    <2>4. ~frameWaits' /\ frameWaits' \in BOOLEAN /\ tasks # <<>> /\ ~gone
      BY <1>3 DEF TaskEnds
    <2> QED BY <1>3, <2>1, <2>2, <2>3, <2>4
            DEF TaskEnds, ShutdownTypeOK, NothingMoves, AllAwaited, QuitLeavesNothing
  <1>4. CASE DeviceUnplugged
    BY <1>4 DEF DeviceUnplugged, ShutdownTypeOK, NothingMoves, AllAwaited, QuitLeavesNothing
  <1>5. CASE AskHardware
    <2>1. PICK kind \in {"connect", "disconnect"} :
             AskFor(kind) /\ frameWaits' = (frameWaits /\ kind = "connect")
      BY <1>5 DEF AskHardware
    <2>2. tasks' \in Seq(Kinds) /\ tasks' # <<>> /\ Len(tasks') \in Nat /\ Len(tasks') >= Len(tasks)
      BY <2>1, AskTyped DEF Kinds, ShutdownTypeOK
    <2>3. awaited' \in 0..Len(tasks') /\ Len(tasks) \in Nat
      BY <2>1, <2>2 DEF AskFor, ShutdownTypeOK
    <2>4. frameWaits' \in BOOLEAN
      BY <2>1
    <2>5. late' \in BOOLEAN /\ (shutdown # "none" => late')
      BY <1>5 DEF AskHardware, Served
    <2> QED BY <1>5, <2>2, <2>3, <2>4, <2>5
            DEF AskHardware, Served, ShutdownTypeOK, NothingMoves, AllAwaited, QuitLeavesNothing
  <1>6. CASE EnterOrStart
    BY <1>6 DEF EnterOrStart, Served, ShutdownTypeOK, NothingMoves, AllAwaited, QuitLeavesNothing
  <1>7. CASE RoomEnds
    <2>1. tasks' \in Seq(Kinds) /\ tasks' # <<>> /\ Len(tasks') \in Nat /\ Len(tasks') >= Len(tasks)
      BY <1>7, AskTyped DEF RoomEnds, Kinds, ShutdownTypeOK
    <2>2. awaited' \in 0..Len(tasks') /\ Len(tasks) \in Nat
      BY <1>7, <2>1 DEF RoomEnds, AskFor, ShutdownTypeOK
    <2>3. inRoom /\ ~inRoom' /\ inRoom' \in BOOLEAN /\ ~frameWaits' /\ frameWaits' \in BOOLEAN /\ ~gone
      BY <1>7 DEF RoomEnds
    <2>4. late' \in BOOLEAN /\ (late => late') /\ demoRuns' \in BOOLEAN
      <3>1. CASE Served /\ demoRuns' = FALSE
        BY <3>1 DEF Served
      <3>2. CASE UNCHANGED <<demoRuns, late>>
        BY <3>2 DEF ShutdownTypeOK
      <3> QED BY <1>7, <3>1, <3>2 DEF RoomEnds
    <2>5. shutdown # "none" => late
      BY <2>3 DEF NothingMoves
    <2> QED BY <1>7, <2>1, <2>2, <2>3, <2>4, <2>5
            DEF RoomEnds, ShutdownTypeOK, QuitLeavesNothing
  <1>8. CASE LastWindowCloses
    <2>1. ~gone /\ ShutDown /\ UNCHANGED <<onMac, gone>> /\ opened' \in BOOLEAN /\ quitting' \in BOOLEAN
      BY <1>8 DEF LastWindowCloses
    <2> QED BY <2>1, ShutDownKeeps DEF ShutdownTypeOK, QuitLeavesNothing
  <1>9. CASE ReopenWindow
    BY <1>9 DEF ReopenWindow, ShutdownTypeOK, NothingMoves, AllAwaited, QuitLeavesNothing
  <1>10. CASE Quit
    <2>1. ~gone /\ ShutDown /\ UNCHANGED <<onMac, opened, gone>> /\ quitting' \in BOOLEAN
      BY <1>10 DEF Quit
    <2> QED BY <2>1, ShutDownKeeps DEF ShutdownTypeOK, QuitLeavesNothing
  <1>11. CASE StopEnds
    <2>1. tasks' \in Seq(Kinds) /\ tasks' # <<>> /\ Len(tasks') \in Nat /\ awaited' = Len(tasks')
      BY <1>11, AskTyped DEF StopEnds, Ask, Kinds, ShutdownTypeOK
    <2>2. ~frameWaits' /\ frameWaits' \in BOOLEAN /\ shutdown = "stop" /\ shutdown' = "disconnect"
      BY <1>11 DEF StopEnds
    <2> QED BY <1>11, <2>1, <2>2
            DEF StopEnds, ShutdownTypeOK, NothingMoves, AllAwaited, QuitLeavesNothing
  <1>12. CASE DisconnectEnds
    BY <1>12 DEF DisconnectEnds, ShutdownTypeOK, NothingMoves, AllAwaited, QuitLeavesNothing
  <1>13. CASE FlushEnds
    BY <1>13 DEF FlushEnds, ShutdownTypeOK, NothingMoves, AllAwaited, QuitLeavesNothing
  <1>14. CASE UNCHANGED shutdownVars
    BY <1>14 DEF shutdownVars, ShutdownTypeOK, NothingMoves, AllAwaited, QuitLeavesNothing
  <1> QED BY <1>1, <1>2, <1>3, <1>4, <1>5, <1>6, <1>7, <1>8, <1>9, <1>10, <1>11, <1>12,
             <1>13, <1>14 DEF ShutdownNext

\* Whoever asks the hardware, moves the device or unplugs it, whenever the windows
\* close and the application is quit: the invariant of the shutdown holds.
THEOREM ShutdownInductive == ShutdownSpec => []ShutdownInv
  BY InitShutdown, NextShutdown, PTL DEF ShutdownSpec

\* The application ends with nothing under way, unless a window asked for more
\* while it shut down.
THEOREM QuitIsClean == ShutdownSpec => []QuitLeavesNothing
  <1>1. ShutdownInv => QuitLeavesNothing
    BY DEF ShutdownInv
  <1> QED BY <1>1, ShutdownInductive, PTL

(***************************************************************************)
(* The settings.                                                           *)
(***************************************************************************)
\* What stands for settings that are not there is no settings.
LEMMA SettingsApart ==
    /\ {Missing, Partial, Unknown, Failed} \cap Settings = {}
    /\ Missing # Partial /\ Default \in Settings
  <1>1. \A s \in Settings : DOMAIN s = {"profile", "delay"}
    BY DEF Settings
  <1>2. \A s \in {Missing, Partial, Unknown, Failed} : DOMAIN s = {"file"}
    BY DEF Missing, Partial, Unknown, Failed
  <1>3. Missing # Partial
    BY DEF Missing, Partial
  <1>4. Default \in Settings
    BY SettingsAssumption DEF Default, Settings
  <1> QED BY <1>1, <1>2, <1>3, <1>4

LEMMA CurrentTyped == ASSUME SettingsTypeOK PROVE Current \in Settings
  BY SettingsApart DEF Current, SettingsTypeOK

\* Settings that are changed in one field are settings.
LEMMA PatchTyped ==
    ASSUME NEW s \in Settings, NEW stroke \in Profiles, NEW delay \in PlaybackDelays
    PROVE  /\ [s EXCEPT !.profile = stroke] \in Settings
           /\ [s EXCEPT !.profile = stroke].delay = s.delay
           /\ [s EXCEPT !.delay = delay] \in Settings
           /\ [s EXCEPT !.delay = delay].delay = delay
  BY DEF Settings

LEMMA InitSettings == SettingsInit => SettingsInv
  <1> SUFFICES ASSUME SettingsInit PROVE SettingsInv
    OBVIOUS
  <1> USE DEF SettingsInit
  <1>1. [kind |-> "load", id |-> 0] \in Operations
    BY SettingsAssumption DEF Operations
  <1>2. SettingsTypeOK
    <2>1. storeQueue \in Seq(Operations) /\ replies \in Seq(Outcomes)
      BY <1>1
    <2>2. loading \in BOOLEAN /\ overlapped \in BOOLEAN /\ outdated \in BOOLEAN
      OBVIOUS
    <2>3. requests \in 0..MaxRequests /\ busy \in 0..MaxRequests /\ crashes \in 0..MaxCrashes
      BY SettingsAssumption
    <2> QED BY <2>1, <2>2, <2>3, SettingsAssumption DEF SettingsTypeOK
  <1>3. WritesWhatIsAsked /\ LastIsCurrent /\ SavesAreAlone /\ DelayIsChosen
    BY DEF WritesWhatIsAsked, LastIsCurrent, SavesAreAlone, DelayIsChosen
  <1> QED BY <1>2, <1>3 DEF SettingsInv

\* an answer is added: a success reports the file as it is from then on
LEMMA AnswerKeeps ==
    ASSUME SettingsInv, NEW result \in Settings \cup {Failed}, storeQueue # <<>>,
           Answer(result), UNCHANGED <<windowVars, requests, crashes>>,
           file' \in Settings \cup {Missing}, outdated' \in BOOLEAN,
           temporary' \in Settings \cup {Missing, Partial},
           \/ result = Failed /\ UNCHANGED file
           \/ result = Current',
           \/ result # Failed /\ Running.kind = "delay"
           \/ overlapped \/ Current'.delay = Current.delay
    PROVE  SettingsInv'
  <1> DEFINE reply == [kind |-> Running.kind, id |-> Running.id, settings |-> result]
  <1>1. Running \in Operations /\ Running.kind \in {"load", "save", "delay"} /\ Running.id \in 0..MaxRequests
    BY DEF SettingsInv, SettingsTypeOK, Running, Operations
  <1>2. reply \in Outcomes /\ replies' = Append(replies, reply)
    BY <1>1 DEF Outcomes, Answer
  <1>3. replies \in Seq(Outcomes) /\ storeQueue \in Seq(Operations)
    BY DEF SettingsInv, SettingsTypeOK
  <1>n. PICK n \in Nat : n = Len(replies)
    BY <1>3
  <1>4. /\ replies' \in Seq(Outcomes) /\ Len(replies') = n + 1
        /\ DOMAIN replies = 1..n /\ DOMAIN replies' = 1..n + 1
        /\ \A i \in 1..n : replies'[i] = replies[i]
        /\ replies'[n + 1] = reply
    BY <1>2, <1>3, <1>n
  <1>5. storeQueue' \in Seq(Operations) /\ \A i \in DOMAIN storeQueue' :
           i + 1 \in DOMAIN storeQueue /\ i + 1 # 1 /\ storeQueue'[i] = storeQueue[i + 1]
    BY <1>3 DEF Answer
  <1>6. stage' = "start" /\ content' = Unknown /\ UNCHANGED <<saved, chosen, overlapped>>
    BY DEF Answer, windowVars
  <1>7. relayDelay' \in PlaybackDelays /\ Current' \in Settings
    <2>1. Current' \in Settings
      BY SettingsApart DEF Current
    <2> QED BY <2>1, SettingsApart DEF Answer, Settings, SettingsInv, SettingsTypeOK
  <1>8. SettingsTypeOK'
    BY <1>4, <1>5, <1>6, <1>7 DEF windowVars, SettingsInv, SettingsTypeOK
  <1>9. WritesWhatIsAsked'
    BY <1>6 DEF WritesWhatIsAsked
  <1>10. SavesAreAlone'
    BY <1>5, <1>6 DEF SavesAreAlone, SettingsInv
  <1>11. /\ \A i \in 1..n : /\ Succeeded(i)' <=> Succeeded(i)
                            /\ ReportsDelay(i)' <=> ReportsDelay(i)
         /\ Succeeded(n + 1)' <=> result # Failed
         /\ ReportsDelay(n + 1)' <=> (result # Failed /\ Running.kind = "delay")
    BY <1>4 DEF Succeeded, ReportsDelay
  <1>12. result = Failed => Current' = Current /\ relayDelay' = relayDelay
    BY SettingsApart, <1>7 DEF Current, Answer
  <1>13. result # Failed => result = Current' /\ relayDelay' = Current'.delay
    BY DEF Answer
  <1>14. LastIsCurrent'
    <2>1. SUFFICES
             /\ \A i \in 1..n + 1 : Succeeded(i)' /\ (\A j \in i + 1..n + 1 : ~Succeeded(j)')
                   => replies'[i].settings = Current' /\ relayDelay' = Current'.delay
             /\ saved # Unknown /\ (\A i \in 1..n + 1 : ~Succeeded(i)')
                   => saved = Current' /\ relayDelay' = Current'.delay
      BY <1>4, <1>6 DEF LastIsCurrent
    <2>2. CASE result = Failed
      <3>1. \A i \in 1..n : Succeeded(i) /\ (\A j \in i + 1..n : ~Succeeded(j))
               => replies[i].settings = Current /\ relayDelay = Current.delay
        BY <1>n, <1>4 DEF SettingsInv, LastIsCurrent
      <3>2. saved # Unknown /\ (\A i \in 1..n : ~Succeeded(i))
               => saved = Current /\ relayDelay = Current.delay
        BY <1>n, <1>4 DEF SettingsInv, LastIsCurrent
      <3> QED BY <1>4, <1>11, <1>12, <2>2, <3>1, <3>2
    <2>3. CASE result # Failed
      BY <1>4, <1>11, <1>13, <2>3
    <2> QED BY <2>2, <2>3
  <1>15. DelayIsChosen'
    <2>1. SUFFICES ASSUME ~overlapped
                   PROVE  /\ \A i \in 1..n + 1 :
                                Succeeded(i)' /\ (\A j \in i + 1..n + 1 : ~ReportsDelay(j)')
                                   => replies'[i].settings.delay = Current'.delay
                          /\ chosen # Unknown /\ (\A i \in 1..n + 1 : ~ReportsDelay(i)')
                                   => chosen.delay = Current'.delay
      BY <1>4, <1>6 DEF DelayIsChosen
    <2>2. /\ \A i \in 1..n : Succeeded(i) /\ (\A j \in i + 1..n : ~ReportsDelay(j))
               => replies[i].settings.delay = Current.delay
          /\ chosen # Unknown /\ (\A i \in 1..n : ~ReportsDelay(i))
               => chosen.delay = Current.delay
      BY <1>n, <1>4, <2>1 DEF SettingsInv, DelayIsChosen
    <2>3. CASE result = Failed
      BY <1>4, <1>11, <1>12, <2>2, <2>3
    <2>4. CASE result # Failed
      <3>1. CASE Running.kind = "delay"
        BY <1>4, <1>11, <1>13, <2>4, <3>1
      <3>2. CASE Running.kind # "delay"
        <4>1. Current'.delay = Current.delay
          BY <2>1, <2>4, <3>2
        <4> QED BY <1>4, <1>11, <1>13, <2>2, <2>4, <4>1
      <3> QED BY <3>1, <3>2
    <2> QED BY <2>3, <2>4
  <1> QED BY <1>6, <1>8, <1>9, <1>10, <1>14, <1>15 DEF SettingsInv

\* a request is appended to those that wait
LEMMA RequestKeeps ==
    ASSUME SettingsInv, NEW operation \in Operations, Requests(operation),
           busy' \in 0..MaxRequests, loading' \in BOOLEAN,
           overlapped' \in BOOLEAN, overlapped => overlapped',
           operation.kind = "save" /\ ~overlapped'
              => storeQueue = <<>> /\ operation.settings.delay = Current.delay
    PROVE  SettingsInv'
  <1>1. storeQueue \in Seq(Operations) /\ requests \in Nat /\ MaxRequests \in Nat
    BY SettingsAssumption DEF SettingsInv, SettingsTypeOK
  <1>n. PICK n \in Nat : n = Len(storeQueue)
    BY <1>1
  <1>2. /\ storeQueue' \in Seq(Operations) /\ storeQueue' # <<>>
        /\ DOMAIN storeQueue = 1..n /\ DOMAIN storeQueue' = 1..n + 1
        /\ \A i \in 1..n : storeQueue'[i] = storeQueue[i]
        /\ storeQueue'[n + 1] = operation
        /\ storeQueue = <<>> <=> n = 0
    BY <1>1, <1>n DEF Requests
  <1>3. /\ UNCHANGED <<file, outdated, stage, content, temporary, relayDelay, replies, saved,
                       chosen, crashes>>
        /\ requests' \in 0..MaxRequests
    BY <1>1 DEF Requests
  <1>4. Current' = Current
    BY <1>3 DEF Current
  <1>5. storeQueue # <<>> => Running' = Running
    BY <1>1, <1>2 DEF Running
  <1>6. SettingsTypeOK'
    BY <1>2, <1>3 DEF SettingsInv, SettingsTypeOK
  <1>7. WritesWhatIsAsked'
    BY <1>2, <1>3, <1>4, <1>5 DEF SettingsInv, WritesWhatIsAsked
  <1>8. LastIsCurrent'
    BY <1>3, <1>4 DEF SettingsInv, LastIsCurrent, Succeeded
  <1>9. SavesAreAlone'
    <2> SUFFICES ASSUME ~overlapped', NEW i \in 1..n + 1, storeQueue'[i].kind = "save"
                 PROVE  i = 1 /\ storeQueue'[i].settings.delay = Current'.delay
      BY <1>2 DEF SavesAreAlone
    <2>1. CASE i \in 1..n
      BY <1>2, <1>4, <2>1 DEF SettingsInv, SavesAreAlone
    <2>2. CASE i = n + 1
      BY <1>2, <1>4, <2>2
    <2> QED BY <2>1, <2>2
  <1>10. DelayIsChosen'
    BY <1>3, <1>4 DEF SettingsInv, DelayIsChosen, Succeeded, ReportsDelay
  <1> QED BY <1>3, <1>6, <1>7, <1>8, <1>9, <1>10 DEF SettingsInv

LEMMA PressesKeep ==
    ASSUME SettingsInv,
           \/ PressLoad \/ \E stroke \in Profiles : PressSave(stroke)
           \/ \E delay \in PlaybackDelays : PressApplyDelay(delay)
    PROVE  SettingsInv'
  <1>1. CASE PressLoad
    <2>1. requests' \in 0..MaxRequests
      BY <1>1, SettingsAssumption DEF PressLoad, Requests, SettingsInv, SettingsTypeOK
    <2>2. [kind |-> "load", id |-> requests'] \in Operations
      BY <2>1 DEF Operations
    <2>3. loading' \in BOOLEAN /\ UNCHANGED <<busy, overlapped>>
      BY <1>1 DEF PressLoad
    <2> QED BY <1>1, <2>2, <2>3, RequestKeeps DEF PressLoad, SettingsInv, SettingsTypeOK
  <1>2. ASSUME NEW stroke \in Profiles, PressSave(stroke) PROVE SettingsInv'
    <2> DEFINE operation == [kind |-> "save", id |-> requests',
                             settings |-> [saved EXCEPT !.profile = stroke]]
    <2>1. requests' \in 0..MaxRequests
      BY <1>2, SettingsAssumption DEF PressSave, Requests, SettingsInv, SettingsTypeOK
    <2>2. saved # Unknown /\ saved \in Settings
      BY <1>2 DEF PressSave, SettingsInv, SettingsTypeOK
    <2>3. 0 \in PlaybackDelays
      BY SettingsAssumption
    <2>4. [saved EXCEPT !.profile = stroke] \in Settings
          /\ [saved EXCEPT !.profile = stroke].delay = saved.delay
      BY <2>2, <2>3, PatchTyped
    <2>5. operation \in Operations
      BY <2>1, <2>4 DEF Operations
    <2>6. overlapped' = (overlapped \/ storeQueue # <<>> \/ replies # <<>>)
      BY <1>2 DEF PressSave
    <2>7. overlapped' \in BOOLEAN
      BY <2>6
    <2>8. ~overlapped' => storeQueue = <<>> /\ operation.settings.delay = Current.delay
      <3>1. ~overlapped' => storeQueue = <<>> /\ replies = <<>>
        BY <2>6
      <3>2. replies = <<>> => saved = Current
        BY <2>2 DEF SettingsInv, LastIsCurrent
      <3> QED BY <2>4, <3>1, <3>2
    <2>9. Requests(operation) /\ busy' = requests' /\ loading' = loading
      BY <1>2 DEF PressSave
    <2>10. loading' \in BOOLEAN
      BY <2>9 DEF SettingsInv, SettingsTypeOK
    <2> HIDE DEF operation
    <2> QED BY <2>1, <2>5, <2>6, <2>7, <2>8, <2>9, <2>10, RequestKeeps
  <1>3. ASSUME NEW delay \in PlaybackDelays, PressApplyDelay(delay) PROVE SettingsInv'
    <2>1. requests' \in 0..MaxRequests
      BY <1>3, SettingsAssumption DEF PressApplyDelay, Requests, SettingsInv, SettingsTypeOK
    <2>2. [kind |-> "delay", id |-> requests', delay |-> delay] \in Operations
      BY <2>1 DEF Operations
    <2>3. busy' = requests' /\ UNCHANGED <<loading, overlapped>>
      BY <1>3 DEF PressApplyDelay
    <2> QED BY <1>3, <2>1, <2>2, <2>3, RequestKeeps DEF PressApplyDelay, SettingsInv, SettingsTypeOK
  <1> QED BY <1>1, <1>2, <1>3

\* an answer is taken from the front of those on their way
LEMMA ReplyArrivesKeeps ==
    ASSUME SettingsInv, ReplyArrives
    PROVE  SettingsInv'
  <1>1. PICK reply \in Outcomes : reply = Head(replies)
    BY DEF ReplyArrives, SettingsInv, SettingsTypeOK
  <1>n. PICK n \in Nat : Len(replies) = n + 1
    BY DEF ReplyArrives, SettingsInv, SettingsTypeOK
  <1>2. /\ replies' \in Seq(Outcomes)
        /\ DOMAIN replies = 1..n + 1 /\ DOMAIN replies' = 1..n /\ Len(replies') = n
        /\ replies[1] = reply /\ \A i \in 1..n : replies'[i] = replies[i + 1]
    BY <1>1, <1>n DEF ReplyArrives, SettingsInv, SettingsTypeOK
  <1>3. /\ UNCHANGED <<fileVars, relayDelay, requests, crashes, overlapped>>
        /\ saved' = IF reply.settings = Failed THEN saved ELSE reply.settings
        /\ chosen' = IF reply.settings # Failed /\ (reply.kind = "delay" \/ chosen = Unknown)
                     THEN reply.settings ELSE chosen
    BY <1>1 DEF ReplyArrives
  <1>4. Current' = Current /\ relayDelay' = relayDelay /\ Running' = Running
    BY <1>3 DEF Current, fileVars, Running
  <1>5. reply.settings \in Settings \cup {Failed}
    BY DEF Outcomes
  <1>6. /\ \A i \in 1..n : (Succeeded(i)' <=> Succeeded(i + 1))
                           /\ (ReportsDelay(i)' <=> ReportsDelay(i + 1))
        /\ Succeeded(1) <=> reply.settings # Failed
        /\ ReportsDelay(1) <=> (reply.settings # Failed /\ reply.kind = "delay")
    BY <1>2 DEF Succeeded, ReportsDelay
  <1>7. SettingsTypeOK'
    <2>1. loading' \in BOOLEAN
      <3> DEFINE waits == loading /\ reply.kind # "load"
      <3>1. loading' = waits
        BY <1>1 DEF ReplyArrives
      <3>2. waits \in BOOLEAN
        OBVIOUS
      <3> HIDE DEF waits
      <3> QED BY <3>1, <3>2
    <2>2. busy' \in 0..MaxRequests
      <3>1. busy' = (IF busy = reply.id THEN 0 ELSE busy)
        BY <1>1 DEF ReplyArrives
      <3> QED BY <3>1, SettingsAssumption DEF SettingsInv, SettingsTypeOK
    <2>3. saved' \in Settings \cup {Unknown} /\ chosen' \in Settings \cup {Unknown}
      BY <1>3, <1>5 DEF SettingsInv, SettingsTypeOK
    <2> QED BY <1>2, <1>3, <2>1, <2>2, <2>3 DEF fileVars, SettingsInv, SettingsTypeOK
  <1>8. saved' # Unknown => chosen' # Unknown
    BY <1>3, <1>5, SettingsApart DEF SettingsInv
  <1>9. WritesWhatIsAsked'
    BY <1>3, <1>4 DEF SettingsInv, WritesWhatIsAsked, fileVars
  <1>10. LastIsCurrent'
    <2>1. /\ \A i \in 1..n + 1 : Succeeded(i) /\ (\A j \in i + 1..n + 1 : ~Succeeded(j))
                => replies[i].settings = Current /\ relayDelay = Current.delay
          /\ saved # Unknown /\ (\A i \in 1..n + 1 : ~Succeeded(i))
                => saved = Current /\ relayDelay = Current.delay
      BY <1>2, <1>n DEF SettingsInv, LastIsCurrent
    <2>2. ASSUME NEW i \in 1..n, Succeeded(i)', \A j \in i + 1..n : ~Succeeded(j)'
          PROVE  replies'[i].settings = Current' /\ relayDelay' = Current'.delay
      <3>1. \A j \in (i + 1) + 1..n + 1 : ~Succeeded(j)
        <4> SUFFICES ASSUME NEW j \in (i + 1) + 1..n + 1 PROVE ~Succeeded(j)
          OBVIOUS
        <4>1. j - 1 \in i + 1..n /\ j - 1 \in 1..n /\ (j - 1) + 1 = j
          OBVIOUS
        <4>2. ~Succeeded(j - 1)'
          BY <2>2, <4>1
        <4> QED BY <1>6, <4>1, <4>2
      <3> QED BY <1>2, <1>4, <1>6, <2>1, <2>2, <3>1
    <2>3. ASSUME saved' # Unknown, \A i \in 1..n : ~Succeeded(i)'
          PROVE  saved' = Current' /\ relayDelay' = Current'.delay
      <3>1. \A j \in 2..n + 1 : ~Succeeded(j)
        <4> SUFFICES ASSUME NEW j \in 2..n + 1 PROVE ~Succeeded(j)
          OBVIOUS
        <4>1. j - 1 \in 1..n /\ (j - 1) + 1 = j
          OBVIOUS
        <4>2. ~Succeeded(j - 1)'
          BY <2>3, <4>1
        <4> QED BY <1>6, <4>1, <4>2
      <3>2. CASE reply.settings = Failed
        <4>1. \A i \in 1..n + 1 : ~Succeeded(i)
          BY <1>6, <3>1, <3>2
        <4> QED BY <1>3, <1>4, <2>1, <2>3, <3>2, <4>1
      <3>3. CASE reply.settings # Failed
        <4>1. Succeeded(1) /\ \A j \in 1 + 1..n + 1 : ~Succeeded(j)
          BY <1>6, <3>1, <3>3
        <4> QED BY <1>2, <1>3, <1>4, <2>1, <3>3, <4>1
      <3> QED BY <3>2, <3>3
    <2> QED BY <1>2, <2>2, <2>3 DEF LastIsCurrent
  <1>11. SavesAreAlone'
    BY <1>3, <1>4 DEF SettingsInv, SavesAreAlone, fileVars
  <1>12. DelayIsChosen'
    <2>1. SUFFICES ASSUME ~overlapped
                   PROVE  /\ \A i \in 1..n :
                                Succeeded(i)' /\ (\A j \in i + 1..n : ~ReportsDelay(j)')
                                   => replies'[i].settings.delay = Current'.delay
                          /\ chosen' # Unknown /\ (\A i \in 1..n : ~ReportsDelay(i)')
                                   => chosen'.delay = Current'.delay
      BY <1>2, <1>3 DEF DelayIsChosen
    <2>2. /\ \A i \in 1..n + 1 : Succeeded(i) /\ (\A j \in i + 1..n + 1 : ~ReportsDelay(j))
                => replies[i].settings.delay = Current.delay
          /\ chosen # Unknown /\ (\A i \in 1..n + 1 : ~ReportsDelay(i))
                => chosen.delay = Current.delay
      BY <1>2, <1>n, <2>1 DEF SettingsInv, DelayIsChosen
    <2>3. ASSUME NEW i \in 0..n, \A j \in i + 1..n : ~ReportsDelay(j)'
          PROVE  \A j \in (i + 1) + 1..n + 1 : ~ReportsDelay(j)
      <3> SUFFICES ASSUME NEW j \in (i + 1) + 1..n + 1 PROVE ~ReportsDelay(j)
        OBVIOUS
      <3>1. j - 1 \in i + 1..n /\ j - 1 \in 1..n /\ (j - 1) + 1 = j
        OBVIOUS
      <3>2. ~ReportsDelay(j - 1)'
        BY <2>3, <3>1
      <3> QED BY <1>6, <3>1, <3>2
    <2>4. ASSUME NEW i \in 1..n, Succeeded(i)', \A j \in i + 1..n : ~ReportsDelay(j)'
          PROVE  replies'[i].settings.delay = Current'.delay
      <3>1. i \in 0..n
        OBVIOUS
      <3>2. \A j \in (i + 1) + 1..n + 1 : ~ReportsDelay(j)
        BY <2>3, <2>4, <3>1
      <3> QED BY <1>2, <1>4, <1>6, <2>2, <2>4, <3>2
    <2>5. ASSUME chosen' # Unknown, \A i \in 1..n : ~ReportsDelay(i)'
          PROVE  chosen'.delay = Current'.delay
      <3>1. \A j \in 2..n + 1 : ~ReportsDelay(j)
        <4>1. 0 \in 0..n /\ \A j \in 0 + 1..n : ~ReportsDelay(j)'
          BY <2>5
        <4>2. \A j \in (0 + 1) + 1..n + 1 : ~ReportsDelay(j)
          BY <2>3, <4>1
        <4> QED BY <4>2
      <3>2. CASE reply.settings # Failed /\ (reply.kind = "delay" \/ chosen = Unknown)
        <4>1. Succeeded(1) /\ \A j \in 1 + 1..n + 1 : ~ReportsDelay(j)
          BY <1>6, <3>1, <3>2
        <4> QED BY <1>2, <1>3, <1>4, <2>2, <3>2, <4>1
      <3>3. CASE ~(reply.settings # Failed /\ (reply.kind = "delay" \/ chosen = Unknown))
        <4>1. chosen' = chosen /\ ~ReportsDelay(1)
          BY <1>3, <1>6, <2>5, <3>3
        <4>2. \A i \in 1..n + 1 : ~ReportsDelay(i)
          BY <3>1, <4>1
        <4> QED BY <1>4, <2>2, <2>5, <4>1, <4>2
      <3> QED BY <3>2, <3>3
    <2> QED BY <2>4, <2>5
  <1> QED BY <1>7, <1>8, <1>9, <1>10, <1>11, <1>12 DEF SettingsInv

\* what the store does before it answers leaves all but its running operation
LEMMA WorkKeeps ==
    ASSUME SettingsInv, UNCHANGED <<file, outdated, storeQueue, relayDelay, replies>>,
           UNCHANGED <<windowVars, requests, crashes>>,
           stage' \in {"start", "write", "rename"}, content' \in Settings \cup {Unknown},
           temporary' \in Settings \cup {Missing, Partial}, WritesWhatIsAsked'
    PROVE  SettingsInv'
  <1>1. Current' = Current
    BY DEF Current
  <1>2. LastIsCurrent' /\ SavesAreAlone' /\ DelayIsChosen'
    BY <1>1 DEF SettingsInv, LastIsCurrent, SavesAreAlone, DelayIsChosen, Succeeded,
                ReportsDelay, windowVars
  <1> QED BY <1>2 DEF SettingsInv, SettingsTypeOK, windowVars

\* What is written are settings.
LEMMA ContentTyped ==
    ASSUME SettingsInv, stage # "start"
    PROVE  /\ content \in Settings /\ storeQueue # <<>> /\ Running \in Operations
           /\ Running.kind \in {"load", "save", "delay"}
           /\ Running.kind = "load" => content = Current
           /\ Running.kind = "save" => content = Running.settings
  <1>1. storeQueue # <<>> /\ Running \in Operations /\ Current \in Settings
    BY CurrentTyped DEF SettingsInv, SettingsTypeOK, WritesWhatIsAsked, Running
  <1>2. CASE Running.kind = "load"
    BY <1>1, <1>2 DEF SettingsInv, WritesWhatIsAsked
  <1>3. CASE Running.kind = "save"
    BY <1>1, <1>3 DEF SettingsInv, WritesWhatIsAsked, Operations
  <1>4. CASE Running.kind = "delay"
    <2>1. content = [Current EXCEPT !.delay = Running.delay] /\ Running.delay \in PlaybackDelays
      BY <1>1, <1>4 DEF SettingsInv, WritesWhatIsAsked, Operations
    <2>2. DefaultProfile \in Profiles
      BY SettingsAssumption
    <2> QED BY <1>1, <1>4, <2>1, <2>2, PatchTyped
  <1> QED BY <1>1, <1>2, <1>3, <1>4 DEF Operations

LEMMA ReadFileKeeps ==
    ASSUME SettingsInv, ReadFile
    PROVE  SettingsInv'
  <1>1. Current \in Settings /\ Running \in Operations /\ storeQueue # <<>>
    BY CurrentTyped DEF ReadFile, SettingsInv, SettingsTypeOK, Running
  <1>2. UNCHANGED <<file, outdated, temporary>> /\ UNCHANGED <<windowVars, requests, crashes>>
    BY DEF ReadFile, UnchangedByStore
  <1>3. Current' = Current /\ Running.kind \in {"load", "delay"}
    BY <1>1, <1>2 DEF Current, ReadFile, Operations
  <1>4. CASE Running.kind = "delay"
    <2> DEFINE settings == [Current EXCEPT !.delay = Running.delay]
    <2>1. Running.delay \in PlaybackDelays
      BY <1>1, <1>4 DEF Operations
    <2>2. DefaultProfile \in Profiles
      BY SettingsAssumption
    <2>3. settings \in Settings
      BY <1>1, <2>1, <2>2, PatchTyped
    <2>4. WillWrite(settings)
      BY <1>4 DEF ReadFile, Current
    <2>5. Running' = Running
      BY <2>4 DEF WillWrite, Running
    <2>6. WritesWhatIsAsked'
      BY <1>1, <1>3, <1>4, <2>4, <2>5 DEF WillWrite, WritesWhatIsAsked
    <2> HIDE DEF settings
    <2> QED BY <1>2, <2>3, <2>4, <2>6, WorkKeeps DEF WillWrite, SettingsInv, SettingsTypeOK
  <1>5. CASE Running.kind = "load" /\ outdated
    <2>1. WillWrite(Current)
      BY <1>5 DEF ReadFile, Current
    <2>2. Running' = Running
      BY <2>1 DEF WillWrite, Running
    <2>3. WritesWhatIsAsked'
      BY <1>1, <1>3, <1>5, <2>1, <2>2 DEF WillWrite, WritesWhatIsAsked
    <2> QED BY <1>1, <1>2, <2>1, <2>3, WorkKeeps DEF WillWrite, SettingsInv, SettingsTypeOK
  <1>6. CASE Running.kind = "load" /\ ~outdated
    <2>1. Answer(Current)
      BY <1>6 DEF ReadFile, Current
    <2> QED BY <1>1, <1>2, <1>3, <2>1, AnswerKeeps DEF SettingsInv, SettingsTypeOK
  <1>7. outdated \in BOOLEAN
    BY DEF SettingsInv, SettingsTypeOK
  <1> QED BY <1>3, <1>4, <1>5, <1>6, <1>7

LEMMA BeginSaveKeeps ==
    ASSUME SettingsInv, BeginSave
    PROVE  SettingsInv'
  <1>1. Running \in Operations /\ Running.kind = "save" /\ storeQueue # <<>>
    BY DEF BeginSave, SettingsInv, SettingsTypeOK, Running
  <1>2. Running.settings \in Settings
    BY <1>1 DEF Operations
  <1>3. WillWrite(Running.settings) /\ UNCHANGED <<file, outdated, temporary>>
        /\ UNCHANGED <<windowVars, requests, crashes>>
    BY DEF BeginSave, UnchangedByStore
  <1>4. Running' = Running
    BY <1>3 DEF WillWrite, Running
  <1>5. WritesWhatIsAsked'
    BY <1>1, <1>3, <1>4 DEF WillWrite, WritesWhatIsAsked
  <1> QED BY <1>2, <1>3, <1>5, WorkKeeps DEF WillWrite, SettingsInv, SettingsTypeOK

LEMMA WriteTemporaryKeeps ==
    ASSUME SettingsInv, WriteTemporary
    PROVE  SettingsInv'
  <1>1. /\ UNCHANGED <<file, outdated, storeQueue, content, relayDelay, replies>>
        /\ UNCHANGED <<windowVars, requests, crashes>>
        /\ storeQueue # <<>> /\ stage = "write"
    BY DEF WriteTemporary, UnchangedByStore
  <1>2. Current' = Current /\ Running' = Running
    BY <1>1 DEF Current, Running
  <1>3. content \in Settings
    BY <1>1, ContentTyped
  <1>4. CASE temporary' = Partial /\ stage' = stage
    BY <1>1, <1>2, <1>4, WorkKeeps DEF SettingsInv, SettingsTypeOK, WritesWhatIsAsked
  <1>5. CASE temporary' = content /\ stage' = "rename"
    BY <1>1, <1>2, <1>3, <1>5, WorkKeeps DEF SettingsInv, SettingsTypeOK, WritesWhatIsAsked
  <1> QED BY <1>4, <1>5 DEF WriteTemporary

LEMMA RenameTemporaryKeeps ==
    ASSUME SettingsInv, RenameTemporary
    PROVE  SettingsInv'
  <1>1. /\ storeQueue # <<>> /\ stage = "rename" /\ file' = temporary /\ outdated' = FALSE
        /\ temporary' = Missing /\ Answer(content)
        /\ UNCHANGED <<windowVars, requests, crashes>>
    BY DEF RenameTemporary, UnchangedByStore
  <1>2. content \in Settings /\ file' = content
    BY <1>1, ContentTyped DEF SettingsInv, WritesWhatIsAsked
  <1>3. Current' = content
    BY <1>2, SettingsApart DEF Current
  <1>4. \/ content # Failed /\ Running.kind = "delay"
        \/ overlapped \/ Current'.delay = Current.delay
    <2>1. CASE Running.kind = "load"
      BY <1>1, <1>3, <2>1, ContentTyped
    <2>2. CASE Running.kind = "save"
      <3>1. content = Running.settings /\ Running = storeQueue[1] /\ 1 \in DOMAIN storeQueue
        BY <1>1, <2>2, ContentTyped DEF Running, SettingsInv, SettingsTypeOK
      <3> QED BY <1>3, <2>2, <3>1 DEF SettingsInv, SavesAreAlone
    <2>3. CASE Running.kind = "delay"
      BY <1>2, <2>3, SettingsApart
    <2> QED BY <1>1, <2>1, <2>2, <2>3, ContentTyped
  <1> QED BY <1>1, <1>2, <1>3, <1>4, AnswerKeeps

LEMMA OperationFailsKeeps ==
    ASSUME SettingsInv, OperationFails
    PROVE  SettingsInv'
  <1> DEFINE result == IF Running.kind = "load" /\ stage # "start" THEN content ELSE Failed
  <1>1. /\ storeQueue # <<>> /\ temporary' = Missing /\ Answer(result)
        /\ UNCHANGED <<file, outdated>> /\ UNCHANGED <<windowVars, requests, crashes>>
    BY DEF OperationFails, UnchangedByStore
  <1>2. Current' = Current
    BY <1>1 DEF Current
  <1>3. result \in Settings \cup {Failed} /\ (result = Failed \/ result = Current')
    BY <1>2, ContentTyped
  <1> HIDE DEF result
  <1> QED BY <1>1, <1>2, <1>3, AnswerKeeps DEF SettingsInv, SettingsTypeOK

LEMMA CrashKeeps ==
    ASSUME SettingsInv, Crash
    PROVE  SettingsInv'
  <1> USE DEF Crash, Started
  <1>1. storeQueue' \in Seq(Operations) /\ replies' \in Seq(Outcomes)
    <2>1. [kind |-> "load", id |-> 0] \in Operations
      BY SettingsAssumption DEF Operations
    <2> QED BY <2>1
  <1>2. loading' \in BOOLEAN /\ overlapped' \in BOOLEAN /\ outdated' \in BOOLEAN
    BY DEF SettingsInv, SettingsTypeOK
  <1>3. requests' \in 0..MaxRequests /\ busy' \in 0..MaxRequests /\ crashes' \in 0..MaxCrashes
    BY SettingsAssumption DEF SettingsInv, SettingsTypeOK
  <1>4. SettingsTypeOK'
    BY <1>1, <1>2, <1>3, SettingsAssumption DEF SettingsInv, SettingsTypeOK
  <1>5. WritesWhatIsAsked' /\ LastIsCurrent' /\ DelayIsChosen'
    BY DEF WritesWhatIsAsked, LastIsCurrent, DelayIsChosen
  <1>6. SavesAreAlone'
    BY DEF SavesAreAlone
  <1> QED BY <1>4, <1>5, <1>6 DEF SettingsInv

LEMMA StopFreesKeeps ==
    ASSUME SettingsInv, StopFreesButtons \/ UNCHANGED settingsVars
    PROVE  SettingsInv'
  <1>1. /\ UNCHANGED <<fileVars, saved, loading, chosen, overlapped, relayDelay, replies,
                       requests, crashes>>
        /\ busy' \in 0..MaxRequests
    BY SettingsAssumption
       DEF StopFreesButtons, settingsVars, windowVars, SettingsInv, SettingsTypeOK
  <1>2. Current' = Current /\ Running' = Running
    BY <1>1 DEF Current, Running, fileVars
  <1>3. LastIsCurrent' /\ SavesAreAlone' /\ DelayIsChosen' /\ WritesWhatIsAsked'
    BY <1>1, <1>2 DEF SettingsInv, LastIsCurrent, SavesAreAlone, DelayIsChosen, Succeeded,
                ReportsDelay, WritesWhatIsAsked, fileVars
  <1> QED BY <1>1, <1>3 DEF SettingsInv, SettingsTypeOK, fileVars

LEMMA NextSettings ==
    ASSUME SettingsInv, [SettingsNext]_settingsVars
    PROVE  SettingsInv'
  BY PressesKeep, StopFreesKeeps, ReplyArrivesKeeps, ReadFileKeeps, BeginSaveKeeps,
     WriteTemporaryKeeps, RenameTemporaryKeeps, OperationFailsKeeps, CrashKeeps
     DEF SettingsNext

\* Whatever fails, crashes, overlaps or is answered late: the invariant of the
\* settings holds.
THEOREM SettingsInductive == SettingsSpec => []SettingsInv
  BY InitSettings, NextSettings, PTL DEF SettingsSpec

\* When nothing is under way, the window shows what the file holds, the relay client
\* plays with that delay, and the file is whole at every moment.
THEOREM SavedIsKept == SettingsSpec => []SettingsAreKept
  <1>1. ASSUME SettingsInv PROVE SettingsAreKept
    <2>1. file # Partial
      BY <1>1, SettingsApart DEF SettingsInv, SettingsTypeOK
    <2>2. ASSUME storeQueue = <<>>, replies = <<>>, saved # Unknown
          PROVE  /\ saved = Current /\ relayDelay = saved.delay
                 /\ ~overlapped => saved.delay = chosen.delay
      BY <1>1, <2>2 DEF SettingsInv, LastIsCurrent, DelayIsChosen
    <2> QED BY <2>1, <2>2 DEF SettingsAreKept, Current
  <1> QED BY <1>1, SettingsInductive, PTL

(***************************************************************************)
(* What a device is told.                                                  *)
(***************************************************************************)
LEMMA LargestTyped == Largest \in Nat
  BY DEF Largest

LEMMA DivisionMonotone ==
    ASSUME NEW a \in Int, NEW c \in Int, NEW b \in Nat \ {0}, a <= c
    PROVE  a \div b <= c \div b /\ a \div b \in Int
  <1>1. PICK q \in Int : q = a \div b /\ b * q <= a
    OBVIOUS
  <1>2. PICK r \in Int : r = c \div b /\ c < b * (r + 1)
    OBVIOUS
  <1>3. b * q < b * (r + 1)
    BY <1>1, <1>2
  <1>4. q < r + 1
    BY <1>3
  <1> QED BY <1>1, <1>2, <1>4

LEMMA DivisionScaled ==
    ASSUME NEW a \in Int, NEW b \in Nat \ {0}, NEW k \in Nat \ {0}
    PROVE  (k * a) \div (k * b) = a \div b
  OBVIOUS

\* A position and its number in a command: a larger one has no smaller number,
\* in whichever unit it is given.
LEMMA MagnitudeMonotone ==
    ASSUME NEW unit \in Nat \ {0}, NEW v \in Int, NEW w \in Int, v <= w
    PROVE  /\ Magnitude(v, unit) <= Magnitude(w, unit)
           /\ Magnitude(v, unit) \in Int /\ Magnitude(w, unit) \in Int
           /\ Magnitude(w, unit) <= Largest
  <1> DEFINE a == 2 * 10000 * v + unit
             c == 2 * 10000 * w + unit
             b == 2 * unit
  <1>1. a \in Int /\ c \in Int /\ b \in Nat \ {0} /\ a <= c
    OBVIOUS
  <1>2. a \div b <= c \div b /\ a \div b \in Int /\ c \div b \in Int
    <2> HIDE DEF a, b, c
    <2> QED BY <1>1, DivisionMonotone
  <1> QED BY <1>2, LargestTyped DEF Magnitude, Least

LEMMA MagnitudeScaled ==
    ASSUME NEW unit \in Nat \ {0}, NEW k \in Nat \ {0}, NEW v \in Int
    PROVE  Magnitude(k * v, k * unit) = Magnitude(v, unit)
  <1> DEFINE a == 2 * 10000 * v + unit
             b == 2 * unit
  <1>1. a \in Int /\ b \in Nat \ {0}
    OBVIOUS
  <1>2. 2 * 10000 * (k * v) + k * unit = k * a /\ 2 * (k * unit) = k * b
    OBVIOUS
  <1>3. (k * a) \div (k * b) = a \div b
    <2> HIDE DEF a, b
    <2> QED BY <1>1, DivisionScaled
  <1> QED BY <1>2, <1>3 DEF Magnitude

\* A share of a range is within the range.
LEMMA WithinRange ==
    ASSUME NEW low \in Nat, NEW high \in Nat, low <= high, NEW unit \in Nat, NEW at \in 0..unit
    PROVE  /\ low * unit + at * (high - low) \in Nat
           /\ low * unit <= low * unit + at * (high - low)
           /\ low * unit + at * (high - low) <= high * unit
  <1>1. PICK d \in Nat : d = high - low
    OBVIOUS
  <1>2. at * d >= 0 /\ at * d \in Nat
    OBVIOUS
  <1>3. PICK rest \in Nat : rest = unit - at
    OBVIOUS
  <1>4. rest * d >= 0
    OBVIOUS
  <1>5. at * d + rest * d = unit * d
    BY <1>3
  <1>6. unit * d = high * unit - low * unit
    BY <1>1
  <1> QED BY <1>1, <1>2, <1>4, <1>5, <1>6

\* What the settings of the device make of a position is within its stroke.
LEMMA CommandWithin ==
    ASSUME profile \in Profile, ValidProfile(profile),
           NEW frame \in QueuedFrames, frame.position >= 0
    PROVE  /\ Command(frame).magnitude >= Magnitude(profile.min, Full)
           /\ Command(frame).magnitude <= Magnitude(profile.max, Full)
           /\ Command(frame).magnitude \in Int
           /\ Command(frame).magnitude >= 0 /\ Command(frame).magnitude <= Largest
  <1>1. Full \in Nat \ {0}
    BY RangeAssumption
  <1>2. PICK min \in Nat, max \in Nat :
           min = profile.min /\ max = profile.max /\ min < max
    BY <1>1 DEF Profile, Percents, ValidProfile
  <1>3. PICK square \in Nat \ {0} : square = Full * Full /\ frame.position \in 0..square
    BY <1>1 DEF QueuedFrames
  <1>4. PICK at \in 0..square :
           at = IF profile.invert THEN Full * Full - frame.position ELSE frame.position
    BY <1>3
  <1>5. PICK v \in Nat : v = min * square + at * (max - min)
    BY <1>2, WithinRange
  <1>6. min * square <= v /\ v <= max * square
    <2>1. /\ min * square <= min * square + at * (max - min)
          /\ min * square + at * (max - min) <= max * square
      BY <1>2, WithinRange
    <2> QED BY <1>5, <2>1
  <1>7. Command(frame).magnitude = Magnitude(v, square * Full)
    <2>1. Profiled(frame.position) = v
      <3>1. Profiled(frame.position) = profile.min * Full * Full + at * (profile.max - profile.min)
        BY <1>4 DEF Profiled
      <3>2. min * square = min * Full * Full
        BY <1>1, <1>3
      <3> QED BY <1>2, <1>5, <3>1, <3>2
    <2>2. Full * Full * Full = square * Full
      BY <1>3
    <2> QED BY <2>1, <2>2 DEF Command
  <1>8. PICK unit \in Nat \ {0} : unit = square * Full
    BY <1>1
  <1>9. PICK low \in Nat, high \in Nat : low = square * min /\ high = square * max
    BY <1>2
  <1>10. /\ Magnitude(low, unit) = Magnitude(min, Full)
         /\ Magnitude(high, unit) = Magnitude(max, Full)
    BY <1>1, <1>2, <1>8, <1>9, MagnitudeScaled
  <1>11. low <= v /\ v <= high /\ 0 <= v
    BY <1>6, <1>9
  <1>12. /\ Magnitude(low, unit) <= Magnitude(v, unit)
         /\ Magnitude(v, unit) <= Magnitude(high, unit)
         /\ Magnitude(0, unit) <= Magnitude(v, unit)
         /\ Magnitude(v, unit) \in Int /\ Magnitude(v, unit) <= Largest
    BY <1>11, MagnitudeMonotone
  <1>13. Magnitude(0, unit) = 0
    <2>1. unit \div (2 * unit) = 0
      OBVIOUS
    <2> QED BY <2>1, LargestTyped DEF Magnitude, Least
  <1>14. Command(frame).magnitude = Magnitude(v, unit)
    BY <1>7, <1>8
  <1>15. Magnitude(profile.min, Full) <= Magnitude(v, unit) /\ Magnitude(v, unit) <= Magnitude(profile.max, Full)
    BY <1>2, <1>10, <1>12
  <1>16. Magnitude(v, unit) \in Int /\ Magnitude(v, unit) >= 0 /\ Magnitude(v, unit) <= Largest
    BY <1>12, <1>13
  <1> QED BY <1>14, <1>15, <1>16

LEMMA ClampedWithin ==
    ASSUME NEW v \in Int, NEW low \in Int, NEW high \in Int, low <= high
    PROVE  Clamped(v, low, high) \in low..high
  BY DEF Clamped, Greatest, Least

\* Whichever handle of a range is moved, it keeps a width and holds the stop.
LEMMA UpdatedRange ==
    ASSUME NEW min \in Percents, NEW max \in Percents, NEW stop \in Percents, min < max,
           NEW handle \in {"min", "max"}, NEW requested \in -1..Full + 1
    PROVE  LET next == UpdateMotionRange([min |-> min, max |-> max, stop |-> stop], handle, requested)
           IN  /\ next.min \in Percents /\ next.max \in Percents /\ next.stop \in Percents
               /\ next.min < next.max /\ next.min <= next.stop /\ next.stop <= next.max
  <1> DEFINE r    == [min |-> min, max |-> max, stop |-> stop]
             next == UpdateMotionRange(r, handle, requested)
  <1>1. Full \in Nat \ {0}
    BY RangeAssumption
  <1>2. min \in 0..Full /\ max \in 0..Full /\ stop \in 0..Full
    BY DEF Percents
  <1>3. PICK value \in 0..Full : value = Clamped(requested, 0, Full)
    <2>1. Clamped(requested, 0, Full) \in 0..Full
      BY <1>1, ClampedWithin
    <2> QED BY <2>1
  <1>4. PICK newMin \in Int : newMin = IF handle = "min" THEN Least(value, max - 1) ELSE min
    BY <1>2, <1>3 DEF Least
  <1>5. newMin \in 0..Full /\ newMin < max
    <2>1. CASE handle = "min"
      <3>1. newMin = Least(value, max - 1)
        BY <1>4, <2>1
      <3> QED BY <1>1, <1>2, <1>3, <3>1 DEF Least
    <2>2. CASE handle = "max"
      BY <1>2, <1>4, <2>2
    <2> QED BY <2>1, <2>2
  <1>6. PICK newMax \in Int : newMax = IF handle = "max" THEN Greatest(value, newMin + 1) ELSE max
    BY <1>2, <1>3, <1>5 DEF Greatest
  <1>7. newMax \in 0..Full /\ newMin < newMax
    BY <1>1, <1>2, <1>3, <1>5, <1>6 DEF Greatest
  <1>8. next = [min |-> newMin, max |-> newMax, stop |-> Clamped(stop, newMin, newMax)]
    <2> DEFINE wide == CASE r.min < r.max                   -> r
                         [] r.min >= r.max /\ r.min = Full  -> [r EXCEPT !.min = Full - 1, !.max = Full]
                         [] r.min >= r.max /\ r.min # Full  -> [r EXCEPT !.max = r.min + 1]
    <2>1. wide = r
      BY <1>2
    <2>2. r.min = min /\ r.max = max /\ r.stop = stop
      OBVIOUS
    <2> HIDE DEF r
    <2>3. newMin = IF handle = "min" THEN Least(value, wide.max - 1) ELSE wide.min
      BY <1>4, <2>1, <2>2
    <2>4. newMax = IF handle = "max" THEN Greatest(value, newMin + 1) ELSE wide.max
      BY <1>6, <2>1, <2>2
    <2>5. next = [min |-> newMin, max |-> newMax, stop |-> Clamped(r.stop, newMin, newMax)]
      BY <1>3, <2>3, <2>4 DEF UpdateMotionRange
    <2> QED BY <2>2, <2>5
  <1>9. PICK held \in 0..Full : held = Clamped(stop, newMin, newMax) /\ newMin <= held /\ held <= newMax
    <2>1. Clamped(stop, newMin, newMax) \in newMin..newMax
      BY <1>2, <1>5, <1>7, ClampedWithin
    <2>2. PICK c \in newMin..newMax : c = Clamped(stop, newMin, newMax)
      BY <2>1
    <2>3. c \in 0..Full /\ newMin <= c /\ c <= newMax
      BY <1>1, <1>5, <1>7
    <2> QED BY <2>2, <2>3
  <1> HIDE DEF next
  <1>10. /\ next.min \in Percents /\ next.max \in Percents /\ next.stop \in Percents
         /\ next.min < next.max /\ next.min <= next.stop /\ next.stop <= next.max
    BY <1>5, <1>7, <1>8, <1>9 DEF Percents
  <1> QED BY <1>10 DEF next

\* Settings that are put together from a range are valid.
LEMMA PatchedValid ==
    ASSUME NEW p \in Profile, NEW min \in Percents, NEW max \in Percents, NEW stop \in Percents,
           min < max
    PROVE  Patched(p, min, max, stop) \in Profile /\ ValidProfile(Patched(p, min, max, stop))
  <1>1. Full \in Nat \ {0} /\ min \in 0..Full /\ max \in 0..Full /\ stop \in 0..Full
    BY RangeAssumption DEF Percents
  <1>2. Least(min, max) = min /\ Greatest(min, max) = max
    BY <1>1 DEF Least, Greatest
  <1>3. PICK held \in 0..Full : held = Clamped(stop, min, max) /\ min <= held /\ held <= max
    <2>1. Clamped(stop, min, max) \in min..max
      BY <1>1, ClampedWithin
    <2> QED BY <1>1, <2>1
  <1>4. Patched(p, min, max, stop) = [p EXCEPT !.min = min, !.max = max, !.stop = held]
    BY <1>2, <1>3 DEF Patched
  <1>5. p.min \in Percents /\ p.max \in Percents /\ p.stop \in Percents /\ p.invert \in BOOLEAN
    BY DEF Profile
  <1>6. Patched(p, min, max, stop) = [min |-> min, max |-> max, stop |-> held, invert |-> p.invert]
    BY <1>4 DEF Profile
  <1> QED BY <1>1, <1>3, <1>5, <1>6 DEF Profile, ValidProfile, Percents

LEMMA NoFrameTyped ==
    /\ NoFrame \in QueuedFrames
    /\ NoCommand \in DeviceCommands
  <1>1. Full \in Nat /\ 0..Full \subseteq Nat
    BY RangeAssumption
  <1>2. -1 \in -1..Full * Full
    BY <1>1
  <1> QED BY <1>1, <1>2, LargestTyped DEF NoFrame, NoCommand, Percents, QueuedFrames, DeviceCommands

LEMMA InitRange == RangeInit => RangeInv
  <1> SUFFICES ASSUME RangeInit PROVE RangeInv
    OBVIOUS
  <1>1. Full \in Nat /\ Full > 1 /\ Full \in Limits /\ 0..Full \subseteq Nat
    BY RangeAssumption
  <1>2. FullStroke \in Profile /\ ValidProfile(FullStroke)
    BY <1>1 DEF FullStroke, Profile, Percents, ValidProfile
  <1>3. DefaultProtection \in Protection /\ ValidProtection(DefaultProtection)
    BY <1>1 DEF DefaultProtection, Protection, Percents, ValidProtection
  <1>4. settingsPending \in BOOLEAN /\ connected \in BOOLEAN
    BY DEF RangeInit
  <1> QED BY <1>2, <1>3, <1>4, NoFrameTyped
          DEF RangeInit, RangeInv, RangeTypeOK, CommandsInRange

\* what the window changes, no device being told anything
LEMMA WindowKeeps ==
    ASSUME RangeInv, shown' \in Profile, ValidProfile(shown'), InWindow
    PROVE  RangeInv'
  <1>1. NoCommand \in DeviceCommands
    BY NoFrameTyped
  <1>2. UNCHANGED <<settingsPending, connected, profile, protection, queued>> /\ command' = NoCommand
    BY DEF InWindow
  <1>3. settingsPending' \in BOOLEAN /\ connected' \in BOOLEAN
    BY <1>2 DEF RangeInv, RangeTypeOK
  <1>4. RangeTypeOK'
    <2>1. profile' \in Profile /\ protection' \in Protection
      BY <1>2 DEF RangeInv, RangeTypeOK
    <2>2. queued' \in QueuedFrames
      BY <1>2 DEF RangeInv, RangeTypeOK
    <2>3. command' \in DeviceCommands
      BY <1>1, <1>2
    <2> QED BY <1>3, <2>1, <2>2, <2>3 DEF RangeTypeOK
  <1>6. CommandsInRange'
    BY <1>2 DEF CommandsInRange
  <1>5. ValidProfile(profile)' /\ ValidProtection(protection)'
    BY <1>2 DEF RangeInv, ValidProfile, ValidProtection
  <1> QED BY <1>2, <1>4, <1>5, <1>6 DEF RangeInv

LEMMA WindowActionsKeep ==
    ASSUME RangeInv,
           \/ \E handle \in {"min", "max"}, requested \in -1..Full + 1 : ChangeRange(handle, requested)
           \/ ChangeStop \/ ChangeInversion
    PROVE  RangeInv'
  <1>1. /\ Full \in Nat \ {0} /\ shown \in Profile /\ ValidProfile(shown)
        /\ shown.min \in Percents /\ shown.max \in Percents /\ shown.stop \in Percents
        /\ shown.min < shown.max
    BY RangeAssumption DEF RangeInv, RangeTypeOK, CommandsInRange, ValidProfile, Profile
  <1>2. ASSUME NEW handle \in {"min", "max"}, NEW requested \in -1..Full + 1,
               ChangeRange(handle, requested)
        PROVE  RangeInv'
    <2>1. PICK stop \in Percents : stop = Clamped(shown.stop, shown.min, shown.max)
      <3>1. Clamped(shown.stop, shown.min, shown.max) \in shown.min..shown.max
        <4>1. shown.min \in Int /\ shown.max \in Int /\ shown.stop \in Int /\ shown.min <= shown.max
          BY <1>1 DEF Percents
        <4> QED BY <4>1, ClampedWithin
      <3> QED BY <1>1, <3>1 DEF Percents
    <2> DEFINE next == UpdateMotionRange([min |-> shown.min, max |-> shown.max, stop |-> stop],
                                         handle, requested)
    <2>2. /\ next.min \in Percents /\ next.max \in Percents /\ next.stop \in Percents
          /\ next.min < next.max
      BY <1>1, UpdatedRange
    <2>3. shown' = Patched(shown, next.min, next.max, next.stop) /\ InWindow
      BY <1>2, <2>1 DEF ChangeRange
    <2> HIDE DEF next
    <2> QED BY <1>1, <2>2, <2>3, PatchedValid, WindowKeeps
  <1>3. CASE ChangeStop
    <2>1. PICK stop \in shown.min..shown.max : shown' = Patched(shown, shown.min, shown.max, stop)
      BY <1>3 DEF ChangeStop
    <2>2. stop \in Percents
      BY <1>1 DEF Percents
    <2> QED BY <1>1, <1>3, <2>1, <2>2, PatchedValid, WindowKeeps DEF ChangeStop
  <1>4. CASE ChangeInversion
    <2>1. shown' = [shown EXCEPT !.invert = ~@] /\ InWindow
      BY <1>4 DEF ChangeInversion
    <2>2. (~shown.invert) \in BOOLEAN
      OBVIOUS
    <2>3. shown' \in Profile /\ ValidProfile(shown')
      BY <1>1, <2>1, <2>2 DEF Profile, ValidProfile
    <2> QED BY <2>1, <2>3, WindowKeeps
  <1> QED BY <1>2, <1>3, <1>4

\* Settings, protections and frames that are set up while nothing is told.
LEMMA QuietKeeps ==
    ASSUME shown' \in Profile, profile' \in Profile, protection' \in Protection,
           queued' \in QueuedFrames,
           settingsPending' \in BOOLEAN, connected' \in BOOLEAN, command' = NoCommand,
           ValidProfile(shown'), ValidProfile(profile'), ValidProtection(protection'),
           queued' # NoFrame => queued'.position >= 0 /\ queued'.intensity <= queued'.limit
    PROVE  RangeInv'
  <1>1. NoCommand \in DeviceCommands
    BY NoFrameTyped
  <1>2. RangeTypeOK'
    BY <1>1 DEF RangeTypeOK
  <1> QED BY <1>2 DEF RangeInv, CommandsInRange

\* A frame that is protected is within the range and the limit.
LEMMA ProtectedWithin ==
    ASSUME RangeInv, NEW position \in Percents, NEW intensity \in Percents
    PROVE  /\ Protected(position, intensity) \in
                  QueuedFrames
           /\ Protected(position, intensity).position >= 0
           /\ Protected(position, intensity).intensity <= Protected(position, intensity).limit
  <1>1. Full \in Nat \ {0} /\ position \in 0..Full /\ intensity \in 0..Full
    BY RangeAssumption DEF Percents
  <1>2. PICK low \in 0..Full, high \in 0..Full, limit \in 0..Full :
           low = protection.low /\ high = protection.high /\ limit = protection.limit /\ low < high
    <2>1. /\ protection.low \in 0..Full /\ protection.high \in 0..Full
          /\ protection.limit \in Limits /\ protection.low < protection.high
      BY DEF RangeInv, RangeTypeOK, Protection, Percents, ValidProtection
    <2>2. protection.limit \in 0..Full
      BY <2>1, RangeAssumption
    <2> QED BY <2>1, <2>2
  <1>3. PICK share \in Nat : share = low * Full + position * (high - low) /\ share <= high * Full
    BY <1>1, <1>2, WithinRange
  <1>4. high * Full <= Full * Full
    <2>1. PICK rest \in Nat : rest = Full - high
      BY <1>1
    <2>2. rest * Full >= 0 /\ rest * Full = Full * Full - high * Full
      BY <1>1, <2>1
    <2> QED BY <1>1, <2>2
  <1>5. PICK square \in Nat : square = Full * Full
    BY <1>1
  <1>6. share \in 0..square /\ share \in -1..square
    <2>1. high * Full \in Int
      BY <1>1
    <2> QED BY <1>3, <1>4, <1>5, <2>1
  <1>7. PICK held \in 0..Full : held = Least(intensity, limit) /\ held <= limit
    <2>1. Least(intensity, limit) \in 0..Full /\ Least(intensity, limit) <= limit
      BY <1>1, <1>2 DEF Least
    <2> QED BY <2>1
  <1>8. Protected(position, intensity) = [limit |-> limit, intensity |-> held, position |-> share]
    BY <1>2, <1>3, <1>7 DEF Protected
  <1> QED BY <1>5, <1>6, <1>7, <1>8 DEF Percents, QueuedFrames

\* a frame is written, from those that wait or a step of the test pattern
LEMMA OutputKeeps ==
    ASSUME RangeInv,
           NEW frame \in QueuedFrames,
           frame.position >= 0, frame.intensity <= frame.limit,
           command' = Command(frame), Output, UNCHANGED connected
    PROVE  RangeInv'
  <1>1. UNCHANGED <<settingsPending, connected, shown, profile, protection>> /\ queued' = NoFrame
    BY DEF Output
  <1>2. /\ Command(frame).magnitude >= Magnitude(profile.min, Full)
        /\ Command(frame).magnitude <= Magnitude(profile.max, Full)
        /\ Command(frame).magnitude \in Int
        /\ Command(frame).magnitude >= 0 /\ Command(frame).magnitude <= Largest
    BY CommandWithin DEF RangeInv, RangeTypeOK
  <1>3. PICK magnitude \in -1..Largest : magnitude = Command(frame).magnitude
    BY <1>2, LargestTyped
  <1>4. command' = [magnitude |-> magnitude, intensity |-> frame.intensity, limit |-> frame.limit]
    BY <1>3 DEF Command
  <1>5. command' \in DeviceCommands
    BY <1>4, LargestTyped DEF DeviceCommands, QueuedFrames
  <1>6. queued' \in QueuedFrames
    BY <1>1, NoFrameTyped
  <1>7. settingsPending' \in BOOLEAN /\ connected' \in BOOLEAN
    BY <1>1 DEF RangeInv, RangeTypeOK
  <1>8. RangeTypeOK'
    <2>1. shown' \in Profile /\ profile' \in Profile /\ protection' \in Protection
      BY <1>1 DEF RangeInv, RangeTypeOK
    <2> QED BY <1>5, <1>6, <1>7, <2>1 DEF RangeTypeOK
  <1>9. CommandsInRange'
    <2>1. command'.magnitude = magnitude /\ command'.intensity <= command'.limit
      BY <1>4
    <2> QED BY <1>1, <1>2, <1>3, <2>1 DEF RangeInv, CommandsInRange
  <1> QED BY <1>1, <1>8, <1>9 DEF RangeInv

LEMMA StopKeeps ==
    ASSUME RangeInv, WriteStopPayload
    PROVE  RangeInv'
  <1>1. /\ UNCHANGED <<settingsPending, shown, profile, protection>>
        /\ queued' = NoFrame /\ command' = StopCommand
    BY DEF WriteStopPayload, Output
  <1>2. connected' \in BOOLEAN /\ settingsPending' \in BOOLEAN
    BY <1>1 DEF WriteStopPayload, RangeInv, RangeTypeOK
  <1>3. PICK min \in Nat, max \in Nat, stop \in Nat :
           /\ min = profile.min /\ max = profile.max /\ stop = profile.stop
           /\ min <= stop /\ stop <= max
    BY RangeAssumption DEF RangeInv, RangeTypeOK, Profile, Percents, ValidProfile
  <1>4. Full \in Nat \ {0}
    BY RangeAssumption
  <1>5. /\ Magnitude(min, Full) <= Magnitude(stop, Full)
        /\ Magnitude(stop, Full) <= Magnitude(max, Full)
        /\ Magnitude(0, Full) <= Magnitude(stop, Full)
        /\ Magnitude(stop, Full) \in Int /\ Magnitude(stop, Full) <= Largest
    BY <1>3, <1>4, MagnitudeMonotone
  <1>6. Magnitude(0, Full) = 0
    <2>1. Full \div (2 * Full) = 0
      BY <1>4
    <2> QED BY <1>4, <2>1, LargestTyped DEF Magnitude, Least
  <1>7. PICK magnitude \in -1..Largest : magnitude = Magnitude(stop, Full)
    BY <1>5, <1>6, LargestTyped
  <1>8. command' = [magnitude |-> magnitude, intensity |-> 0, limit |-> 0]
    BY <1>1, <1>3, <1>7 DEF StopCommand
  <1>9. command' \in DeviceCommands
    BY <1>4, <1>8 DEF DeviceCommands, Percents
  <1>10. RangeTypeOK'
    <2>1. shown' \in Profile /\ profile' \in Profile /\ protection' \in Protection
      BY <1>1 DEF RangeInv, RangeTypeOK
    <2> QED BY <1>1, <1>2, <1>9, <2>1, NoFrameTyped DEF RangeTypeOK
  <1>11. CommandsInRange'
    <2>1. /\ command'.magnitude = Magnitude(stop, Full)
          /\ command'.intensity = 0 /\ command'.limit = 0
      BY <1>7, <1>8
    <2> QED BY <1>1, <1>3, <1>5, <2>1 DEF RangeInv, CommandsInRange
  <1> QED BY <1>1, <1>10, <1>11 DEF RangeInv

LEMMA NextRange ==
    ASSUME RangeInv, [RangeNext]_rangeVars
    PROVE  RangeInv'
  <1>q. /\ shown \in Profile /\ profile \in Profile /\ protection \in Protection
        /\ queued \in QueuedFrames
        /\ ValidProfile(shown) /\ ValidProfile(profile) /\ ValidProtection(protection)
        /\ queued # NoFrame => queued.position >= 0 /\ queued.intensity <= queued.limit
    BY DEF RangeInv, RangeTypeOK, CommandsInRange
  <1>1. CASE LoadSettings
    <2>1. UNCHANGED <<connected, profile, queued>> /\ command' = NoCommand /\ settingsPending' \in BOOLEAN
      BY <1>1 DEF LoadSettings
    <2>2. shown' \in Profile /\ ValidProfile(shown')
      BY <1>1 DEF LoadSettings
    <2>3. protection' \in Protection /\ ValidProtection(protection')
      <3>1. protection' \in {protection, DefaultProtection}
        BY <1>1 DEF LoadSettings
      <3>2. DefaultProtection \in Protection /\ ValidProtection(DefaultProtection)
        BY RangeAssumption DEF DefaultProtection, Protection, Percents, ValidProtection
      <3> QED BY <3>1, <3>2 DEF RangeInv, RangeTypeOK
    <2>4. connected' \in BOOLEAN
      BY <2>1 DEF RangeInv, RangeTypeOK
    <2> QED BY <2>1, <2>2, <2>3, <2>4, <1>q, QuietKeeps
  <1>2. ASSUME NEW guard \in Protection, SetProtection(guard) PROVE RangeInv'
    <2>1. /\ UNCHANGED <<shown, settingsPending, connected, profile, queued>>
          /\ command' = NoCommand /\ protection' = guard /\ ValidProtection(guard)
      BY <1>2 DEF SetProtection
    <2>2. settingsPending' \in BOOLEAN /\ connected' \in BOOLEAN
      BY <2>1 DEF RangeInv, RangeTypeOK
    <2> QED BY <2>1, <2>2, <1>q, QuietKeeps
  <1>3. CASE Connect
    <2>1. /\ UNCHANGED <<shown, settingsPending, protection>>
          /\ command' = NoCommand /\ queued' = NoFrame /\ connected' = TRUE
          /\ profile' = NormalizedProfile(shown) /\ ValidProfile(shown) /\ shown \in Profile
      BY <1>3 DEF Connect, RangeInv, RangeTypeOK
    <2>2. /\ Full \in Nat \ {0} /\ shown.min \in 0..Full /\ shown.max \in 0..Full /\ shown.stop \in 0..Full
          /\ shown.min < shown.max
      BY <2>1, RangeAssumption DEF Profile, Percents, ValidProfile
    <2>3. NormalizedProfile(shown) = Patched(shown, shown.min, shown.max, shown.stop)
      BY <2>1 DEF NormalizedProfile, Patched, Profile
    <2>4. profile' \in Profile /\ ValidProfile(profile')
      BY <2>1, <2>2, <2>3, PatchedValid DEF Percents
    <2>5. settingsPending' \in BOOLEAN /\ connected' \in BOOLEAN
      BY <2>1 DEF RangeInv, RangeTypeOK
    <2> QED BY <2>1, <2>4, <2>5, <1>q, NoFrameTyped, QuietKeeps
  <1>4. ASSUME NEW position \in Percents, NEW intensity \in {0, Full},
               QueueMotion(position, intensity) \/ TestPosition(position, intensity)
        PROVE  RangeInv'
    <2>1. intensity \in Percents
      BY RangeAssumption DEF Percents
    <2>2. PICK frame \in QueuedFrames :
             /\ frame = Protected(position, intensity)
             /\ frame.position >= 0 /\ frame.intensity <= frame.limit
      BY <2>1, ProtectedWithin
    <2>3. CASE QueueMotion(position, intensity)
      <3>1. /\ UNCHANGED <<shown, settingsPending, connected, profile, protection>>
            /\ command' = NoCommand /\ queued' = frame
        BY <2>2, <2>3 DEF QueueMotion
      <3>2. settingsPending' \in BOOLEAN /\ connected' \in BOOLEAN
        BY <3>1 DEF RangeInv, RangeTypeOK
      <3> QED BY <2>2, <3>1, <3>2, <1>q, QuietKeeps
    <2>4. CASE TestPosition(position, intensity)
      BY <2>2, <2>4, OutputKeeps DEF TestPosition
    <2> QED BY <1>4, <2>3, <2>4
  <1>5. CASE FlushLatest
    <2>1. /\ queued \in QueuedFrames
          /\ queued # NoFrame /\ queued.position >= 0 /\ queued.intensity <= queued.limit
          /\ command' = Command(queued) /\ Output /\ UNCHANGED connected
      BY <1>5 DEF FlushLatest, RangeInv, RangeTypeOK
    <2> QED BY <2>1, OutputKeeps
  <1>6. CASE UNCHANGED rangeVars
    BY <1>6 DEF rangeVars, RangeInv, RangeTypeOK, CommandsInRange
  <1> QED BY <1>1, <1>2, <1>3, <1>4, <1>5, <1>6, WindowActionsKeep, StopKeeps DEF RangeNext

\* Whatever is typed, dragged, loaded, applied and connected: the invariant of the
\* range holds, for every resolution of the settings and every set of limits.
THEOREM RangeInductive == RangeSpec => []RangeInv
  BY InitRange, NextRange, PTL DEF RangeSpec

\* No command leaves the stroke the device was connected with, or the limit its
\* frame was accepted under.
THEOREM CommandsStayInRange == RangeSpec => []CommandsInRange
  <1>1. RangeInv => CommandsInRange
    BY DEF RangeInv
  <1> QED BY <1>1, RangeInductive, PTL

(***************************************************************************)
(* The invites.                                                            *)
(***************************************************************************)
LEMMA NothingApart == Nothing \notin Rooms /\ Nothing \notin Payload
  <1>1. \A x \in Rooms \cup Payload : "name" \in DOMAIN x
    BY DEF Rooms, Payload
  <1>2. "name" \notin DOMAIN Nothing
    BY DEF Nothing
  <1> QED BY <1>1, <1>2

LEMMA TrimmedTyped ==
    /\ \A text \in Names : Trimmed(text) \in Names /\ Trimmed(Trimmed(text)) = Trimmed(text)
                           /\ Trimmed(text).length = text.length
    /\ \A text \in Passwords : Trimmed(text) \in Passwords /\ Trimmed(Trimmed(text)) = Trimmed(text)
                               /\ Trimmed(text).length = text.length
    /\ Empty \in Passwords /\ Trimmed(Empty) = Empty
  <1>1. ASSUME NEW lengths, NEW text \in Text(lengths)
        PROVE  /\ Trimmed(text) \in Text(lengths) /\ Trimmed(Trimmed(text)) = Trimmed(text)
               /\ Trimmed(text).length = text.length
    BY DEF Trimmed, Text
  <1>2. Empty \in Passwords
    <2>1. 0 \in PasswordLengths \cup {0} /\ FALSE \in BOOLEAN
      OBVIOUS
    <2> QED BY <2>1 DEF Passwords, Text, Empty
  <1>3. Trimmed(Empty) = Empty
    <2>1. PICK text : text = Empty
      OBVIOUS
    <2>2. text.padded = FALSE /\ text \in [length : {0}, padded : {FALSE}]
      BY <2>1 DEF Empty
    <2>3. [text EXCEPT !.padded = FALSE] = text
      BY <2>2
    <2> QED BY <2>1, <2>3 DEF Trimmed
  <1> QED BY <1>1, <1>2, <1>3 DEF Names, Passwords

\* what the dialogs make of a form is a form
LEMMA EditedTyped ==
    ASSUME NEW form \in Forms, NEW edited \in Edited(form)
    PROVE  edited \in Forms
  BY TrimmedTyped DEF Edited, Forms, WithMode, Modes

LEMMA PublicUrlWorks ==
    /\ Normalized(PublicUrl) \in Urls \cup {Normalized(PublicUrl)}
    /\ Normalized(Normalized(PublicUrl)) = Normalized(PublicUrl)
    /\ IsHttp(Normalized(PublicUrl)) /\ MayUse(Normalized(PublicUrl))
  BY InviteAssumption DEF Normalized, IsHttp, MayUse

LEMMA InitInvites == InvitesInit => InvitesInv
  <1> SUFFICES ASSUME InvitesInit PROVE InvitesInv
    OBVIOUS
  <1>1. hostForm \in Forms /\ guestForm \in Forms
    BY TrimmedTyped DEF InvitesInit, NewForm, Forms, Modes
  <1> QED BY <1>1 DEF InvitesInit, InvitesInv, InvitesTypeOK

LEMMA CreateInvitedRoomKeeps ==
    ASSUME InvitesInv, CreateInvitedRoom
    PROVE  InvitesInv'
  <1> DEFINE name     == Trimmed(hostForm.name)
             password == SentPassword(hostForm)
             room     == [name |-> name, password |-> password, mode |-> hostForm.mode]
             payload  == [name |-> name, password |-> password, mode |-> hostForm.mode,
                          url |-> PublicUrl]
  <1>1. /\ hostForm.name \in Names /\ hostForm.password \in Passwords /\ hostForm.mode \in Modes
        /\ name \in Names /\ Trimmed(name) = name
    BY TrimmedTyped DEF InvitesInv, InvitesTypeOK, Forms
  <1>2. password \in Passwords /\ (hostForm.mode = "open" => password = Empty)
        /\ (password = Empty \/ password = Trimmed(password))
    BY <1>1, TrimmedTyped DEF SentPassword
  <1>3. /\ MainTakes(name, password, Normalized(hostForm.url))
        /\ registered' = room /\ shownInvite' = payload
        /\ UNCHANGED <<hostForm, guestForm, code, applied, joined>>
    BY DEF CreateInvitedRoom
  <1>4. room \in Rooms /\ payload \in Payload
    BY <1>1, <1>2 DEF Rooms, Payload
  <1>5. name.length \in 3..64 /\ (password # Empty => password.length \in 1..128)
    BY <1>1, <1>2, <1>3 DEF MainTakes, IsShort
  <1>6. payload \in HostedInvites
    BY <1>1, <1>2, <1>4, <1>5 DEF HostedInvites
  <1> HIDE DEF room, payload
  <1> QED BY <1>3, <1>4, <1>6 DEF InvitesInv, InvitesTypeOK

LEMMA ApplyInviteKeeps ==
    ASSUME InvitesInv, ApplyInvite
    PROVE  InvitesInv'
  <1> DEFINE url    == Normalized(PublicUrl)
             filled == [guestForm EXCEPT !.url = url, !.name = code.name,
                                         !.password = IF code.mode = "request" THEN code.password
                                                      ELSE Empty]
  <1>1. /\ code \in HostedInvites /\ code \in Payload
        /\ code.name \in Names /\ code.password \in Passwords /\ code.mode \in Modes
        /\ code.url = PublicUrl /\ Trimmed(code.name) = code.name
        /\ code.mode = "open" => code.password = Empty
    BY DEF ApplyInvite, InvitesInv, HostedInvites, Payload
  <1>2. /\ guestForm' = WithMode(filled, code.mode)
        /\ applied' = code /\ joined' = "none"
        /\ UNCHANGED <<hostForm, registered, shownInvite, code>>
    BY <1>1 DEF ApplyInvite
  <1>3. guestForm \in Forms
    BY DEF InvitesInv, InvitesTypeOK
  <1>4. guestForm' = [name |-> code.name, password |-> code.password, mode |-> code.mode, url |-> url]
    BY <1>1, <1>2, <1>3 DEF WithMode, Forms, Modes
  <1>5. guestForm' \in Forms /\ FilledFrom(guestForm', code)
    BY <1>1, <1>4, PublicUrlWorks DEF Forms, FilledFrom
  <1> HIDE DEF filled
  <1> QED BY <1>1, <1>2, <1>5 DEF InvitesInv, InvitesTypeOK

LEMMA NextInvites ==
    ASSUME InvitesInv, [InvitesNext]_inviteVars
    PROVE  InvitesInv'
  <1> USE DEF InvitesInv, InvitesTypeOK
  <1>1. CASE HostEdits
    BY <1>1, EditedTyped DEF HostEdits
  <1>2. CASE HostLeaves \/ RoomCloses \/ PasteCode
    BY <1>2 DEF HostLeaves, RoomCloses, PasteCode
  <1>3. CASE GuestEdits
    BY <1>3, EditedTyped DEF GuestEdits
  <1>4. CASE OpenLiveRoom
    BY <1>4, TrimmedTyped DEF OpenLiveRoom, Rooms, Forms
  <1>5. CASE JoinRoom
    BY <1>5 DEF JoinRoom
  <1>6. CASE UNCHANGED inviteVars
    BY <1>6 DEF inviteVars
  <1> QED BY <1>1, <1>2, <1>3, <1>4, <1>5, <1>6, CreateInvitedRoomKeeps, ApplyInviteKeeps
          DEF InvitesNext

\* Whatever is typed, copied, applied and opened: the invariant of the invites holds.
THEOREM InvitesInductive == InvitesSpec => []InvitesInv
  BY InitInvites, NextInvites, PTL DEF InvitesSpec

\* A guest with an invite that it did not change passes the checks that the host
\* passed, and the server's.
LEMMA InvitedEnters ==
    ASSUME InvitesInv, AsInvited(registered, applied), JoinRoom
    PROVE  joined' = "entered"
  <1>1. /\ applied \in HostedInvites /\ applied \in Payload
        /\ applied.name \in Names /\ applied.password \in Passwords /\ applied.mode \in Modes
        /\ FilledFrom(guestForm, applied) /\ registered # Nothing
        /\ registered.name = applied.name /\ registered.password = applied.password
    BY DEF AsInvited, InvitesInv, HostedInvites, Payload
  <1>2. /\ Trimmed(guestForm.name) = applied.name /\ applied.name.length \in 3..64
        /\ guestForm.name = applied.name
    BY <1>1 DEF HostedInvites, FilledFrom
  <1>3. SentPassword(guestForm) = applied.password
    BY <1>1, TrimmedTyped DEF HostedInvites, FilledFrom, SentPassword, Modes
  <1>4. guestForm.url = Normalized(PublicUrl)
    BY <1>1 DEF FilledFrom
  <1>5. MainTakes(applied.name, applied.password, Normalized(guestForm.url))
    BY <1>1, <1>2, <1>4, PublicUrlWorks, TrimmedTyped DEF MainTakes, IsShort, HostedInvites
  <1>6. ServerTakes(applied.name, applied.password)
    BY <1>1 DEF ServerTakes
  <1>7. guestForm.name.length >= 3 /\ IsHttp(guestForm.url)
    BY <1>2, <1>4, PublicUrlWorks
  <1> QED BY <1>2, <1>3, <1>5, <1>6, <1>7 DEF JoinRoom

\* The way of an invite: who applies it and changes nothing is not refused while
\* the room is as it was.
THEOREM InviteIsEnough == InvitesSpec => InviteLeadsIn
  <1>1. ASSUME InvitesInv, [InvitesNext]_inviteVars,
               AsInvited(registered, applied), joined = "none", joined' # "none"
        PROVE  joined' = "entered"
    <2>1. JoinRoom
      BY <1>1 DEF InvitesNext, inviteVars, HostEdits, CreateInvitedRoom, HostLeaves, RoomCloses,
                  GuestEdits, PasteCode, ApplyInvite, OpenLiveRoom
    <2> QED BY <1>1, <2>1, InvitedEnters
  <1>2. InvitesInv /\ [InvitesNext]_inviteVars =>
           [AsInvited(registered, applied) /\ joined = "none" /\ joined' # "none"
               => joined' = "entered"]_inviteVars
    BY <1>1
  <1> QED BY <1>2, InvitesInductive, PTL DEF InvitesSpec, InviteLeadsIn

(***************************************************************************)
(* The motion a host makes itself.                                         *)
(***************************************************************************)
\* A step gets no further than the speed limit, and stays between where it begins
\* and where it leads to.
LEMMA StepBounded ==
    ASSUME NEW to \in Motions, latest \in Motions, speed \in Speeds
    PROVE  Step(to) \in Positions /\ Distance(latest.position, Step(to)) <= speed
  <1>1. PICK low, high \in Positions : Positions = low..high
    BY DemoAssumption
  <1>2. PICK p \in Positions : p = latest.position
    BY DEF Motions
  <1>3. PICK q \in Positions : q = to.position
    BY DEF Motions
  <1>4. speed \in Nat \ {0}
    BY DemoAssumption
  <1>5. low \in Int /\ high \in Int /\ p \in Int /\ q \in Int /\ p \in low..high /\ q \in low..high
    BY <1>1, <1>2, <1>3, DemoAssumption
  <1>6. PICK r \in Int :
           r = CASE Distance(p, q) <= speed -> q
                 [] q > p + speed           -> p + speed
                 [] q < p - speed           -> p - speed
    BY <1>4, <1>5 DEF Distance
  <1>7. Step(to) = r
    BY <1>2, <1>3, <1>6, Zenon DEF Step
  <1>8. r \in low..high /\ Distance(p, r) <= speed
    BY <1>4, <1>5, <1>6 DEF Distance
  <1> QED BY <1>1, <1>2, <1>7, <1>8

LEMMA InitDemo == DemoInit => DemoInv
  <1> SUFFICES ASSUME DemoInit PROVE DemoInv
    OBVIOUS
  <1>1. latest = [intensity |-> 0, position |-> Center] /\ target = latest /\ published = latest
    BY DEF DemoInit
  <1>2. latest \in Motions /\ published.position = latest.position /\ published.intensity = 0
    BY <1>1, DemoAssumption DEF Motions
  <1>3. streaming \in BOOLEAN
    BY DEF DemoInit
  <1> QED BY <1>1, <1>2, <1>3, DemoAssumption DEF DemoInit, DemoInv, DemoTypeOK

\* The manual frame at the target that is set, and at the step towards it.
LEMMA PublishManualKeeps ==
    ASSUME DemoInv, NEW to \in Motions, PublishManual(to)
    PROVE  /\ latest' \in Motions /\ published' = latest'
           /\ Distance(published.position, published'.position) <= speed
  <1>1. latest \in Motions /\ speed \in Speeds /\ published.position = latest.position
    BY DEF DemoInv, DemoTypeOK
  <1>2. Step(to) \in Positions /\ Distance(latest.position, Step(to)) <= speed
    BY <1>1, StepBounded
  <1>3. latest' = [intensity |-> to.intensity, position |-> Step(to)] /\ published' = latest'
    BY DEF PublishManual
  <1>4. latest' \in Motions /\ latest'.position = Step(to)
    BY <1>2, <1>3 DEF Motions
  <1> QED BY <1>1, <1>2, <1>3, <1>4

\* A stop is published where the device is.
LEMMA SafeStopKeeps ==
    ASSUME DemoInv, PublishSafeStop
    PROVE  /\ published' \in Motions /\ published'.intensity = 0
           /\ published'.position = latest.position
           /\ Distance(published.position, published'.position) <= speed
  <1>1. latest \in Motions /\ speed \in Nat \ {0} /\ published.position = latest.position
    BY DemoAssumption DEF DemoInv, DemoTypeOK
  <1>2. latest.position \in Int /\ latest.position \in Positions /\ 0 \in Intensities
    BY <1>1, DemoAssumption DEF Motions
  <1>3. published' = [intensity |-> 0, position |-> latest.position]
    BY DEF PublishSafeStop
  <1> QED BY <1>1, <1>2, <1>3 DEF Motions, Distance

\* What the property says of one step.
DemoStep ==
    /\ ~streaming' => published'.intensity = 0
    /\ mode' = "manual" => Distance(published.position, published'.position) <= speed

LEMMA NextDemo == DemoInv /\ [DemoNext]_demoVars => DemoInv' /\ DemoStep
  <1> SUFFICES ASSUME DemoInv, [DemoNext]_demoVars PROVE DemoInv' /\ DemoStep
    OBVIOUS
  <1>1. /\ latest \in Motions /\ speed \in Speeds /\ target \in Motions /\ published \in Motions
        /\ published.position = latest.position /\ pattern \in Intensities \cup {NoPattern}
        /\ mode \in {"manual", "pattern"} /\ streaming \in BOOLEAN
        /\ ~streaming => published.intensity = 0
    BY DEF DemoInv, DemoTypeOK
  <1>2. Distance(published.position, published.position) <= speed
    BY <1>1, DemoAssumption DEF Motions, Distance
  <1>3. ASSUME NEW next \in Motions, StartManual(next) PROVE DemoInv' /\ DemoStep
    <2>1. /\ streaming' = TRUE /\ mode' = "manual" /\ pattern' = NoPattern /\ target' = next
          /\ speed' = speed
      BY <1>3 DEF StartManual
    <2>2. CASE PublishSafeStop /\ UNCHANGED latest
      BY <1>1, <2>1, <2>2, SafeStopKeeps DEF DemoInv, DemoTypeOK, DemoStep
    <2>3. CASE PublishManual(next)
      BY <1>1, <2>1, <2>3, PublishManualKeeps DEF DemoInv, DemoTypeOK, DemoStep
    <2> QED BY <1>3, <2>2, <2>3 DEF StartManual
  <1>4. ASSUME NEW next \in Motions, UpdateManual(next) PROVE DemoInv' /\ DemoStep
    BY <1>1, <1>2, <1>4 DEF UpdateManual, DemoInv, DemoTypeOK, DemoStep
  <1>5. ASSUME NEW intensity \in Intensities, StartPattern(intensity) PROVE DemoInv' /\ DemoStep
    <2>1. /\ streaming' = TRUE /\ mode' = "pattern" /\ pattern' = intensity
          /\ target' = target /\ speed' = speed
      BY <1>5 DEF StartPattern
    <2>2. latest' \in Motions /\ latest'.position = latest.position
      BY <1>1, <1>5 DEF StartPattern, Motions
    <2>3. published' \in Motions /\ published'.position = latest'.position
      BY <1>5, <2>2, SafeStopKeeps DEF StartPattern
    <2> QED BY <1>1, <2>1, <2>2, <2>3 DEF DemoInv, DemoTypeOK, DemoStep
  <1>6. ASSUME NEW intensity \in Intensities, UpdatePattern(intensity) PROVE DemoInv' /\ DemoStep
    BY <1>1, <1>2, <1>6 DEF UpdatePattern, DemoInv, DemoTypeOK, DemoStep
  <1>7. CASE Stop
    BY <1>1, <1>7, SafeStopKeeps DEF Stop, DemoInv, DemoTypeOK, DemoStep
  <1>8. ASSUME NEW s \in Speeds, SetSpeed(s) PROVE DemoInv' /\ DemoStep
    BY <1>1, <1>2, <1>8 DEF SetSpeed, DemoInv, DemoTypeOK, DemoStep
  <1>9. CASE TimerPublishes
    <2>1. streaming /\ UNCHANGED <<streaming, mode, target, pattern, speed>>
      BY <1>9 DEF TimerPublishes
    <2>2. CASE mode = "manual" /\ PublishManual(target)
      BY <1>1, <2>1, <2>2, PublishManualKeeps DEF DemoInv, DemoTypeOK, DemoStep
    <2>3. CASE /\ mode = "pattern" /\ pattern # NoPattern
               /\ \E p \in Positions : latest' = [intensity |-> pattern, position |-> p]
               /\ published' = latest'
      <3>1. latest' \in Motions /\ published' = latest'
        BY <1>1, <2>3 DEF Motions
      <3> QED BY <1>1, <2>1, <2>3, <3>1 DEF DemoInv, DemoTypeOK, DemoStep
    <2> QED BY <1>9, <2>2, <2>3 DEF TimerPublishes
  <1>10. CASE UNCHANGED demoVars
    BY <1>1, <1>2, <1>10 DEF demoVars, DemoInv, DemoTypeOK, DemoStep
  <1> QED BY <1>3, <1>4, <1>5, <1>6, <1>7, <1>8, <1>9, <1>10 DEF DemoNext

\* Whatever is started, changed and stopped between the ticks: the invariant of the
\* demo motion holds.
THEOREM DemoInductive == DemoSpec => []DemoInv
  <1>1. DemoInv /\ [DemoNext]_demoVars => DemoInv'
    BY NextDemo
  <1> QED BY InitDemo, <1>1, PTL DEF DemoSpec

\* While no timer runs the last frame is a stop; by hand no frame is further from
\* the one before than the speed limit.
THEOREM DemoStopsAndSteps == DemoSpec => StopsAndSteps
  <1>1. DemoInv /\ [DemoNext]_demoVars => [DemoStep]_demoVars
    BY NextDemo
  <1>2. [DemoStep]_demoVars
        => [/\ ~streaming' => published'.intensity = 0
            /\ mode' = "manual" => Distance(published.position, published'.position) <= speed]_demoVars
    BY DEF DemoStep
  <1> QED BY <1>1, <1>2, DemoInductive, PTL DEF DemoSpec, StopsAndSteps

\* a set of numbers that is not empty has a least one
LEMMA LeastOf ==
    ASSUME NEW T, T \subseteq Nat, T # {}
    PROVE  \E x \in T : \A y \in T : x <= y
  <1> DEFINE Less == {p \in Nat \X Nat : p[1] < p[2]}
  <1>1. IsWellFoundedOn(Less, Nat)
    BY NatLessThanWellFounded, Zenon DEF OpToRel
  <1>2. PICK x \in T : \A y \in T : ~ (<<y, x>> \in Less)
    <2> HIDE DEF Less
    <2> QED BY <1>1, WFMin, Zenon
  <1>3. \A y \in T : y < x => <<y, x>> \in Less
    OBVIOUS
  <1>4. \A y \in T : ~ (y < x)
    <2> HIDE DEF Less
    <2> QED BY <1>2, <1>3
  <1> QED BY <1>4

(***************************************************************************)
(* The diagnostic log.                                                     *)
(***************************************************************************)
LEMMA LogParts ==
    ASSUME LogInv
    PROVE  LogTypeOK /\ ActiveInPlace /\ RotationStage /\ RecordsInTurn
  BY DEF LogInv

LEMMA LogTypes ==
    ASSUME LogTypeOK
    PROVE  /\ FileSize \in Nat /\ FileSize >= 1 /\ MaxFiles \in Nat /\ MaxFiles >= 1
           /\ Oldest = MaxFiles - 1 /\ Oldest \in Nat
           /\ MaxRecords \in Nat /\ recorded \in Nat /\ ends \in Nat /\ \A g : MayBeEmpty(g) \in Nat
           /\ written \in Seq(Nat) /\ Len(written) \in Nat /\ DOMAIN written = 1..Len(written)
           /\ logQueue \in Seq(Nat) /\ Len(logQueue) \in Nat /\ DOMAIN logQueue = 1..Len(logQueue)
           /\ \A g \in 0..Oldest : /\ files[g] \in Seq(Nat) /\ Len(files[g]) \in Nat
                                   /\ DOMAIN files[g] = 1..Len(files[g])
                                   /\ files[g] = <<>> <=> Len(files[g]) = 0
           /\ DOMAIN files = 0..Oldest /\ moving \in 0..Oldest
  <1>1. MaxFiles \in Nat \ {0} /\ MaxRecords \in Nat /\ MaxEnds \in Nat /\ FileSize \in Nat \ {0}
    BY LogAssumption
  <1>2. Oldest = MaxFiles - 1 /\ Generations = 0..Oldest
    BY DEF Oldest, Generations
  <1>3. ASSUME NEW s \in Seq(1..MaxRecords)
        PROVE  s \in Seq(Nat) /\ Len(s) \in Nat /\ DOMAIN s = 1..Len(s) /\ (s = <<>> <=> Len(s) = 0)
    BY <1>1, <1>3
  <1>4. written \in Seq(1..MaxRecords) /\ logQueue \in Seq(1..MaxRecords)
        /\ files \in [0..Oldest -> Seq(1..MaxRecords)]
    BY <1>2 DEF LogTypeOK
  <1>5. \A g \in 0..Oldest : files[g] \in Seq(1..MaxRecords)
    BY <1>4
  <1>6. recorded \in Nat /\ ends \in Nat /\ moving \in 0..Oldest
    BY <1>1, <1>2 DEF LogTypeOK
  <1>7. \A g : MayBeEmpty(g) \in Nat
    BY <1>6 DEF MayBeEmpty
  <1> QED BY <1>1, <1>2, <1>3, <1>4, <1>5, <1>6, <1>7

\* multiples of the size of a file
LEMMA FilesOf ==
    ASSUME NEW a \in Int, NEW b \in Int, a <= b
    PROVE  /\ a * FileSize \in Int /\ b * FileSize \in Int /\ a * FileSize <= b * FileSize
           /\ (a + 1) * FileSize = a * FileSize + FileSize
           /\ (a - 1) * FileSize = a * FileSize - FileSize
           /\ a < b => a * FileSize + FileSize <= b * FileSize
  <1>1. FileSize \in Nat /\ FileSize >= 1
    BY LogAssumption
  <1>2. a * FileSize \in Int /\ b * FileSize \in Int
    BY <1>1
  <1>3. /\ (a + 1) * FileSize = a * FileSize + FileSize
        /\ (a - 1) * FileSize = a * FileSize - FileSize
    BY <1>1
  <1>4. \A c, d \in Int : c <= d => c * FileSize <= d * FileSize
    <2> SUFFICES ASSUME NEW c \in Int, NEW d \in Int, c <= d PROVE c * FileSize <= d * FileSize
      OBVIOUS
    <2>1. PICK n \in Nat : d = c + n
      <3>1. d - c \in Nat /\ d = c + (d - c)
        OBVIOUS
      <3> QED BY <3>1
    <2>2. d * FileSize = c * FileSize + n * FileSize /\ n * FileSize \in Nat /\ c * FileSize \in Int
      BY <1>1, <2>1
    <2> QED BY <2>2
  <1>5. a < b => (a + 1) * FileSize <= b * FileSize
    BY <1>4
  <1> QED BY <1>2, <1>3, <1>4, <1>5

\* where the generations' records stand among those that were written
LEMMA UptoFalls ==
    ASSUME LogTypeOK, ActiveInPlace,
           NEW holes \in [1..MaxFiles -> 0..MaxFiles], InPlace(holes)
    PROVE  /\ \A g \in 1..MaxFiles :
                 /\ Upto(holes, g) \in 0..Len(written) - Len(files[0])
                 /\ holes[g] \in Nat /\ holes[g] <= g - 1
           /\ \A g, h \in 1..MaxFiles : g <= h => Upto(holes, h) <= Upto(holes, g)
           /\ \A g \in 1..Oldest :
                 /\ files[g] = <<>> => Upto(holes, g + 1) = Upto(holes, g)
                 /\ files[g] # <<>> => Upto(holes, g + 1) = Upto(holes, g) - FileSize
           /\ Upto(holes, 1) = Len(written) - Len(files[0])
  <1>1. /\ FileSize \in Nat /\ FileSize >= 1 /\ MaxFiles \in Nat /\ MaxFiles >= 1 /\ Oldest = MaxFiles - 1
        /\ written \in Seq(Nat) /\ files[0] \in Seq(Nat) /\ Len(files[0]) <= Len(written)
    BY LogTypes DEF ActiveInPlace
  <1>2. \A g \in 1..MaxFiles : holes[g] \in Nat
    BY <1>1
  <1>3. \A g, h \in 1..MaxFiles : g <= h => holes[h] - holes[g] >= 0 /\ holes[h] - holes[g] <= h - g
    <2> SUFFICES ASSUME NEW g \in 1..MaxFiles, NEW h \in 1..MaxFiles, g <= h
                 PROVE  holes[h] - holes[g] >= 0 /\ holes[h] - holes[g] <= h - g
      OBVIOUS
    <2>1. holes[h] - holes[g] \in 0..h - g
      BY DEF InPlace, GenerationInPlace
    <2> QED BY <2>1, <1>1, <1>2
  <1>4. \A g \in 1..MaxFiles : holes[g] <= g - 1
    <2>1. holes[1] = 0 /\ 1 \in 1..MaxFiles
      BY <1>1 DEF InPlace, GenerationInPlace
    <2> QED BY <1>1, <1>2, <1>3, <2>1
  <1>5. ASSUME NEW g \in 1..MaxFiles, NEW h \in 1..MaxFiles, g <= h
        PROVE  Upto(holes, h) <= Upto(holes, g) /\ Upto(holes, g) \in Int
    <2>1. PICK a \in Int : a = g - 1 - holes[g]
      BY <1>2
    <2>2. PICK b \in Int : b = h - 1 - holes[h]
      BY <1>2
    <2>3. a <= b
      BY <1>2, <1>3, <1>5, <2>1, <2>2
    <2>4. a * FileSize <= b * FileSize /\ a * FileSize \in Int /\ b * FileSize \in Int
      BY <2>3, FilesOf
    <2>5. Upto(holes, g) = Len(written) - Len(files[0]) - a * FileSize
      BY <2>1 DEF Upto
    <2>6. Upto(holes, h) = Len(written) - Len(files[0]) - b * FileSize
      BY <2>2 DEF Upto
    <2> QED BY <1>1, <2>4, <2>5, <2>6
  <1>6. Upto(holes, 1) = Len(written) - Len(files[0])
    <2>1. PICK a \in Int : a = 1 - 1 - holes[1] /\ a = 0
      BY DEF InPlace, GenerationInPlace
    <2>2. PICK x \in Int : x = a * FileSize /\ x = 0
      BY <1>1, <2>1
    <2>3. PICK m \in Int, k \in Int : m = Len(written) /\ k = Len(files[0])
      BY <1>1
    <2>4. Upto(holes, 1) = m - k - x
      BY <2>1, <2>2, <2>3 DEF Upto
    <2>5. m - k - x = m - k
      BY <2>2, <2>3
    <2> QED BY <2>3, <2>4, <2>5
  <1>7. ASSUME NEW g \in 1..MaxFiles
        PROVE  Upto(holes, g) \in 0..Len(written) - Len(files[0])
    <2>1. 1 \in 1..MaxFiles /\ MaxFiles \in 1..MaxFiles /\ 1 <= g /\ g <= MaxFiles
      BY <1>1
    <2>2. Upto(holes, MaxFiles) >= 0 /\ Upto(holes, MaxFiles) <= Upto(holes, g)
          /\ Upto(holes, g) <= Upto(holes, 1) /\ Upto(holes, g) \in Int /\ Upto(holes, MaxFiles) \in Int
      BY <1>5, <2>1 DEF InPlace, GenerationInPlace
    <2> QED BY <1>1, <1>6, <2>2
  <1>8. ASSUME NEW g \in 1..Oldest
        PROVE  /\ files[g] = <<>> => Upto(holes, g + 1) = Upto(holes, g)
               /\ files[g] # <<>> => Upto(holes, g + 1) = Upto(holes, g) - FileSize
    <2>1. g \in 1..MaxFiles /\ g + 1 \in 1..MaxFiles /\ holes[g] \in Nat /\ holes[g + 1] \in Nat
      BY <1>1, <1>2
    <2>2. PICK a \in Int : a = g - 1 - holes[g]
      BY <2>1
    <2>3. Upto(holes, g) = Len(written) - Len(files[0]) - a * FileSize /\ a * FileSize \in Int
      BY <2>2, FilesOf DEF Upto
    <2>4. CASE files[g] = <<>>
      <3>1. holes[g + 1] = holes[g] + 1
        BY <2>4 DEF InPlace, GenerationInPlace
      <3>2. (g + 1) - 1 - holes[g + 1] = a
        BY <2>1, <2>2, <3>1
      <3> QED BY <2>3, <2>4, <3>2 DEF Upto
    <2>5. CASE files[g] # <<>>
      <3>1. holes[g + 1] = holes[g]
        BY <2>5 DEF InPlace, GenerationInPlace
      <3>2. (g + 1) - 1 - holes[g + 1] = a + 1
        BY <2>1, <2>2, <3>1
      <3>3. PICK x \in Int, y \in Int : x = a * FileSize /\ y = (a + 1) * FileSize /\ y = x + FileSize
        BY <1>1, FilesOf
      <3>4. PICK m \in Int, k \in Int : m = Len(written) /\ k = Len(files[0])
        BY <1>1
      <3>5. Upto(holes, g) = m - k - x /\ Upto(holes, g + 1) = m - k - y
        BY <2>2, <3>2, <3>3, <3>4 DEF Upto
      <3>6. m - k - y = (m - k - x) - FileSize
        BY <1>1, <3>3, <3>4
      <3> QED BY <2>5, <3>5, <3>6
    <2> QED BY <2>4, <2>5
  <1> QED BY <1>2, <1>4, <1>5, <1>6, <1>7, <1>8


LEMMA EmptyTyped ==
    ASSUME LogTypeOK'
    PROVE  ends' \in Nat /\ \A g : MayBeEmpty(g)' \in Nat
  <1>1. PICK e \in Nat : ends' = e
    BY LogAssumption DEF LogTypeOK
  <1> QED BY <1>1 DEF MayBeEmpty

AllowsNoFewer == \A g \in Nat : MayBeEmpty(g) <= MayBeEmpty(g)'

LEMMA NoFewer ==
    ASSUME AllowsNoFewer, LogTypeOK, LogTypeOK', NEW k \in Nat, NEW g \in Nat, k <= MayBeEmpty(g)
    PROVE  k <= MayBeEmpty(g)'
  <1>1. MayBeEmpty(g) \in Nat /\ MayBeEmpty(g)' \in Nat /\ MayBeEmpty(g) <= MayBeEmpty(g)'
    BY LogTypes, EmptyTyped DEF AllowsNoFewer
  <1> QED BY <1>1

\* the files stay as they are
LEMMA InPlaceSame ==
    ASSUME LogTypeOK, LogTypeOK', UNCHANGED <<files, written>>, AllowsNoFewer,
           NEW holes \in [1..MaxFiles -> 0..MaxFiles], InPlace(holes)
    PROVE  InPlace(holes)'
  <1>1. MaxFiles \in Nat /\ MaxFiles >= 1 /\ Oldest = MaxFiles - 1 /\ ends \in Nat /\ (\A g : MayBeEmpty(g) \in Nat)
        /\ (\A g : MayBeEmpty(g)' \in Nat)
    BY LogTypes, EmptyTyped
  <1>2. \A g \in 1..MaxFiles : Upto(holes, g)' = Upto(holes, g) /\ holes[g] \in Nat
    BY <1>1 DEF Upto
  <1>3. MaxFiles \in 1..MaxFiles /\ \A g \in 1..Oldest : g \in 1..MaxFiles
    BY <1>1
  <1>4. ASSUME NEW g \in 1..Oldest
        PROVE  GenerationInPlace(holes, g)'
    <2>1. Upto(holes, g)' = Upto(holes, g) /\ holes[g] \in Nat
      BY <1>2, <1>3
    <2>2. CASE files[g] = <<>>
      BY <2>2 DEF InPlace, GenerationInPlace
    <2>3. CASE files[g] # <<>>
      <3>1. /\ holes[g + 1] = holes[g] /\ holes[g] <= MayBeEmpty(g) /\ Len(files[g]) = FileSize
            /\ \A i \in 1..FileSize : files[g][i] = written[Upto(holes, g) - FileSize + i]
        BY <2>3 DEF InPlace, GenerationInPlace
      <3>2. holes[g] <= MayBeEmpty(g)'
        <4>1. g \in Nat
          BY <1>1
        <4> QED BY <2>1, <3>1, <4>1, NoFewer
      <3> QED BY <2>1, <2>3, <3>1, <3>2 DEF GenerationInPlace
    <2> QED BY <2>2, <2>3
  <1>5. Upto(holes, MaxFiles)' > 0 => holes[MaxFiles] <= MayBeEmpty(MaxFiles)'
    <2>1. Upto(holes, MaxFiles)' = Upto(holes, MaxFiles) /\ holes[MaxFiles] \in Nat
      BY <1>2, <1>3
    <2>2. Upto(holes, MaxFiles) > 0 => holes[MaxFiles] <= MayBeEmpty(MaxFiles)
      BY DEF InPlace, GenerationInPlace
    <2> QED BY <1>1, <2>1, <2>2, NoFewer
  <1>6. Upto(holes, MaxFiles)' >= 0 /\ holes[1] = 0
        /\ \A g, h \in 1..MaxFiles : g <= h => holes[h] - holes[g] \in 0..h - g
    BY <1>2, <1>3 DEF InPlace, GenerationInPlace
  <1> QED BY <1>4, <1>5, <1>6 DEF InPlace, GenerationInPlace

\* a record that is appended to the active file
LEMMA AppendKeepsPlaces ==
    ASSUME LogTypeOK, LogTypeOK', ActiveInPlace, AllowsNoFewer,
           NEW r \in Nat, files' = [files EXCEPT ![0] = Append(@, r)], written' = Append(written, r),
           NEW holes \in [1..MaxFiles -> 0..MaxFiles], InPlace(holes)
    PROVE  InPlace(holes)'
  <1>1. /\ FileSize \in Nat /\ FileSize >= 1 /\ MaxFiles \in Nat /\ MaxFiles >= 1 /\ Oldest = MaxFiles - 1
        /\ ends \in Nat /\ (\A g : MayBeEmpty(g) \in Nat) /\ (\A g : MayBeEmpty(g)' \in Nat)
        /\ 0 \in 0..Oldest /\ DOMAIN files = 0..Oldest
        /\ written \in Seq(Nat) /\ files[0] \in Seq(Nat)
    BY LogTypes, EmptyTyped
  <1>2. /\ files'[0] = Append(files[0], r)
        /\ \A g \in 1..Oldest : files'[g] = files[g]
    BY <1>1
  <1>3. PICK m \in Nat, k \in Nat : m = Len(written) /\ k = Len(files[0])
    BY <1>1
  <1>4. Len(written') = m + 1 /\ Len(files'[0]) = k + 1
    BY <1>1, <1>2, <1>3
  <1>5. ASSUME NEW g \in 1..MaxFiles PROVE Upto(holes, g)' = Upto(holes, g)
    <2>1. PICK x \in Int : x = (g - 1 - holes[g]) * FileSize
      BY <1>1
    <2>2. Upto(holes, g) = m - k - x /\ Upto(holes, g)' = (m + 1) - (k + 1) - x
      BY <1>3, <1>4, <2>1 DEF Upto
    <2> QED BY <2>1, <2>2
  <1>6. ASSUME NEW g \in 1..Oldest, files[g] # <<>>, NEW i \in 1..FileSize
        PROVE  written'[Upto(holes, g) - FileSize + i] = written[Upto(holes, g) - FileSize + i]
    <2>1. g \in 1..MaxFiles /\ g + 1 \in 1..MaxFiles
      BY <1>1
    <2>2. /\ Upto(holes, g) \in 0..m - k /\ Upto(holes, g + 1) \in 0..m - k
          /\ Upto(holes, g + 1) = Upto(holes, g) - FileSize
      BY <1>3, <1>6, <2>1, UptoFalls
    <2>3. PICK a \in 0..m : Upto(holes, g) = a /\ a - FileSize >= 0
      BY <1>1, <1>3, <2>2, SMTT(60)
    <2>4. a - FileSize + i \in 1..m
      BY <1>1, <1>3, <2>3
    <2>5. written'[a - FileSize + i] = written[a - FileSize + i]
      BY <1>1, <1>3, <2>4
    <2> QED BY <2>3, <2>5
  <1>7. MaxFiles \in 1..MaxFiles /\ \A g \in 1..Oldest : g \in 1..MaxFiles
    BY <1>1
  <1>8. holes \in [1..MaxFiles -> Nat]
    BY <1>1
  <1>9. ASSUME NEW g \in 1..Oldest
        PROVE  GenerationInPlace(holes, g)'
    <2>1. files'[g] = files[g] /\ Upto(holes, g)' = Upto(holes, g) /\ holes[g] \in Nat
      BY <1>2, <1>5, <1>7, <1>8
    <2>2. CASE files[g] = <<>>
      BY <2>1, <2>2 DEF InPlace, GenerationInPlace
    <2>3. CASE files[g] # <<>>
      <3>1. /\ holes[g + 1] = holes[g] /\ holes[g] <= MayBeEmpty(g) /\ Len(files[g]) = FileSize
            /\ \A i \in 1..FileSize : files[g][i] = written[Upto(holes, g) - FileSize + i]
        BY <2>3 DEF InPlace, GenerationInPlace
      <3>2. holes[g] <= MayBeEmpty(g)'
        <4>1. g \in Nat
          BY <1>1
        <4> QED BY <2>1, <3>1, <4>1, NoFewer
      <3>3. ASSUME NEW i \in 1..FileSize
            PROVE  files'[g][i] = written'[Upto(holes, g)' - FileSize + i]
        <4>1. files[g][i] = written[Upto(holes, g) - FileSize + i]
          BY <3>1
        <4>2. written'[Upto(holes, g) - FileSize + i] = written[Upto(holes, g) - FileSize + i]
          BY <1>6, <2>3
        <4> QED BY <2>1, <4>1, <4>2
      <3> QED BY <2>1, <2>3, <3>1, <3>2, <3>3 DEF GenerationInPlace
    <2> QED BY <2>2, <2>3
  <1>10. Upto(holes, MaxFiles)' > 0 => holes[MaxFiles] <= MayBeEmpty(MaxFiles)'
    <2>1. Upto(holes, MaxFiles)' = Upto(holes, MaxFiles) /\ holes[MaxFiles] \in Nat
      BY <1>5, <1>7, <1>8
    <2>2. Upto(holes, MaxFiles) > 0 => holes[MaxFiles] <= MayBeEmpty(MaxFiles)
      BY DEF InPlace, GenerationInPlace
    <2> QED BY <1>1, <2>1, <2>2, NoFewer
  <1>11. Upto(holes, MaxFiles)' >= 0 /\ holes[1] = 0
         /\ \A g, h \in 1..MaxFiles : g <= h => holes[h] - holes[g] \in 0..h - g
    BY <1>5, <1>7 DEF InPlace, GenerationInPlace
  <1> QED BY <1>9, <1>10, <1>11 DEF InPlace, GenerationInPlace

\* a generation that stays as it is
LEMMA GenerationStays ==
    ASSUME LogTypeOK, LogTypeOK', written' = written,
           NEW holes \in [1..MaxFiles -> 0..MaxFiles], NEW after \in [1..MaxFiles -> 0..MaxFiles],
           NEW g \in 1..Oldest, GenerationInPlace(holes, g), files'[g] = files[g],
           after[g] = holes[g], after[g + 1] = holes[g + 1], Upto(after, g)' = Upto(holes, g),
           MayBeEmpty(g) <= MayBeEmpty(g)'
    PROVE  GenerationInPlace(after, g)'
  <1>1. /\ MayBeEmpty(g) \in Nat /\ MayBeEmpty(g)' \in Nat /\ MaxFiles \in Nat /\ Oldest = MaxFiles - 1
    BY LogTypes, EmptyTyped
  <1>2. g \in 1..MaxFiles
    BY <1>1
  <1>3. holes[g] \in Nat
    BY <1>1, <1>2
  <1>4. CASE files[g] = <<>>
    BY <1>4 DEF GenerationInPlace
  <1>5. CASE files[g] # <<>>
    <2>1. /\ holes[g + 1] = holes[g] /\ holes[g] <= MayBeEmpty(g) /\ Len(files[g]) = FileSize
          /\ \A i \in 1..FileSize : files[g][i] = written[Upto(holes, g) - FileSize + i]
      BY <1>5 DEF GenerationInPlace
    <2>2. holes[g] <= MayBeEmpty(g)'
      BY <1>1, <1>3, <2>1
    <2> QED BY <1>5, <2>1, <2>2 DEF GenerationInPlace
  <1> QED BY <1>4, <1>5

\* the oldest generation goes
LEMMA UnlinkKeepsPlaces ==
    ASSUME LogInv, LogTypeOK', Unlink, MaxFiles > 1,
           NEW holes \in [1..MaxFiles -> 0..MaxFiles], InPlace(holes)
    PROVE  \E after \in [1..MaxFiles -> 0..MaxFiles] : InPlace(after)'
  <1>1. /\ FileSize \in Nat /\ FileSize >= 1 /\ MaxFiles \in Nat /\ Oldest = MaxFiles - 1
        /\ DOMAIN files = 0..Oldest /\ written \in Seq(Nat) /\ files[0] \in Seq(Nat)
        /\ ends \in Nat /\ (\A g : MayBeEmpty(g) \in Nat) /\ (\A g : MayBeEmpty(g)' \in Nat)
    BY LogParts, LogTypes, EmptyTyped
  <1>2. /\ files' = [files EXCEPT ![Oldest] = <<>>] /\ written' = written
        /\ logStage' = "rename" /\ moving' = Oldest - 1 /\ ends' = ends
    BY DEF Unlink
  <1>3. /\ files'[Oldest] = <<>> /\ files'[0] = files[0]
        /\ \A g \in 1..Oldest - 1 : files'[g] = files[g]
    BY <1>1, <1>2
  <1>4. Len(files[0]) = FileSize /\ ~disabled /\ logStage = "unlink"
    BY LogParts DEF Unlink, RotationStage
  <1>5. \A g : MayBeEmpty(g) = ends /\ (MayBeEmpty(g)' = ends \/ MayBeEmpty(g)' = ends + 1)
    BY <1>2, <1>3, <1>4 DEF MayBeEmpty
  <1>e. \A g \in Nat : MayBeEmpty(g) <= MayBeEmpty(g)'
    BY <1>1, <1>2, <1>3, <1>4 DEF MayBeEmpty
  <1>6. MayBeEmpty(MaxFiles)' = ends + 1
    BY <1>1, <1>2, <1>3, <1>4 DEF MayBeEmpty
  <1>7. /\ \A g \in 1..MaxFiles : /\ Upto(holes, g) \in Nat /\ holes[g] \in Nat /\ holes[g] <= g - 1
        /\ \A g \in 1..Oldest : files[g] = <<>> => Upto(holes, g + 1) = Upto(holes, g)
    <2>1. LogTypeOK /\ ActiveInPlace
      BY LogParts
    <2>2. \A g \in 1..MaxFiles : Upto(holes, g) \in 0..Len(written) - Len(files[0])
      BY <2>1, UptoFalls
    <2>3. \A g \in 1..MaxFiles : Upto(holes, g) \in Nat
      BY <1>1, <2>2
    <2> QED BY <2>1, <2>3, UptoFalls
  <1>8. PICK after : after = [holes EXCEPT ![MaxFiles] = holes[Oldest] + 1]
    OBVIOUS
  <1>9. /\ after \in [1..MaxFiles -> 0..MaxFiles]
        /\ after[MaxFiles] = holes[Oldest] + 1 /\ \A g \in 1..Oldest : after[g] = holes[g]
    <2>1. Oldest \in 1..MaxFiles /\ holes[Oldest] + 1 \in 0..MaxFiles /\ MaxFiles \in 1..MaxFiles
      BY <1>1, <1>7
    <2> QED BY <1>1, <1>8, <2>1
  <1>10. ASSUME NEW g \in 1..Oldest PROVE Upto(after, g)' = Upto(holes, g)
    BY <1>2, <1>3, <1>9 DEF Upto
  <1>11. Upto(after, MaxFiles)' = Upto(holes, Oldest)
    <2>1. MaxFiles - 1 - after[MaxFiles] = Oldest - 1 - holes[Oldest]
      BY <1>1, <1>7, <1>9
    <2> QED BY <1>2, <1>3, <2>1 DEF Upto
  <1>12. ASSUME NEW g \in 1..Oldest PROVE GenerationInPlace(after, g)'
    <2>1. CASE g = Oldest
      BY <1>1, <1>3, <1>9, <2>1 DEF GenerationInPlace
    <2>2. CASE g # Oldest
      <3>1. g \in 1..Oldest - 1 /\ g + 1 \in 1..Oldest
        BY <1>1, <2>2
      <3>2. GenerationInPlace(holes, g)
        BY DEF InPlace
      <3>3. MayBeEmpty(g) <= MayBeEmpty(g)'
        BY <1>e
      <3> QED BY <1>2, <1>3, <1>9, <1>10, <3>1, <3>2, <3>3, LogParts, GenerationStays
    <2> QED BY <2>1, <2>2
  <1>13. ASSUME NEW g \in 1..MaxFiles, NEW h \in 1..MaxFiles, g <= h
         PROVE  after[h] - after[g] \in 0..h - g
    <2>1. Oldest \in 1..MaxFiles /\ holes[Oldest] \in Nat /\ holes[g] \in Nat
      BY <1>1, <1>7
    <2>2. CASE h \in 1..Oldest
      <3>1. g \in 1..Oldest
        BY <1>13, <1>1, <2>2
      <3> QED BY <1>9, <1>13, <2>2, <3>1 DEF InPlace
    <2>3. CASE h = MaxFiles /\ g \in 1..Oldest
      <3>1. holes[Oldest] - holes[g] \in 0..Oldest - g
        BY <1>1, <2>1, <2>3 DEF InPlace
      <3> QED BY <1>1, <1>9, <2>1, <2>3, <3>1, SMTT(60)
    <2>4. CASE h = MaxFiles /\ g = MaxFiles
      BY <1>1, <1>9, <2>1, <2>4
    <2> QED BY <1>1, <1>13, <2>2, <2>3, <2>4
  <1>14. Upto(after, MaxFiles)' >= 0
    BY <1>1, <1>7, <1>11
  <1>15. ASSUME Upto(after, MaxFiles)' > 0 PROVE after[MaxFiles] <= MayBeEmpty(MaxFiles)'
    <2>1. Oldest \in 1..Oldest /\ Oldest \in 1..MaxFiles /\ Oldest + 1 = MaxFiles /\ holes[Oldest] \in Nat
      BY <1>1, <1>7
    <2>2. GenerationInPlace(holes, Oldest)
      BY <2>1 DEF InPlace
    <2>3. CASE files[Oldest] = <<>>
      <3>1. holes[MaxFiles] = holes[Oldest] + 1
        BY <2>1, <2>2, <2>3 DEF GenerationInPlace
      <3>2. Upto(holes, MaxFiles) > 0
        BY <1>7, <1>11, <1>15, <2>1, <2>3
      <3>3. holes[MaxFiles] <= ends
        BY <1>5, <3>2 DEF InPlace
      <3> QED BY <1>1, <1>6, <1>9, <2>1, <3>1, <3>3
    <2>4. CASE files[Oldest] # <<>>
      <3>1. holes[Oldest] <= ends
        BY <1>5, <2>2, <2>4 DEF GenerationInPlace
      <3> QED BY <1>1, <1>6, <1>9, <2>1, <3>1
    <2> QED BY <2>3, <2>4
  <1>16. after[1] = 0
    BY <1>1, <1>9 DEF InPlace
  <1> QED BY <1>9, <1>12, <1>13, <1>14, <1>15, <1>16 DEF InPlace

\* a generation moves up
LEMMA MoveKeepsPlaces ==
    ASSUME LogInv, LogTypeOK', MoveGeneration, moving >= 1, files[moving] # <<>>,
           NEW holes \in [1..MaxFiles -> 0..MaxFiles], InPlace(holes)
    PROVE  \E after \in [1..MaxFiles -> 0..MaxFiles] : InPlace(after)'
  <1>1. /\ FileSize \in Nat /\ FileSize >= 1 /\ MaxFiles \in Nat /\ Oldest = MaxFiles - 1 /\ Oldest \in Nat
        /\ DOMAIN files = 0..Oldest /\ written \in Seq(Nat) /\ files[0] \in Seq(Nat)
        /\ ends \in Nat /\ (\A g : MayBeEmpty(g) \in Nat) /\ (\A g : MayBeEmpty(g)' \in Nat)
    BY LogParts, LogTypes, EmptyTyped
  <1>n. moving \in Nat
    <2>1. moving \in 0..Oldest /\ Oldest \in Nat
      BY LogParts, LogTypes
    <2> QED BY <2>1
  <1>2. /\ moving < Oldest /\ files[moving + 1] = <<>> /\ Len(files[0]) = FileSize
        /\ logStage = "rename" /\ ~disabled
    BY LogParts DEF RotationStage, MoveGeneration
  <1>3. PICK m \in 1..Oldest - 1 : moving = m
    BY <1>1, <1>n, <1>2
  <1>4. /\ files' = [files EXCEPT ![m + 1] = files[m], ![m] = <<>>]
        /\ written' = written /\ ends' = ends /\ disabled' = disabled
        /\ logStage' = "rename" /\ moving' = m - 1
    BY <1>1, <1>2, <1>3 DEF MoveGeneration, Rename
  <1>5. /\ files'[m] = <<>> /\ files'[m + 1] = files[m] /\ files'[0] = files[0]
        /\ \A g \in 0..Oldest : g # m /\ g # m + 1 => files'[g] = files[g]
    <2>1. m \in 0..Oldest /\ m + 1 \in 0..Oldest /\ m # m + 1 /\ m # 0 /\ m + 1 # 0 /\ 0 \in 0..Oldest
      BY <1>1, <1>3
    <2> QED BY <1>1, <1>4, <2>1
  <1>6. \A g \in 1..MaxFiles : /\ MayBeEmpty(g) = IF g > m THEN ends + 1 ELSE ends
                               /\ MayBeEmpty(g)' = IF g > m - 1 THEN ends + 1 ELSE ends
    BY <1>2, <1>3, <1>4, <1>5 DEF MayBeEmpty
  <1>7. /\ \A g \in 1..MaxFiles : Upto(holes, g) >= 0 /\ holes[g] \in Nat /\ holes[g] <= g - 1
        /\ \A g \in 1..MaxFiles : Upto(holes, g) \in Int
    <2>1. LogTypeOK /\ ActiveInPlace
      BY LogParts
    <2>2. \A g \in 1..MaxFiles : Upto(holes, g) \in 0..Len(written) - Len(files[0])
      BY <2>1, UptoFalls
    <2>3. \A g \in 1..MaxFiles : Upto(holes, g) \in Int /\ Upto(holes, g) >= 0
      BY <1>1, <2>2
    <2> QED BY <2>1, <2>3, UptoFalls
  <1>8. /\ m \in 1..MaxFiles /\ m + 1 \in 1..MaxFiles /\ m + 2 \in 1..MaxFiles /\ (m + 1) + 1 = m + 2
        /\ m \in 1..Oldest /\ m + 1 \in 1..Oldest
    BY <1>1, <1>3
  <1>9. /\ holes[m + 1] = holes[m] /\ holes[m] <= ends /\ Len(files[m]) = FileSize
        /\ \A i \in 1..FileSize : files[m][i] = written[Upto(holes, m) - FileSize + i]
    <2>1. GenerationInPlace(holes, m)
      BY <1>8 DEF InPlace
    <2>2. MayBeEmpty(m) = ends
      BY <1>3, <1>6, <1>8
    <2> QED BY <1>3, <2>1, <2>2 DEF GenerationInPlace
  <1>10. holes[m + 2] = holes[m] + 1
    <2>1. GenerationInPlace(holes, m + 1)
      BY <1>8 DEF InPlace
    <2> QED BY <1>2, <1>3, <1>8, <1>9, <2>1 DEF GenerationInPlace
  <1>11. PICK after : after = [holes EXCEPT ![m + 1] = holes[m] + 1]
    OBVIOUS
  <1>12. /\ after \in [1..MaxFiles -> 0..MaxFiles]
         /\ after[m + 1] = holes[m] + 1 /\ \A g \in 1..MaxFiles : g # m + 1 => after[g] = holes[g]
    <2>1. holes[m] \in Nat /\ holes[m] <= m - 1
      BY <1>7, <1>8
    <2>2. holes[m] + 1 \in 0..MaxFiles
      BY <1>1, <1>3, <2>1
    <2> QED BY <1>8, <1>11, <2>2
  <1>13. ASSUME NEW g \in 1..MaxFiles, g # m + 1 PROVE Upto(after, g)' = Upto(holes, g)
    BY <1>4, <1>5, <1>12, <1>13 DEF Upto
  <1>14. Upto(after, m + 1)' = Upto(holes, m)
    <2>1. (m + 1) - 1 - after[m + 1] = m - 1 - holes[m]
      BY <1>7, <1>8, <1>12
    <2> QED BY <1>4, <1>5, <2>1 DEF Upto
  <1>15. ASSUME NEW g \in 1..Oldest PROVE GenerationInPlace(after, g)'
    <2>1. CASE g = m
      <3>1. after[m + 1] = after[m] + 1
        BY <1>8, <1>12
      <3> QED BY <1>5, <2>1, <3>1 DEF GenerationInPlace
    <2>2. CASE g = m + 1
      <3>1. after[m + 2] = after[m + 1]
        BY <1>3, <1>8, <1>10, <1>12
      <3>2. MayBeEmpty(m + 1)' = ends + 1
        BY <1>3, <1>6, <1>8
      <3>3. after[m + 1] <= MayBeEmpty(m + 1)'
        <4>1. holes[m] \in Nat
          BY <1>7, <1>8
        <4>2. after[m + 1] <= ends + 1
          BY <1>1, <1>9, <1>12, <4>1
        <4> QED BY <3>2, <4>2
      <3>4. files'[m + 1] # <<>> /\ Len(files'[m + 1]) = FileSize
        BY <1>3, <1>5, <1>9
      <3>5. \A i \in 1..FileSize : files'[m + 1][i] = written'[Upto(after, m + 1)' - FileSize + i]
        BY <1>4, <1>5, <1>9, <1>14
      <3> QED BY <1>8, <2>2, <3>1, <3>3, <3>4, <3>5 DEF GenerationInPlace
    <2>3. CASE g # m /\ g # m + 1
      <3>1. g \in 1..MaxFiles /\ g + 1 \in 1..MaxFiles /\ g + 1 # m + 1 /\ g \in 0..Oldest
        BY <1>1, <1>3, <2>3
      <3>2. GenerationInPlace(holes, g)
        BY DEF InPlace
      <3>3. MayBeEmpty(g) <= MayBeEmpty(g)'
        BY <1>1, <1>3, <1>6, <3>1
      <3> QED BY <1>4, <1>5, <1>12, <1>13, <2>3, <3>1, <3>2, <3>3, LogParts, GenerationStays
    <2> QED BY <2>1, <2>2, <2>3
  <1>16. ASSUME NEW g \in 1..MaxFiles, NEW h \in 1..MaxFiles, g <= h
         PROVE  after[h] - after[g] \in 0..h - g
    <2>1. /\ holes[h] - holes[g] \in 0..h - g /\ holes[g] \in Nat /\ holes[h] \in Nat /\ holes[m] \in Nat
          /\ h <= m => holes[m] - holes[h] \in 0..m - h
          /\ g <= m => holes[m] - holes[g] \in 0..m - g
          /\ m + 2 <= h => holes[h] - holes[m + 2] \in 0..h - (m + 2)
      BY <1>7, <1>8, <1>16 DEF InPlace
    <2>2. CASE g = m + 1 /\ h = m + 1
      BY <1>12, <2>1, <2>2, <1>3
    <2>3. CASE g = m + 1 /\ h # m + 1
      BY <1>3, <1>10, <1>12, <1>16, <2>1, <2>3
    <2>4. CASE g # m + 1 /\ h = m + 1
      BY <1>3, <1>12, <1>16, <2>1, <2>4
    <2>5. CASE g # m + 1 /\ h # m + 1
      BY <1>12, <2>1, <2>5
    <2> QED BY <2>2, <2>3, <2>4, <2>5
  <1>17. MaxFiles \in 1..MaxFiles /\ MaxFiles # m + 1 /\ 1 # m + 1 /\ 1 \in 1..MaxFiles
    BY <1>1, <1>3
  <1>18. Upto(after, MaxFiles)' = Upto(holes, MaxFiles) /\ after[MaxFiles] = holes[MaxFiles] /\ after[1] = 0
    <2>1. holes[1] = 0
      BY DEF InPlace
    <2> QED BY <1>12, <1>13, <1>17, <2>1
  <1>19. MayBeEmpty(MaxFiles)' = MayBeEmpty(MaxFiles)
    BY <1>1, <1>3, <1>6, <1>17
  <1>20. Upto(after, MaxFiles)' >= 0
         /\ (Upto(after, MaxFiles)' > 0 => after[MaxFiles] <= MayBeEmpty(MaxFiles)')
    BY <1>18, <1>19 DEF InPlace
  <1> QED BY <1>12, <1>15, <1>16, <1>18, <1>20 DEF InPlace

\* the active file moves up, and a rotation ends
LEMMA RotateKeepsPlaces ==
    ASSUME LogInv, LogTypeOK', MoveGeneration, moving = 0,
           NEW holes \in [1..MaxFiles -> 0..MaxFiles], InPlace(holes)
    PROVE  \E after \in [1..MaxFiles -> 0..MaxFiles] : InPlace(after)'
  <1>1. /\ FileSize \in Nat /\ FileSize >= 1 /\ MaxFiles \in Nat /\ Oldest = MaxFiles - 1 /\ Oldest \in Nat
        /\ DOMAIN files = 0..Oldest /\ written \in Seq(Nat) /\ files[0] \in Seq(Nat)
        /\ ends \in Nat /\ (\A g : MayBeEmpty(g) \in Nat) /\ (\A g : MayBeEmpty(g)' \in Nat)
    BY LogParts, LogTypes, EmptyTyped
  <1>2. /\ 0 < Oldest /\ files[1] = <<>> /\ Len(files[0]) = FileSize
        /\ logStage = "rename" /\ ~disabled /\ files[0] # <<>>
    BY <1>1, LogParts DEF RotationStage, MoveGeneration
  <1>3. /\ files' = [files EXCEPT ![1] = files[0], ![0] = <<>>]
        /\ written' = written /\ ends' = ends /\ disabled' = disabled /\ logStage' = "append"
    BY <1>1, <1>2 DEF MoveGeneration, Rename
  <1>4. /\ files'[0] = <<>> /\ files'[1] = files[0]
        /\ \A g \in 2..Oldest : files'[g] = files[g]
    <2>1. 0 \in 0..Oldest /\ 1 \in 0..Oldest /\ \A g \in 2..Oldest : g \in 0..Oldest /\ g # 0 /\ g # 1
      BY <1>1, <1>2
    <2> QED BY <1>1, <1>3, <2>1
  <1>5. \A g \in 1..MaxFiles : MayBeEmpty(g) = ends + 1 /\ MayBeEmpty(g)' = ends
    BY <1>1, <1>2, <1>3, <1>4 DEF MayBeEmpty
  <1>6. LogTypeOK /\ ActiveInPlace
    BY LogParts
  <1>7. \A g \in 1..MaxFiles : /\ Upto(holes, g) \in 0..Len(written) - Len(files[0])
                               /\ holes[g] \in Nat /\ holes[g] <= g - 1
    BY <1>6, UptoFalls
  <1>8. \A g, h \in 1..MaxFiles : g <= h => holes[h] - holes[g] \in 0..h - g
    BY DEF InPlace
  <1>9. holes[1] = 0 /\ holes[2] = 1 /\ 1 \in 1..MaxFiles /\ 2 \in 1..MaxFiles
    <2>1. 1 \in 1..Oldest /\ 1 \in 1..MaxFiles /\ 2 \in 1..MaxFiles
      BY <1>1, <1>2
    <2>2. GenerationInPlace(holes, 1) /\ holes[1] = 0
      BY <2>1 DEF InPlace
    <2> QED BY <1>2, <2>1, <2>2 DEF GenerationInPlace
  <1>10. PICK after : after = [g \in 1..MaxFiles |-> IF g = 1 THEN 0 ELSE holes[g] - 1]
    OBVIOUS
  <1>11. \A g \in 2..MaxFiles : holes[g] >= 1 /\ holes[g] \in Nat /\ g \in 1..MaxFiles
    <2>1. ASSUME NEW g \in 2..MaxFiles PROVE holes[g] >= 1 /\ holes[g] \in Nat /\ g \in 1..MaxFiles
      <3>1. g \in 1..MaxFiles /\ 2 <= g
        BY <1>1
      <3>2. holes[g] - holes[2] \in 0..g - 2 /\ holes[g] \in Nat
        BY <1>7, <1>8, <1>9, <3>1
      <3> QED BY <1>9, <3>1, <3>2
    <2> QED BY <2>1
  <1>12. /\ after \in [1..MaxFiles -> 0..MaxFiles] /\ after[1] = 0
         /\ \A g \in 2..MaxFiles : after[g] = holes[g] - 1
    <2>1. ASSUME NEW g \in 1..MaxFiles PROVE (IF g = 1 THEN 0 ELSE holes[g] - 1) \in 0..MaxFiles
      <3>1. holes[g] \in Nat /\ holes[g] <= g - 1
        BY <1>7
      <3>2. g # 1 => holes[g] >= 1
        BY <1>1, <1>11
      <3> QED BY <1>1, <3>1, <3>2
    <2> QED BY <1>1, <1>9, <1>10, <1>11, <2>1
  <1>13. PICK m \in Nat : Len(written) = m
    BY <1>1
  <1>14. Upto(after, 1)' = m
    <2>1. PICK a \in Int : 1 - 1 - after[1] = a /\ a = 0
      BY <1>12
    <2>2. PICK x \in Int : a * FileSize = x /\ x = 0
      BY <1>1, <2>1
    <2>3. Upto(after, 1)' = m - 0 - x
      BY <1>3, <1>4, <1>13, <2>1, <2>2 DEF Upto
    <2> QED BY <1>13, <2>2, <2>3
  <1>15. ASSUME NEW g \in 2..MaxFiles PROVE Upto(after, g)' = Upto(holes, g)
    <2>1. PICK a \in Int : g - 1 - holes[g] = a
      BY <1>11
    <2>2. g - 1 - after[g] = a + 1
      BY <1>11, <1>12, <2>1
    <2>3. PICK x \in Int, y \in Int : (a + 1) * FileSize = y /\ a * FileSize = x /\ y = x + FileSize
      BY <1>1, FilesOf
    <2>4. Upto(holes, g) = m - FileSize - x
      BY <1>2, <1>13, <2>1, <2>3 DEF Upto
    <2>5. Upto(after, g)' = m - 0 - y
      BY <1>3, <1>4, <1>13, <2>2, <2>3 DEF Upto
    <2>6. m - 0 - y = m - FileSize - x
      BY <1>1, <1>13, <2>3
    <2> QED BY <2>4, <2>5, <2>6
  <1>16. ASSUME NEW g \in 1..Oldest PROVE GenerationInPlace(after, g)'
    <2>1. CASE g = 1
      <3>1. after[1 + 1] = after[1] /\ after[1] <= MayBeEmpty(1)'
        <4>1. 2 \in 2..MaxFiles /\ MayBeEmpty(1)' = ends /\ 1 + 1 = 2
          BY <1>1, <1>2, <1>5, <1>9
        <4>2. after[1] <= ends
          BY <1>1, <1>12
        <4> QED BY <1>9, <1>12, <4>1, <4>2
      <3>2. \A i \in 1..FileSize : files'[1][i] = written'[Upto(after, 1)' - FileSize + i]
        <4>1. DOMAIN files[0] = 1..FileSize
          BY <1>1, <1>2
        <4>2. \A i \in 1..FileSize : files[0][i] = written[m - FileSize + i]
          BY <1>2, <1>6, <1>13, <4>1 DEF ActiveInPlace
        <4> QED BY <1>3, <1>4, <1>14, <4>2
      <3> QED BY <1>2, <1>4, <2>1, <3>1, <3>2 DEF GenerationInPlace
    <2>2. CASE g # 1
      <3>1. g \in 2..MaxFiles /\ g + 1 \in 2..MaxFiles /\ g \in 2..Oldest
        BY <1>1, <2>2
      <3>2. /\ after[g] = holes[g] - 1 /\ after[g + 1] = holes[g + 1] - 1
            /\ holes[g] \in Nat /\ holes[g] >= 1 /\ holes[g + 1] \in Nat /\ files'[g] = files[g]
            /\ Upto(after, g)' = Upto(holes, g)
        BY <1>4, <1>11, <1>12, <1>15, <3>1
      <3>3. GenerationInPlace(holes, g)
        BY DEF InPlace
      <3>4. CASE files[g] = <<>>
        <4>1. holes[g + 1] = holes[g] + 1
          BY <3>3, <3>4 DEF GenerationInPlace
        <4>2. after[g + 1] = after[g] + 1
          BY <3>2, <4>1
        <4> QED BY <3>2, <3>4, <4>2 DEF GenerationInPlace
      <3>5. CASE files[g] # <<>>
        <4>1. /\ holes[g + 1] = holes[g] /\ holes[g] <= MayBeEmpty(g) /\ Len(files[g]) = FileSize
              /\ \A i \in 1..FileSize : files[g][i] = written[Upto(holes, g) - FileSize + i]
          BY <3>3, <3>5 DEF GenerationInPlace
        <4>2. MayBeEmpty(g) = ends + 1 /\ MayBeEmpty(g)' = ends
          BY <1>5, <1>11, <3>1
        <4>3. holes[g] - 1 <= ends
          BY <1>1, <3>2, <4>1, <4>2
        <4> QED BY <1>3, <3>2, <3>5, <4>1, <4>2, <4>3 DEF GenerationInPlace
      <3> QED BY <3>4, <3>5
    <2> QED BY <2>1, <2>2
  <1>17. ASSUME NEW g \in 1..MaxFiles, NEW h \in 1..MaxFiles, g <= h
         PROVE  after[h] - after[g] \in 0..h - g
    <2>1. CASE g = 1 /\ h = 1
      BY <1>12, <2>1
    <2>2. CASE g = 1 /\ h \in 2..MaxFiles
      <3>1. after[h] = holes[h] - 1 /\ holes[h] >= 1 /\ holes[h] <= h - 1 /\ holes[h] \in Nat
        BY <1>7, <1>11, <1>12, <2>2
      <3> QED BY <1>12, <2>2, <3>1
    <2>3. CASE g \in 2..MaxFiles /\ h \in 2..MaxFiles
      <3>1. /\ after[h] = holes[h] - 1 /\ holes[h] \in Nat /\ after[g] = holes[g] - 1 /\ holes[g] \in Nat
            /\ holes[h] - holes[g] \in 0..h - g
        BY <1>8, <1>11, <1>12, <1>17, <2>3
      <3> QED BY <3>1
    <2> QED BY <1>1, <1>17, <2>1, <2>2, <2>3
  <1>18. MaxFiles \in 2..MaxFiles /\ MaxFiles \in 1..MaxFiles
    BY <1>1, <1>2
  <1>19. Upto(after, MaxFiles)' = Upto(holes, MaxFiles) /\ Upto(holes, MaxFiles) >= 0
    BY <1>15, <1>18 DEF InPlace
  <1>20. Upto(after, MaxFiles)' > 0 => after[MaxFiles] <= MayBeEmpty(MaxFiles)'
    <2> SUFFICES ASSUME Upto(after, MaxFiles)' > 0 PROVE after[MaxFiles] <= MayBeEmpty(MaxFiles)'
      OBVIOUS
    <2>1. holes[MaxFiles] <= ends + 1
      BY <1>5, <1>18, <1>19 DEF InPlace
    <2>2. after[MaxFiles] = holes[MaxFiles] - 1 /\ holes[MaxFiles] \in Nat
      BY <1>11, <1>12, <1>18
    <2>3. holes[MaxFiles] - 1 <= ends
      BY <1>1, <2>1, <2>2
    <2> QED BY <1>5, <1>18, <2>2, <2>3
  <1> QED BY <1>12, <1>16, <1>17, <1>19, <1>20 DEF InPlace

\* with a single file, the active file goes
LEMMA OnlyFileGoes ==
    ASSUME LogInv, LogTypeOK', Unlink, MaxFiles = 1,
           NEW holes \in [1..MaxFiles -> 0..MaxFiles], InPlace(holes)
    PROVE  InPlace(holes)'
  <1>1. /\ FileSize \in Nat /\ Oldest = 0 /\ DOMAIN files = 0..Oldest /\ written \in Seq(Nat)
        /\ MayBeEmpty(MaxFiles)' \in Nat
    BY LogParts, LogTypes, EmptyTyped
  <1>2. files'[0] = <<>> /\ written' = written
    BY <1>1 DEF Unlink
  <1>3. holes[1] = 0 /\ 1 \in 1..MaxFiles
    BY DEF InPlace
  <1>4. PICK m \in Nat : Len(written) = m
    BY <1>1
  <1>5. Upto(holes, 1)' = m
    <2>1. PICK a \in Int : 1 - 1 - holes[1] = a /\ a = 0
      BY <1>3
    <2>2. PICK x \in Int : a * FileSize = x /\ x = 0
      BY <1>1, <2>1
    <2>3. Upto(holes, 1)' = m - 0 - x
      BY <1>2, <1>4, <2>1, <2>2 DEF Upto
    <2> QED BY <1>4, <2>2, <2>3
  <1>6. \A g, h \in 1..MaxFiles : g <= h => holes[h] - holes[g] \in 0..h - g
    BY DEF InPlace
  <1>7. holes[MaxFiles] <= MayBeEmpty(MaxFiles)'
    BY <1>1, <1>3
  <1> QED BY <1>1, <1>3, <1>4, <1>5, <1>6, <1>7 DEF InPlace

LEMMA InitPlaces ==
    ASSUME LogInit, LogTypeOK
    PROVE  \E holes \in [1..MaxFiles -> 0..MaxFiles] : InPlace(holes)
  <1>1. /\ FileSize \in Nat /\ MaxFiles \in Nat /\ MaxFiles >= 1 /\ Oldest = MaxFiles - 1
        /\ \A g : MayBeEmpty(g) \in Nat
    BY LogTypes
  <1>2. PICK holes : holes = [g \in 1..MaxFiles |-> g - 1]
    OBVIOUS
  <1>3. holes \in [1..MaxFiles -> 0..MaxFiles] /\ \A g \in 1..MaxFiles : holes[g] = g - 1
    BY <1>1, <1>2
  <1>4. Len(written) = 0 /\ \A g \in 0..Oldest : files[g] = <<>> /\ Len(files[g]) = 0
    BY DEF LogInit, Generations, Oldest
  <1>5. Upto(holes, MaxFiles) = 0
    <2>1. PICK a \in Int : MaxFiles - 1 - holes[MaxFiles] = a /\ a = 0
      BY <1>1, <1>3
    <2>2. PICK x \in Int : a * FileSize = x /\ x = 0
      BY <1>1, <2>1
    <2>3. 0 \in 0..Oldest
      BY <1>1
    <2>4. Upto(holes, MaxFiles) = 0 - 0 - x
      BY <1>4, <2>1, <2>2, <2>3 DEF Upto
    <2> QED BY <2>2, <2>4
  <1>6. ASSUME NEW g \in 1..Oldest PROVE GenerationInPlace(holes, g)
    <2>1. g \in 1..MaxFiles /\ g + 1 \in 1..MaxFiles /\ g \in 0..Oldest
      BY <1>1
    <2> QED BY <1>3, <1>4, <2>1 DEF GenerationInPlace
  <1>7. \A g, h \in 1..MaxFiles : g <= h => holes[h] - holes[g] \in 0..h - g
    BY <1>1, <1>3
  <1>8. holes[1] = 0
    BY <1>1, <1>3
  <1>9. InPlace(holes)
    BY <1>5, <1>6, <1>7, <1>8 DEF InPlace
  <1> QED BY <1>3, <1>9

\* Each step leaves every generation in its place.
LEMMA PlacesKept ==
    ASSUME LogInv, LogTypeOK', LogNext
    PROVE  \E holes \in [1..MaxFiles -> 0..MaxFiles] : InPlace(holes)'
  <1>1. PICK holes \in [1..MaxFiles -> 0..MaxFiles] : InPlace(holes)
    BY DEF LogInv
  <1>2. LogTypeOK /\ ActiveInPlace /\ RotationStage /\ RecordsInTurn
    BY LogParts
  <1>3. /\ FileSize \in Nat /\ FileSize >= 1 /\ Oldest = MaxFiles - 1 /\ MaxFiles \in Nat /\ MaxFiles >= 1
        /\ ends \in Nat /\ (\A g : MayBeEmpty(g) \in Nat) /\ (\A g : MayBeEmpty(g)' \in Nat)
        /\ DOMAIN files = 0..Oldest
    BY <1>2, LogTypes, EmptyTyped
  <1>4. CASE UNCHANGED <<files, written>> /\ AllowsNoFewer
    BY <1>1, <1>2, <1>4, InPlaceSame
  <1>5. CASE Record
    <2>1. UNCHANGED <<files, written, logStage, moving, disabled, ends>>
      BY <1>5 DEF Record
    <2>2. \A g : MayBeEmpty(g)' = MayBeEmpty(g)
      BY <2>1 DEF MayBeEmpty
    <2> QED BY <1>3, <1>4, <2>1, <2>2 DEF AllowsNoFewer
  <1>6. CASE Stat
    <2>1. UNCHANGED <<files, written, disabled, ends>> /\ ~disabled /\ logStage = "stat"
          /\ logStage' # "rename"
      BY <1>2, <1>6 DEF Stat, RotationStage
    <2>2. \A g : MayBeEmpty(g)' = MayBeEmpty(g)
      BY <2>1 DEF MayBeEmpty
    <2> QED BY <1>3, <1>4, <2>1, <2>2 DEF AllowsNoFewer
  <1>7. CASE Unlink
    <2>1. CASE MaxFiles = 1
      BY <1>1, <1>7, <2>1, OnlyFileGoes
    <2>2. CASE MaxFiles > 1
      BY <1>1, <1>7, <2>2, UnlinkKeepsPlaces
    <2> QED BY <1>3, <2>1, <2>2
  <1>8. CASE MoveGeneration
    <2>1. moving \in 0..Oldest /\ logStage = "rename" /\ ~disabled /\ Len(files[0]) = FileSize
      BY <1>2, <1>8, LogTypes DEF MoveGeneration, RotationStage
    <2>2. CASE moving = 0
      BY <1>1, <1>8, <2>2, RotateKeepsPlaces
    <2>3. CASE moving >= 1 /\ files[moving] # <<>>
      BY <1>1, <1>8, <2>3, MoveKeepsPlaces
    <2>4. CASE moving >= 1 /\ files[moving] = <<>>
      <3>1. UNCHANGED <<files, written, disabled, ends>> /\ logStage' = "rename" /\ moving' = moving - 1
        BY <1>8, <2>1, <2>4 DEF MoveGeneration, Rename
      <3>2. ASSUME NEW g \in Nat PROVE MayBeEmpty(g) <= MayBeEmpty(g)'
        <4>1. CASE g > moving
          BY <1>3, <2>1, <3>1, <4>1 DEF MayBeEmpty
        <4>2. CASE ~(g > moving)
          BY <1>3, <2>1, <3>1, <4>2 DEF MayBeEmpty
        <4> QED BY <4>1, <4>2
      <3> QED BY <1>4, <3>1, <3>2 DEF AllowsNoFewer
    <2>5. moving = 0 \/ moving >= 1
      <3>1. moving \in 0..Oldest /\ Oldest \in Nat
        BY <1>2, LogTypes
      <3> QED BY <3>1
    <2> QED BY <2>2, <2>3, <2>4, <2>5
  <1>9. CASE AppendRecord
    <2>1. /\ files' = [files EXCEPT ![0] = Append(@, Head(logQueue))]
          /\ written' = Append(written, Head(logQueue)) /\ ends' = ends /\ disabled' = disabled
          /\ logStage = "append" /\ logStage' = "stat" /\ ~disabled /\ logQueue # <<>>
      BY <1>2, <1>9 DEF AppendRecord, RotationStage
    <2>2. \A g : MayBeEmpty(g)' = MayBeEmpty(g)
      BY <2>1 DEF MayBeEmpty
    <2>3. Head(logQueue) \in Nat
      BY <1>2, <2>1, LogTypes, SMTT(60)
    <2>4. AllowsNoFewer
      BY <1>3, <2>2 DEF AllowsNoFewer
    <2>5. InPlace(holes)'
      BY <1>1, <1>2, <2>1, <2>3, <2>4, AppendKeepsPlaces
    <2> QED BY <2>5
  <1>10. CASE OperationFailed
    <2>1. UNCHANGED <<files, written, ends>> /\ disabled'
      BY <1>10 DEF OperationFailed
    <2>2. \A g \in Nat : MayBeEmpty(g) <= MayBeEmpty(g)'
      BY <1>3, <2>1 DEF MayBeEmpty
    <2> QED BY <1>4, <2>1, <2>2 DEF AllowsNoFewer
  <1>11. CASE AppEnds
    <2>1. UNCHANGED <<files, written>> /\ ends' = ends + 1 /\ ~disabled' /\ logStage' = "stat"
      BY <1>11 DEF AppEnds
    <2>2. \A g \in Nat : MayBeEmpty(g) <= MayBeEmpty(g)'
      BY <1>3, <2>1 DEF MayBeEmpty
    <2> QED BY <1>4, <2>1, <2>2 DEF AllowsNoFewer
  <1> QED BY <1>5, <1>6, <1>7, <1>8, <1>9, <1>10, <1>11 DEF LogNext

(***************************************************************************)
(* The records.                                                            *)
(***************************************************************************)
LEMMA AppendedAt ==
    ASSUME NEW s \in Seq(Nat), NEW n \in Nat, Len(s) = n, NEW r \in Nat
    PROVE  /\ Len(Append(s, r)) = n + 1 /\ DOMAIN Append(s, r) = 1..n + 1
           /\ Append(s, r)[n + 1] = r
           /\ \A i \in 1..n : Append(s, r)[i] = s[i]
  <1>1. PICK t : t = Append(s, r)
    OBVIOUS
  <1>2. Len(t) = n + 1 /\ DOMAIN t = 1..n + 1
    BY <1>1
  <1>3. t[n + 1] = r
    BY <1>1
  <1>4. \A i \in 1..n : t[i] = s[i]
    BY <1>1
  <1> QED BY <1>1, <1>2, <1>3, <1>4

LEMMA AppendedRecord ==
    ASSUME NEW s \in Seq(Nat), IsIncreasing(s), NEW r \in Nat, \A i \in DOMAIN s : s[i] < r
    PROVE  IsIncreasing(Append(s, r)) /\ ToSet(Append(s, r)) = ToSet(s) \cup {r}
  <1>1. PICK n \in Nat : Len(s) = n /\ DOMAIN s = 1..n
    OBVIOUS
  <1>2. PICK t : t = Append(s, r)
    OBVIOUS
  <1>3. DOMAIN t = 1..n + 1 /\ t[n + 1] = r /\ \A i \in 1..n : t[i] = s[i]
    BY <1>1, <1>2
  <1>4. ASSUME NEW i \in 1..n + 1, NEW j \in 1..n + 1, i < j PROVE t[i] < t[j]
    <2>1. i \in 1..n
      BY <1>1, <1>4
    <2>2. CASE j = n + 1
      BY <1>1, <1>3, <2>1, <2>2
    <2>3. CASE j \in 1..n
      BY <1>1, <1>3, <1>4, <2>1, <2>3 DEF IsIncreasing
    <2> QED BY <1>1, <2>2, <2>3
  <1>5. IsIncreasing(t)
    BY <1>3, <1>4 DEF IsIncreasing
  <1>6. ToSet(t) = ToSet(s) \cup {r}
    <2>1. \A i \in 1..n + 1 : i \in 1..n \/ i = n + 1
      BY <1>1
    <2>2. n + 1 \in 1..n + 1 /\ \A i \in 1..n : i \in 1..n + 1
      BY <1>1
    <2> QED BY <1>1, <1>3, <2>1, <2>2 DEF ToSet
  <1> QED BY <1>2, <1>5, <1>6

LEMMA FirstRecord ==
    ASSUME NEW s \in Seq(Nat), IsIncreasing(s), s # <<>>
    PROVE  /\ IsIncreasing(Tail(s)) /\ ToSet(s) = {Head(s)} \cup ToSet(Tail(s))
           /\ \A j \in DOMAIN Tail(s) : Head(s) < Tail(s)[j]
           /\ 1 \in DOMAIN s /\ Head(s) = s[1] /\ Head(s) \in Nat
           /\ \A j \in DOMAIN Tail(s) : j + 1 \in DOMAIN s /\ Tail(s)[j] = s[j + 1]
  <1>1. PICK n \in Nat : Len(s) = n /\ DOMAIN s = 1..n /\ n >= 1
    OBVIOUS
  <1>2. PICK t : t = Tail(s)
    OBVIOUS
  <1>3. DOMAIN t = 1..n - 1 /\ \A i \in 1..n - 1 : t[i] = s[i + 1]
    BY <1>1, <1>2
  <1>4. \A i \in 1..n - 1 : i + 1 \in 1..n /\ 1 < i + 1
    BY <1>1
  <1>5. 1 \in 1..n /\ Head(s) = s[1] /\ s[1] \in Nat
    BY <1>1
  <1>6. \A i, j \in 1..n : i < j => s[i] < s[j]
    BY <1>1 DEF IsIncreasing
  <1>7. \A i, j \in 1..n - 1 : i < j => t[i] < t[j]
    <2> SUFFICES ASSUME NEW i \in 1..n - 1, NEW j \in 1..n - 1, i < j PROVE t[i] < t[j]
      OBVIOUS
    <2>1. i + 1 < j + 1
      OBVIOUS
    <2> QED BY <1>3, <1>4, <1>6, <2>1
  <1>8. ToSet(s) = {s[1]} \cup ToSet(t)
    <2>1. ASSUME NEW i \in 1..n, i # 1 PROVE s[i] \in ToSet(t)
      <3>1. PICK k \in 1..n - 1 : i = k + 1
        <4>1. i - 1 \in 1..n - 1 /\ i = (i - 1) + 1
          BY <1>1, <2>1
        <4> QED BY <4>1
      <3>2. t[k] = s[i] /\ k \in DOMAIN t
        BY <1>3, <3>1
      <3> QED BY <3>2 DEF ToSet
    <2>2. \A r \in ToSet(s) : \E i \in 1..n : r = s[i]
      BY <1>1 DEF ToSet
    <2>3. ToSet(s) \subseteq {s[1]} \cup ToSet(t)
      BY <2>1, <2>2
    <2>4. \A r \in ToSet(t) : \E k \in 1..n - 1 : r = s[k + 1]
      BY <1>3 DEF ToSet
    <2>5. \A i \in 1..n : s[i] \in ToSet(s)
      BY <1>1 DEF ToSet
    <2>6. {s[1]} \cup ToSet(t) \subseteq ToSet(s)
      BY <1>4, <1>5, <2>4, <2>5
    <2> QED BY <2>3, <2>6
  <1>9. \A j \in 1..n - 1 : s[1] < t[j]
    BY <1>3, <1>4, <1>5, <1>6
  <1> QED BY <1>1, <1>2, <1>3, <1>4, <1>5, <1>7, <1>8, <1>9 DEF IsIncreasing

LEMMA EmptyRecords == ASSUME NEW s, s = <<>> PROVE IsIncreasing(s) /\ ToSet(s) = {} /\ DOMAIN s = {}
  BY DEF IsIncreasing, ToSet

\* the queue, what was written and what was refused
LEMMA RecordsKept ==
    ASSUME LogInv, LogNext
    PROVE  RecordsInTurn'
  <1>1. /\ written \in Seq(Nat) /\ logQueue \in Seq(Nat) /\ recorded \in Nat
        /\ DOMAIN written = 1..Len(written) /\ DOMAIN logQueue = 1..Len(logQueue)
    BY LogParts, LogTypes
  <1>2. /\ IsIncreasing(written) /\ IsIncreasing(logQueue)
        /\ \A i \in DOMAIN written, j \in DOMAIN logQueue : written[i] < logQueue[j]
        /\ ToSet(logQueue) \cup ToSet(written) \subseteq 1..recorded
        /\ 1..recorded = ToSet(written) \cup ToSet(logQueue) \cup refused
    BY LogParts DEF RecordsInTurn
  <1>3. CASE UNCHANGED <<written, logQueue, recorded, refused>>
    BY <1>2, <1>3 DEF RecordsInTurn
  <1>4. CASE Record
    <2>1. recorded' = recorded + 1 /\ written' = written /\ 1..recorded + 1 = (1..recorded) \cup {recorded + 1}
      BY <1>1, <1>4 DEF Record
    <2>2. ToSet(logQueue) \cup ToSet(written) \subseteq 1..recorded + 1
      BY <1>2, <2>1
    <2>3. CASE refused' = refused \cup {recorded'} /\ UNCHANGED logQueue
      BY <1>2, <2>1, <2>2, <2>3 DEF RecordsInTurn
    <2>4. CASE logQueue' = Append(logQueue, recorded') /\ UNCHANGED refused
      <3>1. \A i \in DOMAIN logQueue : logQueue[i] \in 1..recorded
        BY <1>2 DEF ToSet
      <3>2. \A i \in DOMAIN written : written[i] \in 1..recorded
        BY <1>2 DEF ToSet
      <3>3. /\ IsIncreasing(Append(logQueue, recorded + 1))
            /\ ToSet(Append(logQueue, recorded + 1)) = ToSet(logQueue) \cup {recorded + 1}
        <4>1. recorded + 1 \in Nat /\ \A i \in DOMAIN logQueue : logQueue[i] < recorded + 1
          BY <1>1, <3>1
        <4> QED BY <1>1, <1>2, <4>1, AppendedRecord
      <3>4. \A i \in DOMAIN written, r \in ToSet(logQueue) \cup {recorded + 1} : written[i] < r
        BY <1>1, <1>2, <3>2 DEF ToSet
      <3>5. \A i \in DOMAIN written, j \in DOMAIN logQueue' : written[i] < logQueue'[j]
        <4>1. \A j \in DOMAIN logQueue' : logQueue'[j] \in ToSet(logQueue')
          BY DEF ToSet
        <4> QED BY <2>1, <2>4, <3>3, <3>4, <4>1
      <3>6. recorded + 1 \in 1..recorded + 1
        BY <1>1
      <3> QED BY <1>2, <2>1, <2>2, <2>4, <3>3, <3>5, <3>6 DEF RecordsInTurn
    <2> QED BY <1>4, <2>3, <2>4 DEF Record
  <1>5. CASE AppendRecord
    <2>1. /\ logQueue # <<>> /\ written' = Append(written, Head(logQueue)) /\ logQueue' = Tail(logQueue)
          /\ UNCHANGED <<recorded, refused>>
      BY <1>5 DEF AppendRecord
    <2>2. /\ IsIncreasing(logQueue') /\ ToSet(logQueue) = {Head(logQueue)} \cup ToSet(logQueue')
          /\ \A j \in DOMAIN logQueue' : Head(logQueue) < logQueue'[j]
          /\ 1 \in DOMAIN logQueue /\ Head(logQueue) = logQueue[1] /\ Head(logQueue) \in Nat
          /\ \A j \in DOMAIN logQueue' : j + 1 \in DOMAIN logQueue /\ logQueue'[j] = logQueue[j + 1]
      BY <1>1, <1>2, <2>1, FirstRecord
    <2>3. IsIncreasing(written') /\ ToSet(written') = ToSet(written) \cup {Head(logQueue)}
      <3>1. \A i \in DOMAIN written : written[i] < Head(logQueue)
        BY <1>2, <2>2
      <3> QED BY <1>1, <1>2, <2>1, <2>2, <3>1, AppendedRecord
    <2>4. \A i \in DOMAIN written, j \in DOMAIN logQueue' : written[i] < logQueue'[j]
      BY <1>2, <2>2
    <2>5. \A r \in ToSet(written) \cup {Head(logQueue)}, j \in DOMAIN logQueue' : r < logQueue'[j]
      BY <2>2, <2>4 DEF ToSet
    <2>6. \A i \in DOMAIN written', j \in DOMAIN logQueue' : written'[i] < logQueue'[j]
      <3>1. \A i \in DOMAIN written' : written'[i] \in ToSet(written')
        BY DEF ToSet
      <3> QED BY <2>3, <2>5, <3>1
    <2> QED BY <1>2, <2>1, <2>2, <2>3, <2>6 DEF RecordsInTurn
  <1>6. CASE /\ refused' = refused \cup {logQueue[i] : i \in DOMAIN logQueue} /\ logQueue' = <<>>
             /\ UNCHANGED <<recorded, written>>
    <2>1. IsIncreasing(logQueue') /\ ToSet(logQueue') = {} /\ DOMAIN logQueue' = {}
      BY <1>6, EmptyRecords
    <2>2. {logQueue[i] : i \in DOMAIN logQueue} = ToSet(logQueue)
      BY DEF ToSet
    <2> QED BY <1>2, <1>6, <2>1, <2>2 DEF RecordsInTurn
  <1>7. CASE OperationFailed \/ AppEnds
    BY <1>6, <1>7 DEF OperationFailed, AppEnds
  <1>8. CASE Stat \/ Unlink \/ MoveGeneration
    BY <1>3, <1>8 DEF Stat, Unlink, MoveGeneration
  <1> QED BY <1>4, <1>5, <1>7, <1>8 DEF LogNext

(***************************************************************************)
(* The steps keep the invariant.                                           *)
(***************************************************************************)
LEMMA RecordsOf ==
    ASSUME NEW S, NEW s \in Seq(S)
    PROVE  /\ {s[i] : i \in DOMAIN s} \subseteq S
           /\ \A x \in S : Append(s, x) \in Seq(S)
           /\ s # <<>> => Head(s) \in S /\ Tail(s) \in Seq(S)
  <1>1. \A i \in DOMAIN s : s[i] \in S
    OBVIOUS
  <1>2. \A x \in S : Append(s, x) \in Seq(S)
    OBVIOUS
  <1>3. s # <<>> => Head(s) \in S
    OBVIOUS
  <1>4. s # <<>> => Tail(s) \in Seq(S)
    OBVIOUS
  <1> QED BY <1>1, <1>2, <1>3, <1>4

LEMMA LogTyped == ASSUME LogInv, LogNext PROVE LogTypeOK'
  <1>1. LogTypeOK
    BY LogParts
  <1>2. /\ files \in [Generations -> Seq(1..MaxRecords)] /\ logQueue \in Seq(1..MaxRecords)
        /\ written \in Seq(1..MaxRecords) /\ recorded \in 0..MaxRecords /\ refused \subseteq 1..MaxRecords
        /\ moving \in Generations /\ ends \in 0..MaxEnds
    BY <1>1 DEF LogTypeOK
  <1>3. /\ MaxRecords \in Nat /\ MaxEnds \in Nat /\ MaxFiles \in Nat /\ MaxFiles >= 1
        /\ Generations = 0..MaxFiles - 1 /\ Oldest = MaxFiles - 1 /\ 0 \in Generations /\ Oldest \in Generations
    BY LogAssumption DEF Generations, Oldest
  <1>4. {logQueue[i] : i \in DOMAIN logQueue} \subseteq 1..MaxRecords
    BY <1>2, RecordsOf
  <1>5. <<>> \in Seq(1..MaxRecords)
    OBVIOUS
  <1>6. CASE Record
    <2>1. recorded < MaxRecords /\ recorded' = recorded + 1 /\ recorded' \in 0..MaxRecords
          /\ recorded' \in 1..MaxRecords
      BY <1>2, <1>3, <1>6 DEF Record
    <2>2. refused' \subseteq 1..MaxRecords /\ logQueue' \in Seq(1..MaxRecords)
      <3>1. PICK r \in 1..MaxRecords : recorded' = r
        BY <2>1
      <3>2. Append(logQueue, r) \in Seq(1..MaxRecords)
        BY <1>2, RecordsOf
      <3>3. \/ refused' = refused \cup {r} /\ logQueue' = logQueue
            \/ refused' = refused /\ logQueue' = Append(logQueue, r)
        BY <1>6, <3>1 DEF Record
      <3> QED BY <1>2, <3>2, <3>3
    <2> QED BY <1>1, <1>6, <2>1, <2>2 DEF LogTypeOK, Record
  <1>7. CASE Stat
    BY <1>1, <1>7 DEF LogTypeOK, Stat
  <1>8. CASE Unlink
    <2>1. files' \in [Generations -> Seq(1..MaxRecords)]
      BY <1>2, <1>3, <1>5, <1>8 DEF Unlink
    <2>2. moving' \in Generations /\ logStage' \in {"stat", "unlink", "rename", "append"}
      <3>1. CASE MaxFiles = 1
        BY <1>2, <1>8, <3>1 DEF Unlink
      <3>2. CASE MaxFiles # 1
        <4>1. Oldest - 1 \in Generations
          BY <1>3, <3>2
        <4> QED BY <1>8, <3>2, <4>1 DEF Unlink
      <3> QED BY <3>1, <3>2
    <2> QED BY <1>1, <1>8, <2>1, <2>2 DEF LogTypeOK, Unlink
  <1>9. CASE MoveGeneration
    <2>1. files[moving] \in Seq(1..MaxRecords)
      BY <1>2
    <2>2. files' \in [Generations -> Seq(1..MaxRecords)]
      BY <1>2, <1>5, <1>9, <2>1 DEF MoveGeneration, Rename
    <2>3. moving' \in Generations /\ logStage' \in {"stat", "unlink", "rename", "append"}
      <3>1. CASE moving = 0
        BY <1>2, <1>9, <3>1 DEF MoveGeneration
      <3>2. CASE moving # 0
        <4>1. moving - 1 \in Generations
          BY <1>2, <1>3, <3>2
        <4> QED BY <1>1, <1>9, <3>2, <4>1 DEF MoveGeneration, LogTypeOK
      <3> QED BY <3>1, <3>2
    <2> QED BY <1>1, <1>9, <2>2, <2>3 DEF LogTypeOK, MoveGeneration
  <1>10. CASE AppendRecord
    <2>1. logQueue # <<>>
      BY <1>10 DEF AppendRecord
    <2>2. Head(logQueue) \in 1..MaxRecords /\ Tail(logQueue) \in Seq(1..MaxRecords)
      BY <1>2, <2>1, RecordsOf
    <2>3. files[0] \in Seq(1..MaxRecords)
      BY <1>2, <1>3
    <2>4. Append(files[0], Head(logQueue)) \in Seq(1..MaxRecords)
          /\ Append(written, Head(logQueue)) \in Seq(1..MaxRecords)
      BY <1>2, <2>2, <2>3
    <2> QED BY <1>1, <1>10, <2>2, <2>4 DEF LogTypeOK, AppendRecord
  <1>11. CASE OperationFailed
    BY <1>1, <1>3, <1>4, <1>5, <1>11 DEF LogTypeOK, OperationFailed
  <1>12. CASE AppEnds
    <2>1. ends' \in 0..MaxEnds
      BY <1>2, <1>3, <1>12 DEF AppEnds
    <2> QED BY <1>1, <1>3, <1>4, <1>5, <1>12, <2>1 DEF LogTypeOK, AppEnds
  <1> QED BY <1>6, <1>7, <1>8, <1>9, <1>10, <1>11, <1>12 DEF LogNext

LEMMA ActiveKept == ASSUME LogInv, LogNext PROVE ActiveInPlace'
  <1>1. LogTypeOK /\ ActiveInPlace /\ RotationStage
    BY LogParts
  <1>2. /\ FileSize \in Nat /\ FileSize >= 1 /\ Oldest \in Nat /\ 0 \in 0..Oldest /\ DOMAIN files = 0..Oldest
        /\ written \in Seq(Nat) /\ files[0] \in Seq(Nat) /\ logQueue \in Seq(Nat)
    BY <1>1, LogTypes
  <1>3. CASE files'[0] = files[0] /\ written' = written
    BY <1>1, <1>3 DEF ActiveInPlace
  <1>4. CASE files'[0] = <<>> /\ written' = written
    BY <1>2, <1>4 DEF ActiveInPlace
  <1>5. CASE Unlink
    <2>1. CASE Oldest = 0
      BY <1>2, <1>4, <1>5, <2>1 DEF Unlink
    <2>2. CASE Oldest # 0
      BY <1>2, <1>3, <1>5, <2>2 DEF Unlink
    <2> QED BY <2>1, <2>2
  <1>6. CASE MoveGeneration
    <2>1. moving \in 0..Oldest
      BY <1>1, LogTypes
    <2>2. written' = written
      BY <1>6 DEF MoveGeneration
    <2>3. files'[0] = files[0] \/ files'[0] = <<>>
      <3>1. moving = 0 \/ (moving # 0 /\ moving + 1 # 0)
        BY <1>2, <2>1
      <3> QED BY <1>2, <1>6, <3>1 DEF MoveGeneration, Rename
    <2> QED BY <1>3, <1>4, <2>2, <2>3
  <1>7. CASE AppendRecord
    <2>1. /\ files'[0] = Append(files[0], Head(logQueue)) /\ written' = Append(written, Head(logQueue))
          /\ logQueue # <<>> /\ logStage = "append"
      BY <1>2, <1>7 DEF AppendRecord
    <2>2. PICK m \in Nat, k \in Nat : Len(written) = m /\ Len(files[0]) = k
      BY <1>2
    <2>3. k < FileSize /\ k <= m /\ \A i \in 1..k : files[0][i] = written[m - k + i]
      <3>1. k < FileSize
        BY <1>1, <2>1, <2>2 DEF RotationStage
      <3>2. k <= m
        BY <1>1, <2>2 DEF ActiveInPlace
      <3>3. DOMAIN files[0] = 1..k
        BY <1>2, <2>2
      <3>4. \A i \in 1..k : files[0][i] = written[m - k + i]
        BY <1>1, <2>2, <3>3 DEF ActiveInPlace
      <3> QED BY <3>1, <3>2, <3>4
    <2>4. PICK r \in Nat : Head(logQueue) = r
      BY <1>2, <2>1
    <2>5. PICK f, w : f = Append(files[0], r) /\ w = Append(written, r)
      OBVIOUS
    <2>6. /\ Len(f) = k + 1 /\ Len(w) = m + 1 /\ DOMAIN f = 1..k + 1 /\ f[k + 1] = r /\ w[m + 1] = r
          /\ (\A i \in 1..k : f[i] = files[0][i]) /\ (\A i \in 1..m : w[i] = written[i])
      <3>1. /\ Len(f) = k + 1 /\ DOMAIN f = 1..k + 1 /\ f[k + 1] = r
            /\ \A i \in 1..k : f[i] = files[0][i]
        BY <1>2, <2>2, <2>5, AppendedAt
      <3>2. Len(w) = m + 1 /\ w[m + 1] = r /\ \A i \in 1..m : w[i] = written[i]
        BY <1>2, <2>2, <2>5, AppendedAt
      <3> QED BY <3>1, <3>2
    <2>7. ASSUME NEW i \in 1..k + 1 PROVE f[i] = w[(m + 1) - (k + 1) + i]
      <3>1. CASE i = k + 1
        <4>1. (m + 1) - (k + 1) + i = m + 1
          BY <2>2, <3>1
        <4> QED BY <2>6, <3>1, <4>1
      <3>2. CASE i \in 1..k
        <4>1. (m + 1) - (k + 1) + i = m - k + i /\ m - k + i \in 1..m
          BY <2>2, <2>3, <3>2
        <4> QED BY <2>3, <2>6, <3>2, <4>1
      <3> QED BY <2>2, <3>1, <3>2
    <2>8. files'[0] = f /\ written' = w
      BY <2>1, <2>4, <2>5
    <2>9. k + 1 <= m + 1 /\ k + 1 <= FileSize
      BY <1>2, <2>2, <2>3
    <2> QED BY <2>6, <2>7, <2>8, <2>9 DEF ActiveInPlace
  <1>8. CASE Record \/ Stat \/ OperationFailed \/ AppEnds
    BY <1>3, <1>8 DEF Record, Stat, OperationFailed, AppEnds
  <1> QED BY <1>5, <1>6, <1>7, <1>8 DEF LogNext

LEMMA StageKept == ASSUME LogInv, LogNext PROVE RotationStage'
  <1>1. LogTypeOK /\ ActiveInPlace /\ RotationStage
    BY LogParts
  <1>2. /\ FileSize \in Nat /\ FileSize >= 1 /\ Oldest \in Nat /\ Oldest = MaxFiles - 1 /\ MaxFiles \in Nat
        /\ 0 \in 0..Oldest /\ DOMAIN files = 0..Oldest /\ moving \in 0..Oldest
        /\ files[0] \in Seq(Nat) /\ logQueue \in Seq(Nat) /\ Len(files[0]) <= FileSize
    BY <1>1, LogTypes DEF ActiveInPlace
  <1>3. CASE Record
    <2>1. UNCHANGED <<files, logStage, moving, disabled>>
      BY <1>3 DEF Record
    <2>2. (disabled /\ logQueue' = logQueue) \/ (~disabled /\ logQueue' = Append(logQueue, recorded'))
      BY <1>3 DEF Record
    <2>3. logQueue # <<>> => logQueue' # <<>>
      BY <1>2, <2>2
    <2> QED BY <1>1, <2>1, <2>2, <2>3 DEF RotationStage
  <1>4. CASE Stat
    <2>1. UNCHANGED <<files, logQueue, disabled>> /\ logQueue # <<>> /\ ~disabled
      BY <1>1, <1>4 DEF Stat, RotationStage
    <2>2. CASE files[0] # <<>> /\ Len(files[0]) + 1 > FileSize
      <3>1. logStage' = "unlink" /\ Len(files[0]) = FileSize
        BY <1>2, <1>4, <2>2 DEF Stat
      <3> QED BY <2>1, <3>1 DEF RotationStage
    <2>3. CASE ~(files[0] # <<>> /\ Len(files[0]) + 1 > FileSize)
      <3>1. logStage' = "append" /\ Len(files[0]) < FileSize
        BY <1>2, <1>4, <2>3 DEF Stat
      <3> QED BY <2>1, <3>1 DEF RotationStage
    <2> QED BY <2>2, <2>3
  <1>5. CASE Unlink
    <2>1. /\ files' = [files EXCEPT ![Oldest] = <<>>] /\ UNCHANGED <<logQueue, disabled>>
          /\ logQueue # <<>> /\ ~disabled /\ Len(files[0]) = FileSize
      BY <1>1, <1>5 DEF Unlink, RotationStage
    <2>2. CASE MaxFiles = 1
      <3>1. logStage' = "append" /\ files'[0] = <<>> /\ Len(files'[0]) = 0
        BY <1>2, <1>5, <2>1, <2>2 DEF Unlink
      <3> QED BY <1>2, <2>1, <3>1 DEF RotationStage
    <2>3. CASE MaxFiles # 1
      <3>1. logStage' = "rename" /\ moving' = Oldest - 1
        BY <1>5, <2>3 DEF Unlink
      <3>2. files'[0] = files[0] /\ files'[Oldest] = <<>> /\ (Oldest - 1) + 1 = Oldest
        BY <1>2, <2>1, <2>3
      <3>3. Oldest - 1 < Oldest
        BY <1>2
      <3> QED BY <2>1, <3>1, <3>2, <3>3 DEF RotationStage
    <2> QED BY <2>2, <2>3
  <1>6. CASE MoveGeneration
    <2>1. /\ UNCHANGED <<logQueue, disabled>> /\ logQueue # <<>> /\ ~disabled
          /\ Len(files[0]) = FileSize /\ moving < Oldest /\ files[moving + 1] = <<>>
      BY <1>1, <1>6 DEF MoveGeneration, RotationStage
    <2>2. files'[moving] = <<>>
      <3>1. moving # moving + 1 /\ moving \in DOMAIN files
        BY <1>2
      <3> QED BY <1>2, <1>6, <3>1 DEF MoveGeneration, Rename
    <2>3. CASE moving = 0
      <3>1. logStage' = "append" /\ Len(files'[0]) = 0
        BY <1>6, <2>2, <2>3 DEF MoveGeneration
      <3> QED BY <1>2, <2>1, <3>1 DEF RotationStage
    <2>4. CASE moving # 0
      <3>1. logStage' = "rename" /\ moving' = moving - 1
        BY <1>1, <1>6, <2>4 DEF MoveGeneration
      <3>2. files'[0] = files[0]
        <4>1. 0 # moving /\ 0 # moving + 1 /\ 0 \in DOMAIN files
          BY <1>2, <2>4
        <4> QED BY <1>2, <1>6, <4>1 DEF MoveGeneration, Rename
      <3>3. (moving - 1) + 1 = moving /\ moving - 1 < Oldest
        BY <1>2
      <3> QED BY <2>1, <2>2, <3>1, <3>2, <3>3 DEF RotationStage
    <2> QED BY <2>3, <2>4
  <1>7. CASE AppendRecord \/ OperationFailed \/ AppEnds
    <2>1. logStage' = "stat"
      BY <1>7 DEF AppendRecord, OperationFailed, AppEnds
    <2>2. disabled' => logQueue' = <<>>
      BY <1>1, <1>7 DEF AppendRecord, OperationFailed, AppEnds, RotationStage
    <2> QED BY <2>1, <2>2 DEF RotationStage
  <1> QED BY <1>3, <1>4, <1>5, <1>6, <1>7 DEF LogNext

LEMMA InitLog == LogInit => LogInv
  <1> SUFFICES ASSUME LogInit
               PROVE  LogInv
    OBVIOUS
  <1>1. /\ MaxRecords \in Nat /\ MaxEnds \in Nat /\ MaxFiles \in Nat /\ MaxFiles >= 1
        /\ FileSize \in Nat /\ FileSize >= 1
    BY LogAssumption
  <1>2. 0 \in Generations /\ <<>> \in Seq(1..MaxRecords) /\ 0 \in 0..MaxRecords /\ 0 \in 0..MaxEnds
    BY <1>1 DEF Generations
  <1>3. LogTypeOK
    BY <1>2 DEF LogInit, LogTypeOK
  <1>4. files[0] = <<>> /\ written = <<>> /\ logQueue = <<>> /\ logStage = "stat" /\ ~disabled
        /\ recorded = 0 /\ refused = {}
    BY <1>2 DEF LogInit
  <1>5. ActiveInPlace
    BY <1>1, <1>4 DEF ActiveInPlace
  <1>6. RotationStage
    BY <1>4 DEF RotationStage
  <1>7. RecordsInTurn
    <2>1. IsIncreasing(written) /\ IsIncreasing(logQueue) /\ ToSet(written) = {} /\ ToSet(logQueue) = {}
          /\ DOMAIN written = {}
      BY <1>4, EmptyRecords
    <2>2. 1..recorded = {}
      BY <1>4
    <2> QED BY <1>4, <2>1, <2>2 DEF RecordsInTurn
  <1> QED BY <1>3, <1>5, <1>6, <1>7, InitPlaces DEF LogInv

LEMMA NextLog == LogInv /\ [LogNext]_logVars => LogInv'
  <1> SUFFICES ASSUME LogInv, [LogNext]_logVars
               PROVE  LogInv'
    OBVIOUS
  <1>1. CASE LogNext
    <2>1. LogTypeOK'
      BY <1>1, LogTyped
    <2> QED BY <1>1, <2>1, ActiveKept, StageKept, RecordsKept, PlacesKept DEF LogInv
  <1>2. CASE UNCHANGED logVars
    <2>1. UNCHANGED <<files, logQueue, logStage, moving, disabled, recorded, ends, written, refused>>
      BY <1>2 DEF logVars
    <2>2. LogTypeOK' /\ ActiveInPlace' /\ RotationStage' /\ RecordsInTurn'
      BY <2>1, LogParts DEF LogTypeOK, ActiveInPlace, RotationStage, RecordsInTurn
    <2>3. PICK holes \in [1..MaxFiles -> 0..MaxFiles] : InPlace(holes)
      BY DEF LogInv
    <2>4. \A g : MayBeEmpty(g)' = MayBeEmpty(g)
      BY <2>1 DEF MayBeEmpty
    <2>5. AllowsNoFewer
      BY <2>4, LogParts, LogTypes DEF AllowsNoFewer
    <2>6. InPlace(holes)'
      BY <2>1, <2>2, <2>3, <2>5, LogParts, InPlaceSame
    <2> QED BY <2>2, <2>3, <2>6 DEF LogInv
  <1> QED BY <1>1, <1>2

(***************************************************************************)
(* What the invariant says of the files.                                   *)
(***************************************************************************)
\* the records of a generation are a stretch of those that were written, and the
\* stretches of the generations follow one another
LEMMA RecordsStand ==
    ASSUME LogInv, NEW holes \in [1..MaxFiles -> 0..MaxFiles], InPlace(holes), NEW g \in 0..Oldest
    PROVE  /\ Len(files[g]) <= FileSize
           /\ Upto(holes, g + 1) + Len(files[g]) = IF g = 0 THEN Len(written) ELSE Upto(holes, g)
           /\ \A i \in DOMAIN files[g] : /\ Upto(holes, g + 1) + i \in DOMAIN written
                                         /\ files[g][i] = written[Upto(holes, g + 1) + i]
  <1>1. LogTypeOK /\ ActiveInPlace
    BY LogParts
  <1>2. /\ FileSize \in Nat /\ FileSize >= 1 /\ Oldest \in Nat /\ Oldest = MaxFiles - 1 /\ MaxFiles \in Nat
        /\ written \in Seq(Nat) /\ files[g] \in Seq(Nat) /\ files[0] \in Seq(Nat)
    BY <1>1, LogTypes
  <1>3. PICK m \in Nat, k \in Nat, n \in Nat :
            Len(written) = m /\ Len(files[g]) = k /\ Len(files[0]) = n
    BY <1>2
  <1>4. DOMAIN written = 1..m /\ DOMAIN files[g] = 1..k
    BY <1>2, <1>3
  <1>5. g + 1 \in 1..MaxFiles /\ 1 \in 1..MaxFiles
    BY <1>2
  <1>6. n <= m /\ n <= FileSize
    BY <1>1, <1>3 DEF ActiveInPlace
  <1>7. PICK u \in Nat : Upto(holes, g + 1) = u
    <2>1. Upto(holes, g + 1) \in 0..m - n
      BY <1>1, <1>3, <1>5, UptoFalls
    <2> QED BY <1>3, <1>6, <2>1
  <1>8. CASE g = 0
    <2>1. u = m - n /\ k = n
      BY <1>1, <1>3, <1>7, <1>8, UptoFalls
    <2>2. \A i \in 1..k : u + i \in 1..m /\ files[g][i] = written[u + i]
      <3>1. \A i \in 1..k : files[g][i] = written[u + i]
        BY <1>1, <1>3, <1>4, <1>8, <2>1 DEF ActiveInPlace
      <3>2. \A i \in 1..k : u + i \in 1..m
        BY <1>3, <1>6, <2>1
      <3> QED BY <3>1, <3>2
    <2>3. u + k = m
      BY <1>3, <2>1
    <2> QED BY <1>3, <1>4, <1>6, <1>7, <1>8, <2>1, <2>2, <2>3
  <1>9. CASE g # 0
    <2>1. g \in 1..Oldest /\ g \in 1..MaxFiles
      BY <1>2, <1>9
    <2>2. GenerationInPlace(holes, g)
      BY <2>1 DEF InPlace
    <2>3. PICK v \in Nat : Upto(holes, g) = v /\ v <= m
      <3>1. Upto(holes, g) \in 0..m - n
        BY <1>1, <1>3, <2>1, UptoFalls
      <3> QED BY <1>3, <1>6, <3>1
    <2>4. CASE files[g] = <<>>
      <3>1. k = 0 /\ u = v
        BY <1>1, <1>3, <1>7, <2>1, <2>3, <2>4, UptoFalls
      <3>2. 1..k = {} /\ u + k = v /\ k <= FileSize
        BY <1>2, <2>3, <3>1
      <3> QED BY <1>3, <1>4, <1>7, <1>9, <2>3, <3>2
    <2>5. CASE files[g] # <<>>
      <3>1. k = FileSize /\ u = v - FileSize
        BY <1>1, <1>3, <1>7, <2>1, <2>2, <2>3, <2>5, UptoFalls DEF GenerationInPlace
      <3>2. \A i \in 1..k : files[g][i] = written[u + i]
        BY <2>2, <2>3, <2>5, <3>1 DEF GenerationInPlace
      <3>3. (\A i \in 1..k : u + i \in 1..m) /\ u + k = v /\ k <= FileSize
        BY <1>2, <1>3, <1>7, <2>3, <3>1
      <3> QED BY <1>3, <1>4, <1>7, <1>9, <2>3, <3>2, <3>3
    <2> QED BY <2>4, <2>5
  <1> QED BY <1>8, <1>9

\* the files hold the records that were written last
LEMMA FilesHoldTheEnd ==
    ASSUME LogInv, NEW holes \in [1..MaxFiles -> 0..MaxFiles], InPlace(holes)
    PROVE  \A r : r \in InFiles <=> \E b \in DOMAIN written : Upto(holes, MaxFiles) < b /\ r = written[b]
  <1>1. LogTypeOK /\ ActiveInPlace
    BY LogParts
  <1>2. /\ Oldest \in Nat /\ Oldest = MaxFiles - 1 /\ MaxFiles \in Nat /\ MaxFiles >= 1
        /\ Generations = 0..Oldest /\ written \in Seq(Nat)
    BY <1>1, LogTypes DEF Generations, Oldest
  <1>3. PICK m \in Nat : Len(written) = m /\ DOMAIN written = 1..m
    BY <1>2
  <1>4. \A g \in 1..MaxFiles : Upto(holes, g) \in Nat
    <2>1. files[0] \in Seq(Nat) /\ Len(files[0]) <= Len(written)
      BY <1>1, LogTypes DEF ActiveInPlace
    <2>2. PICK n \in Nat : Len(files[0]) = n
      BY <2>1
    <2>3. \A g \in 1..MaxFiles : Upto(holes, g) \in 0..m - n
      BY <1>1, <1>3, <2>2, UptoFalls
    <2> QED BY <1>3, <2>2, <2>3
  <1>5. ASSUME NEW r \in InFiles
        PROVE  \E b \in DOMAIN written : Upto(holes, MaxFiles) < b /\ r = written[b]
    <2>1. PICK g \in 0..Oldest : r \in ToSet(files[g])
      BY <1>2, <1>5 DEF InFiles
    <2>2. PICK i \in DOMAIN files[g] : r = files[g][i]
      BY <2>1 DEF ToSet
    <2>3. g + 1 \in 1..MaxFiles /\ MaxFiles \in 1..MaxFiles /\ g + 1 <= MaxFiles
      BY <1>2
    <2>4. PICK u \in Nat : u = Upto(holes, g + 1)
      BY <1>4, <2>3
    <2>5. PICK v \in Nat : v = Upto(holes, MaxFiles)
      BY <1>4, <2>3
    <2>6. v <= u
      BY <1>1, <2>3, <2>4, <2>5, UptoFalls
    <2>7. u + i \in DOMAIN written /\ r = written[u + i]
      BY <2>2, <2>4, RecordsStand
    <2>8. i \in Nat /\ i >= 1
      <3>1. files[g] \in Seq(Nat)
        BY <1>1, LogTypes
      <3> QED BY <2>2, <3>1
    <2>9. v < u + i
      BY <2>4, <2>5, <2>6, <2>8
    <2> QED BY <2>5, <2>7, <2>9
  <1>6. ASSUME NEW b \in DOMAIN written, Upto(holes, MaxFiles) < b
        PROVE  written[b] \in InFiles
    <2> DEFINE Below == {g \in 1..MaxFiles : Upto(holes, g) < b}
    <2>1. MaxFiles \in Below /\ Below \subseteq Nat
      BY <1>2, <1>6
    <2>2. PICK h \in Below : \A other \in Below : h <= other
      <3> HIDE DEF Below
      <3> QED BY <2>1, LeastOf
    <2>3. PICK g \in 0..Oldest : h = g + 1
      <3>1. h - 1 \in 0..Oldest /\ h = (h - 1) + 1
        BY <1>2, <2>2
      <3> QED BY <3>1
    <2>4. PICK u \in Nat : u = Upto(holes, g + 1) /\ u < b
      BY <1>4, <2>2, <2>3
    <2>5. files[g] \in Seq(Nat)
      BY <1>1, LogTypes
    <2>6. PICK k \in Nat : Len(files[g]) = k /\ DOMAIN files[g] = 1..k
      BY <2>5
    <2>7. b <= u + k
      <3>1. CASE g = 0
        BY <1>3, <2>4, <2>6, <3>1, RecordsStand
      <3>2. CASE g # 0
        <4>1. g \in 1..MaxFiles /\ g < h
          BY <1>2, <2>3, <3>2
        <4>2. g \notin Below
          BY <1>2, <2>2, <2>3, <4>1
        <4>3. PICK v \in Nat : v = Upto(holes, g)
          BY <1>4, <4>1
        <4>4. ~ (v < b)
          BY <4>1, <4>2, <4>3
        <4>5. u + k = v
          BY <2>4, <2>6, <3>2, <4>3, RecordsStand
        <4> QED BY <1>3, <4>3, <4>4, <4>5
      <3> QED BY <3>1, <3>2
    <2>8. b - u \in 1..k /\ u + (b - u) = b
      BY <1>3, <2>4, <2>6, <2>7
    <2>9. files[g][b - u] = written[b]
      BY <2>4, <2>6, <2>8, RecordsStand, SMTT(60)
    <2>10. written[b] \in ToSet(files[g])
      BY <2>6, <2>8, <2>9 DEF ToSet
    <2> QED BY <1>2, <2>10 DEF InFiles
  <1> QED BY <1>5, <1>6

\* how many of the last records the files still hold
LEMMA LossBound ==
    ASSUME LogInv, NEW holes \in [1..MaxFiles -> 0..MaxFiles], InPlace(holes),
           NEW i \in DOMAIN written, i + (MaxFiles - 1 - ends) * FileSize > Len(written)
    PROVE  Upto(holes, MaxFiles) < i
  <1>1. LogTypeOK /\ ActiveInPlace
    BY LogParts
  <1>2. /\ MaxFiles \in Nat /\ MaxFiles >= 1 /\ FileSize \in Nat /\ FileSize >= 1 /\ ends \in Nat
        /\ written \in Seq(Nat) /\ files[0] \in Seq(Nat) /\ Len(files[0]) <= Len(written)
    <2>1. 0 \in 0..Oldest
      BY <1>1, LogTypes
    <2>2. Len(files[0]) <= Len(written)
      BY <1>1 DEF ActiveInPlace
    <2> QED BY <1>1, <2>1, <2>2, LogTypes
  <1>3. PICK m \in Nat, n \in Nat : Len(written) = m /\ Len(files[0]) = n /\ n <= m
    BY <1>2
  <1>4. MaxFiles \in 1..MaxFiles
    BY <1>2
  <1>5. PICK v \in Nat : v = Upto(holes, MaxFiles)
    <2>1. Upto(holes, MaxFiles) \in 0..m - n
      BY <1>1, <1>3, <1>4, UptoFalls
    <2> QED BY <1>3, <2>1
  <1>6. PICK e \in Nat : e = holes[MaxFiles]
    BY <1>4
  <1>7. i \in Nat /\ i >= 1
    BY <1>2
  <1>8. PICK a \in Int : a = MaxFiles - 1 - ends
    BY <1>2
  <1>9. PICK c \in Int : c = MaxFiles - 1 - e
    BY <1>2
  <1>10. PICK x \in Int, y \in Int : x = a * FileSize /\ y = c * FileSize
    BY <1>2
  <1>11. v = m - n - y
    BY <1>3, <1>5, <1>6, <1>9, <1>10 DEF Upto
  <1>12. i + x > m
    BY <1>3, <1>8, <1>10
  <1>13. CASE v = 0
    BY <1>5, <1>7, <1>13
  <1>14. CASE v > 0
    <2>1. e <= MayBeEmpty(MaxFiles)
      BY <1>5, <1>6, <1>14 DEF InPlace
    <2>2. e <= ends \/ (e = ends + 1 /\ n = FileSize)
      <3>1. CASE MayBeEmpty(MaxFiles) = ends
        BY <2>1, <3>1
      <3>2. CASE MayBeEmpty(MaxFiles) = ends + 1 /\ n = FileSize
        BY <1>2, <1>6, <2>1, <3>2
      <3> QED BY <1>3, <3>1, <3>2 DEF MayBeEmpty
    <2>3. CASE e <= ends
      <3>1. a <= c
        BY <1>2, <1>6, <1>8, <1>9, <2>3
      <3>2. x <= y
        BY <1>10, <3>1, FilesOf
      <3> QED BY <1>3, <1>5, <1>7, <1>10, <1>11, <1>12, <3>2
    <2>4. CASE e = ends + 1 /\ n = FileSize
      <3>1. c = a - 1
        BY <1>2, <1>6, <1>8, <1>9, <2>4
      <3>2. y = x - FileSize
        BY <1>10, <3>1, FilesOf
      <3>3. v = m - x
        BY <1>2, <1>3, <1>10, <1>11, <2>4, <3>2
      <3> QED BY <1>3, <1>5, <1>7, <1>10, <1>12, <3>3
    <2> QED BY <2>2, <2>3, <2>4
  <1> QED BY <1>5, <1>13, <1>14

\* a stretch of the records that were written is in their order
LEMMA LaterIsGreater ==
    ASSUME LogInv, NEW a \in DOMAIN written, NEW b \in DOMAIN written
    PROVE  /\ a < b => written[a] < written[b]
           /\ written[a] < written[b] => a < b
  <1>1. IsIncreasing(written)
    BY LogParts DEF RecordsInTurn
  <1>2. written \in Seq(Nat)
    BY LogParts, LogTypes
  <1>3. a \in Nat /\ b \in Nat /\ written[a] \in Nat /\ written[b] \in Nat
    BY <1>2
  <1>4. a < b => written[a] < written[b]
    BY <1>1 DEF IsIncreasing
  <1>5. b < a => written[b] < written[a]
    BY <1>1 DEF IsIncreasing
  <1> QED BY <1>3, <1>4, <1>5

LEMMA LogOrdered == LogInv => LogIsOrdered
  <1> SUFFICES ASSUME LogInv
               PROVE  LogIsOrdered
    OBVIOUS
  <1>1. LogTypeOK /\ ActiveInPlace /\ RecordsInTurn
    BY LogParts
  <1>2. PICK holes \in [1..MaxFiles -> 0..MaxFiles] : InPlace(holes)
    BY DEF LogInv
  <1>3. Generations = 0..Oldest /\ Oldest \in Nat /\ Oldest = MaxFiles - 1 /\ MaxFiles \in Nat
    BY <1>1, LogTypes DEF Generations, Oldest
  <1>4. \A g \in 0..Oldest : /\ files[g] \in Seq(Nat)
                             /\ \A i \in DOMAIN files[g] : i \in Nat
    <2>1. \A g \in 0..Oldest : files[g] \in Seq(Nat)
      BY <1>1, LogTypes
    <2>2. \A s \in Seq(Nat) : \A i \in DOMAIN s : i \in Nat
      OBVIOUS
    <2> QED BY <2>1, <2>2
  <1>5. \A g \in 0..Oldest : Upto(holes, g + 1) \in Nat
    <2>1. files[0] \in Seq(Nat) /\ written \in Seq(Nat) /\ Len(files[0]) <= Len(written)
      BY <1>1, LogTypes DEF ActiveInPlace
    <2>2. PICK m \in Nat, n \in Nat : Len(files[0]) = n /\ Len(written) = m /\ n <= m
      BY <2>1
    <2>3. \A g \in 1..MaxFiles : Upto(holes, g) \in 0..m - n
      BY <1>1, <1>2, <2>2, UptoFalls
    <2>4. \A g \in 0..Oldest : g + 1 \in 1..MaxFiles
      BY <1>3
    <2> QED BY <2>2, <2>3, <2>4
  <1>6. ASSUME NEW g \in 0..Oldest PROVE Len(files[g]) <= FileSize /\ IsIncreasing(files[g])
    <2>1. Len(files[g]) <= FileSize
      BY <1>2, RecordsStand
    <2>2. PICK u \in Nat : u = Upto(holes, g + 1)
      BY <1>5
    <2>3. ASSUME NEW i \in DOMAIN files[g], NEW j \in DOMAIN files[g], i < j
          PROVE  files[g][i] < files[g][j]
      <3>1. /\ u + i \in DOMAIN written /\ files[g][i] = written[u + i]
            /\ u + j \in DOMAIN written /\ files[g][j] = written[u + j]
        BY <1>2, <2>2, RecordsStand
      <3>2. u + i < u + j
        BY <1>4, <2>2, <2>3
      <3> QED BY <3>1, <3>2, LaterIsGreater
    <2> QED BY <2>1, <2>3 DEF IsIncreasing
  <1>7. ASSUME NEW g \in 0..Oldest, NEW h \in 0..Oldest, g > h,
               NEW older \in ToSet(files[g]), NEW newer \in ToSet(files[h])
        PROVE  older < newer
    <2>1. PICK i \in DOMAIN files[g] : older = files[g][i]
      BY DEF ToSet
    <2>2. PICK j \in DOMAIN files[h] : newer = files[h][j]
      BY DEF ToSet
    <2>3. PICK u \in Nat : u = Upto(holes, g + 1)
      BY <1>5
    <2>4. PICK v \in Nat : v = Upto(holes, h + 1)
      BY <1>5
    <2>5. /\ u + i \in DOMAIN written /\ older = written[u + i]
          /\ v + j \in DOMAIN written /\ newer = written[v + j]
      BY <1>2, <2>1, <2>2, <2>3, <2>4, RecordsStand
    <2>6. u + i <= v
      <3>1. g \in 1..MaxFiles /\ h + 1 \in 1..MaxFiles /\ h + 1 <= g /\ g # 0 /\ (g - 1) + 1 = g
            /\ g - 1 \in 0..Oldest
        BY <1>3, <1>7
      <3>2. PICK w \in Nat : w = Upto(holes, g)
        BY <1>5, <3>1
      <3>3. w <= v
        BY <1>1, <1>2, <2>4, <3>1, <3>2, UptoFalls
      <3>4. PICK k \in Nat : k = Len(files[g]) /\ DOMAIN files[g] = 1..k
        <4>1. files[g] \in Seq(Nat)
          BY <1>4
        <4> QED BY <4>1
      <3>5. u + k = w
        BY <1>2, <2>3, <3>1, <3>2, <3>4, RecordsStand
      <3> QED BY <2>1, <2>3, <2>4, <3>2, <3>3, <3>4, <3>5, SMTT(60)
    <2>7. j >= 1 /\ j \in Nat /\ i \in Nat
      BY <1>4, <2>1, <2>2
    <2>8. u + i < v + j
      BY <2>3, <2>4, <2>6, <2>7
    <2> QED BY <2>5, <2>8, LaterIsGreater
  <1>8. InFiles \subseteq ToSet(written)
    <2>1. \A b \in DOMAIN written : written[b] \in ToSet(written)
      BY DEF ToSet
    <2> QED BY <1>2, <2>1, FilesHoldTheEnd
  <1>9. ASSUME NEW r \in InFiles, NEW w \in ToSet(written), r < w PROVE w \in InFiles
    <2>1. PICK b \in DOMAIN written : Upto(holes, MaxFiles) < b /\ r = written[b]
      BY <1>2, FilesHoldTheEnd
    <2>2. PICK c \in DOMAIN written : w = written[c]
      BY DEF ToSet
    <2>3. b < c
      BY <1>9, <2>1, <2>2, LaterIsGreater
    <2>4. PICK v \in Nat : v = Upto(holes, MaxFiles)
      <3>1. Oldest \in 0..Oldest /\ Oldest + 1 = MaxFiles
        BY <1>3
      <3> QED BY <1>5, <3>1
    <2>5. b \in Nat /\ c \in Nat
      BY <1>1, LogTypes, SMTT(60)
    <2>6. v < c
      BY <2>1, <2>3, <2>4, <2>5
    <2> QED BY <1>2, <2>2, <2>4, <2>6, FilesHoldTheEnd
  <1>10. ASSUME NEW i \in DOMAIN written, i + (MaxFiles - 1 - ends) * FileSize > Len(written)
         PROVE  written[i] \in InFiles
    BY <1>2, <1>10, FilesHoldTheEnd, LossBound
  <1>11. IsIncreasing(written) /\ 1..recorded = ToSet(written) \cup ToSet(logQueue) \cup refused
    BY <1>1 DEF RecordsInTurn
  <1> QED BY <1>3, <1>6, <1>7, <1>8, <1>9, <1>10, <1>11 DEF LogIsOrdered

\* Whatever step of a rotation fails or is the last before the app ends, the generations
\* above the active file hold, full or empty, consecutive stretches of what was written
\* (diagnostic-log-store.ts:71-84, 122-156).
THEOREM LogInductive == LogSpec => []LogInv
  BY InitLog, NextLog, PTL DEF LogSpec

\* The files hold the end of what was written, in the order in which it was recorded;
\* a rotation that was cut short costs one generation, and no record disappears except
\* in a store that is turned off or with the app's end (diagnostic-log-store.ts:71-84, 122-156).
THEOREM LogStaysOrdered == LogSpec => []LogIsOrdered
  BY LogInductive, LogOrdered, PTL

(***************************************************************************)
(* The output log and its window.                                          *)
(***************************************************************************)
\* the log after the events is what goes through the events step by step
LEMMA AfterIs ==
    ASSUME NEW events, Len(events) \in Nat, NEW S, NEW logs \in [0..Len(events) -> S],
           \A i \in 1..Len(events) : logs[i] = Reduce(logs[i - 1], events[i])
    PROVE  After(logs[0], events) = logs[Len(events)]
  <1>0. PICK n \in Nat : Len(events) = n
    OBVIOUS
  <1> DEFINE log == logs[0]
              Follow(f) == f = [i \in 0..n |-> IF i = 0 THEN log ELSE Reduce(f[i - 1], events[i])]
             after == CHOOSE f : Follow(f)
  <1>1. After(log, events) = after[n]
    BY <1>0 DEF After
  <1>2. \A i \in 0..n : logs[i] = IF i = 0 THEN log ELSE Reduce(logs[i - 1], events[i])
    <2> TAKE i \in 0..n
    <2>1. i = 0 \/ (i # 0 /\ i \in 1..n)
      OBVIOUS
    <2> QED BY <1>0, <2>1, Zenon
  <1>3. Follow(logs)
    BY <1>0, <1>2
  <1>4. Follow(after)
    <2> HIDE DEF Follow
    <2> QED BY <1>3, Zenon
  <1>5. \A i \in 0..n : after[i] = IF i = 0 THEN log ELSE Reduce(after[i - 1], events[i])
    <2> HIDE DEF after
    <2> QED BY <1>4
  <1> DEFINE Differ == {i \in 0..n : after[i] # logs[i]}
  <1>6. Differ = {}
    <2> HIDE DEF after
    <2> SUFFICES ASSUME Differ # {} PROVE FALSE
      OBVIOUS
    <2>1. PICK least \in Differ : \A other \in Differ : least <= other
      <3>1. Differ \subseteq Nat
        OBVIOUS
      <3> HIDE DEF Differ
      <3> QED BY <3>1, LeastOf
    <2>2. least # 0
      BY <1>5, <1>2, <2>1
    <2>3. least - 1 \in 0..n /\ least - 1 \notin Differ
      BY <2>1, <2>2
    <2>4. after[least - 1] = logs[least - 1]
      BY <2>3
    <2> QED BY <1>2, <1>5, <2>1, <2>2, <2>4
  <1> QED
    <2> HIDE DEF after
    <2> QED BY <1>0, <1>1, <1>6

\* a row is added to the last rows of a session
LEMMA RowsGrow ==
    ASSUME NEW count \in Nat, NEW n \in Nat, count <= n
    PROVE  /\ RowsUpTo(Capped(count), n) \in Seq(Nat)
           /\ Len(RowsUpTo(Capped(count), n)) = Capped(count)
           /\ Retained(Append(RowsUpTo(Capped(count), n), n + 1)) = RowsUpTo(Capped(count + 1), n + 1)
  <1> USE OutputAssumption
  <1>1. PICK c \in Nat : c = Capped(count) /\ c <= count /\ c <= MaxRows /\ (c < MaxRows => c = count)
    BY DEF Capped
  <1>2. Capped(count + 1) = IF c < MaxRows THEN c + 1 ELSE c
    BY <1>1 DEF Capped
  <1> DEFINE rows == RowsUpTo(c, n)
  <1>3. rows \in Seq(Nat) /\ Len(rows) = c /\ \A i \in 1..c : rows[i] = n - c + i
    BY <1>1 DEF RowsUpTo
  <1>4. /\ Append(rows, n + 1) \in Seq(Nat) /\ Len(Append(rows, n + 1)) = c + 1
        /\ \A i \in 1..c + 1 : Append(rows, n + 1)[i] = n - c + i
    <2> HIDE DEF rows
    <2> QED BY <1>3
  <1>5. CASE c < MaxRows
    <2>1. Retained(Append(rows, n + 1)) = Append(rows, n + 1)
      BY <1>4, <1>5 DEF Retained
    <2>2. RowsUpTo(c + 1, n + 1) = [i \in 1..c + 1 |-> n + 1 - (c + 1) + i]
      BY DEF RowsUpTo
    <2>3. Append(rows, n + 1) = [i \in 1..c + 1 |-> n + 1 - (c + 1) + i]
      <3>1. Append(rows, n + 1) = [i \in 1..c + 1 |-> Append(rows, n + 1)[i]]
        <4> HIDE DEF rows
        <4> QED BY <1>4
      <3> QED BY <3>1, <1>4
    <2> QED BY <1>1, <1>2, <1>3, <1>5, <2>1, <2>2, <2>3
  <1>6. CASE c = MaxRows
    <2>1. Retained(Append(rows, n + 1)) = SubSeq(Append(rows, n + 1), 2, c + 1)
      <3>1. MaxRows = c /\ Len(Append(rows, n + 1)) > MaxRows
        <4> HIDE DEF rows
        <4> QED BY <1>4, <1>6
      <3>2. Len(Append(rows, n + 1)) - MaxRows + 1 = 2
        <4> HIDE DEF rows
        <4> QED BY <1>4, <1>6
      <3> HIDE DEF rows
      <3> QED BY <1>4, <3>1, <3>2 DEF Retained, LastRows
    <2>2. SubSeq(Append(rows, n + 1), 2, c + 1) = [i \in 1..c |-> Append(rows, n + 1)[i + 1]]
      <3> HIDE DEF rows
      <3> QED BY <1>4, <1>6
    <2>3. RowsUpTo(c, n + 1) = [i \in 1..c |-> n + 1 - c + i]
      BY DEF RowsUpTo
    <2>4. \A i \in 1..c : Append(rows, n + 1)[i + 1] = n + 1 - c + i
      <3> HIDE DEF rows
      <3> QED BY <1>4
    <2>5. SubSeq(Append(rows, n + 1), 2, c + 1) = RowsUpTo(c, n + 1)
      <3> HIDE DEF rows
      <3> QED BY <2>2, <2>3, <2>4
    <2>6. Capped(count) = c /\ Capped(count + 1) = c
      BY <1>1, <1>2, <1>6
    <2> HIDE DEF rows
    <2>7. Retained(Append(rows, n + 1)) = RowsUpTo(c, n + 1)
      BY <2>1, <2>5
    <2> QED BY <1>3, <2>6, <2>7 DEF rows
  <1> QED BY <1>1, <1>5, <1>6

LEMMA NoRows ==
    ASSUME NEW n \in Nat
    PROVE  /\ Capped(0) = 0 /\ RowsUpTo(0, n) = <<>>
           /\ Capped(1) = 1 /\ RowsUpTo(1, n) = <<n>>
  <1>1. Capped(0) = 0 /\ Capped(1) = 1
    BY OutputAssumption DEF Capped
  <1>2. RowsUpTo(0, n) = [i \in 1..0 |-> n - 0 + i]
    BY DEF RowsUpTo
  <1>3. RowsUpTo(1, n) = [i \in 1..1 |-> n - 1 + i]
    BY DEF RowsUpTo
  <1>4. <<n>> = [i \in 1..1 |-> n - 1 + i]
    <2>1. \A i \in 1..1 : i = 1
      OBVIOUS
    <2>2. n - 1 + 1 = n
      OBVIOUS
    <2> QED BY <2>1, <2>2
  <1> QED BY <1>1, <1>2, <1>3, <1>4

\* the parts of what leads from one point to the next
LEMMA LeadingEvent ==
    ASSUME NEW p \in Points, NEW q \in Points, NEW m \in Events, Leads(p, m, q)
    PROVE  /\ p.session \in Nat /\ p.number \in Nat /\ q.session \in Nat /\ q.number \in Nat
           /\ m.log.session = q.session
           /\ \/ m.type = "reset" /\ m.log = LogAt(q) /\ q.session = p.session + 1 /\ q.number = 0
              \/ /\ m.type = "append" /\ m.row = q.number /\ q.session = p.session
                 /\ q.number = p.number + 1
                 /\ m.log = [session |-> q.session, rows |-> <<q.number>>,
                             omitted |-> q.number - Capped(q.number)]
  <1>1. m.type \in {"reset", "append"}
    BY DEF Events
  <1>2. p.session \in Nat /\ p.number \in Nat /\ q.session \in Nat /\ q.number \in Nat
    BY OutputAssumption DEF Points
  <1>3. LogAt(q).session = q.session /\ LogAt(q).omitted = q.number - Capped(q.number)
    BY DEF LogAt, LastOf
  <1>4. [LogAt(q) EXCEPT !.rows = <<q.number>>]
          = [session |-> q.session, rows |-> <<q.number>>, omitted |-> q.number - Capped(q.number)]
    BY DEF LogAt, LastOf
  <1> QED BY <1>1, <1>2, <1>3, <1>4 DEF Leads

LEMMA RowsAre ==
    ASSUME NEW p \in Points, NEW count \in 0..p.number
    PROVE  /\ count \in Nat /\ p.number \in Nat /\ p.session \in Nat
           /\ Capped(count) \in 0..count /\ Capped(count) <= MaxRows
           /\ LastOf(p, count).session = p.session
           /\ LastOf(p, count).rows \in Seq(Nat)
           /\ Len(LastOf(p, count).rows) = Capped(count)
           /\ \A i \in 1..Capped(count) : LastOf(p, count).rows[i] = (p.number - Capped(count)) + i
           /\ ToSet(LastOf(p, count).rows) = (p.number - Capped(count)) + 1..p.number
  <1>1. p.number \in Nat /\ p.session \in Nat /\ count \in Nat
    BY OutputAssumption DEF Points
  <1>2. Capped(count) \in 0..count /\ Capped(count) <= MaxRows
    BY <1>1, OutputAssumption DEF Capped
  <1>3. LastOf(p, count).rows = RowsUpTo(Capped(count), p.number) /\ LastOf(p, count).session = p.session
    BY DEF LastOf
  <1>4. PICK c \in Nat : c = Capped(count) /\ c <= p.number
    BY <1>1, <1>2
  <1>5. PICK n \in Nat : n = p.number
    BY <1>1
  <1> DEFINE rows == RowsUpTo(c, n)
  <1>6. rows \in Seq(Nat) /\ Len(rows) = c /\ \A i \in 1..c : rows[i] = (n - c) + i
    BY <1>4, <1>5 DEF RowsUpTo
  <1>7. ToSet(rows) = (n - c) + 1..n
    <2> HIDE DEF rows
    <2>1. ToSet(rows) = {rows[i] : i \in 1..c}
      BY <1>6, SMTT(60) DEF ToSet
    <2>2. \A row \in (n - c) + 1..n : row - (n - c) \in 1..c /\ row = (n - c) + (row - (n - c))
      BY <1>4, <1>5
    <2>3. \A i \in 1..c : (n - c) + i \in (n - c) + 1..n
      BY <1>4, <1>5
    <2>4. ToSet(rows) \subseteq (n - c) + 1..n
      BY <1>6, <2>1, <2>3
    <2>5. ASSUME NEW row \in (n - c) + 1..n PROVE row \in ToSet(rows)
      <3>1. row - (n - c) \in 1..c /\ rows[row - (n - c)] = (n - c) + (row - (n - c))
        BY <1>6, <2>2
      <3>2. rows[row - (n - c)] = row
        BY <2>2, <3>1
      <3> QED BY <2>1, <3>1, <3>2
    <2> QED BY <2>4, <2>5
  <1> QED BY <1>1, <1>2, <1>3, <1>4, <1>5, <1>6, <1>7

\* an event that leads on extends any copy of the last rows
LEMMA ReduceLeads ==
    ASSUME NEW p \in Points, NEW q \in Points, NEW m \in Events, Leads(p, m, q),
           NEW count \in 0..p.number
    PROVE  Reduce(LastOf(p, count), m) = LastOf(q, IF q.session = p.session THEN count + 1 ELSE 0)
  <1> DEFINE log == LastOf(p, count)
  <1>1. PICK c \in Nat : c = count /\ c <= p.number
    BY RowsAre
  <1>2. log.session = p.session /\ log.rows = RowsUpTo(Capped(c), p.number)
    BY <1>1 DEF LastOf
  <1>3. CASE m.type = "reset"
    <2>1. m.log = LogAt(q) /\ q.session = p.session + 1 /\ q.number = 0 /\ m.log.session = q.session
      BY <1>3, LeadingEvent, ZenonT(60)
    <2>2. ~ (m.log.session < log.session) /\ q.session # p.session
      <3>1. p.session \in Nat
        BY RowsAre
      <3> QED BY <1>2, <2>1, <3>1
    <2>3. Reduce(log, m) = m.log
      BY <1>3, <2>2 DEF Reduce
    <2> QED BY <2>1, <2>2, <2>3 DEF LogAt
  <1>4. CASE m.type = "append"
    <2>1. /\ m.row = q.number /\ q.session = p.session /\ q.number = p.number + 1
          /\ m.log = [session |-> q.session, rows |-> <<q.number>>, omitted |-> q.number - Capped(q.number)]
      BY <1>4, LeadingEvent
    <2>2. m.log.session = log.session /\ log.session \in Nat
      BY <1>2, <2>1, LeadingEvent
    <2>3. ~ (m.log.session < log.session) /\ ~ (m.log.session > log.session)
      BY <2>2
    <2>4. m.row \notin ToSet(log.rows)
      <3>1. ToSet(log.rows) = (p.number - Capped(count)) + 1..p.number /\ p.number \in Nat
        BY RowsAre
      <3> QED BY <2>1, <3>1
    <2>5. Reduce(log, m) = [m.log EXCEPT !.rows = Retained(Append(log.rows, m.row))]
      BY <1>4, <2>3, <2>4 DEF Reduce
    <2>6. Retained(Append(log.rows, m.row)) = RowsUpTo(Capped(c + 1), q.number)
      <3>1. PICK n \in Nat : n = p.number /\ c <= n
        BY <1>1, RowsAre
      <3>2. Retained(Append(RowsUpTo(Capped(c), n), n + 1)) = RowsUpTo(Capped(c + 1), n + 1)
        BY <3>1, RowsGrow
      <3> QED BY <1>2, <2>1, <3>1, <3>2
    <2>7. Reduce(log, m) = [session |-> q.session, rows |-> RowsUpTo(Capped(c + 1), q.number),
                            omitted |-> q.number - Capped(q.number)]
      <3> HIDE DEF log
      <3> QED BY <2>1, <2>5, <2>6
    <2> QED BY <1>1, <2>1, <2>7 DEF LastOf
  <1> QED BY <1>3, <1>4 DEF Events

LEMMA LeadingLog ==
    ASSUME NEW p \in Points, NEW q \in Points, NEW m \in Events, Leads(p, m, q)
    PROVE  m.log.session = q.session
  <1>1. LogAt(q).session = q.session /\ [LogAt(q) EXCEPT !.rows = <<q.number>>].session = q.session
    BY DEF LogAt, LastOf
  <1>2. m.type = "reset" \/ m.type = "append"
    BY DEF Events
  <1> QED BY <1>1, <1>2 DEF Leads

\* and one that comes first makes a copy
LEMMA ReduceFirst ==
    ASSUME NEW p \in Points, NEW q \in Points, NEW m \in Events, Leads(p, m, q)
    PROVE  Reduce(EmptyLog, m) = LastOf(q, IF q.session = p.session THEN 1 ELSE 0)
  <1>1. EmptyLog.session = 0 /\ EmptyLog.rows = <<>> /\ ToSet(EmptyLog.rows) = {}
    BY DEF EmptyLog, ToSet
  <1>2. m.log.session = q.session /\ q.session \in Nat /\ p.session \in Nat /\ q.number \in Nat
    <2>1. q.session \in Nat /\ p.session \in Nat /\ q.number \in Nat
      BY OutputAssumption DEF Points
    <2>2. m.log.session = q.session
      BY LeadingLog
    <2> QED BY <2>1, <2>2
  <1>3. ~ (m.log.session < EmptyLog.session)
    BY <1>1, <1>2
  <1>4. CASE m.type = "reset"
    <2>1. m.log = LogAt(q) /\ q.session = p.session + 1 /\ q.number = 0
      BY <1>4, LeadingEvent, ZenonT(60)
    <2>2. q.session # p.session
      BY <1>2, <2>1
    <2>3. Reduce(EmptyLog, m) = m.log
      BY <1>3, <1>4 DEF Reduce
    <2> QED BY <2>1, <2>2, <2>3 DEF LogAt
  <1>5. CASE m.type = "append"
    <2>1. /\ m.row = q.number /\ q.session = p.session
          /\ m.log = [session |-> q.session, rows |-> <<q.number>>, omitted |-> q.number - Capped(q.number)]
      BY <1>5, LeadingEvent
    <2>2. m.log = LastOf(q, 1)
      BY <1>2, <2>1, NoRows DEF LastOf
    <2>3. Retained(Append(EmptyLog.rows, m.row)) = <<q.number>>
      <3>1. Append(EmptyLog.rows, m.row) = <<q.number>>
        BY <1>1, <2>1
      <3>2. Len(<<q.number>>) = 1
        OBVIOUS
      <3> QED BY <3>1, <3>2, OutputAssumption DEF Retained
    <2>4. [m.log EXCEPT !.rows = <<q.number>>] = m.log
      BY <2>1
    <2>5. Reduce(EmptyLog, m) = m.log
      BY <1>1, <1>3, <1>5, <2>3, <2>4 DEF Reduce
    <2> QED BY <2>1, <2>2, <2>5
  <1> QED BY <1>4, <1>5 DEF Events

\* what a chain of messages says of its points
LEMMA ChainedPoints ==
    ASSUME NEW at, NEW messages, NEW n \in Nat, Len(messages) = n, NEW last, LeadsTo(at, messages, last)
    PROVE  /\ at[n] = last /\ last \in Points
           /\ \A i \in 0..n : /\ at[i] \in Points /\ at[i].session \in Nat /\ at[i].number \in Nat
                              /\ NotAfter(at[0], at[i]) /\ NotAfter(at[i], last)
           /\ \A i \in 1..n : i - 1 \in 0..n /\ i \in 0..n /\ Leads(at[i - 1], messages[i], at[i])
  <1>1. /\ at \in [0..n -> Points] /\ at[n] = last
        /\ \A i \in 1..n : Leads(at[i - 1], messages[i], at[i])
        /\ \A j \in 0..n : \A i \in 0..j : NotAfter(at[i], at[j])
    BY DEF LeadsTo
  <1>2. \A i \in 0..n : at[i] \in Points
    BY <1>1
  <1>3. \A p \in Points : p.session \in Nat /\ p.number \in Nat
    BY OutputAssumption DEF Points
  <1>4. \A i \in 0..n : 0 \in 0..i /\ i \in 0..n /\ n \in 0..n
    OBVIOUS
  <1>5. \A i \in 1..n : i - 1 \in 0..n /\ i \in 0..n
    OBVIOUS
  <1>6. \A i \in 0..n : NotAfter(at[0], at[i]) /\ NotAfter(at[i], last)
    BY <1>1, <1>4
  <1> QED BY <1>1, <1>2, <1>3, <1>4, <1>5, <1>6

\* how many rows a copy of count rows at first has got when the log is at p
Grown(count, first, p) ==
    IF p.session = first.session THEN count + (p.number - first.number) ELSE p.number

LEMMA GrownNext ==
    ASSUME NEW first \in Points, NEW p \in Points, NEW q \in Points, NEW count \in 0..first.number,
           NotAfter(first, p)
    PROVE  /\ Grown(count, first, p) \in 0..p.number
           /\ Grown(count, first, first) = count
           /\ q.session = p.session + 1 /\ q.number = 0 => q.session # p.session /\ Grown(count, first, q) = 0
           /\ q.session = p.session /\ q.number = p.number + 1
                 => Grown(count, first, q) = Grown(count, first, p) + 1
  <1>1. /\ first.session \in Nat /\ first.number \in Nat /\ p.session \in Nat /\ p.number \in Nat
        /\ q.session \in Nat /\ q.number \in Nat
    BY OutputAssumption DEF Points
  <1>2. PICK fs \in Nat, fn \in Nat : fs = first.session /\ fn = first.number
    BY <1>1
  <1>3. PICK ps \in Nat, pn \in Nat : ps = p.session /\ pn = p.number
    BY <1>1
  <1>4. PICK qs \in Nat, qn \in Nat : qs = q.session /\ qn = q.number
    BY <1>1
  <1>5. PICK c \in Nat : c = count /\ c <= fn
    BY <1>2
  <1>6. fs < ps \/ (fs = ps /\ fn <= pn)
    BY <1>2, <1>3 DEF NotAfter
  <1>7. /\ Grown(count, first, p) = IF ps = fs THEN c + (pn - fn) ELSE pn
        /\ Grown(count, first, q) = IF qs = fs THEN c + (qn - fn) ELSE qn
        /\ Grown(count, first, first) = c + (fn - fn)
    BY <1>2, <1>3, <1>4, <1>5 DEF Grown
  <1>8. /\ (IF ps = fs THEN c + (pn - fn) ELSE pn) \in 0..pn
        /\ c + (fn - fn) = c
        /\ qs = ps + 1 /\ qn = 0 => qs # ps /\ (IF qs = fs THEN c + (qn - fn) ELSE qn) = 0
        /\ qs = ps /\ qn = pn + 1 => (IF qs = fs THEN c + (qn - fn) ELSE qn)
                                       = (IF ps = fs THEN c + (pn - fn) ELSE pn) + 1
    BY <1>5, <1>6
  <1> QED BY <1>3, <1>4, <1>5, <1>7, <1>8

\* events that follow a copy extend it to where they lead
LEMMA EventsExtend ==
    ASSUME NEW at, NEW events \in Seq(Events), NEW last, LeadsTo(at, events, last), events # <<>>,
           NEW log, NEW count \in 0..at[0].number,
           log = LastOf(at[0], count) \/ (log = EmptyLog /\ count = 0)
    PROVE  /\ After(log, events) = LastOf(last, Grown(count, at[0], last))
           /\ NotAfter(at[0], last) /\ Grown(count, at[0], last) \in 0..last.number
  <1>1. PICK n \in Nat : Len(events) = n /\ n # 0
    OBVIOUS
  <1>2. /\ at[n] = last /\ last \in Points
        /\ \A i \in 0..n : at[i] \in Points /\ NotAfter(at[0], at[i])
        /\ \A i \in 1..n : i - 1 \in 0..n /\ i \in 0..n /\ Leads(at[i - 1], events[i], at[i])
    BY <1>1, ChainedPoints
  <1>3. \A i \in 1..n : events[i] \in Events
    BY <1>1
  <1>4. PICK first \in Points : first = at[0]
    BY <1>1, <1>2
  <1> DEFINE Copied(i) == Grown(count, first, at[i])
             logs == [i \in 0..n |-> IF i = 0 THEN log ELSE LastOf(at[i], Copied(i))]
  <1>5. ASSUME NEW i \in 1..n PROVE logs[i] = Reduce(logs[i - 1], events[i])
    <2>1. Leads(at[i - 1], events[i], at[i]) /\ i - 1 \in 0..n /\ i \in 0..n /\ events[i] \in Events
      BY <1>2, <1>3
    <2>2. PICK p \in Points : p = at[i - 1]
      BY <1>2, <2>1
    <2>3. PICK q \in Points : q = at[i]
      BY <1>2, <2>1
    <2>4. NotAfter(first, p)
      BY <1>2, <1>4, <2>1, <2>2
    <2>5. \/ q.session = p.session + 1 /\ q.number = 0
          \/ q.session = p.session /\ q.number = p.number + 1
      BY <2>1, <2>2, <2>3, LeadingEvent, ZenonT(60)
    <2>6. /\ Grown(count, first, p) \in 0..p.number
          /\ Grown(count, first, q) = IF q.session = p.session THEN Grown(count, first, p) + 1 ELSE 0
      BY <1>4, <2>4, <2>5, GrownNext
    <2>7. logs[i] = LastOf(q, Grown(count, first, q))
      BY <2>1, <2>3
    <2>8. logs[i - 1] = IF i - 1 = 0 THEN log ELSE LastOf(p, Grown(count, first, p))
      BY <2>1, <2>2
    <2>9. Leads(p, events[i], q) /\ events[i] \in Events
      BY <2>1, <2>2, <2>3
    <2> HIDE DEF logs
    <2>10. CASE logs[i - 1] = LastOf(p, Grown(count, first, p))
      <3>1. Reduce(LastOf(p, Grown(count, first, p)), events[i])
               = LastOf(q, IF q.session = p.session THEN Grown(count, first, p) + 1 ELSE 0)
        BY <2>6, <2>9, ReduceLeads
      <3> QED BY <2>6, <2>7, <2>10, <3>1
    <2>11. CASE i - 1 = 0 /\ log = LastOf(first, count)
      <3>1. p = first /\ Grown(count, first, first) = count
        BY <1>4, <2>2, <2>4, <2>11, GrownNext
      <3> QED BY <2>8, <2>10, <2>11, <3>1
    <2>12. CASE i - 1 = 0 /\ log = EmptyLog /\ count = 0
      <3>1. p = first /\ Grown(count, first, first) = 0
        BY <1>4, <2>2, <2>4, <2>12, GrownNext
      <3>2. Grown(count, first, q) = IF q.session = p.session THEN 1 ELSE 0
        BY <2>6, <3>1
      <3>3. Reduce(EmptyLog, events[i]) = LastOf(q, IF q.session = p.session THEN 1 ELSE 0)
        BY <2>9, ReduceFirst
      <3> QED BY <2>7, <2>8, <2>12, <3>2, <3>3
    <2> QED BY <1>4, <2>8, <2>10, <2>11, <2>12
  <1>6. PICK S : logs \in [0..n -> S]
    <2>1. logs \in [0..n -> {logs[i] : i \in 0..n}]
      OBVIOUS
    <2> HIDE DEF logs
    <2> QED BY <2>1
  <1>12. logs[0] = log
    OBVIOUS
  <1>7. logs[n] = LastOf(last, Grown(count, at[0], last))
    BY <1>1, <1>2, <1>4
  <1>8. NotAfter(at[0], last)
    BY <1>1, <1>2
  <1>9. Grown(count, at[0], last) \in 0..last.number
    BY <1>2, <1>4, <1>8, GrownNext
  <1> HIDE DEF logs
  <1>10. \A i \in 1..n : logs[i] = Reduce(logs[i - 1], events[i])
    BY <1>5
  <1>11. After(log, events) = logs[n]
    BY <1>1, <1>6, <1>10, <1>12, AfterIs
  <1> QED BY <1>7, <1>8, <1>9, <1>11

LEMMA LeadingStep ==
    ASSUME NEW p \in Points, NEW q \in Points, NEW m \in Events, Leads(p, m, q)
    PROVE  \/ /\ m.type = "reset" /\ m.log = LogAt(q)
              /\ q.session = p.session + 1 /\ q.number = 0
           \/ /\ m.type = "append" /\ m.row = q.number
              /\ q.session = p.session /\ q.number = p.number + 1
  BY DEF Leads, Events

\* every point of a chain is in the session of its ends if these have the same one
LEMMA SameSession ==
    ASSUME NEW p \in Points, NEW q \in Points, NEW r \in Points,
           NotAfter(p, q), NotAfter(q, r), p.session = r.session
    PROVE  q.session = p.session /\ p.number <= q.number /\ q.number <= r.number
  <1>1. p.session \in Nat /\ q.session \in Nat /\ r.session \in Nat
    BY OutputAssumption DEF Points
  <1> QED BY <1>1 DEF NotAfter

\* rows that the snapshot holds already change nothing
LEMMA RowsHeld ==
    ASSUME NEW at, NEW events \in Seq(Events), NEW last, LeadsTo(at, events, last),
           at[0].session = last.session, at[0].number >= last.number - Capped(last.number)
    PROVE  After(LogAt(last), events) = LogAt(last)
  <1>1. PICK n \in Nat : Len(events) = n
    OBVIOUS
  <1>2. /\ at[n] = last /\ last \in Points
        /\ \A i \in 0..n : at[i] \in Points /\ NotAfter(at[0], at[i]) /\ NotAfter(at[i], last)
        /\ \A i \in 1..n : i - 1 \in 0..n /\ i \in 0..n /\ Leads(at[i - 1], events[i], at[i])
    BY <1>1, ChainedPoints
  <1>3. \A i \in 1..n : events[i] \in Events
    BY <1>1
  <1> DEFINE log  == LogAt(last)
             logs == [i \in 0..n |-> log]
  <1>4. ASSUME NEW i \in 1..n PROVE Reduce(log, events[i]) = log
    <2>1. Leads(at[i - 1], events[i], at[i]) /\ i - 1 \in 0..n /\ i \in 0..n /\ events[i] \in Events
      BY <1>2, <1>3
    <2>2. PICK first \in Points : first = at[0]
      BY <1>1, <1>2
    <2>3. PICK p \in Points : p = at[i - 1] /\ NotAfter(first, p) /\ NotAfter(p, last)
      BY <1>2, <2>1, <2>2
    <2>4. PICK q \in Points : q = at[i] /\ NotAfter(first, q) /\ NotAfter(q, last)
      BY <1>2, <2>1, <2>2
    <2>5. /\ p.session = last.session /\ first.number <= p.number
          /\ q.session = last.session /\ q.number <= last.number
      BY <1>2, <2>2, <2>3, <2>4, SameSession
    <2>6. Leads(p, events[i], q) /\ events[i] \in Events
      BY <2>1, <2>3, <2>4
    <2>7. PICK a \in Nat, b \in Nat, c \in Nat, f \in Nat :
             a = p.number /\ b = q.number /\ c = last.number /\ f = first.number
      BY <1>2, OutputAssumption DEF Points
    <2>8. PICK h \in Nat : h = Capped(c) /\ h <= c
      BY <2>7, OutputAssumption DEF Capped
    <2>9. p.session \in Nat
      BY OutputAssumption DEF Points
    <2>10. events[i].type = "append" /\ events[i].row = b /\ b = a + 1
      <3>1. q.session = p.session /\ q.session # p.session + 1
        BY <2>5, <2>9
      <3>2. /\ events[i].type = "append" /\ events[i].row = q.number
            /\ q.number = p.number + 1
        BY <2>6, <3>1, LeadingStep
      <3> QED BY <2>7, <3>2
    <2>11. b \in (c - h) + 1..c
      <3>1. f >= c - h
        BY <2>2, <2>7, <2>8
      <3>2. f <= a /\ b <= c
        BY <2>5, <2>7
      <3> QED BY <2>8, <2>10, <3>1, <3>2
    <2>12. ToSet(log.rows) = (c - h) + 1..c /\ log.session = last.session
      <3>1. last.number \in 0..last.number /\ log = LastOf(last, last.number)
        BY <2>7 DEF LogAt
      <3>2. /\ ToSet(log.rows) = (last.number - Capped(last.number)) + 1..last.number
            /\ log.session = last.session
        <4> HIDE DEF log
        <4> QED BY <1>2, <3>1, RowsAre
      <3> QED BY <2>7, <2>8, <3>2
    <2>13. events[i].log.session = log.session
      BY <2>5, <2>6, <2>12, LeadingLog
    <2>14. ~ (events[i].log.session < log.session) /\ ~ (events[i].log.session > log.session)
      BY <2>5, <2>9, <2>12, <2>13
    <2>15. events[i].row \in ToSet(log.rows)
      BY <2>10, <2>11, <2>12
    <2> HIDE DEF log
    <2> QED BY <2>10, <2>14, <2>15 DEF Reduce
  <1>5. logs \in [0..n -> {log}] /\ logs[0] = log /\ logs[n] = log
    OBVIOUS
  <1>6. \A i \in 1..n : logs[i] = Reduce(logs[i - 1], events[i])
    <2>1. \A i \in 1..n : i \in 0..n /\ i - 1 \in 0..n
      OBVIOUS
    <2> HIDE DEF log
    <2> QED BY <1>4, <2>1
  <1> HIDE DEF logs, log
  <1> QED BY <1>1, <1>5, <1>6, AfterIs DEF log

\* the session began while the window waited: it is gone through again
LEMMA SessionReplayed ==
    ASSUME NEW at, NEW events \in Seq(Events), NEW last, LeadsTo(at, events, last),
           at[0].session # last.session
    PROVE  After(LogAt(last), events) = LogAt(last)
  <1>1. PICK n \in Nat : Len(events) = n
    OBVIOUS
  <1>2. /\ at[n] = last /\ last \in Points
        /\ \A i \in 0..n : at[i] \in Points /\ NotAfter(at[i], last)
        /\ \A i \in 1..n : i - 1 \in 0..n /\ i \in 0..n /\ Leads(at[i - 1], events[i], at[i])
    BY <1>1, ChainedPoints
  <1>3. \A i \in 1..n : events[i] \in Events
    BY <1>1
  <1> DEFINE Log(p) == IF p.session = last.session THEN LogAt(p) ELSE LogAt(last)
             logs == [i \in 0..n |-> Log(at[i])]
  <1>4. ASSUME NEW i \in 1..n PROVE Log(at[i]) = Reduce(Log(at[i - 1]), events[i])
    <2>1. Leads(at[i - 1], events[i], at[i]) /\ i - 1 \in 0..n /\ i \in 0..n /\ events[i] \in Events
      BY <1>2, <1>3
    <2>2. PICK p \in Points : p = at[i - 1] /\ NotAfter(p, last)
      BY <1>2, <2>1
    <2>3. PICK q \in Points : q = at[i] /\ NotAfter(q, last)
      BY <1>2, <2>1
    <2>4. PICK m \in Events : m = events[i] /\ Leads(p, m, q)
      BY <2>1, <2>2, <2>3
    <2>5. /\ p.session \in Nat /\ q.session \in Nat /\ last.session \in Nat /\ p.number \in Nat
          /\ last.number \in Nat
      BY <1>2, OutputAssumption DEF Points
    <2>6. m.log.session = q.session
      BY <2>4, LeadingLog
    <2>7. LogAt(last).session = last.session
      BY DEF LogAt, LastOf
    <2>8. \/ m.type = "reset" /\ m.log = LogAt(q) /\ q.session = p.session + 1
          \/ q.session = p.session /\ q.number = p.number + 1
      BY <2>4, LeadingStep
    <2>9. CASE q.session # last.session
      <3>1. q.session < last.session /\ p.session <= q.session
        BY <2>3, <2>5, <2>8, <2>9 DEF NotAfter
      <3>2. Log(p) = LogAt(last) /\ Log(q) = LogAt(last)
        BY <2>5, <3>1
      <3>3. Reduce(LogAt(last), m) = LogAt(last)
        BY <2>6, <2>7, <3>1 DEF Reduce
      <3> QED BY <2>2, <2>3, <2>4, <3>2, <3>3
    <2>10. CASE q.session = last.session /\ p.session # last.session
      <3>1. m.type = "reset" /\ m.log = LogAt(q)
        BY <2>8, <2>10
      <3>2. Log(p) = LogAt(last) /\ Log(q) = LogAt(q)
        BY <2>10
      <3>3. ~ (m.log.session < LogAt(last).session)
        BY <2>5, <2>6, <2>7, <2>10
      <3>4. Reduce(LogAt(last), m) = m.log
        BY <3>1, <3>3 DEF Reduce
      <3> QED BY <2>2, <2>3, <2>4, <3>1, <3>2, <3>4
    <2>11. CASE q.session = last.session /\ p.session = last.session
      <3>1. Log(p) = LastOf(p, p.number) /\ Log(q) = LastOf(q, q.number)
        BY <2>11 DEF LogAt
      <3>2. q.number = p.number + 1 /\ q.session = p.session /\ p.number \in 0..p.number
        BY <2>5, <2>8, <2>11
      <3>3. Reduce(LastOf(p, p.number), m) = LastOf(q, p.number + 1)
        BY <2>4, <3>2, ReduceLeads
      <3> QED BY <2>2, <2>3, <2>4, <3>1, <3>2, <3>3
    <2> QED BY <2>9, <2>10, <2>11
  <1>5. logs[0] = LogAt(last) /\ logs[n] = LogAt(last)
    BY <1>1, <1>2
  <1>6. logs \in [0..n -> {Log(at[i]) : i \in 0..n}]
    OBVIOUS
  <1>7. \A i \in 1..n : logs[i] = Reduce(logs[i - 1], events[i])
    <2>1. \A i \in 1..n : i \in 0..n /\ i - 1 \in 0..n
      OBVIOUS
    <2> HIDE DEF Log
    <2> QED BY <1>4, <2>1
  <1>8. PICK S : logs \in [0..n -> S]
    <2> HIDE DEF logs
    <2> QED BY <1>6
  <1> HIDE DEF logs
  <1> QED BY <1>1, <1>5, <1>7, <1>8, AfterIs

\* the rows of a log at c after the first of them that come again, from f, are there twice
Turned(c, f, e) ==
    [j \in 1..MaxRows |-> IF e + j <= MaxRows THEN (c - MaxRows) + e + j ELSE (f + e + j) - MaxRows]

LEMMA TurnedNext ==
    ASSUME NEW c \in Nat, NEW f \in Nat, NEW e \in Nat, f + MaxRows < c, f + e < c
    PROVE  /\ f + e + 1 \notin ToSet(Turned(c, f, e))
           /\ Retained(Append(Turned(c, f, e), f + e + 1)) = Turned(c, f, e + 1)
  <1>1. PICK h \in Nat \ {0} : h = MaxRows
    BY OutputAssumption
  <1> DEFINE rows == Turned(c, f, e)
             more == Append(rows, f + e + 1)
  <1>2. rows = [j \in 1..h |-> IF e + j <= h THEN (c - h) + e + j ELSE (f + e + j) - h]
    BY <1>1 DEF Turned
  <1>3. \A j \in 1..h : (IF e + j <= h THEN (c - h) + e + j ELSE (f + e + j) - h) \in Nat
    BY <1>1
  <1>4. /\ rows \in Seq(Nat) /\ Len(rows) = h /\ DOMAIN rows = 1..h
        /\ \A j \in 1..h : rows[j] = IF e + j <= h THEN (c - h) + e + j ELSE (f + e + j) - h
    <2> HIDE DEF rows
    <2>1. rows \in [1..h -> Nat]
      BY <1>2, <1>3
    <2> QED BY <1>2, <2>1, SMTT(60)
  <1> HIDE DEF rows
  <1>5. f + e + 1 \notin ToSet(rows)
    <2>1. \A j \in 1..h : (IF e + j <= h THEN (c - h) + e + j ELSE (f + e + j) - h) # f + e + 1
      BY <1>1
    <2> QED BY <1>4, <2>1 DEF ToSet
  <1>6. /\ more \in Seq(Nat) /\ Len(more) = h + 1
        /\ \A j \in 1..h : more[j + 1] = IF j = h THEN f + e + 1 ELSE rows[j + 1]
    BY <1>4
  <1>7. Retained(more) = SubSeq(more, 2, h + 1)
    <2>1. Len(more) > MaxRows /\ Len(more) - MaxRows + 1 = 2
      <3> HIDE DEF more
      <3> QED BY <1>1, <1>6
    <2> HIDE DEF more
    <2> QED BY <1>6, <2>1 DEF Retained, LastRows
  <1>8. SubSeq(more, 2, h + 1) = [j \in 1..h |-> more[j + 1]]
    <2> HIDE DEF more
    <2> QED BY <1>6
  <1>9. Turned(c, f, e + 1)
          = [j \in 1..h |-> IF e + 1 + j <= h THEN (c - h) + (e + 1) + j ELSE (f + (e + 1) + j) - h]
    BY <1>1 DEF Turned
  <1>10. ASSUME NEW j \in 1..h
         PROVE  more[j + 1] = IF e + 1 + j <= h THEN (c - h) + (e + 1) + j ELSE (f + (e + 1) + j) - h
    <2>1. CASE j = h
      <3>1. more[j + 1] = f + e + 1
        BY <1>6, <2>1
      <3> HIDE DEF more
      <3> QED BY <2>1, <3>1
    <2>2. CASE j # h
      <3>1. j + 1 \in 1..h
        BY <2>2
      <3>2. more[j + 1] = rows[j + 1]
        BY <1>6, <2>2
      <3>3. rows[j + 1] = IF e + (j + 1) <= h THEN (c - h) + e + (j + 1) ELSE (f + e + (j + 1)) - h
        BY <1>4, <3>1
      <3> HIDE DEF more
      <3> QED BY <3>2, <3>3
    <2> QED BY <2>1, <2>2
  <1> HIDE DEF more
  <1>11. Retained(more) = Turned(c, f, e + 1)
    BY <1>7, <1>8, <1>9, <1>10
  <1> QED BY <1>5, <1>11 DEF more, rows

\* a row added to a log with those rows
LEMMA ReduceTurned ==
    ASSUME NEW p \in Points, NEW q \in Points, NEW m \in Events, Leads(p, m, q),
           q.session = p.session, NEW c \in Nat, NEW f \in Nat, NEW e \in Nat,
           f + MaxRows < c, f + e < c, p.number = f + e,
           NEW log, log.session = p.session, log.rows = Turned(c, f, e)
    PROVE  Reduce(log, m) = [session |-> q.session, rows |-> Turned(c, f, e + 1),
                             omitted |-> q.number - Capped(q.number)]
  <1>1. p.session \in Nat
    BY OutputAssumption DEF Points
  <1>2. q.session # p.session + 1
    BY <1>1
  <1>3. m.type = "append" /\ m.row = q.number /\ q.number = p.number + 1
    BY <1>2, LeadingStep
  <1>4. m.log = [session |-> q.session, rows |-> <<q.number>>, omitted |-> q.number - Capped(q.number)]
    BY <1>3, LeadingEvent
  <1>5. m.row = f + e + 1
    BY <1>3
  <1>6. ~ (m.log.session < log.session) /\ ~ (m.log.session > log.session)
    BY <1>1, <1>4
  <1>7. m.row \notin ToSet(log.rows) /\ Retained(Append(log.rows, m.row)) = Turned(c, f, e + 1)
    <2>1. /\ f + e + 1 \notin ToSet(Turned(c, f, e))
          /\ Retained(Append(Turned(c, f, e), f + e + 1)) = Turned(c, f, e + 1)
      BY TurnedNext
    <2> QED BY <1>5, <2>1
  <1>8. Reduce(log, m) = [m.log EXCEPT !.rows = Turned(c, f, e + 1)]
    BY <1>3, <1>6, <1>7 DEF Reduce
  <1> QED BY <1>4, <1>8

\* more rows came than the log keeps: those that were dropped push out the others,
\* and all come again
LEMMA RowsReplayed ==
    ASSUME NEW at, NEW events \in Seq(Events), NEW last, LeadsTo(at, events, last),
           at[0].session = last.session, at[0].number < last.number - Capped(last.number)
    PROVE  After(LogAt(last), events) = LogAt(last)
  <1>1. PICK n \in Nat : Len(events) = n
    OBVIOUS
  <1>2. /\ at[n] = last /\ last \in Points
        /\ \A i \in 0..n : at[i] \in Points /\ NotAfter(at[0], at[i]) /\ NotAfter(at[i], last)
        /\ \A i \in 1..n : i - 1 \in 0..n /\ i \in 0..n /\ Leads(at[i - 1], events[i], at[i])
    BY <1>1, ChainedPoints
  <1>3. \A i \in 1..n : events[i] \in Events
    BY <1>1
  <1>4. PICK first \in Points : first = at[0]
    BY <1>1, <1>2
  <1>5. PICK c \in Nat, f \in Nat : c = last.number /\ f = first.number
    BY <1>2, OutputAssumption DEF Points
  <1>6. Capped(c) = MaxRows /\ f + MaxRows < c
    BY <1>4, <1>5, OutputAssumption DEF Capped
  <1>7. ASSUME NEW i \in 0..n
        PROVE  /\ at[i].session = last.session /\ at[i].number \in Nat
               /\ f <= at[i].number /\ at[i].number <= c
    <2>1. PICK q \in Points : q = at[i] /\ NotAfter(first, q) /\ NotAfter(q, last)
      BY <1>2, <1>4
    <2>2. q.session = first.session /\ first.number <= q.number /\ q.number <= last.number
      BY <1>2, <1>4, <2>1, SameSession
    <2>3. q.number \in Nat
      BY OutputAssumption DEF Points
    <2> QED BY <1>4, <1>5, <2>1, <2>2, <2>3
  <1> DEFINE Log(p) == [session |-> p.session, rows |-> Turned(c, f, p.number - f),
                        omitted |-> p.number - Capped(p.number)]
             logs == [i \in 0..n |-> IF i = 0 THEN LogAt(last) ELSE Log(at[i])]
  <1>8. Turned(c, f, 0) = LogAt(last).rows /\ LogAt(last).session = last.session
    <2>1. LogAt(last).rows = [j \in 1..MaxRows |-> (c - MaxRows) + j]
      BY <1>5, <1>6 DEF LogAt, LastOf, RowsUpTo
    <2>2. PICK h \in Nat : h = MaxRows
      BY OutputAssumption
    <2>3. Turned(c, f, 0) = [j \in 1..h |-> IF 0 + j <= h THEN (c - h) + 0 + j ELSE (f + 0 + j) - h]
      BY <2>2 DEF Turned
    <2>4. \A j \in 1..h : (IF 0 + j <= h THEN (c - h) + 0 + j ELSE (f + 0 + j) - h) = (c - h) + j
      BY <2>2
    <2> QED BY <2>1, <2>2, <2>3, <2>4 DEF LogAt, LastOf
  <1>9. Log(last) = LogAt(last)
    <2>1. LogAt(last).rows = [j \in 1..MaxRows |-> (c - MaxRows) + j]
      BY <1>5, <1>6 DEF LogAt, LastOf, RowsUpTo
    <2>2. PICK h \in Nat : h = MaxRows
      BY OutputAssumption
    <2>3. PICK e \in Nat : e = c - f
      BY <1>6, <2>2
    <2>4. Turned(c, f, e) = [j \in 1..h |-> IF e + j <= h THEN (c - h) + e + j ELSE (f + e + j) - h]
      BY <2>2 DEF Turned
    <2>5. \A j \in 1..h : (IF e + j <= h THEN (c - h) + e + j ELSE (f + e + j) - h) = (c - h) + j
      BY <1>6, <2>2, <2>3
    <2>6. Turned(c, f, last.number - f) = LogAt(last).rows
      BY <1>5, <2>1, <2>2, <2>3, <2>4, <2>5, ZenonT(60)
    <2>7. LogAt(last) = [session |-> last.session, rows |-> LogAt(last).rows,
                         omitted |-> last.number - Capped(last.number)]
      BY DEF LogAt, LastOf
    <2> QED BY <2>6, <2>7
  <1>10. ASSUME NEW i \in 1..n PROVE logs[i] = Reduce(logs[i - 1], events[i])
    <2>1. Leads(at[i - 1], events[i], at[i]) /\ i - 1 \in 0..n /\ i \in 0..n /\ events[i] \in Events
      BY <1>2, <1>3
    <2>2. PICK p \in Points : p = at[i - 1]
      BY <1>2, <2>1
    <2>3. PICK q \in Points : q = at[i]
      BY <1>2, <2>1
    <2>4. PICK m \in Events : m = events[i] /\ Leads(p, m, q)
      BY <2>1, <2>2, <2>3
    <2>5. p.session = last.session /\ q.session = last.session
      BY <1>7, <2>1, <2>2, <2>3
    <2>6. PICK a \in Nat, b \in Nat : a = p.number /\ b = q.number /\ f <= a /\ b <= c
      BY <1>7, <2>1, <2>2, <2>3
    <2>7. p.session \in Nat
      BY OutputAssumption DEF Points
    <2>8. q.session # p.session + 1
      BY <2>5, <2>7
    <2>9. b = a + 1
      BY <2>4, <2>6, <2>8, LeadingStep
    <2>10. PICK e \in Nat : e = a - f
      BY <2>6
    <2>11. f + e < c /\ p.number = f + e /\ q.number - f = e + 1 /\ p.number - f = e
      <3>1. f + e = a /\ f + e < c /\ b - f = e + 1 /\ a - f = e
        <4>1. f <= a /\ b <= c
          BY <2>6
        <4> QED BY <2>9, <2>10, <4>1
      <3> QED BY <2>6, <3>1
    <2>12. logs[i - 1].session = p.session /\ logs[i - 1].rows = Turned(c, f, e)
      <3>1. CASE i - 1 = 0
        <4>1. logs[i - 1] = LogAt(last) /\ p = first
          BY <1>4, <2>1, <2>2, <3>1
        <4>2. e = 0
          BY <1>5, <2>6, <2>10, <4>1
        <4> HIDE DEF logs
        <4> QED BY <1>8, <2>5, <4>1, <4>2
      <3>2. CASE i - 1 # 0
        <4>1. logs[i - 1] = Log(p)
          BY <2>1, <2>2, <3>2
        <4> HIDE DEF logs
        <4> QED BY <2>11, <4>1
      <3> QED BY <3>1, <3>2
    <2>13. logs[i] = Log(q)
      BY <2>1, <2>3
    <2>14. Log(q) = [session |-> q.session, rows |-> Turned(c, f, e + 1),
                     omitted |-> q.number - Capped(q.number)]
      BY <2>11
    <2> HIDE DEF logs, Log
    <2>15. Reduce(logs[i - 1], m) = [session |-> q.session, rows |-> Turned(c, f, e + 1),
                                    omitted |-> q.number - Capped(q.number)]
      BY <1>6, <2>4, <2>5, <2>11, <2>12, ReduceTurned, SMTT(60)
    <2> QED BY <2>4, <2>13, <2>14, <2>15
  <1>11. logs[0] = LogAt(last)
    OBVIOUS
  <1>12. logs[n] = LogAt(last)
    <2> HIDE DEF Log
    <2> QED BY <1>2, <1>9, <1>1
  <1>13. logs \in [0..n -> {logs[i] : i \in 0..n}]
    <2> HIDE DEF Log
    <2> QED OBVIOUS
  <1>14. PICK S : logs \in [0..n -> S]
    <2> HIDE DEF logs
    <2> QED BY <1>13
  <1>15. \A i \in 1..n : logs[i] = Reduce(logs[i - 1], events[i])
    BY <1>10
  <1> HIDE DEF logs
  <1> QED BY <1>1, <1>11, <1>12, <1>14, <1>15, AfterIs

\* Whatever waited, the snapshot with it is the log of the store.
LEMMA SnapshotJoins ==
    ASSUME NEW at, NEW events \in Seq(Events), NEW last, LeadsTo(at, events, last)
    PROVE  After(LogAt(last), events) = LogAt(last)
  <1>1. PICK n \in Nat : Len(events) = n
    OBVIOUS
  <1>2. last \in Points /\ at[0] \in Points
    <2>1. last \in Points /\ \A i \in 0..n : at[i] \in Points
      BY <1>1, ChainedPoints
    <2> QED BY <2>1
  <1>3. last.number \in Nat /\ at[0].number \in Nat /\ Capped(last.number) \in Nat
    BY <1>2, OutputAssumption DEF Points, Capped
  <1>4. at[0].number < last.number - Capped(last.number) \/ at[0].number >= last.number - Capped(last.number)
    BY <1>3
  <1> QED BY <1>4, RowsHeld, RowsReplayed, SessionReplayed

LEMMA NotAfterTransitive ==
    ASSUME NEW p \in Points, NEW q \in Points, NEW r \in Points, NotAfter(p, q), NotAfter(q, r)
    PROVE  NotAfter(p, r)
  <1>1. /\ p.session \in Nat /\ q.session \in Nat /\ r.session \in Nat
        /\ p.number \in Nat /\ q.number \in Nat /\ r.number \in Nat
    BY OutputAssumption DEF Points
  <1> QED BY <1>1 DEF NotAfter

LEMMA LeadsNotBack ==
    ASSUME NEW p \in Points, NEW q \in Points, NEW m \in Messages, Leads(p, m, q)
    PROVE  NotAfter(p, q)
  <1>1. /\ p.session \in Nat /\ q.session \in Nat /\ p.number \in Nat /\ q.number \in Nat
    BY OutputAssumption DEF Points
  <1>2. q.session = p.session + 1 \/ (q.session = p.session /\ q.number = p.number + 1) \/ q = p
    BY DEF Leads
  <1> QED BY <1>1, <1>2 DEF NotAfter

\* nothing under way leads to where it is
LEMMA LeadsNowhere ==
    ASSUME NEW p \in Points
    PROVE  /\ [i \in 0..Len(<<>>) |-> p] \in [0..Len(<<>>) -> Points]
           /\ LeadsTo([i \in 0..Len(<<>>) |-> p], <<>>, p)
  <1>1. NotAfter(p, p)
    <2>1. p.number \in Nat
      BY OutputAssumption DEF Points
    <2> QED BY <2>1 DEF NotAfter
  <1>2. Len(<<>>) = 0
    OBVIOUS
  <1> DEFINE at == [i \in 0..0 |-> p]
  <1>3. at \in [0..0 -> Points] /\ at[0] = p
    OBVIOUS
  <1>4. \A j \in 0..0 : \A i \in 0..j : NotAfter(at[i], at[j])
    BY <1>1
  <1> QED BY <1>2, <1>3, <1>4 DEF LeadsTo

\* a message more
LEMMA LeadsOn ==
    ASSUME NEW messages \in Seq(Messages), NEW at, NEW p, LeadsTo(at, messages, p),
           NEW m \in Messages, NEW q \in Points, Leads(p, m, q)
    PROVE  \E on \in [0..Len(Append(messages, m)) -> Points] :
              LeadsTo(on, Append(messages, m), q) /\ on[0] = at[0]
  <1>1. PICK n \in Nat : Len(messages) = n
    OBVIOUS
  <1> DEFINE more == Append(messages, m)
             on == [i \in 0..n + 1 |-> IF i = n + 1 THEN q ELSE at[i]]
  <1>2. Len(more) = n + 1 /\ more[n + 1] = m /\ \A i \in 1..n : more[i] = messages[i]
    BY <1>1
  <1>3. /\ at[n] = p /\ p \in Points /\ at \in [0..n -> Points]
        /\ \A i \in 0..n : at[i] \in Points /\ NotAfter(at[i], p)
        /\ \A i \in 1..n : Leads(at[i - 1], messages[i], at[i])
        /\ \A j \in 0..n : \A i \in 0..j : NotAfter(at[i], at[j])
    <2>1. /\ at \in [0..n -> Points] /\ at[n] = p
          /\ \A i \in 1..n : Leads(at[i - 1], messages[i], at[i])
          /\ \A j \in 0..n : \A i \in 0..j : NotAfter(at[i], at[j])
      BY <1>1 DEF LeadsTo
    <2>2. /\ p \in Points
          /\ \A i \in 0..n : at[i] \in Points /\ NotAfter(at[i], p)
      BY <1>1, ChainedPoints
    <2> QED BY <2>1, <2>2
  <1>4. on \in [0..n + 1 -> Points] /\ on[n + 1] = q /\ \A i \in 0..n : on[i] = at[i]
    BY <1>3
  <1>5. ASSUME NEW i \in 1..n + 1 PROVE Leads(on[i - 1], more[i], on[i])
    <2>1. CASE i = n + 1
      <3>1. on[i - 1] = p /\ on[i] = q /\ more[i] = m
        BY <1>2, <1>3, <1>4, <2>1
      <3> QED BY <3>1
    <2>2. CASE i # n + 1
      <3>1. i \in 1..n /\ i \in 0..n /\ i - 1 \in 0..n
        BY <2>2
      <3> HIDE DEF on, more
      <3> QED BY <1>2, <1>3, <1>4, <3>1
    <2> QED BY <2>1, <2>2
  <1>6. ASSUME NEW j \in 0..n + 1, NEW i \in 0..j PROVE NotAfter(on[i], on[j])
    <2>1. CASE j # n + 1
      <3>1. j \in 0..n /\ i \in 0..n
        BY <2>1
      <3> HIDE DEF on
      <3> QED BY <1>3, <1>4, <3>1
    <2>2. CASE j = n + 1 /\ i # n + 1
      <3>1. i \in 0..n
        BY <2>2
      <3>2. on[i] = at[i] /\ on[j] = q /\ at[i] \in Points /\ NotAfter(at[i], p)
        BY <1>3, <1>4, <2>2, <3>1
      <3>3. NotAfter(p, q)
        BY <1>3, LeadsNotBack
      <3> HIDE DEF on
      <3> QED BY <1>3, <3>2, <3>3, NotAfterTransitive
    <2>3. CASE j = n + 1 /\ i = n + 1
      <3>1. q.number \in Nat
        BY OutputAssumption DEF Points
      <3>2. on[i] = q /\ on[j] = q
        BY <1>4, <2>3
      <3> QED BY <3>1, <3>2 DEF NotAfter
    <2> QED BY <2>1, <2>2, <2>3
  <1> HIDE DEF on, more
  <1>7. LeadsTo(on, more, q)
    BY <1>2, <1>4, <1>5, <1>6 DEF LeadsTo
  <1>8. on[0] = at[0]
    BY <1>4
  <1> QED BY <1>2, <1>4, <1>7, <1>8 DEF more

\* the first messages, and those that remain
LEMMA LeadsOver ==
    ASSUME NEW front \in Seq(Messages), NEW rest \in Seq(Messages), NEW at, NEW p,
           LeadsTo(at, front \o rest, p)
    PROVE  \E mid \in [0..Len(front) -> Points], on \in [0..Len(rest) -> Points] :
              /\ LeadsTo(mid, front, on[0]) /\ mid[0] = at[0]
              /\ LeadsTo(on, rest, p)
  <1>1. PICK k \in Nat : Len(front) = k
    OBVIOUS
  <1>2. PICK n \in Nat : Len(rest) = n
    OBVIOUS
  <1> DEFINE all == front \o rest
             mid == [i \in 0..k |-> at[i]]
             on  == [i \in 0..n |-> at[k + i]]
  <1>3. /\ Len(all) = k + n
        /\ \A i \in 1..k : all[i] = front[i]
        /\ \A i \in 1..n : all[k + i] = rest[i]
    BY <1>1, <1>2
  <1>4. /\ at \in [0..k + n -> Points] /\ at[k + n] = p
        /\ \A i \in 1..k + n : Leads(at[i - 1], all[i], at[i])
        /\ \A j \in 0..k + n : \A i \in 0..j : NotAfter(at[i], at[j])
    BY <1>3 DEF LeadsTo
  <1> HIDE DEF all
  <1>5. \A i \in 0..k : i \in 0..k + n
    OBVIOUS
  <1>6. \A i \in 0..n : k + i \in 0..k + n
    OBVIOUS
  <1>7. mid \in [0..k -> Points] /\ on \in [0..n -> Points]
    BY <1>4, <1>5, <1>6
  <1>8. mid[0] = at[0] /\ mid[k] = at[k] /\ on[0] = at[k] /\ on[n] = at[k + n]
    OBVIOUS
  <1>9. LeadsTo(mid, front, at[k])
    <2>1. ASSUME NEW i \in 1..k PROVE Leads(mid[i - 1], front[i], mid[i])
      <3>1. i \in 1..k + n /\ mid[i - 1] = at[i - 1] /\ mid[i] = at[i]
        OBVIOUS
      <3> HIDE DEF mid
      <3> QED BY <1>3, <1>4, <3>1
    <2>2. ASSUME NEW j \in 0..k, NEW i \in 0..j PROVE NotAfter(mid[i], mid[j])
      <3>1. j \in 0..k + n /\ mid[i] = at[i] /\ mid[j] = at[j]
        OBVIOUS
      <3> HIDE DEF mid
      <3> QED BY <1>4, <3>1
    <2> HIDE DEF mid, on
    <2> QED BY <1>1, <1>7, <1>8, <2>1, <2>2 DEF LeadsTo
  <1>10. LeadsTo(on, rest, p)
    <2>1. ASSUME NEW i \in 1..n PROVE Leads(on[i - 1], rest[i], on[i])
      <3>1. k + i \in 1..k + n /\ on[i - 1] = at[(k + i) - 1] /\ on[i] = at[k + i]
        OBVIOUS
      <3> HIDE DEF on
      <3> QED BY <1>3, <1>4, <3>1
    <2>2. ASSUME NEW j \in 0..n, NEW i \in 0..j PROVE NotAfter(on[i], on[j])
      <3>1. k + j \in 0..k + n /\ k + i \in 0..k + j /\ on[i] = at[k + i] /\ on[j] = at[k + j]
        OBVIOUS
      <3> HIDE DEF on
      <3> QED BY <1>4, <3>1
    <2>3. on[n] = p
      BY <1>4, <1>8
    <2> HIDE DEF mid, on
    <2> QED BY <1>2, <1>7, <2>1, <2>2, <2>3 DEF LeadsTo
  <1> HIDE DEF mid, on
  <1> QED BY <1>1, <1>2, <1>7, <1>8, <1>9, <1>10

LEMMA KindOf ==
    ASSUME NEW m \in Messages
    PROVE  /\ m \in Events <=> m.type \in {"reset", "append"}
           /\ m \in Answers <=> m.type \in {"snapshot", "failed"}
           /\ m.type \in {"reset", "append", "snapshot", "failed"}
  BY DEF Messages, Events, Answers

LEMMA EventsAreMessages == Events \subseteq Messages /\ Answers \subseteq Messages
  BY DEF Messages

\* the logs of a session are typed
LEMMA LastTyped ==
    ASSUME NEW p \in Points, NEW count \in 0..p.number
    PROVE  IsLog(LastOf(p, count)) /\ LastOf(p, count) \in Logs
  <1>1. PICK n \in Nat : n = p.number /\ n <= MaxOutputs /\ p.session \in 0..MaxSessions /\ p.session \in Nat
    BY OutputAssumption DEF Points
  <1>2. PICK c \in Nat : c = Capped(count) /\ c <= n /\ c <= MaxRows
    BY <1>1, OutputAssumption DEF Capped
  <1> DEFINE rows == RowsUpTo(c, n)
  <1>3. rows \in Seq(1..MaxOutputs) /\ rows \in Seq(Nat) /\ Len(rows) = c
    <2>1. \A i \in 1..c : (n - c) + i \in 1..n
      BY <1>2
    <2>2. \A i \in 1..c : (n - c) + i \in 1..MaxOutputs /\ (n - c) + i \in Nat
      BY <1>1, <2>1, OutputAssumption
    <2> QED BY <2>2 DEF RowsUpTo
  <1>4. n - Capped(n) \in 0..MaxOutputs /\ n - Capped(n) \in Nat
    BY <1>1, OutputAssumption DEF Capped
  <1>5. LastOf(p, count) = [session |-> p.session, rows |-> rows, omitted |-> n - Capped(n)]
    BY <1>1, <1>2 DEF LastOf
  <1> HIDE DEF rows
  <1> QED BY <1>1, <1>2, <1>3, <1>4, <1>5 DEF IsLog, Logs

LEMMA PresentIs ==
    ASSUME OutputInv
    PROVE  /\ Present \in Points /\ Present.session = store.session /\ Present.number = nextRow - 1
           /\ Present.number \in Nat /\ nextRow \in Nat /\ outputs \in Nat
           /\ store = LastOf(Present, Present.number) /\ store \in Logs
  <1>1. store.session \in 0..MaxSessions /\ nextRow \in 1..MaxOutputs + 1 /\ outputs \in 0..MaxOutputs
    BY DEF OutputInv, OutputTypeOK, IsLog
  <1>2. nextRow - 1 \in 0..MaxOutputs /\ nextRow \in Nat /\ outputs \in Nat
    BY <1>1, OutputAssumption
  <1>3. Present \in Points /\ Present.session = store.session /\ Present.number = nextRow - 1
    BY <1>1, <1>2 DEF Present, Points
  <1>4. Present.number \in Nat /\ Present.number \in 0..Present.number
    BY <1>2, <1>3
  <1>5. store = LastOf(Present, Present.number)
    BY DEF OutputInv, LogAt
  <1> QED BY <1>2, <1>3, <1>4, <1>5, LastTyped

LEMMA InitOutput == OutputInit => OutputInv
  <1> SUFFICES ASSUME OutputInit PROVE OutputInv
    OBVIOUS
  <1> USE OutputAssumption
  <1>1. /\ Present = [session |-> 0, number |-> 0] /\ Present \in Points
        /\ LogAt(Present) = EmptyLog /\ IsLog(EmptyLog)
    <2>1. Present = [session |-> 0, number |-> 0] /\ Present \in Points
      BY DEF OutputInit, Present, Points, EmptyLog
    <2>2. Capped(0) = 0 /\ RowsUpTo(0, 0) = <<>>
      BY NoRows
    <2>3. LogAt(Present) = EmptyLog
      BY <2>1, <2>2 DEF LogAt, LastOf, EmptyLog
    <2>4. IsLog(EmptyLog)
      BY DEF IsLog, EmptyLog
    <2> QED BY <2>1, <2>3, <2>4
  <1>2. Underway = <<>>
    BY DEF OutputInit, Underway
  <1>3. OutputTypeOK
    BY <1>1 DEF OutputInit, OutputTypeOK
  <1>4. QueuesInPlace
    BY DEF OutputInit, QueuesInPlace
  <1>5. AnchorInPlace
    BY DEF OutputInit, AnchorInPlace
  <1>6. \E at \in [0..Len(Underway) -> Points] : LeadsTo(at, Underway, Present) /\ IsCopyOf(at[0])
    <2>1. IsCopyOf(Present)
      BY DEF OutputInit, IsCopyOf
    <2>2. [i \in 0..Len(<<>>) |-> Present][0] = Present
      OBVIOUS
    <2> QED BY <1>1, <1>2, <2>1, <2>2, LeadsNowhere
  <1>7. store = LogAt(Present) /\ nextRow <= outputs + 1
    BY <1>1 DEF OutputInit
  <1> QED BY <1>3, <1>4, <1>5, <1>6, <1>7 DEF OutputInv

\* what the store sends leads on from where it was
LEMMA ResetLeads ==
    ASSUME OutputInv, ResetSession
    PROVE  /\ Present' \in Points /\ store' = LogAt(Present)' /\ IsLog(store)'
           /\ nextRow' \in 1..MaxOutputs + 1 /\ nextRow' <= outputs' + 1 /\ outputs' \in 0..MaxOutputs
           /\ \E m \in Events : Send(m) /\ Leads(Present, m, Present')
  <1> USE OutputAssumption
  <1>1. store.session \in 0..MaxSessions /\ store.session < MaxSessions /\ outputs \in 0..MaxOutputs
    BY DEF OutputInv, OutputTypeOK, IsLog, ResetSession
  <1>2. store' = [session |-> store.session + 1, rows |-> <<>>, omitted |-> 0] /\ nextRow' = 1
    BY DEF ResetSession, EmptyLog
  <1>3. Present' = [session |-> store.session + 1, number |-> 0]
    BY <1>2 DEF Present
  <1>4. PICK q \in Points : q = Present' /\ q.session = store.session + 1 /\ q.number = 0
    <2>1. store.session + 1 \in 0..MaxSessions
      BY <1>1
    <2> QED BY <1>3, <2>1 DEF Points
  <1>5. store' = LogAt(q)
    BY <1>2, <1>4, NoRows DEF LogAt, LastOf
  <1>6. 0 \in 0..q.number /\ LogAt(q) = LastOf(q, 0)
    BY <1>4 DEF LogAt
  <1>7. IsLog(LogAt(q)) /\ LogAt(q) \in Logs
    BY <1>6, LastTyped
  <1> DEFINE m == [type |-> "reset", log |-> store']
  <1>8. m \in Events
    BY <1>5, <1>7 DEF Events
  <1>9. Leads(Present, m, q)
    <2>1. Present.session = store.session
      BY DEF Present
    <2> QED BY <1>4, <1>5, <2>1 DEF Leads
  <1>10. Send(m)
    BY DEF ResetSession
  <1>11. \E e \in Events : Send(e) /\ Leads(Present, e, Present')
    <2> HIDE DEF m
    <2> QED BY <1>4, <1>8, <1>9, <1>10
  <1>12. outputs' = outputs
    BY DEF ResetSession
  <1>13. nextRow' \in 1..MaxOutputs + 1 /\ nextRow' <= outputs' + 1 /\ outputs' \in 0..MaxOutputs
    BY <1>1, <1>2, <1>12
  <1>14. LogAt(Present)' = LogAt(q)
    BY <1>4 DEF LogAt, LastOf
  <1>15. IsLog(store)'
    BY <1>5, <1>7 DEF IsLog
  <1> QED BY <1>4, <1>5, <1>11, <1>13, <1>14, <1>15

LEMMA AppendLeads ==
    ASSUME OutputInv, AppendOutput
    PROVE  /\ Present' \in Points /\ store' = LogAt(Present)' /\ IsLog(store)'
           /\ nextRow' \in 1..MaxOutputs + 1 /\ nextRow' <= outputs' + 1 /\ outputs' \in 0..MaxOutputs
           /\ \E m \in Events : Send(m) /\ Leads(Present, m, Present')
  <1> USE OutputAssumption
  <1>1. PICK n \in Nat : n = nextRow - 1 /\ nextRow = n + 1 /\ n <= outputs /\ Present.number = n
    <2>1. nextRow \in 1..MaxOutputs + 1 /\ nextRow <= outputs + 1 /\ outputs \in 0..MaxOutputs
      BY DEF OutputInv, OutputTypeOK
    <2> QED BY <2>1, PresentIs
  <1>2. outputs \in 0..MaxOutputs /\ outputs < MaxOutputs /\ outputs' = outputs + 1 /\ nextRow' = n + 2
    <2>1. outputs \in 0..MaxOutputs
      BY DEF OutputInv, OutputTypeOK
    <2>2. outputs < MaxOutputs /\ outputs' = outputs + 1 /\ nextRow' = nextRow + 1
      BY DEF AppendOutput
    <2> QED BY <1>1, <2>1, <2>2
  <1>3. n + 1 \in 0..MaxOutputs /\ nextRow' \in 1..MaxOutputs + 1 /\ nextRow' <= outputs' + 1
        /\ outputs' \in 0..MaxOutputs
    BY <1>1, <1>2
  <1>4. PICK s \in 0..MaxSessions : s = store.session
    BY DEF OutputInv, OutputTypeOK, IsLog
  <1>5. store = [session |-> s, rows |-> RowsUpTo(Capped(n), n), omitted |-> n - Capped(n)]
    <2>1. store = LastOf(Present, Present.number) /\ Present.session = s /\ Present.number = n
      BY <1>1, <1>4, PresentIs
    <2> QED BY <2>1 DEF LastOf
  <1> DEFINE rows == Append(store.rows, nextRow)
  <1>6. Retained(rows) = RowsUpTo(Capped(n + 1), n + 1) /\ Len(rows) = Capped(n) + 1
    <2>1. n <= n
      BY <1>1
    <2>2. /\ RowsUpTo(Capped(n), n) \in Seq(Nat) /\ Len(RowsUpTo(Capped(n), n)) = Capped(n)
          /\ Retained(Append(RowsUpTo(Capped(n), n), n + 1)) = RowsUpTo(Capped(n + 1), n + 1)
      BY <1>1, <2>1, RowsGrow
    <2>3. store.rows = RowsUpTo(Capped(n), n) /\ nextRow = n + 1
      BY <1>1, <1>5
    <2> QED BY <2>2, <2>3
  <1>7. Len(Retained(rows)) = Capped(n + 1)
    BY <1>6, RowsGrow
  <1>8. store' = [store EXCEPT !.rows = Retained(rows), !.omitted = @ + (Len(rows) - Len(Retained(rows)))]
    BY DEF AppendOutput
  <1>9. (n - Capped(n)) + ((Capped(n) + 1) - Capped(n + 1)) = (n + 1) - Capped(n + 1)
    BY DEF Capped
  <1>10. store' = [session |-> s, rows |-> RowsUpTo(Capped(n + 1), n + 1),
                   omitted |-> (n + 1) - Capped(n + 1)]
    <2> HIDE DEF rows
    <2> QED BY <1>5, <1>6, <1>7, <1>8, <1>9
  <1>11. Present' = [session |-> s, number |-> n + 1]
    BY <1>2, <1>10 DEF Present
  <1>12. PICK q \in Points : q = Present' /\ q.session = s /\ q.number = n + 1
    BY <1>3, <1>4, <1>11 DEF Points
  <1>13. store' = LogAt(q)
    BY <1>10, <1>12 DEF LogAt, LastOf
  <1>14. q.number \in 0..q.number /\ LogAt(q) = LastOf(q, q.number)
    BY <1>12 DEF LogAt
  <1>15. IsLog(LogAt(q)) /\ LogAt(q) \in Logs
    BY <1>14, LastTyped
  <1> DEFINE m == [type |-> "append", row |-> nextRow, log |-> [store' EXCEPT !.rows = <<nextRow>>]]
  <1>16. m \in Events
    <2>1. nextRow \in Nat /\ <<nextRow>> \in Seq(Nat)
      BY <1>1
    <2>2. [store' EXCEPT !.rows = <<nextRow>>] \in Logs
      BY <1>13, <1>15, <2>1 DEF Logs
    <2> QED BY <2>1, <2>2 DEF Events
  <1>17. Leads(Present, m, q)
    <2>1. m.row = q.number /\ m.log = [LogAt(q) EXCEPT !.rows = <<q.number>>]
      BY <1>1, <1>12, <1>13
    <2>2. q.session = Present.session /\ q.number = Present.number + 1
      BY <1>1, <1>4, <1>12, PresentIs
    <2> QED BY <2>1, <2>2 DEF Leads
  <1>18. Send(m)
    BY DEF AppendOutput
  <1>19. \E e \in Events : Send(e) /\ Leads(Present, e, Present')
    <2> HIDE DEF m
    <2> QED BY <1>12, <1>16, <1>17, <1>18
  <1>20. LogAt(Present)' = LogAt(q)
    BY <1>12 DEF LogAt, LastOf
  <1>21. IsLog(store)'
    BY <1>13, <1>15 DEF IsLog
  <1> QED BY <1>3, <1>12, <1>13, <1>19, <1>20, <1>21

LEMMA QueueKinds ==
    ASSUME QueuesInPlace
    PROVE  /\ wire \in Seq(Messages) /\ pending \in Seq(Messages) /\ batch \in Seq(Messages)
           /\ Underway \in Seq(Messages)
  <1>1. wire \in Seq(Messages) /\ pending \in Seq(Events) /\ batch \in Seq(Events)
    BY DEF QueuesInPlace
  <1>2. pending \in Seq(Messages)
    <2>1. \A i \in 1..Len(pending) : pending[i] \in Messages
      BY <1>1, EventsAreMessages
    <2> QED BY <1>1, <2>1
  <1>3. batch \in Seq(Messages)
    <2>1. \A i \in 1..Len(batch) : batch[i] \in Messages
      BY <1>1, EventsAreMessages
    <2> QED BY <1>1, <2>1
  <1> QED BY <1>1, <1>2, <1>3 DEF Underway

\* typed queues hold messages of the four kinds
LEMMA QueuesTyped ==
    ASSUME QueuesInPlace
    PROVE  \A queue \in {wire, pending, batch} : \A i \in DOMAIN queue :
              queue[i].type \in {"reset", "append", "snapshot", "failed"}
  BY QueueKinds, KindOf

\* a message more on the wire of a window that listens
LEMMA SendKeeps ==
    ASSUME OutputInv, NEW m \in Messages, Leads(Present, m, Present'), Present' \in Points,
           \/ m \in Events /\ window' = window
           \/ window = "asking" /\ window' = "waiting",
           window \notin {"closed", "opening"}, wire' = Append(wire, m),
           UNCHANGED <<pending, batch, view, following, anchor, visible>>
    PROVE  /\ QueuesInPlace' /\ AnchorInPlace'
           /\ (\E at \in [0..Len(Underway) -> Points] :
                  LeadsTo(at, Underway, Present) /\ IsCopyOf(at[0]))'
  <1>1. QueuesInPlace /\ AnchorInPlace
    BY DEF OutputInv
  <1>2. wire \in Seq(Messages) /\ pending \in Seq(Messages) /\ batch \in Seq(Messages)
        /\ Underway \in Seq(Messages)
    BY <1>1, QueueKinds
  <1>3. Underway' = Append(Underway, m)
    BY <1>2 DEF Underway
  <1>4. PICK at : LeadsTo(at, Underway, Present) /\ IsCopyOf(at[0])
    BY DEF OutputInv
  <1>5. PICK on \in [0..Len(Append(Underway, m)) -> Points] :
           LeadsTo(on, Append(Underway, m), Present') /\ on[0] = at[0]
    BY <1>2, <1>4, LeadsOn
  <1>6. IsCopyOf(on[0])'
    BY <1>4, <1>5 DEF IsCopyOf
  <1>7. QueuesInPlace'
    <2>1. wire' \in Seq(Messages) /\ Len(wire') = Len(wire) + 1 /\ DOMAIN wire' = 1..Len(wire) + 1
          /\ wire'[Len(wire) + 1] = m /\ \A i \in DOMAIN wire : wire'[i] = wire[i]
      BY <1>2
    <2>2. \A i \in DOMAIN wire' : i \in DOMAIN wire \/ i = Len(wire) + 1
      BY <1>2, <2>1, SMTT(60)
    <2>3. CASE m \in Events /\ window' = window
      <3>1. m \notin Answers
        BY <2>3, KindOf
      <3>2. \A i \in DOMAIN wire' : wire'[i] \in Answers => i \in DOMAIN wire /\ wire[i] \in Answers
        BY <2>1, <2>2, <3>1
      <3> QED BY <1>1, <2>1, <2>3, <3>2 DEF QueuesInPlace
    <2>4. CASE window = "asking" /\ window' = "waiting"
      <3>1. \A i \in DOMAIN wire : wire[i] \notin Answers
        BY <1>1, <2>4 DEF QueuesInPlace
      <3>2. \A i \in DOMAIN wire' : wire'[i] \in Answers => i = Len(wire) + 1
        BY <2>1, <2>2, <3>1
      <3> QED BY <1>1, <2>1, <2>4, <3>2 DEF QueuesInPlace
    <2> QED BY <2>3, <2>4
  <1>8. AnchorInPlace'
    BY <1>1 DEF AnchorInPlace, AnchorIndex
  <1> QED BY <1>3, <1>5, <1>6, <1>7, <1>8

\* nothing is under way to a window that does not listen
LEMMA ClosedKeeps ==
    ASSUME OutputInv, Present' \in Points, window' \in {"closed", "opening", "asking"},
           wire' = <<>>, pending' = <<>>, batch' = <<>>, view' = EmptyLog, following', visible' > 0
    PROVE  /\ QueuesInPlace' /\ AnchorInPlace'
           /\ (\E at \in [0..Len(Underway) -> Points] :
                  LeadsTo(at, Underway, Present) /\ IsCopyOf(at[0]))'
  <1>1. QueuesInPlace'
    BY DEF QueuesInPlace
  <1>2. AnchorInPlace'
    BY DEF AnchorInPlace
  <1>3. Underway' = <<>>
    BY DEF Underway
  <1> PICK p \in Points : p = Present'
    OBVIOUS
  <1>4. IsCopyOf(p)'
    BY DEF IsCopyOf
  <1>5. PICK at \in [0..Len(<<>>) -> Points] : at[0] = p /\ LeadsTo(at, <<>>, p)
    <2>1. [i \in 0..Len(<<>>) |-> p][0] = p
      OBVIOUS
    <2>2. /\ [i \in 0..Len(<<>>) |-> p] \in [0..Len(<<>>) -> Points]
          /\ LeadsTo([i \in 0..Len(<<>>) |-> p], <<>>, p)
      BY LeadsNowhere
    <2> QED BY <2>1, <2>2
  <1>6. IsCopyOf(at[0])'
    BY <1>4, <1>5
  <1> QED BY <1>1, <1>2, <1>3, <1>5, <1>6

LEMMA StoreKeeps ==
    ASSUME OutputInv, ResetSession \/ AppendOutput
    PROVE  OutputInv'
  <1>1. /\ Present' \in Points /\ store' = LogAt(Present)' /\ IsLog(store)'
        /\ nextRow' \in 1..MaxOutputs + 1 /\ nextRow' <= outputs' + 1 /\ outputs' \in 0..MaxOutputs
    BY ResetLeads, AppendLeads
  <1>2. PICK m \in Events : Send(m) /\ Leads(Present, m, Present')
    BY ResetLeads, AppendLeads
  <1>3. UNCHANGED <<opens, window, pending, batch, view, following, anchor, visible>>
    BY DEF ResetSession, AppendOutput
  <1>4. OutputTypeOK /\ QueuesInPlace /\ AnchorInPlace
    BY DEF OutputInv
  <1>5. /\ QueuesInPlace' /\ AnchorInPlace'
        /\ (\E at \in [0..Len(Underway) -> Points] :
               LeadsTo(at, Underway, Present) /\ IsCopyOf(at[0]))'
    <2>1. CASE window \in {"closed", "opening"}
      <3>1. wire' = <<>> /\ pending' = <<>> /\ batch' = <<>> /\ view' = EmptyLog /\ following' /\ visible' > 0
        BY <1>2, <1>3, <1>4, <2>1 DEF Send, QueuesInPlace, AnchorInPlace
      <3> QED BY <1>1, <1>3, <2>1, <3>1, ClosedKeeps
    <2>2. CASE window \notin {"closed", "opening"}
      <3>1. wire' = Append(wire, m) /\ m \in Messages
        BY <1>2, <2>2, EventsAreMessages DEF Send
      <3> QED BY <1>1, <1>2, <1>3, <2>2, <3>1, SendKeeps
    <2> QED BY <2>1, <2>2
  <1>6. IsLog(view)'
    BY <1>3, <1>4 DEF OutputTypeOK, IsLog
  <1>7. OutputTypeOK'
    <2>1. (\A queue \in {wire, pending, batch} : \A i \in DOMAIN queue :
              queue[i].type \in {"reset", "append", "snapshot", "failed"})'
      BY <1>5, QueuesTyped, PTL
    <2> QED BY <1>1, <1>3, <1>4, <1>6, <2>1 DEF OutputTypeOK
  <1> QED BY <1>1, <1>5, <1>7 DEF OutputInv

LEMMA RestKeeps ==
    ASSUME OutputInv, UNCHANGED <<store, nextRow, outputs>>, opens' \in 0..MaxOpens,
           window' \in {"closed", "opening", "asking", "waiting", "live", "blind"},
           IsLog(view)', following' \in BOOLEAN, anchor' \in 0..MaxOutputs, visible' \in Nat,
           QueuesInPlace', AnchorInPlace',
           (\E at \in [0..Len(Underway) -> Points] :
               LeadsTo(at, Underway, Present) /\ IsCopyOf(at[0]))'
    PROVE  OutputInv'
  <1>1. OutputTypeOK /\ store = LogAt(Present) /\ nextRow <= outputs + 1
    BY DEF OutputInv
  <1>2. (\A queue \in {wire, pending, batch} : \A i \in DOMAIN queue :
            queue[i].type \in {"reset", "append", "snapshot", "failed"})'
    BY QueuesTyped, PTL
  <1>3. OutputTypeOK'
    BY <1>1, <1>2 DEF OutputTypeOK, IsLog
  <1>4. store' = LogAt(Present)' /\ nextRow' <= outputs' + 1
    BY <1>1 DEF Present, LogAt, LastOf
  <1> QED BY <1>3, <1>4 DEF OutputInv

LEMMA PresentStays ==
    ASSUME OutputInv, UNCHANGED <<store, nextRow>>
    PROVE  Present' = Present /\ Present' \in Points /\ Present \in Points
  <1>1. Present' = Present
    BY DEF Present
  <1> QED BY <1>1, PresentIs

LEMMA ViewTyped ==
    ASSUME OutputInv
    PROVE  /\ IsLog(view) /\ following \in BOOLEAN /\ anchor \in 0..MaxOutputs /\ visible \in Nat
           /\ opens \in 0..MaxOpens /\ IsLog(EmptyLog) /\ PageSize \in Nat /\ PageSize > 0
           /\ 0 \in 0..MaxOutputs
  <1>1. IsLog(EmptyLog)
    BY OutputAssumption DEF IsLog, EmptyLog
  <1> QED BY <1>1, OutputAssumption DEF OutputInv, OutputTypeOK

LEMMA OpeningKeeps ==
    ASSUME OutputInv, OpenWindow \/ CloseWindow \/ Subscribe
    PROVE  OutputInv'
  <1>1. QueuesInPlace /\ AnchorInPlace
    BY DEF OutputInv
  <1>2. /\ UNCHANGED <<store, nextRow, outputs>> /\ opens' \in 0..MaxOpens
        /\ window' \in {"closed", "opening", "asking"}
        /\ wire' = <<>> /\ pending' = <<>> /\ batch' = <<>> /\ view' = EmptyLog /\ following' = TRUE
        /\ anchor' \in 0..MaxOutputs /\ visible' \in Nat /\ visible' > 0
    <2>1. CASE OpenWindow
      <3>1. opens' \in 0..MaxOpens
        BY <2>1, ViewTyped, OutputAssumption DEF OpenWindow
      <3> QED BY <1>1, <2>1, <3>1, ViewTyped DEF OpenWindow, QueuesInPlace, AnchorInPlace
    <2>2. CASE CloseWindow
      BY <2>2, ViewTyped DEF CloseWindow
    <2>3. CASE Subscribe
      BY <1>1, <2>3, ViewTyped DEF Subscribe, QueuesInPlace, AnchorInPlace
    <2> QED BY <2>1, <2>2, <2>3
  <1>3. Present' \in Points
    BY <1>2, PresentStays
  <1>4. /\ QueuesInPlace' /\ AnchorInPlace'
        /\ (\E at \in [0..Len(Underway) -> Points] :
               LeadsTo(at, Underway, Present) /\ IsCopyOf(at[0]))'
    BY <1>2, <1>3, ClosedKeeps
  <1>5. IsLog(view)'
    BY <1>2, ViewTyped DEF IsLog
  <1> QED BY <1>2, <1>4, <1>5, RestKeeps

LEMMA AnswerGetKeeps ==
    ASSUME OutputInv, AnswerGet
    PROVE  OutputInv'
  <1>1. /\ UNCHANGED <<store, nextRow, outputs, opens, pending, batch, view, following, anchor, visible>>
        /\ window = "asking" /\ window' = "waiting"
    BY DEF AnswerGet
  <1>2. Present' = Present /\ Present' \in Points
    BY <1>1, PresentStays
  <1>3. \E m \in Messages : wire' = Append(wire, m) /\ Leads(Present, m, Present')
    <2>1. CASE wire' = Append(wire, [type |-> "snapshot", log |-> store])
      <3>1. [type |-> "snapshot", log |-> store] \in Answers
        BY PresentIs DEF Answers
      <3>2. Leads(Present, [type |-> "snapshot", log |-> store], Present')
        <4>1. store = LogAt(Present)
          BY DEF OutputInv
        <4> QED BY <1>2, <4>1 DEF Leads
      <3> QED BY <2>1, <3>1, <3>2, EventsAreMessages
    <2>2. CASE wire' = Append(wire, [type |-> "failed"])
      <3>1. [type |-> "failed"] \in Answers
        BY DEF Answers
      <3>2. Leads(Present, [type |-> "failed"], Present')
        BY <1>2 DEF Leads
      <3> QED BY <2>2, <3>1, <3>2, EventsAreMessages
    <2> QED BY <2>1, <2>2 DEF AnswerGet
  <1>4. /\ QueuesInPlace' /\ AnchorInPlace'
        /\ (\E at \in [0..Len(Underway) -> Points] :
               LeadsTo(at, Underway, Present) /\ IsCopyOf(at[0]))'
    <2>1. PICK m \in Messages : wire' = Append(wire, m) /\ Leads(Present, m, Present')
      BY <1>3
    <2> QED BY <1>1, <1>2, <2>1, SendKeeps
  <1>5. IsLog(view)'
    BY <1>1, ViewTyped DEF IsLog
  <1> QED BY <1>1, <1>4, <1>5, ViewTyped, RestKeeps

\* the rest of the wire
LEMMA WireTail ==
    ASSUME QueuesInPlace, wire # <<>>
    PROVE  /\ Head(wire) \in Messages /\ Tail(wire) \in Seq(Messages)
           /\ window \notin {"closed", "opening"}
           /\ Head(wire) \in Answers => window = "waiting"
           /\ \A i \in DOMAIN Tail(wire) : Tail(wire)[i] \in Answers =>
                 /\ window = "waiting" /\ Head(wire) \notin Answers
                 /\ \A j \in DOMAIN Tail(wire) : Tail(wire)[j] \in Answers => j = i
  <1>1. /\ wire \in Seq(Messages) /\ window \notin {"closed", "opening"}
        /\ \A i \in DOMAIN wire : wire[i] \in Answers =>
              window = "waiting" /\ \A j \in DOMAIN wire : wire[j] \in Answers => j = i
    BY SMTT(60) DEF QueuesInPlace
  <1>2. PICK n \in Nat : Len(wire) = n + 1
    <2>1. Len(wire) \in Nat /\ Len(wire) # 0
      BY <1>1
    <2>2. Len(wire) - 1 \in Nat /\ Len(wire) = (Len(wire) - 1) + 1
      BY <2>1
    <2> QED BY <2>2
  <1>3. /\ Head(wire) = wire[1] /\ 1 \in DOMAIN wire /\ Head(wire) \in Messages
        /\ Tail(wire) \in Seq(Messages) /\ DOMAIN Tail(wire) = 1..n
        /\ \A i \in 1..n : Tail(wire)[i] = wire[i + 1] /\ i + 1 \in DOMAIN wire /\ i + 1 # 1
    BY <1>1, <1>2
  <1>4. ASSUME NEW i \in 1..n, Tail(wire)[i] \in Answers
        PROVE  /\ window = "waiting" /\ Head(wire) \notin Answers
               /\ \A j \in 1..n : Tail(wire)[j] \in Answers => j = i
    <2>1. wire[i + 1] \in Answers /\ i + 1 \in DOMAIN wire
      BY <1>3, <1>4
    <2>2. window = "waiting" /\ \A j \in DOMAIN wire : wire[j] \in Answers => j = i + 1
      BY <1>1, <2>1
    <2>3. \A j \in 1..n : Tail(wire)[j] \in Answers => j + 1 = i + 1
      BY <1>3, <2>2
    <2> QED BY <1>3, <2>2, <2>3
  <1>5. \A i \in 1..n : Tail(wire)[i] \in Answers =>
           /\ window = "waiting" /\ Head(wire) \notin Answers
           /\ \A j \in 1..n : Tail(wire)[j] \in Answers => j = i
    BY <1>4
  <1>6. Head(wire) \in Answers => window = "waiting"
    BY <1>1, <1>3
  <1> QED BY <1>1, <1>3, <1>5, <1>6

LEMMA MovedOver ==
    ASSUME NEW s \in Seq(Messages), NEW t \in Seq(Messages), t # <<>>
    PROVE  /\ Append(s, Head(t)) \o Tail(t) = s \o t
           /\ t = <<Head(t)>> \o Tail(t)
  <1>1. /\ Head(t) \in Messages /\ Tail(t) \in Seq(Messages) /\ <<Head(t)>> \in Seq(Messages)
    OBVIOUS
  <1>2. Append(s, Head(t)) = s \o <<Head(t)>>
    BY <1>1, AppendIsConcat
  <1>3. t = <<Head(t)>> \o Tail(t)
    <2>1. 1 \in 1..Len(t) /\ Len(t) \in 1..Len(t) /\ t[1] = Head(t)
      BY EmptySeq
    <2>2. SubSeq(t, 1, Len(t)) = <<t[1]>> \o SubSeq(t, 1 + 1, Len(t))
      BY <2>1, SubSeqRecursiveFirst
    <2>3. SubSeq(t, 1, Len(t)) = t /\ Tail(t) = SubSeq(t, 2, Len(t)) /\ 1 + 1 = 2
      BY SubSeqFull, TailIsSubSeq
    <2> QED BY <2>1, <2>2, <2>3
  <1>4. (s \o <<Head(t)>>) \o Tail(t) = s \o (<<Head(t)>> \o Tail(t))
    BY <1>1, ConcatAssociative
  <1> QED BY <1>2, <1>3, <1>4

LEMMA ArrivalKeeps ==
    ASSUME OutputInv, EventArrives
    PROVE  OutputInv'
  <1>1. /\ wire # <<>> /\ Head(wire).type \in {"reset", "append"} /\ wire' = Tail(wire)
        /\ UNCHANGED <<store, nextRow, outputs, opens, window, view, following, anchor, visible>>
    BY DEF EventArrives
  <1>2. QueuesInPlace /\ AnchorInPlace
    BY DEF OutputInv
  <1>3. /\ Head(wire) \in Events /\ Tail(wire) \in Seq(Messages)
        /\ window \notin {"closed", "opening"}
        /\ \A i \in DOMAIN Tail(wire) : Tail(wire)[i] \in Answers =>
              /\ window = "waiting"
              /\ \A j \in DOMAIN Tail(wire) : Tail(wire)[j] \in Answers => j = i
    BY <1>1, <1>2, WireTail, KindOf
  <1>4. /\ wire \in Seq(Messages) /\ pending \in Seq(Messages) /\ batch \in Seq(Messages)
        /\ pending \in Seq(Events) /\ batch \in Seq(Events)
    BY <1>2, QueueKinds DEF QueuesInPlace
  <1>5. QueuesInPlace' /\ Underway' = Underway
    <2>1. CASE window \in {"asking", "waiting"}
      <3>1. pending' = Append(pending, Head(wire)) /\ batch' = batch /\ batch = <<>>
        BY <1>2, <2>1 DEF EventArrives, QueuesInPlace
      <3>2. pending' \in Seq(Events)
        BY <1>3, <1>4, <3>1
      <3>3. Underway' = Append(pending, Head(wire)) \o Tail(wire) /\ Underway = pending \o wire
        <4>1. Append(pending, Head(wire)) \in Seq(Messages)
          BY <1>3, <1>4, EventsAreMessages
        <4>2. \A t \in Seq(Messages) : t \o <<>> = t
          OBVIOUS
        <4>3. pending' \o batch' = Append(pending, Head(wire)) /\ pending \o batch = pending
          BY <1>4, <3>1, <4>1, <4>2
        <4> QED BY <1>1, <4>3 DEF Underway
      <3>4. Underway' = Underway
        BY <1>1, <1>4, <3>3, MovedOver
      <3>5. QueuesInPlace'
        BY <1>1, <1>2, <1>3, <2>1, <3>1, <3>2 DEF QueuesInPlace
      <3> QED BY <3>4, <3>5
    <2>2. CASE window \notin {"asking", "waiting"}
      <3>1. batch' = Append(batch, Head(wire)) /\ pending' = pending /\ pending = <<>>
        BY <1>2, <2>2 DEF EventArrives, QueuesInPlace
      <3>2. window \in {"live", "blind"}
        BY <1>3, <2>2 DEF OutputInv, OutputTypeOK
      <3>3. batch' \in Seq(Events)
        BY <1>3, <1>4, <3>1
      <3>4. Underway' = Append(batch, Head(wire)) \o Tail(wire) /\ Underway = batch \o wire
        <4>1. Append(batch, Head(wire)) \in Seq(Messages)
          BY <1>3, <1>4, EventsAreMessages
        <4>2. \A t \in Seq(Messages) : <<>> \o t = t
          OBVIOUS
        <4>3. pending' \o batch' = Append(batch, Head(wire)) /\ pending \o batch = batch
          BY <1>4, <3>1, <4>1, <4>2
        <4> QED BY <1>1, <4>3 DEF Underway
      <3>5. Underway' = Underway
        BY <1>1, <1>4, <3>4, MovedOver
      <3>6. QueuesInPlace'
        BY <1>1, <1>2, <1>3, <3>1, <3>2, <3>3 DEF QueuesInPlace
      <3> QED BY <3>5, <3>6
    <2> QED BY <2>1, <2>2
  <1>6. AnchorInPlace'
    BY <1>1, <1>2 DEF AnchorInPlace, AnchorIndex
  <1>7. (\E at \in [0..Len(Underway) -> Points] :
            LeadsTo(at, Underway, Present) /\ IsCopyOf(at[0]))'
    <2>1. PICK at \in [0..Len(Underway) -> Points] : LeadsTo(at, Underway, Present) /\ IsCopyOf(at[0])
      BY DEF OutputInv
    <2>2. IsCopyOf(at[0])'
      BY <1>1, <2>1 DEF IsCopyOf
    <2>3. Present' = Present
      BY <1>1, PresentStays
    <2> QED BY <1>5, <2>1, <2>2, <2>3
  <1>8. IsLog(view)'
    BY <1>1, ViewTyped DEF IsLog
  <1>9. window' \in {"closed", "opening", "asking", "waiting", "live", "blind"}
    BY <1>1 DEF OutputInv, OutputTypeOK
  <1> QED BY <1>1, <1>5, <1>6, <1>7, <1>8, <1>9, ViewTyped, RestKeeps

\* where a row stands among the last rows
IndexIn(rows, row) == CHOOSE i \in DOMAIN rows : rows[i] = row

LEMMA IndexIs ==
    ASSUME NEW p \in Points, NEW count \in 0..p.number, NEW n, n = p.number, NEW c, c = Capped(count),
           NEW rows, rows = LastOf(p, count).rows, NEW row \in ToSet(rows)
    PROVE  /\ row \in Nat /\ row <= n /\ row \in (n - c) + 1..n
           /\ IndexIn(rows, row) = row - (n - c) /\ IndexIn(rows, row) \in 1..c
           /\ Len(rows) = c
  <1>1. n \in Nat /\ c \in Nat /\ c <= n
    BY RowsAre
  <1>2. /\ Len(rows) = c /\ rows \in Seq(Nat) /\ ToSet(rows) = (n - c) + 1..n
        /\ \A i \in 1..c : rows[i] = (n - c) + i
    BY <1>1, RowsAre
  <1>3. row \in (n - c) + 1..n
    BY <1>2
  <1>4. DOMAIN rows = 1..c
    BY <1>2
  <1> PICK r \in Nat : r = row /\ r \in (n - c) + 1..n
    BY <1>1, <1>3
  <1>5. PICK k \in 1..c : k = r - (n - c)
    BY <1>1
  <1>6. rows[k] = row
    <2>1. (n - c) + k = r
      BY <1>1, <1>5
    <2> QED BY <1>2, <2>1
  <1>7. \A i \in 1..c : rows[i] = row => i = k
    <2>1. \A i \in 1..c : (n - c) + i = r => i = k
      BY <1>1, <1>5
    <2> QED BY <1>2, <2>1
  <1>8. IndexIn(rows, row) = k
    BY <1>4, <1>6, <1>7 DEF IndexIn
  <1>9. row \in Nat /\ row <= n
    BY <1>1, <1>3
  <1> QED BY <1>2, <1>3, <1>5, <1>8, <1>9

\* in a session rows only go on
LEMMA GrownRows ==
    ASSUME NEW p \in Points, NEW q \in Points, NEW count \in 0..p.number,
           NotAfter(p, q), q.session = p.session
    PROVE  /\ p.number <= q.number
           /\ p.number - Capped(count) <= q.number - Capped(Grown(count, p, q))
           /\ Capped(count) <= Capped(Grown(count, p, q))
  <1>1. PICK a \in Nat, b \in Nat, k \in Nat, s \in Nat :
           a = p.number /\ b = q.number /\ k = count /\ k <= a /\ s = p.session
    BY OutputAssumption DEF Points
  <1>2. a <= b
    BY <1>1 DEF NotAfter
  <1>3. Grown(count, p, q) = k + (b - a)
    BY <1>1 DEF Grown
  <1>4. a - Capped(k) <= b - Capped(k + (b - a)) /\ Capped(k) <= Capped(k + (b - a))
    BY <1>1, <1>2, OutputAssumption DEF Capped
  <1> QED BY <1>1, <1>2, <1>3, <1>4

\* the user's place when events are shown
LEMMA PlaceKept ==
    ASSUME OutputInv, NEW p \in Points, NEW q \in Points, NEW count \in 0..p.number,
           view = EmptyLog \/ view = LastOf(p, count), NotAfter(p, q),
           NEW grown \in 0..q.number, grown = Grown(count, p, q),
           view' = LastOf(q, grown), NEW events, Apply(events)
    PROVE  AnchorInPlace' /\ following' \in BOOLEAN /\ anchor' \in 0..MaxOutputs /\ visible' \in Nat
  <1>1. AnchorInPlace /\ following \in BOOLEAN /\ anchor \in 0..MaxOutputs /\ visible \in Nat
        /\ visible > 0 /\ PageSize \in Nat /\ PageSize > 0 /\ 0 \in 0..MaxOutputs
    BY ViewTyped DEF OutputInv, AnchorInPlace
  <1>2. CASE following' = TRUE
    <2>1. /\ anchor' \in 0..MaxOutputs \/ anchor' = Head(view'.rows)
          /\ visible' \in Nat /\ visible' > 0
      BY <1>1 DEF Apply
    <2>2. anchor' \in 0..MaxOutputs
      <3>1. CASE following
        BY <1>1, <3>1 DEF Apply
      <3>2. CASE ~following
        BY <1>1, <1>2, <3>2 DEF Apply
      <3> QED BY <3>1, <3>2
    <2> QED BY <1>2, <2>1, <2>2 DEF AnchorInPlace
  <1>3. CASE following' # TRUE
    <2>1. /\ view'.session = view.session /\ following' = following /\ visible' = visible
          /\ ~following
          /\ anchor' = IF anchor \in ToSet(view'.rows) \/ view' = view THEN anchor
                       ELSE Head(view'.rows)
      BY <1>1, <1>3 DEF Apply
    <2>2. anchor \in ToSet(view.rows) /\ (AnchorIndex = 1 \/ AnchorIndex + visible - 1 <= Len(view.rows))
      BY <1>1, <2>1 DEF AnchorInPlace
    <2>3. view = LastOf(p, count)
      BY <2>2 DEF EmptyLog, ToSet
    <2>4. q.session = p.session
      BY <2>1, <2>3 DEF LastOf
    <2>5. PICK a \in Nat, b \in Nat, v \in Nat : a = p.number /\ b = q.number /\ v = visible
      BY <1>1, OutputAssumption DEF Points
    <2>6. PICK c \in Nat, d \in Nat : c = Capped(count) /\ d = Capped(grown) /\ c <= a /\ d <= b
      BY <2>5, OutputAssumption DEF Capped
    <2>7. a <= b /\ a - c <= b - d /\ c <= d
      BY <2>4, <2>5, <2>6, GrownRows
    <2>8. /\ anchor \in Nat /\ anchor <= a /\ AnchorIndex = anchor - (a - c) /\ AnchorIndex \in 1..c
          /\ Len(view.rows) = c
      <3>1. AnchorIndex = IndexIn(view.rows, anchor)
        BY <2>2 DEF AnchorIndex, IndexIn
      <3> QED BY <2>2, <2>3, <2>5, <2>6, <3>1, IndexIs, SMTT(60)
    <2>9. /\ Len(view'.rows) = d /\ view'.rows \in Seq(Nat)
          /\ ToSet(view'.rows) = (b - d) + 1..b
          /\ \A i \in 1..d : view'.rows[i] = (b - d) + i
      BY <2>5, <2>6, RowsAre
    <2>10. CASE anchor \in ToSet(view'.rows)
      <3>1. PICK x \in Nat : x = anchor
        BY <2>8
      <3>2. anchor' = x /\ x \in (b - d) + 1..b /\ x \in ToSet(view'.rows)
        BY <2>1, <2>9, <2>10, <3>1
      <3>3. AnchorIndex' = x - (b - d)
        <4>1. PICK now : now = view'.rows /\ now = LastOf(q, grown).rows /\ x \in ToSet(now)
          BY <3>2
        <4>2. IndexIn(now, x) = x - (b - d)
          BY <2>5, <2>6, <4>1, IndexIs, SMTT(60)
        <4>3. IndexIn(view'.rows, x) = x - (b - d)
          BY <4>1, <4>2
        <4> QED BY <3>2, <4>3 DEF AnchorIndex, IndexIn
      <3>4. AnchorIndex = x - (a - c)
        BY <2>8, <3>1
      <3>5. x - (b - d) = 1 \/ (x - (b - d)) + v - 1 <= d
        <4>1. (x - (a - c)) = 1 \/ (x - (a - c)) + v - 1 <= c
          BY <2>2, <2>5, <2>8, <3>4
        <4> QED BY <2>6, <2>7, <3>2, <4>1
      <3>6. anchor' \in ToSet(view'.rows) /\ anchor' \in 0..MaxOutputs
        BY <1>1, <2>10, <3>1, <3>2
      <3>7. AnchorIndex' = 1 \/ AnchorIndex' + visible' - 1 <= Len(view'.rows)
        BY <2>1, <2>5, <2>9, <3>3, <3>5
      <3> QED BY <1>1, <2>1, <3>6, <3>7 DEF AnchorInPlace
    <2>11. CASE anchor \notin ToSet(view'.rows)
      <3>1. view' # view
        BY <2>2, <2>11
      <3>2. d # 0 /\ 1 \in 1..d
        BY <2>7, <2>8
      <3>3. anchor' = view'.rows[1] /\ view'.rows[1] = (b - d) + 1
        BY <2>1, <2>9, <2>11, <3>1, <3>2
      <3>4. PICK x \in Nat : x = (b - d) + 1 /\ x \in (b - d) + 1..b
        BY <2>6, <3>2
      <3>5. anchor' = x /\ x \in ToSet(view'.rows) /\ anchor' \in ToSet(view'.rows)
        BY <2>9, <3>3, <3>4
      <3>6. AnchorIndex' = 1
        <4>1. PICK now : now = view'.rows /\ now = LastOf(q, grown).rows
          OBVIOUS
        <4>2. x \in ToSet(now)
          BY <3>5, <4>1
        <4>3. IndexIn(now, x) = x - (b - d)
          BY <2>5, <2>6, <4>1, <4>2, IndexIs, SMTT(60)
        <4>4. x - (b - d) = 1
          BY <2>6, <3>4
        <4> QED BY <3>5, <4>1, <4>3, <4>4 DEF AnchorIndex, IndexIn
      <3>7. anchor' \in 0..MaxOutputs
        <4>1. b \in 0..MaxOutputs
          BY <2>5 DEF Points
        <4> QED BY <3>4, <3>5, <4>1, OutputAssumption
      <3> QED BY <1>1, <2>1, <3>5, <3>6, <3>7 DEF AnchorInPlace
    <2> QED BY <2>10, <2>11
  <1> QED BY <1>2, <1>3

LEMMA AfterNone ==
    ASSUME NEW log
    PROVE  After(log, <<>>) = log
  <1> DEFINE logs == [i \in 0..0 |-> log]
  <1>1. logs \in [0..0 -> {log}] /\ logs[0] = log
    OBVIOUS
  <1>2. Len(<<>>) = 0 /\ 1..0 = {}
    OBVIOUS
  <1>3. \A i \in 1..0 : logs[i] = Reduce(logs[i - 1], <<>>[i])
    BY <1>2
  <1> HIDE DEF logs
  <1> QED BY <1>1, <1>2, <1>3, AfterIs

LEMMA HeadLeads ==
    ASSUME NEW messages \in Seq(Messages), messages # <<>>, NEW at, NEW p, LeadsTo(at, messages, p)
    PROVE  \E on \in [0..Len(Tail(messages)) -> Points] :
              LeadsTo(on, Tail(messages), p) /\ Leads(at[0], Head(messages), on[0])
  <1>1. PICK m \in Messages : m = Head(messages)
    OBVIOUS
  <1>2. PICK rest \in Seq(Messages) : rest = Tail(messages)
    <2>1. Tail(messages) \in Seq(Messages)
      OBVIOUS
    <2> QED BY <2>1
  <1>3. PICK front \in Seq(Messages) : front = <<m>> /\ Len(front) = 1 /\ front[1] = m
    <2>1. <<m>> \in Seq(Messages) /\ Len(<<m>>) = 1 /\ <<m>>[1] = m
      OBVIOUS
    <2> QED BY <2>1
  <1>4. messages = front \o rest
    BY <1>1, <1>2, <1>3, MovedOver
  <1>5. LeadsTo(at, front \o rest, p)
    BY <1>4
  <1>6. PICK one \in [0..Len(front) -> Points], on \in [0..Len(rest) -> Points] :
           /\ LeadsTo(one, front, on[0]) /\ one[0] = at[0]
           /\ LeadsTo(on, rest, p)
    BY <1>5, LeadsOver
  <1>7. Leads(one[0], m, one[1]) /\ one[1] = on[0]
    BY <1>3, <1>6 DEF LeadsTo
  <1> QED BY <1>1, <1>2, <1>6, <1>7

\* what comes before an answer leads to it, and what comes after on from it
LEMMA AnswerSplits ==
    ASSUME OutputInv, wire # <<>>, Head(wire) \in Answers
    PROVE  /\ window = "waiting" /\ batch = <<>> /\ view = EmptyLog /\ following
           /\ Tail(wire) \in Seq(Messages) /\ \A i \in DOMAIN Tail(wire) : Tail(wire)[i] \notin Answers
           /\ \E mid \in [0..Len(pending) -> Points], on \in [0..Len(Tail(wire)) -> Points] :
                 /\ LeadsTo(mid, pending, on[0]) /\ LeadsTo(on, Tail(wire), Present)
                 /\ Leads(on[0], Head(wire), on[0])
  <1>1. QueuesInPlace
    BY DEF OutputInv
  <1>2. /\ window = "waiting" /\ Tail(wire) \in Seq(Messages) /\ Head(wire) \in Messages
        /\ \A i \in DOMAIN Tail(wire) : Tail(wire)[i] \notin Answers
    BY <1>1, WireTail
  <1>3. batch = <<>> /\ view = EmptyLog /\ following
    BY <1>1, <1>2 DEF QueuesInPlace
  <1>4. pending \in Seq(Messages) /\ wire \in Seq(Messages) /\ <<Head(wire)>> \in Seq(Messages)
    BY <1>1, <1>2, QueueKinds
  <1>5. Underway = pending \o wire
    <2>1. pending \o <<>> = pending
      BY <1>4, ConcatEmptySeq
    <2> QED BY <1>3, <2>1 DEF Underway
  <1>6. PICK at : LeadsTo(at, pending \o wire, Present)
    BY <1>5 DEF OutputInv
  <1>7. PICK mid \in [0..Len(pending) -> Points], over \in [0..Len(wire) -> Points] :
           LeadsTo(mid, pending, over[0]) /\ LeadsTo(over, wire, Present)
    BY <1>4, <1>6, LeadsOver
  <1>8. PICK on \in [0..Len(Tail(wire)) -> Points] :
           LeadsTo(on, Tail(wire), Present) /\ Leads(over[0], Head(wire), on[0])
    BY <1>4, <1>7, HeadLeads
  <1>9. on[0] = over[0]
    <2>1. Head(wire).type \in {"snapshot", "failed"}
      BY DEF Answers
    <2> QED BY <1>8, <2>1 DEF Leads
  <1>10. LeadsTo(mid, pending, on[0]) /\ Leads(on[0], Head(wire), on[0])
    BY <1>7, <1>8, <1>9
  <1> QED BY <1>2, <1>3, <1>7, <1>8, <1>10

LEMMA SnapshotKeeps ==
    ASSUME OutputInv, SnapshotArrives
    PROVE  OutputInv'
  <1>1. /\ wire # <<>> /\ Head(wire).type = "snapshot" /\ wire' = Tail(wire) /\ window' = "live"
        /\ view' = After(Head(wire).log, pending) /\ pending' = <<>>
        /\ UNCHANGED <<store, nextRow, outputs, opens, batch, following, anchor, visible>>
    BY DEF SnapshotArrives
  <1>2. QueuesInPlace /\ AnchorInPlace
    BY DEF OutputInv
  <1>3. Head(wire) \in Answers
    BY <1>1, <1>2, WireTail, KindOf
  <1>4. /\ batch = <<>> /\ following /\ Tail(wire) \in Seq(Messages)
        /\ \A i \in DOMAIN Tail(wire) : Tail(wire)[i] \notin Answers
    BY <1>1, <1>3, AnswerSplits
  <1>5. PICK mid \in [0..Len(pending) -> Points], on \in [0..Len(Tail(wire)) -> Points] :
           /\ LeadsTo(mid, pending, on[0]) /\ LeadsTo(on, Tail(wire), Present)
           /\ Leads(on[0], Head(wire), on[0])
    BY <1>1, <1>3, AnswerSplits
  <1>6. Head(wire).log = LogAt(on[0])
    BY <1>1, <1>5 DEF Leads
  <1>7. view' = LogAt(on[0])
    <2>1. pending \in Seq(Events)
      BY <1>2 DEF QueuesInPlace
    <2> QED BY <1>1, <1>5, <1>6, <2>1, SnapshotJoins
  <1>8. on[0] \in Points
    <2>1. Len(Tail(wire)) \in Nat
      BY <1>4
    <2>2. 0 \in 0..Len(Tail(wire))
      BY <2>1
    <2> QED BY <1>5, <2>2
  <1>9. IsLog(view)'
    <2>1. on[0].number \in 0..on[0].number
      BY <1>8, OutputAssumption DEF Points
    <2>2. IsLog(LogAt(on[0]))
      BY <1>8, <2>1, LastTyped DEF LogAt
    <2> QED BY <1>7, <2>2 DEF IsLog
  <1>10. QueuesInPlace'
    BY <1>1, <1>4 DEF QueuesInPlace
  <1>11. AnchorInPlace'
    BY <1>1, <1>2, <1>4 DEF AnchorInPlace
  <1>12. (\E at \in [0..Len(Underway) -> Points] :
            LeadsTo(at, Underway, Present) /\ IsCopyOf(at[0]))'
    <2>1. Underway' = Tail(wire)
      <3>1. <<>> \o <<>> = <<>> /\ <<>> \o Tail(wire) = Tail(wire)
        BY <1>4, ConcatEmptySeq, EmptySeq
      <3> QED BY <1>1, <1>4, <3>1 DEF Underway
    <2>2. IsCopyOf(on[0])'
      BY <1>1, <1>7 DEF IsCopyOf
    <2>3. Present' = Present
      BY <1>1, PresentStays
    <2> QED BY <1>5, <2>1, <2>2, <2>3
  <1>13. window' \in {"closed", "opening", "asking", "waiting", "live", "blind"}
    BY <1>1
  <1> QED BY <1>1, <1>9, <1>10, <1>11, <1>12, <1>13, ViewTyped, RestKeeps

\* events that are shown leave a copy at where they lead, and the user's place
LEMMA ShownKeeps ==
    ASSUME OutputInv, NEW events \in Seq(Events), events # <<>>, Apply(events),
           NEW at, NEW last, LeadsTo(at, events, last), NEW count \in 0..at[0].number,
           view = LastOf(at[0], count) \/ (view = EmptyLog /\ count = 0)
    PROVE  /\ \E grown \in 0..last.number : /\ grown = Grown(count, at[0], last)
                                            /\ view' = LastOf(last, grown)
           /\ at[0] \in Points /\ last \in Points /\ NotAfter(at[0], last)
           /\ IsLog(view)' /\ AnchorInPlace'
           /\ following' \in BOOLEAN /\ anchor' \in 0..MaxOutputs /\ visible' \in Nat
  <1>1. at[0] \in Points /\ last \in Points
    <2>1. PICK n \in Nat : Len(events) = n
      OBVIOUS
    <2>2. last \in Points /\ \A i \in 0..n : at[i] \in Points
      BY <2>1, ChainedPoints
    <2> QED BY <2>2
  <1>2. /\ After(view, events) = LastOf(last, Grown(count, at[0], last))
        /\ NotAfter(at[0], last) /\ Grown(count, at[0], last) \in 0..last.number
    <2>1. CASE view = LastOf(at[0], count)
      BY <2>1, EventsExtend
    <2>2. CASE view = EmptyLog /\ count = 0
      BY <2>2, EventsExtend
    <2> QED BY <2>1, <2>2
  <1>3. PICK grown \in 0..last.number : grown = Grown(count, at[0], last)
    BY <1>2
  <1>4. view' = LastOf(last, grown)
    BY <1>2, <1>3 DEF Apply
  <1>5. IsLog(view)'
    <2>1. IsLog(LastOf(last, grown))
      BY <1>1, LastTyped
    <2> QED BY <1>4, <2>1 DEF IsLog
  <1>6. AnchorInPlace' /\ following' \in BOOLEAN /\ anchor' \in 0..MaxOutputs /\ visible' \in Nat
    BY <1>1, <1>2, <1>3, <1>4, PlaceKept
  <1> QED BY <1>1, <1>2, <1>3, <1>4, <1>5, <1>6

LEMMA FailureKeeps ==
    ASSUME OutputInv, GetFailed
    PROVE  OutputInv'
  <1>1. /\ wire # <<>> /\ Head(wire).type = "failed" /\ wire' = Tail(wire) /\ window' = "blind"
        /\ Apply(pending) /\ pending' = <<>>
        /\ UNCHANGED <<store, nextRow, outputs, opens, batch>>
    BY DEF GetFailed
  <1>2. QueuesInPlace /\ AnchorInPlace /\ pending \in Seq(Events)
    BY DEF OutputInv, QueuesInPlace
  <1>3. Head(wire) \in Answers
    BY <1>1, <1>2, WireTail, KindOf
  <1>4. /\ batch = <<>> /\ following /\ view = EmptyLog /\ Tail(wire) \in Seq(Messages)
        /\ \A i \in DOMAIN Tail(wire) : Tail(wire)[i] \notin Answers
    BY <1>1, <1>3, AnswerSplits
  <1>5. PICK mid \in [0..Len(pending) -> Points], on \in [0..Len(Tail(wire)) -> Points] :
           LeadsTo(mid, pending, on[0]) /\ LeadsTo(on, Tail(wire), Present)
    BY <1>1, <1>3, AnswerSplits
  <1>6. /\ IsLog(view)' /\ AnchorInPlace'
        /\ following' \in BOOLEAN /\ anchor' \in 0..MaxOutputs /\ visible' \in Nat
        /\ view' = EmptyLog \/ \E grown \in 0..on[0].number : view' = LastOf(on[0], grown)
    <2>1. CASE pending = <<>>
      <3>1. view' = view /\ view' = EmptyLog
        BY <1>1, <1>4, <2>1, AfterNone DEF Apply
      <3>2. \/ UNCHANGED <<following, anchor, visible>>
            \/ following' = TRUE /\ anchor' = 0 /\ visible' = PageSize
        BY <1>1, <1>4, <3>1 DEF Apply
      <3>3. following' = TRUE /\ anchor' \in 0..MaxOutputs /\ visible' \in Nat /\ visible' > 0
        BY <1>2, <1>4, <3>2, ViewTyped DEF AnchorInPlace
      <3>4. IsLog(view)'
        BY <3>1, ViewTyped DEF IsLog
      <3> QED BY <3>1, <3>3, <3>4 DEF AnchorInPlace
    <2>2. CASE pending # <<>>
      <3>1. 0 \in 0..mid[0].number
        <4>1. Len(pending) \in Nat
          BY <1>2
        <4>2. mid[0] \in Points
          BY <1>5, <4>1
        <4> QED BY <4>2, OutputAssumption DEF Points
      <3> QED BY <1>1, <1>2, <1>4, <1>5, <2>2, <3>1, ShownKeeps, SMTT(60)
    <2> QED BY <2>1, <2>2
  <1>7. QueuesInPlace'
    BY <1>1, <1>4 DEF QueuesInPlace
  <1>8. (\E at \in [0..Len(Underway) -> Points] :
            LeadsTo(at, Underway, Present) /\ IsCopyOf(at[0]))'
    <2>1. Underway' = Tail(wire)
      <3>1. <<>> \o <<>> = <<>> /\ <<>> \o Tail(wire) = Tail(wire)
        BY <1>4, ConcatEmptySeq, EmptySeq
      <3> QED BY <1>1, <1>4, <3>1 DEF Underway
    <2>2. IsCopyOf(on[0])'
      BY <1>1, <1>6 DEF IsCopyOf
    <2>3. Present' = Present
      BY <1>1, PresentStays
    <2> QED BY <1>5, <2>1, <2>2, <2>3
  <1>9. window' \in {"closed", "opening", "asking", "waiting", "live", "blind"} /\ opens' \in 0..MaxOpens
    BY <1>1, ViewTyped
  <1> QED BY <1>1, <1>6, <1>7, <1>8, <1>9, RestKeeps

\* what a frame shows: the copy of the point before it becomes that of the one after
LEMMA FrameShows ==
    ASSUME OutputInv, FrameDrawn
    PROVE  \E at \in [0..Len(batch) -> Points], on \in [0..Len(wire) -> Points],
              count \in Nat :
              /\ LeadsTo(at, batch, on[0]) /\ LeadsTo(on, wire, Present)
              /\ count \in 0..at[0].number
              /\ view = LastOf(at[0], count) \/ (view = EmptyLog /\ count = 0)
              /\ window = "live" => count = at[0].number /\ view = LastOf(at[0], count)
  <1>1. batch # <<>>
    BY DEF FrameDrawn
  <1>2. QueuesInPlace
    BY DEF OutputInv
  <1>3. window \in {"live", "blind"} /\ pending = <<>>
    BY <1>1, <1>2 DEF QueuesInPlace
  <1>4. batch \in Seq(Messages) /\ wire \in Seq(Messages)
    BY <1>2, QueueKinds
  <1>5. Underway = batch \o wire
    <2>1. <<>> \o batch = batch
      BY <1>4, ConcatEmptySeq
    <2> QED BY <1>3, <2>1 DEF Underway
  <1>6. PICK old : LeadsTo(old, batch \o wire, Present) /\ IsCopyOf(old[0])
    BY <1>5 DEF OutputInv
  <1>7. PICK at \in [0..Len(batch) -> Points], on \in [0..Len(wire) -> Points] :
           LeadsTo(at, batch, on[0]) /\ at[0] = old[0] /\ LeadsTo(on, wire, Present)
    BY <1>4, <1>6, LeadsOver
  <1>8. IsCopyOf(at[0])
    BY <1>6, <1>7
  <1>9. at[0] \in Points
    <2>1. Len(batch) \in Nat
      BY <1>4
    <2> QED BY <1>7, <2>1
  <1>10. at[0].number \in Nat /\ at[0].number \in 0..at[0].number /\ 0 \in 0..at[0].number
    BY <1>9, OutputAssumption DEF Points
  <1>11. \E count \in Nat :
            /\ count \in 0..at[0].number
            /\ view = LastOf(at[0], count) \/ (view = EmptyLog /\ count = 0)
            /\ window = "live" => count = at[0].number /\ view = LastOf(at[0], count)
    <2>1. CASE window = "live"
      <3>1. view = LastOf(at[0], at[0].number)
        BY <1>8, <2>1 DEF IsCopyOf, LogAt
      <3> QED BY <1>10, <3>1
    <2>2. CASE window = "blind"
      <3>1. view = EmptyLog \/ \E count \in 0..at[0].number : view = LastOf(at[0], count)
        BY <1>8, <2>2 DEF IsCopyOf
      <3>2. CASE view = EmptyLog
        BY <1>10, <2>2, <3>2
      <3>3. CASE \E count \in 0..at[0].number : view = LastOf(at[0], count)
        <4>1. PICK count \in 0..at[0].number : view = LastOf(at[0], count)
          BY <3>3
        <4>2. count \in Nat
          BY <1>10
        <4> QED BY <2>2, <4>1, <4>2
      <3> QED BY <3>1, <3>2, <3>3
    <2> QED BY <1>3, <2>1, <2>2
  <1> QED BY <1>7, <1>11

LEMMA FrameKeeps ==
    ASSUME OutputInv, FrameDrawn
    PROVE  OutputInv'
  <1>1. /\ batch # <<>> /\ batch' = <<>> /\ Apply(batch)
        /\ UNCHANGED <<store, nextRow, outputs, opens, window, wire, pending>>
    BY DEF FrameDrawn
  <1>2. QueuesInPlace /\ batch \in Seq(Events) /\ wire \in Seq(Messages)
    BY DEF OutputInv, QueuesInPlace
  <1>3. window \in {"live", "blind"} /\ pending = <<>>
    BY <1>1, <1>2 DEF QueuesInPlace
  <1>4. PICK at \in [0..Len(batch) -> Points], on \in [0..Len(wire) -> Points], count \in Nat :
           /\ LeadsTo(at, batch, on[0]) /\ LeadsTo(on, wire, Present)
           /\ count \in 0..at[0].number
           /\ view = LastOf(at[0], count) \/ (view = EmptyLog /\ count = 0)
           /\ window = "live" => count = at[0].number /\ view = LastOf(at[0], count)
    BY FrameShows
  <1>5. PICK grown \in 0..on[0].number : /\ grown = Grown(count, at[0], on[0])
                                         /\ view' = LastOf(on[0], grown)
    BY <1>1, <1>2, <1>4, ShownKeeps
  <1>6. /\ at[0] \in Points /\ on[0] \in Points
        /\ IsLog(view)' /\ AnchorInPlace'
        /\ following' \in BOOLEAN /\ anchor' \in 0..MaxOutputs /\ visible' \in Nat
    BY <1>1, <1>2, <1>4, ShownKeeps
  <1>7. IsCopyOf(on[0])'
    <2>1. CASE window = "live"
      <3>1. grown = on[0].number
        <4>1. PICK a \in Nat, b \in Nat : a = at[0].number /\ b = on[0].number
          BY <1>6, OutputAssumption DEF Points
        <4>2. a + (b - a) = b
          OBVIOUS
        <4> QED BY <1>4, <1>5, <2>1, <4>1, <4>2 DEF Grown
      <3> QED BY <1>1, <1>5, <2>1, <3>1 DEF IsCopyOf, LogAt
    <2>2. CASE window = "blind"
      BY <1>1, <1>5, <2>2 DEF IsCopyOf
    <2> QED BY <1>3, <2>1, <2>2
  <1>8. QueuesInPlace'
    BY <1>1, <1>2, <1>3 DEF QueuesInPlace
  <1>9. (\E p \in [0..Len(Underway) -> Points] :
            LeadsTo(p, Underway, Present) /\ IsCopyOf(p[0]))'
    <2>1. Underway' = wire
      <3>1. <<>> \o <<>> = <<>> /\ <<>> \o wire = wire
        BY <1>2, ConcatEmptySeq, EmptySeq
      <3> QED BY <1>1, <1>3, <3>1 DEF Underway
    <2>2. Present' = Present
      BY <1>1, PresentStays
    <2> QED BY <1>4, <1>7, <2>1, <2>2
  <1>10. window' \in {"closed", "opening", "asking", "waiting", "live", "blind"} /\ opens' \in 0..MaxOpens
    BY <1>1, <1>3, ViewTyped
  <1> QED BY <1>1, <1>6, <1>8, <1>9, <1>10, RestKeeps

\* the copy is empty, or the last rows of some point
LEMMA ViewIs ==
    ASSUME OutputInv
    PROVE  view = EmptyLog \/ \E p \in Points : \E count \in 0..p.number : view = LastOf(p, count)
  <1>1. PICK at \in [0..Len(Underway) -> Points] : LeadsTo(at, Underway, Present) /\ IsCopyOf(at[0])
    BY DEF OutputInv
  <1>2. at[0] \in Points
    <2>1. Underway \in Seq(Messages)
      BY QueueKinds DEF OutputInv
    <2>2. Len(Underway) \in Nat
      BY <2>1
    <2> QED BY <1>1, <2>2
  <1>3. at[0].number \in 0..at[0].number
    BY <1>2, OutputAssumption DEF Points
  <1>4. CASE window = "live"
    BY <1>1, <1>2, <1>3, <1>4 DEF IsCopyOf, LogAt
  <1>5. CASE window = "blind"
    BY <1>1, <1>2, <1>5 DEF IsCopyOf
  <1>6. CASE window \notin {"live", "blind"}
    BY <1>6 DEF OutputInv, QueuesInPlace
  <1> QED BY <1>4, <1>5, <1>6

\* what is seen of the last rows, which end at row n
LEMMA SeenRows ==
    ASSUME OutputInv, view.rows # <<>>
    PROVE  \E n \in Nat, c \in Nat, v \in Nat :
              /\ 0 < c /\ c <= n /\ n <= MaxOutputs /\ 0 < v /\ v = visible
              /\ view.rows \in Seq(Nat) /\ Len(view.rows) = c
              /\ \A i \in 1..c : view.rows[i] = (n - c) + i /\ view.rows[i] \in ToSet(view.rows)
              /\ \A i \in 1..c : IndexIn(view.rows, view.rows[i]) = i
  <1> PICK p \in Points : \E count \in 0..p.number : view = LastOf(p, count)
    <2>1. EmptyLog.rows = <<>>
      BY DEF EmptyLog
    <2> QED BY <2>1, ViewIs
  <1>1. PICK count \in 0..p.number : view = LastOf(p, count)
    OBVIOUS
  <1>2. PICK n \in Nat : n = p.number /\ n <= MaxOutputs
    BY OutputAssumption DEF Points
  <1>3. PICK c \in Nat : c = Capped(count) /\ c <= n
    <2>1. PICK k \in 0..n : k = count
      BY <1>2
    <2>2. Capped(count) \in 0..k
      BY <2>1, RowsAre
    <2> QED BY <1>2, <2>1, <2>2
  <1>4. PICK rows : rows = view.rows /\ rows = LastOf(p, count).rows
    BY <1>1
  <1>5. /\ rows \in Seq(Nat) /\ Len(rows) = c /\ ToSet(rows) = (n - c) + 1..n
        /\ \A i \in 1..c : rows[i] = (n - c) + i
    BY <1>2, <1>3, <1>4, RowsAre
  <1>6. c # 0
    BY <1>4, <1>5
  <1>7. ASSUME NEW i \in 1..c
        PROVE  rows[i] = (n - c) + i /\ rows[i] \in ToSet(rows) /\ IndexIn(rows, rows[i]) = i
    <2>1. PICK row \in Nat : row = (n - c) + i /\ row \in (n - c) + 1..n
      BY <1>3
    <2>2. rows[i] = row /\ row \in ToSet(rows)
      BY <1>5, <2>1
    <2>3. IndexIn(rows, row) = row - (n - c)
      BY <1>2, <1>3, <1>4, <2>2, IndexIs
    <2>4. row - (n - c) = i
      BY <1>3, <2>1
    <2> QED BY <2>1, <2>2, <2>3, <2>4
  <1>8. visible \in Nat /\ visible > 0
    BY DEF OutputInv, OutputTypeOK, AnchorInPlace
  <1>9. PICK v \in Nat : v = visible /\ 0 < v
    BY <1>8
  <1>10. /\ 0 < c /\ c <= n /\ n <= MaxOutputs
         /\ view.rows \in Seq(Nat) /\ Len(view.rows) = c
    BY <1>2, <1>3, <1>4, <1>5, <1>6
  <1>11. /\ \A i \in 1..c : view.rows[i] = (n - c) + i /\ view.rows[i] \in ToSet(view.rows)
         /\ \A i \in 1..c : IndexIn(view.rows, view.rows[i]) = i
    BY <1>4, <1>7
  <1> QED BY <1>9, <1>10, <1>11

\* scrolling changes the place only
LEMMA PlaceMoves ==
    ASSUME OutputInv, UnchangedByScrolling, window \in {"live", "blind"} \/ following',
           AnchorInPlace', following' \in BOOLEAN, anchor' \in 0..MaxOutputs, visible' \in Nat
    PROVE  OutputInv'
  <1>1. UNCHANGED <<store, nextRow, outputs, opens, window, wire, pending, batch, view>>
    BY DEF UnchangedByScrolling
  <1>2. QueuesInPlace'
    BY <1>1 DEF OutputInv, QueuesInPlace, Waiting
  <1>3. (\E at \in [0..Len(Underway) -> Points] :
            LeadsTo(at, Underway, Present) /\ IsCopyOf(at[0]))'
    <2>1. PICK at \in [0..Len(Underway) -> Points] : LeadsTo(at, Underway, Present) /\ IsCopyOf(at[0])
      BY DEF OutputInv
    <2>2. IsCopyOf(at[0])'
      BY <1>1, <2>1 DEF IsCopyOf
    <2>3. Present' = Present /\ Underway' = Underway
      BY <1>1 DEF Present, Underway
    <2> QED BY <2>1, <2>2, <2>3
  <1>4. IsLog(view)'
    BY <1>1, ViewTyped DEF IsLog
  <1>5. window' \in {"closed", "opening", "asking", "waiting", "live", "blind"} /\ opens' \in 0..MaxOpens
    BY <1>1 DEF OutputInv, OutputTypeOK
  <1> QED BY <1>1, <1>2, <1>3, <1>4, <1>5, RestKeeps

\* a row that is made the anchor, with what is then shown of the rows after it
LEMMA AnchorMoves ==
    ASSUME OutputInv, UnchangedByScrolling, window \in {"live", "blind"}, view.rows # <<>>,
           NEW i \in 1..Len(view.rows), anchor' = view.rows[i], following' = FALSE,
           visible' \in Nat, visible' > 0, i = 1 \/ i + visible' - 1 <= Len(view.rows)
    PROVE  OutputInv'
  <1>1. PICK n \in Nat, c \in Nat, v \in Nat :
           /\ 0 < c /\ c <= n /\ n <= MaxOutputs
           /\ view.rows \in Seq(Nat) /\ Len(view.rows) = c
           /\ \A k \in 1..c : view.rows[k] = (n - c) + k /\ view.rows[k] \in ToSet(view.rows)
           /\ \A k \in 1..c : IndexIn(view.rows, view.rows[k]) = k
    BY SeenRows
  <1>2. view' = view
    BY DEF UnchangedByScrolling
  <1>3. i \in 1..c /\ view.rows[i] = (n - c) + i /\ view.rows[i] \in ToSet(view.rows)
        /\ IndexIn(view.rows, view.rows[i]) = i
    BY <1>1
  <1>4. anchor' \in 0..MaxOutputs
    <2>1. (n - c) + i \in 0..MaxOutputs
      BY <1>1, <1>3, OutputAssumption
    <2> QED BY <1>3, <2>1
  <1>5. anchor' \in ToSet(view'.rows) /\ AnchorIndex' = i
    BY <1>2, <1>3 DEF AnchorIndex, IndexIn
  <1>6. AnchorInPlace'
    BY <1>2, <1>5 DEF AnchorInPlace
  <1> QED BY <1>4, <1>6, PlaceMoves

\* scrolling away, back to the end, and to earlier rows
LEMMA ScrollKeeps ==
    ASSUME OutputInv, ScrollAway
    PROVE  OutputInv'
  <1>1. /\ following /\ window \in {"live", "blind"} /\ VisibleRows # <<>>
        /\ following' = FALSE /\ anchor' = Head(VisibleRows) /\ visible' = visible
        /\ UnchangedByScrolling
    BY DEF ScrollAway
  <1>2. VisibleRows = IF Len(view.rows) > visible THEN LastRows(view.rows, visible) ELSE view.rows
    BY <1>1 DEF VisibleRows
  <1>3. view.rows # <<>>
    <2> SUFFICES ASSUME view.rows = <<>> PROVE FALSE
      OBVIOUS
    <2>1. Len(view.rows) = 0 /\ visible \in Nat
      BY ViewTyped
    <2> QED BY <1>1, <1>2, <2>1
  <1>4. PICK n \in Nat, c \in Nat, v \in Nat :
           /\ 0 < c /\ 0 < v /\ v = visible
           /\ view.rows \in Seq(Nat) /\ Len(view.rows) = c
    BY <1>3, SeenRows
  <1>5. CASE c > v
    <2>1. (c - v) + 1 \in 1..c
      BY <1>4, <1>5
    <2>2. VisibleRows = SubSeq(view.rows, (c - v) + 1, c)
      BY <1>2, <1>4, <1>5 DEF LastRows
    <2>3. c \in (c - v) + 1..c
      BY <1>4, <1>5
    <2>4. Head(VisibleRows) = view.rows[(c - v) + 1]
      BY <1>4, <2>1, <2>2, <2>3, HeadTailOfSubSeq
    <2>5. ((c - v) + 1) + v - 1 <= c
      OBVIOUS
    <2> QED BY <1>1, <1>3, <1>4, <2>1, <2>4, <2>5, AnchorMoves
  <1>6. CASE ~ (c > v)
    <2>1. VisibleRows = view.rows /\ 1 \in 1..c
      BY <1>2, <1>4, <1>6
    <2>2. Head(VisibleRows) = view.rows[1]
      BY <1>3, <1>4, <2>1
    <2> QED BY <1>1, <1>3, <1>4, <2>1, <2>2, AnchorMoves
  <1> QED BY <1>5, <1>6

LEMMA FollowKeeps ==
    ASSUME OutputInv, FollowEnd
    PROVE  OutputInv'
  <1>1. following' = TRUE /\ anchor' = 0 /\ visible' = visible /\ UnchangedByScrolling
    BY DEF FollowEnd
  <1>2. AnchorInPlace'
    BY <1>1 DEF AnchorInPlace, OutputInv
  <1> QED BY <1>1, <1>2, ViewTyped, PlaceMoves

\* the first row shown, and how many are
LEMMA SeenFrom ==
    ASSUME OutputInv, view.rows # <<>>
    PROVE  \E start \in Nat, k \in Nat, c \in Nat :
              /\ Len(view.rows) = c /\ Len(VisibleRows) = k /\ 0 < k
              /\ start \in 1..c /\ start + k - 1 <= c
              /\ start = IF following THEN Len(view.rows) - Len(VisibleRows) + 1 ELSE AnchorIndex
              /\ ~following => start = 1 \/ k = visible
              /\ view.rows \in Seq(Nat) /\ VisibleRows = SubSeq(view.rows, start, start + k - 1)
  <1>1. PICK n \in Nat, c \in Nat, v \in Nat :
           /\ 0 < c /\ c <= n /\ 0 < v /\ v = visible
           /\ view.rows \in Seq(Nat) /\ Len(view.rows) = c
           /\ \A i \in 1..c : view.rows[i] = (n - c) + i /\ view.rows[i] \in ToSet(view.rows)
           /\ \A i \in 1..c : IndexIn(view.rows, view.rows[i]) = i
    BY SeenRows
  <1>2. PICK rows \in Seq(Nat) : rows = view.rows /\ Len(rows) = c
    BY <1>1
  <1>3. CASE following /\ c > v
    <2>1. VisibleRows = SubSeq(rows, (c - v) + 1, c)
      BY <1>1, <1>2, <1>3 DEF VisibleRows, LastRows
    <2>2. Len(SubSeq(rows, (c - v) + 1, c)) = v
      BY <1>1, <1>2, <1>3
    <2>3. /\ (c - v) + 1 \in Nat /\ (c - v) + 1 \in 1..c /\ ((c - v) + 1) + v - 1 = c
          /\ (c - v) + 1 = c - v + 1
      BY <1>1, <1>3
    <2> QED BY <1>1, <1>2, <1>3, <2>1, <2>2, <2>3
  <1>4. CASE following /\ ~ (c > v)
    <2>1. VisibleRows = rows
      BY <1>1, <1>2, <1>4 DEF VisibleRows
    <2>2. 1 \in 1..c /\ 1 + c - 1 = c /\ c - c + 1 = 1
      BY <1>1
    <2>3. rows = SubSeq(rows, 1, c)
      BY <1>2, SubSeqFull
    <2>4. /\ Len(view.rows) = c /\ Len(VisibleRows) = c /\ 0 < c
          /\ 1 \in 1..c /\ 1 + c - 1 <= c /\ 1 \in Nat
          /\ 1 = IF following THEN Len(view.rows) - Len(VisibleRows) + 1 ELSE AnchorIndex
      BY <1>1, <1>2, <1>4, <2>1, <2>2
    <2>5. VisibleRows = SubSeq(view.rows, 1, 1 + c - 1)
      BY <1>2, <2>1, <2>2, <2>3
    <2> QED BY <1>1, <1>4, <2>4, <2>5
  <1>5. CASE ~following
    <2>1. anchor \in ToSet(rows) /\ (AnchorIndex = 1 \/ AnchorIndex + v - 1 <= c)
      BY <1>1, <1>2, <1>5 DEF OutputInv, AnchorInPlace
    <2>2. PICK i \in 1..c : rows[i] = anchor
      <3>1. DOMAIN rows = 1..c
        BY <1>2
      <3> QED BY <2>1, <3>1 DEF ToSet
    <2>3. AnchorIndex = i
      <3>1. AnchorIndex = IndexIn(rows, anchor)
        BY <1>2, <2>1 DEF AnchorIndex, IndexIn
      <3> QED BY <1>1, <1>2, <2>2, <3>1
    <2>4. PICK e \in Nat : e = IF i + v - 1 < c THEN i + v - 1 ELSE c
      BY <1>1
    <2>5. VisibleRows = SubSeq(rows, i, e)
      BY <1>1, <1>2, <1>5, <2>3, <2>4 DEF VisibleRows
    <2>6. PICK k \in Nat : k = (e - i) + 1 /\ 0 < k /\ e = i + k - 1 /\ i + k - 1 <= c
      BY <1>1, <2>4
    <2>7. Len(SubSeq(rows, i, e)) = k
      BY <1>2, <2>4, <2>6
    <2>8. i = 1 \/ k = v
      BY <1>1, <2>1, <2>3, <2>4, <2>6
    <2>9. /\ Len(view.rows) = c /\ Len(VisibleRows) = k /\ 0 < k /\ i \in Nat
          /\ i + k - 1 <= c
          /\ i = IF following THEN Len(view.rows) - Len(VisibleRows) + 1 ELSE AnchorIndex
      BY <1>1, <1>2, <1>5, <2>3, <2>5, <2>6, <2>7
    <2>10. VisibleRows = SubSeq(view.rows, i, i + k - 1) /\ (i = 1 \/ k = visible)
      BY <1>1, <1>2, <2>5, <2>6, <2>8
    <2> QED BY <1>1, <2>9, <2>10
  <1> QED BY <1>3, <1>4, <1>5

\* earlier rows are added above those shown
LEMMA EarlierRows ==
    ASSUME OutputInv, ShowEarlier
    PROVE  \E start \in Nat, k \in Nat, added \in Nat :
              /\ view.rows # <<>> /\ start \in 1..Len(view.rows) /\ start + k - 1 <= Len(view.rows)
              /\ 0 < added /\ added < start /\ anchor' = view.rows[start - added]
              /\ ~following => k = visible
              /\ window \in {"live", "blind"} /\ following' = FALSE /\ visible' = k + added
  <1>1. view.rows # <<>>
    <2> SUFFICES ASSUME view.rows = <<>> PROVE FALSE
      OBVIOUS
    <2>1. Len(view.rows) = 0 /\ visible \in Nat /\ visible > 0
      BY ViewTyped DEF OutputInv, AnchorInPlace
    <2>2. following
      BY DEF OutputInv, AnchorInPlace, ToSet
    <2>3. VisibleRows = <<>>
      BY <2>1, <2>2 DEF VisibleRows
    <2>4. Len(view.rows) - Len(VisibleRows) + 1 = 1
      BY <2>1, <2>3
    <2> QED BY <2>2, <2>4, OutputAssumption DEF ShowEarlier
  <1>2. PICK start \in Nat, k \in Nat, c \in Nat :
           /\ Len(view.rows) = c /\ Len(VisibleRows) = k /\ 0 < k
           /\ start \in 1..c /\ start + k - 1 <= c
           /\ start = IF following THEN Len(view.rows) - Len(VisibleRows) + 1 ELSE AnchorIndex
           /\ ~following => start = 1 \/ k = visible
    BY <1>1, SeenFrom
  <1>3. PICK added \in Nat : added = IF start - 1 < PageSize THEN start - 1 ELSE PageSize
    BY <1>2, OutputAssumption
  <1>4. /\ window \in {"live", "blind"} /\ added > 0 /\ visible' = k + added
        /\ following' = FALSE /\ anchor' = view.rows[start - added]
    BY <1>2, <1>3 DEF ShowEarlier
  <1>5. added < start
    BY <1>2, <1>3
  <1>6. start # 1
    BY <1>4, <1>5
  <1> QED BY <1>1, <1>2, <1>4, <1>5, <1>6

LEMMA EarlierKeeps ==
    ASSUME OutputInv, ShowEarlier
    PROVE  OutputInv'
  <1>1. PICK start \in Nat, k \in Nat, added \in Nat :
           /\ view.rows # <<>> /\ start \in 1..Len(view.rows) /\ start + k - 1 <= Len(view.rows)
           /\ 0 < added /\ added < start /\ anchor' = view.rows[start - added]
           /\ window \in {"live", "blind"} /\ following' = FALSE /\ visible' = k + added
    BY EarlierRows
  <1>2. PICK c \in Nat : c = Len(view.rows)
    BY <1>1, SeenRows
  <1>3. PICK i \in 1..c : i = start - added
    BY <1>1, <1>2
  <1>4. visible' \in Nat /\ visible' > 0 /\ i + visible' - 1 <= c
    BY <1>1, <1>2, <1>3, SMTT(60)
  <1>5. UnchangedByScrolling
    BY DEF ShowEarlier
  <1> QED BY <1>1, <1>2, <1>3, <1>4, <1>5, AnchorMoves

\* each step of the log and its window
LEMMA NextOutput ==
    ASSUME OutputInv, [OutputNext]_outputVars
    PROVE  OutputInv'
  <1>1. CASE ResetSession \/ AppendOutput
    BY <1>1, StoreKeeps
  <1>2. CASE OpenWindow \/ CloseWindow \/ Subscribe
    BY <1>2, OpeningKeeps
  <1>3. CASE AnswerGet
    BY <1>3, AnswerGetKeeps
  <1>4. CASE SnapshotArrives
    BY <1>4, SnapshotKeeps
  <1>5. CASE GetFailed
    BY <1>5, FailureKeeps
  <1>6. CASE EventArrives
    BY <1>6, ArrivalKeeps
  <1>7. CASE FrameDrawn
    BY <1>7, FrameKeeps
  <1>8. CASE ScrollAway
    BY <1>8, ScrollKeeps
  <1>9. CASE FollowEnd
    BY <1>9, FollowKeeps
  <1>10. CASE ShowEarlier
    BY <1>10, EarlierKeeps
  <1>11. CASE UNCHANGED outputVars
    <2>1. UnchangedByScrolling /\ UNCHANGED <<following, anchor, visible>>
      BY <1>11 DEF outputVars, logWindow, UnchangedByScrolling
    <2>2. AnchorInPlace'
      BY <2>1 DEF OutputInv, AnchorInPlace, AnchorIndex, UnchangedByScrolling
    <2>3. window \in {"live", "blind"} \/ following'
      BY <2>1 DEF OutputInv, QueuesInPlace
    <2> QED BY <2>1, <2>2, <2>3, ViewTyped, PlaceMoves
  <1> QED BY <1>1, <1>2, <1>3, <1>4, <1>5, <1>6, <1>7, <1>8, <1>9, <1>10, <1>11 DEF OutputNext

\* Between any two messages, events and frames the window's copy of the output log
\* is where what is still under way leads on from, to where the store is.
THEOREM OutputInductive == OutputSpec => []OutputInv
  <1> QED BY InitOutput, NextOutput, PTL DEF OutputSpec

\* A window with a snapshot and no event left holds exactly the store's log.
THEOREM WindowCatchesUp == OutputSpec => []WindowHasLog
  <1>1. OutputInv => WindowHasLog
    <2> SUFFICES ASSUME OutputInv, window = "live", wire = <<>>, batch = <<>> PROVE view = store
      BY DEF WindowHasLog
    <2>1. pending = <<>>
      BY DEF OutputInv, QueuesInPlace
    <2>2. Underway = <<>> /\ Len(Underway) = 0
      BY <2>1 DEF Underway
    <2>3. PICK at : LeadsTo(at, Underway, Present) /\ IsCopyOf(at[0])
      BY DEF OutputInv
    <2>4. at[0] = Present
      BY <2>2, <2>3 DEF LeadsTo
    <2> QED BY <2>3, <2>4 DEF OutputInv, IsCopyOf
  <1> QED BY <1>1, OutputInductive, PTL

\* what a user who scrolled away sees: the rows from the anchor on
SeenOf(rows, row, span) ==
    SubSeq(rows, IndexIn(rows, row),
           IF IndexIn(rows, row) + span - 1 < Len(rows)
           THEN IndexIn(rows, row) + span - 1 ELSE Len(rows))

SeenCount(n, row, span) == IF (row + span) - 1 < n THEN span ELSE (n - row) + 1

\* the rows seen count up from the anchor
LEMMA SeenAre ==
    ASSUME NEW p \in Points, NEW count \in 0..p.number, NEW rows, rows = LastOf(p, count).rows,
           NEW row \in ToSet(rows), NEW span \in Nat, span > 0
    PROVE  /\ SeenOf(rows, row, span) \in Seq(Nat)
           /\ SeenCount(p.number, row, span) \in Nat
           /\ Len(SeenOf(rows, row, span)) = SeenCount(p.number, row, span)
           /\ \A j \in 1..SeenCount(p.number, row, span) :
                 SeenOf(rows, row, span)[j] = (row + j) - 1
  <1>1. PICK n \in Nat : n = p.number
    BY RowsAre
  <1>2. PICK c \in Nat : c = Capped(count) /\ c <= n
    BY <1>1, RowsAre
  <1>3. rows \in Seq(Nat) /\ Len(rows) = c /\ \A i \in 1..c : rows[i] = (n - c) + i
    BY <1>1, <1>2, RowsAre
  <1>4. PICK i \in 1..c : i = IndexIn(rows, row)
    BY <1>1, <1>2, IndexIs
  <1>5. row \in Nat /\ row <= n /\ row = (n - c) + i
    <2>1. row \in Nat /\ row <= n /\ i = row - (n - c)
      BY <1>1, <1>2, <1>4, IndexIs
    <2> QED BY <1>2, <2>1
  <1> PICK r \in Nat : r = row /\ r <= n /\ r = (n - c) + i
    BY <1>5
  <1>6. PICK e \in i..c : e = IF i + span - 1 < c THEN i + span - 1 ELSE c
    BY <1>2, <1>4
  <1>7. PICK k \in Nat : k = (e - i) + 1
    BY <1>2, <1>4, <1>6
  <1>8. k = SeenCount(n, r, span)
    <2>1. i + span - 1 < c <=> (r + span) - 1 < n
      BY <1>2
    <2>2. k = IF i + span - 1 < c THEN span ELSE (c - i) + 1
      BY <1>2, <1>6, <1>7
    <2>3. (n - r) + 1 = (c - i) + 1
      BY <1>2
    <2> QED BY <2>1, <2>2, <2>3 DEF SeenCount
  <1>9. SeenOf(rows, row, span) = SubSeq(rows, i, e)
    BY <1>3, <1>4, <1>6 DEF SeenOf
  <1>10. \A j \in i..e : rows[j] \in Nat
    <2> SUFFICES ASSUME NEW j \in i..e PROVE rows[j] \in Nat
      OBVIOUS
    <2>1. j \in 1..c
      BY <1>2, <1>4, <1>6
    <2> QED BY <1>3, <2>1
  <1>11. /\ SubSeq(rows, i, e) \in Seq(Nat) /\ Len(SubSeq(rows, i, e)) = k
         /\ \A j \in 1..k : SubSeq(rows, i, e)[j] = rows[i + j - 1]
    <2>1. i \in Int /\ e \in Int /\ i <= e /\ e - i + 1 = k
      BY <1>2, <1>4, <1>6, <1>7
    <2> QED BY <1>10, <2>1, SubSeqProperties
  <1>12. \A j \in 1..k : rows[i + j - 1] = (r + j) - 1
    <2> SUFFICES ASSUME NEW j \in 1..k PROVE rows[i + j - 1] = (r + j) - 1
      OBVIOUS
    <2>1. PICK m \in 1..c : m = i + j - 1
      BY <1>2, <1>4, <1>6, <1>7
    <2>2. rows[m] = (n - c) + m
      BY <1>3
    <2>3. (n - c) + m = (r + j) - 1
      BY <1>2, <1>4, <1>7, <2>1
    <2> QED BY <2>1, <2>2, <2>3
  <1> QED BY <1>1, <1>7, <1>8, <1>9, <1>11, <1>12

LEMMA PrefixOf ==
    ASSUME NEW s \in Seq(Nat), NEW t \in Seq(Nat), Len(s) <= Len(t),
           \A j \in 1..Len(s) : s[j] = t[j]
    PROVE  IsPrefix(s, t)
  <1>1. PICK k \in Nat : k = Len(s)
    OBVIOUS
  <1>2. SubSeq(s, 1, k) = SubSeq(t, 1, k)
    BY <1>1
  <1> QED BY <1>1, <1>2 DEF IsPrefix

\* rows that arrive follow those that are seen
LEMMA SeenStays ==
    ASSUME NEW p \in Points, NEW count \in 0..p.number, NEW rows, rows = LastOf(p, count).rows,
           NEW q \in Points, NEW grown \in 0..q.number, NEW after, after = LastOf(q, grown).rows,
           p.number <= q.number, NEW row, row \in ToSet(rows), row \in ToSet(after),
           NEW span \in Nat, span > 0
    PROVE  IsPrefix(SeenOf(rows, row, span), SeenOf(after, row, span))
  <1>1. PICK a \in Nat, b \in Nat : a = p.number /\ b = q.number /\ a <= b
    BY RowsAre
  <1>2. PICK r \in Nat : r = row /\ r <= a /\ r <= b
    <2>1. row \in Nat /\ row <= p.number
      BY IndexIs
    <2>2. row <= q.number
      BY IndexIs
    <2> QED BY <1>1, <2>1, <2>2
  <1>3. PICK s \in Seq(Nat), k \in Nat :
           /\ s = SeenOf(rows, row, span) /\ Len(s) = k /\ k = SeenCount(a, r, span)
           /\ \A j \in 1..k : s[j] = (r + j) - 1
    <2>1. /\ SeenOf(rows, row, span) \in Seq(Nat) /\ SeenCount(p.number, row, span) \in Nat
          /\ Len(SeenOf(rows, row, span)) = SeenCount(p.number, row, span)
          /\ \A j \in 1..SeenCount(p.number, row, span) :
                SeenOf(rows, row, span)[j] = (row + j) - 1
      BY SeenAre
    <2> QED BY <1>1, <1>2, <2>1
  <1>4. PICK t \in Seq(Nat), m \in Nat :
           /\ t = SeenOf(after, row, span) /\ Len(t) = m /\ m = SeenCount(b, r, span)
           /\ \A j \in 1..m : t[j] = (r + j) - 1
    <2>1. /\ SeenOf(after, row, span) \in Seq(Nat) /\ SeenCount(q.number, row, span) \in Nat
          /\ Len(SeenOf(after, row, span)) = SeenCount(q.number, row, span)
          /\ \A j \in 1..SeenCount(q.number, row, span) :
                SeenOf(after, row, span)[j] = (row + j) - 1
      BY SeenAre
    <2> QED BY <1>1, <1>2, <2>1
  <1>5. k <= m
    <2>1. k = IF (r + span) - 1 < a THEN span ELSE (a - r) + 1
      BY <1>3 DEF SeenCount
    <2>2. m = IF (r + span) - 1 < b THEN span ELSE (b - r) + 1
      BY <1>4 DEF SeenCount
    <2>3. CASE (r + span) - 1 < a
      <3>1. (r + span) - 1 < b
        BY <1>1, <2>3
      <3> QED BY <2>1, <2>2, <2>3, <3>1
    <2>4. CASE ~ ((r + span) - 1 < a)
      <3>1. k = (a - r) + 1 /\ k <= span /\ k <= (b - r) + 1
        BY <1>1, <1>2, <2>1, <2>4, SMTT(60)
      <3> QED BY <2>2, <3>1
    <2> QED BY <2>3, <2>4
  <1>6. \A j \in 1..k : s[j] = t[j]
    BY <1>3, <1>4, <1>5
  <1>7. IsPrefix(s, t)
    BY <1>3, <1>4, <1>5, <1>6, PrefixOf
  <1> QED BY <1>3, <1>4, <1>7

\* a frame drawn below what is seen
LEMMA FrameStays ==
    ASSUME OutputInv, FrameDrawn, ~following, ~following', visible' = visible,
           view'.session = view.session, anchor \in ToSet(view'.rows)
    PROVE  IsPrefix(VisibleRows, VisibleRows')
  <1>1. batch \in Seq(Events) /\ batch # <<>> /\ Apply(batch)
    BY DEF OutputInv, QueuesInPlace, FrameDrawn
  <1>2. visible \in Nat /\ visible > 0 /\ anchor \in ToSet(view.rows)
    BY DEF OutputInv, OutputTypeOK, AnchorInPlace
  <1>3. anchor' = anchor
    BY <1>1 DEF Apply
  <1>4. PICK at \in [0..Len(batch) -> Points], on \in [0..Len(wire) -> Points], count \in Nat :
           /\ LeadsTo(at, batch, on[0])
           /\ count \in 0..at[0].number
           /\ view = LastOf(at[0], count) \/ (view = EmptyLog /\ count = 0)
    BY FrameShows
  <1>5. /\ at[0] \in Points /\ on[0] \in Points /\ NotAfter(at[0], on[0])
        /\ \E grown \in 0..on[0].number : view' = LastOf(on[0], grown)
    BY <1>1, <1>4, ShownKeeps
  <1>6. PICK p \in Points, q \in Points : p = at[0] /\ q = on[0] /\ NotAfter(p, q)
    BY <1>5
  <1>7. PICK grown \in 0..q.number : view' = LastOf(q, grown)
    BY <1>5, <1>6
  <1>8. count \in 0..p.number /\ view = LastOf(p, count)
    <2>1. EmptyLog.rows = <<>> /\ ToSet(<<>>) = {}
      BY DEF EmptyLog, ToSet
    <2> QED BY <1>2, <1>4, <1>6, <2>1
  <1>9. p.number <= q.number
    <2>1. q.session = p.session
      BY <1>7, <1>8, RowsAre
    <2> QED BY <1>6, <1>8, <2>1, GrownRows
  <1>10. VisibleRows = SeenOf(view.rows, anchor, visible)
    <2>1. AnchorIndex = IndexIn(view.rows, anchor)
      BY <1>2 DEF AnchorIndex, IndexIn
    <2> QED BY <2>1 DEF VisibleRows, SeenOf
  <1>11. VisibleRows' = SeenOf(view'.rows, anchor, visible)
    <2>1. AnchorIndex' = IndexIn(view'.rows, anchor)
      BY <1>3 DEF AnchorIndex, IndexIn
    <2> QED BY <1>3, <2>1 DEF VisibleRows, SeenOf
  <1>12. PICK rows, after : rows = view.rows /\ after = view'.rows
    OBVIOUS
  <1>13. IsPrefix(SeenOf(rows, anchor, visible), SeenOf(after, anchor, visible))
    BY <1>2, <1>7, <1>8, <1>9, <1>12, SeenStays
  <1> QED BY <1>10, <1>11, <1>12, <1>13

LEMMA ScrolledStep ==
    ASSUME OutputInv, [OutputNext]_outputVars, ~following, ~following', visible' = visible,
           view'.session = view.session, anchor \in ToSet(view'.rows)
    PROVE  IsPrefix(VisibleRows, VisibleRows')
  <1>1. CASE FrameDrawn
    BY <1>1, FrameStays
  <1>2. CASE UNCHANGED <<view, following, anchor, visible>>
    <2>1. VisibleRows' = VisibleRows
      BY <1>2 DEF VisibleRows, AnchorIndex
    <2>2. view.rows # <<>>
      BY DEF OutputInv, AnchorInPlace, ToSet
    <2>3. PICK start \in Nat, k \in Nat, c \in Nat :
             /\ Len(view.rows) = c /\ start \in 1..c /\ start + k - 1 <= c /\ 0 < k
             /\ view.rows \in Seq(Nat) /\ VisibleRows = SubSeq(view.rows, start, start + k - 1)
      BY <2>2, SeenFrom
    <2>4. \A j \in start..start + k - 1 : view.rows[j] \in Nat
      BY <2>3
    <2>5. VisibleRows \in Seq(Nat)
      BY <2>3, <2>4, SubSeqProperties
    <2>6. PICK s \in Seq(Nat) : s = VisibleRows
      BY <2>5
    <2>7. IsPrefix(s, s)
      BY PrefixOf
    <2> QED BY <2>1, <2>6, <2>7
  <1>3. CASE ResetSession \/ AppendOutput \/ OpenWindow \/ AnswerGet \/ Subscribe \/ EventArrives
             \/ UNCHANGED outputVars
    <2>1. UNCHANGED <<view, following, anchor, visible>>
      BY <1>3 DEF ResetSession, AppendOutput, OpenWindow, AnswerGet, Subscribe, EventArrives,
                  outputVars, logWindow
    <2> QED BY <1>2, <2>1
  <1>4. ~CloseWindow /\ ~ScrollAway /\ ~FollowEnd
    BY DEF CloseWindow, ScrollAway, FollowEnd
  <1>5. ~SnapshotArrives /\ ~GetFailed
    <2> SUFFICES ASSUME SnapshotArrives \/ GetFailed PROVE FALSE
      OBVIOUS
    <2>1. wire # <<>> /\ Head(wire).type \in {"snapshot", "failed"}
      BY DEF SnapshotArrives, GetFailed
    <2>2. Head(wire) \in Answers
      BY <2>1, WireTail, KindOf DEF OutputInv
    <2> QED BY <2>1, <2>2, AnswerSplits
  <1>6. ~ShowEarlier
    <2> SUFFICES ASSUME ShowEarlier PROVE FALSE
      OBVIOUS
    <2>1. PICK k \in Nat, added \in Nat : 0 < added /\ k = visible /\ visible' = k + added
      BY EarlierRows
    <2> QED BY <2>1
  <1> QED BY <1>1, <1>3, <1>4, <1>5, <1>6 DEF OutputNext

\* Rows that arrive follow what a user who scrolled away sees, while its first row
\* is kept: they never move or replace it.
THEOREM ScrolledStays == OutputSpec => ScrolledViewStays
  <1>1. OutputInv /\ [OutputNext]_outputVars
        => [/\ ~following /\ ~following' /\ UNCHANGED visible
            /\ view'.session = view.session /\ anchor \in ToSet(view'.rows)
            => IsPrefix(VisibleRows, VisibleRows')]_outputVars
    BY ScrolledStep
  <1> QED BY <1>1, OutputInductive, PTL DEF OutputSpec, ScrolledViewStays
=============================================================================
