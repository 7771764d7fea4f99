------------------------------ MODULE Desktop ------------------------------
(***************************************************************************)
(* The desktop application between its window and its device: the handlers *)
(* of the main process (electron/main.ts), which owns the relay client,    *)
(* the demo stream and the hardware controller, and the window             *)
(* (src/App.tsx), which shows a copy of their state and asks for changes.  *)
(* The two exchange requests, replies and events over Electron's IPC,      *)
(* which delivers in order in either direction.  What the main process     *)
(* does while a request is on its way to it could as well have come before *)
(* the request: a request is therefore handled in the step that makes it,  *)
(* and only the way back, replies and events, takes time.                  *)
(*                                                                         *)
(* RelayClient and HardwareController model their parts in detail.  Here   *)
(* the relay is a session that comes and goes, and the hardware an output  *)
(* that a latch, a room exit or the loss of the device shuts.              *)
(***************************************************************************)
EXTENDS Naturals, Sequences, FiniteSets

CONSTANTS
    MaxMessages,  \* bound: no event comes while so many wait in the window
    MaxActions    \* bound on the actions of the user that await answers

ASSUME Bounds == MaxMessages \in Nat \ {0} /\ MaxActions \in Nat \ {0}

VARIABLES
    \* hardware: the output of the controller
    latched,
    pending,      \* an accepted frame that is not written yet
    moving,       \* the last command of the device is a movement
    exit,         \* the room-exit stop: "none", "queued" or "stopping"
    latchWrites,  \* who awaits the stop payload of latchEmergencyStop
    stopRead,     \* what room:emergency-stop got from it, or "none"
    \* main process
    demo,         \* the demo stream runs
    room,         \* the relay client's session
    relayCall,    \* the pending createRoom or joinRoom, or "none"
    stopped,      \* the last session ended by leaving or removal, which stop
                  \* the device, and no session or demo has started since
    leavers,      \* tasks whose room:disconnect awaits the room-exit stop
    messages,     \* replies and events on their way to the window
    \* window
    loggedIn, role, hosting, viewing, demoShown, latchShown,
    busy, current,  \* busyAction is set; the unfinished action whose
                    \* generation is actionGenerationRef, or "none"
    stage,          \* the request each action awaits, or "idle"
    leavingAs       \* the role leaveRoom was called in, "host" when it was not

hardwareVars == <<latched, pending, moving, exit, latchWrites, stopRead>>
mainVars     == <<demo, room, relayCall, stopped, leavers>>
roomShown    == <<role, hosting, viewing>>
windowVars   == <<loggedIn, roomShown, demoShown, latchShown, busy, current,
                  stage, leavingAs>>
vars == <<hardwareVars, mainVars, messages, windowVars>>

Tasks   == {"create", "join", "leave", "demo", "stop", "release", "logout"}
Answers == {"create", "list-viewers", "join", "demo-start", "demo-stop",
            "disconnect", "local-stop", "room-stop", "release"}  \* what is awaited
Events  == {"approved", "rejected", "removed", "stop-received", "lost"}

(***************************************************************************)
(* Main process.                                                           *)
(***************************************************************************)
Messages == [name : Events \cup {"reply"}, task : Tasks \cup {"none"},
             ok : BOOLEAN, latch : BOOLEAN]
Reply(task, ok, latch) == [name |-> "reply", task |-> task, ok |-> ok, latch |-> latch]
Event(name, latch) == [name |-> name, task |-> "none", ok |-> TRUE, latch |-> latch]

RoomForEvent == Len(messages) < MaxMessages

\* queueMotion: the frame is accepted unless something shuts the output
Accepts == ~latched /\ exit = "none"
QueueMotion == pending' = (pending \/ Accepts)

\* latchEmergencyStop up to its await
Latch(caller) ==
    /\ latched' = TRUE
    /\ pending' = FALSE
    /\ moving' = FALSE
    /\ latchWrites' = latchWrites \cup {caller}

\* stopForRoomExit: output is shut and dropped at once, the stop is queued
AskExit ==
    /\ exit' = IF exit = "none" THEN "queued" ELSE exit
    /\ pending' = FALSE
    /\ UNCHANGED <<latched, moving, latchWrites, stopRead>>

\* createRoom, joinRoom and disconnect end what the relay client was doing.
Superseded == IF relayCall = "none" THEN <<>> ELSE <<Reply(relayCall, FALSE, FALSE)>>
EndSession(stops) ==
    /\ room' = "none"
    /\ stopped' = IF room = "none" THEN stopped ELSE stops

\* Handlers.  inbox: what the window has not read yet.
\* room:start-host and room:join: the call's own answer comes later
BeginRelayCall(kind, inbox) ==
    /\ EndSession(FALSE)
    /\ relayCall' = kind
    /\ messages' = inbox \o Superseded
    /\ UNCHANGED <<hardwareVars, demo, leavers>>

\* room:list-viewers: the relay answers, refuses, or does not answer in time
ListViewers(inbox) ==
    /\ \E ok \in BOOLEAN : messages' = Append(inbox, Reply("create", ok, FALSE))
    /\ UNCHANGED <<hardwareVars, mainVars>>

\* motion-demo:start and motion-demo:start-pattern publish a frame at once.
DemoStart(inbox) ==
    /\ demo' = TRUE
    /\ stopped' = FALSE
    /\ QueueMotion
    /\ messages' = Append(inbox, Reply("demo", TRUE, FALSE))
    /\ UNCHANGED <<latched, moving, exit, latchWrites, stopRead, room,
                   relayCall, leavers>>

\* motion-demo:stop publishes a last frame, the safe stop, if the demo ran.
DemoStop(task, inbox) ==
    /\ demo' = FALSE
    /\ IF demo THEN QueueMotion ELSE UNCHANGED pending
    /\ messages' = Append(inbox, Reply(task, TRUE, FALSE))
    /\ UNCHANGED <<latched, moving, exit, latchWrites, stopRead, room,
                   relayCall, stopped, leavers>>

\* Mutant: the demo goes on when the room is left.
DisconnectKeepingDemo(task, inbox) ==
    /\ AskExit
    /\ EndSession(TRUE)
    /\ relayCall' = "none"
    /\ leavers' = leavers \cup {task}
    /\ messages' = inbox \o Superseded
    /\ UNCHANGED demo

\* room:disconnect: the stop is asked for before the session ends
DisconnectRoom(task, inbox) ==
    /\ demo' = FALSE
    /\ AskExit
    /\ EndSession(TRUE)
    /\ relayCall' = "none"
    /\ leavers' = leavers \cup {task}
    /\ messages' = inbox \o Superseded

\* hardware:emergency-stop and room:emergency-stop, up to their awaits
EmergencyStop(name) ==
    /\ demo' = FALSE
    /\ Latch(name)
    /\ UNCHANGED <<exit, stopRead, room, relayCall, stopped, leavers, messages>>

ReleaseStop ==
    /\ latched' = FALSE
    /\ messages' = Append(messages, Reply("release", TRUE, FALSE))
    /\ UNCHANGED <<pending, moving, exit, latchWrites, stopRead, mainVars>>

RelayCallAnswered(kind) ==
    /\ relayCall = kind
    /\ relayCall' = "none"
    /\ \/ room' \in (IF kind = "create" THEN {"host"} ELSE {"viewer", "waiting"})
       \/ room' = "none"
    /\ stopped' = (stopped /\ room' = "none")
    /\ messages' = Append(messages, Reply(kind, room' # "none", FALSE))
    /\ UNCHANGED <<hardwareVars, demo, leavers, windowVars>>

\* The stop payload was written, or was not: the latch is read again.
LatchWritten(caller) ==
    /\ caller \in latchWrites
    /\ latchWrites' = latchWrites \ {caller}
    /\ CASE caller = "local-stop" ->
              messages' = Append(messages, Reply("stop", TRUE, latched)) /\ UNCHANGED stopRead
         [] caller = "room-stop" ->
              stopRead' = (IF latched THEN "latched" ELSE "released") /\ UNCHANGED messages
         [] caller = "received" ->
              messages' = Append(messages, Event("stop-received", latched)) /\ UNCHANGED stopRead
    /\ UNCHANGED <<latched, pending, moving, exit, mainVars, windowVars>>

\* room:emergency-stop also awaits the relay's answer to room:stop.
RoomStopAnswered ==
    /\ stopRead # "none"
    /\ stopRead' = "none"
    /\ messages' = Append(messages, Reply("stop", TRUE, stopRead = "latched"))
    /\ UNCHANGED <<latched, pending, moving, exit, latchWrites, mainVars,
                   windowVars>>

(***************************************************************************)
(* The relay, the timers and the device.                                   *)
(***************************************************************************)
\* A frame of the room is played, or the demo timer fires.
MotionComes ==
    /\ room = "viewer" \/ demo
    /\ Accepts
    /\ QueueMotion
    /\ UNCHANGED <<latched, moving, exit, latchWrites, stopRead, mainVars,
                   messages, windowVars>>

MotionWritten ==
    /\ pending
    /\ pending' = FALSE
    /\ moving' = TRUE
    /\ UNCHANGED <<latched, exit, latchWrites, stopRead, mainVars,
                   messages, windowVars>>

\* performRoomExitStop: the stop is written, and its end answers who left
ExitStops ==
    /\ exit = "queued"
    /\ exit' = "stopping"
    /\ moving' = FALSE
    /\ UNCHANGED <<latched, pending, latchWrites, stopRead, mainVars,
                   messages, windowVars>>

ExitOver ==
    /\ exit = "stopping"
    /\ exit' = "none"
    /\ leavers' = {}
    /\ \E order \in [1..Cardinality(leavers) -> leavers] :
          /\ \A task \in leavers : \E i \in DOMAIN order : order[i] = task
          /\ messages' = messages \o [i \in DOMAIN order |-> Reply(order[i], TRUE, FALSE)]
    /\ UNCHANGED <<latched, pending, moving, latchWrites, stopRead, demo,
                   room, relayCall, stopped, windowVars>>

\* viewer:approved and viewer:rejected
ViewerAnswered(name) ==
    /\ RoomForEvent
    /\ room = "waiting"
    /\ room' = IF name = "approved" THEN "viewer" ELSE "none"
    /\ messages' = Append(messages, Event(name, FALSE))
    /\ UNCHANGED <<hardwareVars, demo, relayCall, stopped, leavers, windowVars>>

\* viewer:removed, or a session that could not be taken up again
Removed ==
    /\ RoomForEvent
    /\ room \in {"viewer", "host"}
    /\ EndSession(room = "viewer" /\ ~demo)
    /\ AskExit
    /\ messages' = Append(messages, Event("removed", FALSE))
    /\ UNCHANGED <<demo, relayCall, leavers, windowVars>>

\* room:stop: the viewer latches, and the window hears of it afterwards
StopReceived ==
    /\ RoomForEvent
    /\ room = "viewer"
    /\ "received" \notin latchWrites
    /\ Latch("received")
    /\ UNCHANGED <<exit, stopRead, mainVars, messages, windowVars>>

\* The ready device goes away, which latches; by the time a frame is accepted
\* again it may be back.
DeviceLost ==
    /\ RoomForEvent
    /\ latched' = TRUE
    /\ pending' = FALSE
    /\ moving' = FALSE
    /\ messages' = Append(messages, Event("lost", TRUE))
    /\ UNCHANGED <<exit, latchWrites, stopRead, mainVars, windowVars>>

(***************************************************************************)
(* The window.  runAction refuses while another action is busy; the        *)
(* emergency stop takes over, and the action it overtook frees no button.  *)
(***************************************************************************)
\* within the bound, and not again while the action's last call is unanswered
Press(task, name) ==
    /\ stage[task] = "idle"
    /\ Cardinality({t \in Tasks : stage[t] # "idle"}) < MaxActions
    /\ loggedIn
    /\ stage' = [stage EXCEPT ![task] = name]

TakeOver(task) == busy' = TRUE /\ current' = task
RunAction(task, name) == ~busy /\ Press(task, name) /\ TakeOver(task)

PressRelayCall(kind) ==
    /\ RunAction(kind, kind)
    /\ BeginRelayCall(kind, messages)
    /\ UNCHANGED <<loggedIn, roomShown, demoShown, latchShown, leavingAs>>

ActiveRoom == IF role = "host" THEN hosting ELSE viewing

\* the first request of leaveRoom and logout
BeginLeaving(task) ==
    IF demoShown THEN DemoStop(task, messages) ELSE DisconnectRoom(task, messages)

PressLeave ==
    /\ ActiveRoom
    /\ RunAction("leave", IF demoShown THEN "demo-stop" ELSE "disconnect")
    /\ BeginLeaving("leave")
    /\ leavingAs' = role
    /\ UNCHANGED <<loggedIn, roomShown, demoShown, latchShown>>

\* toggleMotionDemo, on the host's page
PressDemo ==
    /\ role = "host" /\ hosting
    /\ RunAction("demo", IF demoShown THEN "demo-stop" ELSE "demo-start")
    /\ IF demoShown THEN DemoStop("demo", messages) ELSE DemoStart(messages)
    /\ UNCHANGED <<loggedIn, roomShown, demoShown, latchShown, leavingAs>>

\* the button of emergencyStop and localEmergencyStop, disabled while it works
StopButton == ~(busy /\ current \in {"stop", "release"})

\* Mutant: the stop sets busyAction without a generation of its own.
PressStopWithoutGeneration(name) ==
    /\ StopButton /\ ~latchShown
    /\ name = "room-stop" => role = "host" /\ hosting
    /\ Press("stop", name)
    /\ busy' = TRUE
    /\ EmergencyStop(name)
    /\ UNCHANGED <<current, loggedIn, roomShown, demoShown, latchShown, leavingAs>>

PressStop(name) ==
    /\ StopButton /\ ~latchShown
    /\ name = "room-stop" => role = "host" /\ hosting
    /\ Press("stop", name)
    /\ TakeOver("stop")
    /\ EmergencyStop(name)
    /\ UNCHANGED <<loggedIn, roomShown, demoShown, latchShown, leavingAs>>

\* Mutant: the button works while a stop is unanswered.
PressReleaseWhileStopping ==
    /\ latchShown
    /\ Press("release", "release")
    /\ TakeOver("release")
    /\ ReleaseStop
    /\ UNCHANGED <<loggedIn, roomShown, demoShown, latchShown, leavingAs>>

PressRelease ==
    /\ StopButton /\ latchShown
    /\ Press("release", "release")
    /\ TakeOver("release")
    /\ ReleaseStop
    /\ UNCHANGED <<loggedIn, roomShown, demoShown, latchShown, leavingAs>>

Logout ==
    /\ IF ActiveRoom
       THEN /\ Press("logout", IF demoShown THEN "demo-stop" ELSE "disconnect")
            /\ BeginLeaving("logout")
       ELSE loggedIn /\ UNCHANGED <<stage, hardwareVars, mainVars, messages>>
    /\ loggedIn' = FALSE
    /\ hosting' = FALSE /\ viewing' = FALSE /\ demoShown' = FALSE
    /\ UNCHANGED <<role, latchShown, busy, current, leavingAs>>

Login ==
    /\ ~loggedIn
    /\ loggedIn' = TRUE
    /\ UNCHANGED <<hardwareVars, mainVars, messages, roomShown, demoShown,
                   latchShown, busy, current, stage, leavingAs>>

Message == Head(messages)
Unread == Tail(messages)
Heard(name) == messages # <<>> /\ Message.name = name

\* createRoom, leaveRoom and logout make a second request.
GoesOn(task) ==
    \/ task = "create" /\ stage[task] = "create" /\ Message.ok
    \/ task \in {"leave", "logout"} /\ stage[task] = "demo-stop"

ActionGoesOn(task) ==
    /\ Heard("reply") /\ Message.task = task
    /\ GoesOn(task)
    /\ IF task = "create" THEN ListViewers(Unread) ELSE DisconnectRoom(task, Unread)
    /\ stage' = [stage EXCEPT ![task] =
                   IF task = "create" THEN "list-viewers" ELSE "disconnect"]
    /\ UNCHANGED <<loggedIn, roomShown, demoShown, latchShown, busy, current, leavingAs>>

\* What the last answer of an action changes in the window.
Shows(task) ==
    /\ role' = CASE task = "create" /\ Message.ok -> "host"
                 [] task = "join" /\ Message.ok -> "viewer"
                 [] OTHER -> role
    /\ hosting' = CASE task = "create" /\ Message.ok -> TRUE
                    [] task = "leave" /\ leavingAs = "host" -> FALSE
                    [] OTHER -> hosting
    /\ viewing' = CASE task = "join" /\ Message.ok -> TRUE
                    [] task = "leave" /\ leavingAs = "viewer" -> FALSE
                    [] OTHER -> viewing
    /\ demoShown' = CASE task = "demo" -> stage["demo"] = "demo-start"
                      [] task \in {"leave", "stop"} -> FALSE
                      [] OTHER -> demoShown
    /\ latchShown' = IF task \in {"stop", "release"} THEN Message.latch ELSE latchShown

ActionEnds(task) ==
    /\ Heard("reply") /\ Message.task = task
    /\ ~GoesOn(task)
    /\ messages' = Unread
    /\ Shows(task)
    /\ stage' = [stage EXCEPT ![task] = "idle"]
    /\ busy' = (busy /\ current # task)
    /\ current' = IF current = task THEN "none" ELSE current
    /\ leavingAs' = IF task = "leave" THEN "host" ELSE leavingAs
    /\ UNCHANGED <<hardwareVars, mainVars, loggedIn>>

\* the answer to the stop that onViewerStatus asks for without awaiting it
ReplyIgnored ==
    /\ Heard("reply") /\ Message.task = "none"
    /\ messages' = Unread
    /\ UNCHANGED <<hardwareVars, mainVars, windowVars>>

HearViewerAnswer(name) ==
    /\ Heard(name)
    /\ messages' = Unread
    /\ viewing' = (name = "approved")
    /\ UNCHANGED <<hardwareVars, mainVars, loggedIn, role, hosting, demoShown,
                   latchShown, busy, current, stage, leavingAs>>

\* onViewerStatus, removed: the window stops the demo and leaves the page
HearRemoved ==
    /\ Heard("removed")
    /\ DemoStop("none", Unread)
    /\ demoShown' = FALSE
    /\ hosting' = (hosting /\ role # "host")
    /\ viewing' = (viewing /\ role = "host")
    /\ UNCHANGED <<loggedIn, role, latchShown, busy, current, stage, leavingAs>>

\* onEmergencyStop and onHardwareConnectionStatus: only a latch is applied
HearLatch ==
    /\ Heard("stop-received") \/ Heard("lost")
    /\ messages' = Unread
    /\ latchShown' = (latchShown \/ Message.latch)
    /\ UNCHANGED <<hardwareVars, mainVars, loggedIn, roomShown, demoShown,
                   busy, current, stage, leavingAs>>

(***************************************************************************)
(* The specification.                                                      *)
(***************************************************************************)
Init ==
    /\ latched = FALSE /\ pending = FALSE /\ moving = FALSE
    /\ exit = "none" /\ latchWrites = {} /\ stopRead = "none"
    /\ demo = FALSE /\ room = "none" /\ relayCall = "none" /\ stopped = FALSE
    /\ leavers = {} /\ messages = <<>>
    /\ loggedIn = TRUE /\ role = "host" /\ hosting = FALSE /\ viewing = FALSE
    /\ demoShown = FALSE /\ latchShown = FALSE
    /\ busy = FALSE /\ current = "none"
    /\ stage = [t \in Tasks |-> "idle"]
    /\ leavingAs = "host"

\* At most one disjunct of each is enabled: the window awaits one stop.
RelayAnswers == \E kind \in {"create", "join"} : RelayCallAnswered(kind)
StopAnswers  == RoomStopAnswered \/ \E caller \in {"local-stop", "room-stop"} : LatchWritten(caller)
ExitGoesOn   == ExitStops \/ ExitOver

Outcomes ==
    RelayAnswers \/ StopAnswers \/ LatchWritten("received") \/ ExitGoesOn \/ MotionWritten

World ==
    \/ MotionComes
    \/ \E name \in {"approved", "rejected"} : ViewerAnswered(name)
    \/ Removed \/ StopReceived \/ DeviceLost

User ==
    \/ \E kind \in {"create", "join"} : PressRelayCall(kind)
    \/ PressLeave \/ PressDemo
    \/ \E name \in {"local-stop", "room-stop"} : PressStop(name)
    \/ PressRelease \/ Logout \/ Login

Hears ==
    \/ \E task \in Tasks : ActionGoesOn(task) \/ ActionEnds(task)
    \/ ReplyIgnored
    \/ \E name \in {"approved", "rejected"} : HearViewerAnswer(name)
    \/ HearRemoved \/ HearLatch

Next == Outcomes \/ World \/ User \/ Hears

(***************************************************************************)
(* Fairness: both processes run their event loops, and whatever a handler  *)
(* awaits is answered or times out.  The user promises nothing.            *)
(***************************************************************************)
Spec ==
    /\ Init /\ [][Next]_vars
    /\ WF_vars(Hears) /\ WF_vars(RelayAnswers) /\ WF_vars(StopAnswers) /\ WF_vars(ExitGoesOn)

(***************************************************************************)
(* Properties.                                                             *)
(***************************************************************************)
TypeOK ==
    /\ {latched, pending, moving, demo, stopped} \subseteq BOOLEAN
    /\ exit \in {"none", "queued", "stopping"}
    /\ latchWrites \subseteq {"local-stop", "room-stop", "received"}
    /\ stopRead \in {"none", "latched", "released"}
    /\ room \in {"none", "host", "viewer", "waiting"}
    /\ relayCall \in {"none", "create", "join"}
    /\ leavers \subseteq {"leave", "logout"}
    /\ messages \in Seq(Messages)
    /\ {loggedIn, hosting, viewing, demoShown, latchShown, busy} \subseteq BOOLEAN
    /\ role \in {"host", "viewer"} /\ leavingAs \in {"host", "viewer"}
    /\ current \in Tasks \cup {"none"}
    /\ stage \in [Tasks -> Answers \cup {"idle"}]

\* Nothing is on its way between the window, the main process and the device.
Settled ==
    /\ messages = <<>>
    /\ \A t \in Tasks : stage[t] = "idle"
    /\ latchWrites = {} /\ exit = "none" /\ ~pending

\* Once everything in flight has arrived, the window shows the latch as it is:
\* neither the late answer of a stop nor one received from the room shows a
\* latch that was released, or hides one that holds (App.tsx, main.ts).
LatchShown == Settled => latchShown = latched

\* After a room was left, or its viewer was removed, the device has been told
\* to stop and stays so: no frame that was delayed, queued or produced by the
\* demo comes after it (room:disconnect, the removal handler of main.ts).
LeavingStops ==
    Settled /\ stopped /\ ~demo => ~moving

\* A window whose buttons are blocked by an action gets them back, also when
\* an emergency stop has overtaken the action (runAction and its generations).
ButtonsComeBack == busy ~> ~busy

\* Room and emergency latch design, rule 4: leaving the room sends the stop.
\* Whoever is in no room, and asks for none, has a device that was stopped.
StoppedOutsideRooms ==
    Settled /\ room = "none" /\ relayCall = "none" => ~moving

(***************************************************************************)
(* The inductive invariant behind LatchShown and LeavingStops.             *)
(***************************************************************************)
Informs(m) == m.latch /\ (m.name \in {"stop-received", "lost"} \/ m.task = "stop")
Clears(m)  == m.task = "release"

\* What the window will show of the latch when it has read all that is on its way.
LeadsToLatch ==
    \/ latchShown /\ \A i \in DOMAIN messages : ~Clears(messages[i])
    \/ \E i \in DOMAIN messages :
          /\ Informs(messages[i])
          /\ \A j \in DOMAIN messages : j > i => ~Clears(messages[j])

LeadsToRelease ==
    \/ ~latchShown /\ \A i \in DOMAIN messages : ~Informs(messages[i])
    \/ \E i \in DOMAIN messages :
          /\ Clears(messages[i])
          /\ \A j \in DOMAIN messages : j > i => ~Informs(messages[j])

\* A latch that holds is on its way to the window, or will be when a stop
\* payload is written or the relay answers; so is one that was released.
LatchIsOnItsWay ==
    /\ latched => latchWrites # {} \/ stopRead # "none" \/ LeadsToLatch
    /\ ~latched => LeadsToRelease

StopWrites == latchWrites \cap {"local-stop", "room-stop"}

\* A stop or release that is under way has the buttons, and at most one answer;
\* the latch of a stop holds until the window has it.
StopsAreAnswered ==
    /\ \A task \in {"stop", "release"} :
          /\ stage[task] # "idle" => busy /\ current = task
          /\ \A i, j \in DOMAIN messages :
                messages[i].task = task /\ messages[j].task = task => i = j
          /\ \A i \in DOMAIN messages : messages[i].task = task => stage[task] # "idle"
    /\ stage["stop"] # "idle" => latched
    /\ StopWrites # {} \/ stopRead # "none" =>
          /\ stage["stop"] # "idle"
          /\ \A i \in DOMAIN messages : messages[i].task # "stop"
    /\ StopWrites # {} => stopRead = "none"
    /\ stopRead # "released"
    /\ \A c, d \in StopWrites : c = d

MessagesAreTrue ==
    \A i \in DOMAIN messages :
        /\ messages[i].task = "stop" => messages[i].latch
        /\ messages[i].task = "release" => ~messages[i].latch
        /\ messages[i].name # "reply" => messages[i].task = "none"

\* Output is shut while a room exit stops the device; who left a room has no
\* source of motion left.
ExitsStop ==
    /\ exit # "none" => ~pending
    /\ exit = "stopping" => ~moving
    /\ stopped => room = "none" /\ ~demo /\ ~pending /\ (moving => exit = "queued")

\* Together, what every step of the window, the main process and the device preserves.
IInv == TypeOK /\ MessagesAreTrue /\ StopsAreAnswered /\ LatchIsOnItsWay /\ ExitsStop
=============================================================================
