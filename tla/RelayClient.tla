---------------------------- MODULE RelayClient ----------------------------
(***************************************************************************)
(* The desktop app's side of a room (electron/services/relay-client.ts):   *)
(* calls that enter and leave rooms, each of which awaits HTTP, a          *)
(* connection and an acknowledgement while later calls may supersede it;   *)
(* the automatic rejoin after a lost connection; the frames waiting to be  *)
(* published and the received frames waiting to be played.                 *)
(*                                                                         *)
(* A lifecycle opens at most one socket, so only the current one is kept.  *)
(* A settled promise resumes its function within the same task: between    *)
(* the two only packets that the connection delivered together with the    *)
(* answer are handled (Quiet).  The relay is its answers and its events.   *)
(***************************************************************************)
EXTENDS Naturals, Sequences

CONSTANTS
    MaxCalls,    \* bound on createRoom, joinRoom and disconnect calls
    MaxDrops,    \* bound on lost connections
    MaxBacklog,  \* bound on packets in flight and on frames waiting to be played
    None

ASSUME BoundsAssumption == MaxCalls \in Nat /\ MaxDrops \in Nat /\ MaxBacklog \in Nat

VARIABLES
    gen,         \* lifecycleGeneration
    calls,       \* createRoom and joinRoom calls that have not returned
    socket,      \* the lifecycle that opened this.socket, or 0
    link,        \* its connection
    session,     \* this.session
    room,        \* whether roomName is set
    rejoin,      \* the running rejoinSession: "none", "wait", or how it settled
    latest,      \* the lifecycle latestFrame was published in, or 0
    flushTimer,
    delayed,     \* whether motionDelayMs > 0
    buffered,    \* frames in the delay buffer that were not played
    motionTimer, \* incomingMotionTimer
    tracking,    \* whether incomingSequenceTracker has a last sequence
    bound,       \* what the relay holds this connection for
    up, down,    \* packets to and from the relay
    drops,
    wanted,      \* history: the role the user last asked for
    fresh,       \* history: frames buffered since the last boundary
    overtaken,   \* history: an event overtook the answer it followed
    gaveUp,      \* history: a rejoin got no answer on a living connection
    forgotten    \* history: the relay gave this connection's place up silently

clientVars == <<gen, calls, socket, session, room, rejoin, wanted>>
outVars  == <<latest, flushTimer>>
playVars == <<delayed, buffered, motionTimer, tracking, fresh>>
netVars  == <<link, bound, up, down, drops>>
gapVars  == <<overtaken, gaveUp, forgotten>>
vars == <<clientVars, outVars, playVars, netVars, gapVars>>

Roles    == {"host", "viewer"}
Stages   == {"http", "connecting", "ack", "ok", "approval-required", "refused"}
Settled  == {"ok", "approval-required", "refused"}
Calls    == [role : Roles, gen : 1..MaxCalls, stage : Stages]
Sessions == [role : Roles, gen : 1..MaxCalls, waiting : BOOLEAN]
Answers  == [type : {"ack"}, result : Settled]
Events   == [type : {"approved", "rejected", "removed", "stop", "m"}]

ASSUME NoneAssumption == None \notin Roles /\ None \notin Sessions

TypeOK ==
    /\ gen \in 0..MaxCalls /\ calls \subseteq Calls
    /\ socket \in 0..MaxCalls /\ link \in {"closed", "connecting", "up", "down"}
    /\ session \in Sessions \cup {None} /\ room \in BOOLEAN
    /\ rejoin \in {"none", "wait"} \cup Settled
    /\ latest \in 0..MaxCalls /\ flushTimer \in BOOLEAN
    /\ delayed \in BOOLEAN /\ motionTimer \in BOOLEAN /\ tracking \in BOOLEAN
    /\ buffered \in 0..MaxBacklog /\ fresh \in 0..MaxBacklog
    /\ bound \in {"no", "waiting"} \cup Roles
    /\ up \in Seq(Roles) /\ down \in Seq(Answers \cup Events)
    /\ drops \in 0..MaxDrops /\ wanted \in Roles \cup {None}
    /\ overtaken \in BOOLEAN /\ gaveUp \in BOOLEAN /\ forgotten \in BOOLEAN

Init ==
    /\ gen = 0 /\ calls = {} /\ socket = 0 /\ link = "closed"
    /\ session = None /\ room = FALSE /\ rejoin = "none"
    /\ latest = 0 /\ flushTimer = FALSE
    /\ delayed = FALSE /\ buffered = 0 /\ motionTimer = FALSE /\ tracking = FALSE
    /\ bound = "no" /\ up = <<>> /\ down = <<>> /\ drops = 0
    /\ wanted = None /\ fresh = 0
    /\ overtaken = FALSE /\ gaveUp = FALSE /\ forgotten = FALSE

(***************************************************************************)
(* Helpers.                                                                *)
(***************************************************************************)
Quiet == rejoin \notin Settled /\ \A c \in calls : c.stage \notin Settled

Connected == socket # 0 /\ link = "up"

ClearDelayedMotion == buffered' = 0 /\ motionTimer' = FALSE

\* History only: what waits from here on came after this step, so whatever the
\* code does about the frames that wait, none of those before it may be left.
Boundary == fresh' = 0

\* Mutant: only the received frames are dropped, not the one to publish.
ClearReceivedOnly == ClearDelayedMotion /\ UNCHANGED outVars

ClearBufferedMotion == ClearDelayedMotion /\ latest' = 0 /\ flushTimer' = FALSE

\* Mutant: a client that is put out of a room keeps the session.
LeaveRoomOnly == UNCHANGED <<session, room>> /\ tracking' = FALSE

LeaveSession == session' = None /\ room' = FALSE /\ tracking' = FALSE

ClearActiveRoomState == ClearBufferedMotion /\ LeaveSession

\* Closing the socket also settles, as failures, the answers awaited on it;
\* their functions find that they no longer own the lifecycle.
ResetConnectionState ==
    /\ ClearActiveRoomState
    /\ socket' = 0 /\ link' = "closed" /\ rejoin' = "none"
    /\ bound' = "no" /\ up' = <<>> /\ down' = <<>>

\* Mutant: calls are not cancelled and look the generation up afresh.
KeepPendingCalls(started) ==
    /\ gen' = gen + 1
    /\ calls' = started \cup {[c EXCEPT !.gen = gen + 1] : c \in calls}

\* The cancellation handlers make every pending call fail.
InvalidateLifecycle(started) == gen' = gen + 1 /\ calls' = started

OwnsLifecycle(c) == c.gen = gen

AwaitsAck(c) == OwnsLifecycle(c) /\ c.stage = "ack"

Moves(c, stage) == calls' = (calls \ {c}) \cup {[c EXCEPT !.stage = stage]}

\* A lifecycle sets its session once, so it is the captured one or gone.
OwnsSession == socket # 0 /\ session # None

(***************************************************************************)
(* Calls that enter and leave a room.                                      *)
(***************************************************************************)
BeginCall(role) ==
    /\ gen < MaxCalls /\ Quiet
    /\ InvalidateLifecycle({[role |-> role, gen |-> gen + 1, stage |-> "http"]})
    /\ ResetConnectionState /\ Boundary
    /\ wanted' = role
    /\ overtaken' = FALSE /\ gaveUp' = FALSE /\ forgotten' = FALSE
    /\ UNCHANGED <<delayed, drops>>

\* postJson answered; connectForLifecycle opens the socket.
HttpDone(c) ==
    /\ c.stage = "http" /\ OwnsLifecycle(c) /\ Quiet
    /\ Moves(c, "connecting")
    /\ socket' = c.gen /\ link' = "connecting"
    /\ UNCHANGED <<gen, session, room, rejoin, wanted, outVars, playVars,
                   bound, up, down, drops, gapVars>>

\* postJson or the first connection fails: the call throws.  The socket of a
\* failed connection stays and keeps trying.
CallFails(c) ==
    /\ c.stage \in {"http", "connecting"} /\ Quiet
    /\ calls' = calls \ {c}
    /\ UNCHANGED <<gen, socket, session, room, rejoin, wanted, outVars, playVars,
                   netVars, gapVars>>

\* The answer is ok or approval-required, or the call throws.
ResumeCall(c) ==
    /\ c.stage \in Settled
    /\ calls' = calls \ {c}
    /\ IF OwnsLifecycle(c) /\ c.stage # "refused"
       THEN /\ session' = [role |-> c.role, gen |-> c.gen,
                           waiting |-> c.stage = "approval-required"]
            /\ room' = TRUE /\ tracking' = FALSE
            /\ ClearDelayedMotion /\ Boundary
       ELSE UNCHANGED <<session, room, tracking, buffered, motionTimer, fresh>>
    /\ UNCHANGED <<gen, socket, rejoin, wanted, outVars, delayed, netVars, gapVars>>

Disconnect ==
    /\ gen < MaxCalls /\ Quiet
    /\ InvalidateLifecycle({})
    /\ ResetConnectionState /\ Boundary
    /\ wanted' = None
    /\ UNCHANGED <<delayed, drops, gapVars>>

(***************************************************************************)
(* The connection.                                                         *)
(***************************************************************************)
\* 'connect': the session is rejoined; a call that waits sends its request.
SocketConnects ==
    /\ link \in {"connecting", "down"} /\ Quiet
    /\ link' = "up"
    /\ \/ /\ session # None /\ rejoin = "none"
          /\ rejoin' = "wait" /\ up' = Append(up, session.role)
          /\ overtaken' = FALSE /\ gaveUp' = FALSE /\ forgotten' = FALSE
          /\ UNCHANGED calls
       \/ /\ session = None \/ rejoin # "none"
          /\ \E c \in calls : /\ c.stage = "connecting" /\ Moves(c, "ack")
                              /\ up' = Append(up, c.role)
          /\ UNCHANGED <<rejoin, gapVars>>
       \/ /\ session = None \/ rejoin # "none"
          /\ \A c \in calls : c.stage # "connecting"
          /\ UNCHANGED <<calls, up, rejoin, gapVars>>
    /\ UNCHANGED <<gen, socket, session, room, wanted, outVars, playVars,
                   bound, down, drops>>

\* Mutant: a rejoin whose answer is lost stays marked as running.
ConnectionLostKeepsRejoining ==
    /\ link = "up" /\ drops < MaxDrops /\ Quiet
    /\ link' = "down" /\ drops' = drops + 1
    /\ bound' = "no" /\ up' = <<>> /\ down' = <<>>
    /\ ClearDelayedMotion /\ Boundary
    /\ calls' = {c \in calls : ~AwaitsAck(c)}
    /\ UNCHANGED <<gen, socket, session, room, rejoin, wanted, outVars, delayed,
                   tracking, gapVars>>

\* Mutant: the frames received before the loss are played after it.
ConnectionLostKeepsFrames ==
    /\ link = "up" /\ drops < MaxDrops /\ Quiet
    /\ link' = "down" /\ drops' = drops + 1
    /\ bound' = "no" /\ up' = <<>> /\ down' = <<>>
    /\ Boundary /\ UNCHANGED <<buffered, motionTimer>>
    /\ calls' = {c \in calls : ~AwaitsAck(c)} /\ rejoin' = "none"
    /\ UNCHANGED <<gen, socket, session, room, wanted, outVars, delayed,
                   tracking, gapVars>>

\* 'disconnect', then every awaited answer fails: a call throws, a rejoin
\* reports the error and is over.
ConnectionLost ==
    /\ link = "up" /\ drops < MaxDrops /\ Quiet
    /\ link' = "down" /\ drops' = drops + 1
    /\ bound' = "no" /\ up' = <<>> /\ down' = <<>>
    /\ ClearDelayedMotion /\ Boundary
    /\ calls' = {c \in calls : ~AwaitsAck(c)} /\ rejoin' = "none"
    /\ UNCHANGED <<gen, socket, session, room, wanted, outVars, delayed,
                   tracking, gapVars>>

\* No answer within emitWithAck's timeout; it may still come.
AckTimeout ==
    /\ link = "up" /\ Quiet
    /\ \/ /\ rejoin = "wait" /\ rejoin' = "none" /\ gaveUp' = TRUE
          /\ UNCHANGED calls
       \/ /\ \E c \in calls : AwaitsAck(c) /\ calls' = calls \ {c}
          /\ UNCHANGED <<rejoin, gaveUp>>
    /\ UNCHANGED <<gen, socket, session, room, wanted, overtaken, forgotten, outVars,
                   playVars, netVars>>

\* The rejoin goes on only if nothing took its session away meanwhile.
ResumeRejoin ==
    /\ rejoin \in Settled
    /\ rejoin' = "none"
    /\ \/ /\ ~OwnsSession
          /\ UNCHANGED <<session, room, tracking, outVars, buffered, motionTimer, fresh>>
       \/ /\ OwnsSession /\ rejoin = "refused"
          /\ ClearActiveRoomState /\ Boundary
       \/ /\ OwnsSession /\ rejoin # "refused"
          /\ ClearDelayedMotion /\ Boundary
          /\ room' = TRUE
          /\ session' = IF session # None /\ session.role = "viewer"
                        THEN [session EXCEPT !.waiting = rejoin = "approval-required"]
                        ELSE session
          /\ UNCHANGED <<tracking, outVars>>
    /\ UNCHANGED <<gen, calls, socket, wanted, delayed, netVars, gapVars>>

(***************************************************************************)
(* The relay.                                                              *)
(***************************************************************************)
Room == Len(down) + buffered < MaxBacklog

UnchangedByRelay == UNCHANGED <<clientVars, outVars, playVars, link, drops, gapVars>>

\* room:create or viewer:join is handled and answered.
RelayAnswers ==
    /\ link = "up" /\ up # <<>> /\ up' = Tail(up)
    /\ \E result \in Settled :
          /\ result = "approval-required" => Head(up) = "viewer"
          /\ down' = Append(down, [type |-> "ack", result |-> result])
          /\ bound' = CASE result = "ok" -> Head(up)
                        [] result = "approval-required" -> "waiting"
                        [] result = "refused" -> "no"
    /\ UnchangedByRelay

\* The host decides, moderates or stops; the relay forwards a frame.
RelayNotifies ==
    /\ link = "up" /\ Room
    /\ \E type \in {"approved", "rejected", "removed", "stop", "m"} :
          /\ bound = IF type \in {"approved", "rejected"} THEN "waiting" ELSE "viewer"
          /\ bound' = CASE type = "approved" -> "viewer"
                        [] type \in {"rejected", "removed"} -> "no"
                        [] OTHER -> bound
          /\ down' = Append(down, [type |-> type])
    /\ UNCHANGED up
    /\ UnchangedByRelay

\* The room is closed while the viewer waits: closeViewerSessions deletes the
\* request and tells nobody.  The late end of an old connection, or another host
\* of that name, takes a host's active entry away, silently too.
RelayForgets ==
    /\ link = "up" /\ bound \in {"waiting", "host"}
    /\ bound' = "no" /\ forgotten' = TRUE
    /\ UNCHANGED <<clientVars, outVars, playVars, link, up, down, drops, overtaken, gaveUp>>

(***************************************************************************)
(* Packets from the relay.                                                 *)
(***************************************************************************)
Arrives(type) == Connected /\ down # <<>> /\ Head(down).type = type /\ down' = Tail(down)

Overtakes == overtaken' = (overtaken \/ ~Quiet)

UnchangedByPacket ==
    UNCHANGED <<gen, socket, wanted, delayed, link, bound, up, drops, gaveUp, forgotten>>

\* The answer settles the promise that awaits it, if it is still awaited.
AckArrives ==
    /\ Arrives("ack") /\ Quiet
    /\ LET result == Head(down).result IN
          \/ /\ rejoin = "wait" /\ rejoin' = result /\ UNCHANGED calls
          \/ /\ \E c \in calls : AwaitsAck(c) /\ Moves(c, result)
             /\ UNCHANGED rejoin
          \/ /\ rejoin # "wait" /\ ~\E c \in calls : AwaitsAck(c)
             /\ UNCHANGED <<calls, rejoin>>
    /\ UNCHANGED <<session, room, outVars, buffered, motionTimer, tracking, fresh, overtaken>>
    /\ UnchangedByPacket

ApprovedArrives ==
    /\ Arrives("approved") /\ Overtakes
    /\ session' = IF session # None /\ session.role = "viewer"
                  THEN [session EXCEPT !.waiting = FALSE] ELSE session
    /\ UNCHANGED <<calls, rejoin, room, outVars, buffered, motionTimer, tracking, fresh>>
    /\ UnchangedByPacket

\* viewer:rejected and viewer:removed
RemovedArrives ==
    /\ (Arrives("rejected") \/ Arrives("removed")) /\ Overtakes
    /\ ClearDelayedMotion /\ Boundary
    /\ LeaveSession
    /\ UNCHANGED <<calls, rejoin, outVars>>
    /\ UnchangedByPacket

StopArrives ==
    /\ Arrives("stop")
    /\ ClearBufferedMotion /\ Boundary /\ tracking' = FALSE
    /\ UNCHANGED <<calls, rejoin, session, room, overtaken>>
    /\ UnchangedByPacket

\* An accepted frame is played at once or waits; scheduleDelayedMotion.
MotionArrives ==
    /\ Arrives("m") /\ tracking' = TRUE
    /\ \/ /\ delayed
          /\ buffered' = buffered + 1 /\ motionTimer' = TRUE
          /\ fresh' = IF fresh < MaxBacklog THEN fresh + 1 ELSE fresh
       \/ /\ ~delayed
          /\ UNCHANGED <<buffered, motionTimer, fresh>>
    /\ UNCHANGED <<calls, rejoin, session, room, outVars, overtaken>>
    /\ UnchangedByPacket

(***************************************************************************)
(* Playing and publishing.                                                 *)
(***************************************************************************)
\* The frames up to the sample time are done with; the rest is rescheduled.
MotionTimer ==
    /\ motionTimer /\ Quiet
    /\ \E rest \in 0..buffered : buffered' = rest
    /\ motionTimer' = (buffered' > 0)
    /\ UNCHANGED <<clientVars, outVars, delayed, tracking, fresh, netVars, gapVars>>

\* setMotionDelay; a change clears the buffer and the timer
SetDelay(on) ==
    /\ Quiet
    /\ delayed' = on
    /\ IF on = delayed THEN UNCHANGED <<buffered, motionTimer, fresh>>
                       ELSE ClearDelayedMotion /\ Boundary
    /\ UNCHANGED <<clientVars, outVars, tracking, netVars, gapVars>>

PublishMotion ==
    /\ Connected /\ room /\ Quiet
    /\ latest' = gen /\ flushTimer' = TRUE
    /\ UNCHANGED <<clientVars, playVars, netVars, gapVars>>

\* The relay drops what a connection sends that does not host the room.
FlushLatest ==
    /\ flushTimer /\ Quiet
    /\ flushTimer' = FALSE
    /\ latest' = IF Connected /\ room THEN 0 ELSE latest
    /\ UNCHANGED <<clientVars, playVars, netVars, gapVars>>

\* emergencyStop, and clearBufferedMotion as main.ts calls it for a local stop
EmergencyStop ==
    /\ Quiet
    /\ ClearBufferedMotion /\ Boundary
    /\ UNCHANGED <<clientVars, delayed, tracking, netVars, gapVars>>

Next ==
    \/ \E role \in Roles : BeginCall(role)
    \/ \E c \in calls : HttpDone(c) \/ CallFails(c) \/ ResumeCall(c)
    \/ Disconnect
    \/ SocketConnects \/ ConnectionLost \/ AckTimeout \/ ResumeRejoin
    \/ RelayAnswers \/ RelayNotifies \/ RelayForgets
    \/ AckArrives \/ ApprovedArrives \/ RemovedArrives \/ StopArrives \/ MotionArrives
    \/ MotionTimer \/ PublishMotion \/ FlushLatest \/ EmergencyStop
    \/ \E on \in BOOLEAN : SetDelay(on)

Packets == AckArrives \/ ApprovedArrives \/ RemovedArrives \/ StopArrives \/ MotionArrives

\* What the event loop and a reachable relay eventually do.
Fairness ==
    /\ WF_vars(SocketConnects) /\ WF_vars(RelayAnswers) /\ WF_vars(Packets)
    /\ WF_vars(ResumeRejoin) /\ WF_vars(\E c \in calls : ResumeCall(c))

Spec == Init /\ [][Next]_vars /\ Fairness

(***************************************************************************)
(* Properties.                                                             *)
(***************************************************************************)
\* The session is the one of the last call, and the client shows a room
\* (roomName) only together with it: an earlier createRoom or joinRoom that
\* completes late, or an answer to a rejoin that a removal overtook, installs
\* nothing; and after disconnect nothing that was under way brings the client
\* back onto a connection or into a room.
SessionIsCurrent ==
    /\ session # None => session.gen = gen /\ session.role = wanted
    /\ room => session # None
    /\ wanted = None => socket = 0 /\ session = None

Settling == rejoin # "none" \/ down # <<>> \/ up # <<>> \/ ~Quiet

PlaceOf(s) == IF s.waiting THEN "waiting" ELSE s.role

\* The relay holds the place, or has given it up without a word, which it never
\* does with a viewer it has admitted.
Stands(place) == bound = place \/ (bound = "no" /\ forgotten /\ place # "viewer")

\* When nothing is in flight, client and relay agree on the membership: a
\* session of the client is a place in the relay's room.  The three exceptions
\* are named: an event that was handled before the function awaiting the answer
\* it followed, a rejoin without an answer on a living connection, and a host or
\* a waiting viewer whose place the relay gave up without telling it.
RelayAgrees ==
    session # None /\ link = "up" /\ ~Settling /\ ~overtaken /\ ~gaveUp =>
        Stands(PlaceOf(session))

\* "viewer join requests remain connected in approval wait state until the host
\* approves or rejects them" (docs/ARCHITECTURE.md:257): who shows that it waits
\* is waited for.  It does not hold (RelayForgets), and no run checks it.
WaitingIsHeld ==
    /\ session # None /\ link = "up" /\ ~Settling /\ ~overtaken /\ ~gaveUp
    /\ session.waiting
    => bound = "waiting"

\* A frame that was published in one room is never sent in the next one: every
\* step that ends or replaces a room drops the frame that waits for the timer.
SentInItsRoom == latest # 0 => latest = gen

\* Frames wait to be played only if they came after the last lost connection,
\* room entry, removal, stop and change of the delay, each of which the client
\* handles in a place of its own; those that do wait have a timer that plays
\* them.
PlaysInTime ==
    /\ buffered <= fresh
    /\ buffered > 0 => motionTimer

\* No frame, to be sent or to be played, outlives what it was meant for.
NothingStale == SentInItsRoom /\ PlaysInTime

\* A client that lost its connection is in its room again, or learns that it no
\* longer has one, unless the rejoin gets no answer or the connection is lost
\* again.
RejoinSettles ==
    session # None /\ link = "down" ~>
        bound # "no" \/ session = None \/ gaveUp \/ overtaken

(***************************************************************************)
(* The inductive invariant behind the safety properties.                   *)
(***************************************************************************)
\* Every call that has not returned is the last one, and the room is not
\* entered yet; it gets as far as the connection of its socket.
CallsAreCurrent ==
    /\ \A c \in calls : c.gen = gen /\ c.role = wanted
    /\ \A c, d \in calls : c = d
    /\ calls # {} => session = None /\ rejoin = "none"
    /\ \A c \in calls :
          /\ c.stage = "http" => link = "closed"
          /\ c.stage \notin {"http", "connecting"} => link = "up"

\* A connection carries one request; what it carried is lost with it.
ConnectionsAreFresh ==
    /\ socket = 0 => link = "closed"
    /\ link # "up" => up = <<>> /\ down = <<>> /\ bound = "no" /\ rejoin = "none"

\* A frame on its way leaves room for itself and for those before it.
FramesHaveRoom ==
    \A i \in 1..Len(down) : down[i].type = "m" => i + buffered <= MaxBacklog

Admits(i) == down[i].type = "approved"
Expels(i) == down[i].type \in {"rejected", "removed"}

\* The events under way lead from the place the client believes to have in the
\* room to the one the relay holds for it.
LeadFrom(place) ==
    /\ \A i, j \in 1..Len(down) : Admits(i) /\ Admits(j) => i = j
    /\ (\E i \in 1..Len(down) : Admits(i)) => place = "waiting"
    /\ \A i \in 1..Len(down) : Expels(i) => bound = "no"
    /\ (\A i \in 1..Len(down) : ~Expels(i)) =>
          Stands(IF \E i \in 1..Len(down) : Admits(i) THEN "viewer" ELSE place)

\* the place an answer to a request for a role grants
Granted(role, result) ==
    CASE result = "ok" -> role
      [] result = "approval-required" -> "waiting"
      [] result = "refused" -> "no"

\* no answer is under way after the place-th packet
NoAnswer(place) ==
    /\ up = <<>>
    /\ \A i \in 1..Len(down) : i > place => down[i].type # "ack"

\* who asked for a role waits for the answer, which is requested or under way
Awaited(role) ==
    \/ up = <<role>> /\ down = <<>> /\ bound = "no"
    \/ /\ NoAnswer(1)
       /\ down # <<>> /\ Head(down).type = "ack"
       /\ LeadFrom(Granted(role, Head(down).result))

\* the answer is there, and its function has not resumed
Answered(role, result) ==
    NoAnswer(0) /\ LeadFrom(Granted(role, result))

CallIsAnswered ==
    link = "up" /\ ~overtaken =>
        \A c \in calls :
            /\ c.stage = "ack" => Awaited(c.role)
            /\ c.stage \in Settled => Answered(c.role, c.stage)

SessionIsAnswered ==
    session # None /\ link = "up" /\ ~overtaken /\ ~gaveUp =>
        /\ rejoin = "wait" => Awaited(session.role)
        /\ rejoin \in Settled => Answered(session.role, rejoin)
        /\ rejoin = "none" => NoAnswer(0) /\ LeadFrom(PlaceOf(session))

\* Only a request of a viewer is answered with a place in the waiting room.
OnlyViewersWait ==
    /\ \A i \in 1..Len(up) : up[i] = wanted
    /\ \A i \in 1..Len(down) :
          down[i].type = "ack" /\ down[i].result = "approval-required" => wanted = "viewer"
    /\ \A c \in calls : c.stage = "approval-required" => wanted = "viewer"
    /\ rejoin = "approval-required" => wanted = "viewer"
    /\ session # None /\ session.waiting => wanted = "viewer"

\* Together, what every step of the client and of the relay preserves.
IInv ==
    /\ TypeOK
    /\ CallsAreCurrent
    /\ ConnectionsAreFresh
    /\ FramesHaveRoom
    /\ SessionIsCurrent
    /\ SentInItsRoom
    /\ PlaysInTime
    /\ OnlyViewersWait
    /\ CallIsAnswered
    /\ SessionIsAnswered
=============================================================================
