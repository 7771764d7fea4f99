----------------------------- MODULE HostLists -----------------------------
(***************************************************************************)
(* What the host of a room sees: the requests that wait for its approval *)
(* and the viewers in its room, as the window (src/App.tsx) keeps them     *)
(* from the events and answers of the relay server, while viewers come and *)
(* go and the host's connection is lost and found again.                   *)
(*                                                                         *)
(* Viewers are connections; a connection joins once.  What the server      *)
(* sends to a host arrives in order and passes the relay client and the    *)
(* main process in order.  An answer comes while its connection lasts      *)
(* (within the five seconds the client waits).                             *)
(***************************************************************************)
EXTENDS Naturals, Sequences, FiniteSets

CONSTANTS
    Guests,        \* the viewers' connections
    EarlyRequests, \* whether one may ask before the host's socket is bound
    MaxInFlight    \* bound on what is under way to the host

ASSUME HostListsAssumption ==
    IsFiniteSet(Guests) /\ EarlyRequests \in BOOLEAN /\ MaxInFlight \in Nat \ {0}

VARIABLES
    room,      \* the relay's: "none", "new", "hosted", "lost" (its host is away)
    waiting,   \* pendingApprovals of the room
    present,   \* viewerSessions of the room
    online,    \* the host's socket is connected
    hosting,   \* the client's session
    acting,      \* busyAction
    commands,   \* its requests under way
    toHost,    \* events and answers
    asking,  \* approvalRequests
    viewers    \* viewerSessions of the window

hostListVars ==
    <<room, waiting, present, online, hosting, acting, commands, toHost, asking, viewers>>

Presses  == [op : {"approve", "reject", "kick"}, guest : Guests]
Commands == Presses \cup [op : {"create", "refresh", "list"}]
Replies  == [op : {"done", "removed", "requested"}, guest : Guests]
            \cup [op : {"created", "gone", "failed"}]
            \cup [op : {"viewers", "listed"}, shown : SUBSET Guests]

HostListsTypeOK ==
    /\ room \in {"none", "new", "hosted", "lost"} /\ waiting \cup present \subseteq Guests
    /\ {online, hosting} \subseteq BOOLEAN /\ acting \in {"no", "creating", "deciding"}
    /\ commands \in Seq(Commands) /\ toHost \in Seq(Replies)
    /\ asking \subseteq Guests /\ viewers \subseteq Guests

HostListsInit ==
    /\ room = "none" /\ waiting = {} /\ present = {}
    /\ online = FALSE /\ hosting = FALSE /\ acting = "no"
    /\ commands = <<>> /\ toHost = <<>> /\ asking = {} /\ viewers = {}

RelaysVars == <<room, waiting, present>>
WindowVars == <<online, hosting, acting, asking, viewers>>

(***************************************************************************)
(* The relay server.  Its messages reach a host only while it is bound.    *)
(***************************************************************************)
Tell(messages) ==
    /\ Len(toHost) + Len(messages) <= MaxInFlight
    /\ toHost' = toHost \o messages

IfHosted(message) == Tell(IF room = "hosted" THEN <<message>> ELSE <<>>)

\* emitViewerList
ListNow(guests) == [op |-> "viewers", shown |-> guests]

\* handleViewerJoin; an open room, or a name approved before, needs no approval.
GuestJoins(v) ==
    /\ room # "none" /\ (room = "new" => EarlyRequests)
    /\ v \notin waiting \cup present \cup asking \cup viewers
    /\ \A i \in DOMAIN toHost : "guest" \in DOMAIN toHost[i] => toHost[i].guest # v
    /\ \/ /\ waiting' = waiting \cup {v} /\ UNCHANGED present
          /\ IfHosted([op |-> "requested", guest |-> v])
       \/ /\ present' = present \cup {v} /\ UNCHANGED waiting
          /\ IfHosted(ListNow(present'))
    /\ UNCHANGED <<room, commands, WindowVars>>

\* The disconnect of a viewer.
GuestGoes(v) ==
    /\ v \in waiting \cup present
    /\ waiting' = waiting \ {v} /\ present' = present \ {v}
    /\ IF v \in present THEN IfHosted(ListNow(present')) ELSE UNCHANGED toHost
    /\ UNCHANGED <<room, commands, WindowVars>>

\* The orders in which those who wait may have asked.
Orders(guests) ==
    {order \in [1..Cardinality(guests) -> guests] : \A v \in guests : \E i \in DOMAIN order : order[i] = v}

AskedBy(order) == [i \in DOMAIN order |-> [op |-> "requested", guest |-> order[i]]]

\* Mutant: the requests are not repeated to a host that is back.
AttachHostSilently ==
    IF room = "none" THEN Tell(<<[op |-> "gone"]>>) /\ UNCHANGED RelaysVars
    ELSE /\ room' = "hosted" /\ UNCHANGED <<waiting, present>>
         /\ Tell(<<[op |-> "created"]>>)

\* handleHostRoomCreate
AttachHost ==
    IF room = "none" THEN Tell(<<[op |-> "gone"]>>) /\ UNCHANGED RelaysVars
    ELSE /\ room' = "hosted" /\ UNCHANGED <<waiting, present>>
         /\ \E order \in Orders(waiting) : Tell(Append(AskedBy(order), [op |-> "created"]))

\* room:viewers; a socket that hosts no room gets an empty list.
AnswerViewers(answer) ==
    /\ Tell(<<[op |-> answer, shown |-> IF room = "hosted" THEN present ELSE {}]>>)
    /\ UNCHANGED RelaysVars

\* handleViewerApproval; the room may be full.
Decide(v, approved) ==
    /\ UNCHANGED room
    /\ IF room # "hosted" \/ v \notin waiting
       THEN Tell(<<[op |-> "failed"]>>) /\ UNCHANGED <<waiting, present>>
       ELSE /\ waiting' = waiting \ {v}
            /\ \/ ~approved /\ UNCHANGED present /\ Tell(<<[op |-> "done", guest |-> v]>>)
               \/ approved /\ UNCHANGED present /\ Tell(<<[op |-> "failed"]>>)
               \/ /\ approved /\ present' = present \cup {v}
                  /\ Tell(<<ListNow(present'), [op |-> "done", guest |-> v]>>)

\* handleViewerModeration
Moderate(v) ==
    /\ UNCHANGED <<room, waiting>>
    /\ IF room # "hosted" \/ v \notin present
       THEN Tell(<<[op |-> "failed"]>>) /\ UNCHANGED present
       ELSE /\ present' = present \ {v}
            /\ Tell(<<ListNow(present'), [op |-> "removed", guest |-> v]>>)

RelayHandles ==
    /\ online /\ commands # <<>>
    /\ LET command == Head(commands)
       IN  CASE command.op = "create"  -> AttachHost
             [] command.op = "refresh" -> AnswerViewers("viewers")
             [] command.op = "list"    -> AnswerViewers("listed")
             [] command.op = "approve" -> Decide(command.guest, TRUE)
             [] command.op = "reject"  -> Decide(command.guest, FALSE)
             [] command.op = "kick"    -> Moderate(command.guest)
    /\ commands' = Tail(commands)
    /\ UNCHANGED WindowVars

\* The grace period of a lost host is over: closeViewerSessions.
GraceEnds ==
    /\ room = "lost" /\ room' = "none" /\ waiting' = {} /\ present' = {}
    /\ UNCHANGED <<commands, toHost, WindowVars>>

(***************************************************************************)
(* The host's connection.                                                  *)
(***************************************************************************)
Unheard == commands' = <<>> /\ toHost' = <<>>

\* What is awaited fails; a room whose creation fails so has no session.
ConnectionLost ==
    /\ online /\ online' = FALSE /\ acting' = "no"
    /\ room' = IF room = "hosted" THEN "lost" ELSE room
    /\ Unheard
    /\ UNCHANGED <<waiting, present, hosting, asking, viewers>>

\* What was pressed meanwhile goes out first, then the session is taken up again.
ConnectionBack ==
    /\ ~online /\ hosting
    /\ online' = TRUE /\ commands' = Append(commands, [op |-> "create"])
    /\ UNCHANGED <<RelaysVars, hosting, acting, toHost, asking, viewers>>

(***************************************************************************)
(* The window and the client.                                              *)
(***************************************************************************)
\* createRoom up to the answer to room:create: the room exists from here on.
StartRoom ==
    /\ acting = "no" /\ ~hosting /\ room = "none"
    /\ acting' = "creating" /\ online' = TRUE /\ room' = "new"
    /\ commands' = <<[op |-> "create"]>> /\ toHost' = <<>>
    /\ UNCHANGED <<waiting, present, hosting, asking, viewers>>

\* decideApproval, moderateViewer up to their awaits
Press(press) ==
    /\ acting = "no" /\ hosting
    /\ press.guest \in IF press.op = "kick" THEN viewers ELSE asking
    /\ acting' = "deciding" /\ commands' = Append(commands, press)
    /\ UNCHANGED <<RelaysVars, online, hosting, toHost, asking, viewers>>

\* A press that waits for the connection fails after five seconds.
PressTimesOut ==
    /\ ~online /\ acting = "deciding"
    /\ acting' = "no" /\ commands' = <<>>
    /\ UNCHANGED <<RelaysVars, online, hosting, toHost, asking, viewers>>

\* leaveRoom; the server closes the room at once.
LeaveRoom ==
    /\ acting = "no" /\ hosting
    /\ hosting' = FALSE /\ online' = FALSE
    /\ room' = IF room = "hosted" THEN "none" ELSE room
    /\ waiting' = IF room = "hosted" THEN {} ELSE waiting
    /\ present' = IF room = "hosted" THEN {} ELSE present
    /\ asking' = {} /\ viewers' = {}
    /\ Unheard /\ UNCHANGED acting

\* The answer to room:create: rejoinSession, or createRoom and then the window's.
Created ==
    IF hosting THEN /\ commands' = Append(commands, [op |-> "refresh"])
                    /\ UNCHANGED <<hosting, acting, asking, viewers>>
    ELSE /\ hosting' = TRUE /\ asking' = {}
         /\ commands' = commands \o <<[op |-> "refresh"], [op |-> "list"]>>
         /\ UNCHANGED <<acting, viewers>>

\* endActiveRoom, or a creation that fails
RoomGone ==
    /\ hosting' = FALSE
    /\ IF hosting THEN asking' = {} /\ viewers' = {} ELSE UNCHANGED <<asking, viewers>>
    /\ acting' = "no" /\ UNCHANGED commands

Applied(message) ==
    /\ UNCHANGED <<hosting, commands>>
    /\ asking' = CASE message.op = "requested" -> asking \cup {message.guest}
                     [] message.op = "done"      -> asking \ {message.guest}
                     [] message.op \notin {"requested", "done"} -> asking
    /\ viewers' = CASE message.op \in {"viewers", "listed"} -> message.shown
                    [] message.op = "removed" -> viewers \ {message.guest}
                    [] message.op \notin {"viewers", "listed", "removed"} -> viewers
    /\ acting' = IF message.op \in {"done", "removed", "failed", "listed"} THEN "no" ELSE acting

HostHears ==
    /\ online /\ toHost # <<>>
    /\ CASE Head(toHost).op = "created" -> Created
         [] Head(toHost).op = "gone"    -> RoomGone
         [] Head(toHost).op \notin {"created", "gone"} -> Applied(Head(toHost))
    /\ toHost' = Tail(toHost)
    /\ UNCHANGED <<RelaysVars, online>>

HostListsNext ==
    \/ \E v \in Guests : GuestJoins(v) \/ GuestGoes(v)
    \/ RelayHandles \/ GraceEnds \/ ConnectionLost \/ ConnectionBack
    \/ StartRoom \/ (\E press \in Presses : Press(press)) \/ PressTimesOut \/ LeaveRoom
    \/ HostHears

HostListsSpec == HostListsInit /\ [][HostListsNext]_hostListVars

(***************************************************************************)
(* Properties.                                                             *)
(***************************************************************************)
Settled == hosting /\ room = "hosted" /\ commands = <<>> /\ toHost = <<>>

\* "viewer join requests remain connected in approval wait state until the host
\* approves or rejects them" (docs/ARCHITECTURE.md:257): once everything sent
\* has arrived, the host sees every request that waits, also those made while
\* it was away (relay-server.ts:171-175, App.tsx:165-171, 586, 658).  It holds
\* while nobody asks before the host's socket is bound to the new room.
WaitingIsShown == Settled => waiting \subseteq asking

\* And it sees exactly the viewers that are in the room, whoever came, left or
\* was removed while it was away (relay-server.ts:467-480, 541-545, relay-
\* client.ts:412, App.tsx:204-206, 666).
ViewersAreShown == Settled => viewers = present

\* Both: what the host decides upon is what there is to decide.
HostSeesRoom == WaitingIsShown /\ ViewersAreShown

(***************************************************************************)
(* The inductive invariant of the proofs.                                  *)
(***************************************************************************)
RoomLife ==
    /\ waiting \cap present = {} /\ (room = "none" => waiting \cup present = {})
    /\ room = "new" => ~hosting /\ toHost = <<>> /\ commands \in {<<>>, <<[op |-> "create"]>>}
    /\ room = "hosted" => online
    /\ \A i \in DOMAIN toHost : toHost[i].op = "gone" => room = "none"
    /\ \A i \in DOMAIN commands :
          commands[i].op = "create" => hosting \/ room \in {"new", "none"}

\* An answer to a decision is about someone who does not wait any more.
DecidedAreGone ==
    \A i \in DOMAIN toHost :
        /\ toHost[i].op = "done"    => toHost[i].guest \notin waiting
        /\ toHost[i].op = "removed" => toHost[i].guest \notin waiting \cup present

IsList(message) == message.op \in {"viewers", "listed"}

\* The last list under way to the host is right; if there is none, what it sees is.
ListArrives ==
    \/ viewers = present /\ \A i \in DOMAIN toHost : ~IsList(toHost[i])
    \/ \E i \in DOMAIN toHost :
          /\ IsList(toHost[i]) /\ toHost[i].shown = present
          /\ \A j \in DOMAIN toHost : j > i => ~IsList(toHost[j])

ListIsAskedFor ==
    \/ \E i \in DOMAIN commands : commands[i].op = "refresh"
    \/ \E i \in DOMAIN toHost : toHost[i].op = "created"

ListIsCurrent == room = "hosted" /\ hosting => ListIsAskedFor \/ ListArrives

\* A creation that is answered would clear the requests of a new host.
NoneCreatedAfter(k) ==
    ~hosting => \A j \in DOMAIN toHost : j > k => toHost[j].op # "created"

RequestArrives(v) ==
    \/ v \in asking /\ NoneCreatedAfter(0)
    \/ \E i \in DOMAIN toHost :
          toHost[i].op = "requested" /\ toHost[i].guest = v /\ NoneCreatedAfter(i)

RequestsArrive ==
    ~EarlyRequests =>
        /\ room = "new" => waiting = {}
        /\ room = "hosted" => \A v \in waiting : RequestArrives(v)

HostListsInv ==
    /\ HostListsTypeOK /\ RoomLife /\ DecidedAreGone
    /\ ListIsCurrent /\ RequestsArrive
=============================================================================
