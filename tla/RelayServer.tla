---------------------------- MODULE RelayServer ----------------------------
(***************************************************************************)
(* The relay server (server/src/relay-server.ts) with its room registry    *)
(* (server/src/room-registry.ts): who hosts a room, who receives its       *)
(* motion, and what becomes of a room whose host is gone.                  *)
(*                                                                         *)
(* The registry answers asynchronously.  The Redis client sends its        *)
(* commands over one connection and gets the answers in order, so commands *)
(* are a queue here and a step that takes its head is the command, its     *)
(* answer and the handler's code up to its next command.  With the memory  *)
(* registry nothing runs between a command and its answer (Redis = FALSE). *)
(*                                                                         *)
(* Messages to clients are left out: a room's fan-out is its membership.   *)
(***************************************************************************)
EXTENDS Naturals, Sequences, FiniteSets

CONSTANTS
    Hosts, Viewers,  \* connections of either role (recycled once forgotten)
    Rooms,
    Names,           \* normalised display names
    Capacity,        \* getRoomCapacity
    Redis,           \* whether handlers interleave at their awaits
    LateDisconnects, \* whether a host may be back before its old connection is gone
    MaxCommands,     \* bound on the registry commands in flight
    None

ASSUME RolesAssumption == Hosts \cap Viewers = {} /\ None \notin Hosts \cup Viewers
ASSUME RoomsAssumption == None \notin Rooms
ASSUME CapacityAssumption == Capacity \in Nat \ {0} /\ MaxCommands \in Nat \ {0}
ASSUME DriverAssumption == Redis \in BOOLEAN /\ LateDisconnects \in BOOLEAN

VARIABLES
    registry,     \* the stored record of each room, or None
    commands,     \* registry commands whose answers are awaited
    active,       \* activeRooms: the host socket of the entry, or None
    hostRoom,     \* hostRoomsBySocket
    graceTimer,   \* hostCleanupTimers: whose disconnect the timer is for
    pending,      \* pendingApprovals
    session,      \* viewerSessions
    approved, blocked,
    members,      \* socket.io rooms
    conn          \* connected sockets

hostVars == <<active, hostRoom, graceTimer>>
nameVars == <<approved, blocked>>
vars == <<registry, commands, hostVars, pending, session, nameVars, members, conn>>

Sockets == Hosts \cup Viewers
Modes   == {"open", "request"}
Records == [host : Sockets \cup {None}, mode : Modes]
Seats   == [room : Rooms, name : Names]

ASSUME SeatsAssumption == None \notin Seats /\ None \notin Records

(***************************************************************************)
(* Helpers.                                                                *)
(***************************************************************************)
Quiescent == Redis \/ commands = <<>>

Send(command) ==
    /\ Len(commands) < MaxCommands
    /\ commands' = Append(commands, command)

\* the head command is answered; its handler sends the next one, if any
Answered(op) == commands # <<>> /\ commands[1].op = op
Then(command) == commands' = Append(Tail(commands), command)
Over == commands' = Tail(commands)

In(seat, r) == seat # None /\ seat.room = r

\* getConnectedCount(r).viewers
Connected(r) ==
    IF active[r] # None /\ members[r] # {} THEN Cardinality(members[r]) - 1
    ELSE Cardinality(members[r])

Full(r) == Connected(r) >= Capacity

\* Mutant: the capacity is not looked at again when a request is approved.
MayAdmitAnyNumber(r) == active[r] # None

MayAdmit(r) == active[r] # None /\ ~Full(r)

\* Mutant: the list of approved names is looked up the wrong way round.
NeedsApprovalInverted(r, n) == registry[r].mode = "request" /\ n \in approved[r]

NeedsApproval(r, n) == registry[r].mode = "request" /\ n \notin approved[r]

\* socket.join, which does nothing on a disconnected socket
JoinRoom(s, r) ==
    members' = IF s \in conn THEN [members EXCEPT ![r] = @ \cup {s}] ELSE members

\* attachViewerToRoom
Attach(s, r, n) ==
    /\ session' = [session EXCEPT ![s] = [room |-> r, name |-> n]]
    /\ JoinRoom(s, r)

\* Mutant: requests that wait for approval survive the room.
CloseSessionsKeepingRequests(r) ==
    /\ session' = [s \in Sockets |-> IF In(session[s], r) THEN None ELSE session[s]]
    /\ members' = [members EXCEPT ![r] = {s \in @ : ~In(session[s], r)}]
    /\ approved' = [approved EXCEPT ![r] = {}]
    /\ blocked' = [blocked EXCEPT ![r] = {}]
    /\ UNCHANGED pending

\* closeViewerSessions
CloseSessions(r) ==
    /\ pending' = [s \in Sockets |-> IF In(pending[s], r) THEN None ELSE pending[s]]
    /\ session' = [s \in Sockets |-> IF In(session[s], r) THEN None ELSE session[s]]
    /\ members' = [members EXCEPT ![r] = {s \in @ : ~In(session[s], r)}]
    /\ approved' = [approved EXCEPT ![r] = {}]
    /\ blocked' = [blocked EXCEPT ![r] = {}]

(***************************************************************************)
(* Connections.  A connection stays with one room: every lifecycle of the  *)
(* client has a connection of its own.                                     *)
(***************************************************************************)
Forgotten(s) ==
    /\ \A r \in Rooms :
          /\ registry[r] # None => registry[r].host # s
          /\ active[r] # s /\ graceTimer[r] # s /\ s \notin members[r]
    /\ hostRoom[s] = None /\ pending[s] = None /\ session[s] = None
    /\ \A i \in 1..Len(commands) : commands[i].op # "create" => commands[i].socket # s

Connect(s) ==
    /\ Quiescent
    /\ s \notin conn
    /\ Forgotten(s)
    /\ conn' = conn \cup {s}
    /\ UNCHANGED <<registry, commands, hostVars, pending, session, nameVars, members>>

InRoomOnly(s, r) ==
    /\ hostRoom[s] \in {r, None}
    /\ \A q \in Rooms \ {r} :
          /\ ~In(pending[s], q) /\ ~In(session[s], q)
          /\ \A i \in 1..Len(commands) :
                ~(commands[i].op # "create" /\ commands[i].socket = s /\ commands[i].room = q)

\* with LateDisconnects = FALSE a room has one host connection at a time
Alone(s, r) ==
    /\ \A h \in conn \ {s} : hostRoom[h] # r
    /\ \A i \in 1..Len(commands) :
          commands[i].op \in {"attach", "bind"} => commands[i].room # r

(***************************************************************************)
(* Rooms and their hosts.                                                  *)
(***************************************************************************)
\* POST /api/rooms; a room of the same name is overwritten
CreateRoom(r, mode) ==
    /\ Quiescent
    /\ Send([op |-> "create", room |-> r, mode |-> mode])
    /\ UNCHANGED <<registry, hostVars, pending, session, nameVars, members, conn>>

RoomCreated ==
    /\ Answered("create")
    /\ LET mode == commands[1].mode
       IN  registry' = [registry EXCEPT ![commands[1].room] =
              [host |-> None, mode |-> IF mode = None THEN "open" ELSE mode]]
    /\ Over
    /\ UNCHANGED <<hostVars, pending, session, nameVars, members, conn>>

\* room:create up to attachHost's first await
HostRoomCreate(s, r) ==
    /\ Quiescent
    /\ s \in conn
    /\ InRoomOnly(s, r)
    /\ LateDisconnects \/ Alone(s, r)
    /\ Send([op |-> "attach", socket |-> s, room |-> r])
    /\ UNCHANGED <<registry, hostVars, pending, session, nameVars, members, conn>>

\* attachHost read the record: the host is written into what was read
AttachHost ==
    /\ Answered("attach")
    /\ LET c == commands[1]
       IN  IF registry[c.room] = None THEN Over
           ELSE Then([op |-> "bind", socket |-> c.socket, room |-> c.room,
                      mode |-> registry[c.room].mode])
    /\ UNCHANGED <<registry, hostVars, pending, session, nameVars, members, conn>>

\* Mutant: the active room is not entered again.
BindHostWithoutEntry ==
    /\ Answered("bind")
    /\ LET c == commands[1]
       IN  /\ registry' = [registry EXCEPT ![c.room] = [host |-> c.socket, mode |-> c.mode]]
           /\ graceTimer' = [graceTimer EXCEPT ![c.room] = None]
           /\ hostRoom' = [hostRoom EXCEPT ![c.socket] = c.room]
           /\ JoinRoom(c.socket, c.room)
    /\ Over
    /\ UNCHANGED <<active, pending, session, nameVars, conn>>

\* the rest of handleHostRoomCreate
BindHost ==
    /\ Answered("bind")
    /\ LET c == commands[1]
       IN  /\ registry' = [registry EXCEPT ![c.room] = [host |-> c.socket, mode |-> c.mode]]
           /\ graceTimer' = [graceTimer EXCEPT ![c.room] = None]
           /\ hostRoom' = [hostRoom EXCEPT ![c.socket] = c.room]
           /\ active' = [active EXCEPT ![c.room] = c.socket]
           /\ JoinRoom(c.socket, c.room)
    /\ Over
    /\ UNCHANGED <<pending, session, nameVars, conn>>

(***************************************************************************)
(* Viewers.                                                                *)
(***************************************************************************)
\* viewer:join up to its await
ViewerJoin(s, r, n) ==
    /\ Quiescent
    /\ s \in conn
    /\ InRoomOnly(s, r)
    /\ Send([op |-> "join", socket |-> s, room |-> r, name |-> n])
    /\ UNCHANGED <<registry, hostVars, pending, session, nameVars, members, conn>>

\* the rest of handleViewerJoin: refused, told to wait, or let in
JoinAnswered ==
    /\ Answered("join")
    /\ LET c == commands[1]
           r == c.room
           admissible == registry[r] # None /\ ~Full(r) /\ c.name \notin blocked[r]
       IN  \/ /\ ~admissible
              /\ UNCHANGED <<pending, session, members>>
           \/ /\ admissible
              /\ NeedsApproval(r, c.name)
              /\ pending' = [pending EXCEPT ![c.socket] = [room |-> r, name |-> c.name]]
              /\ UNCHANGED <<session, members>>
           \/ /\ admissible
              /\ ~NeedsApproval(r, c.name)
              /\ Attach(c.socket, r, c.name)
              /\ UNCHANGED pending
    /\ Over
    /\ UNCHANGED <<registry, hostVars, nameVars, conn>>

\* viewer:approve, sent by host h about the request of s
ViewerApproval(h, s, accepted) ==
    /\ Quiescent
    /\ h \in conn /\ hostRoom[h] # None
    /\ In(pending[s], hostRoom[h])
    /\ pending' = [pending EXCEPT ![s] = None]
    /\ LET r == hostRoom[h]
       IN  IF accepted /\ s \in conn /\ MayAdmit(r)
           THEN /\ approved' = [approved EXCEPT ![r] = @ \cup {pending[s].name}]
                /\ Attach(s, r, pending[s].name)
           ELSE UNCHANGED <<approved, session, members>>
    /\ UNCHANGED <<registry, commands, hostVars, blocked, conn>>

\* Mutant: a removed viewer stays in the room it receives from.
ViewerModerationWithoutLeave(h, s, action) ==
    /\ Quiescent
    /\ h \in conn /\ hostRoom[h] # None
    /\ In(session[s], hostRoom[h])
    /\ session' = [session EXCEPT ![s] = None]
    /\ UNCHANGED <<members, nameVars, registry, commands, hostVars, pending, conn>>

\* viewer:moderate, sent by host h about the viewer s
ViewerModeration(h, s, action) ==
    /\ Quiescent
    /\ h \in conn /\ hostRoom[h] # None
    /\ In(session[s], hostRoom[h])
    /\ LET r == hostRoom[h]
           name == session[s].name
       IN  /\ IF action = "block"
              THEN /\ blocked' = [blocked EXCEPT ![r] = @ \cup {name}]
                   /\ approved' = [approved EXCEPT ![r] = @ \ {name}]
              ELSE UNCHANGED nameVars
           /\ members' = [members EXCEPT ![r] = @ \ {s}]
    /\ session' = [session EXCEPT ![s] = None]
    /\ UNCHANGED <<registry, commands, hostVars, pending, conn>>

(***************************************************************************)
(* Leaving.                                                                *)
(***************************************************************************)
\* Mutant: a room that its host closes is only taken off the active ones.
HostLeftWithoutRemoval(r, s, explicit) ==
    /\ active' = [active EXCEPT ![r] = None]
    /\ graceTimer' = [graceTimer EXCEPT ![r] = IF explicit THEN None ELSE s]
    /\ UNCHANGED commands

\* closeHostRoomImmediately if the client left by itself, or scheduleHostCleanup
HostLeft(r, s, explicit) ==
    /\ active' = [active EXCEPT ![r] = None]
    /\ IF explicit
       THEN /\ graceTimer' = [graceTimer EXCEPT ![r] = None]
            /\ Send([op |-> "remove", socket |-> s, room |-> r])
       ELSE /\ graceTimer' = [graceTimer EXCEPT ![r] = s]
            /\ UNCHANGED commands

\* disconnect: socket.io has taken the socket out of its rooms before
Disconnect(s, explicit) ==
    /\ Quiescent
    /\ s \in conn
    /\ conn' = conn \ {s}
    /\ members' = [r \in Rooms |-> members[r] \ {s}]
    /\ IF hostRoom[s] # None THEN HostLeft(hostRoom[s], s, explicit)
       ELSE UNCHANGED <<active, graceTimer, commands>>
    /\ pending' = [pending EXCEPT ![s] = None]
    /\ hostRoom' = [hostRoom EXCEPT ![s] = None]
    /\ session' = [session EXCEPT ![s] = None]
    /\ UNCHANGED <<registry, nameVars>>

\* The grace timer fires: finalizeHostCleanup up to its await.
GraceOver(r) ==
    /\ Quiescent
    /\ graceTimer[r] # None
    /\ graceTimer' = [graceTimer EXCEPT ![r] = None]
    /\ Send([op |-> "remove", socket |-> graceTimer[r], room |-> r])
    /\ UNCHANGED <<registry, active, hostRoom, pending, session, nameVars, members, conn>>

\* Mutant: whose host is gone is not compared with who hosts the room.
RemoveHostedRoomOfAnyHost ==
    /\ Answered("remove")
    /\ LET c == commands[1]
       IN  IF registry[c.room] # None
           THEN /\ CloseSessions(c.room)
                /\ Then([op |-> "list", socket |-> c.socket, room |-> c.room])
           ELSE /\ Over
                /\ UNCHANGED <<pending, session, nameVars, members>>
    /\ UNCHANGED <<registry, hostVars, conn>>

\* removeHostedRoom, unless another host has taken the room over
RemoveHostedRoom ==
    /\ Answered("remove")
    /\ LET c == commands[1]
       IN  IF registry[c.room] # None /\ registry[c.room].host = c.socket
           THEN /\ CloseSessions(c.room)
                /\ Then([op |-> "list", socket |-> c.socket, room |-> c.room])
           ELSE /\ Over
                /\ UNCHANGED <<pending, session, nameVars, members>>
    /\ UNCHANGED <<registry, hostVars, conn>>

\* removeHostSocket reads all rooms, and then removes those of the socket
ListRoomsOfHost ==
    /\ Answered("list")
    /\ LET c == commands[1]
       IN  Then([op |-> "delete", socket |-> c.socket, room |-> c.room,
                 rooms |-> {r \in Rooms : registry[r] # None /\ registry[r].host = c.socket}])
    /\ UNCHANGED <<registry, hostVars, pending, session, nameVars, members, conn>>

DeleteRooms ==
    /\ Answered("delete")
    /\ registry' = [r \in Rooms |-> IF r \in commands[1].rooms THEN None ELSE registry[r]]
    /\ Over
    /\ UNCHANGED <<hostVars, pending, session, nameVars, members, conn>>

(***************************************************************************)
(* The specification.                                                      *)
(***************************************************************************)
Init ==
    /\ registry = [r \in Rooms |-> None]
    /\ commands = <<>>
    /\ active = [r \in Rooms |-> None]
    /\ hostRoom = [s \in Sockets |-> None]
    /\ graceTimer = [r \in Rooms |-> None]
    /\ pending = [s \in Sockets |-> None]
    /\ session = [s \in Sockets |-> None]
    /\ approved = [r \in Rooms |-> {}]
    /\ blocked = [r \in Rooms |-> {}]
    /\ members = [r \in Rooms |-> {}]
    /\ conn = {}

Handlers ==
    \/ \E s \in Sockets : Connect(s) \/ \E explicit \in BOOLEAN : Disconnect(s, explicit)
    \/ \E r \in Rooms :
          \/ \E mode \in Modes \cup {None} : CreateRoom(r, mode)
          \/ \E s \in Hosts : HostRoomCreate(s, r)
          \/ \E s \in Viewers, n \in Names : ViewerJoin(s, r, n)
          \/ GraceOver(r)
    \/ \E h \in Hosts, s \in Viewers :
          \/ \E accepted \in BOOLEAN : ViewerApproval(h, s, accepted)
          \/ \E action \in {"kick", "block"} : ViewerModeration(h, s, action)

Answers ==
    \/ RoomCreated \/ AttachHost \/ BindHost \/ JoinAnswered
    \/ RemoveHostedRoom \/ ListRoomsOfHost \/ DeleteRooms

Next == Handlers \/ Answers

Spec == Init /\ [][Next]_vars

\* The registry answers, and a grace timer that stays armed fires, whatever
\* handlers run before it.
FairSpec ==
    /\ Spec
    /\ WF_vars(Answers)
    /\ \A r \in Rooms : SF_vars(GraceOver(r))

(***************************************************************************)
(* Properties.                                                             *)
(***************************************************************************)
Commands ==
    [op : {"attach", "remove", "list"}, socket : Sockets, room : Rooms]
    \cup [op : {"bind"}, socket : Sockets, room : Rooms, mode : Modes]
    \cup [op : {"join"}, socket : Sockets, room : Rooms, name : Names]
    \cup [op : {"delete"}, socket : Sockets, room : Rooms, rooms : SUBSET Rooms]
    \cup [op : {"create"}, room : Rooms, mode : Modes \cup {None}]

\* Every variable has its type; in particular a stored room has an entry mode
\* even if its creator named none (createRoom).
TypeOK ==
    /\ registry \in [Rooms -> Records \cup {None}]
    /\ commands \in Seq(Commands)
    /\ active \in [Rooms -> Sockets \cup {None}]
    /\ hostRoom \in [Sockets -> Rooms \cup {None}]
    /\ graceTimer \in [Rooms -> Sockets \cup {None}]
    /\ pending \in [Sockets -> Seats \cup {None}]
    /\ session \in [Sockets -> Seats \cup {None}]
    /\ approved \in [Rooms -> SUBSET Names]
    /\ blocked \in [Rooms -> SUBSET Names]
    /\ members \in [Rooms -> SUBSET Sockets]
    /\ conn \subseteq Sockets

\* The connections a room's motion and stops fan out to are its bound hosts
\* and exactly the connected viewers of its viewer list: nobody receives
\* without being listed, and no listed viewer misses an emergency stop.
FanoutIsViewerList ==
    \A r \in Rooms :
        {s \in members[r] : hostRoom[s] # r} = {s \in conn : In(session[s], r)}

\* In a room with admission on request nobody becomes a viewer without the
\* host having accepted that name in this session of the room.
ApprovalNeeded ==
    [][\A s \in Viewers, r \in Rooms :
          In(session'[s], r) /\ ~In(session[s], r)
             /\ registry[r] # None /\ registry[r].mode = "request"
          => session'[s].name \in approved'[r]]_vars

\* A room never has more viewers than its relay node's limit, however the
\* host's own membership comes and goes under the subtraction of one.
CapacityKept ==
    \A r \in Rooms :
        Cardinality({s \in members[r] : hostRoom[s] # r}) <= Capacity

\* When a room is gone so are its viewers, requests and name lists: the next
\* room of that name inherits nothing.
ClosedRoomIsEmpty ==
    \A r \in Rooms :
        commands = <<>> /\ registry[r] = None =>
            /\ \A s \in Viewers : ~In(session[s], r) /\ ~In(pending[s], r)
            /\ approved[r] = {} /\ blocked[r] = {}

\* While the registered host of a room is connected, no cleanup started for an
\* earlier connection removes the room or any of its viewers.
LiveHostKeepsRoom ==
    [][\A r \in Rooms :
          commands # <<>> /\ registry[r] # None /\ registry[r].host \in conn =>
              /\ registry'[r] # None
              /\ \A s \in Viewers : In(session[s], r) => In(session'[s], r)]_vars

\* The guide: after a reconnect the host binds its room again and publishes
\* motion.  forwardMotion takes frames from the host of the active room only.
MayPublish(s, r) == active[r] = s
HostCanPublish ==
    \A s \in Hosts, r \in Rooms :
        commands = <<>> /\ s \in conn /\ hostRoom[s] = r
           /\ registry[r] # None /\ registry[r].host = s
        => MayPublish(s, r)

\* The handoff notes: after a grace period the room of a host that stays away
\* is closed, and its viewers are told.
Hostless(r) ==
    registry[r] # None /\ registry[r].host # None /\ registry[r].host \notin conn
HostlessRoomGoes == \A r \in Rooms : Hostless(r) ~> ~Hostless(r)

\* The guide: block keeps the display name from entering the room again.  It
\* does not keep a request of that name that waits from being approved.
BlockedStaysOut ==
    [][\A s \in Viewers, r \in Rooms :
          In(session'[s], r) /\ ~In(session[s], r)
          => session'[s].name \notin blocked[r]]_vars

(***************************************************************************)
(* The inductive invariant behind FanoutIsViewerList.                      *)
(***************************************************************************)
\* Hosts bind rooms and viewers hold seats, and never the other way round.
RightRole(c) ==
    /\ c.op \in {"attach", "bind"} => c.socket \in Hosts
    /\ c.op = "join" => c.socket \in Viewers
Roles ==
    /\ \A s \in Sockets :
          /\ hostRoom[s] # None => s \in Hosts
          /\ pending[s] # None \/ session[s] # None => s \in Viewers
    /\ \A i \in 1..Len(commands) : RightRole(commands[i])
    /\ \A r \in Rooms : members[r] \subseteq conn

\* a command that will make its socket a host or a viewer of its room
Enters(c, s, r) == c.op \in {"attach", "bind", "join"} /\ c.socket = s /\ c.room = r
Asked(s, r) == \E i \in 1..Len(commands) : Enters(commands[i], s, r)
Uses(s, r) == hostRoom[s] = r \/ In(pending[s], r) \/ In(session[s], r) \/ Asked(s, r)

\* What a connection is, waits for or has asked for is about one room; else a
\* late answer would seat it in a second room and leave it receiving the first.
OneRoom == \A s \in Sockets : \A r, q \in Rooms : Uses(s, r) /\ Uses(s, q) => r = q

\* the fan-out of room r as seen by connection s
Receives(s, r) == s \in members[r] /\ hostRoom[s] # r
Listed(s, r) == s \in conn /\ In(session[s], r)

\* Together, what every step preserves; the theorems about fan-out and approval
\* rest on it.
IInv == TypeOK /\ Roles /\ OneRoom /\ FanoutIsViewerList

(***************************************************************************)
(* The inductive invariant of the memory registry, where an answer comes   *)
(* before anything else happens.                                           *)
(***************************************************************************)
\* the room r has a record that names s as its host
RegisteredTo(s, r) == registry[r] # None /\ registry[r].host = s

\* nothing is left of a room that was closed
NobodySeated(r) ==
    /\ \A s \in Sockets : ~In(session[s], r) /\ ~In(pending[s], r)
    /\ approved[r] = {} /\ blocked[r] = {}

\* What is known when the answer to c comes: who asks to enter is connected,
\* and a removal is for a host that is gone and, once started, for one room
\* that has been emptied.
AnswerFits(c) ==
    /\ c.op \in {"attach", "bind", "join"} => c.socket \in conn
    /\ c.op \in {"remove", "list", "delete"} => c.socket \notin conn
    /\ c.op \in {"list", "delete"} => NobodySeated(c.room) /\ RegisteredTo(c.socket, c.room)
    /\ c.op = "delete" => c.rooms = {c.room}
    /\ c.op \in {"attach", "bind"} /\ ~LateDisconnects =>
          \A h \in conn \ {c.socket} : hostRoom[h] # c.room

\* At most one command is in flight, and its answer finds what it expects.
QueueFits == Len(commands) <= 1 /\ (commands # <<>> => AnswerFits(commands[1]))

\* The host of an active room is bound to it and in its fan-out: the one that
\* getConnectedCount subtracts is no viewer.
EntryIsBound ==
    \A r \in Rooms : active[r] # None => active[r] \in members[r] /\ hostRoom[active[r]] = r

\* A connection is the registered host of one room, the one it is bound to
\* while it lasts; grace timers are about connections that have ended.
HostsOfRecord ==
    /\ \A s \in Sockets : hostRoom[s] # None => s \in conn
    /\ \A s \in conn, r \in Rooms : RegisteredTo(s, r) => hostRoom[s] = r
    /\ \A s \in Sockets, r, q \in Rooms : RegisteredTo(s, r) /\ RegisteredTo(s, q) => r = q
    /\ \A r \in Rooms : graceTimer[r] \notin conn

\* A room without a record has nobody and no list of names.
UnstoredIsEmpty == \A r \in Rooms : registry[r] = None => NobodySeated(r)

\* With one connection of a host at a time the bound one is the active one.
BoundIsActive ==
    ~LateDisconnects => \A s \in Sockets : hostRoom[s] # None => active[hostRoom[s]] = s

\* Together, what every step preserves over the memory registry.
MemoryInv ==
    /\ IInv
    /\ IsFiniteSet(conn)
    /\ QueueFits
    /\ EntryIsBound
    /\ HostsOfRecord
    /\ UnstoredIsEmpty
    /\ BoundIsActive
    /\ CapacityKept
=============================================================================
