------------------------- MODULE RelayServer_proofs -------------------------
(***************************************************************************)
(* Proofs about RelayServer, for every set of connections, rooms and names,*)
(* every capacity and both registry drivers.                               *)
(***************************************************************************)
EXTENDS RelayServer, FiniteSetTheorems, TLAPS

(***************************************************************************)
(* The queue of registry commands.                                         *)
(***************************************************************************)
\* What is sent is last, and what was sent before stays where it is.
LEMMA SendLemma ==
    ASSUME TypeOK, NEW c \in Commands, Send(c)
    PROVE  /\ commands' \in Seq(Commands)
           /\ Len(commands') = Len(commands) + 1
           /\ \A i \in 1..Len(commands) : commands'[i] = commands[i]
           /\ commands'[Len(commands')] = c
  BY DEF TypeOK, Send

\* An answer takes the head, and the others move up.
LEMMA OverLemma ==
    ASSUME TypeOK, commands # <<>>, Over
    PROVE  /\ commands' \in Seq(Commands)
           /\ commands[1] \in Commands
           /\ Len(commands') = Len(commands) - 1
           /\ 1 \in 1..Len(commands)
           /\ \A i \in 1..Len(commands') :
                 i + 1 \in 1..Len(commands) /\ commands'[i] = commands[i + 1]
  BY DEF TypeOK, Over

\* The handler goes on with another command.
LEMMA ThenLemma ==
    ASSUME TypeOK, commands # <<>>, NEW c \in Commands, Then(c)
    PROVE  /\ commands' \in Seq(Commands)
           /\ commands[1] \in Commands
           /\ Len(commands') = Len(commands)
           /\ 1 \in 1..Len(commands)
           /\ \A i \in 1..Len(commands') :
                 \/ i + 1 \in 1..Len(commands) /\ commands'[i] = commands[i + 1]
                 \/ i = Len(commands) /\ commands'[i] = c
  BY DEF TypeOK, Then

\* The fields of a command.
LEMMA CommandLemma ==
    ASSUME NEW c \in Commands
    PROVE  /\ c.room \in Rooms
           /\ c.op \in {"create", "attach", "bind", "join", "remove", "list", "delete"}
           /\ c.op # "create" => c.socket \in Sockets
           /\ c.op = "create" => c.mode \in Modes \cup {None}
           /\ c.op = "bind" => c.mode \in Modes
           /\ c.op = "join" => c.name \in Names
           /\ c.op = "delete" => c.rooms \in SUBSET Rooms
  BY DEF Commands

(***************************************************************************)
(* Type correctness.                                                       *)
(***************************************************************************)
\* What the building blocks of the handlers keep.
LEMMA SeatTypes ==
    ASSUME TypeOK
    PROVE  /\ \A s \in Sockets, r \in Rooms : JoinRoom(s, r) => members' \in [Rooms -> SUBSET Sockets]
           /\ \A s \in Sockets, r \in Rooms, n \in Names : Attach(s, r, n) =>
                 /\ session' \in [Sockets -> Seats \cup {None}]
                 /\ members' \in [Rooms -> SUBSET Sockets]
           /\ \A r \in Rooms : CloseSessions(r) =>
                 /\ pending' \in [Sockets -> Seats \cup {None}]
                 /\ session' \in [Sockets -> Seats \cup {None}]
                 /\ approved' \in [Rooms -> SUBSET Names]
                 /\ blocked' \in [Rooms -> SUBSET Names]
                 /\ members' \in [Rooms -> SUBSET Sockets]
  <1>1. ASSUME NEW s \in Sockets, NEW r \in Rooms, JoinRoom(s, r)
        PROVE  members' \in [Rooms -> SUBSET Sockets]
    BY <1>1 DEF TypeOK, JoinRoom
  <1>2. ASSUME NEW s \in Sockets, NEW r \in Rooms, NEW n \in Names, Attach(s, r, n)
        PROVE  session' \in [Sockets -> Seats \cup {None}]
    BY <1>2 DEF TypeOK, Attach, Seats
  <1>3. ASSUME NEW r \in Rooms, CloseSessions(r)
        PROVE  /\ pending' \in [Sockets -> Seats \cup {None}]
               /\ session' \in [Sockets -> Seats \cup {None}]
               /\ approved' \in [Rooms -> SUBSET Names]
               /\ blocked' \in [Rooms -> SUBSET Names]
               /\ members' \in [Rooms -> SUBSET Sockets]
    BY <1>3 DEF TypeOK, CloseSessions
  <1> QED BY <1>1, <1>2, <1>3 DEF Attach

\* The handlers, up to their first await.
LEMMA HandlersType ==
    ASSUME TypeOK, Handlers
    PROVE  TypeOK'
  <1> USE DEF hostVars, nameVars
  <1>1. ASSUME NEW s \in Sockets, Connect(s) PROVE TypeOK'
    BY <1>1 DEF TypeOK, Connect
  <1>2. ASSUME NEW s \in Sockets, NEW explicit \in BOOLEAN, Disconnect(s, explicit)
        PROVE  TypeOK'
    <2>1. CASE hostRoom[s] # None
      <3>1. hostRoom[s] \in Rooms
        BY <2>1 DEF TypeOK
      <3>2. [op |-> "remove", socket |-> s, room |-> hostRoom[s]] \in Commands
        BY <3>1 DEF Commands
      <3>3. commands' \in Seq(Commands)
        BY <1>2, <2>1, <3>2, SendLemma DEF Disconnect, HostLeft, TypeOK
      <3> QED BY <1>2, <2>1, <3>1, <3>3 DEF TypeOK, Disconnect, HostLeft
    <2>2. CASE hostRoom[s] = None
      BY <1>2, <2>2 DEF TypeOK, Disconnect
    <2> QED BY <2>1, <2>2
  <1>3. ASSUME NEW r \in Rooms, NEW mode \in Modes \cup {None}, CreateRoom(r, mode)
        PROVE  TypeOK'
    <2>1. [op |-> "create", room |-> r, mode |-> mode] \in Commands
      BY DEF Commands
    <2> QED BY <1>3, <2>1, SendLemma DEF TypeOK, CreateRoom
  <1>4. ASSUME NEW r \in Rooms, NEW s \in Hosts, HostRoomCreate(s, r) PROVE TypeOK'
    <2>1. [op |-> "attach", socket |-> s, room |-> r] \in Commands
      BY DEF Commands, Sockets
    <2> QED BY <1>4, <2>1, SendLemma DEF TypeOK, HostRoomCreate
  <1>5. ASSUME NEW r \in Rooms, NEW s \in Viewers, NEW n \in Names, ViewerJoin(s, r, n)
        PROVE  TypeOK'
    <2>1. [op |-> "join", socket |-> s, room |-> r, name |-> n] \in Commands
      BY DEF Commands, Sockets
    <2> QED BY <1>5, <2>1, SendLemma DEF TypeOK, ViewerJoin
  <1>6. ASSUME NEW r \in Rooms, GraceOver(r) PROVE TypeOK'
    <2>1. [op |-> "remove", socket |-> graceTimer[r], room |-> r] \in Commands
      BY <1>6 DEF Commands, GraceOver, TypeOK
    <2> QED BY <1>6, <2>1, SendLemma DEF TypeOK, GraceOver
  <1>7. ASSUME NEW h \in Hosts, NEW s \in Viewers, NEW accepted \in BOOLEAN,
               ViewerApproval(h, s, accepted)
        PROVE  TypeOK'
    <2>1. h \in Sockets /\ s \in Sockets
      BY DEF Sockets
    <2>2. hostRoom[h] \in Rooms /\ pending[s] \in Seats /\ pending[s].name \in Names
      BY <1>7, <2>1 DEF ViewerApproval, TypeOK, In, Seats
    <2> DEFINE r == hostRoom[h]
               n == pending[s].name
    <2>3. \/ approved' = [approved EXCEPT ![r] = @ \cup {n}] /\ Attach(s, r, n)
          \/ UNCHANGED <<approved, session, members>>
      BY <1>7 DEF ViewerApproval
    <2>4. /\ pending' = [pending EXCEPT ![s] = None]
          /\ UNCHANGED <<registry, commands, hostVars, blocked, conn>>
      BY <1>7 DEF ViewerApproval
    <2>5. r \in Rooms /\ n \in Names
      BY <2>2
    <2> HIDE DEF r, n
    <2>6. CASE approved' = [approved EXCEPT ![r] = @ \cup {n}] /\ Attach(s, r, n)
      <3>1. session' \in [Sockets -> Seats \cup {None}] /\ members' \in [Rooms -> SUBSET Sockets]
        BY <2>1, <2>5, <2>6, SeatTypes
      <3>2. approved' \in [Rooms -> SUBSET Names]
        BY <2>5, <2>6 DEF TypeOK
      <3> QED BY <2>1, <2>4, <3>1, <3>2 DEF TypeOK
    <2>7. CASE UNCHANGED <<approved, session, members>>
      BY <2>1, <2>4, <2>7 DEF TypeOK
    <2> QED BY <2>3, <2>6, <2>7
  <1>8. ASSUME NEW h \in Hosts, NEW s \in Viewers, NEW action \in {"kick", "block"},
               ViewerModeration(h, s, action)
        PROVE  TypeOK'
    <2>1. h \in Sockets /\ s \in Sockets
      BY DEF Sockets
    <2>2. hostRoom[h] \in Rooms /\ session[s] \in Seats /\ session[s].name \in Names
      BY <1>8, <2>1 DEF ViewerModeration, TypeOK, In, Seats
    <2> QED BY <1>8, <2>1, <2>2 DEF ViewerModeration, TypeOK
  <1> QED BY <1>1, <1>2, <1>3, <1>4, <1>5, <1>6, <1>7, <1>8 DEF Handlers

\* The answers of the registry and the code after them.
LEMMA AnswersType ==
    ASSUME TypeOK, Answers
    PROVE  TypeOK'
  <1> USE DEF hostVars, nameVars, Answered
  <1> DEFINE c == commands[1]
  <1>0. commands # <<>> /\ c \in Commands
    BY DEF Answers, RoomCreated, AttachHost, BindHost, JoinAnswered, RemoveHostedRoom,
           ListRoomsOfHost, DeleteRooms, TypeOK
  <1>c. /\ c.room \in Rooms
        /\ c.op # "create" => c.socket \in Sockets
        /\ c.op = "create" => c.mode \in Modes \cup {None}
        /\ c.op = "bind" => c.mode \in Modes
        /\ c.op = "join" => c.name \in Names
    BY <1>0, CommandLemma
  <1>o. Over => commands' \in Seq(Commands)
    BY <1>0, OverLemma
  <1> HIDE DEF c
  <1>1. CASE RoomCreated
    <2>1. registry' \in [Rooms -> Records \cup {None}]
      BY <1>1, <1>c DEF RoomCreated, TypeOK, Records, Modes, c
    <2> QED BY <1>1, <2>1, <1>o DEF RoomCreated, TypeOK
  <1>2. CASE AttachHost
    <2>1. CASE registry[c.room] = None
      BY <1>2, <2>1, <1>o DEF AttachHost, TypeOK, c
    <2>2. CASE registry[c.room] # None
      <3>1. [op |-> "bind", socket |-> c.socket, room |-> c.room,
             mode |-> registry[c.room].mode] \in Commands
        BY <1>2, <2>2, <1>c DEF AttachHost, TypeOK, Records, Commands, c
      <3>2. commands' \in Seq(Commands)
        BY <1>2, <2>2, <3>1, <1>0, ThenLemma DEF AttachHost, c
      <3> QED BY <1>2, <3>2 DEF AttachHost, TypeOK
    <2> QED BY <2>1, <2>2
  <1>3. CASE BindHost
    <2>1. members' \in [Rooms -> SUBSET Sockets]
      BY <1>3, <1>c, SeatTypes DEF BindHost, c
    <2>2. registry' \in [Rooms -> Records \cup {None}]
      BY <1>3, <1>c DEF BindHost, TypeOK, Records, c
    <2> QED BY <1>3, <2>1, <2>2, <1>o, <1>c DEF BindHost, TypeOK, c
  <1>4. CASE JoinAnswered
    <2>1. c.socket \in Sockets /\ c.name \in Names
      BY <1>4, <1>c DEF JoinAnswered, c
    <2>2. [room |-> c.room, name |-> c.name] \in Seats
      BY <2>1, <1>c DEF Seats
    <2>3. Attach(c.socket, c.room, c.name) =>
            /\ session' \in [Sockets -> Seats \cup {None}]
            /\ members' \in [Rooms -> SUBSET Sockets]
      BY <2>1, <1>c, SeatTypes
    <2>4. /\ pending' \in [Sockets -> Seats \cup {None}]
          /\ session' \in [Sockets -> Seats \cup {None}]
          /\ members' \in [Rooms -> SUBSET Sockets]
      BY <1>4, <2>1, <2>2, <2>3 DEF JoinAnswered, TypeOK, c
    <2> QED BY <1>4, <2>4, <1>o DEF JoinAnswered, TypeOK
  <1>5. CASE RemoveHostedRoom
    <2>1. [op |-> "list", socket |-> c.socket, room |-> c.room] \in Commands
      BY <1>5, <1>c DEF RemoveHostedRoom, Commands, c
    <2>2. commands' \in Seq(Commands)
      BY <1>5, <2>1, <1>0, <1>o, ThenLemma DEF RemoveHostedRoom, c
    <2>3. /\ pending' \in [Sockets -> Seats \cup {None}]
          /\ session' \in [Sockets -> Seats \cup {None}]
          /\ approved' \in [Rooms -> SUBSET Names]
          /\ blocked' \in [Rooms -> SUBSET Names]
          /\ members' \in [Rooms -> SUBSET Sockets]
      BY <1>5, <1>c, SeatTypes DEF RemoveHostedRoom, TypeOK, c
    <2> QED BY <1>5, <2>2, <2>3 DEF RemoveHostedRoom, TypeOK
  <1>6. CASE ListRoomsOfHost
    <2> DEFINE rooms == {r \in Rooms : registry[r] # None /\ registry[r].host = c.socket}
    <2>1. [op |-> "delete", socket |-> c.socket, room |-> c.room, rooms |-> rooms] \in Commands
      BY <1>6, <1>c DEF ListRoomsOfHost, Commands, c
    <2>2. commands' \in Seq(Commands)
      BY <1>6, <2>1, <1>0, ThenLemma DEF ListRoomsOfHost, c
    <2> QED BY <1>6, <2>2 DEF ListRoomsOfHost, TypeOK
  <1>7. CASE DeleteRooms
    BY <1>7, <1>o DEF DeleteRooms, TypeOK
  <1> QED BY <1>1, <1>2, <1>3, <1>4, <1>5, <1>6, <1>7 DEF Answers

LEMMA TypeStep ==
    ASSUME TypeOK, [Next]_vars
    PROVE  TypeOK'
  <1>1. CASE UNCHANGED vars
    BY <1>1 DEF TypeOK, vars, hostVars, nameVars
  <1> QED BY <1>1, HandlersType, AnswersType DEF Next

(***************************************************************************)
(* A connection keeps to one room.                                         *)
(***************************************************************************)
\* What the queue asks for after a step on it.
LEMMA AskedLemma ==
    ASSUME TypeOK
    PROVE  /\ \A c \in Commands : Send(c) =>
                 \A t \in Sockets, q \in Rooms : Asked(t, q)' => Asked(t, q) \/ Enters(c, t, q)
           /\ commands # <<>> /\ Over =>
                 \A t \in Sockets, q \in Rooms : Asked(t, q)' => Asked(t, q)
           /\ \A c \in Commands : commands # <<>> /\ Then(c) =>
                 \A t \in Sockets, q \in Rooms : Asked(t, q)' => Asked(t, q) \/ Enters(c, t, q)
  <1>1. ASSUME NEW c \in Commands, Send(c), NEW t \in Sockets, NEW q \in Rooms, Asked(t, q)'
        PROVE  Asked(t, q) \/ Enters(c, t, q)
    <2>1. PICK i \in 1..Len(commands') : Enters(commands'[i], t, q)
      BY <1>1 DEF Asked
    <2>2. i \in 1..Len(commands) \/ i = Len(commands')
      BY <1>1, SendLemma DEF TypeOK
    <2> QED BY <1>1, <2>1, <2>2, SendLemma DEF Asked
  <1>2. ASSUME commands # <<>>, Over, NEW t \in Sockets, NEW q \in Rooms, Asked(t, q)'
        PROVE  Asked(t, q)
    <2>1. PICK i \in 1..Len(commands') : Enters(commands'[i], t, q)
      BY <1>2 DEF Asked
    <2> QED BY <1>2, <2>1, OverLemma DEF Asked
  <1>3. ASSUME NEW c \in Commands, commands # <<>>, Then(c),
               NEW t \in Sockets, NEW q \in Rooms, Asked(t, q)'
        PROVE  Asked(t, q) \/ Enters(c, t, q)
    <2>1. PICK i \in 1..Len(commands') : Enters(commands'[i], t, q)
      BY <1>3 DEF Asked
    <2> QED BY <1>3, <2>1, ThenLemma DEF Asked
  <1> QED BY <1>1, <1>2, <1>3

\* The roles of what the queue holds after a step on it.
LEMMA QueueRoles ==
    ASSUME TypeOK, \A i \in 1..Len(commands) : RightRole(commands[i])
    PROVE  /\ \A c \in Commands : Send(c) /\ RightRole(c) =>
                 \A i \in 1..Len(commands') : RightRole(commands'[i])
           /\ commands # <<>> /\ Over => \A i \in 1..Len(commands') : RightRole(commands'[i])
           /\ \A c \in Commands : commands # <<>> /\ Then(c) /\ RightRole(c) =>
                 \A i \in 1..Len(commands') : RightRole(commands'[i])
  <1>1. ASSUME NEW c \in Commands, Send(c), RightRole(c), NEW i \in 1..Len(commands')
        PROVE  RightRole(commands'[i])
    <2>1. i \in 1..Len(commands) \/ i = Len(commands')
      BY <1>1, SendLemma DEF TypeOK
    <2> QED BY <1>1, <2>1, SendLemma
  <1>2. ASSUME commands # <<>>, Over, NEW i \in 1..Len(commands')
        PROVE  RightRole(commands'[i])
    BY <1>2, OverLemma
  <1>3. ASSUME NEW c \in Commands, commands # <<>>, Then(c), RightRole(c),
               NEW i \in 1..Len(commands')
        PROVE  RightRole(commands'[i])
    BY <1>3, ThenLemma
  <1> QED BY <1>1, <1>2, <1>3

\* Who may ask for a room uses no other.
LEMMA InRoomOnlyLemma ==
    ASSUME TypeOK, NEW s \in Sockets, NEW r \in Rooms, InRoomOnly(s, r),
           NEW q \in Rooms, Uses(s, q)
    PROVE  q = r
  <1>1. hostRoom[s] = q => q = r
    BY RoomsAssumption DEF InRoomOnly
  <1>2. Asked(s, q) => q = r
    <2>1. ASSUME NEW i \in 1..Len(commands), Enters(commands[i], s, q), q # r
          PROVE  FALSE
      BY <2>1 DEF InRoomOnly, Enters
    <2> QED BY <2>1 DEF Asked
  <1> QED BY <1>1, <1>2 DEF Uses, InRoomOnly

\* What one step of a handler leaves of OneRoom.
LEMMA OneRoomKept ==
    ASSUME OneRoom, \A t \in Sockets, q \in Rooms : Uses(t, q)' => Uses(t, q)
    PROVE  OneRoom'
  BY DEF OneRoom

LEMMA OneRoomEntered ==
    ASSUME TypeOK, OneRoom, NEW s \in Sockets, NEW r \in Rooms, InRoomOnly(s, r),
           \A t \in Sockets, q \in Rooms : Uses(t, q)' => Uses(t, q) \/ (t = s /\ q = r)
    PROVE  OneRoom'
  <1> SUFFICES ASSUME NEW t \in Sockets, NEW p \in Rooms, NEW q \in Rooms,
                      Uses(t, p)', Uses(t, q)'
               PROVE  p = q
    BY DEF OneRoom
  <1>1. CASE t = s
    BY <1>1, InRoomOnlyLemma
  <1>2. CASE t # s
    BY <1>2 DEF OneRoom
  <1> QED BY <1>1, <1>2

(***************************************************************************)
(* The fan-out of a room is its viewer list.                               *)
(***************************************************************************)
\* The two sets agree if they do at every connection.
LEMMA FanoutPointwise ==
    ASSUME TypeOK, FanoutIsViewerList, NEW s \in Sockets, NEW r \in Rooms
    PROVE  Receives(s, r) <=> Listed(s, r)
  BY DEF TypeOK, FanoutIsViewerList, Receives, Listed

LEMMA FanoutFromPoints ==
    ASSUME TypeOK', \A s \in Sockets, r \in Rooms : Receives(s, r)' <=> Listed(s, r)'
    PROVE  FanoutIsViewerList'
  <1> SUFFICES ASSUME NEW r \in Rooms
               PROVE  {s \in members'[r] : hostRoom'[s] # r} = {s \in conn' : In(session'[s], r)}
    BY DEF FanoutIsViewerList, In
  <1>1. members'[r] \subseteq Sockets /\ conn' \subseteq Sockets
    BY DEF TypeOK
  <1>2. \A s \in Sockets : s \in members'[r] /\ hostRoom'[s] # r <=> s \in conn' /\ In(session'[s], r)
    BY DEF Receives, Listed, In
  <1> QED BY <1>1, <1>2

\* A connection in the room of socket.io uses that room.
LEMMA MembersUse ==
    ASSUME IInv, NEW s \in Sockets, NEW r \in Rooms, s \in members[r]
    PROVE  Uses(s, r)
  BY FanoutPointwise DEF IInv, Receives, Listed, Uses

\* A handler whose first part changes nothing but the queue.
LEMMA QueueOnly ==
    ASSUME IInv, TypeOK', Roles', OneRoom',
           UNCHANGED <<hostRoom, session, members, conn>>
    PROVE  IInv'
  <1>1. \A s \in Sockets, r \in Rooms : Receives(s, r)' <=> Listed(s, r)'
    BY FanoutPointwise DEF IInv, Receives, Listed, In
  <1> QED BY <1>1, FanoutFromPoints DEF IInv

\* A viewer that has asked for the room, or waits for it, is let in.
LEMMA AttachLemma ==
    ASSUME IInv, NEW s \in Viewers, NEW r \in Rooms, NEW n \in Names,
           Uses(s, r), Attach(s, r, n), UNCHANGED <<hostRoom, conn>>
    PROVE  \A t \in Sockets, q \in Rooms :
              /\ In(session'[t], q) => In(session[t], q) \/ (t = s /\ q = r)
              /\ session'[t] # None => session[t] # None \/ t = s
              /\ members'[q] \subseteq conn'
              /\ Receives(t, q)' <=> Listed(t, q)'
  <1>1. s \in Sockets /\ hostRoom[s] = None
    BY RolesAssumption DEF IInv, Roles, Sockets
  <1>2. [room |-> r, name |-> n] \in Seats /\ [room |-> r, name |-> n] # None
    BY SeatsAssumption DEF Seats
  <1>3. ASSUME NEW t \in Sockets
        PROVE  session'[t] = IF t = s THEN [room |-> r, name |-> n] ELSE session[t]
    BY <1>1 DEF IInv, TypeOK, Attach
  <1>4. ASSUME NEW q \in Rooms
        PROVE  members'[q] = IF q = r /\ s \in conn THEN members[q] \cup {s} ELSE members[q]
    BY DEF IInv, TypeOK, Attach, JoinRoom
  <1>5. ASSUME NEW t \in Sockets, NEW q \in Rooms
        PROVE  Receives(t, q)' <=> Listed(t, q)'
    <2>1. Receives(t, q) <=> Listed(t, q)
      BY FanoutPointwise DEF IInv
    <2>2. CASE t # s
      BY <1>3, <1>4, <2>1, <2>2 DEF Receives, Listed, In
    <2>3. CASE t = s /\ q = r
      <3>1. In(session'[s], r)
        BY <1>1, <1>2, <1>3 DEF In
      <3>2. s \in members'[r] <=> s \in conn
        BY <1>4 DEF IInv, Roles
      <3> QED BY <1>1, <2>3, <3>1, <3>2, RoomsAssumption DEF Receives, Listed
    <2>4. CASE t = s /\ q # r
      <3>1. ~In(session[s], q)
        BY <1>1, <2>4 DEF IInv, OneRoom, Uses
      <3>2. ~In(session'[s], q)
        BY <1>1, <1>3, <2>4 DEF In
      <3>3. s \notin members[q]
        BY <1>1, <2>1, <2>4, <3>1, RoomsAssumption DEF Receives, Listed
      <3> QED BY <1>4, <2>4, <3>2, <3>3 DEF Receives, Listed
    <2> QED BY <2>2, <2>3, <2>4
  <1>6. ASSUME NEW t \in Sockets, NEW q \in Rooms, In(session'[t], q)
        PROVE  In(session[t], q) \/ (t = s /\ q = r)
    BY <1>3, <1>6 DEF In
  <1>7. ASSUME NEW q \in Rooms PROVE members'[q] \subseteq conn'
    BY <1>4 DEF IInv, Roles
  <1> QED BY <1>3, <1>5, <1>6, <1>7

LEMMA HandlersInv ==
    ASSUME IInv, Handlers
    PROVE  IInv'
  <1> USE DEF hostVars, nameVars
  <1>t. TypeOK /\ TypeOK'
    BY HandlersType DEF IInv
  <1>r. \A i \in 1..Len(commands) : RightRole(commands[i])
    BY DEF IInv, Roles
  <1>1. ASSUME NEW s \in Sockets, Connect(s) PROVE IInv'
    <2>1. OneRoom'
      BY <1>1, OneRoomKept DEF IInv, Connect, Uses, Asked, In
    <2>2. Roles'
      BY <1>1 DEF IInv, Roles, Connect
    <2>3. ASSUME NEW t \in Sockets, NEW r \in Rooms
          PROVE  Receives(t, r)' <=> Listed(t, r)'
      BY <1>1, <2>3, <1>t, FanoutPointwise
         DEF IInv, Connect, Forgotten, Receives, Listed, In
    <2> QED BY <1>t, <2>1, <2>2, <2>3, FanoutFromPoints DEF IInv
  <1>2. ASSUME NEW s \in Sockets, NEW explicit \in BOOLEAN, Disconnect(s, explicit)
        PROVE  IInv'
    <2>1. /\ \A t \in Sockets, q \in Rooms : Asked(t, q)' => Asked(t, q)
          /\ \A i \in 1..Len(commands') : RightRole(commands'[i])
      <3>1. CASE hostRoom[s] # None /\ explicit
        <4> DEFINE c == [op |-> "remove", socket |-> s, room |-> hostRoom[s]]
        <4>1. hostRoom[s] \in Rooms
          BY <3>1, <1>t DEF TypeOK
        <4>2. c \in Commands /\ RightRole(c)
          BY <4>1 DEF Commands, RightRole
        <4>3. Send(c)
          BY <1>2, <3>1 DEF Disconnect, HostLeft
        <4>4. \A t \in Sockets, q \in Rooms : ~Enters(c, t, q)
          BY DEF Enters
        <4> HIDE DEF c
        <4> QED BY <1>t, <1>r, <4>2, <4>3, <4>4, AskedLemma, QueueRoles
      <3>2. CASE ~(hostRoom[s] # None /\ explicit)
        <4>1. UNCHANGED commands
          BY <1>2, <3>2 DEF Disconnect, HostLeft
        <4> QED BY <4>1, <1>r DEF Asked
      <3> QED BY <3>1, <3>2
    <2>2. /\ hostRoom' = [hostRoom EXCEPT ![s] = None]
          /\ pending' = [pending EXCEPT ![s] = None]
          /\ session' = [session EXCEPT ![s] = None]
          /\ conn' = conn \ {s}
          /\ members' = [r \in Rooms |-> members[r] \ {s}]
      BY <1>2 DEF Disconnect
    <2>3. OneRoom'
      BY <1>t, <2>1, <2>2, OneRoomKept, RoomsAssumption DEF IInv, TypeOK, Uses, In
    <2>4. Roles'
      BY <1>t, <2>1, <2>2 DEF IInv, TypeOK, Roles
    <2>5. ASSUME NEW t \in Sockets, NEW r \in Rooms
          PROVE  Receives(t, r)' <=> Listed(t, r)'
      BY <1>t, <2>2, FanoutPointwise DEF IInv, TypeOK, Receives, Listed, In
    <2> QED BY <1>t, <2>3, <2>4, <2>5, FanoutFromPoints DEF IInv
  <1>3. ASSUME NEW r \in Rooms, NEW mode \in Modes \cup {None}, CreateRoom(r, mode)
        PROVE  IInv'
    <2> DEFINE c == [op |-> "create", room |-> r, mode |-> mode]
    <2>1. c \in Commands /\ RightRole(c) /\ Send(c)
      BY <1>3 DEF Commands, RightRole, CreateRoom
    <2>2. \A t \in Sockets, q \in Rooms : ~Enters(c, t, q)
      BY DEF Enters
    <2> HIDE DEF c
    <2>3. OneRoom'
      BY <1>3, <1>t, <2>1, <2>2, AskedLemma, OneRoomKept DEF IInv, CreateRoom, Uses, In
    <2>4. Roles'
      BY <1>3, <1>t, <1>r, <2>1, QueueRoles DEF IInv, Roles, CreateRoom
    <2> QED BY <1>3, <1>t, <2>3, <2>4, QueueOnly DEF CreateRoom
  <1>4. ASSUME NEW r \in Rooms, NEW s \in Hosts, HostRoomCreate(s, r) PROVE IInv'
    <2> DEFINE c == [op |-> "attach", socket |-> s, room |-> r]
    <2>1. c \in Commands /\ RightRole(c) /\ Send(c) /\ s \in Sockets
      BY <1>4 DEF Commands, RightRole, HostRoomCreate, Sockets
    <2>2. \A t \in Sockets, q \in Rooms : Enters(c, t, q) => t = s /\ q = r
      BY DEF Enters
    <2> HIDE DEF c
    <2>3. OneRoom'
      BY <1>4, <1>t, <2>1, <2>2, AskedLemma, OneRoomEntered
         DEF IInv, HostRoomCreate, Uses, In
    <2>4. Roles'
      BY <1>4, <1>t, <1>r, <2>1, QueueRoles DEF IInv, Roles, HostRoomCreate
    <2> QED BY <1>4, <1>t, <2>3, <2>4, QueueOnly DEF HostRoomCreate
  <1>5. ASSUME NEW r \in Rooms, NEW s \in Viewers, NEW n \in Names, ViewerJoin(s, r, n)
        PROVE  IInv'
    <2> DEFINE c == [op |-> "join", socket |-> s, room |-> r, name |-> n]
    <2>1. c \in Commands /\ RightRole(c) /\ Send(c) /\ s \in Sockets
      BY <1>5 DEF Commands, RightRole, ViewerJoin, Sockets
    <2>2. \A t \in Sockets, q \in Rooms : Enters(c, t, q) => t = s /\ q = r
      BY DEF Enters
    <2> HIDE DEF c
    <2>3. OneRoom'
      BY <1>5, <1>t, <2>1, <2>2, AskedLemma, OneRoomEntered DEF IInv, ViewerJoin, Uses, In
    <2>4. Roles'
      BY <1>5, <1>t, <1>r, <2>1, QueueRoles DEF IInv, Roles, ViewerJoin
    <2> QED BY <1>5, <1>t, <2>3, <2>4, QueueOnly DEF ViewerJoin
  <1>6. ASSUME NEW r \in Rooms, GraceOver(r) PROVE IInv'
    <2> DEFINE c == [op |-> "remove", socket |-> graceTimer[r], room |-> r]
    <2>1. c \in Commands /\ RightRole(c) /\ Send(c)
      BY <1>6, <1>t DEF Commands, RightRole, GraceOver, TypeOK
    <2>2. \A t \in Sockets, q \in Rooms : ~Enters(c, t, q)
      BY DEF Enters
    <2> HIDE DEF c
    <2>3. OneRoom'
      BY <1>6, <1>t, <2>1, <2>2, AskedLemma, OneRoomKept DEF IInv, GraceOver, Uses, In
    <2>4. Roles'
      BY <1>6, <1>t, <1>r, <2>1, QueueRoles DEF IInv, Roles, GraceOver
    <2> QED BY <1>6, <1>t, <2>3, <2>4, QueueOnly DEF GraceOver
  <1>7. ASSUME NEW h \in Hosts, NEW s \in Viewers, NEW accepted \in BOOLEAN,
               ViewerApproval(h, s, accepted)
        PROVE  IInv'
    <2> DEFINE r == hostRoom[h]
               name == pending[s].name
    <2>1. h \in Sockets /\ s \in Sockets /\ r \in Rooms /\ s \notin Hosts
      BY <1>7, <1>t, RolesAssumption DEF ViewerApproval, TypeOK, Sockets
    <2>2. hostRoom[s] = None /\ Uses(s, r)
      BY <1>7, <2>1 DEF IInv, Roles, ViewerApproval, Uses
    <2>3. pending' = [pending EXCEPT ![s] = None] /\ UNCHANGED <<commands, hostRoom, conn>>
      BY <1>7 DEF ViewerApproval
    <2>4. Attach(s, r, name) \/ UNCHANGED <<session, members>>
      BY <1>7 DEF ViewerApproval
    <2>5. name \in Names
      BY <1>7, <1>t, <2>1 DEF ViewerApproval, In, TypeOK, Seats
    <2> HIDE DEF r, name
    <2>6. \A t \in Sockets : pending'[t] # None => pending'[t] = pending[t]
      BY <1>t, <2>1, <2>3 DEF TypeOK
    <2>7. CASE Attach(s, r, name)
      <3>1. OneRoom'
        BY <2>2, <2>3, <2>5, <2>6, <2>7, AttachLemma, OneRoomKept, <2>1
           DEF IInv, Uses, Asked, In
      <3>2. Roles'
        BY <1>r, <2>1, <2>2, <2>3, <2>5, <2>6, <2>7, AttachLemma DEF IInv, Roles
      <3> QED BY <1>t, <2>1, <2>2, <2>3, <2>5, <2>7, <3>1, <3>2, AttachLemma, FanoutFromPoints
              DEF IInv
    <2>8. CASE UNCHANGED <<session, members>>
      <3>1. OneRoom'
        BY <2>3, <2>6, <2>8, OneRoomKept DEF IInv, Uses, Asked, In
      <3>2. Roles'
        BY <2>3, <2>6, <2>8 DEF IInv, Roles
      <3> QED BY <1>t, <2>3, <2>8, <3>1, <3>2, QueueOnly
    <2> QED BY <2>4, <2>7, <2>8
  <1>8. ASSUME NEW h \in Hosts, NEW s \in Viewers, NEW action \in {"kick", "block"},
               ViewerModeration(h, s, action)
        PROVE  IInv'
    <2> DEFINE r == hostRoom[h]
    <2>1. h \in Sockets /\ s \in Sockets /\ r \in Rooms
      BY <1>8, <1>t DEF ViewerModeration, TypeOK, Sockets
    <2>2. /\ In(session[s], r)
          /\ session' = [session EXCEPT ![s] = None]
          /\ members' = [members EXCEPT ![r] = @ \ {s}]
          /\ UNCHANGED <<commands, hostRoom, pending, conn>>
      BY <1>8 DEF ViewerModeration
    <2> HIDE DEF r
    <2>3. OneRoom'
      BY <1>t, <2>1, <2>2, OneRoomKept DEF IInv, TypeOK, Uses, Asked, In
    <2>4. Roles'
      BY <1>t, <1>r, <2>1, <2>2 DEF IInv, TypeOK, Roles
    <2>5. ASSUME NEW t \in Sockets, NEW q \in Rooms
          PROVE  Receives(t, q)' <=> Listed(t, q)'
      BY <1>t, <2>1, <2>2, FanoutPointwise DEF IInv, TypeOK, Receives, Listed, In
    <2> QED BY <1>t, <2>3, <2>4, <2>5, FanoutFromPoints DEF IInv
  <1> QED BY <1>1, <1>2, <1>3, <1>4, <1>5, <1>6, <1>7, <1>8 DEF Handlers

LEMMA AnswersInv ==
    ASSUME IInv, Answers
    PROVE  IInv'
  <1> USE DEF hostVars, nameVars, Answered
  <1>t. TypeOK /\ TypeOK'
    BY AnswersType DEF IInv
  <1>r. \A i \in 1..Len(commands) : RightRole(commands[i])
    BY DEF IInv, Roles
  <1> DEFINE c == commands[1]
  <1>0. commands # <<>> /\ c \in Commands /\ 1 \in 1..Len(commands)
    BY <1>t DEF Answers, RoomCreated, AttachHost, BindHost, JoinAnswered, RemoveHostedRoom,
           ListRoomsOfHost, DeleteRooms, TypeOK
  <1>c. /\ c.room \in Rooms
        /\ c.op # "create" => c.socket \in Sockets
        /\ c.op = "join" => c.name \in Names
        /\ RightRole(c)
        /\ c.op \in {"attach", "bind", "join"} => Uses(c.socket, c.room)
    BY <1>0, <1>r, CommandLemma DEF Uses, Asked, Enters
  <1>o. Over => /\ \A t \in Sockets, q \in Rooms : Asked(t, q)' => Asked(t, q)
                /\ \A i \in 1..Len(commands') : RightRole(commands'[i])
    BY <1>t, <1>r, <1>0, AskedLemma, QueueRoles
  <1> HIDE DEF c
  <1>1. CASE RoomCreated
    <2>1. OneRoom' /\ Roles'
      BY <1>1, <1>o, OneRoomKept DEF IInv, RoomCreated, Uses, In, Roles
    <2> QED BY <1>1, <1>t, <2>1, QueueOnly DEF RoomCreated
  <1>2. CASE AttachHost
    <2>1. /\ \A t \in Sockets, q \in Rooms : Asked(t, q)' => Asked(t, q)
          /\ \A i \in 1..Len(commands') : RightRole(commands'[i])
      <3>1. CASE registry[c.room] = None
        BY <1>2, <1>o, <3>1 DEF AttachHost, c
      <3>2. CASE registry[c.room] # None
        <4> DEFINE b == [op |-> "bind", socket |-> c.socket, room |-> c.room,
                         mode |-> registry[c.room].mode]
        <4>1. c.op = "attach"
          BY <1>2 DEF AttachHost, c
        <4>2. b \in Commands /\ Then(b)
          BY <1>2, <3>2, <1>c, <1>t DEF AttachHost, TypeOK, Records, Commands, c
        <4>3. RightRole(b)
          BY <4>1, <1>c DEF RightRole
        <4>4. ASSUME NEW t \in Sockets, NEW q \in Rooms, Enters(b, t, q) PROVE Asked(t, q)
          BY <1>0, <4>1, <4>4 DEF Enters, Asked, c
        <4> HIDE DEF b
        <4> QED BY <1>t, <1>r, <1>0, <4>2, <4>3, <4>4, AskedLemma, QueueRoles
      <3> QED BY <3>1, <3>2
    <2>2. OneRoom' /\ Roles'
      BY <1>2, <2>1, OneRoomKept DEF IInv, AttachHost, Uses, In, Roles
    <2> QED BY <1>2, <1>t, <2>2, QueueOnly DEF AttachHost
  <1>3. CASE BindHost
    <2> DEFINE s == c.socket
               r == c.room
    <2>1. s \in Sockets /\ r \in Rooms /\ s \in Hosts /\ Uses(s, r)
      BY <1>3, <1>c DEF BindHost, RightRole, c
    <2>2. /\ hostRoom' = [hostRoom EXCEPT ![s] = r]
          /\ JoinRoom(s, r)
          /\ Over
          /\ UNCHANGED <<pending, session, conn>>
      BY <1>3 DEF BindHost, c
    <2> HIDE DEF s, r
    <2>3. session[s] = None /\ s \notin Viewers
      BY <2>1, RolesAssumption DEF IInv, Roles
    <2>4. OneRoom'
      BY <1>t, <1>o, <2>1, <2>2, OneRoomKept DEF IInv, TypeOK, Uses, In
    <2>5. Roles'
      BY <1>t, <1>o, <2>1, <2>2 DEF IInv, TypeOK, Roles, JoinRoom
    <2>6. ASSUME NEW t \in Sockets, NEW q \in Rooms
          PROVE  Receives(t, q)' <=> Listed(t, q)'
      <3>1. Receives(t, q) <=> Listed(t, q)
        BY <1>t, FanoutPointwise DEF IInv
      <3>2. hostRoom'[t] = (IF t = s THEN r ELSE hostRoom[t])
        BY <1>t, <2>2 DEF TypeOK
      <3>3. members'[q] = (IF q = r /\ s \in conn THEN members[q] \cup {s} ELSE members[q])
        BY <1>t, <2>2 DEF TypeOK, JoinRoom
      <3>4. CASE t # s
        BY <2>2, <3>1, <3>2, <3>3, <3>4 DEF Receives, Listed, In
      <3>5. CASE t = s
        <4>1. ~Listed(t, q)'
          BY <2>2, <2>3, <3>5 DEF Listed, In
        <4>2. s \in members[q] => q = r
          BY <2>1, MembersUse DEF IInv, OneRoom
        <4> QED BY <3>2, <3>3, <3>5, <4>1, <4>2 DEF Receives
      <3> QED BY <3>4, <3>5
    <2> QED BY <1>t, <2>4, <2>5, <2>6, FanoutFromPoints DEF IInv
  <1>4. CASE JoinAnswered
    <2> DEFINE s == c.socket
               r == c.room
               n == c.name
    <2>1. s \in Sockets /\ r \in Rooms /\ n \in Names /\ s \in Viewers /\ Uses(s, r)
      BY <1>4, <1>c DEF JoinAnswered, RightRole, c
    <2>2. Over /\ UNCHANGED <<hostRoom, conn>>
      BY <1>4 DEF JoinAnswered
    <2>3. \/ UNCHANGED <<pending, session, members>>
          \/ /\ pending' = [pending EXCEPT ![s] = [room |-> r, name |-> n]]
             /\ UNCHANGED <<session, members>>
          \/ Attach(s, r, n) /\ UNCHANGED pending
      BY <1>4 DEF JoinAnswered, c
    <2> HIDE DEF s, r, n
    <2>4. CASE UNCHANGED <<pending, session, members>>
      <3>1. OneRoom' /\ Roles'
        BY <1>o, <2>2, <2>4, OneRoomKept DEF IInv, Uses, In, Roles
      <3> QED BY <1>t, <2>2, <2>4, <3>1, QueueOnly
    <2>5. CASE /\ pending' = [pending EXCEPT ![s] = [room |-> r, name |-> n]]
               /\ UNCHANGED <<session, members>>
      <3>1. ASSUME NEW t \in Sockets
            PROVE  pending'[t] = (IF t = s THEN [room |-> r, name |-> n] ELSE pending[t])
        BY <1>t, <2>5 DEF TypeOK
      <3>2. ASSUME NEW t \in Sockets, NEW q \in Rooms, Uses(t, q)' PROVE Uses(t, q)
        <4>1. In(pending'[t], q) => In(pending[t], q) \/ (t = s /\ q = r)
          BY <3>1 DEF In
        <4> QED BY <1>o, <2>1, <2>2, <2>5, <3>2, <4>1 DEF Uses, In
      <3>3. OneRoom'
        BY <3>2, OneRoomKept DEF IInv
      <3>4. Roles'
        BY <1>o, <2>1, <2>2, <2>5, <3>1 DEF IInv, Roles
      <3> QED BY <1>t, <2>2, <2>5, <3>3, <3>4, QueueOnly
    <2>6. CASE Attach(s, r, n) /\ UNCHANGED pending
      <3>1. OneRoom'
        BY <1>o, <2>1, <2>2, <2>6, AttachLemma, OneRoomKept DEF IInv, Uses, In
      <3>2. Roles'
        BY <1>o, <2>1, <2>2, <2>6, AttachLemma DEF IInv, Roles
      <3> QED BY <1>t, <2>1, <2>2, <2>6, <3>1, <3>2, AttachLemma, FanoutFromPoints DEF IInv
    <2> QED BY <2>3, <2>4, <2>5, <2>6
  <1>5. CASE RemoveHostedRoom
    <2> DEFINE r == c.room
               l == [op |-> "list", socket |-> c.socket, room |-> c.room]
    <2>1. r \in Rooms /\ l \in Commands /\ RightRole(l)
      BY <1>5, <1>c DEF RemoveHostedRoom, Commands, RightRole, c
    <2>2. \A t \in Sockets, q \in Rooms : ~Enters(l, t, q)
      BY DEF Enters
    <2>3. UNCHANGED <<hostRoom, conn>>
      BY <1>5 DEF RemoveHostedRoom
    <2>4. (CloseSessions(r) /\ Then(l)) \/ (Over /\ UNCHANGED <<pending, session, members>>)
      BY <1>5 DEF RemoveHostedRoom, c
    <2> HIDE DEF r, l
    <2>5. CASE CloseSessions(r) /\ Then(l)
      <3>1. /\ \A t \in Sockets, q \in Rooms : Asked(t, q)' => Asked(t, q)
            /\ \A i \in 1..Len(commands') : RightRole(commands'[i])
        BY <1>t, <1>r, <1>0, <2>1, <2>2, <2>5, AskedLemma, QueueRoles
      <3>2. OneRoom'
        BY <2>3, <2>5, <3>1, OneRoomKept DEF IInv, CloseSessions, Uses, In
      <3>3. Roles'
        BY <1>t, <2>3, <2>5, <3>1 DEF IInv, TypeOK, CloseSessions, Roles
      <3>4. ASSUME NEW t \in Sockets, NEW q \in Rooms
            PROVE  Receives(t, q)' <=> Listed(t, q)'
        BY <1>t, <2>1, <2>3, <2>5, FanoutPointwise
           DEF IInv, TypeOK, CloseSessions, Receives, Listed, In
      <3> QED BY <1>t, <3>2, <3>3, <3>4, FanoutFromPoints DEF IInv
    <2>6. CASE Over /\ UNCHANGED <<pending, session, members>>
      <3>1. OneRoom' /\ Roles'
        BY <1>o, <2>3, <2>6, OneRoomKept DEF IInv, Uses, In, Roles
      <3> QED BY <1>t, <2>3, <2>6, <3>1, QueueOnly
    <2> QED BY <2>4, <2>5, <2>6
  <1>6. CASE ListRoomsOfHost
    <2> DEFINE d == [op |-> "delete", socket |-> c.socket, room |-> c.room,
                     rooms |-> {r \in Rooms : registry[r] # None /\ registry[r].host = c.socket}]
    <2>1. d \in Commands /\ RightRole(d) /\ Then(d)
      BY <1>6, <1>c DEF ListRoomsOfHost, Commands, RightRole, c
    <2>2. \A t \in Sockets, q \in Rooms : ~Enters(d, t, q)
      BY DEF Enters
    <2> HIDE DEF d
    <2>3. /\ \A t \in Sockets, q \in Rooms : Asked(t, q)' => Asked(t, q)
          /\ \A i \in 1..Len(commands') : RightRole(commands'[i])
      BY <1>t, <1>r, <1>0, <2>1, <2>2, AskedLemma, QueueRoles
    <2>4. OneRoom' /\ Roles'
      BY <1>6, <2>3, OneRoomKept DEF IInv, ListRoomsOfHost, Uses, In, Roles
    <2> QED BY <1>6, <1>t, <2>4, QueueOnly DEF ListRoomsOfHost
  <1>7. CASE DeleteRooms
    <2>1. OneRoom' /\ Roles'
      BY <1>7, <1>o, OneRoomKept DEF IInv, DeleteRooms, Uses, In, Roles
    <2> QED BY <1>7, <1>t, <2>1, QueueOnly DEF DeleteRooms
  <1> QED BY <1>1, <1>2, <1>3, <1>4, <1>5, <1>6, <1>7 DEF Answers

(***************************************************************************)
(* The theorems.                                                           *)
(***************************************************************************)
LEMMA InitInv == Init => IInv
  <1> SUFFICES ASSUME Init PROVE IInv
    OBVIOUS
  <1>1. TypeOK
    BY DEF Init, TypeOK
  <1>2. Roles
    BY <1>1 DEF Init, Roles
  <1>3. \A s \in Sockets, r \in Rooms : ~Uses(s, r)
    BY RoomsAssumption DEF Init, Uses, Asked, In
  <1>4. FanoutIsViewerList
    BY DEF Init, FanoutIsViewerList
  <1> QED BY <1>1, <1>2, <1>3, <1>4 DEF IInv, OneRoom

LEMMA StutterInv == IInv /\ UNCHANGED vars => IInv'
  <1> SUFFICES ASSUME IInv, UNCHANGED vars PROVE IInv'
    OBVIOUS
  <1>1. TypeOK'
    BY DEF IInv, TypeOK, vars, hostVars, nameVars
  <1>2. Roles'
    BY DEF IInv, Roles, vars, hostVars, nameVars
  <1>3. OneRoom'
    BY OneRoomKept DEF IInv, Uses, Asked, In, vars, hostVars, nameVars
  <1> QED BY <1>1, <1>2, <1>3, QueueOnly DEF vars, hostVars, nameVars

\* IInv holds for every set of connections, rooms and names, every capacity
\* and both registry drivers, however their answers interleave with handlers.
THEOREM Inductive == Spec => []IInv
  <1>1. IInv /\ [Next]_vars => IInv'
    BY HandlersInv, AnswersInv, StutterInv DEF Next
  <1> QED BY InitInv, <1>1, PTL DEF Spec

\* Every variable keeps its type.
THEOREM TypeCorrect == Spec => []TypeOK
  <1>1. IInv => TypeOK
    BY DEF IInv
  <1> QED BY <1>1, Inductive, PTL

\* A room's motion and stops go to its bound hosts and exactly the connected
\* viewers of its viewer list (attachViewerToRoom, handleViewerModeration,
\* closeViewerSessions, disconnect).
THEOREM FanoutIsListed == Spec => []FanoutIsViewerList
  <1>1. IInv => FanoutIsViewerList
    BY DEF IInv
  <1> QED BY <1>1, Inductive, PTL

\* A step that seats a viewer in a request room has the name approved.
LEMMA SeatNeedsApproval ==
    ASSUME IInv, Next, NEW s \in Viewers, NEW r \in Rooms,
           In(session'[s], r), ~In(session[s], r),
           registry[r] # None, registry[r].mode = "request"
    PROVE  session'[s].name \in approved'[r]
  <1> USE DEF hostVars, nameVars, Answered
  <1>1. s \in Sockets /\ session[s] # session'[s] /\ session'[s] # None
    BY DEF Sockets, In
  <1>2. CASE Handlers
    <2>1. PICK h \in Hosts, v \in Viewers, accepted \in BOOLEAN : ViewerApproval(h, v, accepted)
      BY <1>1, <1>2 DEF Handlers, IInv, TypeOK, Connect, Disconnect, CreateRoom, HostRoomCreate,
         ViewerJoin, GraceOver, ViewerModeration
    <2> DEFINE q == hostRoom[h]
               n == pending[v].name
    <2>2. h \in Sockets /\ v \in Sockets /\ q \in Rooms
      BY <2>1 DEF IInv, TypeOK, ViewerApproval, Sockets
    <2>3. approved' = [approved EXCEPT ![q] = @ \cup {n}] /\ Attach(v, q, n)
      BY <1>1, <2>1 DEF ViewerApproval
    <2> HIDE DEF q, n
    <2>4. session' = [session EXCEPT ![v] = [room |-> q, name |-> n]]
      BY <2>3 DEF Attach
    <2>5. s = v /\ session'[s] = [room |-> q, name |-> n]
      BY <1>1, <2>2, <2>4 DEF IInv, TypeOK
    <2>6. r = q /\ session'[s].name = n
      BY <2>5 DEF In
    <2> QED BY <2>2, <2>3, <2>6 DEF IInv, TypeOK
  <1>3. CASE Answers
    <2> DEFINE c == commands[1]
    <2>1. JoinAnswered
      <3>1. CASE RemoveHostedRoom
        BY <1>1, <3>1 DEF IInv, TypeOK, RemoveHostedRoom, CloseSessions
      <3> QED BY <1>1, <1>3, <3>1 DEF Answers, RoomCreated, AttachHost, BindHost,
              ListRoomsOfHost, DeleteRooms
    <2>2. c \in Commands /\ c.op = "join"
      BY <2>1 DEF JoinAnswered, IInv, TypeOK
    <2>3. c.room \in Rooms /\ c.name \in Names /\ c.socket \in Sockets
      BY <2>2, CommandLemma
    <2>4. ~NeedsApproval(c.room, c.name) /\ Attach(c.socket, c.room, c.name) /\ UNCHANGED approved
      BY <1>1, <2>1 DEF JoinAnswered
    <2> HIDE DEF c
    <2>5. session' = [session EXCEPT ![c.socket] = [room |-> c.room, name |-> c.name]]
      BY <2>4 DEF Attach
    <2>6. s = c.socket /\ session'[s] = [room |-> c.room, name |-> c.name]
      BY <1>1, <2>3, <2>5 DEF IInv, TypeOK
    <2>7. r = c.room /\ session'[s].name = c.name
      BY <2>6 DEF In
    <2> QED BY <2>4, <2>7 DEF NeedsApproval
  <1> QED BY <1>2, <1>3 DEF Next

\* In a room with admission on request nobody becomes a viewer unapproved
\* (handleViewerJoin, handleViewerApproval), whatever changes at their awaits.
THEOREM ApprovalIsNeeded == Spec => ApprovalNeeded
  <1>1. IInv /\ [Next]_vars =>
          [\A s \in Viewers, r \in Rooms :
             In(session'[s], r) /\ ~In(session[s], r)
                /\ registry[r] # None /\ registry[r].mode = "request"
             => session'[s].name \in approved'[r]]_vars
    BY SeatNeedsApproval
  <1> QED BY <1>1, Inductive, PTL DEF Spec, ApprovalNeeded

(***************************************************************************)
(* The memory registry.                                                    *)
(***************************************************************************)
\* A handler finds no command in flight, and leaves at most its own.
LEMMA SentAlone ==
    ASSUME TypeOK, commands = <<>>, NEW c \in Commands, Send(c)
    PROVE  Len(commands') = 1 /\ commands'[1] = c
  BY SendLemma DEF TypeOK

LEMMA TakenAlone ==
    ASSUME TypeOK, commands # <<>>, Len(commands) <= 1
    PROVE  /\ Over => commands' = <<>>
           /\ \A c \in Commands : Then(c) => Len(commands') = 1 /\ commands'[1] = c
  <1>1. ASSUME Over PROVE commands' = <<>>
    BY <1>1, OverLemma DEF TypeOK
  <1>2. ASSUME NEW c \in Commands, Then(c) PROVE Len(commands') = 1 /\ commands'[1] = c
    <2>1. Len(commands) = 1
      <3>1. Len(commands) \in Nat
        BY DEF TypeOK
      <3>2. 1 \in 1..Len(commands)
        BY <1>2, ThenLemma
      <3> QED BY <3>1, <3>2
    <2>2. Len(commands') = 1 /\ 1 \in 1..Len(commands') /\ ~(1 + 1 \in 1..Len(commands))
      BY <1>2, <2>1, ThenLemma
    <2> QED BY <1>2, <2>2, ThenLemma
  <1> QED BY <1>1, <1>2

\* who is counted against the capacity of a room
Viewing(r) == {s \in members[r] : hostRoom[s] # r}

\* A room that is not full has a place left, though what is compared with the
\* capacity is the membership less one.
LEMMA PlaceLeft ==
    ASSUME TypeOK, Roles, IsFiniteSet(conn), EntryIsBound, NEW r \in Rooms, ~Full(r)
    PROVE  IsFiniteSet(Viewing(r)) /\ Cardinality(Viewing(r)) + 1 <= Capacity
  <1>1. IsFiniteSet(members[r]) /\ Cardinality(members[r]) \in Nat
    BY FS_Subset, FS_CardinalityType DEF Roles
  <1>2. CASE active[r] # None
    <2>1. active[r] \in members[r] /\ Viewing(r) \subseteq members[r] \ {active[r]}
      BY <1>2 DEF EntryIsBound, Viewing
    <2>2. /\ IsFiniteSet(members[r] \ {active[r]})
          /\ Cardinality(members[r] \ {active[r]}) = Cardinality(members[r]) - 1
      BY <1>1, <2>1, FS_RemoveElement
    <2>3. /\ IsFiniteSet(Viewing(r)) /\ Cardinality(Viewing(r)) \in Nat
          /\ Cardinality(Viewing(r)) <= Cardinality(members[r] \ {active[r]})
      BY <2>1, <2>2, FS_Subset, FS_CardinalityType
    <2>4. ~(Cardinality(members[r]) - 1 >= Capacity)
      BY <1>2, <2>1 DEF Full, Connected
    <2> QED BY <1>1, <2>2, <2>3, <2>4, CapacityAssumption
  <1>3. CASE active[r] = None
    <2>1. Viewing(r) \subseteq members[r]
      BY DEF Viewing
    <2>2. /\ IsFiniteSet(Viewing(r)) /\ Cardinality(Viewing(r)) \in Nat
          /\ Cardinality(Viewing(r)) <= Cardinality(members[r])
      BY <1>1, <2>1, FS_Subset, FS_CardinalityType
    <2>3. ~(Cardinality(members[r]) >= Capacity)
      BY <1>3 DEF Full, Connected
    <2> QED BY <1>1, <2>2, <2>3, CapacityAssumption
  <1> QED BY <1>2, <1>3

\* A step that lets nobody in keeps within the capacity.
LEMMA CapacityShrinks ==
    ASSUME TypeOK, Roles, IsFiniteSet(conn), CapacityKept,
           \A r \in Rooms : Viewing(r)' \subseteq Viewing(r)
    PROVE  CapacityKept'
  <1> SUFFICES ASSUME NEW r \in Rooms PROVE Cardinality(Viewing(r)') <= Capacity
    BY DEF CapacityKept, Viewing
  <1>1. IsFiniteSet(members[r])
    BY FS_Subset DEF Roles
  <1>2. IsFiniteSet(Viewing(r)) /\ Cardinality(Viewing(r)) \in Nat
    BY <1>1, FS_Subset, FS_CardinalityType DEF Viewing
  <1>3. Cardinality(Viewing(r)') <= Cardinality(Viewing(r)) /\ Cardinality(Viewing(r)') \in Nat
    BY <1>2, FS_Subset, FS_CardinalityType
  <1>4. Cardinality(Viewing(r)) <= Capacity
    BY DEF CapacityKept, Viewing
  <1> QED BY <1>2, <1>3, <1>4, CapacityAssumption

\* A step that lets one viewer into a room that is not full keeps within it.
LEMMA CapacityAfterAttach ==
    ASSUME TypeOK, Roles, IsFiniteSet(conn), EntryIsBound, CapacityKept,
           NEW s \in Viewers, NEW r \in Rooms, NEW n \in Names,
           ~Full(r), Attach(s, r, n), UNCHANGED hostRoom
    PROVE  CapacityKept'
  <1> SUFFICES ASSUME NEW q \in Rooms PROVE Cardinality(Viewing(q)') <= Capacity
    BY DEF CapacityKept, Viewing
  <1>1. members'[q] = IF q = r /\ s \in conn THEN members[q] \cup {s} ELSE members[q]
    BY DEF TypeOK, Attach, JoinRoom
  <1>2. CASE q = r
    <2>1. Viewing(r)' \subseteq Viewing(r) \cup {s}
      BY <1>1, <1>2 DEF Viewing
    <2>2. IsFiniteSet(Viewing(r)) /\ Cardinality(Viewing(r)) + 1 <= Capacity
      BY PlaceLeft
    <2>3. /\ IsFiniteSet(Viewing(r) \cup {s})
          /\ Cardinality(Viewing(r) \cup {s}) <= Cardinality(Viewing(r)) + 1
          /\ Cardinality(Viewing(r) \cup {s}) \in Nat
          /\ Cardinality(Viewing(r)) \in Nat
      <3>1. Cardinality(Viewing(r)) \in Nat
        BY <2>2, FS_CardinalityType
      <3>2. /\ IsFiniteSet(Viewing(r) \cup {s})
            /\ Cardinality(Viewing(r) \cup {s})
                 = IF s \in Viewing(r) THEN Cardinality(Viewing(r)) ELSE Cardinality(Viewing(r)) + 1
        BY <2>2, FS_AddElement
      <3> QED BY <3>1, <3>2
    <2>4. /\ Cardinality(Viewing(r)') <= Cardinality(Viewing(r) \cup {s})
          /\ Cardinality(Viewing(r)') \in Nat
      BY <2>1, <2>3, FS_Subset, FS_CardinalityType
    <2> QED BY <1>2, <2>2, <2>3, <2>4, CapacityAssumption
  <1>3. CASE q # r
    <2>1. Viewing(q)' = Viewing(q)
      BY <1>1, <1>3 DEF Viewing
    <2> QED BY <2>1 DEF CapacityKept, Viewing
  <1> QED BY <1>2, <1>3

\* What a step that moves no host keeps.
LEMMA HostsUnmoved ==
    ASSUME MemoryInv, UNCHANGED <<registry, active, hostRoom, graceTimer, conn>>,
           \A r \in Rooms : active[r] # None => active[r] \in members'[r]
    PROVE  IsFiniteSet(conn)' /\ EntryIsBound' /\ HostsOfRecord' /\ BoundIsActive'
  <1>1. EntryIsBound'
    BY DEF MemoryInv, EntryIsBound
  <1>2. HostsOfRecord'
    BY DEF MemoryInv, HostsOfRecord, RegisteredTo
  <1> QED BY <1>1, <1>2 DEF MemoryInv, BoundIsActive

\* What a step that seats nobody keeps.
LEMMA NobodyEnters ==
    ASSUME MemoryInv,
           \A s \in Sockets : /\ session'[s] = session[s] \/ session'[s] = None
                              /\ pending'[s] = pending[s] \/ pending'[s] = None,
           \A r \in Rooms : approved'[r] \subseteq approved[r]
                            /\ (blocked'[r] \subseteq blocked[r] \/ ~NobodySeated(r))
    PROVE  \A r \in Rooms : NobodySeated(r) => NobodySeated(r)'
  BY DEF NobodySeated, In

\* Handlers, which find the queue empty.
LEMMA HandlersMemory ==
    ASSUME ~Redis, MemoryInv, Handlers
    PROVE  MemoryInv'
  <1> USE DEF hostVars, nameVars
  <1>i. IInv' /\ TypeOK /\ Roles /\ OneRoom /\ TypeOK' /\ Roles'
    BY HandlersInv DEF MemoryInv, IInv
  <1>q. commands = <<>>
    BY DEF Handlers, Connect, Disconnect, CreateRoom, HostRoomCreate, ViewerJoin, GraceOver,
           ViewerApproval, ViewerModeration, Quiescent
  <1>c. ASSUME UNCHANGED <<members, hostRoom>> PROVE CapacityKept'
    BY <1>c DEF MemoryInv, CapacityKept
  <1>1. ASSUME NEW s \in Sockets, Connect(s) PROVE MemoryInv'
    <2>1. IsFiniteSet(conn)'
      BY <1>1, FS_AddElement DEF Connect, MemoryInv
    <2>2. QueueFits'
      BY <1>1, <1>q DEF Connect, MemoryInv, QueueFits
    <2>3. EntryIsBound' /\ BoundIsActive'
      BY <1>1 DEF Connect, MemoryInv, EntryIsBound, BoundIsActive
    <2>4. HostsOfRecord'
      BY <1>1 DEF Connect, Forgotten, MemoryInv, HostsOfRecord, RegisteredTo
    <2>5. UnstoredIsEmpty'
      BY <1>1 DEF Connect, MemoryInv, UnstoredIsEmpty, NobodySeated
    <2>6. CapacityKept'
      BY <1>1, <1>c DEF Connect
    <2> QED BY <1>i, <2>1, <2>2, <2>3, <2>4, <2>5, <2>6 DEF MemoryInv
  <1>2. ASSUME NEW s \in Sockets, NEW explicit \in BOOLEAN, Disconnect(s, explicit)
        PROVE  MemoryInv'
    <2> DEFINE r == hostRoom[s]
               c == [op |-> "remove", socket |-> s, room |-> r]
    <2>1. /\ conn' = conn \ {s}
          /\ members' = [q \in Rooms |-> members[q] \ {s}]
          /\ pending' = [pending EXCEPT ![s] = None]
          /\ hostRoom' = [hostRoom EXCEPT ![s] = None]
          /\ session' = [session EXCEPT ![s] = None]
          /\ UNCHANGED <<registry, approved, blocked>>
      BY <1>2 DEF Disconnect
    <2>2. ASSUME r = None
          PROVE  EntryIsBound' /\ HostsOfRecord' /\ QueueFits' /\ BoundIsActive'
      <3>1. UNCHANGED <<active, graceTimer, commands>>
        BY <1>2, <2>2 DEF Disconnect
      <3>2. \A q \in Rooms : active[q] # s
        BY <2>2, RoomsAssumption, RolesAssumption DEF MemoryInv, EntryIsBound, Sockets
      <3>3. EntryIsBound'
        BY <1>i, <2>1, <3>1, <3>2 DEF MemoryInv, EntryIsBound, TypeOK
      <3>4. HostsOfRecord'
        BY <1>i, <2>1, <3>1 DEF MemoryInv, HostsOfRecord, RegisteredTo, TypeOK
      <3>5. QueueFits'
        BY <1>q, <3>1 DEF MemoryInv, QueueFits
      <3>6. BoundIsActive'
        BY <1>i, <2>1, <3>1 DEF MemoryInv, BoundIsActive, TypeOK
      <3> QED BY <3>3, <3>4, <3>5, <3>6
    <2>3. ASSUME r # None
          PROVE  EntryIsBound' /\ HostsOfRecord' /\ QueueFits' /\ BoundIsActive'
      <3>0. r \in Rooms
        BY <1>i, <2>3 DEF TypeOK
      <3>1. /\ active' = [active EXCEPT ![r] = None]
            /\ graceTimer' = [graceTimer EXCEPT ![r] = IF explicit THEN None ELSE s]
            /\ Send(c) \/ UNCHANGED commands
        BY <1>2, <2>3 DEF Disconnect, HostLeft
      <3>2. \A q \in Rooms : active[q] = s => q = r
        BY RolesAssumption DEF MemoryInv, EntryIsBound, Sockets
      <3>3. EntryIsBound'
        BY <1>i, <2>1, <3>0, <3>1, <3>2 DEF MemoryInv, EntryIsBound, TypeOK
      <3>4. HostsOfRecord'
        <4>1. \A q \in Rooms : graceTimer'[q] \notin conn'
          BY <1>i, <2>1, <3>0, <3>1, RolesAssumption DEF MemoryInv, HostsOfRecord, TypeOK, Sockets
        <4> QED BY <1>i, <2>1, <4>1 DEF MemoryInv, HostsOfRecord, RegisteredTo, TypeOK
      <3>5. QueueFits'
        <4>1. CASE UNCHANGED commands
          BY <1>q, <4>1 DEF QueueFits, MemoryInv
        <4>2. CASE Send(c)
          <5>1. c \in Commands
            BY <3>0 DEF Commands
          <5>2. Len(commands') = 1 /\ commands'[1] = c
            BY <1>i, <1>q, <4>2, <5>1, SentAlone
          <5> QED BY <2>1, <5>2 DEF QueueFits, AnswerFits
        <4> QED BY <3>1, <4>1, <4>2
      <3>6. BoundIsActive'
        BY <1>i, <2>1, <3>0, <3>1 DEF MemoryInv, BoundIsActive, TypeOK
      <3> QED BY <3>3, <3>4, <3>5, <3>6
    <2>4. UnstoredIsEmpty'
      <3>1. \A q \in Rooms : NobodySeated(q) => NobodySeated(q)'
        BY <1>i, <2>1, NobodyEnters DEF TypeOK
      <3> QED BY <2>1, <3>1 DEF MemoryInv, UnstoredIsEmpty
    <2>5. CapacityKept'
      <3>1. \A q \in Rooms : Viewing(q)' \subseteq Viewing(q)
        BY <1>i, <2>1 DEF Viewing, TypeOK
      <3> QED BY <1>i, <3>1, CapacityShrinks DEF MemoryInv
    <2>6. IsFiniteSet(conn)'
      BY <2>1, FS_RemoveElement DEF MemoryInv
    <2> QED BY <1>i, <2>2, <2>3, <2>4, <2>5, <2>6 DEF MemoryInv
  <1>a. ASSUME UNCHANGED <<registry, active, hostRoom, graceTimer, conn, pending, session,
                           approved, blocked, members>>,
               NEW c \in Commands, Send(c), AnswerFits(c)
        PROVE  MemoryInv'
    <2>1. IsFiniteSet(conn)' /\ EntryIsBound' /\ HostsOfRecord' /\ BoundIsActive'
      BY <1>a, HostsUnmoved DEF MemoryInv, EntryIsBound
    <2>2. Len(commands') = 1 /\ commands'[1] = c
      BY <1>a, <1>i, <1>q, SentAlone
    <2>3. AnswerFits(c)'
      BY <1>a DEF AnswerFits, NobodySeated, RegisteredTo
    <2>4. UnstoredIsEmpty'
      BY <1>a DEF MemoryInv, UnstoredIsEmpty, NobodySeated
    <2> QED BY <1>a, <1>c, <1>i, <2>1, <2>2, <2>3, <2>4 DEF MemoryInv, QueueFits
  <1>3. ASSUME NEW r \in Rooms, NEW mode \in Modes \cup {None}, CreateRoom(r, mode)
        PROVE  MemoryInv'
    <2> DEFINE c == [op |-> "create", room |-> r, mode |-> mode]
    <2>1. c \in Commands /\ AnswerFits(c)
      BY DEF Commands, AnswerFits
    <2> QED BY <1>3, <1>a, <2>1 DEF CreateRoom
  <1>4. ASSUME NEW r \in Rooms, NEW s \in Hosts, HostRoomCreate(s, r) PROVE MemoryInv'
    <2> DEFINE c == [op |-> "attach", socket |-> s, room |-> r]
    <2>1. c \in Commands /\ AnswerFits(c)
      BY <1>4 DEF Commands, Sockets, AnswerFits, HostRoomCreate, Alone
    <2> QED BY <1>4, <1>a, <2>1 DEF HostRoomCreate
  <1>5. ASSUME NEW r \in Rooms, NEW s \in Viewers, NEW n \in Names, ViewerJoin(s, r, n)
        PROVE  MemoryInv'
    <2> DEFINE c == [op |-> "join", socket |-> s, room |-> r, name |-> n]
    <2>1. c \in Commands /\ AnswerFits(c)
      BY <1>5 DEF Commands, Sockets, AnswerFits, ViewerJoin
    <2> QED BY <1>5, <1>a, <2>1 DEF ViewerJoin
  <1>6. ASSUME NEW r \in Rooms, GraceOver(r) PROVE MemoryInv'
    <2> DEFINE c == [op |-> "remove", socket |-> graceTimer[r], room |-> r]
    <2>1. c \in Commands /\ c.socket \notin conn
      BY <1>6, <1>i DEF Commands, GraceOver, TypeOK, MemoryInv, HostsOfRecord
    <2>2. Send(c)
      BY <1>6 DEF GraceOver
    <2>3. c.op = "remove"
      OBVIOUS
    <2> HIDE DEF c
    <2>4. QueueFits'
      <3>1. Len(commands') = 1 /\ commands'[1] = c
        BY <1>i, <1>q, <2>1, <2>2, SentAlone
      <3> QED BY <1>6, <2>1, <2>3, <3>1 DEF QueueFits, AnswerFits, GraceOver
    <2>5. HostsOfRecord'
      BY <1>6, <1>i, RolesAssumption
         DEF GraceOver, MemoryInv, HostsOfRecord, RegisteredTo, TypeOK, Sockets
    <2>6. UnstoredIsEmpty' /\ EntryIsBound' /\ BoundIsActive' /\ IsFiniteSet(conn)'
      BY <1>6 DEF GraceOver, MemoryInv, UnstoredIsEmpty, NobodySeated, EntryIsBound, BoundIsActive
    <2> QED BY <1>6, <1>c, <1>i, <2>4, <2>5, <2>6 DEF MemoryInv, GraceOver
  <1>7. ASSUME NEW h \in Hosts, NEW s \in Viewers, NEW accepted \in BOOLEAN,
               ViewerApproval(h, s, accepted)
        PROVE  MemoryInv'
    <2> DEFINE r == hostRoom[h]
               n == pending[s].name
    <2>1. h \in Sockets /\ s \in Sockets /\ r \in Rooms /\ In(pending[s], r)
      BY <1>7, <1>i DEF ViewerApproval, TypeOK, Sockets
    <2>2. n \in Names /\ ~NobodySeated(r)
      BY <1>i, <2>1 DEF In, TypeOK, Seats, NobodySeated
    <2>3. /\ pending' = [pending EXCEPT ![s] = None]
          /\ UNCHANGED <<registry, commands, active, hostRoom, graceTimer, blocked, conn>>
      BY <1>7 DEF ViewerApproval
    <2>4. \/ /\ MayAdmit(r)
             /\ approved' = [approved EXCEPT ![r] = @ \cup {n}]
             /\ Attach(s, r, n)
          \/ UNCHANGED <<approved, session, members>>
      BY <1>7 DEF ViewerApproval
    <2> HIDE DEF r, n
    <2>5. QueueFits'
      BY <1>q, <2>3 DEF QueueFits, MemoryInv
    <2>6. CASE /\ MayAdmit(r)
               /\ approved' = [approved EXCEPT ![r] = @ \cup {n}]
               /\ Attach(s, r, n)
      <3>1. \A q \in Rooms : members[q] \subseteq members'[q]
        BY <1>i, <2>6 DEF Attach, JoinRoom, TypeOK
      <3>2. IsFiniteSet(conn)' /\ EntryIsBound' /\ HostsOfRecord' /\ BoundIsActive'
        BY <2>3, <3>1, HostsUnmoved DEF MemoryInv, EntryIsBound
      <3>3. UnstoredIsEmpty'
        <4> SUFFICES ASSUME NEW q \in Rooms, registry'[q] = None PROVE NobodySeated(q)'
          BY DEF UnstoredIsEmpty
        <4>1. NobodySeated(q) /\ q # r
          BY <2>2, <2>3 DEF MemoryInv, UnstoredIsEmpty
        <4>2. approved'[q] = {} /\ blocked'[q] = {}
          BY <1>i, <2>1, <2>3, <2>6, <4>1 DEF NobodySeated, TypeOK
        <4>3. ASSUME NEW t \in Sockets PROVE ~In(session'[t], q) /\ ~In(pending'[t], q)
          BY <1>i, <2>1, <2>3, <2>6, <4>1 DEF NobodySeated, TypeOK, In, Attach
        <4> QED BY <4>2, <4>3 DEF NobodySeated, In
      <3>4. CapacityKept'
        BY <1>i, <2>1, <2>2, <2>3, <2>6, CapacityAfterAttach DEF MemoryInv, MayAdmit
      <3> QED BY <1>i, <2>5, <3>2, <3>3, <3>4 DEF MemoryInv
    <2>7. CASE UNCHANGED <<approved, session, members>>
      <3>1. IsFiniteSet(conn)' /\ EntryIsBound' /\ HostsOfRecord' /\ BoundIsActive'
        BY <2>3, <2>7, HostsUnmoved DEF MemoryInv, EntryIsBound
      <3>2. \A q \in Rooms : NobodySeated(q) => NobodySeated(q)'
        BY <1>i, <2>3, <2>7, NobodyEnters DEF TypeOK
      <3> QED BY <1>c, <1>i, <2>3, <2>5, <2>7, <3>1, <3>2 DEF MemoryInv, UnstoredIsEmpty
    <2> QED BY <2>4, <2>6, <2>7
  <1>8. ASSUME NEW h \in Hosts, NEW s \in Viewers, NEW action \in {"kick", "block"},
               ViewerModeration(h, s, action)
        PROVE  MemoryInv'
    <2> DEFINE r == hostRoom[h]
               n == session[s].name
    <2>1. h \in Sockets /\ s \in Sockets /\ r \in Rooms /\ In(session[s], r)
      BY <1>8, <1>i DEF ViewerModeration, TypeOK, Sockets
    <2>2. ~NobodySeated(r) /\ hostRoom[s] = None
      BY <1>i, <2>1, RolesAssumption DEF NobodySeated, Roles
    <2>3. /\ session' = [session EXCEPT ![s] = None]
          /\ members' = [members EXCEPT ![r] = @ \ {s}]
          /\ UNCHANGED <<registry, commands, active, hostRoom, graceTimer, pending, conn>>
      BY <1>8 DEF ViewerModeration
    <2>4. \A q \in Rooms : /\ approved'[q] \subseteq approved[q]
                           /\ (blocked'[q] \subseteq blocked[q] \/ ~NobodySeated(q))
      BY <1>8, <1>i, <2>1, <2>2 DEF ViewerModeration, TypeOK
    <2> HIDE DEF r, n
    <2>5. \A q \in Rooms : active[q] # None => active[q] \in members'[q]
      BY <1>i, <2>1, <2>2, <2>3, RoomsAssumption DEF MemoryInv, EntryIsBound, TypeOK
    <2>6. IsFiniteSet(conn)' /\ EntryIsBound' /\ HostsOfRecord' /\ BoundIsActive'
      BY <2>3, <2>5, HostsUnmoved
    <2>7. \A q \in Rooms : NobodySeated(q) => NobodySeated(q)'
      BY <1>i, <2>3, <2>4, NobodyEnters DEF TypeOK
    <2>8. CapacityKept'
      <3>1. \A q \in Rooms : Viewing(q)' \subseteq Viewing(q)
        BY <1>i, <2>1, <2>3 DEF Viewing, TypeOK
      <3> QED BY <1>i, <3>1, CapacityShrinks DEF MemoryInv
    <2> QED BY <1>q, <1>i, <2>3, <2>6, <2>7, <2>8 DEF MemoryInv, UnstoredIsEmpty, QueueFits
  <1> QED BY <1>1, <1>2, <1>3, <1>4, <1>5, <1>6, <1>7, <1>8 DEF Handlers

\* Answers, which find what AnswerFits says.
LEMMA AnswersMemory ==
    ASSUME MemoryInv, Answers
    PROVE  MemoryInv'
  <1> USE DEF hostVars, nameVars, Answered
  <1>i. IInv' /\ IInv /\ TypeOK /\ Roles /\ OneRoom /\ TypeOK' /\ Roles'
    BY AnswersInv DEF MemoryInv, IInv
  <1> DEFINE c == commands[1]
  <1>0. commands # <<>> /\ c \in Commands /\ 1 \in 1..Len(commands) /\ Len(commands) <= 1
    BY <1>i DEF Answers, RoomCreated, AttachHost, BindHost, JoinAnswered, RemoveHostedRoom,
           ListRoomsOfHost, DeleteRooms, TypeOK, MemoryInv, QueueFits
  <1>c. /\ c.room \in Rooms
        /\ c.op # "create" => c.socket \in Sockets
        /\ c.op = "join" => c.name \in Names
        /\ c.op = "create" => c.mode \in Modes \cup {None}
        /\ c.op = "bind" => c.mode \in Modes
        /\ c.op \in {"bind", "join"} => Uses(c.socket, c.room)
        /\ RightRole(c)
    BY <1>i, <1>0, CommandLemma DEF Uses, Asked, Enters, Roles
  <1>f. AnswerFits(c)
    BY <1>0 DEF MemoryInv, QueueFits
  <1>o. Over => QueueFits'
    BY <1>i, <1>0, TakenAlone DEF QueueFits
  <1>u. ASSUME NEW d \in Commands, Then(d), AnswerFits(d)' PROVE QueueFits'
    BY <1>i, <1>0, <1>u, TakenAlone DEF QueueFits
  <1>n. None \notin Sockets /\ None \notin Records
    BY RolesAssumption, SeatsAssumption DEF Sockets
  <1> HIDE DEF c
  <1>1. CASE RoomCreated
    <2> DEFINE new == [host |-> None, mode |-> IF c.mode = None THEN "open" ELSE c.mode]
    <2>1. /\ registry' = [registry EXCEPT ![c.room] = new]
          /\ UNCHANGED <<active, hostRoom, graceTimer, pending, session, approved, blocked,
                         members, conn>>
      BY <1>1 DEF RoomCreated, c
    <2>2. registry'[c.room] = new /\ new.host = None
      BY <1>i, <1>c, <2>1 DEF TypeOK
    <2>3. new # None
      BY <1>1, <1>c, <1>n DEF RoomCreated, Records, Modes, c
    <2> HIDE DEF new
    <2>4. \A s \in Sockets, q \in Rooms : RegisteredTo(s, q)' => RegisteredTo(s, q)
      BY <1>i, <1>n, <2>1, <2>2 DEF RegisteredTo, TypeOK
    <2>5. HostsOfRecord'
      BY <1>i, <2>1, <2>4 DEF MemoryInv, HostsOfRecord, TypeOK
    <2>6. UnstoredIsEmpty'
      BY <1>i, <2>1, <2>2, <2>3 DEF MemoryInv, UnstoredIsEmpty, NobodySeated, TypeOK
    <2>7. EntryIsBound' /\ BoundIsActive' /\ CapacityKept' /\ IsFiniteSet(conn)'
      BY <2>1 DEF MemoryInv, EntryIsBound, BoundIsActive, CapacityKept
    <2> QED BY <1>1, <1>i, <1>o, <2>5, <2>6, <2>7 DEF MemoryInv, RoomCreated
  <1>2. CASE AttachHost
    <2>1. UNCHANGED <<registry, active, hostRoom, graceTimer, pending, session, approved, blocked,
                      members, conn>>
      BY <1>2 DEF AttachHost
    <2>2. QueueFits'
      <3>1. CASE registry[c.room] = None
        BY <1>2, <1>o, <3>1 DEF AttachHost, c
      <3>2. CASE registry[c.room] # None
        <4> DEFINE b == [op |-> "bind", socket |-> c.socket, room |-> c.room,
                         mode |-> registry[c.room].mode]
        <4>1. b \in Commands /\ Then(b)
          BY <1>2, <3>2, <1>c, <1>i DEF AttachHost, TypeOK, Records, Commands, c
        <4>2. PICK d \in Commands : d = b /\ Then(d)
          BY <4>1
        <4>3. d.op = "bind" /\ d.socket = c.socket /\ d.room = c.room
          BY <4>2
        <4>4. AnswerFits(d)'
          BY <1>2, <1>f, <2>1, <4>3 DEF AttachHost, AnswerFits, c
        <4> QED BY <1>u, <4>2, <4>4
      <3> QED BY <3>1, <3>2
    <2>3. EntryIsBound' /\ HostsOfRecord' /\ BoundIsActive' /\ IsFiniteSet(conn)'
      BY <2>1, HostsUnmoved DEF MemoryInv, EntryIsBound
    <2>4. UnstoredIsEmpty' /\ CapacityKept'
      BY <2>1 DEF MemoryInv, UnstoredIsEmpty, NobodySeated, CapacityKept
    <2> QED BY <1>i, <2>2, <2>3, <2>4 DEF MemoryInv
  <1>3. CASE BindHost
    <2> DEFINE s == c.socket
               r == c.room
               record == [host |-> s, mode |-> c.mode]
    <2>1. s \in Sockets /\ r \in Rooms /\ Uses(s, r) /\ s \in conn
      BY <1>3, <1>c, <1>f DEF BindHost, AnswerFits, c
    <2>2. /\ registry' = [registry EXCEPT ![r] = record]
          /\ graceTimer' = [graceTimer EXCEPT ![r] = None]
          /\ hostRoom' = [hostRoom EXCEPT ![s] = r]
          /\ active' = [active EXCEPT ![r] = s]
          /\ JoinRoom(s, r)
          /\ UNCHANGED <<pending, session, approved, blocked, conn>>
      BY <1>3 DEF BindHost, c
    <2>3. ~LateDisconnects => \A h \in conn \ {s} : hostRoom[h] # r
      BY <1>3, <1>f DEF BindHost, AnswerFits, c
    <2>4. registry'[r] = record /\ record.host = s
      BY <1>i, <2>1, <2>2 DEF TypeOK
    <2>5. record # None
      BY <1>3, <1>c, <1>n, <2>1 DEF BindHost, Records, c
    <2> HIDE DEF s, r, record
    <2>6. members' = [members EXCEPT ![r] = @ \cup {s}]
      BY <2>1, <2>2 DEF JoinRoom
    <2>7. \A q \in Rooms : hostRoom[s] = q \/ s \in members[q] => q = r
      BY <1>i, <2>1, MembersUse DEF OneRoom, Uses
    <2>8. EntryIsBound'
      BY <1>i, <2>1, <2>2, <2>6, <2>7 DEF MemoryInv, EntryIsBound, TypeOK
    <2>9. HostsOfRecord'
      <3>1. \A t \in Sockets, q \in Rooms : RegisteredTo(t, q)' <=>
               IF q = r THEN t = s ELSE RegisteredTo(t, q)
        BY <1>i, <2>1, <2>2, <2>4, <2>5 DEF RegisteredTo, TypeOK
      <3>2. \A q \in Rooms : RegisteredTo(s, q) => q = r
        BY <2>1, <2>7 DEF MemoryInv, HostsOfRecord
      <3>3. \A t \in conn', q \in Rooms : RegisteredTo(t, q)' => hostRoom'[t] = q
        BY <1>i, <2>1, <2>2, <3>1, <3>2 DEF MemoryInv, HostsOfRecord, TypeOK
      <3>4. \A t \in Sockets, p, q \in Rooms :
               RegisteredTo(t, p)' /\ RegisteredTo(t, q)' => p = q
        BY <3>1, <3>2 DEF MemoryInv, HostsOfRecord
      <3>5. \A q \in Rooms : graceTimer'[q] \notin conn'
        BY <1>i, <1>n, <2>1, <2>2 DEF MemoryInv, HostsOfRecord, TypeOK
      <3>6. \A t \in Sockets : hostRoom'[t] # None => t \in conn'
        BY <1>i, <2>1, <2>2 DEF MemoryInv, HostsOfRecord, TypeOK
      <3> QED BY <3>3, <3>4, <3>5, <3>6 DEF HostsOfRecord, RegisteredTo
    <2>10. UnstoredIsEmpty'
      BY <1>i, <2>1, <2>2, <2>4, <2>5 DEF MemoryInv, UnstoredIsEmpty, NobodySeated, TypeOK
    <2>11. BoundIsActive'
      <3> SUFFICES ASSUME ~LateDisconnects, NEW t \in Sockets, hostRoom'[t] # None
                   PROVE  active'[hostRoom'[t]] = t
        BY DEF BoundIsActive
      <3>1. CASE t = s
        BY <1>i, <2>1, <2>2, <3>1 DEF TypeOK
      <3>2. CASE t # s
        <4>1. hostRoom'[t] = hostRoom[t] /\ hostRoom[t] \in Rooms
          BY <1>i, <2>2, <3>2 DEF TypeOK
        <4>2. t \in conn /\ active[hostRoom[t]] = t
          BY <4>1 DEF MemoryInv, HostsOfRecord, BoundIsActive
        <4>3. hostRoom[t] # r
          BY <2>3, <3>2, <4>2
        <4> QED BY <1>i, <2>2, <4>1, <4>2, <4>3 DEF TypeOK
      <3> QED BY <3>1, <3>2
    <2>12. CapacityKept'
      <3>1. \A q \in Rooms : Viewing(q)' \subseteq Viewing(q)
        BY <1>i, <2>1, <2>2, <2>6, <2>7 DEF Viewing, TypeOK
      <3> QED BY <1>i, <3>1, CapacityShrinks DEF MemoryInv
    <2>13. IsFiniteSet(conn)' /\ QueueFits'
      BY <1>3, <1>o, <2>2 DEF MemoryInv, BindHost
    <2> QED BY <1>i, <2>8, <2>9, <2>10, <2>11, <2>12, <2>13 DEF MemoryInv
  <1>4. CASE JoinAnswered
    <2> DEFINE s == c.socket
               r == c.room
               n == c.name
    <2>1. s \in Sockets /\ r \in Rooms /\ n \in Names /\ s \in Viewers
      BY <1>4, <1>c DEF JoinAnswered, RightRole, c
    <2>2. UNCHANGED <<registry, active, hostRoom, graceTimer, approved, blocked, conn>>
      BY <1>4 DEF JoinAnswered
    <2>3. \/ UNCHANGED <<pending, session, members>>
          \/ /\ registry[r] # None
             /\ pending' = [pending EXCEPT ![s] = [room |-> r, name |-> n]]
             /\ UNCHANGED <<session, members>>
          \/ /\ registry[r] # None /\ ~Full(r)
             /\ Attach(s, r, n)
             /\ UNCHANGED pending
      BY <1>4 DEF JoinAnswered, c
    <2> HIDE DEF s, r, n
    <2>4. QueueFits'
      BY <1>4, <1>o DEF JoinAnswered
    <2>5. \A q \in Rooms : members[q] \subseteq members'[q]
      BY <1>i, <2>3 DEF Attach, JoinRoom, TypeOK
    <2>6. IsFiniteSet(conn)' /\ EntryIsBound' /\ HostsOfRecord' /\ BoundIsActive'
      BY <2>2, <2>5, HostsUnmoved DEF MemoryInv, EntryIsBound
    <2>7. UnstoredIsEmpty'
      <3> SUFFICES ASSUME NEW q \in Rooms, registry'[q] = None PROVE NobodySeated(q)'
        BY DEF UnstoredIsEmpty
      <3>1. NobodySeated(q)
        BY <2>2 DEF MemoryInv, UnstoredIsEmpty
      <3>2. CASE UNCHANGED <<pending, session, members>>
        BY <2>2, <3>1, <3>2 DEF NobodySeated
      <3>3. CASE registry[r] # None
        <4>1. q # r
          BY <2>2, <3>3
        <4>2. ASSUME NEW t \in Sockets PROVE ~In(session'[t], q) /\ ~In(pending'[t], q)
          BY <1>i, <2>1, <2>3, <3>1, <4>1 DEF NobodySeated, TypeOK, In, Attach
        <4> QED BY <2>2, <3>1, <4>2 DEF NobodySeated, In
      <3> QED BY <2>3, <3>2, <3>3
    <2>8. CapacityKept'
      <3>1. CASE ~Full(r) /\ Attach(s, r, n)
        BY <1>i, <2>1, <2>2, <3>1, CapacityAfterAttach DEF MemoryInv
      <3>2. CASE UNCHANGED members
        BY <2>2, <3>2 DEF MemoryInv, CapacityKept
      <3> QED BY <2>3, <3>1, <3>2
    <2> QED BY <1>i, <2>4, <2>6, <2>7, <2>8 DEF MemoryInv
  <1>5. CASE RemoveHostedRoom
    <2> DEFINE r == c.room
               l == [op |-> "list", socket |-> c.socket, room |-> c.room]
    <2>1. r \in Rooms /\ l \in Commands
      BY <1>5, <1>c DEF RemoveHostedRoom, Commands, c
    <2>2. UNCHANGED <<registry, active, hostRoom, graceTimer, conn>>
      BY <1>5 DEF RemoveHostedRoom
    <2>3. \/ RegisteredTo(c.socket, r) /\ CloseSessions(r) /\ Then(l)
          \/ Over /\ UNCHANGED <<pending, session, approved, blocked, members>>
      BY <1>5 DEF RemoveHostedRoom, RegisteredTo, c
    <2>4. c.socket \notin conn
      BY <1>5, <1>f DEF RemoveHostedRoom, AnswerFits, c
    <2>5. l.op = "list" /\ l.socket = c.socket /\ l.room = r
      OBVIOUS
    <2> HIDE DEF r, l
    <2>6. CASE RegisteredTo(c.socket, r) /\ CloseSessions(r) /\ Then(l)
      <3>1. PICK d \in Commands : d = l /\ Then(d)
        BY <2>1, <2>6
      <3>2. QueueFits'
        <4>1. d.op = "list" /\ d.socket = c.socket /\ d.room = r
          BY <2>5, <3>1
        <4>2. \A t \in Sockets : ~In(session'[t], d.room) /\ ~In(pending'[t], d.room)
          BY <1>i, <2>1, <2>6, <4>1 DEF CloseSessions, In, TypeOK
        <4>3. NobodySeated(d.room)'
          BY <1>i, <2>1, <2>6, <4>1, <4>2 DEF CloseSessions, NobodySeated, In, TypeOK
        <4>4. AnswerFits(d)'
          BY <2>2, <2>4, <2>6, <4>1, <4>3 DEF AnswerFits, RegisteredTo
        <4> QED BY <1>u, <3>1, <4>4
      <3>3. \A q \in Rooms : active[q] # None => active[q] \in members'[q]
        <4> SUFFICES ASSUME NEW q \in Rooms, active[q] # None PROVE active[q] \in members'[q]
          OBVIOUS
        <4>1. active[q] \in members[q] /\ active[q] \in Sockets /\ hostRoom[active[q]] = q
          BY <1>i DEF MemoryInv, EntryIsBound, TypeOK
        <4>2. session[active[q]] = None
          BY <1>i, <4>1, RolesAssumption, RoomsAssumption DEF Roles
        <4> QED BY <1>i, <2>1, <2>6, <4>1, <4>2 DEF CloseSessions, In, TypeOK
      <3>4. IsFiniteSet(conn)' /\ EntryIsBound' /\ HostsOfRecord' /\ BoundIsActive'
        BY <2>2, <3>3, HostsUnmoved
      <3>5. UnstoredIsEmpty'
        <4>1. \A q \in Rooms : NobodySeated(q) => NobodySeated(q)'
          BY <1>i, <2>1, <2>6, NobodyEnters DEF CloseSessions, TypeOK
        <4> QED BY <2>2, <4>1 DEF MemoryInv, UnstoredIsEmpty
      <3>6. CapacityKept'
        <4>1. \A q \in Rooms : Viewing(q)' \subseteq Viewing(q)
          BY <1>i, <2>1, <2>2, <2>6 DEF CloseSessions, Viewing, TypeOK
        <4> QED BY <1>i, <4>1, CapacityShrinks DEF MemoryInv
      <3> QED BY <1>i, <3>2, <3>4, <3>5, <3>6 DEF MemoryInv
    <2>7. CASE Over /\ UNCHANGED <<pending, session, approved, blocked, members>>
      <3>1. EntryIsBound' /\ HostsOfRecord' /\ BoundIsActive' /\ IsFiniteSet(conn)'
        BY <2>2, <2>7, HostsUnmoved DEF MemoryInv, EntryIsBound
      <3>2. UnstoredIsEmpty' /\ CapacityKept'
        BY <2>2, <2>7 DEF MemoryInv, UnstoredIsEmpty, NobodySeated, CapacityKept
      <3> QED BY <1>i, <1>o, <2>7, <3>1, <3>2 DEF MemoryInv
    <2> QED BY <2>3, <2>6, <2>7
  <1>6. CASE ListRoomsOfHost
    <2> DEFINE rooms == {r \in Rooms : registry[r] # None /\ registry[r].host = c.socket}
               d == [op |-> "delete", socket |-> c.socket, room |-> c.room, rooms |-> rooms]
    <2>1. d \in Commands /\ Then(d)
      BY <1>6, <1>c DEF ListRoomsOfHost, Commands, c
    <2>2. UNCHANGED <<registry, active, hostRoom, graceTimer, pending, session, approved, blocked,
                      members, conn>>
      BY <1>6 DEF ListRoomsOfHost
    <2>3. /\ c.socket \in Sockets /\ c.socket \notin conn
          /\ NobodySeated(c.room) /\ RegisteredTo(c.socket, c.room)
      BY <1>6, <1>c, <1>f DEF ListRoomsOfHost, AnswerFits, c
    <2>4. rooms = {c.room}
      BY <1>c, <2>3 DEF MemoryInv, HostsOfRecord, RegisteredTo
    <2>5. d.op = "delete" /\ d.socket = c.socket /\ d.room = c.room /\ d.rooms = {c.room}
      BY <2>4
    <2> HIDE DEF d, rooms
    <2>6. QueueFits'
      <3>1. PICK e \in Commands : e = d /\ Then(e)
        BY <2>1
      <3>2. AnswerFits(e)'
        BY <2>2, <2>3, <2>5, <3>1 DEF AnswerFits, NobodySeated, RegisteredTo
      <3> QED BY <1>u, <3>1, <3>2
    <2>7. EntryIsBound' /\ HostsOfRecord' /\ BoundIsActive' /\ IsFiniteSet(conn)'
      BY <2>2, HostsUnmoved DEF MemoryInv, EntryIsBound
    <2>8. UnstoredIsEmpty' /\ CapacityKept'
      BY <2>2 DEF MemoryInv, UnstoredIsEmpty, NobodySeated, CapacityKept
    <2> QED BY <1>i, <2>6, <2>7, <2>8 DEF MemoryInv
  <1>7. CASE DeleteRooms
    <2>1. NobodySeated(c.room) /\ c.rooms = {c.room}
      BY <1>7, <1>f DEF DeleteRooms, AnswerFits, c
    <2>2. /\ registry' = [r \in Rooms |-> IF r = c.room THEN None ELSE registry[r]]
          /\ UNCHANGED <<active, hostRoom, graceTimer, pending, session, approved, blocked,
                         members, conn>>
      BY <1>7, <2>1 DEF DeleteRooms, c
    <2>3. \A s \in Sockets, q \in Rooms : RegisteredTo(s, q)' => RegisteredTo(s, q)
      BY <2>2 DEF RegisteredTo
    <2>4. HostsOfRecord'
      BY <1>i, <2>2, <2>3 DEF MemoryInv, HostsOfRecord, TypeOK
    <2>5. UnstoredIsEmpty'
      BY <2>1, <2>2 DEF MemoryInv, UnstoredIsEmpty, NobodySeated
    <2>6. EntryIsBound' /\ BoundIsActive' /\ CapacityKept' /\ IsFiniteSet(conn)'
      BY <2>2 DEF MemoryInv, EntryIsBound, BoundIsActive, CapacityKept
    <2> QED BY <1>7, <1>i, <1>o, <2>4, <2>5, <2>6 DEF MemoryInv, DeleteRooms
  <1> QED BY <1>1, <1>2, <1>3, <1>4, <1>5, <1>6, <1>7 DEF Answers

LEMMA InitMemory == Init => MemoryInv
  <1> SUFFICES ASSUME Init PROVE MemoryInv
    OBVIOUS
  <1>1. IInv /\ TypeOK
    BY InitInv DEF IInv
  <1>2. IsFiniteSet(conn)
    BY FS_EmptySet DEF Init
  <1>3. QueueFits
    BY DEF Init, QueueFits
  <1>4. EntryIsBound /\ HostsOfRecord /\ BoundIsActive
    BY DEF Init, EntryIsBound, HostsOfRecord, RegisteredTo, BoundIsActive
  <1>5. UnstoredIsEmpty
    BY DEF Init, UnstoredIsEmpty, NobodySeated, In
  <1>6. CapacityKept
    <2>1. ASSUME NEW r \in Rooms PROVE {s \in members[r] : hostRoom[s] # r} = {}
      BY DEF Init
    <2> QED BY <2>1, FS_EmptySet, CapacityAssumption DEF CapacityKept
  <1> QED BY <1>1, <1>2, <1>3, <1>4, <1>5, <1>6 DEF MemoryInv

LEMMA StutterMemory == MemoryInv /\ UNCHANGED vars => MemoryInv'
  <1> SUFFICES ASSUME MemoryInv, UNCHANGED vars PROVE MemoryInv'
    OBVIOUS
  <1> USE DEF vars, hostVars, nameVars
  <1>1. IInv'
    BY StutterInv DEF MemoryInv
  <1>2. EntryIsBound' /\ HostsOfRecord' /\ BoundIsActive' /\ IsFiniteSet(conn)'
    BY HostsUnmoved DEF MemoryInv, EntryIsBound
  <1>3. QueueFits'
    BY DEF MemoryInv, QueueFits, AnswerFits, NobodySeated, RegisteredTo
  <1>4. UnstoredIsEmpty' /\ CapacityKept'
    BY DEF MemoryInv, UnstoredIsEmpty, NobodySeated, CapacityKept
  <1> QED BY <1>1, <1>2, <1>3, <1>4 DEF MemoryInv

\* MemoryInv holds over the memory registry, for every set of connections,
\* rooms and names and every capacity.
THEOREM MemoryInductive ==
    ASSUME ~Redis
    PROVE  Spec => []MemoryInv
  <1>1. MemoryInv /\ [Next]_vars => MemoryInv'
    BY HandlersMemory, AnswersMemory, StutterMemory DEF Next
  <1> QED BY InitMemory, <1>1, PTL DEF Spec

\* No room has more viewers than getRoomCapacity allows (handleViewerJoin,
\* handleViewerApproval), although a host is in the room that is counted.
THEOREM CapacityIsKept ==
    ASSUME ~Redis
    PROVE  Spec => []CapacityKept
  <1>1. MemoryInv => CapacityKept
    BY DEF MemoryInv
  <1> QED BY <1>1, MemoryInductive, PTL

\* A removed room leaves no viewers, requests or names (removeHostedRoom,
\* closeViewerSessions, removeHostSocket).
THEOREM ClosedIsEmpty ==
    ASSUME ~Redis
    PROVE  Spec => []ClosedRoomIsEmpty
  <1>1. MemoryInv => ClosedRoomIsEmpty
    BY DEF MemoryInv, UnstoredIsEmpty, NobodySeated, ClosedRoomIsEmpty, Sockets
  <1> QED BY <1>1, MemoryInductive, PTL

\* A host that is back and bound can publish, when the server has noticed the
\* end of its old connection before (handleHostRoomCreate, forwardMotion).
THEOREM BoundHostPublishes ==
    ASSUME ~Redis, ~LateDisconnects
    PROVE  Spec => []HostCanPublish
  <1>1. MemoryInv => HostCanPublish
    BY RoomsAssumption DEF MemoryInv, BoundIsActive, HostCanPublish, MayPublish, Sockets
  <1> QED BY <1>1, MemoryInductive, PTL

\* A step on the queue neither deletes the room of a connected host nor ends
\* the session of one of its viewers.
LEMMA LiveHostStep ==
    ASSUME ~Redis, MemoryInv, Next, NEW r \in Rooms,
           commands # <<>>, registry[r] # None, registry[r].host \in conn
    PROVE  /\ registry'[r] # None
           /\ \A s \in Viewers : In(session[s], r) => In(session'[s], r)
  <1> USE DEF hostVars, nameVars, Answered
  <1>i. TypeOK /\ OneRoom /\ commands[1] \in Commands /\ 1 \in 1..Len(commands)
    BY DEF MemoryInv, IInv, TypeOK
  <1>n. None \notin Records
    BY SeatsAssumption
  <1>v. Viewers \subseteq Sockets
    BY DEF Sockets
  <1>1. Answers
    BY DEF Next, Handlers, Connect, Disconnect, CreateRoom, HostRoomCreate, ViewerJoin, GraceOver,
           ViewerApproval, ViewerModeration, Quiescent
  <1> DEFINE c == commands[1]
  <1>c. /\ c.room \in Rooms /\ AnswerFits(c)
        /\ c.op # "create" => c.socket \in Sockets
        /\ c.op = "create" => c.mode \in Modes \cup {None}
        /\ c.op = "bind" => c.mode \in Modes
        /\ c.op = "join" => c.name \in Names /\ Uses(c.socket, c.room)
    BY <1>i, CommandLemma DEF Uses, Asked, Enters, MemoryInv, QueueFits
  <1> HIDE DEF c
  <1>2. CASE RoomCreated
    <2>1. [host |-> None, mode |-> IF c.mode = None THEN "open" ELSE c.mode] \in Records
      BY <1>2, <1>c DEF RoomCreated, Records, Modes, c
    <2> QED BY <1>2, <1>i, <1>n, <2>1 DEF RoomCreated, TypeOK, c
  <1>3. CASE AttachHost \/ ListRoomsOfHost
    BY <1>3 DEF AttachHost, ListRoomsOfHost
  <1>4. CASE BindHost
    <2>1. [host |-> c.socket, mode |-> c.mode] \in Records
      BY <1>4, <1>c DEF BindHost, Records, c
    <2> QED BY <1>4, <1>i, <1>n, <2>1 DEF BindHost, TypeOK, c
  <1>5. CASE JoinAnswered
    <2>1. registry' = registry
      BY <1>5 DEF JoinAnswered
    <2>2. c.socket \in Sockets /\ Uses(c.socket, c.room)
      BY <1>5, <1>c DEF JoinAnswered, c
    <2>3. session' = session \/ Attach(c.socket, c.room, c.name)
      BY <1>5 DEF JoinAnswered, c
    <2>4. [room |-> c.room, name |-> c.name] # None
      BY <1>5, <1>c, SeatsAssumption DEF JoinAnswered, Seats, c
    <2>5. ASSUME NEW s \in Viewers, In(session[s], r), Attach(c.socket, c.room, c.name)
          PROVE  In(session'[s], r)
      <3>1. CASE s = c.socket
        <4>1. c.room = r
          BY <1>i, <1>v, <1>c, <2>2, <2>5, <3>1 DEF OneRoom, Uses
        <4>2. session'[s] = [room |-> c.room, name |-> c.name]
          BY <1>i, <2>2, <2>5, <3>1 DEF Attach, TypeOK
        <4> QED BY <2>4, <4>1, <4>2 DEF In
      <3>2. CASE s # c.socket
        BY <1>i, <1>v, <2>5, <3>2 DEF Attach, TypeOK
      <3> QED BY <3>1, <3>2
    <2> QED BY <2>1, <2>3, <2>5
  <1>6. CASE RemoveHostedRoom
    <2>1. registry' = registry
      BY <1>6 DEF RemoveHostedRoom
    <2>2. c.socket \notin conn
      BY <1>6, <1>c DEF RemoveHostedRoom, AnswerFits, c
    <2>3. \/ registry[c.room].host = c.socket /\ CloseSessions(c.room)
          \/ session' = session
      BY <1>6 DEF RemoveHostedRoom, c
    <2>4. CASE registry[c.room].host = c.socket /\ CloseSessions(c.room)
      <3>1. r # c.room
        BY <2>2, <2>4
      <3>2. \A s \in Viewers : In(session[s], r) => ~In(session[s], c.room)
        BY <3>1 DEF In
      <3> QED BY <1>v, <2>1, <2>4, <3>2 DEF CloseSessions
    <2> QED BY <2>1, <2>3, <2>4
  <1>7. CASE DeleteRooms
    <2>1. c.rooms = {c.room} /\ registry[c.room].host \notin conn
      BY <1>7, <1>c DEF DeleteRooms, AnswerFits, RegisteredTo, c
    <2> QED BY <1>7, <2>1 DEF DeleteRooms, c
  <1> QED BY <1>1, <1>2, <1>3, <1>4, <1>5, <1>6, <1>7 DEF Answers

\* No late cleanup (finalizeHostCleanup, removeHostSocket) touches the room of a
\* host that is connected.
THEOREM LiveHostIsKept ==
    ASSUME ~Redis
    PROVE  Spec => LiveHostKeepsRoom
  <1>1. MemoryInv /\ [Next]_vars =>
          [\A r \in Rooms :
             commands # <<>> /\ registry[r] # None /\ registry[r].host \in conn =>
                 /\ registry'[r] # None
                 /\ \A s \in Viewers : In(session[s], r) => In(session'[s], r)]_vars
    BY LiveHostStep
  <1> QED BY <1>1, MemoryInductive, PTL DEF Spec, LiveHostKeepsRoom
=============================================================================
