--------------------------- MODULE RedisRegistry ---------------------------
(***************************************************************************)
(* The room registry in Redis (RedisRoomRegistry of server/src/room-       *)
(* registry.ts) as one or more relay servers share it: a record and an     *)
(* entry of the index for each room, records that expire, the choice of a  *)
(* node for a new room, and the tokens that the servers hand out.          *)
(*                                                                         *)
(* Every server has one connection.  Redis carries out the commands of a   *)
(* connection in the order they were sent, one at a time, between those of *)
(* the others; the answer's continuation is part of the command's step.    *)
(* Which sockets and viewers a room has is RelayServer's matter.           *)
(***************************************************************************)
EXTENDS Integers, Sequences, FiniteSets

LOCAL INSTANCE SequencesExt

CONSTANTS
    Processes,  \* relay servers
    RoomNames,
    Sockets,    \* host sockets
    Nodes,      \* the relay directory
    TokenTtl, RoomTtl,
    LastHour,   \* bound on time
    MaxPending  \* bound on the commands of a connection

ASSUME RegistryAssumption ==
    /\ Nodes # {} /\ TokenTtl \in Nat \ {0} /\ RoomTtl \in Nat \ {0}
    /\ LastHour \in Nat /\ MaxPending \in Nat

VARIABLES
    record,    \* haptic:room:<name>, or NoRecord
    index,     \* haptic:rooms
    underWay,      \* the commands of each connection
    hostToken, \* until when the latest host token of each room is valid
    hour

registryVars == <<record, index, underWay, hostToken, hour>>

NoRecord == [node |-> "none", host |-> "none", expires |-> -1]
Unbound  == "unbound"
Unissued    == -1

RoomRecord == [node : Nodes, host : Sockets \cup {Unbound}, expires : 0..LastHour + RoomTtl] \cup {NoRecord}
Purposes == [act : {"create"}, room : RoomNames] \cup [act : {"remove"}, host : Sockets]
RedisCommand ==
    [op : {"sMembers"}, to : Purposes] \cup [op : {"mGet"}, rooms : SUBSET RoomNames, to : Purposes]
    \cup [op : {"attach", "check"}, room : RoomNames, host : Sockets]
    \cup [op : {"set"}, room : RoomNames, node : Nodes, host : Sockets \cup {Unbound}]
    \cup [op : {"sAdd", "del", "sRem"}, room : RoomNames]

RegistryTypeOK ==
    /\ record \in [RoomNames -> RoomRecord] /\ index \subseteq RoomNames
    /\ underWay \in [Processes -> Seq(RedisCommand)]
    /\ hostToken \in [RoomNames -> Unissued..LastHour + TokenTtl] /\ hour \in 0..LastHour

RegistryInit ==
    /\ record = [r \in RoomNames |-> NoRecord] /\ index = {}
    /\ underWay = [p \in Processes |-> <<>>]
    /\ hostToken = [r \in RoomNames |-> Unissued] /\ hour = 0

Sends(p, commands) ==
    /\ Len(underWay[p]) + Len(commands) <= MaxPending
    /\ underWay' = [underWay EXCEPT ![p] = @ \o commands]

SendsNext(p, commands) == underWay' = [underWay EXCEPT ![p] = Tail(@) \o commands]

(***************************************************************************)
(* Requests.                                                               *)
(***************************************************************************)
\* POST /api/rooms: createRoom, which lists the rooms first.
PostRoom(p, r) ==
    /\ Sends(p, <<[op |-> "sMembers", to |-> [act |-> "create", room |-> r]]>>)
    /\ UNCHANGED <<record, index, hostToken, hour>>

\* verifyRelayToken
ValidToken(r) == hostToken[r] >= hour

\* room:create with a token that has not expired: attachHost.
BindSocket(p, r, h) ==
    /\ ValidToken(r)
    /\ Sends(p, <<[op |-> "attach", room |-> r, host |-> h]>>)
    /\ UNCHANGED <<record, index, hostToken, hour>>

\* removeHostedRoom: the grace period is over, or the host has left.
RemoveHosted(p, r, h) ==
    /\ Sends(p, <<[op |-> "check", room |-> r, host |-> h]>>)
    /\ UNCHANGED <<record, index, hostToken, hour>>

(***************************************************************************)
(* Commands.                                                               *)
(***************************************************************************)
\* Mutant: records expire after the first quarter of a room's time.
ExpirySoon == hour + RoomTtl \div 4

\* EX of saveRoom
Expiry == hour + RoomTtl

SaveRoom(r, n, h) ==
    <<[op |-> "set", room |-> r, node |-> n, host |-> h], [op |-> "sAdd", room |-> r]>>

DeleteRoom(r) == <<[op |-> "del", room |-> r], [op |-> "sRem", room |-> r]>>

DeleteRooms(rooms) == FlattenSeq(SetToSeq({DeleteRoom(r) : r \in rooms}))

Stored(rooms) == {r \in rooms : record[r] # NoRecord}

\* chooseNode: one with the fewest of the rooms that were read.
RoomsOn(n, rooms) == Cardinality({r \in rooms : record[r].node = n})
ChosenNodes(rooms) == {n \in Nodes : \A m \in Nodes : RoomsOn(n, rooms) <= RoomsOn(m, rooms)}

\* createRoom saves its record; removeHostSocket deletes those of the socket.
Values(p, rooms, purpose) ==
    /\ IF purpose.act = "create"
       THEN \E n \in ChosenNodes(Stored(rooms)) :
               SendsNext(p, SaveRoom(purpose.room, n, Unbound))
       ELSE SendsNext(p, DeleteRooms({r \in Stored(rooms) : record[r].host = purpose.host}))
    /\ UNCHANGED <<record, index, hostToken>>

\* listRooms asks for the records of the index, if it has any.
Members(p, purpose) ==
    IF index = {} THEN Values(p, {}, purpose)
    ELSE /\ SendsNext(p, <<[op |-> "mGet", rooms |-> index, to |-> purpose]>>)
         /\ UNCHANGED <<record, index, hostToken>>

\* attachHost writes back what it read, with the host.
Attach(p, r, h) ==
    /\ SendsNext(p, IF record[r] = NoRecord THEN <<>>
                    ELSE SaveRoom(r, record[r].node, h))
    /\ UNCHANGED <<record, index, hostToken>>

\* removeHostedRoom goes on if the room still names the socket.
Check(p, r, h) ==
    /\ SendsNext(p, IF record[r].host = h
                    THEN <<[op |-> "sMembers", to |-> [act |-> "remove", host |-> h]]>> ELSE <<>>)
    /\ UNCHANGED <<record, index, hostToken>>

\* createRelayToken: until when the token of an answer is valid
NewToken == hour + TokenTtl

\* A new record is answered with a host token for its room.
Set(p, r, n, h) ==
    /\ record' = [record EXCEPT ![r] = [node |-> n, host |-> h, expires |-> Expiry]]
    /\ hostToken' = IF h = Unbound THEN [hostToken EXCEPT ![r] = NewToken] ELSE hostToken
    /\ SendsNext(p, <<>>) /\ UNCHANGED index

Delete(p, r) ==
    /\ record' = [record EXCEPT ![r] = NoRecord]
    /\ SendsNext(p, <<>>) /\ UNCHANGED <<index, hostToken>>

Entry(p, r, listed) ==
    /\ index' = IF listed THEN index \cup {r} ELSE index \ {r}
    /\ SendsNext(p, <<>>) /\ UNCHANGED <<record, hostToken>>

RedisExecutes(p) ==
    /\ underWay[p] # <<>>
    /\ LET c == Head(underWay[p])
       IN  \/ c.op = "sMembers" /\ Members(p, c.to)
           \/ c.op = "mGet"     /\ Values(p, c.rooms, c.to)
           \/ c.op = "attach"   /\ Attach(p, c.room, c.host)
           \/ c.op = "check"    /\ Check(p, c.room, c.host)
           \/ c.op = "set"      /\ Set(p, c.room, c.node, c.host)
           \/ c.op = "del"      /\ Delete(p, c.room)
           \/ c.op \in {"sAdd", "sRem"} /\ Entry(p, c.room, c.op = "sAdd")
    /\ UNCHANGED hour

HourPasses ==
    /\ hour < LastHour /\ hour' = hour + 1
    /\ record' = [r \in RoomNames |-> IF record[r].expires <= hour' THEN NoRecord ELSE record[r]]
    /\ UNCHANGED <<index, underWay, hostToken>>

RegistryNext ==
    \/ HourPasses
    \/ \E p \in Processes :
          \/ RedisExecutes(p)
          \/ \E r \in RoomNames :
                PostRoom(p, r) \/ \E h \in Sockets : BindSocket(p, r, h) \/ RemoveHosted(p, r, h)

RegistrySpec == RegistryInit /\ [][RegistryNext]_registryVars

(***************************************************************************)
(* Properties.                                                             *)
(***************************************************************************)
\* However the requests of one relay server are interleaved: once all commands
\* are carried out, every room that is stored is in the index, without which
\* nobody finds it and no cleanup reaches it (room-registry.ts:192-237).  Two
\* servers that delete and create one room at a time can break this.
StoredRoomIsListed ==
    (\A p \in Processes : underWay[p] = <<>>) => Stored(RoomNames) \subseteq index

\* A host that is away can come back as long as its token is valid: a room's
\* record, in seconds, does not expire before the token, in milliseconds, that
\* was given for it (relay-server.ts:35, 423-428, room-registry.ts:217-224).
RoomOutlivesToken ==
    [][\A r \in RoomNames :
          hour' # hour /\ record[r] # NoRecord /\ record'[r] = NoRecord => hostToken[r] < hour']_registryVars

(***************************************************************************)
(* The inductive invariant of the proofs.                                  *)
(***************************************************************************)
\* A record outlasts the host token that was given for it.
TokenEndsFirst ==
    \A r \in RoomNames : record[r] # NoRecord => hostToken[r] < record[r].expires

RegistryInv ==
    /\ hour \in Nat /\ DOMAIN record = RoomNames /\ hostToken \in [RoomNames -> Int]
    /\ \A r \in RoomNames :
          /\ hostToken[r] <= hour + TokenTtl
          /\ record[r] # NoRecord => record[r].expires \in Int
    /\ TokenEndsFirst
=============================================================================
