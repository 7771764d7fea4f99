--------------------------- MODULE RoomParts_proofs ---------------------------
(***************************************************************************)
(* Theorems about a room: its record in Redis (RedisRegistry), what its    *)
(* host sees of those who wait and of its viewers (HostLists), and the     *)
(* numbers of the frames on their way to a viewer (MotionPath).            *)
(***************************************************************************)
EXTENDS RedisRegistry, HostLists, MotionPath, FiniteSetTheorems, TLAPS

(***************************************************************************)
(* The records in Redis.                                                   *)
(***************************************************************************)
LEMMA InitRegistry == RegistryInit => RegistryInv
  BY RegistryAssumption DEF RegistryInit, RegistryInv, TokenEndsFirst, Unissued

\* A record that is written lives longer than any token that was given so far.
LEMMA SetKeeps ==
    ASSUME RegistryInv, TokenTtl < RoomTtl, NEW p, NEW r, NEW n, NEW h,
           Set(p, r, n, h), UNCHANGED hour
    PROVE  RegistryInv'
  <1>1. PICK now \in Nat, ttl \in Nat, life \in Nat :
           now = hour /\ ttl = TokenTtl /\ life = RoomTtl /\ ttl < life /\ hour' = now
    BY RegistryAssumption DEF RegistryInv
  <1>2. PICK new : new = [node |-> n, host |-> h, expires |-> now + life]
    OBVIOUS
  <1>3. new.expires = now + life
    BY <1>2
  <1>4. /\ record' = [record EXCEPT ![r] = new]
        /\ hostToken' = hostToken \/ hostToken' = [hostToken EXCEPT ![r] = now + ttl]
    BY <1>1, <1>2 DEF Set, Expiry, NewToken
  <1>5. DOMAIN record' = RoomNames /\ hostToken' \in [RoomNames -> Int]
    BY <1>1, <1>4 DEF RegistryInv
  <1>6. ASSUME NEW q \in RoomNames
        PROVE  /\ hostToken'[q] <= now + ttl
               /\ record'[q] # NoRecord => record'[q].expires \in Int /\ hostToken'[q] < record'[q].expires
    <2>1. hostToken[q] \in Int /\ hostToken[q] <= now + ttl
      BY <1>1 DEF RegistryInv
    <2>2. hostToken'[q] \in Int /\ hostToken'[q] <= now + ttl
      BY <1>1, <1>4, <2>1 DEF RegistryInv
    <2>3. CASE q = r
      <3>1. record'[q] = new
        BY <1>4, <2>3 DEF RegistryInv
      <3> QED BY <1>1, <1>3, <2>2, <3>1
    <2>4. CASE q # r
      BY <1>4, <2>2, <2>4 DEF RegistryInv, TokenEndsFirst
    <2> QED BY <2>2, <2>3, <2>4
  <1> QED BY <1>1, <1>5, <1>6 DEF RegistryInv, TokenEndsFirst

LEMMA RedisKeeps ==
    ASSUME RegistryInv, TokenTtl < RoomTtl, NEW p \in Processes, RedisExecutes(p)
    PROVE  RegistryInv'
  <1>1. hour' = hour
    BY DEF RedisExecutes
  <1>2. ASSUME UNCHANGED <<record, hostToken>>
        PROVE  RegistryInv'
    BY <1>1, <1>2 DEF RegistryInv, TokenEndsFirst
  <1>3. ASSUME NEW rooms, NEW purpose, Values(p, rooms, purpose)
        PROVE  RegistryInv'
    BY <1>2, <1>3 DEF Values
  <1>4. ASSUME NEW purpose, Members(p, purpose)
        PROVE  RegistryInv'
    BY <1>2, <1>3, <1>4 DEF Members
  <1>5. ASSUME NEW r, Delete(p, r)
        PROVE  RegistryInv'
    <2>1. record' = [record EXCEPT ![r] = NoRecord] /\ hostToken' = hostToken
      BY <1>5 DEF Delete
    <2>2. DOMAIN record' = RoomNames
      BY <2>1 DEF RegistryInv
    <2>3. \A q \in RoomNames : record'[q] = NoRecord \/ record'[q] = record[q]
      BY <2>1 DEF RegistryInv
    <2> QED BY <1>1, <2>1, <2>2, <2>3 DEF RegistryInv, TokenEndsFirst
  <1>6. PICK c : \/ Members(p, c.to) \/ Values(p, c.rooms, c.to)
                 \/ Attach(p, c.room, c.host) \/ Check(p, c.room, c.host)
                 \/ Set(p, c.room, c.node, c.host) \/ Delete(p, c.room)
                 \/ Entry(p, c.room, c.op = "sAdd")
    BY DEF RedisExecutes
  <1> QED BY <1>1, <1>2, <1>3, <1>4, <1>5, <1>6, SetKeeps DEF Attach, Check, Entry

LEMMA HourKeeps ==
    ASSUME RegistryInv, HourPasses
    PROVE  /\ RegistryInv'
           /\ \A r \in RoomNames : record[r] # NoRecord /\ record'[r] = NoRecord => hostToken[r] < hour'
  <1>1. /\ hour \in Nat /\ hour' = hour + 1 /\ hostToken' = hostToken /\ TokenTtl \in Nat
        /\ record' = [r \in RoomNames |-> IF record[r].expires <= hour' THEN NoRecord ELSE record[r]]
    BY RegistryAssumption DEF HourPasses, RegistryInv
  <1>2. ASSUME NEW r \in RoomNames
        PROVE  /\ hostToken'[r] <= hour' + TokenTtl
               /\ record'[r] # NoRecord => record'[r].expires \in Int /\ hostToken'[r] < record'[r].expires
               /\ record[r] # NoRecord /\ record'[r] = NoRecord => hostToken[r] < hour'
    <2>1. hostToken[r] \in Int /\ hostToken[r] <= hour + TokenTtl
      BY DEF RegistryInv
    <2>2. record[r] # NoRecord => record[r].expires \in Int /\ hostToken[r] < record[r].expires
      BY DEF RegistryInv, TokenEndsFirst
    <2>3. record'[r] = IF record[r].expires <= hour' THEN NoRecord ELSE record[r]
      BY <1>1
    <2>4. hostToken'[r] <= hour' + TokenTtl
      BY <1>1, <2>1
    <2>5. ASSUME record'[r] # NoRecord
          PROVE  record'[r].expires \in Int /\ hostToken'[r] < record'[r].expires
      BY <1>1, <2>2, <2>3, <2>5
    <2>6. ASSUME record[r] # NoRecord, record'[r] = NoRecord
          PROVE  hostToken[r] < hour'
      <3>1. record[r].expires <= hour' /\ record[r].expires \in Int /\ hostToken[r] < record[r].expires
        BY <2>2, <2>3, <2>6
      <3> QED BY <1>1, <2>1, <3>1
    <2> QED BY <2>4, <2>5, <2>6
  <1>3. DOMAIN record' = RoomNames /\ hostToken' \in [RoomNames -> Int] /\ hour' \in Nat
    BY <1>1 DEF RegistryInv
  <1> QED BY <1>2, <1>3 DEF RegistryInv, TokenEndsFirst

LEMMA NextRegistry ==
    ASSUME RegistryInv, TokenTtl < RoomTtl, [RegistryNext]_registryVars
    PROVE  RegistryInv'
  <1>1. ASSUME UNCHANGED <<record, hostToken, hour>>
        PROVE  RegistryInv'
    BY <1>1 DEF RegistryInv, TokenEndsFirst
  <1> QED BY <1>1, RedisKeeps, HourKeeps
          DEF RegistryNext, registryVars, PostRoom, BindSocket, RemoveHosted

\* However the servers' commands are interleaved: what is recorded of a room outlasts the
\* host token that was given for it, rooms being kept for longer than tokens are valid.
THEOREM RegistryInductive == ASSUME TokenTtl < RoomTtl PROVE RegistrySpec => []RegistryInv
  BY InitRegistry, NextRegistry, PTL DEF RegistrySpec

\* A room's record does not expire while the host token is valid.
THEOREM RoomsOutliveTokens == ASSUME TokenTtl < RoomTtl PROVE RegistrySpec => RoomOutlivesToken
  <1>1. ASSUME RegistryInv, [RegistryNext]_registryVars
        PROVE  [\A r \in RoomNames :
                  (hour' # hour /\ record[r] # NoRecord /\ record'[r] = NoRecord)
                     => hostToken[r] < hour']_registryVars
    <2> SUFFICES ASSUME RegistryNext, hour' # hour
                 PROVE  \A r \in RoomNames :
                           record[r] # NoRecord /\ record'[r] = NoRecord => hostToken[r] < hour'
      BY <1>1 DEF registryVars
    <2>1. HourPasses
      BY DEF RegistryNext, RedisExecutes, PostRoom, BindSocket, RemoveHosted
    <2> QED BY <1>1, <2>1, HourKeeps
  <1> QED BY <1>1, RegistryInductive, PTL DEF RegistrySpec, RoomOutlivesToken

(***************************************************************************)
(* What the host of a room sees.                                           *)
(***************************************************************************)
LEMMA ConcatAt ==
    ASSUME NEW S, NEW s \in Seq(S), NEW t \in Seq(S)
    PROVE  /\ s \o t \in Seq(S) /\ Len(s \o t) = Len(s) + Len(t)
           /\ DOMAIN (s \o t) = 1..Len(s) + Len(t)
           /\ \A i \in 1..Len(s) : (s \o t)[i] = s[i]
           /\ \A i \in 1..Len(t) : (s \o t)[Len(s) + i] = t[i]
  OBVIOUS

\* An element of the longer sequence is one of either.
LEMMA ConcatOf ==
    ASSUME NEW S, NEW s \in Seq(S), NEW t \in Seq(S), NEW i \in DOMAIN (s \o t)
    PROVE  \/ i \in DOMAIN s /\ (s \o t)[i] = s[i]
           \/ \E k \in DOMAIN t : i = Len(s) + k /\ (s \o t)[i] = t[k]
  <1>1. i \in 1..Len(s) + Len(t) /\ Len(s) \in Nat /\ Len(t) \in Nat
    BY ConcatAt
  <1>2. CASE i <= Len(s)
    BY <1>1, <1>2, ConcatAt
  <1>3. CASE i > Len(s)
    <2>1. PICK n \in Nat, m \in Nat : n = Len(s) /\ m = Len(t)
      BY <1>1
    <2>2. i \in Int /\ n < i /\ i <= n + m
      BY <1>1, <1>3, <2>1
    <2>3. PICK k \in 1..m : i = n + k
      <3>1. i - n \in 1..m /\ i = n + (i - n)
        BY <2>2
      <3> QED BY <3>1
    <2>4. k \in 1..Len(t) /\ i = Len(s) + k
      BY <2>1, <2>3
    <2> QED BY <2>4, ConcatAt
  <1> QED BY <1>1, <1>2, <1>3

LEMMA TailAt ==
    ASSUME NEW S, NEW s \in Seq(S), s # <<>>
    PROVE  /\ Head(s) = s[1] /\ 1 \in DOMAIN s /\ Head(s) \in S
           /\ Tail(s) \in Seq(S) /\ Len(Tail(s)) = Len(s) - 1
           /\ \A i \in DOMAIN Tail(s) : i + 1 \in DOMAIN s /\ Tail(s)[i] = s[i + 1]
           /\ \A i \in DOMAIN s : i # 1 => i - 1 \in DOMAIN Tail(s) /\ Tail(s)[i - 1] = s[i]
  OBVIOUS

LEMMA ListTypes ==
    ASSUME HostListsTypeOK
    PROVE  /\ room \in {"none", "new", "hosted", "lost"} /\ waiting \subseteq Guests
           /\ present \subseteq Guests /\ online \in BOOLEAN /\ hosting \in BOOLEAN
           /\ acting \in {"no", "creating", "deciding"}
           /\ commands \in Seq(Commands) /\ toHost \in Seq(Replies)
           /\ asking \subseteq Guests /\ viewers \subseteq Guests
  BY DEF HostListsTypeOK

LEMMA CommandTypes ==
    ASSUME NEW c \in Commands
    PROVE  /\ c.op \in {"approve", "reject", "kick", "create", "refresh", "list"}
           /\ c.op \in {"approve", "reject", "kick"} => c.guest \in Guests
  BY DEF Commands, Presses

LEMMA ReplyTypes ==
    ASSUME NEW m \in Replies
    PROVE  /\ m.op \in {"done", "removed", "requested", "created", "gone", "failed", "viewers", "listed"}
           /\ m.op \in {"done", "removed", "requested"} => m.guest \in Guests /\ "guest" \in DOMAIN m
           /\ m.op \in {"viewers", "listed"} => m.shown \subseteq Guests
  BY DEF Replies

LEMMA RepliesMade ==
    /\ \A v \in Guests, op \in {"done", "removed", "requested"} : [op |-> op, guest |-> v] \in Replies
    /\ \A op \in {"created", "gone", "failed"} : [op |-> op] \in Replies
    /\ \A g \in SUBSET Guests, op \in {"viewers", "listed"} : [op |-> op, shown |-> g] \in Replies
  BY DEF Replies

\* Those who wait can be put in order.
LEMMA AskedByTyped ==
    ASSUME HostListsTypeOK, NEW order \in Orders(waiting)
    PROVE  /\ AskedBy(order) \in Seq(Replies)
           /\ \A i \in DOMAIN AskedBy(order) : AskedBy(order)[i].op = "requested"
                  /\ AskedBy(order)[i].guest \in waiting
           /\ \A v \in waiting : \E i \in DOMAIN AskedBy(order) : AskedBy(order)[i].guest = v
  <1>1. waiting \subseteq Guests /\ IsFiniteSet(waiting)
    BY HostListsAssumption, FS_Subset, ListTypes
  <1>2. PICK n \in Nat : n = Cardinality(waiting)
    BY <1>1, FS_CardinalityType
  <1>3. order \in [1..n -> waiting] /\ \A v \in waiting : \E i \in DOMAIN order : order[i] = v
    BY <1>2 DEF Orders
  <1>4. AskedBy(order) = [i \in 1..n |-> [op |-> "requested", guest |-> order[i]]]
    BY <1>3 DEF AskedBy
  <1>5. \A i \in 1..n : [op |-> "requested", guest |-> order[i]] \in Replies
    BY <1>1, <1>3, RepliesMade
  <1>6. AskedBy(order) \in Seq(Replies) /\ DOMAIN AskedBy(order) = 1..n
    BY <1>2, <1>4, <1>5
  <1> QED BY <1>3, <1>4, <1>6

(***************************************************************************)
(* What happens to the parts of the invariant when messages are sent.      *)
(***************************************************************************)
\* A right list is told, and no other after it.
LEMMA ListTold ==
    ASSUME HostListsTypeOK, NEW told \in Seq(Replies), toHost' = toHost \o told,
           NEW k \in DOMAIN told, IsList(told[k]), told[k].shown = present',
           \A j \in DOMAIN told : j > k => ~IsList(told[j])
    PROVE  ListArrives'
  <1>1. toHost \in Seq(Replies) /\ Len(toHost) \in Nat /\ Len(told) \in Nat /\ k \in 1..Len(told)
    BY ListTypes
  <1>2. PICK i \in Nat : i = Len(toHost) + k
    BY <1>1
  <1>3. i \in DOMAIN toHost' /\ toHost'[i] = told[k]
    BY <1>1, <1>2, ConcatAt
  <1>4. ASSUME NEW j \in DOMAIN toHost', j > i
        PROVE  ~IsList(toHost'[j])
    <2>1. j \notin DOMAIN toHost
      BY <1>1, <1>2, <1>4
    <2>2. PICK l \in DOMAIN told : j = Len(toHost) + l /\ toHost'[j] = told[l]
      BY <1>1, <1>4, <2>1, ConcatOf
    <2>3. l > k
      BY <1>1, <1>2, <1>4, <2>2
    <2> QED BY <2>2, <2>3
  <1> QED BY <1>3, <1>4 DEF ListArrives, IsList

\* No list is told.
LEMMA NoListTold ==
    ASSUME HostListsTypeOK, ListArrives, NEW told \in Seq(Replies), toHost' = toHost \o told,
           \A j \in DOMAIN told : ~IsList(told[j]), UNCHANGED <<present, viewers>>
    PROVE  ListArrives'
  <1>1. toHost \in Seq(Replies) /\ Len(toHost) \in Nat
    BY ListTypes
  <1>2. \A j \in DOMAIN toHost' : \/ j \in DOMAIN toHost /\ toHost'[j] = toHost[j]
                                  \/ ~IsList(toHost'[j])
    BY <1>1, ConcatOf
  <1>3. \A j \in DOMAIN toHost : j \in DOMAIN toHost' /\ toHost'[j] = toHost[j]
    BY <1>1, ConcatAt
  <1>4. CASE viewers = present /\ \A i \in DOMAIN toHost : ~IsList(toHost[i])
    BY <1>2, <1>4 DEF ListArrives, IsList
  <1>5. ASSUME NEW i \in DOMAIN toHost, IsList(toHost[i]), toHost[i].shown = present,
               \A j \in DOMAIN toHost : j > i => ~IsList(toHost[j])
        PROVE  ListArrives'
    <2>1. \A j \in DOMAIN toHost' : j > i => ~IsList(toHost'[j])
      BY <1>2, <1>5
    <2> QED BY <1>3, <1>5, <2>1 DEF ListArrives, IsList
  <1> QED BY <1>4, <1>5 DEF ListArrives

LEMMA StillCreating ==
    ASSUME HostListsTypeOK, NEW told \in Seq(Replies), toHost' = toHost \o told, NEW i \in DOMAIN toHost,
           toHost[i].op = "created"
    PROVE  \E j \in DOMAIN toHost' : toHost'[j].op = "created"
  <1>1. toHost \in Seq(Replies)
    BY ListTypes
  <1>2. i \in DOMAIN toHost' /\ toHost'[i] = toHost[i]
    BY <1>1, ConcatAt
  <1> QED BY <1>2

\* Requests that are under way stay so when nothing is told that would clear them.
LEMMA StillAsked ==
    ASSUME HostListsTypeOK, NEW v, RequestArrives(v), NEW told \in Seq(Replies),
           toHost' = toHost \o told, UNCHANGED <<asking, hosting>>,
           ~hosting => \A j \in DOMAIN told : told[j].op # "created"
    PROVE  RequestArrives(v)'
  <1>1. toHost \in Seq(Replies) /\ Len(toHost) \in Nat
    BY ListTypes
  <1>2. \A j \in DOMAIN toHost' : \/ j \in DOMAIN toHost /\ toHost'[j] = toHost[j]
                                  \/ ~hosting => toHost'[j].op # "created"
    BY <1>1, ConcatOf
  <1>3. \A j \in DOMAIN toHost : j \in DOMAIN toHost' /\ toHost'[j] = toHost[j]
    BY <1>1, ConcatAt
  <1>4. ASSUME NEW k, NoneCreatedAfter(k)
        PROVE  NoneCreatedAfter(k)'
    BY <1>2, <1>4 DEF NoneCreatedAfter
  <1>5. CASE v \in asking /\ NoneCreatedAfter(0)
    BY <1>4, <1>5 DEF RequestArrives
  <1>6. ASSUME NEW i \in DOMAIN toHost, toHost[i].op = "requested", toHost[i].guest = v,
               NoneCreatedAfter(i)
        PROVE  RequestArrives(v)'
    BY <1>3, <1>4, <1>6 DEF RequestArrives
  <1> QED BY <1>5, <1>6 DEF RequestArrives

LEMMA NowAsked ==
    ASSUME HostListsTypeOK, NEW v, NEW told \in Seq(Replies), toHost' = toHost \o told,
           NEW k \in DOMAIN told, told[k].op = "requested", told[k].guest = v,
           ~hosting' => \A j \in DOMAIN told : told[j].op # "created"
    PROVE  RequestArrives(v)'
  <1>1. toHost \in Seq(Replies) /\ Len(toHost) \in Nat /\ Len(told) \in Nat /\ k \in 1..Len(told)
    BY ListTypes
  <1>2. PICK i \in Nat : i = Len(toHost) + k
    BY <1>1
  <1>3. i \in DOMAIN toHost' /\ toHost'[i] = told[k]
    BY <1>1, <1>2, ConcatAt
  <1>4. ASSUME ~hosting', NEW j \in DOMAIN toHost', j > i
        PROVE  toHost'[j].op # "created"
    <2>1. j \notin DOMAIN toHost
      BY <1>1, <1>2, <1>4
    <2> QED BY <1>1, <1>4, <2>1, ConcatOf
  <1> QED BY <1>3, <1>4 DEF RequestArrives, NoneCreatedAfter

\* Answers about those who do not wait, or are not there, any more.
LEMMA StillGone ==
    ASSUME HostListsTypeOK, NEW told \in Seq(Replies), toHost' = toHost \o told,
           \A i \in DOMAIN toHost :
              /\ toHost[i].op = "done" => toHost[i].guest \notin waiting'
              /\ toHost[i].op = "removed" => toHost[i].guest \notin waiting' \cup present',
           \A i \in DOMAIN told :
              /\ told[i].op = "done" => told[i].guest \notin waiting'
              /\ told[i].op = "removed" => told[i].guest \notin waiting' \cup present'
    PROVE  DecidedAreGone'
  <1>1. toHost \in Seq(Replies)
    BY ListTypes
  <1>2. ASSUME NEW i \in DOMAIN toHost'
        PROVE  /\ toHost'[i].op = "done" => toHost'[i].guest \notin waiting'
               /\ toHost'[i].op = "removed" => toHost'[i].guest \notin waiting' \cup present'
    <2>1. CASE i \in DOMAIN toHost /\ toHost'[i] = toHost[i]
      BY <2>1
    <2>2. ASSUME NEW k \in DOMAIN told, toHost'[i] = told[k]
          PROVE  /\ toHost'[i].op = "done" => toHost'[i].guest \notin waiting'
                 /\ toHost'[i].op = "removed" => toHost'[i].guest \notin waiting' \cup present'
      BY <2>2
    <2> QED BY <1>1, <1>2, <2>1, <2>2, ConcatOf
  <1> QED BY <1>2 DEF DecidedAreGone

(***************************************************************************)
(* The relay server's steps.                                               *)
(***************************************************************************)
LEMMA ListsParts ==
    ASSUME HostListsInv
    PROVE  /\ HostListsTypeOK /\ RoomLife /\ DecidedAreGone /\ ListIsCurrent /\ RequestsArrive
  BY DEF HostListsInv

LEMMA InitLists == HostListsInit => HostListsInv
  <1> SUFFICES ASSUME HostListsInit
               PROVE  HostListsInv
    OBVIOUS
  <1>1. HostListsTypeOK
    <2>1. <<>> \in Seq(Commands) /\ <<>> \in Seq(Replies)
      OBVIOUS
    <2>2. commands = <<>> /\ toHost = <<>> /\ {online, hosting} \subseteq BOOLEAN
      BY DEF HostListsInit
    <2> QED BY <2>1, <2>2 DEF HostListsInit, HostListsTypeOK
  <1>2. RoomLife /\ DecidedAreGone
    BY DEF HostListsInit, RoomLife, DecidedAreGone
  <1>3. ListIsCurrent /\ RequestsArrive
    BY DEF HostListsInit, ListIsCurrent, RequestsArrive
  <1> QED BY <1>1, <1>2, <1>3 DEF HostListsInv

\* What a host that is bound is told, and nobody else.
LEMMA HostedTold ==
    ASSUME HostListsTypeOK, NEW m \in Replies, IfHosted(m)
    PROVE  \E told \in Seq(Replies) :
              /\ toHost' = toHost \o told
              /\ room = "hosted" => told = <<m>>
              /\ room # "hosted" => told = <<>> /\ toHost' = toHost
  <1>1. toHost \in Seq(Replies)
    BY ListTypes
  <1>2. CASE room = "hosted"
    <2>1. <<m>> \in Seq(Replies)
      OBVIOUS
    <2> QED BY <1>2, <2>1 DEF IfHosted, Tell
  <1>3. CASE room # "hosted"
    <2>1. <<>> \in Seq(Replies) /\ toHost \o <<>> = toHost
      BY <1>1
    <2> QED BY <1>3, <2>1 DEF IfHosted, Tell
  <1> QED BY <1>2, <1>3

LEMMA GuestJoinsKeeps ==
    ASSUME HostListsInv, NEW v \in Guests, GuestJoins(v)
    PROVE  HostListsInv'
  <1>1. /\ room # "none" /\ (room = "new" => EarlyRequests)
        /\ v \notin waiting \cup present
        /\ UNCHANGED <<room, commands, online, hosting, acting, asking, viewers>>
    BY DEF GuestJoins, WindowVars
  <1>2. \A i \in DOMAIN toHost : toHost[i].op \in {"done", "removed"} => toHost[i].guest # v
    <2>1. \A i \in DOMAIN toHost : toHost[i] \in Replies
      BY ListsParts, ListTypes
    <2> QED BY <2>1, ReplyTypes DEF GuestJoins
  <1>3. PICK told \in Seq(Replies) :
           /\ toHost' = toHost \o told
           /\ room # "hosted" => told = <<>> /\ toHost' = toHost
           /\ \/ /\ waiting' = waiting \cup {v} /\ present' = present
                 /\ room = "hosted" => told = <<[op |-> "requested", guest |-> v]>>
              \/ /\ present' = present \cup {v} /\ waiting' = waiting
                 /\ room = "hosted" => told = <<ListNow(present')>>
    <2>1. CASE /\ waiting' = waiting \cup {v} /\ UNCHANGED present
               /\ IfHosted([op |-> "requested", guest |-> v])
      BY <2>1, RepliesMade, HostedTold, ListsParts
    <2>2. CASE /\ present' = present \cup {v} /\ UNCHANGED waiting /\ IfHosted(ListNow(present'))
      <3>1. present' \in SUBSET Guests
        BY <2>2, ListsParts, ListTypes
      <3>2. ListNow(present') \in Replies
        BY <3>1, RepliesMade DEF ListNow
      <3> QED BY <2>2, <3>2, HostedTold, ListsParts
    <2> QED BY <2>1, <2>2 DEF GuestJoins
  <1>4. \A i \in DOMAIN told : told[i].op \in {"requested", "viewers"} /\ room = "hosted"
    BY <1>3 DEF ListNow
  <1>5. toHost' \in Seq(Replies) /\ HostListsTypeOK'
    BY <1>1, <1>3, ListsParts, ConcatAt DEF HostListsTypeOK
  <1>6. DecidedAreGone'
    <2>1. waiting' \cup present' \subseteq waiting \cup present \cup {v} /\ waiting' \subseteq waiting \cup {v}
      BY <1>3
    <2>2. \A i \in DOMAIN toHost :
             /\ toHost[i].op = "done" => toHost[i].guest \notin waiting'
             /\ toHost[i].op = "removed" => toHost[i].guest \notin waiting' \cup present'
      BY <1>2, <2>1, ListsParts DEF DecidedAreGone
    <2> QED BY <1>3, <1>4, <2>2, StillGone, ListsParts
  <1>7. RoomLife'
    <2>1. waiting' \cap present' = {}
      BY <1>1, <1>3, ListsParts DEF RoomLife
    <2>2. \A i \in DOMAIN toHost' : toHost'[i].op = "gone" => room' = "none"
      <3>1. \A i \in DOMAIN toHost' : \/ i \in DOMAIN toHost /\ toHost'[i] = toHost[i]
                                      \/ toHost'[i].op \in {"requested", "viewers"}
        BY <1>3, <1>4, ConcatOf, ListsParts, ListTypes
      <3> QED BY <1>1, <3>1, ListsParts DEF RoomLife
    <2> QED BY <1>1, <1>3, <2>1, <2>2, ListsParts DEF RoomLife
  <1>8. ListIsCurrent'
    <2> SUFFICES ASSUME room = "hosted", hosting
                 PROVE  ListIsAskedFor' \/ ListArrives'
      BY <1>1 DEF ListIsCurrent
    <2>1. CASE told = <<ListNow(present')>>
      <3>1. 1 \in DOMAIN told /\ IsList(told[1]) /\ told[1].shown = present' /\ DOMAIN told = {1}
        BY <2>1 DEF ListNow, IsList
      <3>2. HostListsTypeOK /\ told \in Seq(Replies) /\ toHost' = toHost \o told
        BY <1>3, ListsParts
      <3>3. \A j \in DOMAIN told : j > 1 => ~IsList(told[j])
        BY <3>1
      <3>4. ListArrives'
        BY <3>1, <3>2, <3>3, ListTold
      <3> QED BY <3>4
    <2>2. CASE told = <<[op |-> "requested", guest |-> v]>> /\ present' = present
      <3>1. \A i \in DOMAIN told : ~IsList(told[i])
        BY <2>2 DEF IsList
      <3>2. CASE ListIsAskedFor
        BY <1>1, <1>3, <3>2, StillCreating, ListsParts DEF ListIsAskedFor
      <3>3. CASE ListArrives
        BY <1>1, <1>3, <2>2, <3>1, <3>3, NoListTold, ListsParts
      <3> QED BY <3>2, <3>3, ListsParts DEF ListIsCurrent
    <2> QED BY <1>3, <2>1, <2>2
  <1>9. RequestsArrive'
    <2> SUFFICES ASSUME ~EarlyRequests
                 PROVE  /\ room' = "new" => waiting' = {}
                        /\ room' = "hosted" => \A w \in waiting' : RequestArrives(w)'
      BY DEF RequestsArrive
    <2>1. room' # "new"
      BY <1>1
    <2>2. ASSUME room = "hosted", NEW w \in waiting'
          PROVE  RequestArrives(w)'
      <3>1. CASE w \in waiting
        BY <1>1, <1>3, <1>4, <2>2, <3>1, StillAsked, ListsParts DEF RequestsArrive
      <3>2. CASE w \notin waiting
        <4>1. w = v /\ told = <<[op |-> "requested", guest |-> v]>>
          BY <1>3, <2>2, <3>2
        <4>2. 1 \in DOMAIN told /\ told[1].op = "requested" /\ told[1].guest = v
          BY <4>1
        <4> QED BY <1>3, <1>4, <4>1, <4>2, NowAsked, ListsParts
      <3> QED BY <3>1, <3>2
    <2> QED BY <1>1, <2>1, <2>2
  <1> QED BY <1>5, <1>6, <1>7, <1>8, <1>9 DEF HostListsInv

LEMMA GuestGoesKeeps ==
    ASSUME HostListsInv, NEW v \in Guests, GuestGoes(v)
    PROVE  HostListsInv'
  <1>1. /\ waiting' = waiting \ {v} /\ present' = present \ {v}
        /\ UNCHANGED <<room, commands, online, hosting, acting, asking, viewers>>
    BY DEF GuestGoes, WindowVars
  <1>2. PICK told \in Seq(Replies) :
           /\ toHost' = toHost \o told
           /\ \/ told = <<>> /\ toHost' = toHost /\ (room = "hosted" => present' = present)
              \/ told = <<ListNow(present')>> /\ room = "hosted"
    <2>1. CASE v \in present
      <3>1. ListNow(present') \in Replies
        BY <1>1, ListsParts, ListTypes, RepliesMade DEF ListNow
      <3> QED BY <2>1, <3>1, HostedTold, ListsParts DEF GuestGoes
    <2>2. CASE v \notin present
      <3>1. <<>> \in Seq(Replies) /\ toHost \o <<>> = toHost
        BY ListsParts, ListTypes
      <3> QED BY <1>1, <2>2, <3>1 DEF GuestGoes
    <2> QED BY <2>1, <2>2
  <1>3. \A i \in DOMAIN told : told[i].op = "viewers"
    BY <1>2 DEF ListNow
  <1>4. HostListsTypeOK'
    BY <1>1, <1>2, ListsParts, ConcatAt DEF HostListsTypeOK
  <1>5. DecidedAreGone'
    <2>1. \A i \in DOMAIN toHost :
             /\ toHost[i].op = "done" => toHost[i].guest \notin waiting'
             /\ toHost[i].op = "removed" => toHost[i].guest \notin waiting' \cup present'
      BY <1>1, ListsParts DEF DecidedAreGone
    <2> QED BY <1>2, <1>3, <2>1, StillGone, ListsParts
  <1>6. RoomLife'
    <2>1. \A i \in DOMAIN toHost' : toHost'[i].op = "gone" => room' = "none"
      BY <1>1, <1>2, <1>3, ConcatOf, ListsParts, ListTypes DEF RoomLife
    <2>2. waiting' \cap present' = {}
      BY <1>1, ListsParts DEF RoomLife
    <2> QED BY <1>1, <1>2, <2>1, <2>2, ListsParts DEF RoomLife
  <1>7. ListIsCurrent'
    <2> SUFFICES ASSUME room = "hosted", hosting
                 PROVE  ListIsAskedFor' \/ ListArrives'
      BY <1>1 DEF ListIsCurrent
    <2>1. CASE told = <<ListNow(present')>>
      <3>1. 1 \in DOMAIN told /\ IsList(told[1]) /\ told[1].shown = present' /\ DOMAIN told = {1}
        BY <2>1 DEF ListNow, IsList
      <3> QED BY <1>2, <3>1, ListTold, ListsParts
    <2>2. CASE toHost' = toHost /\ present' = present
      BY <1>1, <2>2, ListsParts DEF ListIsCurrent, ListIsAskedFor, ListArrives
    <2> QED BY <1>2, <2>1, <2>2
  <1>8. RequestsArrive'
    <2>1. ASSUME ~EarlyRequests, room = "hosted", NEW w \in waiting'
          PROVE  RequestArrives(w)'
      BY <1>1, <1>2, <1>3, <2>1, StillAsked, ListsParts DEF RequestsArrive
    <2>2. ~EarlyRequests /\ room = "new" => waiting' = {}
      BY <1>1, ListsParts DEF RequestsArrive
    <2> QED BY <1>1, <2>1, <2>2 DEF RequestsArrive
  <1> QED BY <1>4, <1>5, <1>6, <1>7, <1>8 DEF HostListsInv

LEMMA ShortSequences ==
    ASSUME NEW S
    PROVE  /\ \A m \in S : \E s \in Seq(S) : s = <<m>>
           /\ \A l, m \in S : \E s \in Seq(S) : s = <<l, m>>
           /\ \A s \in Seq(S), m \in S : \E t \in Seq(S) : t = Append(s, m)
  <1>1. ASSUME NEW m \in S
        PROVE  <<m>> \in Seq(S)
    OBVIOUS
  <1>2. ASSUME NEW l \in S, NEW m \in S
        PROVE  <<l, m>> \in Seq(S)
    OBVIOUS
  <1>3. ASSUME NEW s \in Seq(S), NEW m \in S
        PROVE  Append(s, m) \in Seq(S)
    OBVIOUS
  <1> QED BY <1>1, <1>2, <1>3, Zenon

\* What is handled leaves the commands that come after it.
LEMMA Handled ==
    ASSUME HostListsTypeOK, commands # <<>>, commands' = Tail(commands)
    PROVE  /\ commands' \in Seq(Commands) /\ Head(commands) \in Commands
           /\ \A i \in DOMAIN commands' : \E j \in DOMAIN commands : commands'[i] = commands[j]
           /\ \A j \in DOMAIN commands :
                 commands[j] = Head(commands) \/ \E i \in DOMAIN commands' : commands'[i] = commands[j]
  <1>1. commands \in Seq(Commands)
    BY ListTypes
  <1>2. /\ Head(commands) = commands[1] /\ Head(commands) \in Commands /\ commands' \in Seq(Commands)
        /\ \A i \in DOMAIN commands' : i + 1 \in DOMAIN commands /\ commands'[i] = commands[i + 1]
        /\ \A i \in DOMAIN commands : i # 1 => i - 1 \in DOMAIN commands' /\ commands'[i - 1] = commands[i]
    BY <1>1, TailAt
  <1> QED BY <1>2

\* A command that leaves the room as it is: either nobody comes or goes and the host is
\* sent no list, or the last list it is sent is right.
LEMMA AnswerKeeps ==
    ASSUME HostListsInv, commands # <<>>, commands' = Tail(commands), Head(commands).op # "create",
           UNCHANGED <<room, WindowVars>>,
           NEW told \in Seq(Replies), toHost' = toHost \o told,
           waiting' \subseteq waiting, waiting' \cap present' = {},
           present' \subseteq present \cup waiting,
           \A i \in DOMAIN told :
              /\ told[i].op \notin {"created", "gone", "requested"}
              /\ told[i].op = "done" => told[i].guest \notin waiting'
              /\ told[i].op = "removed" => told[i].guest \notin waiting' \cup present',
           room = "hosted" =>
              \/ /\ Head(commands).op # "refresh" /\ present' = present
                 /\ \A i \in DOMAIN told : ~IsList(told[i])
              \/ \E k \in DOMAIN told :
                    /\ IsList(told[k]) /\ told[k].shown = present'
                    /\ \A j \in DOMAIN told : j > k => ~IsList(told[j])
    PROVE  HostListsInv'
  <1>1. UNCHANGED <<room, online, hosting, acting, asking, viewers>>
    BY DEF WindowVars
  <1>2. room # "new"
    BY ListsParts DEF RoomLife
  <1>3. HostListsTypeOK'
    BY <1>1, ListsParts, Handled, ConcatAt DEF HostListsTypeOK
  <1>4. RoomLife'
    <2>1. \A i \in DOMAIN toHost' : \/ i \in DOMAIN toHost /\ toHost'[i] = toHost[i]
                                    \/ toHost'[i].op # "gone"
      BY ConcatOf, ListsParts, ListTypes
    <2>2. \A i \in DOMAIN commands' : commands'[i].op = "create" => hosting \/ room \in {"new", "none"}
      BY ListsParts, Handled DEF RoomLife
    <2> QED BY <1>1, <1>2, <2>1, <2>2, ListsParts DEF RoomLife
  <1>5. DecidedAreGone'
    <2>1. \A i \in DOMAIN toHost :
             /\ toHost[i].op = "done" => toHost[i].guest \notin waiting'
             /\ toHost[i].op = "removed" => toHost[i].guest \notin waiting' \cup present'
      BY ListsParts DEF DecidedAreGone
    <2> QED BY <2>1, StillGone, ListsParts
  <1>6. ListIsCurrent'
    <2> SUFFICES ASSUME room = "hosted", hosting
                 PROVE  ListIsAskedFor' \/ ListArrives'
      BY <1>1 DEF ListIsCurrent
    <2>1. CASE /\ Head(commands).op # "refresh" /\ present' = present
               /\ \A i \in DOMAIN told : ~IsList(told[i])
      <3>1. CASE ListArrives
        BY <1>1, <2>1, <3>1, NoListTold, ListsParts
      <3>2. ASSUME NEW i \in DOMAIN commands, commands[i].op = "refresh"
            PROVE  ListIsAskedFor'
        BY <2>1, <3>2, Handled, ListsParts DEF ListIsAskedFor
      <3>3. ASSUME NEW i \in DOMAIN toHost, toHost[i].op = "created"
            PROVE  ListIsAskedFor'
        BY <3>3, StillCreating, ListsParts DEF ListIsAskedFor
      <3> QED BY <3>1, <3>2, <3>3, ListsParts DEF ListIsCurrent, ListIsAskedFor
    <2>2. ASSUME NEW k \in DOMAIN told, IsList(told[k]), told[k].shown = present',
                 \A j \in DOMAIN told : j > k => ~IsList(told[j])
          PROVE  ListArrives'
      BY <2>2, ListTold, ListsParts
    <2> QED BY <2>1, <2>2
  <1>7. RequestsArrive'
    <2>1. ASSUME ~EarlyRequests, room = "hosted", NEW w \in waiting'
          PROVE  RequestArrives(w)'
      <3>1. RequestArrives(w) /\ \A j \in DOMAIN told : told[j].op # "created"
        BY <2>1, ListsParts DEF RequestsArrive
      <3> QED BY <1>1, <3>1, StillAsked, ListsParts
    <2> QED BY <1>1, <1>2, <2>1 DEF RequestsArrive
  <1> QED BY <1>3, <1>4, <1>5, <1>6, <1>7 DEF HostListsInv

LEMMA AnswerViewersKeeps ==
    ASSUME HostListsInv, commands # <<>>, commands' = Tail(commands), Head(commands).op # "create",
           UNCHANGED WindowVars, NEW answer \in {"viewers", "listed"}, AnswerViewers(answer)
    PROVE  HostListsInv'
  <1>1. PICK shown \in SUBSET Guests : shown = IF room = "hosted" THEN present ELSE {}
    BY ListsParts, ListTypes
  <1>2. PICK told \in Seq(Replies) : told = <<[op |-> answer, shown |-> shown]>>
    <2>1. [op |-> answer, shown |-> shown] \in Replies
      BY RepliesMade
    <2> QED BY <2>1, ShortSequences, Zenon
  <1>3. toHost' = toHost \o told /\ UNCHANGED <<room, waiting, present>>
    BY <1>1, <1>2 DEF AnswerViewers, Tell, RelaysVars
  <1>4. /\ DOMAIN told = {1} /\ told[1].op = answer /\ told[1].shown = shown /\ IsList(told[1])
    BY <1>2 DEF IsList
  <1>5. waiting' \cap present' = {}
    BY <1>3, ListsParts DEF RoomLife
  <1>6. \A i \in DOMAIN told :
           /\ told[i].op \notin {"created", "gone", "requested"}
           /\ told[i].op = "done" => told[i].guest \notin waiting'
           /\ told[i].op = "removed" => told[i].guest \notin waiting' \cup present'
    BY <1>4
  <1>7. room = "hosted" => /\ 1 \in DOMAIN told /\ IsList(told[1]) /\ told[1].shown = present'
                           /\ \A j \in DOMAIN told : j > 1 => ~IsList(told[j])
    BY <1>1, <1>3, <1>4
  <1> QED BY <1>3, <1>5, <1>6, <1>7, AnswerKeeps

\* An answer without a list.
LEMMA PlainAnswerKeeps ==
    ASSUME HostListsInv, commands # <<>>, commands' = Tail(commands),
           Head(commands).op \notin {"create", "refresh"},
           UNCHANGED <<room, WindowVars>>, NEW m \in Replies, toHost' = toHost \o <<m>>,
           m.op \in {"failed", "done"}, m.op = "done" => m.guest \notin waiting',
           waiting' \subseteq waiting, present' = present
    PROVE  HostListsInv'
  <1>1. PICK told \in Seq(Replies) : told = <<m>>
    BY ShortSequences, Zenon
  <1>2. DOMAIN told = {1} /\ told[1] = m /\ ~IsList(told[1])
    BY <1>1 DEF IsList
  <1>3. waiting' \cap present' = {}
    BY ListsParts DEF RoomLife
  <1>4. \A i \in DOMAIN told :
           /\ told[i].op \notin {"created", "gone", "requested"}
           /\ told[i].op = "done" => told[i].guest \notin waiting'
           /\ told[i].op = "removed" => told[i].guest \notin waiting' \cup present'
    BY <1>2
  <1> QED BY <1>1, <1>2, <1>3, <1>4, AnswerKeeps

\* A list, and then the answer.
LEMMA ListedAnswerKeeps ==
    ASSUME HostListsInv, commands # <<>>, commands' = Tail(commands), Head(commands).op # "create",
           UNCHANGED <<room, WindowVars>>, NEW m \in Replies,
           toHost' = toHost \o <<ListNow(present'), m>>, m.op \in {"done", "removed"},
           m.guest \notin waiting', m.op = "removed" => m.guest \notin present',
           waiting' \subseteq waiting, waiting' \cap present' = {}, present' \subseteq present \cup waiting
    PROVE  HostListsInv'
  <1>1. PICK told \in Seq(Replies) : told = <<ListNow(present'), m>>
    <2>1. present' \in SUBSET Guests
      BY ListsParts, ListTypes
    <2>2. ListNow(present') \in Replies
      BY <2>1, RepliesMade DEF ListNow
    <2> QED BY <2>2, ShortSequences, Zenon
  <1>2. /\ DOMAIN told = {1, 2} /\ told[2] = m /\ ~IsList(told[2])
        /\ told[1].op = "viewers" /\ told[1].shown = present' /\ IsList(told[1])
    BY <1>1 DEF IsList, ListNow
  <1>3. \A i \in DOMAIN told :
           /\ told[i].op \notin {"created", "gone", "requested"}
           /\ told[i].op = "done" => told[i].guest \notin waiting'
           /\ told[i].op = "removed" => told[i].guest \notin waiting' \cup present'
    BY <1>2
  <1>4. 1 \in DOMAIN told /\ \A j \in DOMAIN told : j > 1 => ~IsList(told[j])
    BY <1>2
  <1> QED BY <1>1, <1>2, <1>3, <1>4, AnswerKeeps

LEMMA DecideKeeps ==
    ASSUME HostListsInv, commands # <<>>, commands' = Tail(commands),
           Head(commands).op \notin {"create", "refresh"}, UNCHANGED WindowVars,
           NEW v \in Guests, NEW approved, Decide(v, approved)
    PROVE  HostListsInv'
  <1>1. [op |-> "failed"] \in Replies /\ [op |-> "done", guest |-> v] \in Replies
    BY RepliesMade
  <1>2. UNCHANGED room
    BY DEF Decide
  <1>3. CASE room # "hosted" \/ v \notin waiting
    BY <1>1, <1>2, <1>3, PlainAnswerKeeps DEF Decide, Tell
  <1>4. CASE ~(room # "hosted" \/ v \notin waiting)
    <2>1. waiting' = waiting \ {v}
      BY <1>4 DEF Decide
    <2>2. CASE UNCHANGED present /\ Tell(<<[op |-> "done", guest |-> v]>>)
      BY <1>1, <1>2, <2>1, <2>2, PlainAnswerKeeps DEF Tell
    <2>3. CASE UNCHANGED present /\ Tell(<<[op |-> "failed"]>>)
      BY <1>1, <1>2, <2>1, <2>3, PlainAnswerKeeps DEF Tell
    <2>4. CASE /\ present' = present \cup {v}
               /\ Tell(<<ListNow(present'), [op |-> "done", guest |-> v]>>)
      <3>1. waiting' \cap present' = {} /\ present' \subseteq present \cup waiting
        BY <1>4, <2>1, <2>4, ListsParts DEF RoomLife
      <3> QED BY <1>1, <1>2, <2>1, <2>4, <3>1, ListedAnswerKeeps DEF Tell
    <2> QED BY <1>4, <2>2, <2>3, <2>4 DEF Decide
  <1> QED BY <1>3, <1>4

LEMMA ModerateKeeps ==
    ASSUME HostListsInv, commands # <<>>, commands' = Tail(commands),
           Head(commands).op \notin {"create", "refresh"}, UNCHANGED WindowVars,
           NEW v \in Guests, Moderate(v)
    PROVE  HostListsInv'
  <1>1. [op |-> "failed"] \in Replies /\ [op |-> "removed", guest |-> v] \in Replies
    BY RepliesMade
  <1>2. UNCHANGED <<room, waiting>>
    BY DEF Moderate
  <1>3. CASE room # "hosted" \/ v \notin present
    BY <1>1, <1>2, <1>3, PlainAnswerKeeps DEF Moderate, Tell
  <1>4. CASE ~(room # "hosted" \/ v \notin present)
    <2>1. present' = present \ {v} /\ toHost' = toHost \o <<ListNow(present'), [op |-> "removed", guest |-> v]>>
      BY <1>4 DEF Moderate, Tell
    <2>2. v \notin waiting' /\ v \notin present' /\ waiting' \cap present' = {}
      BY <1>2, <1>4, <2>1, ListsParts DEF RoomLife
    <2> QED BY <1>1, <1>2, <2>1, <2>2, ListedAnswerKeeps
  <1> QED BY <1>3, <1>4

LEMMA AttachHostKeeps ==
    ASSUME HostListsInv, online, commands # <<>>, commands' = Tail(commands),
           Head(commands).op = "create", UNCHANGED WindowVars, AttachHost
    PROVE  HostListsInv'
  <1>1. /\ UNCHANGED <<online, hosting, acting, asking, viewers, waiting, present>>
        /\ toHost \in Seq(Replies)
    BY ListsParts, ListTypes DEF WindowVars, AttachHost, RelaysVars
  <1>2. \A i \in DOMAIN toHost :
           /\ toHost[i].op = "done" => toHost[i].guest \notin waiting'
           /\ toHost[i].op = "removed" => toHost[i].guest \notin waiting' \cup present'
    BY <1>1, ListsParts DEF DecidedAreGone
  <1>3. CASE room = "none"
    <2>1. room' = "none"
      BY <1>3 DEF AttachHost, RelaysVars
    <2>2. PICK told \in Seq(Replies) : told = <<[op |-> "gone"]>>
      <3>1. [op |-> "gone"] \in Replies
        BY RepliesMade
      <3> QED BY <3>1, ShortSequences, Zenon
    <2>3. toHost' = toHost \o told /\ \A i \in DOMAIN told : told[i].op = "gone"
      BY <1>3, <2>2 DEF AttachHost, Tell
    <2>4. HostListsTypeOK'
      BY <1>1, <2>1, <2>3, ListsParts, Handled, ConcatAt DEF HostListsTypeOK
    <2>5. DecidedAreGone'
      BY <1>2, <2>3, StillGone, ListsParts
    <2>6. RoomLife'
      BY <1>1, <1>3, <2>1, ListsParts DEF RoomLife
    <2> QED BY <2>1, <2>4, <2>5, <2>6 DEF HostListsInv, ListIsCurrent, RequestsArrive
  <1>4. CASE room # "none"
    <2>1. PICK order \in Orders(waiting) :
             room' = "hosted" /\ toHost' = toHost \o Append(AskedBy(order), [op |-> "created"])
      BY <1>4 DEF AttachHost, Tell
    <2>2. PICK asks \in Seq(Replies) : asks = AskedBy(order)
      BY ListsParts, AskedByTyped
    <2>3. PICK told \in Seq(Replies) : told = Append(asks, [op |-> "created"])
      <3>1. [op |-> "created"] \in Replies
        BY RepliesMade
      <3> QED BY <3>1, ShortSequences, Zenon
    <2>4. PICK n \in Nat : n = Len(asks) /\ DOMAIN asks = 1..n
      OBVIOUS
    <2>5. /\ DOMAIN told = 1..n + 1 /\ told[n + 1] = [op |-> "created"]
          /\ \A i \in 1..n : told[i] = asks[i]
      BY <2>3, <2>4
    <2>6. toHost' = toHost \o told
      BY <2>1, <2>2, <2>3
    <2>7. \A i \in 1..n : told[i].op = "requested"
      BY <2>2, <2>4, <2>5, ListsParts, AskedByTyped
    <2>8. told[n + 1].op = "created" /\ n + 1 \in DOMAIN told
      BY <2>5
    <2>9. \A i \in DOMAIN told : told[i].op \in {"requested", "created"}
      BY <2>5, <2>7, <2>8
    <2>10. HostListsTypeOK'
      <3>1. toHost' \in Seq(Replies) /\ commands' \in Seq(Commands)
        BY <1>1, <2>6, ListsParts, Handled, ConcatAt
      <3> QED BY <1>1, <2>1, <3>1, ListsParts DEF HostListsTypeOK
    <2>11. DecidedAreGone'
      BY <1>2, <2>6, <2>9, StillGone, ListsParts
    <2>12. RoomLife'
      <3>1. \A i \in DOMAIN toHost' : \/ i \in DOMAIN toHost /\ toHost'[i] = toHost[i]
                                      \/ toHost'[i].op \in {"requested", "created"}
        BY <1>1, <2>6, <2>9, ConcatOf
      <3>2. \A i \in DOMAIN toHost' : toHost'[i].op # "gone"
        BY <1>4, <3>1, ListsParts DEF RoomLife
      <3>3. \A i \in DOMAIN commands' : commands'[i].op = "create" => hosting
        <4>1. CASE room = "new"
          <5>1. commands = <<[op |-> "create"]>>
            BY <4>1, ListsParts DEF RoomLife
          <5>2. commands' = <<>>
            BY <5>1
          <5> QED BY <5>2
        <4>2. CASE room # "new"
          BY <1>4, <4>2, ListsParts, Handled DEF RoomLife
        <4> QED BY <4>1, <4>2
      <3> QED BY <1>1, <2>1, <3>2, <3>3, ListsParts DEF RoomLife
    <2>13. ListIsCurrent'
      <3>1. PICK l \in Nat : l = Len(toHost)
        BY <1>1
      <3>2. l + (n + 1) \in DOMAIN toHost' /\ toHost'[l + (n + 1)] = told[n + 1]
        BY <1>1, <2>4, <2>5, <2>6, <3>1, ConcatAt
      <3> QED BY <2>8, <3>2 DEF ListIsCurrent, ListIsAskedFor
    <2>14. RequestsArrive'
      <3> SUFFICES ASSUME ~EarlyRequests, NEW w \in waiting
                   PROVE  RequestArrives(w)'
        BY <1>1, <2>1 DEF RequestsArrive
      <3>1. room # "new" /\ hosting
        <4>1. room # "new"
          BY ListsParts DEF RequestsArrive
        <4>2. \E i \in DOMAIN commands : commands[i] = Head(commands)
          BY ListsParts, ListTypes, TailAt
        <4> QED BY <1>4, <4>1, <4>2, ListsParts DEF RoomLife
      <3>2. PICK k \in DOMAIN asks : asks[k].guest = w
        BY <2>2, ListsParts, AskedByTyped
      <3>3. k \in DOMAIN told /\ told[k].op = "requested" /\ told[k].guest = w
        BY <2>4, <2>5, <2>7, <3>2
      <3> QED BY <1>1, <2>6, <3>1, <3>3, NowAsked, ListsParts
    <2> QED BY <2>10, <2>11, <2>12, <2>13, <2>14 DEF HostListsInv
  <1> QED BY <1>3, <1>4

LEMMA RelayHandlesKeeps ==
    ASSUME HostListsInv, RelayHandles
    PROVE  HostListsInv'
  <1>1. /\ online /\ commands # <<>> /\ commands' = Tail(commands) /\ UNCHANGED WindowVars
        /\ Head(commands) \in Commands
    BY ListsParts, Handled DEF RelayHandles
  <1>2. PICK c \in Commands : c = Head(commands)
    BY <1>1
  <1>3. CASE c.op = "create"
    BY <1>1, <1>2, <1>3, AttachHostKeeps DEF RelayHandles
  <1>4. CASE c.op = "refresh"
    BY <1>1, <1>2, <1>4, AnswerViewersKeeps DEF RelayHandles
  <1>5. CASE c.op = "list"
    BY <1>1, <1>2, <1>5, AnswerViewersKeeps DEF RelayHandles
  <1>6. CASE c.op = "approve"
    BY <1>1, <1>2, <1>6, DecideKeeps, CommandTypes DEF RelayHandles
  <1>7. CASE c.op = "reject"
    BY <1>1, <1>2, <1>7, DecideKeeps, CommandTypes DEF RelayHandles
  <1>8. CASE c.op = "kick"
    BY <1>1, <1>2, <1>8, ModerateKeeps, CommandTypes DEF RelayHandles
  <1> QED BY <1>3, <1>4, <1>5, <1>6, <1>7, <1>8, CommandTypes

(***************************************************************************)
(* The connection, the window and the client.                              *)
(***************************************************************************)
\* A room that nobody hosts.
LEMMA UnhostedKeeps ==
    ASSUME HostListsInv, HostListsTypeOK', room' \notin {"new", "hosted"},
           waiting' \subseteq waiting, present' \subseteq present,
           room' = "none" => waiting' \cup present' = {},
           toHost' = <<>> \/ (toHost' = toHost /\ (room = "none" => room' = "none")),
           toHost' = <<>> \/ room' = "none",
           \A i \in DOMAIN commands' : commands'[i].op = "create" => hosting' \/ room' = "none"
    PROVE  HostListsInv'
  <1>1. waiting' \cap present' = {}
    BY ListsParts DEF RoomLife
  <1>2. RoomLife'
    BY <1>1, ListsParts DEF RoomLife
  <1>3. DecidedAreGone'
    BY ListsParts DEF DecidedAreGone
  <1> QED BY <1>2, <1>3 DEF HostListsInv, ListIsCurrent, RequestsArrive

LEMMA GraceEndsKeeps ==
    ASSUME HostListsInv, GraceEnds
    PROVE  HostListsInv'
  <1>1. HostListsTypeOK'
    BY ListsParts DEF GraceEnds, WindowVars, HostListsTypeOK
  <1> QED BY <1>1, UnhostedKeeps DEF GraceEnds, WindowVars

LEMMA EmptyTyped == <<>> \in Seq(Commands) /\ <<>> \in Seq(Replies)
  OBVIOUS

LEMMA ConnectionLostKeeps ==
    ASSUME HostListsInv, ConnectionLost
    PROVE  HostListsInv'
  <1>1. /\ online' = FALSE /\ acting' = "no" /\ commands' = <<>> /\ toHost' = <<>>
        /\ room' = IF room = "hosted" THEN "lost" ELSE room
        /\ UNCHANGED <<waiting, present, hosting, asking, viewers>>
    BY DEF ConnectionLost, Unheard
  <1>2. HostListsTypeOK'
    BY <1>1, ListsParts, EmptyTyped DEF HostListsTypeOK
  <1>3. room' # "hosted"
    BY <1>1
  <1>4. RoomLife'
    BY <1>1, <1>3, ListsParts DEF RoomLife
  <1>5. DecidedAreGone' /\ ListIsCurrent'
    BY <1>1, <1>3 DEF DecidedAreGone, ListIsCurrent
  <1>6. RequestsArrive'
    BY <1>1, <1>3, ListsParts DEF RequestsArrive
  <1> QED BY <1>2, <1>4, <1>5, <1>6 DEF HostListsInv

LEMMA CommandAppended ==
    ASSUME HostListsTypeOK, NEW c \in Commands
    PROVE  /\ Append(commands, c) \in Seq(Commands)
           /\ \A i \in DOMAIN Append(commands, c) :
                 Append(commands, c)[i] = c \/ (i \in DOMAIN commands /\ Append(commands, c)[i] = commands[i])
           /\ \A i \in DOMAIN commands : i \in DOMAIN Append(commands, c) /\ Append(commands, c)[i] = commands[i]
           /\ \E i \in DOMAIN Append(commands, c) : Append(commands, c)[i] = c
  <1>1. commands \in Seq(Commands)
    BY ListTypes
  <1>2. PICK n \in Nat : n = Len(commands) /\ DOMAIN commands = 1..n
    BY <1>1
  <1>3. /\ Append(commands, c) \in Seq(Commands) /\ DOMAIN Append(commands, c) = 1..n + 1
        /\ \A i \in 1..n : Append(commands, c)[i] = commands[i]
        /\ Append(commands, c)[n + 1] = c
    BY <1>1, <1>2
  <1>4. n + 1 \in 1..n + 1 /\ \A i \in 1..n + 1 : i = n + 1 \/ i \in 1..n
    BY <1>2
  <1> QED BY <1>2, <1>3, <1>4

LEMMA CommandsMade ==
    /\ \A op \in {"create", "refresh", "list"} : [op |-> op] \in Commands
    /\ Presses \subseteq Commands
  BY DEF Commands

LEMMA ConnectionBackKeeps ==
    ASSUME HostListsInv, ConnectionBack
    PROVE  HostListsInv'
  <1>1. PICK c \in Commands : c = [op |-> "create"] /\ c.op = "create"
    BY CommandsMade
  <1>2. /\ ~online /\ hosting /\ online' = TRUE /\ commands' = Append(commands, c)
        /\ UNCHANGED <<room, waiting, present, hosting, acting, toHost, asking, viewers>>
    BY <1>1 DEF ConnectionBack, RelaysVars
  <1>3. room \notin {"hosted", "new"}
    BY <1>2, ListsParts DEF RoomLife
  <1>4. HostListsTypeOK'
    BY <1>2, ListsParts, CommandAppended DEF HostListsTypeOK
  <1>5. RoomLife'
    BY <1>2, <1>3, ListsParts DEF RoomLife
  <1> QED BY <1>2, <1>3, <1>4, <1>5, ListsParts
          DEF HostListsInv, DecidedAreGone, ListIsCurrent, RequestsArrive

LEMMA StartRoomKeeps ==
    ASSUME HostListsInv, StartRoom
    PROVE  HostListsInv'
  <1>1. PICK c \in Commands : c = [op |-> "create"] /\ c.op = "create"
    BY CommandsMade
  <1>2. /\ ~hosting /\ room = "none" /\ acting' = "creating" /\ online' = TRUE /\ room' = "new"
        /\ commands' = <<c>> /\ toHost' = <<>>
        /\ UNCHANGED <<waiting, present, hosting, asking, viewers>>
    BY <1>1 DEF StartRoom
  <1>3. <<c>> \in Seq(Commands)
    OBVIOUS
  <1>4. HostListsTypeOK'
    BY <1>2, <1>3, ListsParts, EmptyTyped DEF HostListsTypeOK
  <1>5. RoomLife'
    BY <1>1, <1>2, ListsParts DEF RoomLife
  <1>6. waiting' = {}
    BY <1>2, ListsParts DEF RoomLife
  <1> QED BY <1>2, <1>4, <1>5, <1>6 DEF HostListsInv, DecidedAreGone, ListIsCurrent, RequestsArrive

LEMMA LeaveRoomKeeps ==
    ASSUME HostListsInv, LeaveRoom
    PROVE  HostListsInv'
  <1>1. /\ hosting /\ hosting' = FALSE /\ online' = FALSE /\ acting' = acting
        /\ room' = IF room = "hosted" THEN "none" ELSE room
        /\ waiting' = IF room = "hosted" THEN {} ELSE waiting
        /\ present' = IF room = "hosted" THEN {} ELSE present
        /\ asking' = {} /\ viewers' = {} /\ commands' = <<>> /\ toHost' = <<>>
    BY DEF LeaveRoom, Unheard
  <1>2. room # "new"
    BY <1>1, ListsParts DEF RoomLife
  <1>3. room' \in {"none", "lost"}
    BY <1>1, <1>2, ListsParts, ListTypes
  <1>4. HostListsTypeOK'
    BY <1>1, <1>3, ListsParts, EmptyTyped DEF HostListsTypeOK
  <1>5. /\ waiting' \subseteq waiting /\ present' \subseteq present
        /\ room' = "none" => waiting' \cup present' = {}
    BY <1>1, ListsParts DEF RoomLife
  <1>6. \A i \in DOMAIN commands' : FALSE
    BY <1>1
  <1> QED BY <1>1, <1>3, <1>4, <1>5, <1>6, UnhostedKeeps

LEMMA PressKeeps ==
    ASSUME HostListsInv, NEW press \in Presses, Press(press)
    PROVE  HostListsInv'
  <1>1. /\ hosting /\ acting' = "deciding" /\ commands' = Append(commands, press)
        /\ UNCHANGED <<room, waiting, present, online, hosting, toHost, asking, viewers>>
        /\ press \in Commands /\ press.op \in {"approve", "reject", "kick"}
    BY CommandsMade DEF Press, RelaysVars, Presses
  <1>2. HostListsTypeOK'
    BY <1>1, ListsParts, CommandAppended DEF HostListsTypeOK
  <1>3. \A i \in DOMAIN commands' : commands'[i].op = "create" => i \in DOMAIN commands /\ commands[i].op = "create"
    BY <1>1, ListsParts, CommandAppended
  <1>4. \A i \in DOMAIN commands : i \in DOMAIN commands' /\ commands'[i] = commands[i]
    BY <1>1, ListsParts, CommandAppended
  <1>5. RoomLife'
    BY <1>1, <1>3, ListsParts DEF RoomLife
  <1>6. ListIsCurrent'
    BY <1>1, <1>4, ListsParts DEF ListIsCurrent, ListIsAskedFor, ListArrives
  <1>7. DecidedAreGone' /\ RequestsArrive'
    BY <1>1, ListsParts DEF DecidedAreGone, RequestsArrive, RequestArrives, NoneCreatedAfter
  <1> QED BY <1>2, <1>5, <1>6, <1>7 DEF HostListsInv

LEMMA PressTimesOutKeeps ==
    ASSUME HostListsInv, PressTimesOut
    PROVE  HostListsInv'
  <1>1. /\ ~online /\ acting' = "no" /\ commands' = <<>>
        /\ UNCHANGED <<room, waiting, present, online, hosting, toHost, asking, viewers>>
    BY DEF PressTimesOut, RelaysVars
  <1>2. HostListsTypeOK'
    BY <1>1, ListsParts, EmptyTyped DEF HostListsTypeOK
  <1>3. room # "hosted"
    BY <1>1, ListsParts DEF RoomLife
  <1>4. RoomLife'
    BY <1>1, ListsParts DEF RoomLife
  <1> QED BY <1>1, <1>2, <1>3, <1>4, ListsParts
          DEF HostListsInv, DecidedAreGone, ListIsCurrent, RequestsArrive

(***************************************************************************)
(* What the host hears.                                                    *)
(***************************************************************************)
LEMMA Heard ==
    ASSUME HostListsTypeOK, toHost # <<>>, toHost' = Tail(toHost)
    PROVE  /\ Head(toHost) = toHost[1] /\ 1 \in DOMAIN toHost /\ Head(toHost) \in Replies
           /\ toHost' \in Seq(Replies)
           /\ DOMAIN toHost \subseteq Nat \ {0} /\ DOMAIN toHost' \subseteq Nat \ {0}
           /\ \A i \in DOMAIN toHost' : i + 1 \in DOMAIN toHost /\ toHost'[i] = toHost[i + 1]
           /\ \A i \in DOMAIN toHost : i # 1 => i - 1 \in DOMAIN toHost' /\ toHost'[i - 1] = toHost[i]
  <1>1. toHost \in Seq(Replies)
    BY ListTypes
  <1>2. toHost' \in Seq(Replies)
    BY <1>1, TailAt
  <1>3. DOMAIN toHost \subseteq Nat \ {0} /\ DOMAIN toHost' \subseteq Nat \ {0}
    BY <1>1, <1>2
  <1> QED BY <1>1, <1>2, <1>3, TailAt

LEMMA HeardDecided ==
    ASSUME HostListsInv, toHost # <<>>, toHost' = Tail(toHost), UNCHANGED <<waiting, present>>
    PROVE  DecidedAreGone'
  BY ListsParts, Heard DEF DecidedAreGone

LEMMA HeardCreated ==
    ASSUME HostListsTypeOK, toHost # <<>>, toHost' = Tail(toHost), NEW k \in Nat,
           NoneCreatedAfter(k + 1), hosting' = hosting
    PROVE  NoneCreatedAfter(k)'
  <1>1. ASSUME ~hosting, NEW j \in DOMAIN toHost', j > k
        PROVE  toHost'[j].op # "created"
    <2>1. j + 1 \in DOMAIN toHost /\ toHost'[j] = toHost[j + 1] /\ j \in Nat
      BY <1>1, Heard
    <2>2. j + 1 > k + 1
      BY <1>1, <2>1
    <2> QED BY <1>1, <2>1, <2>2 DEF NoneCreatedAfter
  <1> QED BY <1>1 DEF NoneCreatedAfter

LEMMA CreatedKeeps ==
    ASSUME HostListsInv, toHost # <<>>, Head(toHost).op = "created", Created,
           toHost' = Tail(toHost), UNCHANGED <<room, waiting, present, online>>
    PROVE  HostListsInv'
  <1>1. /\ hosting' = TRUE /\ acting' = acting /\ viewers' = viewers
        /\ hosting => asking' = asking /\ commands' = Append(commands, [op |-> "refresh"])
        /\ ~hosting => /\ asking' = {}
                       /\ commands' = commands \o <<[op |-> "refresh"], [op |-> "list"]>>
    BY ListsParts, ListTypes DEF Created
  <1>2. PICK refresh \in Commands, list \in Commands :
           /\ refresh = [op |-> "refresh"] /\ list = [op |-> "list"]
           /\ refresh.op = "refresh" /\ list.op = "list"
    BY CommandsMade
  <1>3. /\ commands' \in Seq(Commands)
        /\ \E i \in DOMAIN commands' : commands'[i].op = "refresh"
    <2>1. CASE hosting
      <3>1. commands' = Append(commands, refresh)
        BY <1>1, <1>2, <2>1
      <3>2. /\ Append(commands, refresh) \in Seq(Commands)
            /\ \E i \in DOMAIN Append(commands, refresh) : Append(commands, refresh)[i] = refresh
        BY ListsParts, CommandAppended
      <3> QED BY <1>2, <3>1, <3>2
    <2>2. CASE ~hosting
      <3>1. PICK more \in Seq(Commands) : more = <<refresh, list>>
        BY ShortSequences, Zenon
      <3>2. commands' = commands \o more /\ 1 \in 1..Len(more) /\ more[1] = refresh
        BY <1>1, <1>2, <2>2, <3>1
      <3>3. PICK n \in Nat : n = Len(commands)
        BY ListsParts, ListTypes
      <3>4. commands' \in Seq(Commands) /\ n + 1 \in DOMAIN commands' /\ commands'[n + 1] = refresh
        BY <3>1, <3>2, <3>3, ListsParts, ListTypes, ConcatAt
      <3> QED BY <1>2, <3>4
    <2> QED BY <2>1, <2>2
  <1>4. HostListsTypeOK'
    BY <1>1, <1>3, ListsParts, Heard DEF HostListsTypeOK
  <1>5. room # "new"
    BY ListsParts DEF RoomLife
  <1>6. RoomLife'
    <2>1. \A i \in DOMAIN toHost' : toHost'[i].op = "gone" => room = "none"
      BY ListsParts, Heard DEF RoomLife
    <2> QED BY <1>1, <1>5, <2>1, ListsParts DEF RoomLife
  <1>7. ListIsCurrent'
    BY <1>3 DEF ListIsCurrent, ListIsAskedFor
  <1>8. RequestsArrive'
    <2> SUFFICES ASSUME ~EarlyRequests, room = "hosted", NEW w \in waiting
                 PROVE  RequestArrives(w)'
      BY <1>5 DEF RequestsArrive
    <2>1. \A k : NoneCreatedAfter(k)'
      BY <1>1 DEF NoneCreatedAfter
    <2>2. CASE w \in asking /\ NoneCreatedAfter(0)
      <3>1. hosting
        BY <2>2, ListsParts, Heard DEF NoneCreatedAfter
      <3> QED BY <1>1, <2>1, <2>2, <3>1 DEF RequestArrives
    <2>3. ASSUME NEW i \in DOMAIN toHost, toHost[i].op = "requested", toHost[i].guest = w
          PROVE  RequestArrives(w)'
      <3>1. i - 1 \in DOMAIN toHost' /\ toHost'[i - 1] = toHost[i]
        BY <2>3, ListsParts, Heard
      <3> QED BY <2>1, <2>3, <3>1 DEF RequestArrives
    <2> QED BY <2>2, <2>3, ListsParts DEF RequestsArrive, RequestArrives
  <1> QED BY <1>4, <1>6, <1>7, <1>8, HeardDecided DEF HostListsInv

LEMMA RoomGoneKeeps ==
    ASSUME HostListsInv, toHost # <<>>, Head(toHost).op = "gone", RoomGone,
           toHost' = Tail(toHost), UNCHANGED <<room, waiting, present, online>>
    PROVE  HostListsInv'
  <1>1. room = "none"
    BY ListsParts, Heard DEF RoomLife
  <1>2. /\ hosting' = FALSE /\ acting' = "no" /\ commands' = commands
        /\ asking' \subseteq asking /\ viewers' \subseteq viewers
    BY DEF RoomGone
  <1>3. HostListsTypeOK'
    BY <1>2, ListsParts, Heard DEF HostListsTypeOK
  <1>4. RoomLife'
    BY <1>1, <1>2, ListsParts DEF RoomLife
  <1> QED BY <1>1, <1>3, <1>4, HeardDecided DEF HostListsInv, ListIsCurrent, RequestsArrive

LEMMA AppliedKeeps ==
    ASSUME HostListsInv, toHost # <<>>, Head(toHost).op \notin {"created", "gone"},
           Applied(Head(toHost)), toHost' = Tail(toHost), UNCHANGED <<room, waiting, present, online>>
    PROVE  HostListsInv'
  <1>1. PICK m \in Replies : m = Head(toHost) /\ m = toHost[1]
    BY ListsParts, Heard
  <1>2. /\ UNCHANGED <<hosting, commands>>
        /\ m.op = "requested" => asking' = asking \cup {m.guest}
        /\ m.op = "done" => asking' = asking \ {m.guest}
        /\ m.op \notin {"requested", "done"} => asking' = asking
    BY <1>1 DEF Applied
  <1>3. /\ m.op \in {"viewers", "listed"} => viewers' = m.shown
        /\ m.op = "removed" => viewers' = viewers \ {m.guest}
        /\ m.op \notin {"viewers", "listed", "removed"} => viewers' = viewers
        /\ acting' = "no" \/ acting' = acting
    BY <1>1 DEF Applied
  <1>4. HostListsTypeOK'
    <2>1. asking' \subseteq Guests /\ viewers' \subseteq Guests
      BY <1>2, <1>3, ListsParts, ListTypes, ReplyTypes
    <2> QED BY <1>2, <1>3, <2>1, ListsParts, Heard DEF HostListsTypeOK
  <1>5. room # "new"
    BY ListsParts DEF RoomLife
  <1>6. RoomLife'
    <2>1. \A i \in DOMAIN toHost' : toHost'[i].op = "gone" => room = "none"
      BY ListsParts, Heard DEF RoomLife
    <2> QED BY <1>2, <1>5, <2>1, ListsParts DEF RoomLife
  <1>7. ListIsCurrent'
    <2> SUFFICES ASSUME room = "hosted", hosting
                 PROVE  ListIsAskedFor' \/ ListArrives'
      BY <1>2 DEF ListIsCurrent
    <2>1. CASE ListIsAskedFor
      BY <1>1, <1>2, <2>1, ListsParts, Heard DEF ListIsAskedFor
    <2>2. CASE viewers = present /\ \A i \in DOMAIN toHost : ~IsList(toHost[i])
      <3>1. \A i \in DOMAIN toHost' : ~IsList(toHost'[i])
        BY <2>2, ListsParts, Heard DEF IsList
      <3>2. m.op \notin {"viewers", "listed"}
        BY <1>1, <2>2, ListsParts, Heard DEF IsList
      <3>3. m.op = "removed" => m.guest \notin present
        BY <1>1, ListsParts, Heard DEF DecidedAreGone
      <3>4. viewers' = present'
        BY <1>3, <2>2, <3>2, <3>3
      <3> QED BY <3>1, <3>4 DEF ListArrives, IsList
    <2>3. ASSUME NEW i \in DOMAIN toHost, IsList(toHost[i]), toHost[i].shown = present,
                 \A j \in DOMAIN toHost : j > i => ~IsList(toHost[j])
          PROVE  ListArrives'
      <3>1. ASSUME NEW j \in DOMAIN toHost', j > i - 1
            PROVE  ~IsList(toHost'[j])
        <4>1. j + 1 \in DOMAIN toHost /\ toHost'[j] = toHost[j + 1] /\ j \in Nat /\ i \in Nat
          BY <3>1, ListsParts, Heard
        <4>2. j + 1 > i
          BY <3>1, <4>1
        <4> QED BY <2>3, <4>1, <4>2
      <3>2. CASE i = 1
        <4>1. viewers' = present'
          BY <1>1, <1>3, <2>3, <3>2 DEF IsList
        <4>2. \A j \in DOMAIN toHost' : ~IsList(toHost'[j])
          BY <3>1, <3>2, ListsParts, Heard
        <4> QED BY <4>1, <4>2 DEF ListArrives, IsList
      <3>3. CASE i # 1
        <4>1. i - 1 \in DOMAIN toHost' /\ toHost'[i - 1] = toHost[i]
          BY <3>3, ListsParts, Heard
        <4> QED BY <2>3, <3>1, <4>1 DEF ListArrives, IsList
      <3> QED BY <3>2, <3>3
    <2> QED BY <2>1, <2>2, <2>3, ListsParts DEF ListIsCurrent, ListArrives
  <1>8. RequestsArrive'
    <2> SUFFICES ASSUME ~EarlyRequests, room = "hosted", NEW w \in waiting
                 PROVE  RequestArrives(w)'
      BY <1>5 DEF RequestsArrive
    <2>1. ASSUME NEW k \in Nat, NoneCreatedAfter(k + 1)
          PROVE  NoneCreatedAfter(k)'
      BY <1>2, <2>1, HeardCreated, ListsParts
    <2>2. CASE w \in asking /\ NoneCreatedAfter(0)
      <3>1. m.op = "done" => m.guest # w
        BY <1>1, ListsParts, Heard DEF DecidedAreGone
      <3>2. w \in asking'
        BY <1>2, <2>2, <3>1, ListsParts, Heard
      <3>3. NoneCreatedAfter(0 + 1)
        BY <2>2, ListsParts, Heard DEF NoneCreatedAfter
      <3>4. NoneCreatedAfter(0)'
        BY <2>1, <3>3
      <3> QED BY <3>2, <3>4 DEF RequestArrives
    <2>3. ASSUME NEW i \in DOMAIN toHost, toHost[i].op = "requested", toHost[i].guest = w,
                 NoneCreatedAfter(i)
          PROVE  RequestArrives(w)'
      <3>1. PICK k \in Nat : i = k + 1
        <4>1. i \in Nat \ {0}
          BY ListsParts, Heard
        <4>2. i - 1 \in Nat /\ i = (i - 1) + 1
          BY <4>1
        <4> QED BY <4>2
      <3>2. NoneCreatedAfter(k)'
        BY <2>1, <2>3, <3>1
      <3>3. CASE i = 1
        <4>1. w \in asking' /\ k = 0
          BY <1>1, <1>2, <2>3, <3>1, <3>3
        <4> QED BY <3>2, <4>1 DEF RequestArrives
      <3>4. CASE i # 1
        <4>1. k \in DOMAIN toHost' /\ toHost'[k] = toHost[i]
          <5>1. i - 1 \in DOMAIN toHost' /\ toHost'[i - 1] = toHost[i]
            BY <3>4, ListsParts, Heard
          <5>2. i - 1 = k
            BY <3>1
          <5> QED BY <5>1, <5>2
        <4> QED BY <2>3, <3>2, <4>1 DEF RequestArrives
      <3> QED BY <3>3, <3>4
    <2> QED BY <2>2, <2>3, ListsParts DEF RequestsArrive, RequestArrives
  <1> QED BY <1>4, <1>6, <1>7, <1>8, HeardDecided DEF HostListsInv

LEMMA NextLists ==
    ASSUME HostListsInv, [HostListsNext]_hostListVars
    PROVE  HostListsInv'
  <1>1. CASE HostHears
    <2>1. /\ toHost # <<>> /\ toHost' = Tail(toHost) /\ UNCHANGED <<room, waiting, present, online>>
      BY <1>1 DEF HostHears, RelaysVars
    <2>2. CASE Head(toHost).op = "created"
      BY <1>1, <2>1, <2>2, CreatedKeeps DEF HostHears
    <2>3. CASE Head(toHost).op = "gone"
      BY <1>1, <2>1, <2>3, RoomGoneKeeps DEF HostHears
    <2>4. CASE Head(toHost).op \notin {"created", "gone"}
      BY <1>1, <2>1, <2>4, AppliedKeeps DEF HostHears
    <2> QED BY <2>2, <2>3, <2>4
  <1>2. CASE UNCHANGED hostListVars
    BY <1>2 DEF hostListVars, HostListsInv, HostListsTypeOK, RoomLife, DecidedAreGone, ListIsCurrent,
                ListIsAskedFor, ListArrives, RequestsArrive, RequestArrives, NoneCreatedAfter
  <1>3. CASE \E v \in Guests : GuestJoins(v) \/ GuestGoes(v)
    BY <1>3, GuestJoinsKeeps, GuestGoesKeeps
  <1>4. CASE \E press \in Presses : Press(press)
    BY <1>4, PressKeeps
  <1> QED BY <1>1, <1>2, <1>3, <1>4, RelayHandlesKeeps, GraceEndsKeeps, ConnectionLostKeeps,
             ConnectionBackKeeps, StartRoomKeeps, PressTimesOutKeeps, LeaveRoomKeeps
          DEF HostListsNext

\* What is under way to the host makes up for what it does not see yet.
THEOREM ListsInductive == HostListsSpec => []HostListsInv
  BY InitLists, NextLists, PTL DEF HostListsSpec

\* Once everything sent has arrived, the host sees exactly the viewers of its room, also
\* when requests are made before its socket is bound.
THEOREM ViewersSeen == HostListsSpec => []ViewersAreShown
  <1>1. ASSUME HostListsInv
        PROVE  ViewersAreShown
    <2> SUFFICES ASSUME Settled
                 PROVE  viewers = present
      BY DEF ViewersAreShown
    <2>1. ~ListIsAskedFor
      BY DEF Settled, ListIsAskedFor
    <2>2. ListArrives
      BY <1>1, <2>1, ListsParts DEF Settled, ListIsCurrent
    <2> QED BY <2>2 DEF Settled, ListArrives
  <1> QED BY <1>1, ListsInductive, PTL

\* If nobody can ask before the host's socket is bound to a new room, the host also sees
\* everybody who waits for it to decide.
THEOREM RoomIsSeen == ASSUME ~EarlyRequests PROVE HostListsSpec => []HostSeesRoom
  <1>1. ASSUME HostListsInv
        PROVE  WaitingIsShown
    <2> SUFFICES ASSUME Settled, NEW w \in waiting
                 PROVE  w \in asking
      BY DEF WaitingIsShown
    <2>1. RequestArrives(w)
      BY <1>1, ListsParts DEF Settled, RequestsArrive
    <2> QED BY <2>1 DEF Settled, RequestArrives
  <1>2. HostSeesRoom <=> WaitingIsShown /\ ViewersAreShown
    BY DEF HostSeesRoom
  <1> QED BY <1>1, <1>2, ListsInductive, ViewersSeen, PTL

(***************************************************************************)
(* Sequence numbers.                                                       *)
(***************************************************************************)
LEMMA ModRange == ASSUME NEW m \in Nat \ {0}, NEW x \in Int PROVE x % m \in 0..m - 1
  OBVIOUS

LEMMA ModDivides ==
    ASSUME NEW m \in Nat \ {0}, NEW x \in Int
    PROVE  x = m * (x \div m) + (x % m) /\ x \div m \in Int
  OBVIOUS

LEMMA ModSmall == ASSUME NEW m \in Nat \ {0}, NEW x \in 0..m - 1 PROVE x % m = x
  OBVIOUS

LEMMA SmallMultiple ==
    ASSUME NEW m \in Nat \ {0}, NEW k \in Int, m * k < m, m * k > 0 - m
    PROVE  k = 0
  <1>1. CASE k >= 1
    <2>1. m * k >= m
      BY <1>1
    <2> QED BY <2>1
  <1>2. CASE k <= -1
    <2>1. m * k <= -m
      BY <1>2
    <2> QED BY <2>1
  <1> QED BY <1>1, <1>2

LEMMA ModSame ==
    ASSUME NEW m \in Nat \ {0}, NEW x \in Int, NEW y \in Int, NEW k \in Int, x = m * k + y
    PROVE  x % m = y % m
  <1>1. x = m * (x \div m) + (x % m) /\ x \div m \in Int /\ x % m \in 0..m - 1
    BY ModDivides, ModRange
  <1>2. y = m * (y \div m) + (y % m) /\ y \div m \in Int /\ y % m \in 0..m - 1
    BY ModDivides, ModRange
  <1>3. PICK a \in Int, b \in Int, c \in 0..m - 1, d \in 0..m - 1 :
           a = x \div m /\ b = y \div m /\ c = x % m /\ d = y % m
    BY <1>1, <1>2
  <1>4. x = m * a + c /\ y = m * b + d
    BY <1>1, <1>2, <1>3
  <1>5. m * (k + b - a) = c - d
    BY <1>4
  <1>6. k + b - a = 0
    BY <1>5, SmallMultiple
  <1> QED BY <1>3, <1>5, <1>6

LEMMA ModOfSum ==
    ASSUME NEW m \in Nat \ {0}, NEW x \in Int, NEW y \in Int
    PROVE  ((x % m) + y) % m = (x + y) % m
  <1>1. x = m * (x \div m) + (x % m) /\ x \div m \in Int /\ x % m \in Int
    BY ModDivides, ModRange
  <1>2. PICK k \in Int, r \in Int : k = x \div m /\ r = x % m /\ x = m * k + r
    BY <1>1
  <1>3. PICK u \in Int, v \in Int : u = x + y /\ v = r + y
    OBVIOUS
  <1>4. u = m * k + v
    BY <1>2, <1>3
  <1>5. u % m = v % m
    BY <1>4, ModSame
  <1> QED BY <1>2, <1>3, <1>5

LEMMA ModOfDifference ==
    ASSUME NEW m \in Nat \ {0}, NEW x \in Int, NEW y \in Int
    PROVE  (x - (y % m)) % m = (x - y) % m
  <1>1. y = m * (y \div m) + (y % m) /\ y \div m \in Int /\ y % m \in Int
    BY ModDivides, ModRange
  <1>2. PICK k \in Int, r \in Int : k = y \div m /\ r = y % m /\ y = m * k + r
    BY <1>1
  <1>3. PICK u \in Int, v \in Int : u = x - r /\ v = x - y
    OBVIOUS
  <1>4. u = m * k + v
    BY <1>2, <1>3
  <1>5. u % m = v % m
    BY <1>4, ModSame
  <1> QED BY <1>2, <1>3, <1>5

LEMMA HalfIsEnough ==
    /\ Modulus \in Nat \ {0} /\ Half \in Nat /\ MaxLoss \in Nat
    /\ MaxLoss + 1 <= Half - 1 /\ MaxLoss + 2 < Modulus
  <1>1. Modulus = 2 * (Modulus \div 2) + (Modulus % 2) /\ Modulus \div 2 \in Int
    BY PathAssumption, ModDivides
  <1>2. PICK h \in Int : h = Half /\ Modulus = 2 * h
    BY <1>1, PathAssumption DEF Half
  <1> QED BY <1>2, PathAssumption

LEMMA ForwardRange ==
    ASSUME NEW a \in Int, NEW b \in Int
    PROVE  Forward(a, b) \in 0..Modulus - 1 /\ Forward(a, b) \in Int
  <1>1. Modulus \in Nat \ {0}
    BY PathAssumption
  <1>2. PICK d \in Int : d = b - a
    OBVIOUS
  <1>3. d % Modulus \in 0..Modulus - 1
    BY <1>1, ModRange
  <1> QED BY <1>1, <1>2, <1>3 DEF Forward

\* The way from one number over another to a third is as long as both together.
LEMMA ForwardOver ==
    ASSUME NEW a \in Int, NEW b \in Int, NEW c \in Int, Forward(a, b) + Forward(b, c) < Modulus
    PROVE  Forward(a, c) = Forward(a, b) + Forward(b, c)
  <1>1. Modulus \in Nat \ {0}
    BY PathAssumption
  <1>2. PICK d \in Int, e \in Int : d = b - a /\ e = c - b /\ d + e = c - a
    OBVIOUS
  <1>3. d % Modulus \in 0..Modulus - 1 /\ e % Modulus \in 0..Modulus - 1
    BY <1>1, ModRange
  <1>4. PICK f \in Int, g \in Int : f = d % Modulus /\ g = e % Modulus /\ f >= 0 /\ g >= 0
    BY <1>1, <1>3
  <1>5. Forward(a, b) = f /\ Forward(b, c) = g
    BY <1>2, <1>4 DEF Forward
  <1>6. Forward(a, c) = (d + e) % Modulus
    BY <1>2 DEF Forward
  <1>7. (d + e) % Modulus = (f + e) % Modulus
    BY <1>1, <1>4, ModOfSum
  <1>8. (e + f) % Modulus = (g + f) % Modulus
    <2>1. ((e % Modulus) + f) % Modulus = (e + f) % Modulus
      BY <1>1, ModOfSum
    <2> QED BY <1>4, <2>1
  <1>9. f + e = e + f /\ g + f = f + g
    OBVIOUS
  <1>10. (f + g) % Modulus = f + g
    <2>1. f + g \in 0..Modulus - 1
      BY <1>1, <1>4, <1>5
    <2> QED BY <1>1, <2>1, ModSmall
  <1> QED BY <1>5, <1>6, <1>7, <1>8, <1>9, <1>10

LEMMA ForwardToNext ==
    ASSUME NEW b \in Int
    PROVE  NextSequence(b) \in Sequences /\ NextSequence(b) \in Int /\ Forward(b, NextSequence(b)) = 1
  <1>1. Modulus \in Nat \ {0} /\ Modulus > 1
    BY PathAssumption
  <1>2. PICK u \in Int, v \in Int : u = b + 1 /\ v = 0 - b
    OBVIOUS
  <1>3. u % Modulus \in 0..Modulus - 1
    BY <1>1, ModRange
  <1>4. PICK c \in Int : c = u % Modulus /\ c \in Sequences
    BY <1>1, <1>3 DEF Sequences
  <1>5. NextSequence(b) = c
    BY <1>2, <1>4 DEF NextSequence
  <1>6. (c + v) % Modulus = (u + v) % Modulus
    BY <1>1, <1>4, ModOfSum
  <1>7. c + v = c - b /\ u + v = 1
    BY <1>2
  <1>8. 1 % Modulus = 1
    BY <1>1, ModSmall
  <1>9. Forward(b, c) = 1
    BY <1>6, <1>7, <1>8 DEF Forward
  <1> QED BY <1>4, <1>5, <1>9

\* A numbering host gives frames numbers as far apart as the frames are.
LEMMA NumberApart ==
    ASSUME sent \in Int, outSequence \in Int, NEW k \in Int, NEW l \in Int,
           k <= l, l - k < Modulus
    PROVE  Forward(NumberOf(k), NumberOf(l)) = l - k
  <1>1. Modulus \in Nat \ {0}
    BY PathAssumption
  <1>2. PICK x \in Int, y \in Int, z \in Int : /\ y = outSequence - (sent + 1 - k) /\ z = 0 - y
                                   /\ x = outSequence - (sent + 1 - l) /\ x + z = l - k
    OBVIOUS
  <1>3. x % Modulus \in 0..Modulus - 1
    BY <1>1, ModRange
  <1>4. PICK r \in Int : r = x % Modulus
    BY <1>1, <1>3
  <1>5. NumberOf(k) = y % Modulus /\ NumberOf(l) = r
    BY <1>2, <1>4 DEF NumberOf
  <1>6. (r - (y % Modulus)) % Modulus = (r - y) % Modulus
    BY <1>1, ModOfDifference
  <1>7. (r + z) % Modulus = (x + z) % Modulus
    BY <1>1, <1>4, ModOfSum
  <1>8. r - y = r + z
    BY <1>2
  <1>9. (l - k) % Modulus = l - k
    <2>1. PICK d \in 0..Modulus - 1 : d = l - k
      BY <1>1
    <2> QED BY <1>1, <2>1, ModSmall
  <1> QED BY <1>2, <1>5, <1>6, <1>7, <1>8, <1>9 DEF Forward

\* A host that sends another frame numbers the earlier ones as before.
LEMMA NumberKept ==
    ASSUME sent \in Int, outSequence \in Int, NEW n \in Int,
           sent' = sent + 1, outSequence' = NextSequence(outSequence)
    PROVE  NumberOf(n)' = NumberOf(n)
  <1>1. Modulus \in Nat \ {0}
    BY PathAssumption
  <1>2. PICK x \in Int, y \in Int : /\ x = outSequence + 1 /\ y = 0 - (sent + 2 - n)
                                    /\ x + y = outSequence - (sent + 1 - n)
    OBVIOUS
  <1>3. x % Modulus \in 0..Modulus - 1
    BY <1>1, ModRange
  <1>4. PICK r \in Int : r = x % Modulus
    BY <1>1, <1>3
  <1>5. outSequence' = r
    BY <1>2, <1>4 DEF NextSequence
  <1>6. (r + y) % Modulus = (x + y) % Modulus
    BY <1>1, <1>4, ModOfSum
  <1>7. r - ((sent + 1) + 1 - n) = r + y
    BY <1>2
  <1>8. NumberOf(n)' = (r - ((sent + 1) + 1 - n)) % Modulus
    BY <1>5 DEF NumberOf
  <1> QED BY <1>2, <1>6, <1>7, <1>8 DEF NumberOf

LEMMA NumberIsSequence ==
    ASSUME sent \in Int, outSequence \in Sequences
    PROVE  /\ \A n \in Int : NumberOf(n) \in Sequences
           /\ NumberOf(sent + 1) = outSequence
  <1>1. Modulus \in Nat \ {0} /\ outSequence \in Int /\ outSequence \in 0..Modulus - 1
    BY PathAssumption DEF Sequences
  <1>2. ASSUME NEW n \in Int PROVE NumberOf(n) \in Sequences
    <2>1. PICK x \in Int : x = outSequence - (sent + 1 - n)
      BY <1>1
    <2>2. x % Modulus \in 0..Modulus - 1
      BY <1>1, ModRange
    <2> QED BY <2>1, <2>2 DEF NumberOf, Sequences
  <1>3. outSequence - (sent + 1 - (sent + 1)) = outSequence
    BY <1>1
  <1>4. outSequence % Modulus = outSequence
    BY <1>1, ModSmall
  <1> QED BY <1>2, <1>3, <1>4 DEF NumberOf

(***************************************************************************)
(* Counting lost frames.                                                   *)
(***************************************************************************)
Among(L, m, n) == {k \in L : m < k /\ k < n}

LEMMA LostIsAmong == ASSUME NEW m, NEW n PROVE LostBetween(m, n) = Cardinality(Among(lost, m, n))
  BY DEF LostBetween, Among

LEMMA LostIsAmongAfter ==
    ASSUME NEW m, NEW n PROVE LostBetween(m, n)' = Cardinality(Among(lost', m, n))
  BY DEF LostBetween, Among

LEMMA AmongFinite ==
    ASSUME NEW L \in SUBSET Int, NEW m \in Int, NEW n \in Int
    PROVE  /\ IsFiniteSet(Among(L, m, n)) /\ Cardinality(Among(L, m, n)) \in Nat
           /\ m < n => Cardinality(Among(L, m, n)) <= n - m - 1
           /\ n <= m + 1 => Cardinality(Among(L, m, n)) = 0
  <1> DEFINE I == m + 1..n - 1
  <1>1. IsFiniteSet(I) /\ Cardinality(I) = IF m + 1 > n - 1 THEN 0 ELSE (n - 1) - (m + 1) + 1
    BY FS_Interval
  <1>2. Among(L, m, n) \subseteq I
    <2> SUFFICES ASSUME NEW x \in Among(L, m, n) PROVE x \in I
      OBVIOUS
    <2>1. x \in Int /\ m < x /\ x < n
      BY DEF Among
    <2> QED BY <2>1
  <1>3. /\ IsFiniteSet(Among(L, m, n)) /\ Cardinality(Among(L, m, n)) \in Nat
        /\ Cardinality(Among(L, m, n)) <= Cardinality(I)
    <2> HIDE DEF I
    <2> QED BY <1>1, <1>2, FS_Subset, FS_CardinalityType
  <1> HIDE DEF I
  <1> QED BY <1>1, <1>3

\* All frames between two are lost.
LEMMA AmongAll ==
    ASSUME NEW L \in SUBSET Int, NEW m \in Int, NEW n \in Int, m < n,
           \A k \in m + 1..n - 1 : k \in L
    PROVE  Cardinality(Among(L, m, n)) = n - m - 1
  <1>1. Cardinality(m + 1..n - 1) = n - m - 1
    BY FS_Interval
  <1>2. Among(L, m, n) = m + 1..n - 1
    <2>1. \A x : x \in Among(L, m, n) <=> x \in L /\ m < x /\ x < n
      BY DEF Among
    <2>2. ASSUME NEW x PROVE x \in Among(L, m, n) <=> x \in m + 1..n - 1
      <3>1. x \in L => x \in Int
        OBVIOUS
      <3> QED BY <2>1, <3>1
    <2> QED BY <2>2
  <1> QED BY <1>1, <1>2

LEMMA AmongSplit ==
    ASSUME NEW L \in SUBSET Int, NEW m \in Int, NEW k \in Int, NEW n \in Int,
           m <= k, k < n, k \notin L
    PROVE  Cardinality(Among(L, m, n)) = Cardinality(Among(L, m, k)) + Cardinality(Among(L, k, n))
  <1> DEFINE A == Among(L, m, k)
             B == Among(L, k, n)
  <1>1. Among(L, m, n) = A \cup B /\ A \cap B = {}
    <2>1. \A x, i, j : x \in Among(L, i, j) <=> x \in L /\ i < x /\ x < j
      BY DEF Among
    <2>2. ASSUME NEW x
          PROVE  (x \in Among(L, m, n) <=> x \in A \/ x \in B) /\ ~(x \in A /\ x \in B)
      <3>1. x \in L => x \in Int /\ x # k
        OBVIOUS
      <3> QED BY <2>1, <3>1
    <2> HIDE DEF A, B
    <2> QED BY <2>2
  <1>2. IsFiniteSet(A) /\ IsFiniteSet(B) /\ Cardinality(A) \in Nat /\ Cardinality(B) \in Nat
    BY AmongFinite
  <1>3. Cardinality(A \cup B) = Cardinality(A) + Cardinality(B) - Cardinality(A \cap B)
    <2> HIDE DEF A, B
    <2> QED BY <1>2, FS_Union
  <1>4. Cardinality({}) = 0
    BY FS_EmptySet
  <1> HIDE DEF A, B
  <1>5. Cardinality(A \cup B) = Cardinality(A) + Cardinality(B)
    <2>1. PICK a \in Nat, b \in Nat : a = Cardinality(A) /\ b = Cardinality(B)
      BY <1>2 DEF A, B
    <2>2. Cardinality(A \cap B) = 0
      BY <1>1, <1>4
    <2> QED BY <1>3, <2>1, <2>2
  <1> QED BY <1>1, <1>5 DEF A, B

LEMMA AmongAdded ==
    ASSUME NEW L \in SUBSET Int, NEW m \in Int, NEW k \in Int, NEW n \in Int,
           m < k, k < n, k \notin L
    PROVE  Cardinality(Among(L \cup {k}, m, n)) = Cardinality(Among(L, m, n)) + 1
  <1> DEFINE A == Among(L, m, n)
  <1>1. Among(L \cup {k}, m, n) = A \cup {k} /\ k \notin A
    BY DEF Among
  <1>2. IsFiniteSet(A)
    BY AmongFinite
  <1> HIDE DEF A
  <1>3. Cardinality(A \cup {k}) = Cardinality(A) + 1
    BY <1>1, <1>2, FS_AddElement
  <1> QED BY <1>1, <1>3 DEF A

\* What is lost elsewhere does not count.
LEMMA AmongAgrees ==
    ASSUME NEW L \in SUBSET Int, NEW K \in SUBSET Int, NEW m \in Int, NEW n \in Int,
           NEW o \in Int, NEW p \in Int,
           \A k \in Int : (k \in L /\ m < k /\ k < n) <=> (k \in K /\ o < k /\ k < p)
    PROVE  Among(L, m, n) = Among(K, o, p)
  BY DEF Among

(***************************************************************************)
(* Frames on their way.                                                    *)
(***************************************************************************)
LEMMA PathConstants ==
    /\ Modulus \in Nat \ {0} /\ MaxSent \in Nat /\ MaxBreaks \in Nat /\ MaxFlight \in Nat
    /\ MaxLoss \in Nat /\ 0 \in Sequences /\ Sequences \subseteq Int /\ NoSequence \in Int
    /\ NoSequence \notin Sequences
  BY PathAssumption DEF Sequences, NoSequence

LEMMA PathTypes ==
    ASSUME PathTypeOK
    PROVE  /\ sent \in Int /\ 0 <= sent /\ sent <= MaxSent
           /\ numbered \in BOOLEAN /\ outSequence \in Sequences /\ outSequence \in Int
           /\ lost \in SUBSET Int /\ vanished \in SUBSET Int
           /\ first \in Int /\ 0 <= first /\ newest \in Int /\ 0 <= newest
           /\ restartAt \in Int /\ 0 <= restartAt /\ renumberedAt \in Int /\ 0 <= renumberedAt
           /\ Len(toRelay) \in Nat /\ DOMAIN toRelay = 1..Len(toRelay)
           /\ Len(toViewer) \in Nat /\ DOMAIN toViewer = 1..Len(toViewer)
           /\ Left \in Int /\ Left <= sent
           /\ breaks \in Int
  <1>1. Frames \subseteq Int
    BY PathConstants DEF Frames
  <1>2. /\ sent \in 0..MaxSent /\ numbered \in BOOLEAN /\ outSequence \in Sequences
        /\ first \in 0..MaxSent /\ newest \in 0..MaxSent /\ breaks \in 0..MaxBreaks
        /\ restartAt \in 0..MaxSent /\ renumberedAt \in 0..MaxSent
        /\ lost \subseteq Frames /\ vanished \subseteq Frames
        /\ toRelay \in Seq(Packets) /\ toViewer \in Seq(Packets \cup {Reset})
    BY DEF PathTypeOK
  <1>3. Len(toRelay) \in Nat /\ DOMAIN toRelay = 1..Len(toRelay)
    BY <1>2
  <1>4. Len(toViewer) \in Nat /\ DOMAIN toViewer = 1..Len(toViewer)
    BY <1>2
  <1> QED BY <1>1, <1>2, <1>3, <1>4, PathConstants DEF Left

LEMMA PacketParts ==
    /\ \A p \in Packets : p.n \in Frames /\ p.seq \in Sequences \cup {NoSequence} /\ p # Reset
    /\ \A n \in Frames, q \in Sequences \cup {NoSequence} : [n |-> n, seq |-> q] \in Packets
    /\ Reset.n = 0
  BY PathConstants DEF Packets, Reset, Frames

LEMMA InitPathTypes == PathInit => PathTypeOK
  BY PathConstants DEF PathInit, PathTypeOK, NoStats

\* What MotionSequenceTracker.accept does with a number.
LEMMA AcceptCases ==
    ASSUME PathTypeOK, NEW q \in Sequences \cup {NoSequence}, tracker' = Accept(q)
    PROVE  /\ tracker' \in [last : Sequences \cup {NoSequence},
                            accepted : Nat, refused : Nat, lost : Nat]
           /\ \/ /\ tracker.last = NoSequence /\ tracker'.last = q
                 /\ tracker'.accepted > tracker.accepted
                 /\ tracker'.refused = tracker.refused /\ tracker'.lost = tracker.lost
              \/ /\ tracker.last # NoSequence /\ tracker'.last = q
                 /\ tracker'.accepted > tracker.accepted
                 /\ IsNewer(tracker.last, q) /\ tracker'.refused = tracker.refused
                 /\ tracker'.lost = tracker.lost + Forward(tracker.last, q) - 1
              \/ /\ tracker.last # NoSequence /\ ~IsNewer(tracker.last, q)
                 /\ tracker'.accepted = tracker.accepted /\ tracker'.last = tracker.last
                 /\ tracker'.refused > tracker.refused /\ tracker'.lost = tracker.lost
  <1>1. tracker \in [last : Sequences \cup {NoSequence}, accepted : Nat, refused : Nat, lost : Nat]
    BY DEF PathTypeOK
  <1>2. Forward(tracker.last, q) \in Int
    BY <1>1, PathConstants, ForwardRange
  <1>3. [tracker EXCEPT !.last = q] \in
           [last : Sequences \cup {NoSequence}, accepted : Nat, refused : Nat, lost : Nat]
    BY <1>1
  <1>4. [tracker EXCEPT !.last = q, !.accepted = @ + 1] \in
           [last : Sequences \cup {NoSequence}, accepted : Nat, refused : Nat, lost : Nat]
    <2>1. PICK n \in Nat : n = tracker.accepted + 1
      BY <1>1
    <2>2. PICK t \in [last : Sequences \cup {NoSequence}, accepted : Nat, refused : Nat, lost : Nat] :
             t = [tracker EXCEPT !.last = q]
      BY <1>3
    <2>3. [t EXCEPT !.accepted = n] \in
             [last : Sequences \cup {NoSequence}, accepted : Nat, refused : Nat, lost : Nat]
      OBVIOUS
    <2> QED BY <2>1, <2>2, <2>3
  <1>5. CASE tracker.last = NoSequence
    <2>1. tracker' = [tracker EXCEPT !.last = q, !.accepted = @ + 1]
      BY <1>5 DEF Accept
    <2>2. tracker' \in [last : Sequences \cup {NoSequence}, accepted : Nat, refused : Nat, lost : Nat]
      BY <2>1, <1>3, <1>4
    <2>3. /\ tracker'.last = q /\ tracker'.accepted = tracker.accepted + 1
          /\ tracker'.refused = tracker.refused /\ tracker'.lost = tracker.lost
      BY <1>1, <2>1
    <2>4. tracker'.accepted > tracker.accepted
      BY <1>1, <2>3
    <2> QED BY <1>5, <2>2, <2>3, <2>4
  <1>6. CASE tracker.last # NoSequence /\ IsNewer(tracker.last, q)
    <2>1. PICK d \in Int : d = Forward(tracker.last, q) /\ d >= 1
      BY <1>2, <1>6, HalfIsEnough DEF IsNewer
    <2>2. tracker' = [tracker EXCEPT !.last = q, !.accepted = @ + 1, !.lost = @ + d - 1]
      BY <1>6, <2>1 DEF Accept
    <2>3. tracker.lost + d - 1 \in Nat
      BY <1>1, <2>1
    <2>4. tracker' \in [last : Sequences \cup {NoSequence}, accepted : Nat, refused : Nat, lost : Nat]
      <3>1. PICK t \in [last : Sequences \cup {NoSequence}, accepted : Nat, refused : Nat, lost : Nat] :
               t = [tracker EXCEPT !.last = q, !.accepted = @ + 1]
        BY <1>3, <1>4
      <3>2. PICK l \in Nat : l = tracker.lost + d - 1
        BY <2>3
      <3>3. tracker' = [t EXCEPT !.lost = l]
        BY <2>2, <3>1, <3>2
      <3> QED BY <3>3
    <2>5. /\ tracker'.last = q /\ tracker'.accepted = tracker.accepted + 1
          /\ tracker'.refused = tracker.refused /\ tracker'.lost = tracker.lost + d - 1
      BY <1>1, <2>2
    <2>6. tracker'.accepted > tracker.accepted
      BY <1>1, <2>5
    <2> QED BY <1>6, <2>1, <2>4, <2>5, <2>6
  <1>7. CASE tracker.last # NoSequence /\ ~IsNewer(tracker.last, q)
    <2>1. tracker' = [tracker EXCEPT !.refused = @ + 1]
      BY <1>7 DEF Accept
    <2> QED BY <1>1, <1>7, <2>1
  <1> QED BY <1>5, <1>6, <1>7

LEMMA NextPathTypes ==
    ASSUME PathTypeOK, TrackerBegins, PathNext
    PROVE  PathTypeOK'
  <1> USE PathConstants
  <1>1. CASE HostSends
    <2>1. [n |-> sent + 1, seq |-> IF numbered THEN outSequence ELSE NoSequence] \in Packets
      <3>1. sent + 1 \in Frames
        BY <1>1 DEF HostSends, PathTypeOK, Frames
      <3>2. (IF numbered THEN outSequence ELSE NoSequence) \in Sequences \cup {NoSequence}
        BY DEF PathTypeOK
      <3> QED BY <3>1, <3>2, PacketParts
    <2>2. toRelay' \in Seq(Packets)
      BY <1>1, <2>1 DEF HostSends, PathTypeOK
    <2>3. outSequence' \in Sequences
      BY <1>1, PathTypes, ForwardToNext DEF HostSends
    <2>4. sent' \in 0..MaxSent
      BY <1>1 DEF HostSends, PathTypeOK
    <2> QED BY <1>1, <2>2, <2>3, <2>4 DEF HostSends, PathTypeOK
  <1>2. ASSUME NEW i \in DOMAIN toRelay PROVE toRelay[i].n \in Frames
    <2>1. toRelay[i] \in Packets
      BY DEF PathTypeOK
    <2> QED BY <2>1, PacketParts
  <1>3. vanished \cup {toRelay[i].n : i \in DOMAIN toRelay} \subseteq Frames
    BY <1>2 DEF PathTypeOK
  <1>4. CASE HostTakesOver
    <2>1. breaks' \in 0..MaxBreaks
      BY <1>4 DEF HostTakesOver, Break, PathTypeOK
    <2>2. numbered' \in BOOLEAN /\ restartAt' \in 0..MaxSent /\ renumberedAt' \in 0..MaxSent
      BY <1>4 DEF HostTakesOver, PathTypeOK
    <2>3. toRelay' \in Seq(Packets)
      BY <1>4 DEF HostTakesOver
    <2> QED BY <1>3, <1>4, <2>1, <2>2, <2>3 DEF HostTakesOver, PathTypeOK
  <1>5. CASE RoomReopens
    <2>1. breaks' \in 0..MaxBreaks
      BY <1>5 DEF RoomReopens, Break, PathTypeOK
    <2>2. numbered' \in BOOLEAN /\ restartAt' \in 0..MaxSent /\ outSequence' \in Sequences
      BY <1>5 DEF RoomReopens, PathTypeOK
    <2>3. toRelay' \in Seq(Packets) /\ toViewer' \in Seq(Packets \cup {Reset})
      BY <1>5 DEF RoomReopens, PathTypeOK
    <2> QED BY <1>3, <1>5, <2>1, <2>2, <2>3 DEF RoomReopens, PathTypeOK
  <1>6. CASE RelayResetsViewer
    <2>1. breaks' \in 0..MaxBreaks
      BY <1>6 DEF RelayResetsViewer, Break, PathTypeOK
    <2>2. toViewer' \in Seq(Packets \cup {Reset})
      BY <1>6 DEF RelayResetsViewer, PathTypeOK
    <2> QED BY <1>6, <2>1, <2>2 DEF RelayResetsViewer, PathTypeOK
  <1>7. CASE RelayForwards
    <2> DEFINE h == Head(toRelay)
               y == ResolveSequence(h.seq)
    <2>1. /\ h \in Packets
          /\ toViewer' = Append(toViewer, [h EXCEPT !.seq = y])
          /\ lastForwarded' \in {y, lastForwarded}
      <3>1. h \in Packets
        BY <1>7 DEF RelayForwards, PathTypeOK
      <3> QED BY <1>7, <3>1 DEF RelayForwards
    <2>2. y \in Sequences
      <3>1. h.seq \in Sequences \cup {NoSequence}
        BY <2>1, PacketParts
      <3>2. lastForwarded # NoSequence => NextSequence(lastForwarded) \in Sequences
        BY ForwardToNext DEF PathTypeOK
      <3> QED BY <2>1, <3>1, <3>2 DEF ResolveSequence
    <2> HIDE DEF h, y
    <2>3. [h EXCEPT !.seq = y] \in Packets
      BY <2>1, <2>2 DEF Packets
    <2>4. toViewer' \in Seq(Packets \cup {Reset})
      BY <2>1, <2>3 DEF PathTypeOK
    <2>5. toRelay' \in Seq(Packets)
      BY <1>7 DEF RelayForwards, PathTypeOK
    <2>6. lastForwarded' \in Sequences \cup {NoSequence}
      BY <2>1, <2>2 DEF PathTypeOK
    <2> QED BY <1>7, <2>4, <2>5, <2>6 DEF RelayForwards, PathTypeOK
  <1>8. CASE LostBeforeRelay
    <2>1. Head(toRelay).n \in Frames
      BY <1>2, <1>8 DEF LostBeforeRelay, PathTypeOK
    <2>2. toRelay' \in Seq(Packets)
      BY <1>8 DEF LostBeforeRelay, PathTypeOK
    <2>3. lost' \subseteq Frames /\ vanished' \subseteq Frames
      BY <1>8, <2>1 DEF LostBeforeRelay, PathTypeOK
    <2> QED BY <1>8, <2>2, <2>3 DEF LostBeforeRelay, PathTypeOK
  <1>9. ASSUME toViewer # <<>>
        PROVE  Tail(toViewer) \in Seq(Packets \cup {Reset}) /\ Head(toViewer) \in Packets \cup {Reset}
    BY <1>9 DEF PathTypeOK
  <1>10. CASE LostAfterRelay
    <2>1. Head(toViewer).n \in Frames
      BY <1>9, <1>10, PacketParts DEF LostAfterRelay
    <2> QED BY <1>9, <1>10, <2>1 DEF LostAfterRelay, PathTypeOK
  <1>11. CASE ResetReachesViewer
    <2>1. NoStats \in [last : Sequences \cup {NoSequence}, accepted : Nat, refused : Nat, lost : Nat]
      BY DEF NoStats
    <2> QED BY <1>9, <1>11, <2>1 DEF ResetReachesViewer, PathTypeOK
  <1>12. CASE FrameReachesViewer
    <2> DEFINE h == Head(toViewer)
    <2>1. h \in Packets
      BY <1>9, <1>12 DEF FrameReachesViewer
    <2>2. tracker' \in [last : Sequences \cup {NoSequence}, accepted : Nat, refused : Nat, lost : Nat]
      BY <1>12, <2>1, PacketParts, AcceptCases DEF FrameReachesViewer
    <2>3. h.n \in 0..MaxSent
      BY <2>1, PacketParts DEF Frames
    <2>4. first' \in 0..MaxSent /\ newest' \in 0..MaxSent
      BY <1>12, <2>3 DEF FrameReachesViewer, PathTypeOK
    <2> QED BY <1>9, <1>12, <2>2, <2>4 DEF FrameReachesViewer, PathTypeOK
  <1> QED BY <1>1, <1>4, <1>5, <1>6, <1>7, <1>8, <1>10, <1>11, <1>12 DEF PathNext

(***************************************************************************)
(* What the invariant says of frames and their numbers.                    *)
(***************************************************************************)
LEMMA PathParts ==
    ASSUME PathInv
    PROVE  /\ PathTypeOK /\ TrackerBegins
           /\ WaitInTurn /\ ComeInTurn /\ NumbersFollow /\ NextFollows
           /\ NumbersOfOneHost /\ ForwardedLast /\ LossIsBounded
           /\ NewerFramesAccepted /\ LossIsCounted
           /\ renumberedAt <= restartAt /\ restartAt <= Left /\ Left \in Nat
           /\ \A k \in lost \cup vanished : k \in Int /\ 1 <= k /\ k <= Left
           /\ numbered => \A k \in vanished : k <= restartAt
           /\ first <= newest /\ newest <= Left
  <1>1. /\ PathTypeOK /\ TrackerBegins
        /\ WaitInTurn /\ ComeInTurn /\ NumbersFollow /\ NextFollows
        /\ NumbersOfOneHost /\ ForwardedLast /\ LossIsBounded
        /\ NewerFramesAccepted /\ LossIsCounted
    BY DEF PathInv, FramesAreCounted
  <1>2. /\ renumberedAt <= restartAt /\ restartAt <= Left
        /\ lost \cup vanished \subseteq 1..Left
        /\ numbered => \A k \in vanished : k <= restartAt
    BY <1>1 DEF WaitInTurn
  <1>3. first <= newest /\ newest <= Left
    BY <1>1 DEF TrackerBegins
  <1>4. Left \in Nat
    BY <1>1, <1>2, PathTypes
  <1> QED BY <1>1, <1>2, <1>3, <1>4

LEMMA InTurn ==
    ASSUME PathInv, NEW i \in Way, At(i) # Reset
    PROVE  /\ At(i).n \in Int /\ 1 <= At(i).n /\ At(i).n <= Left
           /\ At(i).n \notin lost /\ At(i).n \notin vanished
           /\ At(i).seq \in Sequences /\ At(i).seq \in Int
           /\ numbered /\ At(i).n > restartAt => At(i).seq = NumberOf(At(i).n)
  <1>1. /\ At(i).n \in 1..Left /\ At(i).n \notin lost \cup vanished /\ At(i).seq \in Sequences
        /\ numbered /\ At(i).n > restartAt => At(i).seq = NumberOf(At(i).n)
    BY PathParts DEF ComeInTurn
  <1>2. Left \in Nat
    BY PathParts
  <1>3. At(i).n \in Int /\ 1 <= At(i).n /\ At(i).n <= Left
    BY <1>1, <1>2
  <1>4. At(i).seq \in Int
    BY <1>1, PathConstants
  <1> QED BY <1>1, <1>3, <1>4

LEMMA InOrder ==
    ASSUME PathInv, NEW i \in Way, NEW j \in Way, i < j, At(i) # Reset, At(j) # Reset
    PROVE  At(i).n < At(j).n
  BY PathParts DEF ComeInTurn

LEMMA AllLost ==
    ASSUME PathInv, numbered, NEW m \in Int, NEW n \in Int,
           0 <= m, restartAt <= m, m < n, n <= Left + 1, AllMissing(m, n)
    PROVE  LostBetween(m, n) = n - m - 1 /\ n - m - 1 <= MaxLoss
  <1>1. \A k \in m + 1..n - 1 : k \in lost
    <2> SUFFICES ASSUME NEW k \in m + 1..n - 1 PROVE k \in lost
      OBVIOUS
    <2>1. k \in lost \cup vanished
      BY DEF AllMissing
    <2>2. k \in vanished => k <= restartAt
      BY PathParts
    <2>3. restartAt \in Int
      BY PathParts, PathTypes
    <2> QED BY <2>1, <2>2, <2>3
  <1>2. Cardinality(Among(lost, m, n)) = n - m - 1
    BY <1>1, AmongAll, PathParts, PathTypes
  <1>3. LostBetween(m, n) = n - m - 1
    BY <1>2, LostIsAmong
  <1>4. m \in 0..MaxSent + 1 /\ n \in 0..MaxSent + 1
    BY PathParts, PathTypes, PathConstants
  <1>5. LostBetween(m, n) <= MaxLoss
    BY <1>4, PathParts DEF LossIsBounded
  <1> QED BY <1>3, <1>5

\* The numbers of frames of one host that numbers tell how many were lost.
LEMMA NumbersTell ==
    ASSUME PathInv, numbered, NEW m \in Int, NEW n \in Int,
           0 <= m, restartAt <= m, m < n, n <= Left + 1, AllMissing(m, n)
    PROVE  /\ FarApart(NumberOf(m), NumberOf(n), m, n)
           /\ Forward(NumberOf(m), NumberOf(n)) = n - m
           /\ IsNewer(NumberOf(m), NumberOf(n))
  <1>1. LostBetween(m, n) = n - m - 1 /\ n - m - 1 <= MaxLoss
    BY AllLost
  <1>2. n - m < Modulus /\ n - m >= 1 /\ n - m <= Half - 1 /\ Half \in Nat
    BY <1>1, HalfIsEnough
  <1>3. Forward(NumberOf(m), NumberOf(n)) = n - m
    BY <1>2, NumberApart, PathParts, PathTypes
  <1> QED BY <1>1, <1>2, <1>3 DEF FarApart, IsNewer

LEMMA LostIsNatural ==
    ASSUME PathTypeOK, NEW m \in Int, NEW n \in Int
    PROVE  LostBetween(m, n) \in Nat
  BY AmongFinite, LostIsAmong, PathTypes

\* A frame that is lost leaves gaps that are not longer than before or than MaxLoss.
LEMMA LossStaysBounded ==
    ASSUME PathInv, NEW h \in Int, MayLose(h), lost' \in SUBSET Int,
           lost \subseteq lost', lost' \subseteq lost \cup {h}, vanished' \subseteq vanished \cup {h}
    PROVE  LossIsBounded'
  <1> SUFFICES ASSUME NEW m \in 0..MaxSent + 1, NEW n \in 0..MaxSent + 1, AllMissing(m, n)'
               PROVE  LostBetween(m, n)' <= MaxLoss
    BY DEF LossIsBounded
  <1>1. \A k \in m + 1..n - 1 : k \in lost \cup vanished \cup {h}
    BY DEF AllMissing
  <1>2. LostBetween(m, n)' = Cardinality(Among(lost', m, n))
    BY LostIsAmongAfter
  <1>3. CASE m < h /\ h < n
    <2>1. Cardinality(Among(lost', m, n)) <= n - m - 1 /\ Cardinality(Among(lost', m, n)) \in Nat
      BY <1>3, AmongFinite, PathConstants
    <2>2. n - m - 1 <= MaxLoss
      <3> SUFFICES ASSUME n - m - 1 > MaxLoss PROVE FALSE
        BY PathConstants
      <3>1. PICK k \in Int : /\ h - MaxLoss <= k /\ k <= h
                             /\ m + 1 <= k /\ k + MaxLoss <= n - 1
        <4>1. CASE m + 1 >= h - MaxLoss
          BY <1>3, <4>1, PathConstants
        <4>2. CASE m + 1 < h - MaxLoss
          <5>1. PICK k \in Int : k = h - MaxLoss
            BY PathConstants
          <5>2. h - MaxLoss <= k /\ k <= h /\ m + 1 <= k /\ k + MaxLoss <= n - 1
            BY <1>3, <4>2, <5>1, PathConstants
          <5> QED BY <5>2
        <4> QED BY <4>1, <4>2, PathConstants
      <3>2. k \in h - MaxLoss..h
        BY <3>1, PathConstants
      <3>3. PICK j \in k..k + MaxLoss : j # h /\ j \notin lost \cup vanished
        BY <3>2 DEF MayLose
      <3>4. j \in m + 1..n - 1
        BY <3>1, <3>3, PathConstants
      <3> QED BY <1>1, <3>3, <3>4
    <2> QED BY <1>2, <2>1, <2>2, PathConstants
  <1>4. CASE ~(m < h /\ h < n)
    <2>1. AllMissing(m, n)
      <3> SUFFICES ASSUME NEW k \in m + 1..n - 1 PROVE k \in lost \cup vanished
        BY DEF AllMissing
      <3>1. k # h
        BY <1>4
      <3> QED BY <1>1, <3>1
    <2>2. Among(lost', m, n) = Among(lost, m, n)
      BY <1>4, AmongAgrees, PathParts, PathTypes
    <2>3. LostBetween(m, n) <= MaxLoss
      BY <2>1, PathParts DEF LossIsBounded
    <2> QED BY <1>2, <2>2, <2>3, LostIsAmong
  <1> QED BY <1>3, <1>4

LEMMA Appended ==
    ASSUME NEW S, NEW s \in Seq(S), NEW p, NEW t, t = Append(s, p)
    PROVE  /\ Len(t) = Len(s) + 1 /\ Len(s) \in Nat
           /\ DOMAIN t = 1..Len(s) + 1 /\ DOMAIN s = 1..Len(s)
           /\ \A i \in DOMAIN s : t[i] = s[i]
           /\ t[Len(s) + 1] = p
  OBVIOUS

LEMMA Advanced ==
    ASSUME NEW S, NEW s \in Seq(S), NEW t, s # <<>>, t = Tail(s)
    PROVE  /\ Len(t) = Len(s) - 1 /\ Len(t) \in Nat /\ Len(s) \in Nat /\ Len(s) >= 1
           /\ DOMAIN t = 1..Len(s) - 1 /\ DOMAIN s = 1..Len(s)
           /\ \A i \in DOMAIN t : i + 1 \in DOMAIN s /\ t[i] = s[i + 1]
           /\ s[1] = Head(s) /\ 1 \in DOMAIN s
  OBVIOUS

(***************************************************************************)
(* Steps of the chain of frames.                                           *)
(***************************************************************************)
LEMMA AtSame ==
    ASSUME UNCHANGED <<toViewer, first, newest, tracker, renumberedAt>>
    PROVE  Way' = Way /\ \A i \in Way : At(i)' = At(i)
  BY DEF Way, At

LEMMA AtAppended ==
    ASSUME PathTypeOK, UNCHANGED <<first, newest, tracker, renumberedAt>>,
           NEW p, toViewer' = Append(toViewer, p)
    PROVE  /\ Len(toViewer') = Len(toViewer) + 1
           /\ Way' = 0..Len(toViewer) + 1 /\ Way = 0..Len(toViewer)
           /\ \A i \in Way : At(i)' = At(i)
           /\ \A l : l = Len(toViewer) => At(l + 1)' = p
           /\ \A i \in DOMAIN toViewer' : i \in DOMAIN toViewer \/ toViewer'[i] = p
           /\ \A i \in DOMAIN toViewer : toViewer'[i] = toViewer[i]
  <1>1. toViewer \in Seq(Packets \cup {Reset})
    BY DEF PathTypeOK
  <1>2. PICK l \in Nat : l = Len(toViewer)
    BY <1>1
  <1>3. /\ Len(toViewer') = l + 1 /\ toViewer'[l + 1] = p
        /\ \A i \in 1..l : toViewer'[i] = toViewer[i]
        /\ DOMAIN toViewer = 1..l /\ DOMAIN toViewer' = 1..l + 1
    BY <1>1, <1>2
  <1>4. \A i \in 0..l : At(i)' = At(i)
    BY <1>3 DEF At
  <1>5. At(l + 1)' = p
    BY <1>2, <1>3 DEF At
  <1>6. Way' = 0..l + 1 /\ Way = 0..l
    BY <1>2, <1>3 DEF Way
  <1>7. /\ \A i \in DOMAIN toViewer' : i \in DOMAIN toViewer \/ toViewer'[i] = p
        /\ \A i \in DOMAIN toViewer : toViewer'[i] = toViewer[i]
    BY <1>3
  <1> QED BY <1>2, <1>3, <1>4, <1>5, <1>6, <1>7

LEMMA AtAdvanced ==
    ASSUME PathTypeOK, toViewer # <<>>, toViewer' = Tail(toViewer)
    PROVE  /\ Len(toViewer') = Len(toViewer) - 1 /\ Len(toViewer') \in Nat
           /\ Len(toViewer) \in Nat /\ Len(toViewer) >= 1
           /\ Way' = 0..Len(toViewer) - 1 /\ Way = 0..Len(toViewer)
           /\ \A i \in Way' : i > 0 => i + 1 \in Way /\ At(i)' = At(i + 1)
           /\ At(1) = Head(toViewer) /\ 1 \in Way /\ 0 \in Way
           /\ \A i \in DOMAIN toViewer' : i + 1 \in DOMAIN toViewer /\ toViewer'[i] = toViewer[i + 1]
  <1>1. toViewer \in Seq(Packets \cup {Reset})
    BY DEF PathTypeOK
  <1>2. PICK l \in Nat : l = Len(toViewer) /\ l >= 1
    BY <1>1
  <1>3. /\ Len(toViewer') = l - 1 /\ toViewer[1] = Head(toViewer)
        /\ \A i \in 1..l - 1 : toViewer'[i] = toViewer[i + 1]
        /\ DOMAIN toViewer = 1..l /\ DOMAIN toViewer' = 1..l - 1
    BY <1>1, <1>2
  <1>4. \A i \in 1..l - 1 : At(i)' = At(i + 1)
    BY <1>3 DEF At
  <1>5. At(1) = Head(toViewer)
    BY <1>3 DEF At
  <1>6. Way' = 0..l - 1 /\ Way = 0..l
    BY <1>2, <1>3 DEF Way
  <1> QED BY <1>2, <1>3, <1>4, <1>5, <1>6

LEMMA ApartIs ==
    ASSUME NEW a, NEW c, NEW m, NEW n, NEW f \in Int, NEW z \in Int,
           Forward(a, c) = f, LostBetween(m, n)' = z, restartAt' = restartAt,
           f <= z + 1, f >= 1, m > restartAt => f = z + 1
    PROVE  FarApart(a, c, m, n)'
  BY DEF FarApart

LEMMA ApartJoined ==
    ASSUME PathInv, NEW a \in Int, NEW b \in Int, NEW c \in Int,
           NEW m \in Int, NEW h \in Int, NEW n \in Int, m < h, h < n, 0 <= m, n <= MaxSent + 1,
           lost' = lost \cup {h}, h \notin lost, restartAt' = restartAt,
           LossIsBounded', AllMissing(m, n)', FarApart(a, b, m, h), FarApart(b, c, h, n)
    PROVE  FarApart(a, c, m, n)'
  <1>1. LostBetween(m, n)' <= MaxLoss
    <2>1. m \in 0..MaxSent + 1 /\ n \in 0..MaxSent + 1
      BY PathConstants
    <2> QED BY <2>1 DEF LossIsBounded
  <1>2. PICK x \in Nat, y \in Nat : x = LostBetween(m, h) /\ y = LostBetween(h, n)
    BY LostIsNatural, PathParts
  <1>3. LostBetween(m, n)' = x + y + 1
    <2>1. LostBetween(m, n)' = Cardinality(Among(lost \cup {h}, m, n))
      BY LostIsAmongAfter
    <2>2. Cardinality(Among(lost \cup {h}, m, n)) = Cardinality(Among(lost, m, n)) + 1
      BY AmongAdded, PathParts, PathTypes
    <2>3. Cardinality(Among(lost, m, n)) = Cardinality(Among(lost, m, h)) + Cardinality(Among(lost, h, n))
      BY AmongSplit, PathParts, PathTypes
    <2> QED BY <1>2, <2>1, <2>2, <2>3, LostIsAmong
  <1>4. PICK f \in Int, g \in Int : f = Forward(a, b) /\ g = Forward(b, c)
    BY ForwardRange
  <1>5. /\ f <= x + 1 /\ f >= 1 /\ g <= y + 1 /\ g >= 1
        /\ m > restartAt => f = x + 1
        /\ h > restartAt => g = y + 1
    BY <1>2, <1>4 DEF FarApart
  <1>6. f + g < Modulus
    BY <1>1, <1>3, <1>5, HalfIsEnough
  <1>7. Forward(a, c) = f + g
    BY <1>4, <1>6, ForwardOver
  <1>8. m > restartAt => h > restartAt
    BY PathParts, PathTypes
  <1>9. PICK z \in Int : z = LostBetween(m, n)' /\ z = x + y + 1
    BY <1>3
  <1>10. f + g \in Int /\ f + g <= z + 1 /\ f + g >= 1 /\ (m > restartAt => f + g = z + 1)
    BY <1>4, <1>5, <1>8, <1>9
  <1> QED BY <1>7, <1>9, <1>10, ApartIs

(***************************************************************************)
(* The steps keep the invariant.                                           *)
(***************************************************************************)
LEMMA PathAssembles ==
    ASSUME PathTypeOK, TrackerBegins, WaitInTurn, ComeInTurn, NumbersFollow, NextFollows,
           NumbersOfOneHost, ForwardedLast, LossIsBounded, NewerFramesAccepted, LossIsCounted
    PROVE  PathInv
  BY DEF PathInv, FramesAreCounted

LEMMA InitPath == PathInit => PathInv
  <1> SUFFICES ASSUME PathInit PROVE PathInv
    OBVIOUS
  <1>1. PathTypeOK
    BY InitPathTypes
  <1>2. /\ sent = 0 /\ toRelay = <<>> /\ toViewer = <<>> /\ lastForwarded = NoSequence
        /\ first = 0 /\ newest = 0 /\ lost = {} /\ vanished = {} /\ restartAt = 0 /\ renumberedAt = 0
        /\ tracker.last = NoSequence /\ tracker.refused = 0 /\ tracker.lost = 0
    BY DEF PathInit, NoStats
  <1>3. Left = 0 /\ Way = 0..0
    <2>1. Len(toRelay) = 0 /\ Len(toViewer) = 0
      BY <1>2
    <2>2. Left = 0
      <3>1. sent = 0 /\ Len(toRelay) = 0
        BY <1>2, <2>1
      <3> QED BY <3>1 DEF Left
    <2>3. Way = 0..0
      BY <2>1 DEF Way
    <2> QED BY <2>2, <2>3
  <1>4. \A i \in Way : At(i) = Reset
    BY <1>2, <1>3 DEF At
  <1>5. TrackerBegins
    BY <1>2, <1>3 DEF TrackerBegins
  <1>6. WaitInTurn
    BY <1>2, <1>3 DEF WaitInTurn
  <1>7. ComeInTurn
    BY <1>2, <1>4 DEF ComeInTurn
  <1>8. NumbersFollow
    BY <1>4 DEF NumbersFollow
  <1>9. NextFollows
    <2>1. Len(toViewer) = 0 /\ 0 \in Way
      BY <1>2, <1>3
    <2> QED BY <1>4, <2>1 DEF NextFollows
  <1>10. NumbersOfOneHost
    BY <1>3, <1>4 DEF NumbersOfOneHost
  <1>11. ForwardedLast
    BY <1>2 DEF ForwardedLast
  <1>12. LossIsBounded
    <2>1. ASSUME NEW m \in 0..MaxSent + 1, NEW n \in 0..MaxSent + 1 PROVE LostBetween(m, n) <= MaxLoss
      <3>1. Among(lost, m, n) = {}
        BY <1>2 DEF Among
      <3>2. Cardinality({}) = 0
        BY FS_EmptySet
      <3>3. LostBetween(m, n) = 0
        BY <3>1, <3>2, LostIsAmong
      <3> QED BY <3>3, PathConstants
    <2> QED BY <2>1 DEF LossIsBounded
  <1>13. NewerFramesAccepted /\ LossIsCounted
    BY <1>2 DEF NewerFramesAccepted, LossIsCounted
  <1> QED BY <1>1, <1>5, <1>6, <1>7, <1>8, <1>9, <1>10, <1>11, <1>12, <1>13, PathAssembles

LEMMA ComeInTurnAfter ==
    ASSUME \A i \in Way' : \A e : e = At(i)' /\ e # Reset =>
              /\ e.n \in 1..Left' /\ e.n \notin lost' /\ e.n \notin vanished' /\ e.seq \in Sequences
              /\ numbered' /\ e.n > restartAt' => e.seq = NumberOf(e.n)',
           \A i, j \in Way' : \A d, e :
              i < j /\ d = At(i)' /\ d # Reset /\ e = At(j)' /\ e # Reset => d.n < e.n,
           \A i \in DOMAIN toViewer' : toViewer'[i] # Reset => newest' < toViewer'[i].n
    PROVE  ComeInTurn'
  BY DEF ComeInTurn

LEMMA NumbersFollowAfter ==
    ASSUME \A i, j \in Way' : \A d, e :
              j = i + 1 /\ d = At(i)' /\ d # Reset /\ e = At(j)' /\ e # Reset =>
                 /\ AllMissing(d.n, e.n)'
                 /\ d.n > renumberedAt' => FarApart(d.seq, e.seq, d.n, e.n)'
    PROVE  NumbersFollow'
  BY DEF NumbersFollow

LEMMA NextFollowsAfter ==
    ASSUME \A e, w, l : w = Len(toViewer') /\ e = At(w)' /\ e # Reset /\ l = Left' =>
              /\ AllMissing(e.n, l + 1)' /\ lastForwarded' # NoSequence
              /\ ~numbered' /\ e.n > renumberedAt' =>
                    \A q : q = NextSequence(lastForwarded') => FarApart(e.seq, q, e.n, l + 1)'
    PROVE  NextFollows'
  BY DEF NextFollows

LEMMA NumbersOfOneHostAfter ==
    ASSUME numbered' => \A i \in Way' : \A e : e = At(i)' /\ e.n > renumberedAt' /\
              (\A j \in Way' : \A f : j >= i /\ f = At(j)' => f # Reset) => e.n > restartAt'
    PROVE  NumbersOfOneHost'
  BY DEF NumbersOfOneHost

LEMMA ForwardedLastAfter ==
    ASSUME numbered' /\ renumberedAt' = 0 /\ lastForwarded' # NoSequence =>
              \E k \in restartAt' + 1..Left' : \A l : l = Left' =>
                 lastForwarded' = NumberOf(k)' /\ AllMissing(k, l + 1)'
    PROVE  ForwardedLast'
  BY DEF ForwardedLast

LEMMA LastNow ==
    ASSUME PathInv, NEW e, e = At(Len(toViewer)), e # Reset
    PROVE  /\ AllMissing(e.n, Left + 1) /\ lastForwarded # NoSequence
           /\ ~numbered /\ e.n > renumberedAt =>
                 FarApart(e.seq, NextSequence(lastForwarded), e.n, Left + 1)
           /\ Len(toViewer) \in Way
  <1>1. Len(toViewer) \in Way
    BY PathParts, PathTypes DEF Way
  <1> QED BY <1>1, PathParts DEF NextFollows

LEMMA PairNow ==
    ASSUME PathInv, NEW i \in Way, NEW j \in Way, j = i + 1,
           NEW d, NEW e, d = At(i), d # Reset, e = At(j), e # Reset
    PROVE  /\ AllMissing(d.n, e.n)
           /\ d.n > renumberedAt => FarApart(d.seq, e.seq, d.n, e.n)
  BY PathParts DEF NumbersFollow

LEMMA LostSame ==
    ASSUME lost' = lost, NEW m, NEW n
    PROVE  LostBetween(m, n)' = LostBetween(m, n)
  BY DEF LostBetween

LEMMA MissingGrows ==
    ASSUME NEW m, NEW n, lost \cup vanished \subseteq lost' \cup vanished', AllMissing(m, n)
    PROVE  AllMissing(m, n)'
  BY DEF AllMissing

LEMMA ApartKept ==
    ASSUME NEW a, NEW b, NEW m, NEW n, FarApart(a, b, m, n),
           LostBetween(m, n)' = LostBetween(m, n), m > restartAt' => m > restartAt
    PROVE  FarApart(a, b, m, n)'
  BY DEF FarApart

LEMMA HostSendsKeeps == ASSUME PathInv, PathTypeOK', HostSends PROVE PathInv'
  <1>1. UNCHANGED <<numbered, lastForwarded, toViewer, tracker, first, newest,
                    lost, vanished, breaks, restartAt, renumberedAt>>
    BY DEF HostSends
  <1>2. PICK p : /\ p = [n |-> sent + 1, seq |-> IF numbered THEN outSequence ELSE NoSequence]
                 /\ sent' = sent + 1 /\ outSequence' = NextSequence(outSequence)
                 /\ toRelay' = Append(toRelay, p)
    BY DEF HostSends
  <1>3. \A n \in Int : NumberOf(n)' = NumberOf(n)
    BY <1>2, NumberKept, PathParts, PathTypes
  <1>4. /\ Len(toRelay') = Len(toRelay) + 1 /\ DOMAIN toRelay' = 1..Len(toRelay) + 1
        /\ DOMAIN toRelay = 1..Len(toRelay) /\ Len(toRelay) \in Nat
        /\ \A i \in DOMAIN toRelay : toRelay'[i] = toRelay[i]
        /\ toRelay'[Len(toRelay) + 1] = p
    <2>1. toRelay \in Seq(Packets)
      BY PathParts DEF PathTypeOK
    <2> QED BY <1>2, <2>1, Appended
  <1>5. Left' = Left /\ Left + Len(toRelay) = sent /\ Left \in Nat
    BY <1>2, <1>4, PathParts, PathTypes DEF Left
  <1>6. Way' = Way /\ \A i \in Way : At(i)' = At(i)
    BY <1>1, AtSame
  <1>7. TrackerBegins'
    BY <1>1, <1>5, PathParts DEF TrackerBegins
  <1>8. NewerFramesAccepted' /\ LossIsCounted' /\ LossIsBounded'
    BY <1>1, PathParts DEF NewerFramesAccepted, LossIsCounted, LossIsBounded, AllMissing, LostBetween
  <1>9. WaitInTurn'
    <2>1. WaitInTurn
      BY PathParts
    <2>2. ASSUME NEW i \in DOMAIN toRelay'
          PROVE  /\ toRelay'[i].n = Left + i
                 /\ \A l : l = Left + i =>
                      toRelay'[i].seq = IF numbered THEN NumberOf(l)' ELSE NoSequence
      <3>1. CASE i \in DOMAIN toRelay
        <4>1. toRelay[i].n = Left + i /\ toRelay[i].seq = IF numbered THEN NumberOf(Left + i) ELSE NoSequence
          BY <2>1, <3>1 DEF WaitInTurn
        <4>2. Left + i \in Int
          BY <1>4, <1>5, <3>1
        <4> QED BY <1>3, <1>4, <3>1, <4>1, <4>2
      <3>2. CASE i = Len(toRelay) + 1
        <4>1. Left + i = sent + 1 /\ sent + 1 \in Int
          BY <1>5, <3>2, PathParts, PathTypes
        <4>2. NumberOf(sent + 1) = outSequence
          BY NumberIsSequence, PathParts, PathTypes
        <4>3. p.n = sent + 1 /\ p.seq = IF numbered THEN outSequence ELSE NoSequence
          BY <1>2
        <4> QED BY <1>3, <1>4, <3>2, <4>1, <4>2, <4>3
      <3> QED BY <1>4, <1>5, <3>1, <3>2
    <2> QED BY <1>1, <1>5, <2>1, <2>2 DEF WaitInTurn
  <1>10. ComeInTurn'
    <2>1. ASSUME NEW i \in Way, NEW e, e = At(i), e # Reset
          PROVE  /\ e.n \in 1..Left /\ e.n \notin lost /\ e.n \notin vanished /\ e.seq \in Sequences
                 /\ numbered /\ e.n > restartAt => e.seq = NumberOf(e.n)'
      <3>1. /\ e.n \in Int /\ 1 <= e.n /\ e.n <= Left
            /\ e.n \notin lost /\ e.n \notin vanished /\ e.seq \in Sequences
            /\ numbered /\ e.n > restartAt => e.seq = NumberOf(e.n)
        BY <2>1, InTurn
      <3> QED BY <1>3, <1>5, <3>1
    <2>2. \A i \in DOMAIN toViewer : toViewer[i] # Reset => newest < toViewer[i].n
      BY PathParts DEF ComeInTurn
    <2> QED BY <1>1, <1>5, <1>6, <2>1, <2>2, InOrder, ComeInTurnAfter
  <1>11. NumbersFollow' /\ NumbersOfOneHost'
    <2>1. NumbersFollow /\ NumbersOfOneHost
      BY PathParts
    <2> QED BY <1>1, <1>6, <2>1 DEF NumbersFollow, NumbersOfOneHost, AllMissing, FarApart, LostBetween
  <1>12. NextFollows'
    <2>1. \A w : w = Len(toViewer) => At(w)' = At(w)
      BY <1>6, PathParts, PathTypes DEF Way
    <2> SUFFICES ASSUME NEW e, NEW w, NEW l, w = Len(toViewer'), e = At(w)', e # Reset, l = Left'
                 PROVE  /\ AllMissing(e.n, l + 1)' /\ lastForwarded' # NoSequence
                        /\ ~numbered' /\ e.n > renumberedAt' =>
                              \A q : q = NextSequence(lastForwarded') => FarApart(e.seq, q, e.n, l + 1)'
      BY NextFollowsAfter
    <2>2. e = At(Len(toViewer)) /\ l = Left
      BY <1>1, <1>5, <2>1
    <2>3. /\ AllMissing(e.n, l + 1) /\ lastForwarded # NoSequence
          /\ ~numbered /\ e.n > renumberedAt => FarApart(e.seq, NextSequence(lastForwarded), e.n, l + 1)
      BY <2>2, LastNow
    <2> QED BY <1>1, <2>3, MissingGrows, ApartKept, LostSame
  <1>13. ForwardedLast'
    <2>1. \A k \in restartAt + 1..Left : k \in Int
      BY PathParts, PathTypes
    <2>2. ForwardedLast
      BY PathParts
    <2> QED BY <1>1, <1>3, <1>5, <2>1, <2>2 DEF ForwardedLast, AllMissing
  <1> QED BY <1>7, <1>8, <1>9, <1>10, <1>11, <1>12, <1>13 DEF PathInv, FramesAreCounted

\* The frames that wait for the relay when the room is taken over or opened again.
LEMMA WaitingVanish ==
    ASSUME PathInv, PathTypeOK', UNCHANGED <<sent, lost>>, toRelay' = <<>>,
           vanished' = vanished \cup {toRelay[i].n : i \in DOMAIN toRelay}
    PROVE  /\ Left' = sent /\ Left <= sent /\ sent \in Nat /\ Left \in Nat
           /\ \A k \in Int : k \in vanished' <=> k \in vanished \/ (Left < k /\ k <= sent)
           /\ LossIsBounded' /\ vanished' \in SUBSET Int
           /\ \A m \in Int : \A l : l = sent /\ AllMissing(m, Left + 1) => AllMissing(m, l + 1)'
  <1>1. /\ DOMAIN toRelay = 1..Len(toRelay) /\ Len(toRelay) \in Nat /\ Left \in Nat
        /\ sent \in Nat /\ Left + Len(toRelay) = sent
    BY PathParts, PathTypes DEF Left
  <1>2. Left' = sent
    <2>1. Len(toRelay') = 0
      OBVIOUS
    <2> QED BY <1>1, <2>1 DEF Left
  <1>3. \A i \in DOMAIN toRelay : toRelay[i].n = Left + i
    BY PathParts DEF WaitInTurn
  <1>4. ASSUME NEW k \in Int
        PROVE  k \in vanished' <=> k \in vanished \/ (Left < k /\ k <= sent)
    <2>1. ASSUME Left < k, k <= sent PROVE k \in vanished'
      <3>1. PICK i \in Int : i = k - Left
        BY <1>1
      <3>2. i \in DOMAIN toRelay /\ k = Left + i
        BY <1>1, <2>1, <3>1
      <3> QED BY <1>3, <3>2
    <2>2. ASSUME NEW i \in DOMAIN toRelay, k = toRelay[i].n PROVE Left < k /\ k <= sent
      BY <1>1, <1>3, <2>2
    <2> QED BY <2>1, <2>2
  <1>5. LossIsBounded'
    <2> SUFFICES ASSUME NEW m \in 0..MaxSent + 1, NEW n \in 0..MaxSent + 1, AllMissing(m, n)'
                 PROVE  LostBetween(m, n)' <= MaxLoss
      BY DEF LossIsBounded
    <2>1. LostBetween(m, n)' = LostBetween(m, n)
      BY LostSame
    <2>2. \A k \in m + 1..n - 1 : k \in lost \cup vanished'
      BY DEF AllMissing
    <2>3. PICK p \in Int : p = Left + 1
      BY <1>1
    <2>4. CASE n <= p
      <3>1. AllMissing(m, n)
        <4> SUFFICES ASSUME NEW k \in m + 1..n - 1 PROVE k \in lost \cup vanished
          BY DEF AllMissing
        <4>1. k \in Int /\ ~(Left < k)
          BY <1>1, <2>3, <2>4, PathConstants
        <4> QED BY <1>4, <2>2, <4>1
      <3> QED BY <2>1, <3>1, PathParts DEF LossIsBounded
    <2>5. CASE n > p
      <3>1. AllMissing(m, p)
        <4> SUFFICES ASSUME NEW k \in m + 1..p - 1 PROVE k \in lost \cup vanished
          BY DEF AllMissing
        <4>1. k \in Int /\ ~(Left < k) /\ k \in m + 1..n - 1
          BY <1>1, <2>3, <2>5, PathConstants
        <4> QED BY <1>4, <2>2, <4>1
      <3>2. \A k \in Int : (k \in lost /\ m < k /\ k < n) <=> (k \in lost /\ m < k /\ k < p)
        BY <1>1, <2>3, <2>5, PathParts, PathConstants
      <3>3. Among(lost, m, n) = Among(lost, m, p)
        BY <2>3, <3>2, AmongAgrees, PathParts, PathTypes
      <3>4. LostBetween(m, n) = LostBetween(m, p)
        BY <3>3, LostIsAmong
      <3>5. p \in 0..MaxSent + 1
        BY <1>1, <2>3, PathParts, PathTypes, PathConstants
      <3> QED BY <2>1, <3>1, <3>4, <3>5, PathParts DEF LossIsBounded
    <2> QED BY <2>3, <2>4, <2>5
  <1>6. ASSUME NEW m \in Int, NEW l, l = sent, AllMissing(m, Left + 1)
        PROVE  AllMissing(m, l + 1)'
    <2>1. \A k \in m + 1..Left : k \in lost \cup vanished
      <3>1. (Left + 1) - 1 = Left
        BY <1>1
      <3> QED BY <1>6, <3>1 DEF AllMissing
    <2>2. ASSUME NEW k \in m + 1..l PROVE k \in lost \cup vanished'
      <3>1. k \in Int /\ (k \in m + 1..Left \/ (Left < k /\ k <= sent))
        BY <1>1, <1>6
      <3> QED BY <1>4, <2>1, <3>1
    <2>3. (l + 1) - 1 = l
      BY <1>1, <1>6
    <2> QED BY <2>2, <2>3 DEF AllMissing
  <1>7. vanished' \in SUBSET Int
    BY PathConstants DEF PathTypeOK, Frames
  <1> QED BY <1>1, <1>2, <1>4, <1>5, <1>6, <1>7

LEMMA HostTakesOverKeeps == ASSUME PathInv, PathTypeOK', HostTakesOver PROVE PathInv'
  <1>1. /\ UNCHANGED <<sent, lastForwarded, toViewer, tracker, first, newest, lost>>
        /\ restartAt' = sent /\ sent > 0 /\ toRelay' = <<>>
        /\ vanished' = vanished \cup {toRelay[i].n : i \in DOMAIN toRelay}
        /\ renumberedAt' = IF numbered' \/ renumberedAt > 0 THEN sent ELSE 0
    BY DEF HostTakesOver
  <1>2. /\ Left' = sent /\ Left <= sent /\ sent \in Nat /\ Left \in Nat
        /\ \A k \in Int : k \in vanished' <=> k \in vanished \/ (Left < k /\ k <= sent)
        /\ LossIsBounded' /\ vanished' \in SUBSET Int
        /\ \A m \in Int : \A l : l = sent /\ AllMissing(m, Left + 1) => AllMissing(m, l + 1)'
    BY <1>1, WaitingVanish
  <1>3. /\ first \in Int /\ newest \in Int /\ first <= newest /\ newest <= Left
        /\ renumberedAt \in Int /\ 0 <= renumberedAt /\ restartAt \in Int
        /\ renumberedAt <= restartAt /\ restartAt <= Left
        /\ \A k \in lost \cup vanished : k \in Int /\ 1 <= k /\ k <= Left
    BY PathParts, PathTypes
  <1>4. /\ renumberedAt' = sent \/ (renumberedAt' = 0 /\ renumberedAt = 0 /\ ~numbered')
        /\ numbered' => renumberedAt' = sent
        /\ renumberedAt <= renumberedAt'
    BY <1>1, <1>2, <1>3
  <1>5. Way' = Way /\ \A i \in Way : At(i)' = At(i) \/ At(i)' = Reset
    <2>1. Way' = Way
      BY <1>1 DEF Way
    <2>2. ASSUME NEW i \in Way, i > 0 PROVE At(i)' = At(i)
      BY <1>1, <2>2 DEF At
    <2>3. ASSUME NEW i \in Way, ~(i > 0) PROVE At(i)' = At(i) \/ At(i)' = Reset
      <3>1. CASE renumberedAt' = renumberedAt
        BY <1>1, <2>3, <3>1 DEF At
      <3>2. CASE renumberedAt' = sent
        <4>1. ~(first' > renumberedAt')
          BY <1>1, <1>2, <1>3, <3>2
        <4> QED BY <2>3, <4>1 DEF At
      <3> QED BY <1>4, <3>1, <3>2
    <2> QED BY <2>1, <2>2, <2>3
  <1>6. ASSUME NEW i \in Way, NEW e, e = At(i)', e # Reset
        PROVE  /\ e = At(i) /\ e.n \in Int /\ 1 <= e.n /\ e.n <= Left
               /\ e.n \notin lost /\ e.n \notin vanished /\ e.seq \in Sequences
    BY <1>5, <1>6, InTurn
  <1>7. TrackerBegins' /\ NewerFramesAccepted' /\ LossIsCounted'
    <2>1. newest <= Left'
      BY <1>2, <1>3
    <2>2. TrackerBegins'
      BY <1>1, <2>1, PathParts DEF TrackerBegins
    <2>3. NewerFramesAccepted'
      <3>1. tracker.refused > 0 => first <= renumberedAt
        BY PathParts DEF NewerFramesAccepted
      <3>2. first <= renumberedAt => first <= renumberedAt'
        BY <1>2, <1>3, <1>4
      <3> QED BY <1>1, <3>1, <3>2 DEF NewerFramesAccepted
    <2>4. ~(first' > restartAt')
      BY <1>1, <1>2, <1>3
    <2> QED BY <2>2, <2>3, <2>4 DEF LossIsCounted
  <1>8. WaitInTurn'
    <2>1. renumberedAt' <= restartAt' /\ restartAt' <= Left'
      BY <1>1, <1>2, <1>4
    <2>2. ASSUME NEW k \in lost' \cup vanished' PROVE k \in 1..Left' /\ k <= restartAt'
      <3>1. k \in lost \/ k \in vanished'
        BY <1>1
      <3>2. k \in Int
        BY <1>2, <1>3, <3>1
      <3>3. k \in lost \/ k \in vanished \/ (Left < k /\ k <= sent)
        BY <1>2, <3>1, <3>2
      <3> QED BY <1>1, <1>2, <1>3, <3>2, <3>3
    <2>3. DOMAIN toRelay' = {}
      BY <1>1
    <2> QED BY <2>1, <2>2, <2>3 DEF WaitInTurn
  <1>9. ComeInTurn'
    <2>1. ASSUME NEW i \in Way', NEW e, e = At(i)', e # Reset
          PROVE  /\ e.n \in 1..Left' /\ e.n \notin lost' /\ e.n \notin vanished' /\ e.seq \in Sequences
                 /\ ~(e.n > restartAt')
      <3>1. /\ e.n \in Int /\ 1 <= e.n /\ e.n <= Left
            /\ e.n \notin lost /\ e.n \notin vanished /\ e.seq \in Sequences
        BY <1>5, <1>6, <2>1
      <3> QED BY <1>1, <1>2, <3>1
    <2>2. \A i \in DOMAIN toViewer : toViewer[i] # Reset => newest < toViewer[i].n
      BY PathParts DEF ComeInTurn
    <2>3. ASSUME NEW i \in Way', NEW j \in Way', NEW d, NEW e, i < j,
                 d = At(i)', d # Reset, e = At(j)', e # Reset
          PROVE  d.n < e.n
      BY <1>5, <1>6, <2>3, InOrder
    <2> QED BY <1>1, <2>1, <2>2, <2>3, ComeInTurnAfter
  <1>10. \A m, n : AllMissing(m, n) => AllMissing(m, n)'
    BY <1>1, MissingGrows
  <1>11. NumbersFollow'
    <2> SUFFICES ASSUME NEW i \in Way', NEW j \in Way', NEW d, NEW e, j = i + 1,
                        d = At(i)', d # Reset, e = At(j)', e # Reset
                 PROVE  /\ AllMissing(d.n, e.n)'
                        /\ d.n > renumberedAt' => FarApart(d.seq, e.seq, d.n, e.n)'
      BY NumbersFollowAfter
    <2>1. /\ i \in Way /\ j \in Way /\ d = At(i) /\ e = At(j)
          /\ d.n \in Int /\ d.n <= Left
      BY <1>5, <1>6
    <2>2. AllMissing(d.n, e.n) /\ (d.n > renumberedAt => FarApart(d.seq, e.seq, d.n, e.n))
      BY <2>1, PairNow
    <2>3. ~(d.n > restartAt')
      BY <1>1, <1>2, <2>1
    <2>4. d.n > renumberedAt' => d.n > renumberedAt
      BY <1>2, <1>3, <1>4, <2>1
    <2>5. LostBetween(d.n, e.n)' = LostBetween(d.n, e.n)
      BY <1>1, LostSame
    <2> QED BY <1>10, <2>2, <2>3, <2>4, <2>5, ApartKept
  <1>12. NextFollows'
    <2> SUFFICES ASSUME NEW e, NEW w, NEW l, w = Len(toViewer'), e = At(w)', e # Reset, l = Left'
                 PROVE  /\ AllMissing(e.n, l + 1)' /\ lastForwarded' # NoSequence
                        /\ ~numbered' /\ e.n > renumberedAt' =>
                              \A q : q = NextSequence(lastForwarded') => FarApart(e.seq, q, e.n, l + 1)'
      BY NextFollowsAfter
    <2>1. w \in Way /\ w = Len(toViewer) /\ w \in Nat
      BY <1>1, PathParts, PathTypes DEF Way
    <2>2. /\ e = At(w) /\ e.n \in Int /\ 1 <= e.n /\ e.n <= Left
          /\ e.n \notin lost /\ e.n \notin vanished /\ e.seq \in Sequences
      BY <1>6, <2>1
    <2>3. /\ AllMissing(e.n, Left + 1) /\ lastForwarded # NoSequence
          /\ ~numbered /\ e.n > renumberedAt =>
                FarApart(e.seq, NextSequence(lastForwarded), e.n, Left + 1)
      BY <2>1, <2>2, LastNow
    <2>4. AllMissing(e.n, l + 1)'
      BY <1>2, <2>2, <2>3
    <2> SUFFICES ASSUME ~numbered', e.n > renumberedAt', NEW q, q = NextSequence(lastForwarded')
                 PROVE  FarApart(e.seq, q, e.n, l + 1)'
      BY <1>1, <2>3, <2>4
    <2>5. renumberedAt = 0 /\ e.n > renumberedAt
      BY <1>2, <1>4, <2>2
    <2>6. q = NextSequence(lastForwarded) /\ q \in Int /\ lastForwarded \in Int
      BY <1>1, ForwardToNext, PathParts, PathConstants DEF PathTypeOK
    <2>7. PICK x \in Nat : x = LostBetween(e.n, Left + 1)
      <3>1. Left + 1 \in Int
        BY <1>2
      <3>2. LostBetween(e.n, Left + 1) \in Nat
        BY <2>2, <3>1, LostIsNatural, PathParts
      <3> QED BY <3>2
    <2>8. Forward(e.seq, q) <= x + 1 /\ Forward(e.seq, q) >= 1
      <3>1. CASE ~numbered
        BY <2>3, <2>5, <2>6, <2>7, <3>1 DEF FarApart
      <3>2. CASE numbered
        <4>1. e.n > restartAt
          <5>1. \A j \in Way : j >= w => At(j) # Reset
            BY <2>1, <2>2 DEF Way
          <5> QED BY <2>1, <2>2, <2>5, <3>2, <5>1, PathParts DEF NumbersOfOneHost
        <4>2. e.seq = NumberOf(e.n)
          BY <2>1, <2>2, <3>2, <4>1, InTurn
        <4>3. PICK f \in restartAt + 1..Left : lastForwarded = NumberOf(f) /\ AllMissing(f, Left + 1)
          BY <2>3, <2>5, <3>2, PathParts DEF ForwardedLast
        <4>4. f \in Int /\ f <= Left
          BY <1>2, <1>3
        <4>5. e.n <= f
          <5> SUFFICES ASSUME f < e.n PROVE FALSE
            BY <2>2, <4>4
          <5>1. e.n \in f + 1..(Left + 1) - 1
            BY <1>2, <2>2, <4>4
          <5> QED BY <2>2, <4>3, <5>1 DEF AllMissing
        <4>6. x = (Left + 1) - e.n - 1 /\ (Left + 1) - e.n - 1 <= MaxLoss
          BY <1>2, <1>3, <2>2, <2>3, <2>7, <3>2, <4>1, AllLost
        <4>7. Forward(e.seq, lastForwarded) = f - e.n
          <5>1. f - e.n < Modulus
            BY <1>2, <2>2, <4>4, <4>6, HalfIsEnough
          <5> QED BY <2>2, <4>2, <4>3, <4>4, <4>5, <5>1, NumberApart, PathParts, PathTypes
        <4>8. Forward(lastForwarded, q) = 1
          BY <2>6, ForwardToNext
        <4>9. PICK d \in Int : d = f - e.n /\ d >= 0 /\ d <= x /\ d + 1 < Modulus
          BY <1>2, <2>2, <4>4, <4>5, <4>6, HalfIsEnough
        <4>10. Forward(e.seq, q) = d + 1
          <5>1. PICK a \in Int : a = e.seq
            BY <2>2, PathConstants
          <5>2. Forward(a, lastForwarded) + Forward(lastForwarded, q) = d + 1
            BY <4>7, <4>8, <4>9, <5>1
          <5>3. Forward(a, q) = Forward(a, lastForwarded) + Forward(lastForwarded, q)
            BY <2>6, <4>9, <5>2, ForwardOver
          <5> QED BY <5>1, <5>2, <5>3
        <4> QED BY <4>9, <4>10
      <3> QED BY <3>1, <3>2
    <2>9. PICK p \in Int : p = l + 1
      BY <1>2
    <2>10. LostBetween(e.n, p)' = x
      <3>1. \A k \in Int : (k \in lost' /\ e.n < k /\ k < p) <=> (k \in lost /\ e.n < k /\ k < Left + 1)
        BY <1>1, <1>2, <1>3, <2>9
      <3>2. Left + 1 \in Int
        BY <1>2
      <3>3. Among(lost', e.n, p) = Among(lost, e.n, Left + 1)
        <4>1. lost \in SUBSET Int /\ lost' \in SUBSET Int
          BY <1>1, PathParts, PathTypes
        <4> QED BY <2>2, <2>9, <3>1, <3>2, <4>1, AmongAgrees
      <3> QED BY <2>7, <3>3, LostIsAmong, LostIsAmongAfter
    <2>11. ~(e.n > restartAt')
      BY <1>1, <1>2, <2>2
    <2> QED BY <2>8, <2>9, <2>10, <2>11 DEF FarApart
  <1>13. NumbersOfOneHost'
    <2>1. ASSUME numbered', NEW i \in Way', NEW e, e = At(i)', e.n > renumberedAt',
                 \A j \in Way' : \A f : j >= i /\ f = At(j)' => f # Reset
          PROVE  FALSE
      <3>1. i \in Way /\ i >= i
        BY <1>5, PathParts, PathTypes DEF Way
      <3>2. e # Reset
        BY <1>5, <2>1, <3>1
      <3>3. e.n \in Int /\ e.n <= Left
        BY <1>6, <2>1, <3>1, <3>2
      <3> QED BY <1>2, <1>4, <2>1, <3>3
    <2> QED BY <2>1, NumbersOfOneHostAfter
  <1>14. ForwardedLast'
    BY <1>1, <1>4 DEF ForwardedLast
  <1> QED BY <1>2, <1>7, <1>8, <1>9, <1>11, <1>12, <1>13, <1>14 DEF PathInv, FramesAreCounted

LEMMA RelayResetsKeeps == ASSUME PathInv, PathTypeOK', RelayResetsViewer PROVE PathInv'
  <1>1. /\ UNCHANGED <<sent, numbered, outSequence, toRelay, lastForwarded, tracker,
                       first, newest, lost, vanished, restartAt, renumberedAt>>
        /\ toViewer' = Append(toViewer, Reset)
    BY DEF RelayResetsViewer
  <1>2. PICK w \in Nat : w = Len(toViewer)
    BY PathParts, PathTypes
  <1>3. /\ Len(toViewer') = w + 1 /\ Way' = 0..w + 1 /\ Way = 0..w
        /\ \A i \in Way : At(i)' = At(i)
        /\ At(w + 1)' = Reset
        /\ \A i \in DOMAIN toViewer' : i \in DOMAIN toViewer \/ toViewer'[i] = Reset
        /\ \A i \in DOMAIN toViewer : toViewer'[i] = toViewer[i]
    BY <1>1, <1>2, AtAppended, PathParts
  <1>4. Left' = Left /\ \A n : NumberOf(n)' = NumberOf(n)
    BY <1>1 DEF Left, NumberOf
  <1>5. ASSUME NEW i \in Way', NEW e, e = At(i)', e # Reset
        PROVE  i \in Way /\ e = At(i)
    BY <1>3, <1>5
  <1>6. TrackerBegins' /\ NewerFramesAccepted' /\ LossIsCounted' /\ LossIsBounded'
    BY <1>1, <1>4, PathParts
       DEF TrackerBegins, NewerFramesAccepted, LossIsCounted, LossIsBounded, AllMissing, LostBetween
  <1>7. WaitInTurn'
    BY <1>1, <1>4, PathParts DEF WaitInTurn
  <1>8. ComeInTurn'
    <2>1. ASSUME NEW i \in Way', NEW e, e = At(i)', e # Reset
          PROVE  /\ e.n \in 1..Left' /\ e.n \notin lost' /\ e.n \notin vanished' /\ e.seq \in Sequences
                 /\ numbered' /\ e.n > restartAt' => e.seq = NumberOf(e.n)'
      <3>1. /\ e.n \in Int /\ 1 <= e.n /\ e.n <= Left
            /\ e.n \notin lost /\ e.n \notin vanished /\ e.seq \in Sequences
            /\ numbered /\ e.n > restartAt => e.seq = NumberOf(e.n)
        BY <1>5, <2>1, InTurn
      <3>2. Left \in Nat
        BY PathParts
      <3> QED BY <1>1, <1>4, <3>1, <3>2
    <2>2. \A i \in DOMAIN toViewer' : toViewer'[i] # Reset => newest' < toViewer'[i].n
      BY <1>1, <1>3, PathParts DEF ComeInTurn
    <2>3. ASSUME NEW i \in Way', NEW j \in Way', NEW d, NEW e, i < j,
                 d = At(i)', d # Reset, e = At(j)', e # Reset
          PROVE  d.n < e.n
      BY <1>5, <2>3, InOrder
    <2> QED BY <2>1, <2>2, <2>3, ComeInTurnAfter
  <1>9. NumbersFollow'
    <2> SUFFICES ASSUME NEW i \in Way', NEW j \in Way', NEW d, NEW e, j = i + 1,
                        d = At(i)', d # Reset, e = At(j)', e # Reset
                 PROVE  /\ AllMissing(d.n, e.n)'
                        /\ d.n > renumberedAt' => FarApart(d.seq, e.seq, d.n, e.n)'
      BY NumbersFollowAfter
    <2>1. i \in Way /\ j \in Way /\ d = At(i) /\ e = At(j)
      BY <1>5
    <2>2. AllMissing(d.n, e.n) /\ (d.n > renumberedAt => FarApart(d.seq, e.seq, d.n, e.n))
      BY <2>1, PairNow
    <2> QED BY <1>1, <2>2, MissingGrows, ApartKept, LostSame
  <1>10. NextFollows'
    BY <1>2, <1>3, NextFollowsAfter
  <1>11. NumbersOfOneHost'
    <2>1. ASSUME NEW i \in Way', \A j \in Way' : \A f : j >= i /\ f = At(j)' => f # Reset
          PROVE  FALSE
      <3>1. w + 1 \in Way' /\ w + 1 >= i
        BY <1>3
      <3> QED BY <1>3, <2>1, <3>1
    <2> QED BY <2>1, NumbersOfOneHostAfter
  <1>12. ForwardedLast'
    <2>1. ForwardedLast
      BY PathParts
    <2> QED BY <1>1, <1>4, <2>1 DEF ForwardedLast, AllMissing
  <1> QED BY <1>6, <1>7, <1>8, <1>9, <1>10, <1>11, <1>12 DEF PathInv, FramesAreCounted

LEMMA RoomReopensKeeps == ASSUME PathInv, PathTypeOK', RoomReopens PROVE PathInv'
  <1>1. /\ UNCHANGED <<sent, tracker, first, newest, lost, renumberedAt>>
        /\ toViewer' = Append(toViewer, Reset) /\ lastForwarded' = NoSequence
        /\ restartAt' = sent /\ toRelay' = <<>>
        /\ vanished' = vanished \cup {toRelay[i].n : i \in DOMAIN toRelay}
    BY DEF RoomReopens
  <1>2. /\ Left' = sent /\ Left <= sent /\ sent \in Nat /\ Left \in Nat
        /\ \A k \in Int : k \in vanished' <=> k \in vanished \/ (Left < k /\ k <= sent)
        /\ LossIsBounded' /\ vanished' \in SUBSET Int
    BY <1>1, WaitingVanish
  <1>3. /\ first \in Int /\ newest \in Int /\ first <= newest /\ newest <= Left
        /\ renumberedAt \in Int /\ 0 <= renumberedAt /\ restartAt \in Int
        /\ renumberedAt <= restartAt /\ restartAt <= Left
        /\ \A k \in lost \cup vanished : k \in Int /\ 1 <= k /\ k <= Left
    BY PathParts, PathTypes
  <1>4. PICK w \in Nat : w = Len(toViewer)
    BY PathParts, PathTypes
  <1>5. /\ Len(toViewer') = w + 1 /\ Way' = 0..w + 1 /\ Way = 0..w
        /\ \A i \in Way : At(i)' = At(i)
        /\ At(w + 1)' = Reset
        /\ \A i \in DOMAIN toViewer' : i \in DOMAIN toViewer \/ toViewer'[i] = Reset
        /\ \A i \in DOMAIN toViewer : toViewer'[i] = toViewer[i]
    BY <1>1, <1>4, AtAppended, PathParts
  <1>6. ASSUME NEW i \in Way', NEW e, e = At(i)', e # Reset
        PROVE  /\ i \in Way /\ e = At(i) /\ e.n \in Int /\ 1 <= e.n /\ e.n <= Left
               /\ e.n \notin lost /\ e.n \notin vanished /\ e.seq \in Sequences
    <2>1. i \in Way /\ e = At(i)
      BY <1>5, <1>6
    <2> QED BY <1>6, <2>1, InTurn
  <1>7. TrackerBegins' /\ NewerFramesAccepted' /\ LossIsCounted'
    <2>1. newest <= Left'
      BY <1>2, <1>3
    <2>2. TrackerBegins'
      BY <1>1, <2>1, PathParts DEF TrackerBegins
    <2>3. ~(first' > restartAt')
      BY <1>1, <1>2, <1>3
    <2> QED BY <1>1, <2>2, <2>3, PathParts DEF LossIsCounted, NewerFramesAccepted
  <1>8. WaitInTurn'
    <2>1. renumberedAt' <= restartAt' /\ restartAt' <= Left'
      BY <1>1, <1>2, <1>3
    <2>2. ASSUME NEW k \in lost' \cup vanished' PROVE k \in 1..Left' /\ k <= restartAt'
      <3>1. k \in lost \/ k \in vanished'
        BY <1>1
      <3>2. k \in Int
        BY <1>2, <1>3, <3>1
      <3>3. k \in lost \/ k \in vanished \/ (Left < k /\ k <= sent)
        BY <1>2, <3>1, <3>2
      <3> QED BY <1>1, <1>2, <1>3, <3>2, <3>3
    <2>3. DOMAIN toRelay' = {}
      BY <1>1
    <2> QED BY <2>1, <2>2, <2>3 DEF WaitInTurn
  <1>9. ComeInTurn'
    <2>1. ASSUME NEW i \in Way', NEW e, e = At(i)', e # Reset
          PROVE  /\ e.n \in 1..Left' /\ e.n \notin lost' /\ e.n \notin vanished' /\ e.seq \in Sequences
                 /\ ~(e.n > restartAt')
      <3>1. /\ e.n \in Int /\ 1 <= e.n /\ e.n <= Left
            /\ e.n \notin lost /\ e.n \notin vanished /\ e.seq \in Sequences
        BY <1>6, <2>1
      <3> QED BY <1>1, <1>2, <3>1
    <2>2. \A i \in DOMAIN toViewer' : toViewer'[i] # Reset => newest' < toViewer'[i].n
      BY <1>1, <1>5, PathParts DEF ComeInTurn
    <2>3. ASSUME NEW i \in Way', NEW j \in Way', NEW d, NEW e, i < j,
                 d = At(i)', d # Reset, e = At(j)', e # Reset
          PROVE  d.n < e.n
      BY <1>6, <2>3, InOrder
    <2> QED BY <2>1, <2>2, <2>3, ComeInTurnAfter
  <1>10. NumbersFollow'
    <2> SUFFICES ASSUME NEW i \in Way', NEW j \in Way', NEW d, NEW e, j = i + 1,
                        d = At(i)', d # Reset, e = At(j)', e # Reset
                 PROVE  /\ AllMissing(d.n, e.n)'
                        /\ d.n > renumberedAt' => FarApart(d.seq, e.seq, d.n, e.n)'
      BY NumbersFollowAfter
    <2>1. i \in Way /\ j \in Way /\ d = At(i) /\ e = At(j) /\ d.n \in Int /\ d.n <= Left
      BY <1>6
    <2>2. AllMissing(d.n, e.n) /\ (d.n > renumberedAt => FarApart(d.seq, e.seq, d.n, e.n))
      BY <2>1, PairNow
    <2>3. ~(d.n > restartAt')
      BY <1>1, <1>2, <2>1
    <2> QED BY <1>1, <2>2, <2>3, MissingGrows, ApartKept, LostSame
  <1>11. NextFollows'
    BY <1>4, <1>5, NextFollowsAfter
  <1>12. NumbersOfOneHost'
    <2>1. ASSUME NEW i \in Way', \A j \in Way' : \A f : j >= i /\ f = At(j)' => f # Reset
          PROVE  FALSE
      <3>1. w + 1 \in Way' /\ w + 1 >= i
        BY <1>5
      <3> QED BY <1>5, <2>1, <3>1
    <2> QED BY <2>1, NumbersOfOneHostAfter
  <1>13. ForwardedLast'
    BY <1>1 DEF ForwardedLast
  <1> QED BY <1>2, <1>7, <1>8, <1>9, <1>10, <1>11, <1>12, <1>13 DEF PathInv, FramesAreCounted

LEMMA FirstWaits ==
    ASSUME PathInv, toRelay # <<>>, toRelay' = Tail(toRelay), UNCHANGED sent
    PROVE  /\ Head(toRelay) \in Packets /\ Head(toRelay).n = Left + 1
           /\ Head(toRelay).seq = IF numbered THEN NumberOf(Left + 1) ELSE NoSequence
           /\ Left' = Left + 1 /\ Left \in Nat /\ Left + 1 <= sent
           /\ \A i \in DOMAIN toRelay' : i \in Nat /\ i + 1 \in DOMAIN toRelay /\ toRelay'[i] = toRelay[i + 1]
           /\ Left + 1 \notin lost /\ Left + 1 \notin vanished
  <1>1. toRelay \in Seq(Packets)
    BY PathParts DEF PathTypeOK
  <1>2. /\ Len(toRelay') = Len(toRelay) - 1 /\ Len(toRelay') \in Nat /\ Len(toRelay) \in Nat /\ Len(toRelay) >= 1
        /\ DOMAIN toRelay' = 1..Len(toRelay) - 1
        /\ \A i \in DOMAIN toRelay' : i + 1 \in DOMAIN toRelay /\ toRelay'[i] = toRelay[i + 1]
        /\ toRelay[1] = Head(toRelay) /\ 1 \in DOMAIN toRelay
    BY <1>1, Advanced
  <1>3. toRelay[1].n = Left + 1 /\ toRelay[1].seq = IF numbered THEN NumberOf(Left + 1) ELSE NoSequence
    BY <1>2, PathParts DEF WaitInTurn
  <1>4. Left \in Nat /\ \A k \in lost \cup vanished : k <= Left
    BY PathParts
  <1>5. Left + 1 \notin lost /\ Left + 1 \notin vanished
    BY <1>4
  <1>6. Left' = Left + 1 /\ Left + 1 <= sent
    BY <1>2, PathParts, PathTypes DEF Left
  <1>7. Head(toRelay) \in Packets
    BY <1>1, <1>2
  <1>8. \A i \in DOMAIN toRelay' : i \in Nat
    BY <1>2
  <1> QED BY <1>2, <1>3, <1>4, <1>5, <1>6, <1>7, <1>8

LEMMA WaitsOn ==
    ASSUME PathInv, toRelay # <<>>, toRelay' = Tail(toRelay),
           UNCHANGED <<sent, numbered, outSequence, restartAt, renumberedAt>>,
           lost' \cup vanished' \subseteq 1..Left + 1, numbered => vanished' = vanished
    PROVE  WaitInTurn'
  <1>1. /\ Left' = Left + 1 /\ Left \in Nat
        /\ \A i \in DOMAIN toRelay' : i \in Nat /\ i + 1 \in DOMAIN toRelay /\ toRelay'[i] = toRelay[i + 1]
    BY FirstWaits
  <1>2. /\ renumberedAt <= restartAt /\ restartAt <= Left /\ restartAt \in Int
        /\ numbered => \A k \in vanished : k <= restartAt
        /\ WaitInTurn
    BY PathParts, PathTypes
  <1>3. renumberedAt' <= restartAt' /\ restartAt' <= Left'
    BY <1>1, <1>2
  <1>4. ASSUME NEW i \in DOMAIN toRelay'
        PROVE  /\ toRelay'[i].n = Left' + i
               /\ \A l : l = Left' + i =>
                    toRelay'[i].seq = IF numbered' THEN NumberOf(l)' ELSE NoSequence
    <2>1. PICK j \in DOMAIN toRelay : j = i + 1 /\ toRelay'[i] = toRelay[j]
      BY <1>1
    <2>2. toRelay[j].n = Left + j /\ toRelay[j].seq = IF numbered THEN NumberOf(Left + j) ELSE NoSequence
      BY <1>2 DEF WaitInTurn
    <2>3. Left + j = Left' + i
      BY <1>1, <2>1
    <2>4. \A l : NumberOf(l)' = NumberOf(l)
      BY DEF NumberOf
    <2> QED BY <2>1, <2>2, <2>3, <2>4
  <1> QED BY <1>1, <1>2, <1>3, <1>4 DEF WaitInTurn

LEMMA RelayForwardsKeeps == ASSUME PathInv, PathTypeOK', RelayForwards PROVE PathInv'
  <1>1. PICK h, q, y :
           /\ UNCHANGED <<sent, numbered, outSequence, tracker, first, newest,
                          lost, vanished, breaks, restartAt, renumberedAt>>
           /\ toRelay # <<>> /\ toRelay' = Tail(toRelay)
           /\ h = Head(toRelay) /\ q = ResolveSequence(h.seq) /\ y = [h EXCEPT !.seq = q]
           /\ toViewer' = Append(toViewer, y)
           /\ lastForwarded' = IF lastForwarded = NoSequence \/ IsNewer(lastForwarded, q)
                               THEN q ELSE lastForwarded
    BY DEF RelayForwards
  <1>2. PICK l \in Nat :
           /\ l = Left + 1 /\ h \in Packets /\ h.n = l /\ Left' = l /\ Left \in Nat /\ l <= sent
           /\ h.seq = IF numbered THEN NumberOf(l) ELSE NoSequence
           /\ l \notin lost /\ l \notin vanished
    <2>1. Left + 1 \in Nat
      BY PathParts
    <2> QED BY <1>1, <2>1, FirstWaits
  <1>3. /\ first \in Int /\ newest \in Int /\ first <= newest /\ newest <= Left
        /\ renumberedAt \in Int /\ 0 <= renumberedAt /\ restartAt \in Int
        /\ renumberedAt <= restartAt /\ restartAt <= Left
        /\ \A k \in lost \cup vanished : k \in Int /\ 1 <= k /\ k <= Left
        /\ lastForwarded \in Sequences \cup {NoSequence}
        /\ lost \in SUBSET Int
    BY PathParts, PathTypes DEF PathTypeOK
  <1>4. /\ q \in Sequences /\ q \in Int /\ q # NoSequence
        /\ numbered => q = NumberOf(l)
        /\ ~numbered => q = IF lastForwarded = NoSequence THEN 0 ELSE NextSequence(lastForwarded)
    <2>1. NumberOf(l) \in Sequences
      BY NumberIsSequence, PathParts, PathTypes
    <2>2. CASE numbered
      BY <1>1, <1>2, <2>1, <2>2, PathConstants DEF ResolveSequence
    <2>3. CASE ~numbered
      <3>1. lastForwarded # NoSequence => NextSequence(lastForwarded) \in Sequences
        BY <1>3, ForwardToNext, PathConstants
      <3>2. q = IF lastForwarded = NoSequence THEN 0 ELSE NextSequence(lastForwarded)
        BY <1>1, <1>2, <2>3 DEF ResolveSequence
      <3> QED BY <2>3, <3>1, <3>2, PathConstants
    <2> QED BY <2>2, <2>3
  <1>5. y.n = l /\ y.seq = q /\ y # Reset
    <2>1. y \in Packets /\ y.n = l /\ y.seq = q
      BY <1>1, <1>2, <1>4 DEF Packets
    <2> QED BY <2>1, PacketParts
  <1>6. PICK w \in Nat : w = Len(toViewer)
    BY PathParts, PathTypes
  <1>7. /\ Len(toViewer') = w + 1 /\ Way' = 0..w + 1 /\ Way = 0..w
        /\ \A i \in Way : At(i)' = At(i)
        /\ At(w + 1)' = y
        /\ \A i \in DOMAIN toViewer' : i \in DOMAIN toViewer \/ toViewer'[i] = y
        /\ \A i \in DOMAIN toViewer : toViewer'[i] = toViewer[i]
    BY <1>1, <1>6, AtAppended, PathParts
  <1>8. \A n : NumberOf(n)' = NumberOf(n)
    BY <1>1 DEF NumberOf
  <1>9. ASSUME NEW i \in Way, NEW e, e = At(i), e # Reset
        PROVE  /\ e.n \in Int /\ 1 <= e.n /\ e.n < l /\ e.n <= Left
               /\ e.n \notin lost /\ e.n \notin vanished /\ e.seq \in Sequences
               /\ numbered /\ e.n > restartAt => e.seq = NumberOf(e.n)
    <2>1. /\ e.n \in Int /\ 1 <= e.n /\ e.n <= Left
          /\ e.n \notin lost /\ e.n \notin vanished /\ e.seq \in Sequences
          /\ numbered /\ e.n > restartAt => e.seq = NumberOf(e.n)
      BY <1>9, InTurn
    <2> QED BY <1>2, <2>1
  <1>10. \A i \in Way' : i \in Way \/ (i = w + 1 /\ At(i)' = y)
    BY <1>7
  <1>11. TrackerBegins' /\ NewerFramesAccepted' /\ LossIsCounted' /\ LossIsBounded'
    <2>1. newest <= Left'
      BY <1>2, <1>3
    <2> QED BY <1>1, <2>1, PathParts
       DEF TrackerBegins, NewerFramesAccepted, LossIsCounted, LossIsBounded, AllMissing, LostBetween
  <1>12. WaitInTurn'
    <2>1. lost' \cup vanished' \subseteq 1..Left + 1
      BY <1>1, <1>2, <1>3
    <2> QED BY <1>1, <2>1, WaitsOn
  <1>13. ComeInTurn'
    <2>1. ASSUME NEW i \in Way', NEW e, e = At(i)', e # Reset
          PROVE  /\ e.n \in 1..Left' /\ e.n \notin lost' /\ e.n \notin vanished' /\ e.seq \in Sequences
                 /\ numbered' /\ e.n > restartAt' => e.seq = NumberOf(e.n)'
      <3>1. CASE i \in Way
        <4>1. e = At(i)
          BY <1>7, <2>1, <3>1
        <4>2. /\ e.n \in Int /\ 1 <= e.n /\ e.n < l
              /\ e.n \notin lost /\ e.n \notin vanished /\ e.seq \in Sequences
              /\ numbered /\ e.n > restartAt => e.seq = NumberOf(e.n)
          BY <1>9, <2>1, <3>1, <4>1
        <4> QED BY <1>1, <1>2, <1>8, <4>2
      <3>2. CASE e = y
        <4>1. l \in 1..l
          BY <1>2
        <4> QED BY <1>1, <1>2, <1>4, <1>5, <1>8, <3>2, <4>1
      <3> QED BY <1>10, <2>1, <3>1, <3>2
    <2>2. ASSUME NEW i \in DOMAIN toViewer', toViewer'[i] # Reset
          PROVE  newest' < toViewer'[i].n
      <3>1. CASE i \in DOMAIN toViewer
        BY <1>1, <1>7, <2>2, <3>1, PathParts DEF ComeInTurn
      <3>2. CASE toViewer'[i] = y
        <4>1. newest < l /\ newest' = newest
          BY <1>1, <1>2, <1>3
        <4> QED BY <1>5, <3>2, <4>1
      <3> QED BY <1>7, <3>1, <3>2
    <2>3. ASSUME NEW i \in Way', NEW j \in Way', NEW d, NEW e, i < j,
                 d = At(i)', d # Reset, e = At(j)', e # Reset
          PROVE  d.n < e.n
      <3>1. i \in Way
        BY <1>7, <2>3
      <3>2. CASE j \in Way
        BY <1>7, <2>3, <3>1, <3>2, InOrder
      <3>3. CASE e = y
        BY <1>5, <1>7, <1>9, <2>3, <3>1, <3>3
      <3> QED BY <1>10, <2>3, <3>2, <3>3
    <2> QED BY <2>1, <2>2, <2>3, ComeInTurnAfter
  <1>14. NumbersFollow'
    <2> SUFFICES ASSUME NEW i \in Way', NEW j \in Way', NEW d, NEW e, j = i + 1,
                        d = At(i)', d # Reset, e = At(j)', e # Reset
                 PROVE  /\ AllMissing(d.n, e.n)'
                        /\ d.n > renumberedAt' => FarApart(d.seq, e.seq, d.n, e.n)'
      BY NumbersFollowAfter
    <2>1. i \in Way /\ d = At(i)
      BY <1>7
    <2>2. AllMissing(d.n, e.n) /\ (d.n > renumberedAt => FarApart(d.seq, e.seq, d.n, e.n))
      <3>1. CASE j \in Way
        BY <1>7, <2>1, <3>1, PairNow
      <3>2. CASE j = w + 1 /\ e = y
        <4>1. i = w
          BY <1>7, <3>2
        <4>2. /\ AllMissing(d.n, l) /\ lastForwarded # NoSequence
              /\ ~numbered /\ d.n > renumberedAt => FarApart(d.seq, NextSequence(lastForwarded), d.n, l)
          BY <1>2, <1>6, <2>1, <4>1, LastNow
        <4>3. /\ d.n \in Int /\ 1 <= d.n /\ d.n < l
              /\ numbered /\ d.n > restartAt => d.seq = NumberOf(d.n)
          BY <1>9, <2>1
        <4>4. ASSUME d.n > renumberedAt PROVE FarApart(d.seq, q, d.n, l)
          <5>1. CASE ~numbered
            BY <1>4, <4>2, <4>4, <5>1
          <5>2. CASE numbered
            <6>1. \A k \in Way : k >= i => At(k) # Reset
              BY <1>7, <2>1, <4>1
            <6>2. d.n > restartAt
              BY <2>1, <4>4, <5>2, <6>1, PathParts DEF NumbersOfOneHost
            <6>3. 0 <= d.n /\ restartAt <= d.n
              BY <1>3, <4>3, <6>2
            <6>4. FarApart(NumberOf(d.n), NumberOf(l), d.n, l)
              BY <1>2, <4>2, <4>3, <5>2, <6>3, NumbersTell
            <6> QED BY <1>4, <4>3, <5>2, <6>2, <6>4
          <5> QED BY <5>1, <5>2
        <4> QED BY <1>5, <3>2, <4>2, <4>4
      <3> QED BY <1>10, <3>1, <3>2
    <2> QED BY <1>1, <2>2, MissingGrows, ApartKept, LostSame
  <1>15. lastForwarded' # NoSequence /\ (~numbered => lastForwarded' = q)
    <2>1. ASSUME ~numbered, lastForwarded # NoSequence PROVE IsNewer(lastForwarded, q)
      <3>1. Forward(lastForwarded, q) = 1
        BY <1>3, <1>4, <2>1, ForwardToNext, PathConstants
      <3>2. 1 \in 1..Half - 1
        BY HalfIsEnough
      <3> QED BY <3>1, <3>2 DEF IsNewer
    <2> QED BY <1>1, <1>4, <2>1
  <1>16. NextFollows'
    <2> SUFFICES ASSUME NEW e, NEW v, NEW p, v = Len(toViewer'), e = At(v)', e # Reset, p = Left'
                 PROVE  /\ AllMissing(e.n, p + 1)' /\ lastForwarded' # NoSequence
                        /\ ~numbered' /\ e.n > renumberedAt' =>
                              \A s : s = NextSequence(lastForwarded') => FarApart(e.seq, s, e.n, p + 1)'
      BY NextFollowsAfter
    <2>1. e = y /\ p = l /\ e.n = l /\ e.seq = q
      BY <1>2, <1>5, <1>7
    <2>2. AllMissing(l, l + 1)'
      <3>1. l + 1..(l + 1) - 1 = {}
        BY <1>2
      <3> QED BY <3>1 DEF AllMissing
    <2>3. ASSUME ~numbered, NEW s, s = NextSequence(lastForwarded') PROVE FarApart(q, s, l, l + 1)'
      <3>1. Forward(q, s) = 1
        BY <1>4, <1>15, <2>3, ForwardToNext
      <3>2. PICK m \in Int : m = l + 1
        OBVIOUS
      <3>3. LostBetween(l, m)' = 0
        BY <1>1, <1>3, <3>2, AmongFinite, LostIsAmongAfter
      <3> QED BY <3>1, <3>2, <3>3 DEF FarApart
    <2> QED BY <1>1, <1>15, <2>1, <2>2, <2>3
  <1>17. NumbersOfOneHost'
    <2>1. ASSUME numbered, NEW i \in Way', NEW e, e = At(i)', e.n > renumberedAt,
                 \A j \in Way' : \A f : j >= i /\ f = At(j)' => f # Reset
          PROVE  e.n > restartAt
      <3>1. CASE i \in Way
        <4>1. \A j \in Way : j >= i => At(j) # Reset
          BY <1>7, <2>1
        <4>2. e = At(i)
          BY <1>7, <2>1, <3>1
        <4> QED BY <2>1, <3>1, <4>1, <4>2, PathParts DEF NumbersOfOneHost
      <3>2. CASE e = y
        BY <1>2, <1>3, <1>5, <3>2
      <3> QED BY <1>10, <2>1, <3>1, <3>2
    <2> QED BY <1>1, <2>1, NumbersOfOneHostAfter
  <1>18. ForwardedLast'
    <2> SUFFICES ASSUME numbered, renumberedAt = 0
                 PROVE  \E k \in restartAt + 1..Left' : \A p : p = Left' =>
                           lastForwarded' = NumberOf(k)' /\ AllMissing(k, p + 1)'
      BY <1>1, ForwardedLastAfter
    <2>1. l \in restartAt + 1..l
      BY <1>2, <1>3
    <2>2. AllMissing(l, l + 1)'
      <3>1. l + 1..(l + 1) - 1 = {}
        BY <1>2
      <3> QED BY <3>1 DEF AllMissing
    <2>3. lastForwarded' = q
      <3> SUFFICES ASSUME lastForwarded # NoSequence PROVE IsNewer(lastForwarded, q)
        BY <1>1
      <3>1. PICK f \in restartAt + 1..Left : lastForwarded = NumberOf(f) /\ AllMissing(f, l)
        BY <1>2, PathParts DEF ForwardedLast
      <3>2. f \in Int /\ 0 <= f /\ restartAt <= f /\ f < l
        BY <1>2, <1>3, <3>1, PathParts, PathTypes
      <3> QED BY <1>2, <1>4, <3>1, <3>2, NumbersTell
    <2> QED BY <1>2, <1>4, <1>8, <2>1, <2>2, <2>3
  <1> QED BY <1>11, <1>12, <1>13, <1>14, <1>16, <1>17, <1>18 DEF PathInv, FramesAreCounted

LEMMA LostBeforeKeeps == ASSUME PathInv, PathTypeOK', LostBeforeRelay PROVE PathInv'
  <1>1. PICK l \in Nat :
           /\ l = Left + 1 /\ Left' = l /\ Left \in Nat /\ l <= sent /\ MayLose(l)
           /\ l \notin lost /\ l \notin vanished
           /\ \/ numbered /\ lost' = lost \cup {l} /\ vanished' = vanished
              \/ ~numbered /\ lost' = lost /\ vanished' = vanished \cup {l}
    <2>1. PICK l \in Nat : l = Left + 1
      BY PathParts
    <2>2. Head(toRelay).n = l /\ Left' = l /\ Left \in Nat /\ l <= sent /\ l \notin lost /\ l \notin vanished
      BY <2>1, FirstWaits DEF LostBeforeRelay
    <2> QED BY <2>1, <2>2 DEF LostBeforeRelay
  <1>2. /\ UNCHANGED <<sent, numbered, outSequence, lastForwarded, toViewer, tracker,
                       first, newest, breaks, restartAt, renumberedAt>>
        /\ toRelay # <<>> /\ toRelay' = Tail(toRelay)
    BY DEF LostBeforeRelay
  <1>3. /\ first \in Int /\ newest \in Int /\ first <= newest /\ newest <= Left
        /\ renumberedAt \in Int /\ restartAt \in Int /\ 0 <= restartAt
        /\ renumberedAt <= restartAt /\ restartAt <= Left
        /\ \A k \in lost \cup vanished : k \in Int /\ 1 <= k /\ k <= Left
        /\ lost \in SUBSET Int /\ lost' \in SUBSET Int
    BY <1>1, PathParts, PathTypes
  <1>4. /\ Way' = Way /\ \A i \in Way : At(i)' = At(i)
        /\ \A n : NumberOf(n)' = NumberOf(n)
    BY <1>2, AtSame DEF NumberOf
  <1>5. ASSUME NEW m \in Int, NEW n \in Int, n <= l PROVE LostBetween(m, n)' = LostBetween(m, n)
    <2>1. \A k \in Int : (k \in lost' /\ m < k /\ k < n) <=> (k \in lost /\ m < k /\ k < n)
      BY <1>1, <1>5
    <2>2. Among(lost', m, n) = Among(lost, m, n)
      BY <1>3, <2>1, AmongAgrees
    <2> QED BY <2>2, LostIsAmong, LostIsAmongAfter
  <1>6. \A m, n : AllMissing(m, n) => AllMissing(m, n)'
    <2>1. lost \cup vanished \subseteq lost' \cup vanished'
      BY <1>1
    <2> QED BY <2>1, MissingGrows
  <1>7. ASSUME NEW m \in Int, AllMissing(m, l) PROVE AllMissing(m, l + 1)'
    <2>1. \A k \in m + 1..(l + 1) - 1 : k = l \/ k \in m + 1..l - 1
      BY <1>1
    <2>2. \A k \in m + 1..l - 1 : k \in lost \cup vanished
      BY <1>7 DEF AllMissing
    <2>3. \A k \in m + 1..(l + 1) - 1 : k \in lost' \cup vanished'
      BY <1>1, <2>1, <2>2
    <2> QED BY <2>3 DEF AllMissing
  <1>8. ASSUME NEW i \in Way, NEW e, e = At(i), e # Reset
        PROVE  /\ e.n \in Int /\ 1 <= e.n /\ e.n <= Left
               /\ e.n \notin lost /\ e.n \notin vanished /\ e.seq \in Sequences
               /\ numbered /\ e.n > restartAt => e.seq = NumberOf(e.n)
    BY <1>8, InTurn
  <1>9. TrackerBegins' /\ NewerFramesAccepted' /\ LossIsCounted'
    <2>1. newest <= Left' /\ newest <= l
      BY <1>1, <1>3
    <2>2. PICK f \in Int, n \in Int : f = first /\ n = newest /\ n <= l
      BY <1>3, <2>1
    <2>3. LostBetween(f, n)' = LostBetween(f, n)
      BY <1>5, <2>2
    <2>4. first > restartAt => tracker.lost = LostBetween(f, n)
      BY <2>2, PathParts DEF LossIsCounted
    <2>5. LostBetween(first, newest)' = LostBetween(f, n)'
      BY <1>2, <2>2 DEF LostBetween
    <2>6. LossIsCounted'
      BY <1>2, <2>3, <2>4, <2>5 DEF LossIsCounted
    <2> QED BY <1>2, <2>1, <2>6, PathParts DEF TrackerBegins, NewerFramesAccepted
  <1>10. LossIsBounded'
    <2>1. lost \subseteq lost' /\ lost' \subseteq lost \cup {l} /\ vanished' \subseteq vanished \cup {l}
      BY <1>1
    <2> QED BY <1>1, <1>3, <2>1, LossStaysBounded
  <1>11. WaitInTurn'
    <2>1. lost' \cup vanished' \subseteq 1..Left + 1
      <3> SUFFICES ASSUME NEW k \in lost' \cup vanished' PROVE k \in 1..Left + 1
        OBVIOUS
      <3>1. k \in lost \cup vanished \/ k = l
        BY <1>1
      <3> QED BY <1>1, <1>3, <3>1
    <2> QED BY <1>1, <1>2, <2>1, WaitsOn
  <1>12. ComeInTurn'
    <2>1. ASSUME NEW i \in Way', NEW e, e = At(i)', e # Reset
          PROVE  /\ e.n \in 1..Left' /\ e.n \notin lost' /\ e.n \notin vanished' /\ e.seq \in Sequences
                 /\ numbered' /\ e.n > restartAt' => e.seq = NumberOf(e.n)'
      <3>1. /\ e.n \in Int /\ 1 <= e.n /\ e.n <= Left
            /\ e.n \notin lost /\ e.n \notin vanished /\ e.seq \in Sequences
            /\ numbered /\ e.n > restartAt => e.seq = NumberOf(e.n)
        BY <1>4, <1>8, <2>1
      <3>2. e.n # l /\ e.n \in 1..Left'
        BY <1>1, <3>1
      <3> QED BY <1>1, <1>2, <1>4, <3>1, <3>2
    <2>2. \A i \in DOMAIN toViewer' : toViewer'[i] # Reset => newest' < toViewer'[i].n
      BY <1>2, PathParts DEF ComeInTurn
    <2> QED BY <1>4, <2>1, <2>2, InOrder, ComeInTurnAfter
  <1>13. NumbersFollow'
    <2> SUFFICES ASSUME NEW i \in Way', NEW j \in Way', NEW d, NEW e, j = i + 1,
                        d = At(i)', d # Reset, e = At(j)', e # Reset
                 PROVE  /\ AllMissing(d.n, e.n)'
                        /\ d.n > renumberedAt' => FarApart(d.seq, e.seq, d.n, e.n)'
      BY NumbersFollowAfter
    <2>1. i \in Way /\ j \in Way /\ d = At(i) /\ e = At(j)
      BY <1>4
    <2>2. AllMissing(d.n, e.n) /\ (d.n > renumberedAt => FarApart(d.seq, e.seq, d.n, e.n))
      BY <2>1, PairNow
    <2>3. d.n \in Int /\ e.n \in Int /\ e.n <= l
      BY <1>1, <1>8, <2>1
    <2>4. LostBetween(d.n, e.n)' = LostBetween(d.n, e.n)
      BY <1>5, <2>3
    <2> QED BY <1>2, <1>6, <2>2, <2>4, ApartKept
  <1>14. NextFollows'
    <2> SUFFICES ASSUME NEW e, NEW v, NEW p, v = Len(toViewer'), e = At(v)', e # Reset, p = Left'
                 PROVE  /\ AllMissing(e.n, p + 1)' /\ lastForwarded' # NoSequence
                        /\ ~numbered' /\ e.n > renumberedAt' =>
                              \A s : s = NextSequence(lastForwarded') => FarApart(e.seq, s, e.n, p + 1)'
      BY NextFollowsAfter
    <2>1. v = Len(toViewer) /\ v \in Way /\ e = At(v) /\ p = l
      BY <1>1, <1>2, <1>4, PathParts, PathTypes DEF Way
    <2>2. /\ AllMissing(e.n, l) /\ lastForwarded # NoSequence
          /\ ~numbered /\ e.n > renumberedAt => FarApart(e.seq, NextSequence(lastForwarded), e.n, l)
      BY <1>1, <2>1, LastNow
    <2>3. e.n \in Int /\ AllMissing(e.n, l + 1)'
      BY <1>7, <1>8, <2>1, <2>2
    <2>4. ASSUME ~numbered, NEW s, FarApart(e.seq, s, e.n, l) PROVE FarApart(e.seq, s, e.n, l + 1)'
      <3>1. PICK m \in Int : m = l + 1
        BY <1>1
      <3>2. \A k \in Int : (k \in lost' /\ e.n < k /\ k < m) <=> (k \in lost /\ e.n < k /\ k < l)
        BY <1>1, <1>3, <2>4, <3>1
      <3>3. Among(lost', e.n, m) = Among(lost, e.n, l)
        BY <1>1, <1>3, <2>3, <3>2, AmongAgrees
      <3>4. LostBetween(e.n, m)' = LostBetween(e.n, l)
        BY <3>3, LostIsAmong, LostIsAmongAfter
      <3> QED BY <1>2, <2>4, <3>1, <3>4 DEF FarApart
    <2> QED BY <1>2, <2>1, <2>2, <2>3, <2>4
  <1>15. NumbersOfOneHost'
    <2>1. NumbersOfOneHost
      BY PathParts
    <2> QED BY <1>2, <1>4, <2>1 DEF NumbersOfOneHost
  <1>16. ForwardedLast'
    <2> SUFFICES ASSUME numbered, renumberedAt = 0, lastForwarded # NoSequence
                 PROVE  \E k \in restartAt + 1..Left' : \A p : p = Left' =>
                           lastForwarded = NumberOf(k)' /\ AllMissing(k, p + 1)'
      BY <1>2, ForwardedLastAfter
    <2>1. PICK f \in restartAt + 1..Left : lastForwarded = NumberOf(f) /\ AllMissing(f, l)
      BY <1>1, PathParts DEF ForwardedLast
    <2>2. f \in restartAt + 1..l /\ f \in Int
      BY <1>1, <1>3, <2>1
    <2>3. AllMissing(f, l + 1)'
      BY <1>7, <2>1, <2>2
    <2> QED BY <1>1, <1>4, <2>1, <2>2, <2>3
  <1> QED BY <1>9, <1>10, <1>11, <1>12, <1>13, <1>14, <1>15, <1>16 DEF PathInv, FramesAreCounted

\* What comes to the viewer takes the place of what it accepted before, or there is none.
LEMMA ChainAdvances ==
    ASSUME PathInv, toViewer # <<>>, toViewer' = Tail(toViewer),
           UNCHANGED <<sent, numbered, outSequence, toRelay, lastForwarded,
                       lost, vanished, restartAt, renumberedAt>>,
           At(0)' = Head(toViewer) \/ At(0)' = Reset,
           \/ newest' \in {0, newest}
           \/ Head(toViewer) # Reset /\ newest' = Head(toViewer).n
    PROVE  /\ WaitInTurn' /\ ComeInTurn' /\ NumbersFollow' /\ NextFollows'
           /\ NumbersOfOneHost' /\ ForwardedLast' /\ LossIsBounded' /\ Left' = Left
  <1>1. PICK w \in Nat : /\ w >= 1 /\ w = Len(toViewer) /\ Len(toViewer') = w - 1
                         /\ Way' = 0..w - 1 /\ Way = 0..w
                         /\ \A i \in Way' : i > 0 => i + 1 \in Way /\ At(i)' = At(i + 1)
                         /\ At(1) = Head(toViewer)
                         /\ \A i \in DOMAIN toViewer' : i + 1 \in DOMAIN toViewer /\ toViewer'[i] = toViewer[i + 1]
    BY AtAdvanced, PathParts
  <1>2. ASSUME NEW i \in Way', NEW e, e = At(i)', e # Reset
        PROVE  i + 1 \in Way /\ e = At(i + 1)
    <2>1. CASE i = 0
      BY <1>1, <1>2, <2>1
    <2>2. CASE i > 0
      BY <1>1, <1>2, <2>2
    <2> QED BY <1>1, <2>1, <2>2
  <1>3. Left' = Left /\ \A n : NumberOf(n)' = NumberOf(n)
    BY DEF Left, NumberOf
  <1>4. WaitInTurn'
    BY <1>3, PathParts DEF WaitInTurn
  <1>5. ComeInTurn'
    <2>1. ASSUME NEW i \in Way', NEW e, e = At(i)', e # Reset
          PROVE  /\ e.n \in 1..Left' /\ e.n \notin lost' /\ e.n \notin vanished' /\ e.seq \in Sequences
                 /\ numbered' /\ e.n > restartAt' => e.seq = NumberOf(e.n)'
      <3>1. PICK k \in Way : k = i + 1 /\ e = At(k)
        BY <1>2, <2>1
      <3>2. /\ e.n \in Int /\ 1 <= e.n /\ e.n <= Left
            /\ e.n \notin lost /\ e.n \notin vanished /\ e.seq \in Sequences
            /\ numbered /\ e.n > restartAt => e.seq = NumberOf(e.n)
        BY <2>1, <3>1, InTurn
      <3>3. Left \in Nat
        BY PathParts
      <3> QED BY <1>3, <3>2, <3>3
    <2>2. ASSUME NEW i \in DOMAIN toViewer', toViewer'[i] # Reset
          PROVE  newest' < toViewer'[i].n
      <3>1. PICK k \in DOMAIN toViewer : k = i + 1 /\ toViewer'[i] = toViewer[k]
        BY <1>1
      <3>2. k \in Way /\ k > 1 /\ 1 \in Way /\ toViewer[k] = At(k)
        <4>1. i \in 1..w - 1
          BY <1>1, PathParts DEF PathTypeOK
        <4> QED BY <1>1, <3>1, <4>1 DEF At
      <3>3. PICK e : e = At(k) /\ e # Reset /\ toViewer'[i] = e
        BY <2>2, <3>1, <3>2
      <3>4. e.n \in Int /\ 1 <= e.n
        BY <3>2, <3>3, InTurn
      <3>5. newest < e.n
        BY <3>1, <3>2, <3>3, PathParts DEF ComeInTurn
      <3>6. ASSUME Head(toViewer) # Reset PROVE Head(toViewer).n < e.n
        BY <1>1, <3>2, <3>3, <3>6, InOrder
      <3>7. newest' < e.n
        BY <3>4, <3>5, <3>6
      <3> QED BY <3>3, <3>7
    <2>3. ASSUME NEW i \in Way', NEW j \in Way', NEW d, NEW e, i < j,
                 d = At(i)', d # Reset, e = At(j)', e # Reset
          PROVE  d.n < e.n
      <3>1. PICK k \in Way, m \in Way : k = i + 1 /\ m = j + 1 /\ d = At(k) /\ e = At(m)
        BY <1>2, <2>3
      <3>2. k < m
        BY <1>1, <2>3, <3>1
      <3> QED BY <2>3, <3>1, <3>2, InOrder
    <2> QED BY <2>1, <2>2, <2>3, ComeInTurnAfter
  <1>6. NumbersFollow'
    <2> SUFFICES ASSUME NEW i \in Way', NEW j \in Way', NEW d, NEW e, j = i + 1,
                        d = At(i)', d # Reset, e = At(j)', e # Reset
                 PROVE  /\ AllMissing(d.n, e.n)'
                        /\ d.n > renumberedAt' => FarApart(d.seq, e.seq, d.n, e.n)'
      BY NumbersFollowAfter
    <2>1. PICK k \in Way, m \in Way : k = i + 1 /\ m = j + 1 /\ d = At(k) /\ e = At(m)
      BY <1>2
    <2>2. m = k + 1
      BY <1>1, <2>1
    <2>3. AllMissing(d.n, e.n) /\ (d.n > renumberedAt => FarApart(d.seq, e.seq, d.n, e.n))
      BY <2>1, <2>2, PairNow
    <2> QED BY <2>3, MissingGrows, ApartKept, LostSame
  <1>7. NextFollows'
    <2> SUFFICES ASSUME NEW e, NEW v, NEW p, v = Len(toViewer'), e = At(v)', e # Reset, p = Left'
                 PROVE  /\ AllMissing(e.n, p + 1)' /\ lastForwarded' # NoSequence
                        /\ ~numbered' /\ e.n > renumberedAt' =>
                              \A s : s = NextSequence(lastForwarded') => FarApart(e.seq, s, e.n, p + 1)'
      BY NextFollowsAfter
    <2>1. v \in Way' /\ v + 1 = w /\ p = Left
      BY <1>1, <1>3
    <2>2. e = At(Len(toViewer))
      BY <1>1, <1>2, <2>1
    <2>3. /\ AllMissing(e.n, p + 1) /\ lastForwarded # NoSequence
          /\ ~numbered /\ e.n > renumberedAt => FarApart(e.seq, NextSequence(lastForwarded), e.n, p + 1)
      BY <2>1, <2>2, LastNow
    <2> QED BY <2>3, MissingGrows, ApartKept, LostSame
  <1>8. NumbersOfOneHost'
    <2>1. ASSUME numbered, NEW i \in Way', NEW e, e = At(i)', e.n > renumberedAt,
                 \A j \in Way' : \A f : j >= i /\ f = At(j)' => f # Reset
          PROVE  e.n > restartAt
      <3>1. i >= i /\ i \in Int
        BY <1>1
      <3>2. PICK k \in Way : k = i + 1 /\ e = At(k)
        BY <1>2, <2>1, <3>1
      <3>3. ASSUME NEW m \in Way, m >= k PROVE At(m) # Reset
        <4>1. PICK j \in Way' : m = j + 1 /\ j >= i
          BY <1>1, <3>1, <3>2, <3>3
        <4> QED BY <1>2, <2>1, <4>1
      <3> QED BY <2>1, <3>2, <3>3, PathParts DEF NumbersOfOneHost
    <2> QED BY <2>1, NumbersOfOneHostAfter
  <1>9. ForwardedLast'
    <2>1. ForwardedLast
      BY PathParts
    <2> QED BY <1>3, <2>1 DEF ForwardedLast, AllMissing
  <1>10. LossIsBounded'
    <2>1. LossIsBounded
      BY PathParts
    <2> QED BY <2>1 DEF LossIsBounded, AllMissing, LostBetween
  <1> QED BY <1>3, <1>4, <1>5, <1>6, <1>7, <1>8, <1>9, <1>10

LEMMA ResetReachesKeeps == ASSUME PathInv, PathTypeOK', ResetReachesViewer PROVE PathInv'
  <1>1. /\ UNCHANGED <<sent, numbered, outSequence, toRelay, lastForwarded,
                       lost, vanished, restartAt, renumberedAt>>
        /\ toViewer # <<>> /\ toViewer' = Tail(toViewer)
        /\ tracker' = NoStats /\ first' = 0 /\ newest' = 0
    BY DEF ResetReachesViewer
  <1>2. renumberedAt \in Int /\ 0 <= renumberedAt /\ restartAt \in Int /\ 0 <= restartAt /\ Left \in Nat
    BY PathParts, PathTypes
  <1>3. At(0)' = Reset
    <2>1. ~(first' > renumberedAt')
      BY <1>1, <1>2
    <2> QED BY <2>1 DEF At
  <1>4. /\ WaitInTurn' /\ ComeInTurn' /\ NumbersFollow' /\ NextFollows'
        /\ NumbersOfOneHost' /\ ForwardedLast' /\ LossIsBounded' /\ Left' = Left
    BY <1>1, <1>3, ChainAdvances
  <1>5. tracker'.last = NoSequence /\ tracker'.refused = 0 /\ tracker'.lost = 0
    BY <1>1 DEF NoStats
  <1>6. TrackerBegins'
    BY <1>1, <1>2, <1>4, <1>5 DEF TrackerBegins
  <1>7. NewerFramesAccepted' /\ LossIsCounted'
    BY <1>1, <1>2, <1>5 DEF NewerFramesAccepted, LossIsCounted
  <1> QED BY <1>4, <1>6, <1>7 DEF PathInv, FramesAreCounted

LEMMA FrameReachesKeeps == ASSUME PathInv, PathTypeOK', FrameReachesViewer PROVE PathInv'
  <1>1. PICK h :
           /\ h = Head(toViewer) /\ h # Reset
           /\ UNCHANGED <<sent, numbered, outSequence, toRelay, lastForwarded,
                          lost, vanished, restartAt, renumberedAt>>
           /\ toViewer # <<>> /\ toViewer' = Tail(toViewer)
           /\ tracker' = Accept(h.seq)
           /\ tracker'.accepted > tracker.accepted =>
                 newest' = h.n /\ first' = IF first = 0 THEN h.n ELSE first
           /\ ~(tracker'.accepted > tracker.accepted) => UNCHANGED <<first, newest>>
    BY DEF FrameReachesViewer
  <1>2. /\ renumberedAt \in Int /\ 0 <= renumberedAt /\ restartAt \in Int /\ Left \in Nat
        /\ first \in Int /\ 0 <= first /\ newest \in Int /\ first <= newest /\ newest <= Left
        /\ renumberedAt <= restartAt /\ lost \in SUBSET Int
        /\ tracker.last \in Sequences \cup {NoSequence}
        /\ tracker.accepted \in Nat /\ tracker.refused \in Nat /\ tracker.lost \in Nat
        /\ tracker.last = NoSequence <=> first = 0
        /\ first = 0 => newest = 0 /\ tracker.refused = 0 /\ tracker.lost = 0
        /\ tracker.refused > 0 => first <= renumberedAt
        /\ first > restartAt => tracker.lost = LostBetween(first, newest)
    BY PathParts, PathTypes DEF PathTypeOK, TrackerBegins, NewerFramesAccepted, LossIsCounted
  <1>3. h = At(1) /\ 0 \in Way /\ 1 \in Way
    BY <1>1, AtAdvanced, PathParts
  <1>4. /\ h.n \in Int /\ 1 <= h.n /\ h.n <= Left /\ h.n \notin lost
        /\ h.seq \in Sequences /\ h.seq \in Int /\ h.seq # NoSequence
    BY <1>1, <1>3, InTurn, PathConstants
  <1>5. newest < h.n
    <2>1. toViewer \in Seq(Packets \cup {Reset})
      BY PathParts DEF PathTypeOK
    <2>2. 1 \in DOMAIN toViewer /\ toViewer[1] = h
      BY <1>1, <2>1, Advanced
    <2> QED BY <1>1, <2>2, PathParts DEF ComeInTurn
  <1>6. h = [n |-> h.n, seq |-> h.seq]
    <2>1. toViewer \in Seq(Packets \cup {Reset})
      BY PathParts DEF PathTypeOK
    <2>2. h \in Packets
      BY <1>1, <2>1
    <2> QED BY <2>2 DEF Packets
  <1>7. ASSUME first > renumberedAt
        PROVE  /\ IsNewer(tracker.last, h.seq) /\ newest \notin lost
               /\ newest > restartAt => Forward(tracker.last, h.seq) = LostBetween(newest, h.n) + 1
    <2>1. PICK d : d = At(0) /\ d.n = newest /\ d.seq = tracker.last /\ d # Reset
      <3>1. At(0) = [n |-> newest, seq |-> tracker.last]
        BY <1>7 DEF At
      <3>2. newest # 0
        BY <1>2, <1>7
      <3> QED BY <3>1, <3>2, PacketParts
    <2>2. AllMissing(newest, h.n) /\ FarApart(tracker.last, h.seq, newest, h.n)
      <3>1. newest > renumberedAt
        BY <1>2, <1>7
      <3> QED BY <1>1, <1>3, <2>1, <3>1, PairNow
    <2>3. newest \notin lost
      BY <1>3, <2>1, InTurn
    <2>4. LostBetween(newest, h.n) \in Nat /\ LostBetween(newest, h.n) <= MaxLoss
      <3>1. newest \in 0..MaxSent + 1 /\ h.n \in 0..MaxSent + 1
        BY <1>2, <1>4, PathParts, PathTypes, PathConstants
      <3>2. LostBetween(newest, h.n) <= MaxLoss
        BY <2>2, <3>1, PathParts DEF LossIsBounded
      <3> QED BY <1>2, <1>4, <3>2, LostIsNatural, PathParts
    <2>5. Forward(tracker.last, h.seq) \in Int
      BY <1>2, <1>4, ForwardRange, PathConstants
    <2>6. IsNewer(tracker.last, h.seq)
      BY <2>2, <2>4, <2>5, HalfIsEnough DEF FarApart, IsNewer
    <2> QED BY <2>2, <2>3, <2>6 DEF FarApart
  <1>8. \/ /\ first = 0 /\ tracker'.last = h.seq /\ newest' = h.n /\ first' = h.n
           /\ tracker'.refused = 0 /\ tracker'.lost = 0
        \/ /\ first # 0 /\ tracker'.last = h.seq /\ newest' = h.n /\ first' = first
           /\ IsNewer(tracker.last, h.seq) /\ tracker'.refused = tracker.refused
           /\ tracker'.lost = tracker.lost + Forward(tracker.last, h.seq) - 1
        \/ /\ first # 0 /\ ~IsNewer(tracker.last, h.seq) /\ newest' = newest /\ first' = first
           /\ tracker'.last = tracker.last /\ tracker'.lost = tracker.lost
    <2>1. \/ /\ tracker.last = NoSequence /\ tracker'.last = h.seq
             /\ tracker'.accepted > tracker.accepted
             /\ tracker'.refused = tracker.refused /\ tracker'.lost = tracker.lost
          \/ /\ tracker.last # NoSequence /\ tracker'.last = h.seq
             /\ tracker'.accepted > tracker.accepted
             /\ IsNewer(tracker.last, h.seq) /\ tracker'.refused = tracker.refused
             /\ tracker'.lost = tracker.lost + Forward(tracker.last, h.seq) - 1
          \/ /\ tracker.last # NoSequence /\ ~IsNewer(tracker.last, h.seq)
             /\ tracker'.accepted = tracker.accepted /\ tracker'.last = tracker.last
             /\ tracker'.lost = tracker.lost
      <3>1. h.seq \in Sequences \cup {NoSequence} /\ PathTypeOK
        BY <1>4, PathParts
      <3> QED BY <1>1, <3>1, AcceptCases
    <2>2. tracker'.accepted = tracker.accepted => ~(tracker'.accepted > tracker.accepted)
      BY <1>2
    <2> QED BY <1>1, <1>2, <2>1, <2>2
  <1>9. At(0)' = h \/ At(0)' = Reset
    <2>1. CASE tracker'.last = h.seq /\ newest' = h.n
      BY <1>6, <2>1 DEF At
    <2>2. CASE ~IsNewer(tracker.last, h.seq) /\ first' = first
      <3>1. ~(first' > renumberedAt')
        BY <1>1, <1>7, <2>2
      <3> QED BY <3>1 DEF At
    <2> QED BY <1>8, <2>1, <2>2
  <1>10. newest' = newest \/ newest' = h.n
    BY <1>8
  <1>11. /\ WaitInTurn' /\ ComeInTurn' /\ NumbersFollow' /\ NextFollows'
         /\ NumbersOfOneHost' /\ ForwardedLast' /\ LossIsBounded' /\ Left' = Left
    BY <1>1, <1>9, <1>10, ChainAdvances
  <1>12. TrackerBegins'
    <2>1. tracker'.last = NoSequence <=> first' = 0
      BY <1>2, <1>4, <1>8
    <2>2. first' # 0
      BY <1>4, <1>8
    <2>3. first' <= newest' /\ newest' <= Left'
      BY <1>2, <1>4, <1>5, <1>8, <1>11
    <2> QED BY <2>1, <2>2, <2>3 DEF TrackerBegins
  <1>13. NewerFramesAccepted'
    <2>1. tracker'.refused > 0 => first' <= renumberedAt
      <3>1. ~IsNewer(tracker.last, h.seq) => first <= renumberedAt
        BY <1>2, <1>7
      <3> QED BY <1>2, <1>8, <3>1
    <2> QED BY <1>1, <2>1 DEF NewerFramesAccepted
  <1>14. LossIsCounted'
    <2> SUFFICES ASSUME NEW f, NEW n, f = first', n = newest', f > restartAt
                 PROVE  tracker'.lost = LostBetween(f, n)
      BY <1>1, LostSame DEF LossIsCounted, LostBetween
    <2>1. CASE first = 0 /\ f = h.n /\ n = h.n /\ tracker'.lost = 0
      <3>1. Cardinality(Among(lost, h.n, h.n)) = 0
        BY <1>2, <1>4, AmongFinite
      <3> QED BY <2>1, <3>1, LostIsAmong
    <2>2. CASE /\ f = first /\ n = h.n
               /\ tracker'.lost = tracker.lost + Forward(tracker.last, h.seq) - 1
      <3>1. first > renumberedAt /\ newest > restartAt
        BY <1>2, <2>2
      <3>2. Forward(tracker.last, h.seq) = LostBetween(newest, h.n) + 1 /\ newest \notin lost
        BY <1>7, <3>1
      <3>3. tracker.lost = LostBetween(first, newest)
        BY <1>2, <2>2
      <3>4. LostBetween(first, h.n) = LostBetween(first, newest) + LostBetween(newest, h.n)
        BY <1>2, <1>4, <1>5, <3>2, AmongSplit, LostIsAmong
      <3>5. PICK a \in Nat, b \in Nat : a = LostBetween(first, newest) /\ b = LostBetween(newest, h.n)
        BY <1>2, <1>4, LostIsNatural, PathParts
      <3> QED BY <2>2, <3>2, <3>3, <3>4, <3>5
    <2>3. CASE f = first /\ n = newest /\ tracker'.lost = tracker.lost
      BY <1>2, <2>3
    <2> QED BY <1>8, <2>1, <2>2, <2>3
  <1> QED BY <1>11, <1>12, <1>13, <1>14 DEF PathInv, FramesAreCounted

LEMMA LostAfterKeeps == ASSUME PathInv, PathTypeOK', LostAfterRelay PROVE PathInv'
  <1>1. PICK h :
           /\ h = Head(toViewer) /\ h # Reset /\ MayLose(h.n)
           /\ UNCHANGED <<sent, numbered, outSequence, toRelay, lastForwarded, tracker,
                          first, newest, vanished, breaks, restartAt, renumberedAt>>
           /\ toViewer # <<>> /\ toViewer' = Tail(toViewer)
           /\ lost' = lost \cup {h.n}
    BY DEF LostAfterRelay
  <1>2. /\ renumberedAt \in Int /\ 0 <= renumberedAt /\ restartAt \in Int /\ Left \in Nat
        /\ first \in Int /\ newest \in Int /\ first <= newest /\ newest <= Left
        /\ renumberedAt <= restartAt /\ restartAt <= Left /\ Left <= MaxSent
        /\ \A k \in lost \cup vanished : k \in Int /\ 1 <= k /\ k <= Left
        /\ lost \in SUBSET Int /\ lost' \in SUBSET Int
        /\ lastForwarded \in Sequences \cup {NoSequence}
    <2>1. lost' \in SUBSET Int
      BY PathConstants DEF PathTypeOK, Frames
    <2>2. lastForwarded \in Sequences \cup {NoSequence}
      BY PathParts DEF PathTypeOK
    <2>3. Left <= MaxSent
      BY PathParts, PathTypes, PathConstants
    <2> QED BY <2>1, <2>2, <2>3, PathParts, PathTypes
  <1>3. PICK w \in Nat : /\ w >= 1 /\ w = Len(toViewer) /\ Len(toViewer') = w - 1
                         /\ Way' = 0..w - 1 /\ Way = 0..w
                         /\ \A i \in Way' : i > 0 => i + 1 \in Way /\ At(i)' = At(i + 1)
                         /\ At(1) = h
                         /\ \A i \in DOMAIN toViewer' : i + 1 \in DOMAIN toViewer /\ toViewer'[i] = toViewer[i + 1]
    BY <1>1, AtAdvanced, PathParts
  <1>4. /\ h.n \in Int /\ 1 <= h.n /\ h.n <= Left /\ h.n \notin lost /\ h.n \notin vanished
        /\ h.seq \in Sequences /\ h.seq \in Int
    BY <1>1, <1>3, InTurn
  <1>5. newest < h.n
    <2>1. toViewer \in Seq(Packets \cup {Reset})
      BY PathParts DEF PathTypeOK
    <2>2. 1 \in DOMAIN toViewer /\ toViewer[1] = h
      BY <1>1, <2>1, Advanced
    <2> QED BY <1>1, <2>2, PathParts DEF ComeInTurn
  <1>6. At(0)' = At(0)
    BY <1>1 DEF At
  <1>7. Left' = Left /\ \A n : NumberOf(n)' = NumberOf(n)
    BY <1>1 DEF Left, NumberOf
  \* Where a frame was before, those after the lost one.
  <1>8. ASSUME NEW i \in Way', NEW e, e = At(i)', e # Reset
        PROVE  \E k \in Way : /\ e = At(k) /\ (i = 0 => k = 0) /\ (i > 0 => k = i + 1)
                              /\ e.n \in Int /\ 1 <= e.n /\ e.n <= Left
                              /\ e.n \notin lost /\ e.n \notin vanished
                              /\ e.seq \in Sequences /\ e.seq \in Int
                              /\ numbered /\ e.n > restartAt => e.seq = NumberOf(e.n)
                              /\ i = 0 => e.n < h.n
                              /\ i > 0 => e.n > h.n
    <2>1. PICK k \in Way : e = At(k) /\ (i = 0 => k = 0) /\ (i > 0 => k = i + 1)
      BY <1>3, <1>6, <1>8
    <2>2. /\ e.n \in Int /\ 1 <= e.n /\ e.n <= Left
          /\ e.n \notin lost /\ e.n \notin vanished
          /\ e.seq \in Sequences /\ e.seq \in Int
          /\ numbered /\ e.n > restartAt => e.seq = NumberOf(e.n)
      BY <1>8, <2>1, InTurn
    <2>3. i = 0 => e.n < h.n
      BY <1>1, <1>3, <1>8, <2>1, InOrder
    <2>4. i > 0 => e.n > h.n
      <3> SUFFICES ASSUME i > 0 PROVE h.n < e.n
        BY <2>2, <1>4
      <3>1. 1 \in Way /\ k > 1
        BY <1>3, <2>1
      <3> QED BY <1>1, <1>3, <1>8, <2>1, <3>1, InOrder
    <2> QED BY <2>1, <2>2, <2>3, <2>4
  <1>9. ASSUME NEW m \in Int, NEW n \in Int, n <= h.n \/ h.n <= m
        PROVE  LostBetween(m, n)' = LostBetween(m, n)
    <2>1. \A k \in Int : (k \in lost' /\ m < k /\ k < n) <=> (k \in lost /\ m < k /\ k < n)
      BY <1>1, <1>4, <1>9
    <2>2. Among(lost', m, n) = Among(lost, m, n)
      BY <1>2, <2>1, AmongAgrees
    <2> QED BY <2>2, LostIsAmong, LostIsAmongAfter
  <1>10. \A m, n : AllMissing(m, n) => AllMissing(m, n)'
    <2>1. lost \cup vanished \subseteq lost' \cup vanished'
      BY <1>1
    <2> QED BY <2>1, MissingGrows
  <1>11. ASSUME NEW m \in Int, NEW n \in Int, AllMissing(m, h.n), AllMissing(h.n, n)
         PROVE  AllMissing(m, n)'
    <2>1. \A k \in m + 1..n - 1 : k = h.n \/ k \in m + 1..h.n - 1 \/ k \in h.n + 1..n - 1
      BY <1>4
    <2>2. \A k \in m + 1..n - 1 : k \in lost' \cup vanished'
      BY <1>1, <1>11, <2>1 DEF AllMissing
    <2> QED BY <2>2 DEF AllMissing
  <1>12. LossIsBounded'
    <2>1. lost \subseteq lost' /\ lost' \subseteq lost \cup {h.n} /\ vanished' \subseteq vanished \cup {h.n}
      BY <1>1
    <2> QED BY <1>1, <1>2, <1>4, <2>1, LossStaysBounded
  <1>13. TrackerBegins' /\ NewerFramesAccepted' /\ LossIsCounted'
    <2>1. PICK f \in Int, n \in Int : f = first /\ n = newest /\ n <= h.n
      BY <1>2, <1>4, <1>5
    <2>2. LostBetween(f, n)' = LostBetween(f, n)
      BY <1>9, <2>1
    <2>3. first > restartAt => tracker.lost = LostBetween(f, n)
      BY <2>1, PathParts DEF LossIsCounted
    <2>4. LostBetween(first, newest)' = LostBetween(f, n)'
      BY <1>1, <2>1 DEF LostBetween
    <2>5. LossIsCounted'
      BY <1>1, <2>2, <2>3, <2>4 DEF LossIsCounted
    <2> QED BY <1>1, <1>7, <2>5, PathParts DEF TrackerBegins, NewerFramesAccepted
  <1>14. WaitInTurn'
    <2>1. lost' \cup vanished' \subseteq 1..Left
      <3> SUFFICES ASSUME NEW k \in lost' \cup vanished' PROVE k \in 1..Left
        OBVIOUS
      <3>1. k \in lost \cup vanished \/ k = h.n
        BY <1>1
      <3> QED BY <1>2, <1>4, <3>1
    <2> QED BY <1>1, <1>7, <2>1, PathParts DEF WaitInTurn
  <1>15. ComeInTurn'
    <2>1. ASSUME NEW i \in Way', NEW e, e = At(i)', e # Reset
          PROVE  /\ e.n \in 1..Left' /\ e.n \notin lost' /\ e.n \notin vanished' /\ e.seq \in Sequences
                 /\ numbered' /\ e.n > restartAt' => e.seq = NumberOf(e.n)'
      <3>1. /\ e.n \in Int /\ 1 <= e.n /\ e.n <= Left
            /\ e.n \notin lost /\ e.n \notin vanished /\ e.seq \in Sequences
            /\ numbered /\ e.n > restartAt => e.seq = NumberOf(e.n)
            /\ i = 0 => e.n < h.n
            /\ i > 0 => e.n > h.n
        BY <1>8, <2>1
      <3>2. e.n # h.n /\ e.n \in 1..Left
        BY <1>2, <1>3, <1>4, <3>1
      <3> QED BY <1>1, <1>7, <3>1, <3>2
    <2>2. ASSUME NEW i \in DOMAIN toViewer', toViewer'[i] # Reset
          PROVE  newest' < toViewer'[i].n
      BY <1>1, <1>3, <2>2, PathParts DEF ComeInTurn
    <2>3. ASSUME NEW i \in Way', NEW j \in Way', NEW d, NEW e, i < j,
                 d = At(i)', d # Reset, e = At(j)', e # Reset
          PROVE  d.n < e.n
      <3>1. PICK k \in Way : d = At(k) /\ (i = 0 => k = 0) /\ (i > 0 => k = i + 1)
        BY <1>8, <2>3
      <3>2. PICK m \in Way : e = At(m) /\ (j = 0 => m = 0) /\ (j > 0 => m = j + 1)
        BY <1>8, <2>3
      <3>3. k < m
        BY <1>3, <2>3, <3>1, <3>2
      <3> QED BY <2>3, <3>1, <3>2, <3>3, InOrder
    <2> QED BY <2>1, <2>2, <2>3, ComeInTurnAfter
  <1>16. NumbersFollow'
    <2> SUFFICES ASSUME NEW i \in Way', NEW j \in Way', NEW d, NEW e, j = i + 1,
                        d = At(i)', d # Reset, e = At(j)', e # Reset
                 PROVE  /\ AllMissing(d.n, e.n)'
                        /\ d.n > renumberedAt' => FarApart(d.seq, e.seq, d.n, e.n)'
      BY NumbersFollowAfter
    <2>1. PICK k \in Way : /\ d = At(k) /\ (i = 0 => k = 0) /\ (i > 0 => k = i + 1)
                           /\ d.n \in Int /\ 1 <= d.n /\ d.n <= Left /\ d.seq \in Int
                           /\ i = 0 => d.n < h.n
                           /\ i > 0 => d.n > h.n
      BY <1>8
    <2>2. j > 0
      BY <1>3
    <2>3. PICK m \in Way : /\ e = At(m) /\ m = j + 1
                           /\ e.n \in Int /\ e.n <= Left /\ e.seq \in Int /\ e.n > h.n
      BY <1>8, <2>2
    <2>4. CASE i > 0
      <3>1. AllMissing(d.n, e.n) /\ (d.n > renumberedAt => FarApart(d.seq, e.seq, d.n, e.n))
        <4>1. m = k + 1
          BY <1>3, <2>1, <2>3, <2>4
        <4> QED BY <2>1, <2>3, <4>1, PairNow
      <3>2. LostBetween(d.n, e.n)' = LostBetween(d.n, e.n)
        BY <1>4, <1>9, <2>1, <2>3, <2>4
      <3> QED BY <1>1, <1>10, <3>1, <3>2, ApartKept
    <2>5. CASE i = 0
      <3>1. k = 0 /\ 1 \in Way /\ m = 2 /\ d.n < h.n
        BY <1>3, <2>1, <2>3, <2>5
      <3>2. AllMissing(d.n, h.n) /\ (d.n > renumberedAt => FarApart(d.seq, h.seq, d.n, h.n))
        BY <1>1, <1>3, <2>1, <3>1, PairNow
      <3>3. AllMissing(h.n, e.n) /\ (h.n > renumberedAt => FarApart(h.seq, e.seq, h.n, e.n))
        BY <1>1, <1>3, <2>3, <3>1, PairNow
      <3>4. AllMissing(d.n, e.n)'
        BY <1>11, <2>1, <2>3, <3>2, <3>3
      <3>5. ASSUME d.n > renumberedAt PROVE FarApart(d.seq, e.seq, d.n, e.n)'
        <4>1. h.n > renumberedAt /\ 0 <= d.n /\ e.n <= MaxSent + 1
          BY <1>2, <1>4, <2>1, <2>3, <3>1, <3>5, PathConstants
        <4> QED BY <1>1, <1>4, <1>12, <2>1, <2>3, <3>1, <3>2, <3>3, <3>4, <3>5, <4>1, ApartJoined
      <3> QED BY <1>1, <3>4, <3>5
    <2> QED BY <1>3, <2>4, <2>5
  <1>17. NextFollows'
    <2> SUFFICES ASSUME NEW e, NEW v, NEW p, v = Len(toViewer'), e = At(v)', e # Reset, p = Left'
                 PROVE  /\ AllMissing(e.n, p + 1)' /\ lastForwarded' # NoSequence
                        /\ ~numbered' /\ e.n > renumberedAt' =>
                              \A s : s = NextSequence(lastForwarded') => FarApart(e.seq, s, e.n, p + 1)'
      BY NextFollowsAfter
    <2>1. v \in Way' /\ v + 1 = w /\ p = Left /\ v \in Nat
      BY <1>3, <1>7
    <2>2. PICK k \in Way : /\ e = At(k) /\ (v = 0 => k = 0) /\ (v > 0 => k = v + 1)
                           /\ e.n \in Int /\ 1 <= e.n /\ e.n <= Left /\ e.seq \in Int
                           /\ v = 0 => e.n < h.n
                           /\ v > 0 => e.n > h.n
      BY <1>8, <2>1
    <2>3. PICK o \in Int : o = Left + 1
      BY <1>2
    <2>4. CASE v > 0
      <3>1. e = At(Len(toViewer))
        BY <1>3, <2>1, <2>2, <2>4
      <3>2. /\ AllMissing(e.n, o) /\ lastForwarded # NoSequence
            /\ ~numbered /\ e.n > renumberedAt => FarApart(e.seq, NextSequence(lastForwarded), e.n, o)
        BY <2>3, <3>1, LastNow
      <3>3. LostBetween(e.n, o)' = LostBetween(e.n, o)
        BY <1>4, <1>9, <2>2, <2>3, <2>4
      <3>4. o = p + 1
        BY <2>1, <2>3
      <3> QED BY <1>1, <1>10, <3>2, <3>3, <3>4, ApartKept
    <2>5. CASE v = 0
      <3>1. k = 0 /\ 1 \in Way /\ h = At(Len(toViewer)) /\ e.n < h.n
        BY <1>3, <2>1, <2>2, <2>5
      <3>2. AllMissing(e.n, h.n) /\ (e.n > renumberedAt => FarApart(e.seq, h.seq, e.n, h.n))
        BY <1>1, <1>3, <2>2, <3>1, PairNow
      <3>3. /\ AllMissing(h.n, o) /\ lastForwarded # NoSequence
            /\ ~numbered /\ h.n > renumberedAt => FarApart(h.seq, NextSequence(lastForwarded), h.n, o)
        BY <1>1, <2>3, <3>1, LastNow
      <3>4. AllMissing(e.n, o)'
        BY <1>11, <2>2, <2>3, <3>2, <3>3
      <3>5. ASSUME ~numbered, e.n > renumberedAt, NEW s, s = NextSequence(lastForwarded)
            PROVE  FarApart(e.seq, s, e.n, o)'
        <4>1. h.n > renumberedAt /\ 0 <= e.n /\ o <= MaxSent + 1 /\ h.n < o
          BY <1>2, <1>4, <2>2, <2>3, <3>1, <3>5, PathConstants
        <4>2. s \in Int
          BY <1>2, <3>3, <3>5, ForwardToNext, PathConstants
        <4> QED BY <1>1, <1>4, <1>12, <2>2, <2>3, <3>1, <3>2, <3>3, <3>4, <3>5, <4>1, <4>2, ApartJoined
      <3>6. o = p + 1
        BY <2>1, <2>3
      <3> QED BY <1>1, <3>3, <3>4, <3>5, <3>6
    <2> QED BY <2>1, <2>4, <2>5
  <1>18. NumbersOfOneHost'
    <2>1. ASSUME numbered, NEW i \in Way', NEW e, e = At(i)', e.n > renumberedAt,
                 \A j \in Way' : \A f : j >= i /\ f = At(j)' => f # Reset
          PROVE  e.n > restartAt
      <3>1. i \in Int /\ i >= 0 /\ i >= i
        BY <1>3
      <3>2. e # Reset
        BY <2>1, <3>1
      <3>3. PICK k \in Way : e = At(k) /\ (i = 0 => k = 0) /\ (i > 0 => k = i + 1)
        BY <1>8, <2>1, <3>2
      <3>4. ASSUME NEW m \in Way, m >= k PROVE At(m) # Reset
        <4>1. CASE m = 1
          BY <1>1, <1>3, <4>1
        <4>2. CASE m = k
          BY <3>2, <3>3, <4>2
        <4>3. CASE m > 1 /\ m > k
          <5>1. PICK j \in Way' : m = j + 1 /\ j >= i /\ j > 0
            BY <1>3, <3>1, <3>3, <3>4, <4>3
          <5> QED BY <1>3, <2>1, <5>1
        <4> QED BY <1>3, <3>1, <3>3, <3>4, <4>1, <4>2, <4>3
      <3> QED BY <2>1, <3>3, <3>4, PathParts DEF NumbersOfOneHost
    <2> QED BY <1>1, <2>1, NumbersOfOneHostAfter
  <1>19. ForwardedLast'
    <2> SUFFICES ASSUME numbered, renumberedAt = 0, lastForwarded # NoSequence
                 PROVE  \E k \in restartAt + 1..Left' : \A p : p = Left' =>
                           lastForwarded = NumberOf(k)' /\ AllMissing(k, p + 1)'
      BY <1>1, ForwardedLastAfter
    <2>1. PICK f \in restartAt + 1..Left : lastForwarded = NumberOf(f) /\ AllMissing(f, Left + 1)
      BY PathParts DEF ForwardedLast
    <2> QED BY <1>7, <1>10, <2>1
  <1> QED BY <1>12, <1>13, <1>14, <1>15, <1>16, <1>17, <1>18, <1>19 DEF PathInv, FramesAreCounted

LEMMA NextPath == PathInv /\ [PathNext]_pathVars => PathInv'
  <1> SUFFICES ASSUME PathInv, [PathNext]_pathVars PROVE PathInv'
    OBVIOUS
  <1>1. CASE PathNext
    <2>1. PathTypeOK'
      BY <1>1, NextPathTypes, PathParts
    <2> QED BY <1>1, <2>1, HostSendsKeeps, HostTakesOverKeeps, RelayForwardsKeeps,
               RelayResetsKeeps, RoomReopensKeeps, LostBeforeKeeps, LostAfterKeeps,
               FrameReachesKeeps, ResetReachesKeeps DEF PathNext
  <1>2. CASE UNCHANGED pathVars
    <2>1. UNCHANGED <<sent, numbered, outSequence, toRelay, lastForwarded, toViewer, tracker,
                      first, newest, lost, vanished, breaks, restartAt, renumberedAt>>
      BY <1>2 DEF pathVars
    <2>2. /\ Left' = Left /\ Way' = Way /\ \A n : NumberOf(n)' = NumberOf(n)
          /\ \A i : At(i)' = At(i)
      BY <2>1 DEF Left, Way, NumberOf, At
    <2>3. PathTypeOK' /\ TrackerBegins' /\ WaitInTurn' /\ ComeInTurn'
      BY <2>1, <2>2, PathParts DEF PathTypeOK, TrackerBegins, WaitInTurn, ComeInTurn
    <2>4. NumbersFollow' /\ NumbersOfOneHost'
      <3>1. NumbersFollow /\ NumbersOfOneHost
        BY PathParts
      <3> QED BY <2>1, <2>2, <3>1 DEF NumbersFollow, NumbersOfOneHost, AllMissing, FarApart, LostBetween
    <2>5. ForwardedLast' /\ LossIsBounded' /\ NewerFramesAccepted' /\ LossIsCounted'
      BY <2>1, <2>2, PathParts
         DEF ForwardedLast, LossIsBounded, NewerFramesAccepted, LossIsCounted, AllMissing, LostBetween
    <2>6. NextFollows'
      <3> SUFFICES ASSUME NEW e, NEW v, NEW p, v = Len(toViewer'), e = At(v)', e # Reset, p = Left'
                   PROVE  /\ AllMissing(e.n, p + 1)' /\ lastForwarded' # NoSequence
                          /\ ~numbered' /\ e.n > renumberedAt' =>
                                \A s : s = NextSequence(lastForwarded') => FarApart(e.seq, s, e.n, p + 1)'
        BY NextFollowsAfter
      <3>1. /\ AllMissing(e.n, p + 1) /\ lastForwarded # NoSequence
            /\ ~numbered /\ e.n > renumberedAt => FarApart(e.seq, NextSequence(lastForwarded), e.n, p + 1)
        BY <2>1, <2>2, LastNow
      <3> QED BY <2>1, <3>1, MissingGrows, ApartKept, LostSame
    <2> QED BY <2>3, <2>4, <2>5, <2>6 DEF PathInv, FramesAreCounted
  <1> QED BY <1>1, <1>2

\* What was sent arrives in order, the numbers of two frames that follow each other are as
\* far apart as the frames that were lost between them, and the frames that wait for the
\* relay continue them (relay-client.ts:53-94, relay-server.ts:623-634): for every range
\* of numbers that is even and larger than twice the frames lost in a row.
THEOREM PathInductive == PathSpec => []PathInv
  <1> QED BY InitPath, NextPath, PTL DEF PathSpec

\* A viewer refuses no frame and counts as lost what was lost (relay-client.ts:53-94), for
\* any number of hosts of which none that numbers takes over a room whose viewers stay.
\* After one did, this holds again from the viewer's next reset; until then frames may be
\* refused, as NoFrameRefused is found to be violated.
THEOREM FramesCounted == PathSpec => []FramesAreCounted
  <1>1. PathInv => FramesAreCounted
    BY DEF PathInv
  <1> QED BY <1>1, PathInductive, PTL
=============================================================================
