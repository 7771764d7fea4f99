------------------------- MODULE RelayClient_proofs -------------------------
(***************************************************************************)
(* The relay client's invariant IInv is inductive, for any number of       *)
(* calls, lost connections and packets; from it follow its safety          *)
(* properties.  A connection carries one request, so the packets under way *)
(* lead from the place the client believes to have in the room to the one  *)
(* the relay holds for it; every step keeps that.                          *)
(***************************************************************************)
EXTENDS RelayClient, TLAPS

(***************************************************************************)
(* Packets: the rest of a sequence and a longer one.                       *)
(***************************************************************************)
LEMMA RestOf ==
    ASSUME NEW S, NEW s \in Seq(S), s # <<>>
    PROVE  /\ Tail(s) \in Seq(S) /\ Len(Tail(s)) = Len(s) - 1 /\ Len(s) \in Nat \ {0}
           /\ Head(s) = s[1] /\ Head(s) \in S
           /\ \A i \in 1..Len(Tail(s)) : i + 1 \in 1..Len(s) /\ Tail(s)[i] = s[i + 1]
           /\ \A i \in 1..Len(s) : i # 1 =>
                 i - 1 \in 1..Len(Tail(s)) /\ s[i] = Tail(s)[i - 1]
  <1>1. /\ Tail(s) \in Seq(S) /\ Len(Tail(s)) = Len(s) - 1 /\ Len(s) \in Nat \ {0}
        /\ Head(s) = s[1] /\ Head(s) \in S
    OBVIOUS
  <1>2. \A i \in 1..Len(Tail(s)) : i + 1 \in 1..Len(s) /\ Tail(s)[i] = s[i + 1]
    OBVIOUS
  <1>3. ASSUME NEW i \in 1..Len(s), i # 1
        PROVE  i - 1 \in 1..Len(Tail(s)) /\ s[i] = Tail(s)[i - 1]
    <2>1. i - 1 \in 1..Len(Tail(s)) /\ (i - 1) + 1 = i
      BY <1>1, <1>3
    <2> QED BY <1>2, <2>1
  <1> QED BY <1>1, <1>2, <1>3

LEMMA LongerBy ==
    ASSUME NEW S, NEW s \in Seq(S), NEW e \in S
    PROVE  /\ Append(s, e) \in Seq(S) /\ Len(Append(s, e)) = Len(s) + 1 /\ Len(s) \in Nat
           /\ \A i \in 1..Len(s) : i \in 1..Len(Append(s, e)) /\ Append(s, e)[i] = s[i]
           /\ Len(s) + 1 \in 1..Len(Append(s, e)) /\ Append(s, e)[Len(s) + 1] = e
           /\ \A i \in 1..Len(Append(s, e)) : i \in 1..Len(s) \/ i = Len(s) + 1
  OBVIOUS

(***************************************************************************)
(* What a client knows without the relay.                                  *)
(***************************************************************************)
\* the conjuncts of IInv that do not depend on where an answer is
Local ==
    /\ TypeOK
    /\ CallsAreCurrent
    /\ ConnectionsAreFresh
    /\ FramesHaveRoom
    /\ SessionIsCurrent
    /\ SentInItsRoom
    /\ PlaysInTime
    /\ OnlyViewersWait

LEMMA FramesFit ==
    ASSUME Local, UNCHANGED down, buffered' = buffered \/ buffered' = 0
    PROVE  FramesHaveRoom'
  <1>1. /\ Len(down) \in Nat /\ buffered \in Nat /\ MaxBacklog \in Nat
        /\ \A i \in 1..Len(down) : down[i].type = "m" => i + buffered <= MaxBacklog
    BY BoundsAssumption DEF Local, TypeOK, FramesHaveRoom
  <1>2. \A i \in 1..Len(down) : down[i].type = "m" => i + buffered' <= MaxBacklog
    BY <1>1
  <1> QED BY <1>2 DEF FramesHaveRoom

\* A reset client, about to enter a room or to stay outside.
LEMMA ResetLocal ==
    ASSUME Local, gen < MaxCalls, ResetConnectionState, NEW started,
           InvalidateLifecycle(started), UNCHANGED <<delayed, drops>>,
           overtaken' \in BOOLEAN, gaveUp' \in BOOLEAN, forgotten' \in BOOLEAN, Boundary,
           \/ started = {} /\ wanted' = None
           \/ \E role \in Roles : /\ wanted' = role
                 /\ started = {[role |-> role, gen |-> gen + 1, stage |-> "http"]}
    PROVE  Local' /\ link' = "closed"
  <1> USE DEF InvalidateLifecycle, ResetConnectionState, ClearActiveRoomState,
              ClearBufferedMotion, ClearDelayedMotion, Boundary, LeaveSession
  <1>1. gen' \in 1..MaxCalls
    BY BoundsAssumption DEF Local, TypeOK
  <1>2. TypeOK'
    <2>1. calls' \subseteq Calls
      BY <1>1 DEF Calls, Stages
    <2>2. wanted' \in Roles \cup {None} /\ delayed' \in BOOLEAN /\ drops' \in 0..MaxDrops
      BY DEF Local, TypeOK
    <2>3. /\ up' \in Seq(Roles) /\ down' \in Seq(Answers \cup Events)
          /\ socket' \in 0..MaxCalls /\ latest' \in 0..MaxCalls /\ gen' \in 0..MaxCalls
          /\ buffered' \in 0..MaxBacklog /\ fresh' \in 0..MaxBacklog
      BY <1>1, BoundsAssumption
    <2>4. /\ session' \in Sessions \cup {None} /\ bound' \in {"no", "waiting"} \cup Roles
          /\ rejoin' \in {"none", "wait"} \cup Settled
          /\ link' \in {"closed", "connecting", "up", "down"}
      OBVIOUS
    <2>5. room' \in BOOLEAN /\ flushTimer' \in BOOLEAN /\ motionTimer' \in BOOLEAN
          /\ tracking' \in BOOLEAN
      OBVIOUS
    <2> QED BY <2>1, <2>2, <2>3, <2>4, <2>5 DEF TypeOK
  <1>3. CallsAreCurrent'
    BY <1>1 DEF CallsAreCurrent
  <1>4. ConnectionsAreFresh' /\ FramesHaveRoom' /\ OnlyViewersWait'
    <2>1. \A c \in calls' : c.stage # "approval-required"
      OBVIOUS
    <2> QED BY <2>1 DEF ConnectionsAreFresh, FramesHaveRoom, OnlyViewersWait
  <1>5. SessionIsCurrent' /\ SentInItsRoom' /\ PlaysInTime'
    BY BoundsAssumption DEF SessionIsCurrent, SentInItsRoom, PlaysInTime
  <1> QED BY <1>2, <1>3, <1>4, <1>5 DEF Local

LEMMA BeginCallLocal ==
    ASSUME Local, NEW role \in Roles, BeginCall(role)
    PROVE  Local' /\ link' = "closed"
  <1>1. \E r \in Roles : /\ wanted' = r
            /\ {[role |-> role, gen |-> gen + 1, stage |-> "http"]}
                  = {[role |-> r, gen |-> gen + 1, stage |-> "http"]}
    BY DEF BeginCall
  <1> QED BY <1>1, ResetLocal DEF BeginCall

LEMMA DisconnectLocal ==
    ASSUME Local, Disconnect
    PROVE  Local' /\ link' = "closed"
  <1>1. overtaken' \in BOOLEAN /\ gaveUp' \in BOOLEAN /\ forgotten' \in BOOLEAN
    BY DEF Disconnect, gapVars, Local, TypeOK
  <1> QED BY <1>1, ResetLocal DEF Disconnect

\* A call goes on to its next stage; there is no other.
LEMMA MovesLocal ==
    ASSUME Local, NEW c \in calls, NEW stage \in Stages, Moves(c, stage)
    PROVE  /\ calls' = {[c EXCEPT !.stage = stage]} /\ calls' \subseteq Calls
           /\ c \in Calls /\ c.gen = gen /\ c.role = wanted /\ wanted \in Roles
           /\ session = None /\ rejoin = "none"
           /\ [c EXCEPT !.stage = stage].role = c.role
           /\ [c EXCEPT !.stage = stage].gen = c.gen
           /\ [c EXCEPT !.stage = stage].stage = stage
  <1>1. c \in Calls /\ calls = {c} /\ c.gen = gen /\ c.role = wanted
        /\ session = None /\ rejoin = "none"
    BY DEF Local, TypeOK, CallsAreCurrent
  <1>2. calls' = {[c EXCEPT !.stage = stage]}
    BY <1>1 DEF Moves
  <1>3. /\ [c EXCEPT !.stage = stage] \in Calls /\ c.role \in Roles
        /\ [c EXCEPT !.stage = stage].role = c.role
        /\ [c EXCEPT !.stage = stage].gen = c.gen
        /\ [c EXCEPT !.stage = stage].stage = stage
    BY <1>1 DEF Calls
  <1> QED BY <1>1, <1>2, <1>3

LEMMA HttpDoneLocal ==
    ASSUME Local, NEW c \in calls, HttpDone(c)
    PROVE  Local' /\ link' = "connecting"
  <1> USE DEF HttpDone, outVars, playVars, gapVars
  <1>1. /\ calls' = {[c EXCEPT !.stage = "connecting"]} /\ calls' \subseteq Calls
        /\ c \in Calls /\ c.gen = gen /\ c.role = wanted /\ wanted \in Roles
        /\ session = None /\ rejoin = "none"
        /\ [c EXCEPT !.stage = "connecting"].role = c.role
        /\ [c EXCEPT !.stage = "connecting"].gen = c.gen
        /\ [c EXCEPT !.stage = "connecting"].stage = "connecting"
    BY MovesLocal DEF Stages
  <1>2. link = "closed" /\ c.gen \in 1..MaxCalls
    BY <1>1 DEF Local, CallsAreCurrent, Calls
  <1>3. TypeOK'
    <2>1. socket' \in 0..MaxCalls /\ link' \in {"closed", "connecting", "up", "down"}
      BY <1>2, BoundsAssumption
    <2> QED BY <1>1, <2>1 DEF Local, TypeOK
  <1>4. CallsAreCurrent' /\ SessionIsCurrent'
    BY <1>1, NoneAssumption DEF Local, CallsAreCurrent, SessionIsCurrent
  <1>5. ConnectionsAreFresh' /\ FramesHaveRoom' /\ SentInItsRoom' /\ PlaysInTime'
    BY <1>2 DEF Local, ConnectionsAreFresh, FramesHaveRoom, SentInItsRoom, PlaysInTime
  <1>6. OnlyViewersWait'
    BY <1>1 DEF Local, OnlyViewersWait
  <1> QED BY <1>3, <1>4, <1>5, <1>6 DEF Local

LEMMA CallFailsLocal ==
    ASSUME Local, NEW c \in calls, CallFails(c)
    PROVE  Local'
  <1> USE DEF CallFails, outVars, playVars, netVars, gapVars
  <1>1. TypeOK'
    BY DEF Local, TypeOK
  <1>2. CallsAreCurrent' /\ SessionIsCurrent'
    BY DEF Local, CallsAreCurrent, SessionIsCurrent
  <1>3. /\ ConnectionsAreFresh' /\ FramesHaveRoom' /\ SentInItsRoom' /\ PlaysInTime'
        /\ OnlyViewersWait'
    BY DEF Local, ConnectionsAreFresh, FramesHaveRoom, SentInItsRoom, PlaysInTime,
           OnlyViewersWait
  <1> QED BY <1>1, <1>2, <1>3 DEF Local

\* the session a call installs
Installed(c) == [role |-> c.role, gen |-> c.gen, waiting |-> c.stage = "approval-required"]

LEMMA ResumeCallLocal ==
    ASSUME Local, NEW c \in calls, ResumeCall(c)
    PROVE  /\ Local' /\ calls' = {} /\ UNCHANGED <<link, rejoin>>
           /\ session' = None \/ (session' = Installed(c) /\ c.stage # "refused")
           /\ UNCHANGED <<up, down, bound, gapVars>>
  <1> USE DEF ResumeCall, OwnsLifecycle, ClearDelayedMotion, Boundary, outVars, netVars, gapVars
  <1>1. c \in Calls /\ calls = {c} /\ c.gen = gen /\ c.role = wanted /\ session = None
        /\ rejoin = "none" /\ link = "up"
    BY DEF Local, TypeOK, CallsAreCurrent, Settled
  <1>2. calls' = {} /\ wanted \in Roles /\ wanted # None
    BY <1>1, NoneAssumption DEF Calls
  <1>3. session' = None \/ (session' = Installed(c) /\ c.stage # "refused")
    BY <1>1 DEF Installed
  <1>4. /\ Installed(c) \in Sessions /\ Installed(c).gen = gen /\ Installed(c).role = wanted
        /\ Installed(c).waiting => wanted = "viewer"
    BY <1>1 DEF Installed, Sessions, Calls, Local, OnlyViewersWait
  <1>5. /\ room' => session' # None
        /\ room' \in BOOLEAN /\ tracking' \in BOOLEAN /\ motionTimer' \in BOOLEAN
        /\ buffered' \in 0..MaxBacklog /\ fresh' \in 0..MaxBacklog
        /\ buffered' <= fresh' /\ (buffered' > 0 => motionTimer')
        /\ buffered' = buffered \/ buffered' = 0
    <2>1. CASE c.stage # "refused"
      <3>1. /\ session' = Installed(c) /\ session' # None
            /\ room' = TRUE /\ tracking' = FALSE /\ motionTimer' = FALSE
        BY <1>1, <1>4, <2>1, NoneAssumption DEF Installed
      <3>2. buffered' = 0 /\ fresh' = 0
        BY <1>1, <2>1
      <3>3. buffered' \in 0..MaxBacklog /\ fresh' \in 0..MaxBacklog
        BY <3>2, BoundsAssumption
      <3>4. buffered' <= fresh' /\ ~(buffered' > 0)
        BY <3>2
      <3>5. room' \in BOOLEAN /\ tracking' \in BOOLEAN /\ motionTimer' \in BOOLEAN
        BY <3>1
      <3> QED BY <3>1, <3>2, <3>3, <3>4, <3>5
    <2>2. CASE c.stage = "refused"
      BY <1>1, <2>2 DEF Local, TypeOK, SessionIsCurrent, PlaysInTime
    <2> QED BY <2>1, <2>2
  <1>6. TypeOK'
    BY <1>2, <1>3, <1>4, <1>5 DEF Local, TypeOK
  <1>7. CallsAreCurrent' /\ SessionIsCurrent'
    BY <1>2, <1>3, <1>4, <1>5 DEF Local, CallsAreCurrent, SessionIsCurrent
  <1>8. ConnectionsAreFresh' /\ SentInItsRoom' /\ PlaysInTime'
    BY <1>5 DEF Local, ConnectionsAreFresh, SentInItsRoom, PlaysInTime
  <1>9. FramesHaveRoom'
    BY <1>5, FramesFit
  <1>10. OnlyViewersWait'
    BY <1>2, <1>3, <1>4 DEF Local, OnlyViewersWait
  <1> QED BY <1>1, <1>2, <1>3, <1>6, <1>7, <1>8, <1>9, <1>10 DEF Local

(***************************************************************************)
(* The connection.                                                         *)
(***************************************************************************)
LEMMA SocketConnectsLocal ==
    ASSUME Local, SocketConnects
    PROVE  /\ Local' /\ link' = "up" /\ UNCHANGED <<down, bound, session>>
           /\ up = <<>> /\ down = <<>> /\ bound = "no"
           /\ \/ rejoin' = "wait" /\ up' = <<session.role>> /\ session # None /\ calls' = {}
              \/ /\ session = None
                 /\ \A c \in calls' : c.stage = "ack" /\ up' = <<c.role>>
  <1> USE DEF SocketConnects, outVars, playVars, gapVars
  <1>1. /\ up = <<>> /\ down = <<>> /\ bound = "no" /\ rejoin = "none"
        /\ link \in {"connecting", "down"} /\ socket # 0
    BY DEF Local, ConnectionsAreFresh
  <1>2. \A c \in calls : c.stage = "connecting"
    BY <1>1 DEF Local, CallsAreCurrent
  <1>3. CASE session # None
    <2>1. /\ calls = {} /\ calls' = calls /\ rejoin' = "wait" /\ up' = Append(up, session.role)
          /\ overtaken' = FALSE /\ gaveUp' = FALSE /\ forgotten' = FALSE
      BY <1>1, <1>2, <1>3 DEF Local, CallsAreCurrent
    <2>2. session.role = wanted /\ wanted \in Roles /\ up' = <<wanted>>
      BY <1>1, <1>3, <2>1 DEF Local, TypeOK, SessionIsCurrent, Sessions
    <2>3. up' \in Seq(Roles) /\ Len(up') = 1 /\ up'[1] = wanted
      BY <2>2
    <2>4. TypeOK'
      BY <2>1, <2>3 DEF Local, TypeOK
    <2>5. /\ CallsAreCurrent' /\ SessionIsCurrent' /\ ConnectionsAreFresh'
          /\ SentInItsRoom' /\ PlaysInTime'
      BY <1>1, <2>1 DEF Local, CallsAreCurrent, SessionIsCurrent, ConnectionsAreFresh,
                        SentInItsRoom, PlaysInTime
    <2>6. FramesHaveRoom'
      BY FramesFit
    <2>7. OnlyViewersWait'
      BY <2>1, <2>3 DEF Local, OnlyViewersWait
    <2> QED BY <1>1, <1>3, <2>1, <2>2, <2>4, <2>5, <2>6, <2>7 DEF Local
  <1>4. CASE session = None /\ \E c \in calls : c.stage = "connecting"
    <2>1. PICK c \in calls : Moves(c, "ack") /\ up' = Append(up, c.role)
      BY <1>2, <1>4
    <2>2. UNCHANGED <<rejoin, overtaken, gaveUp, forgotten>>
      BY <1>2, <1>4
    <2>3. /\ calls' = {[c EXCEPT !.stage = "ack"]} /\ calls' \subseteq Calls
          /\ c \in Calls /\ c.gen = gen /\ c.role = wanted /\ wanted \in Roles
          /\ [c EXCEPT !.stage = "ack"].role = c.role
          /\ [c EXCEPT !.stage = "ack"].gen = c.gen
          /\ [c EXCEPT !.stage = "ack"].stage = "ack"
      BY <2>1, MovesLocal DEF Stages
    <2>4. up' = <<wanted>> /\ up' \in Seq(Roles) /\ Len(up') = 1 /\ up'[1] = wanted
      BY <1>1, <2>1, <2>3
    <2>5. TypeOK'
      BY <2>2, <2>3, <2>4 DEF Local, TypeOK
    <2>6. /\ CallsAreCurrent' /\ SessionIsCurrent' /\ ConnectionsAreFresh'
          /\ SentInItsRoom' /\ PlaysInTime'
      BY <1>1, <1>4, <2>2, <2>3 DEF Local, CallsAreCurrent, SessionIsCurrent,
                                    ConnectionsAreFresh, SentInItsRoom, PlaysInTime
    <2>7. FramesHaveRoom'
      BY FramesFit
    <2>8. OnlyViewersWait'
      BY <2>2, <2>3, <2>4 DEF Local, OnlyViewersWait
    <2> QED BY <1>1, <1>4, <2>3, <2>4, <2>5, <2>6, <2>7, <2>8 DEF Local
  <1>5. CASE session = None /\ \A c \in calls : c.stage # "connecting"
    <2>1. calls = {} /\ UNCHANGED <<calls, up, rejoin, overtaken, gaveUp, forgotten>>
      BY <1>2, <1>5
    <2>2. TypeOK'
      BY <2>1 DEF Local, TypeOK
    <2>3. /\ CallsAreCurrent' /\ SessionIsCurrent' /\ ConnectionsAreFresh'
          /\ SentInItsRoom' /\ PlaysInTime'
      BY <1>1, <2>1 DEF Local, CallsAreCurrent, SessionIsCurrent, ConnectionsAreFresh,
                        SentInItsRoom, PlaysInTime
    <2>4. FramesHaveRoom'
      BY FramesFit
    <2>5. OnlyViewersWait'
      BY <2>1 DEF Local, OnlyViewersWait
    <2> QED BY <1>1, <1>5, <2>1, <2>2, <2>3, <2>4, <2>5 DEF Local
  <1> QED BY <1>3, <1>4, <1>5

LEMMA ConnectionLostLocal ==
    ASSUME Local, ConnectionLost
    PROVE  Local' /\ link' = "down"
  <1> USE DEF ConnectionLost, ClearDelayedMotion, Boundary, outVars, gapVars
  <1>1. calls' \subseteq calls /\ \A c \in calls' : c.stage = "connecting"
    BY DEF Local, TypeOK, CallsAreCurrent, AwaitsAck, OwnsLifecycle, Quiet, Calls, Stages,
           Settled
  <1>2. drops' \in 0..MaxDrops /\ buffered' \in 0..MaxBacklog /\ fresh' \in 0..MaxBacklog
    BY BoundsAssumption DEF Local, TypeOK
  <1>3. up' \in Seq(Roles) /\ down' \in Seq(Answers \cup Events)
        /\ rejoin' \in {"none", "wait"} \cup Settled /\ bound' \in {"no", "waiting"} \cup Roles
        /\ link' \in {"closed", "connecting", "up", "down"}
    OBVIOUS
  <1>9. motionTimer' \in BOOLEAN
    OBVIOUS
  <1>4. TypeOK'
    BY <1>1, <1>2, <1>3, <1>9 DEF Local, TypeOK
  <1>5. CallsAreCurrent' /\ SessionIsCurrent'
    BY <1>1 DEF Local, CallsAreCurrent, SessionIsCurrent
  <1>6. ConnectionsAreFresh' /\ FramesHaveRoom'
    BY DEF Local, ConnectionsAreFresh, FramesHaveRoom
  <1>7. SentInItsRoom' /\ PlaysInTime'
    BY DEF Local, SentInItsRoom, PlaysInTime
  <1>8. OnlyViewersWait'
    BY <1>1 DEF Local, OnlyViewersWait
  <1> QED BY <1>4, <1>5, <1>6, <1>7, <1>8 DEF Local

LEMMA AckTimeoutLocal ==
    ASSUME Local, AckTimeout
    PROVE  Local'
  <1> USE DEF AckTimeout, outVars, playVars, netVars
  <1>1. /\ calls' \subseteq calls /\ rejoin' \in {rejoin, "none"} /\ gaveUp' \in BOOLEAN
        /\ UNCHANGED <<overtaken, forgotten>>
    BY DEF Local, TypeOK
  <1>2. TypeOK'
    BY <1>1 DEF Local, TypeOK
  <1>3. /\ CallsAreCurrent' /\ SessionIsCurrent' /\ ConnectionsAreFresh'
        /\ SentInItsRoom' /\ PlaysInTime'
    BY <1>1 DEF Local, CallsAreCurrent, SessionIsCurrent, ConnectionsAreFresh,
           SentInItsRoom, PlaysInTime
  <1>4. FramesHaveRoom'
    BY FramesFit
  <1>5. OnlyViewersWait'
    BY <1>1 DEF Local, OnlyViewersWait
  <1> QED BY <1>2, <1>3, <1>4, <1>5 DEF Local

LEMMA ResumeRejoinLocal ==
    ASSUME Local, ResumeRejoin
    PROVE  /\ Local' /\ rejoin' = "none" /\ calls' = {}
           /\ UNCHANGED <<link, up, down, bound, overtaken, gaveUp, forgotten>>
           /\ session' # None => /\ session # None /\ rejoin \in {"ok", "approval-required"}
                                 /\ session'.role = session.role
                                 /\ PlaceOf(session') = Granted(session.role, rejoin)
  <1> USE DEF ResumeRejoin, netVars, gapVars
  <1>1. calls = {} /\ UNCHANGED calls /\ socket # 0 /\ link = "up"
    BY DEF Local, CallsAreCurrent, ConnectionsAreFresh, Settled
  <1>2. CASE session = None
    <2>1. UNCHANGED <<session, room, tracking, latest, flushTimer, buffered, motionTimer, fresh>>
      BY <1>2 DEF OwnsSession, outVars
    <2>2. TypeOK'
      BY <2>1 DEF Local, TypeOK
    <2>3. /\ CallsAreCurrent' /\ SessionIsCurrent' /\ ConnectionsAreFresh'
          /\ SentInItsRoom' /\ PlaysInTime'
      BY <1>1, <2>1 DEF Local, CallsAreCurrent, SessionIsCurrent, ConnectionsAreFresh,
                        SentInItsRoom, PlaysInTime
    <2>4. FramesHaveRoom'
      BY <2>1, FramesFit
    <2>5. OnlyViewersWait'
      BY <2>1 DEF Local, OnlyViewersWait
    <2> QED BY <1>1, <1>2, <2>1, <2>2, <2>3, <2>4, <2>5 DEF Local
  <1>3. CASE session # None /\ rejoin = "refused"
    <2> USE DEF ClearActiveRoomState, ClearBufferedMotion, ClearDelayedMotion, Boundary,
                LeaveSession
    <2>1. /\ session' = None /\ room' = FALSE /\ tracking' = FALSE /\ latest' = 0
          /\ flushTimer' = FALSE /\ buffered' = 0 /\ motionTimer' = FALSE /\ fresh' = 0
      BY <1>1, <1>3 DEF OwnsSession
    <2>2. latest' \in 0..MaxCalls /\ buffered' \in 0..MaxBacklog /\ fresh' \in 0..MaxBacklog
      BY <2>1, BoundsAssumption
    <2>3. TypeOK'
      BY <2>1, <2>2 DEF Local, TypeOK
    <2>4. CallsAreCurrent' /\ SessionIsCurrent' /\ ConnectionsAreFresh'
      BY <1>1, <2>1 DEF Local, CallsAreCurrent, SessionIsCurrent, ConnectionsAreFresh
    <2>5. SentInItsRoom' /\ PlaysInTime'
      BY <2>1 DEF SentInItsRoom, PlaysInTime
    <2>6. FramesHaveRoom'
      BY <2>1, FramesFit
    <2>7. OnlyViewersWait'
      BY <2>1, <1>1 DEF Local, OnlyViewersWait
    <2> QED BY <1>1, <2>1, <2>3, <2>4, <2>5, <2>6, <2>7 DEF Local
  <1>4. CASE session # None /\ rejoin # "refused"
    <2>1. /\ room' = TRUE /\ UNCHANGED <<tracking, latest, flushTimer>>
          /\ buffered' = 0 /\ motionTimer' = FALSE /\ fresh' = 0
          /\ session' = IF session.role = "viewer"
                        THEN [session EXCEPT !.waiting = rejoin = "approval-required"]
                        ELSE session
      BY <1>1, <1>4 DEF OwnsSession, outVars, ClearDelayedMotion, Boundary
    <2>2. /\ session \in Sessions /\ session' \in Sessions /\ session' # None
          /\ session'.role = session.role /\ session'.gen = session.gen
          /\ session.role = wanted /\ rejoin \in {"ok", "approval-required"}
      BY <1>4, <2>1, NoneAssumption DEF Local, TypeOK, Sessions, SessionIsCurrent, Settled
    <2>3. session'.waiting => wanted = "viewer"
      BY <1>4, <2>1, <2>2 DEF Sessions, Local, OnlyViewersWait
    <2>4. PlaceOf(session') = Granted(session.role, rejoin)
      BY <1>4, <2>1, <2>2 DEF Sessions, Local, OnlyViewersWait, PlaceOf, Granted
    <2>5. buffered' \in 0..MaxBacklog /\ fresh' \in 0..MaxBacklog
      BY <2>1, BoundsAssumption
    <2>6. TypeOK'
      BY <1>1, <2>1, <2>2, <2>5 DEF Local, TypeOK
    <2>7. CallsAreCurrent' /\ SessionIsCurrent' /\ ConnectionsAreFresh'
      BY <1>1, <1>4, <2>1, <2>2 DEF Local, CallsAreCurrent, SessionIsCurrent, ConnectionsAreFresh
    <2>8. SentInItsRoom' /\ PlaysInTime'
      BY <2>1 DEF Local, SentInItsRoom, PlaysInTime
    <2>9. FramesHaveRoom'
      BY <2>1, FramesFit
    <2>10. OnlyViewersWait'
      BY <1>1, <2>1, <2>3 DEF Local, OnlyViewersWait
    <2> QED BY <1>1, <1>4, <2>2, <2>4, <2>6, <2>7, <2>8, <2>9, <2>10 DEF Local
  <1> QED BY <1>2, <1>3, <1>4

(***************************************************************************)
(* The relay, and the packets it sent.                                     *)
(***************************************************************************)
\* a packet joins those under way
Sent(e) == down' = Append(down, e)

LEMMA SentLocal ==
    ASSUME Local, NEW e \in Answers \cup Events, Sent(e),
           e.type = "m" => Len(down) + buffered < MaxBacklog,
           e.type = "ack" /\ e.result = "approval-required" => wanted = "viewer",
           link = "up", up' = up \/ (up # <<>> /\ up' = Tail(up)),
           bound' \in {"no", "waiting"} \cup Roles,
           UNCHANGED <<clientVars, outVars, playVars, link, drops, gapVars>>
    PROVE  Local'
  <1> USE DEF Sent, clientVars, outVars, playVars, gapVars
  <1>0. down \in Seq(Answers \cup Events) /\ up \in Seq(Roles) /\ buffered \in Nat
        /\ MaxBacklog \in Nat
    BY BoundsAssumption DEF Local, TypeOK
  <1>1. /\ down' \in Seq(Answers \cup Events) /\ Len(down) \in Nat
        /\ \A i \in 1..Len(down) : i \in 1..Len(down') /\ down'[i] = down[i]
        /\ Len(down) + 1 \in 1..Len(down') /\ down'[Len(down) + 1] = e
        /\ \A i \in 1..Len(down') : i \in 1..Len(down) \/ i = Len(down) + 1
    <2> HIDE DEF Sent
    <2> DEFINE S == Answers \cup Events
    <2> HIDE DEF S
    <2>1. down \in Seq(S) /\ e \in S /\ down' = Append(down, e)
      BY <1>0 DEF S, Sent
    <2>2. down' \in Seq(S)
      BY <2>1
    <2>3. /\ Len(down) \in Nat
          /\ \A i \in 1..Len(down) : i \in 1..Len(down') /\ down'[i] = down[i]
          /\ Len(down) + 1 \in 1..Len(down') /\ down'[Len(down) + 1] = e
          /\ \A i \in 1..Len(down') : i \in 1..Len(down) \/ i = Len(down) + 1
      BY <2>1, LongerBy
    <2> QED BY <2>2, <2>3 DEF S
  <1>2. up' \in Seq(Roles) /\ \A i \in 1..Len(up') : up'[i] = wanted
    <2>1. \A i \in 1..Len(up) : up[i] = wanted
      BY DEF Local, OnlyViewersWait
    <2>2. CASE up # <<>> /\ up' = Tail(up)
      BY <1>0, <2>1, <2>2, RestOf
    <2>3. CASE up' = up
      BY <1>0, <2>1, <2>3
    <2> QED BY <2>2, <2>3
  <1>3. TypeOK'
    BY <1>1, <1>2 DEF Local, TypeOK
  <1>4. /\ CallsAreCurrent' /\ SessionIsCurrent' /\ ConnectionsAreFresh'
        /\ SentInItsRoom' /\ PlaysInTime'
    BY DEF Local, CallsAreCurrent, SessionIsCurrent, ConnectionsAreFresh,
           SentInItsRoom, PlaysInTime
  <1>5. FramesHaveRoom'
    <2> SUFFICES ASSUME NEW i \in 1..Len(down'), down'[i].type = "m"
                 PROVE  i + buffered <= MaxBacklog
      BY DEF FramesHaveRoom
    <2>1. CASE i \in 1..Len(down)
      BY <1>1, <2>1 DEF Local, FramesHaveRoom
    <2>2. CASE i = Len(down) + 1
      BY <1>0, <1>1, <2>2
    <2> QED BY <1>1, <2>1, <2>2
  <1>6. OnlyViewersWait'
    <2>1. ASSUME NEW i \in 1..Len(down'), down'[i].type = "ack",
                 down'[i].result = "approval-required"
          PROVE  wanted = "viewer"
      BY <1>1, <2>1 DEF Local, OnlyViewersWait
    <2> QED BY <1>2, <2>1 DEF Local, OnlyViewersWait
  <1> QED BY <1>3, <1>4, <1>5, <1>6 DEF Local

LEMMA RelayAnswersLocal ==
    ASSUME Local, RelayAnswers
    PROVE  Local'
  <1>1. PICK result \in Settled :
            /\ result = "approval-required" => Head(up) = "viewer"
            /\ Sent([type |-> "ack", result |-> result])
            /\ bound' = Granted(Head(up), result)
    BY DEF RelayAnswers, Sent, Granted
  <1>2. up \in Seq(Roles) /\ up # <<>>
    BY DEF RelayAnswers, Local, TypeOK
  <1>3. Head(up) = up[1] /\ 1 \in 1..Len(up) /\ Head(up) \in Roles
    BY <1>2, RestOf
  <1>4. Head(up) = wanted
    BY <1>3 DEF Local, OnlyViewersWait
  <1>5. [type |-> "ack", result |-> result] \in Answers \cup Events
    BY DEF Answers
  <1>6. bound' \in {"no", "waiting"} \cup Roles
    BY <1>1, <1>3 DEF Granted, Settled
  <1> QED BY <1>1, <1>4, <1>5, <1>6, SentLocal DEF RelayAnswers, UnchangedByRelay

LEMMA RelayNotifiesLocal ==
    ASSUME Local, RelayNotifies
    PROVE  Local'
  <1>1. PICK type \in {"approved", "rejected", "removed", "stop", "m"} :
            /\ Sent([type |-> type])
            /\ bound' \in {bound, "viewer", "no"}
    BY DEF RelayNotifies, Sent
  <1>2. [type |-> type] \in Answers \cup Events
    BY DEF Events
  <1>3. bound' \in {"no", "waiting"} \cup Roles
    BY <1>1 DEF Local, TypeOK, Roles
  <1> QED BY <1>1, <1>2, <1>3, SentLocal DEF RelayNotifies, UnchangedByRelay, Room

LEMMA RelayForgetsLocal ==
    ASSUME Local, RelayForgets
    PROVE  Local'
  <1> USE DEF RelayForgets, clientVars, outVars, playVars
  <1>1. TypeOK'
    BY DEF Local, TypeOK
  <1>2. /\ CallsAreCurrent' /\ SessionIsCurrent' /\ ConnectionsAreFresh'
        /\ SentInItsRoom' /\ PlaysInTime'
    BY DEF Local, CallsAreCurrent, SessionIsCurrent, ConnectionsAreFresh,
           SentInItsRoom, PlaysInTime
  <1>3. FramesHaveRoom'
    BY FramesFit
  <1>4. OnlyViewersWait'
    BY DEF Local, OnlyViewersWait
  <1> QED BY <1>1, <1>2, <1>3, <1>4 DEF Local

\* The first packet under way is handled: the others move up.
LEMMA NextPacket ==
    ASSUME Local, NEW type, Arrives(type)
    PROVE  /\ down' \in Seq(Answers \cup Events)
           /\ Head(down) = down[1] /\ 1 \in 1..Len(down) /\ Head(down) \in Answers \cup Events
           /\ Head(down).type = type /\ link = "up"
           /\ \A i \in 1..Len(down') : i + 1 \in 1..Len(down) /\ down'[i] = down[i + 1]
           /\ \A i \in 1..Len(down) : i # 1 =>
                 i - 1 \in 1..Len(down') /\ down[i] = down'[i - 1]
  <1> DEFINE S == Answers \cup Events
  <1> HIDE DEF S
  <1>1. down \in Seq(S) /\ down # <<>> /\ down' = Tail(down) /\ Head(down).type = type
        /\ link = "up"
    BY DEF Arrives, Connected, Local, TypeOK, S
  <1>2. down' \in Seq(S) /\ Head(down) = down[1] /\ 1 \in 1..Len(down) /\ Head(down) \in S
    BY <1>1, RestOf
  <1>3. /\ \A i \in 1..Len(down') : i + 1 \in 1..Len(down) /\ down'[i] = down[i + 1]
        /\ \A i \in 1..Len(down) : i # 1 =>
              i - 1 \in 1..Len(down') /\ down[i] = down'[i - 1]
    BY <1>1, RestOf
  <1> QED BY <1>1, <1>2, <1>3 DEF S

\* A packet is handled, and the frames that wait are kept, dropped or joined by it.
LEMMA PacketLocal ==
    ASSUME Local, NEW type, Arrives(type), UnchangedByPacket,
           buffered' = buffered \/ buffered' = 0 \/ (buffered' = buffered + 1 /\ type = "m"),
           fresh' \in 0..MaxBacklog, buffered' <= MaxBacklog => buffered' <= fresh',
           motionTimer' \in BOOLEAN, tracking' \in BOOLEAN, flushTimer' \in BOOLEAN,
           buffered' > 0 => motionTimer',
           latest' = latest \/ latest' = 0,
           overtaken' \in BOOLEAN,
           session' \in {session, None} \/ (/\ session # None /\ session.role = "viewer"
                                            /\ session' = [session EXCEPT !.waiting = FALSE]),
           room' = room \/ room' = FALSE,
           session' = None => room' = FALSE \/ UNCHANGED <<session, room>>,
           calls' \subseteq Calls, rejoin' \in {"none", "wait"} \cup Settled,
           calls' = calls \/ (\E c \in calls, stage \in Stages :
                                /\ Moves(c, stage) /\ stage \notin {"http", "connecting"}
                                /\ stage = "approval-required" => wanted = "viewer"),
           rejoin' = rejoin \/ (rejoin = "wait" /\ calls' = calls),
           rejoin' = "approval-required" => wanted = "viewer"
    PROVE  Local'
  <1> USE DEF UnchangedByPacket
  <1>1. /\ down' \in Seq(Answers \cup Events) /\ 1 \in 1..Len(down)
        /\ Head(down) = down[1] /\ Head(down).type = type /\ link = "up"
        /\ \A i \in 1..Len(down') : i + 1 \in 1..Len(down) /\ down'[i] = down[i + 1]
    BY NextPacket
  <1>2. buffered \in Nat /\ MaxBacklog \in Nat /\ buffered' \in Nat
        /\ buffered' <= buffered + 1 /\ buffered' <= MaxBacklog
    <2>1. buffered \in Nat /\ MaxBacklog \in Nat /\ buffered <= MaxBacklog
      BY BoundsAssumption DEF Local, TypeOK
    <2>2. type = "m" => 1 + buffered <= MaxBacklog
      BY <1>1 DEF Local, FramesHaveRoom
    <2> QED BY <2>1, <2>2
  <1>3. /\ session' = None \/ session' \in Sessions
        /\ session' # None => /\ session # None /\ session \in Sessions
                              /\ session'.role = session.role /\ session'.gen = session.gen
                              /\ session'.waiting => session.waiting
        /\ room' \in BOOLEAN /\ (room' => session' # None)
    <2>1. session \in Sessions \cup {None} /\ room \in BOOLEAN /\ (room => session # None)
      BY DEF Local, TypeOK, SessionIsCurrent
    <2>2. CASE session' = None
      <3>1. CASE room' = FALSE
        BY <2>2, <3>1
      <3>2. CASE room' = room /\ session' = session
        BY <2>1, <2>2, <3>2
      <3> QED BY <2>2, <3>1, <3>2
    <2>3. CASE session' # None /\ session' = session
      BY <2>1, <2>3
    <2>4. CASE /\ session # None /\ session.role = "viewer"
               /\ session' = [session EXCEPT !.waiting = FALSE]
      <3>1. session' \in Sessions /\ session'.role = session.role
            /\ session'.gen = session.gen /\ ~session'.waiting
        BY <2>1, <2>4 DEF Sessions
      <3>2. session' # None
        BY <3>1, NoneAssumption
      <3> QED BY <2>1, <2>4, <3>1, <3>2
    <2> QED BY <2>2, <2>3, <2>4
  <1>4. latest' \in 0..MaxCalls /\ (latest' # 0 => latest' = gen)
    BY BoundsAssumption DEF Local, TypeOK, SentInItsRoom
  <1>5. TypeOK'
    BY <1>1, <1>2, <1>3, <1>4 DEF Local, TypeOK
  <1>6. /\ \A c \in calls' : c.gen = gen /\ c.role = wanted
        /\ \A c, d \in calls' : c = d
        /\ calls' # {} => calls # {}
        /\ \A c \in calls' : c.stage # "http"
        /\ \A c \in calls' : c.stage = "approval-required" => wanted = "viewer"
    <2>1. CASE calls' = calls
      BY <1>1, <2>1 DEF Local, CallsAreCurrent, OnlyViewersWait
    <2>2. ASSUME NEW c \in calls, NEW stage \in Stages, Moves(c, stage),
                 stage \notin {"http", "connecting"},
                 stage = "approval-required" => wanted = "viewer"
          PROVE  <1>6!1 /\ <1>6!2 /\ <1>6!3 /\ <1>6!4 /\ <1>6!5
      <3>1. /\ calls' = {[c EXCEPT !.stage = stage]} /\ c.gen = gen /\ c.role = wanted
            /\ [c EXCEPT !.stage = stage].role = c.role
            /\ [c EXCEPT !.stage = stage].gen = c.gen
            /\ [c EXCEPT !.stage = stage].stage = stage
        BY <2>2, MovesLocal
      <3> QED BY <2>2, <3>1
    <2> QED BY <2>1, <2>2
  <1>7. CallsAreCurrent' /\ SessionIsCurrent'
    <2>1. calls' # {} => session' = None /\ rejoin' = "none"
      BY <1>3, <1>6 DEF Local, CallsAreCurrent
    <2> QED BY <1>1, <1>3, <1>6, <2>1 DEF Local, CallsAreCurrent, SessionIsCurrent
  <1>8. ConnectionsAreFresh' /\ SentInItsRoom' /\ PlaysInTime'
    BY <1>1, <1>2, <1>4 DEF Local, ConnectionsAreFresh, SentInItsRoom, PlaysInTime
  <1>9. FramesHaveRoom'
    <2> SUFFICES ASSUME NEW i \in 1..Len(down'), down'[i].type = "m"
                 PROVE  i + buffered' <= MaxBacklog
      BY DEF FramesHaveRoom
    <2>1. (i + 1) + buffered <= MaxBacklog
      BY <1>1 DEF Local, FramesHaveRoom
    <2> QED BY <1>2, <2>1
  <1>10. OnlyViewersWait'
    <2>1. ASSUME NEW i \in 1..Len(down'), down'[i].type = "ack",
                 down'[i].result = "approval-required"
          PROVE  wanted = "viewer"
      BY <1>1, <2>1 DEF Local, OnlyViewersWait
    <2> QED BY <1>3, <1>6, <2>1 DEF Local, OnlyViewersWait
  <1> QED BY <1>5, <1>7, <1>8, <1>9, <1>10 DEF Local

LEMMA AckArrivesLocal ==
    ASSUME Local, AckArrives
    PROVE  Local'
  <1> DEFINE result == Head(down).result
  <1>1. Arrives("ack") /\ UnchangedByPacket
        /\ UNCHANGED <<session, room, latest, flushTimer, buffered, motionTimer, tracking,
                       fresh, overtaken>>
    BY DEF AckArrives, outVars
  <1>2. Head(down) \in Answers \cup Events /\ Head(down).type = "ack" /\ Head(down) = down[1]
        /\ 1 \in 1..Len(down)
    BY <1>1, NextPacket
  <1>3. result \in Settled
    BY <1>2 DEF Answers, Events
  <1>4. result = "approval-required" => wanted = "viewer"
    BY <1>2 DEF Local, OnlyViewersWait
  <1>5. /\ buffered' <= fresh' /\ (buffered' > 0 => motionTimer')
        /\ fresh' \in 0..MaxBacklog /\ motionTimer' \in BOOLEAN /\ tracking' \in BOOLEAN
        /\ flushTimer' \in BOOLEAN /\ overtaken' \in BOOLEAN
    BY <1>1 DEF Local, TypeOK, PlaysInTime
  <1>6. calls \subseteq Calls /\ rejoin \in {"none", "wait"} \cup Settled
        /\ (rejoin = "approval-required" => wanted = "viewer")
    BY DEF Local, TypeOK, OnlyViewersWait
  <1>7. CASE rejoin = "wait" /\ rejoin' = result /\ UNCHANGED calls
    BY <1>1, <1>3, <1>4, <1>5, <1>6, <1>7, PacketLocal
  <1>8. ASSUME NEW c \in calls, Moves(c, result), UNCHANGED rejoin
        PROVE  Local'
    <2>1. result \in Stages /\ result \notin {"http", "connecting"}
      BY <1>3 DEF Settled, Stages
    <2>2. calls' \subseteq Calls
      BY <1>8, <2>1, MovesLocal
    <2> QED BY <1>1, <1>4, <1>5, <1>6, <1>8, <2>1, <2>2, PacketLocal
  <1>9. CASE UNCHANGED <<calls, rejoin>>
    BY <1>1, <1>5, <1>6, <1>9, PacketLocal
  <1> QED BY <1>7, <1>8, <1>9 DEF AckArrives

LEMMA ApprovedArrivesLocal ==
    ASSUME Local, ApprovedArrives
    PROVE  Local'
  <1>1. /\ Arrives("approved") /\ UnchangedByPacket
        /\ UNCHANGED <<calls, rejoin, room, latest, flushTimer, buffered, motionTimer,
                       tracking, fresh>>
        /\ session' \in {session, None} \/ (/\ session # None /\ session.role = "viewer"
                                            /\ session' = [session EXCEPT !.waiting = FALSE])
    BY DEF ApprovedArrives, outVars
  <1>2. /\ buffered' <= fresh' /\ (buffered' > 0 => motionTimer')
        /\ fresh' \in 0..MaxBacklog /\ motionTimer' \in BOOLEAN /\ tracking' \in BOOLEAN
        /\ flushTimer' \in BOOLEAN
    BY <1>1 DEF Local, TypeOK, PlaysInTime
  <1>3. overtaken' \in BOOLEAN
    BY DEF ApprovedArrives, Overtakes
  <1>4. /\ calls' \subseteq Calls /\ rejoin' \in {"none", "wait"} \cup Settled
        /\ rejoin' = "approval-required" => wanted = "viewer"
    BY <1>1 DEF Local, TypeOK, OnlyViewersWait
  <1>5. session' = None => UNCHANGED <<session, room>>
    <2>1. session' = None => session = None
      BY NoneAssumption DEF ApprovedArrives, Local, TypeOK, Sessions
    <2> QED BY <1>1, <2>1
  <1> QED BY <1>1, <1>2, <1>3, <1>4, <1>5, PacketLocal

LEMMA RemovedArrivesLocal ==
    ASSUME Local, RemovedArrives
    PROVE  Local'
  <1> USE DEF RemovedArrives, ClearDelayedMotion, Boundary, LeaveSession, outVars
  <1>1. PICK type : Arrives(type)
    OBVIOUS
  <1>2. /\ buffered' = 0 /\ fresh' = 0 /\ session' = None /\ UnchangedByPacket
        /\ UNCHANGED <<calls, rejoin, latest, flushTimer>>
    OBVIOUS
  <1>3. fresh' \in 0..MaxBacklog /\ buffered' <= fresh' /\ ~(buffered' > 0)
    BY <1>2, BoundsAssumption
  <1>4. /\ motionTimer' \in BOOLEAN /\ tracking' \in BOOLEAN /\ room' = FALSE
    OBVIOUS
  <1>5. overtaken' \in BOOLEAN
    BY DEF Overtakes
  <1>6. /\ calls' \subseteq Calls /\ rejoin' \in {"none", "wait"} \cup Settled
        /\ rejoin' = "approval-required" => wanted = "viewer"
        /\ flushTimer' \in BOOLEAN
    BY <1>2 DEF Local, TypeOK, OnlyViewersWait
  <1> HIDE DEF RemovedArrives
  <1> QED BY <1>1, <1>2, <1>3, <1>4, <1>5, <1>6, PacketLocal

LEMMA StopArrivesLocal ==
    ASSUME Local, StopArrives
    PROVE  Local'
  <1> USE DEF StopArrives, ClearBufferedMotion, ClearDelayedMotion, Boundary
  <1>1. /\ buffered' = 0 /\ fresh' = 0 /\ latest' = 0 /\ UnchangedByPacket /\ Arrives("stop")
        /\ UNCHANGED <<calls, rejoin, session, room, overtaken>>
    OBVIOUS
  <1>2. fresh' \in 0..MaxBacklog /\ buffered' <= fresh' /\ ~(buffered' > 0)
    BY <1>1, BoundsAssumption
  <1>3. motionTimer' \in BOOLEAN /\ tracking' \in BOOLEAN /\ flushTimer' \in BOOLEAN
    OBVIOUS
  <1>4. /\ calls' \subseteq Calls /\ rejoin' \in {"none", "wait"} \cup Settled
        /\ rejoin' = "approval-required" => wanted = "viewer"
        /\ overtaken' \in BOOLEAN
    BY <1>1 DEF Local, TypeOK, OnlyViewersWait
  <1> HIDE DEF StopArrives
  <1> QED BY <1>1, <1>2, <1>3, <1>4, PacketLocal

LEMMA MotionArrivesLocal ==
    ASSUME Local, MotionArrives
    PROVE  Local'
  <1> USE DEF MotionArrives, outVars
  <1>1. /\ Arrives("m") /\ UnchangedByPacket
        /\ UNCHANGED <<calls, rejoin, session, room, latest, flushTimer, overtaken>>
    OBVIOUS
  <1>2. /\ calls' \subseteq Calls /\ rejoin' \in {"none", "wait"} \cup Settled
        /\ rejoin' = "approval-required" => wanted = "viewer"
        /\ overtaken' \in BOOLEAN /\ flushTimer' \in BOOLEAN
    BY <1>1 DEF Local, TypeOK, OnlyViewersWait
  <1>3. /\ buffered \in Nat /\ fresh \in 0..MaxBacklog /\ buffered <= fresh
        /\ (buffered > 0 => motionTimer) /\ motionTimer \in BOOLEAN
    BY DEF Local, TypeOK, PlaysInTime
  <1>4. tracking' \in BOOLEAN
    OBVIOUS
  <1>5. CASE delayed
    <2>1. buffered' = buffered + 1 /\ motionTimer' = TRUE
          /\ fresh' = IF fresh < MaxBacklog THEN fresh + 1 ELSE fresh
      BY <1>5
    <2>2. fresh' \in 0..MaxBacklog /\ (buffered' <= MaxBacklog => buffered' <= fresh')
      BY <1>3, <2>1, BoundsAssumption
    <2>3. motionTimer' \in BOOLEAN
      BY <2>1
    <2>4. buffered' > 0 => motionTimer'
      BY <2>1
    <2> HIDE DEF MotionArrives
    <2> QED BY <1>1, <1>2, <1>4, <2>1, <2>2, <2>3, <2>4, PacketLocal
  <1>6. CASE ~delayed
    <2>1. UNCHANGED <<buffered, motionTimer, fresh>>
      BY <1>6
    <2>2. /\ buffered' <= fresh' /\ (buffered' > 0 => motionTimer')
          /\ fresh' \in 0..MaxBacklog /\ motionTimer' \in BOOLEAN
      BY <1>3, <2>1
    <2> HIDE DEF MotionArrives
    <2> QED BY <1>1, <1>2, <1>4, <2>1, <2>2, PacketLocal
  <1> QED BY <1>5, <1>6

(***************************************************************************)
(* Playing and publishing.                                                 *)
(***************************************************************************)
LEMMA PlayLocal ==
    ASSUME Local, UNCHANGED <<clientVars, netVars, gapVars>>,
           delayed' \in BOOLEAN, tracking' = tracking, motionTimer' \in BOOLEAN,
           flushTimer' \in BOOLEAN, latest' \in {latest, gen, 0},
           buffered' \in 0..buffered, fresh' \in 0..MaxBacklog,
           buffered' <= fresh', buffered' > 0 => motionTimer'
    PROVE  Local'
  <1> USE DEF clientVars, netVars, gapVars
  <1>1. buffered' \in 0..MaxBacklog /\ latest' \in 0..MaxCalls
        /\ (latest' # 0 => latest' = gen)
    BY BoundsAssumption DEF Local, TypeOK, SentInItsRoom
  <1>2. TypeOK'
    BY <1>1 DEF Local, TypeOK
  <1>3. CallsAreCurrent' /\ SessionIsCurrent' /\ ConnectionsAreFresh'
    BY DEF Local, CallsAreCurrent, SessionIsCurrent, ConnectionsAreFresh
  <1>4. FramesHaveRoom'
    <2>1. buffered \in Nat /\ buffered' \in Nat /\ buffered' <= buffered /\ MaxBacklog \in Nat
          /\ Len(down) \in Nat
      BY BoundsAssumption DEF Local, TypeOK
    <2>2. \A i \in 1..Len(down) : down[i].type = "m" => i + buffered' <= MaxBacklog
      BY <2>1 DEF Local, FramesHaveRoom
    <2> QED BY <2>2 DEF FramesHaveRoom
  <1>5. SentInItsRoom' /\ PlaysInTime'
    BY <1>1 DEF SentInItsRoom, PlaysInTime
  <1>6. OnlyViewersWait'
    BY DEF Local, OnlyViewersWait
  <1> QED BY <1>2, <1>3, <1>4, <1>5, <1>6 DEF Local

LEMMA PlayingLocal ==
    ASSUME Local,
           MotionTimer \/ PublishMotion \/ FlushLatest \/ EmergencyStop
              \/ \E on \in BOOLEAN : SetDelay(on)
    PROVE  Local' /\ UNCHANGED <<clientVars, netVars, gapVars>>
  <1>1. /\ buffered \in 0..buffered /\ 0 \in 0..buffered /\ fresh \in 0..MaxBacklog
        /\ 0 \in 0..MaxBacklog /\ buffered <= fresh
        /\ (buffered > 0 => motionTimer)
    BY BoundsAssumption DEF Local, TypeOK, PlaysInTime
  <1>2. delayed \in BOOLEAN /\ motionTimer \in BOOLEAN /\ flushTimer \in BOOLEAN
        /\ buffered \in Nat /\ fresh \in Nat
    BY BoundsAssumption DEF Local, TypeOK
  <1>3. CASE MotionTimer
    <2>1. UNCHANGED <<clientVars, netVars, gapVars, latest, flushTimer, delayed, tracking, fresh>>
      BY <1>3 DEF MotionTimer, outVars
    <2>2. PICK rest \in 0..buffered : buffered' = rest
      BY <1>3 DEF MotionTimer
    <2>3. motionTimer' = (buffered' > 0)
      BY <1>3 DEF MotionTimer
    <2>4. motionTimer' \in BOOLEAN /\ (buffered' > 0 => motionTimer')
      <3> DEFINE some == buffered' > 0
      <3>1. some \in BOOLEAN
        OBVIOUS
      <3>2. motionTimer' = some
        BY <2>3
      <3> HIDE DEF some
      <3>3. motionTimer' \in BOOLEAN /\ (some => motionTimer')
        BY <3>1, <3>2
      <3> QED BY <3>3 DEF some
    <2>5. buffered' \in 0..buffered /\ buffered' <= fresh'
      BY <1>1, <1>2, <2>1, <2>2
    <2>6. fresh' \in 0..MaxBacklog /\ flushTimer' \in BOOLEAN /\ delayed' \in BOOLEAN
      BY <1>1, <1>2, <2>1
    <2> QED BY <2>1, <2>4, <2>5, <2>6, PlayLocal
  <1>4. CASE PublishMotion \/ FlushLatest
    <2>1. UNCHANGED <<clientVars, netVars, gapVars, delayed, tracking, buffered, motionTimer,
                      fresh>>
      BY <1>4 DEF PublishMotion, FlushLatest, playVars
    <2>2. latest' \in {latest, gen, 0}
      BY <1>4 DEF PublishMotion, FlushLatest
    <2>3. flushTimer' \in BOOLEAN
      BY <1>4 DEF PublishMotion, FlushLatest
    <2> QED BY <1>1, <1>2, <2>1, <2>2, <2>3, PlayLocal
  <1>5. ASSUME UNCHANGED <<clientVars, netVars, gapVars, tracking>>, ClearDelayedMotion,
               Boundary, delayed' \in BOOLEAN, latest' \in {latest, gen, 0}, flushTimer' \in BOOLEAN
        PROVE  Local'
    <2>1. buffered' = 0 /\ fresh' = 0
      BY <1>5 DEF ClearDelayedMotion, Boundary
    <2>2. motionTimer' \in BOOLEAN
      BY <1>5 DEF ClearDelayedMotion, Boundary
    <2>3. buffered' \in 0..buffered /\ fresh' \in 0..MaxBacklog /\ buffered' <= fresh'
          /\ ~(buffered' > 0)
      BY <1>1, <2>1
    <2> QED BY <1>5, <2>2, <2>3, PlayLocal
  <1>6. CASE EmergencyStop
    <2>1. /\ UNCHANGED <<clientVars, netVars, gapVars, tracking, delayed>>
          /\ ClearDelayedMotion /\ Boundary /\ latest' = 0
      BY <1>6 DEF EmergencyStop, ClearBufferedMotion
    <2>2. flushTimer' \in BOOLEAN
      BY <1>6 DEF EmergencyStop, ClearBufferedMotion
    <2> QED BY <1>2, <1>5, <2>1, <2>2
  <1>7. ASSUME NEW on \in BOOLEAN, SetDelay(on)
        PROVE  Local' /\ UNCHANGED <<clientVars, netVars, gapVars>>
    <2>1. UNCHANGED <<clientVars, netVars, gapVars, tracking, latest, flushTimer>>
      BY <1>7 DEF SetDelay, outVars
    <2>2. delayed' \in BOOLEAN /\ flushTimer' \in BOOLEAN
      BY <1>2, <1>7, <2>1 DEF SetDelay
    <2>3. CASE on = delayed
      <3>1. UNCHANGED <<buffered, motionTimer, fresh>>
        BY <1>7, <2>3 DEF SetDelay
      <3> QED BY <1>1, <1>2, <2>1, <2>2, <3>1, PlayLocal
    <2>4. CASE on # delayed
      <3>1. ClearDelayedMotion /\ Boundary
        BY <1>7, <2>4 DEF SetDelay
      <3> QED BY <1>5, <2>1, <2>2, <3>1
    <2> QED BY <2>1, <2>3, <2>4
  <1> QED BY <1>3, <1>4, <1>6, <1>7 DEF MotionTimer, PublishMotion, FlushLatest, EmergencyStop

(***************************************************************************)
(* Answers.                                                                *)
(***************************************************************************)
\* Where nothing is on its way, the answer is where it was.
LEMMA SameAnswers ==
    ASSUME UNCHANGED <<up, down, bound, forgotten>>
    PROVE  /\ \A role : Awaited(role) => Awaited(role)'
           /\ \A role, result : Answered(role, result) => Answered(role, result)'
           /\ NoAnswer(0) => NoAnswer(0)'
           /\ \A place : LeadFrom(place) => LeadFrom(place)'
  <1>1. \A place : LeadFrom(place) => LeadFrom(place)'
    BY DEF LeadFrom, Stands, Admits, Expels
  <1>2. \A place : NoAnswer(place) => NoAnswer(place)'
    BY DEF NoAnswer
  <1>3. \A role, result : Granted(role, result) = Granted(role, result)'
    BY DEF Granted
  <1> QED BY <1>1, <1>2, <1>3 DEF Awaited, Answered

LEMMA AnswersFrame ==
    ASSUME IInv, UNCHANGED <<up, down, bound, forgotten, link, session>>,
           overtaken => overtaken', gaveUp => gaveUp',
           calls' \subseteq calls, rejoin' = rejoin \/ gaveUp'
    PROVE  CallIsAnswered' /\ SessionIsAnswered'
  <1>1. CallIsAnswered'
    BY SameAnswers DEF IInv, CallIsAnswered
  <1>2. SessionIsAnswered'
    BY SameAnswers DEF IInv, SessionIsAnswered
  <1> QED BY <1>1, <1>2

\* The client's place in the room, if an answer it does not await leads there.
LEMMA LeadsFrom ==
    ASSUME NEW place, NoAnswer(0)', LeadFrom(place)', rejoin' = "none",
           session' # None => PlaceOf(session') = place
    PROVE  SessionIsAnswered'
  BY DEF SessionIsAnswered, PlaceOf, Settled

\* A request is sent on a connection that carries nothing.
LEMMA SocketConnectsAnswers ==
    ASSUME IInv, SocketConnects
    PROVE  CallIsAnswered' /\ SessionIsAnswered'
  <1>1. /\ UNCHANGED <<down, bound, session>> /\ up = <<>> /\ down = <<>> /\ bound = "no"
        /\ \/ rejoin' = "wait" /\ up' = <<session.role>> /\ session # None /\ calls' = {}
           \/ /\ session = None
              /\ \A c \in calls' : c.stage = "ack" /\ up' = <<c.role>>
    BY SocketConnectsLocal DEF IInv, Local
  <1>2. \A role : up' = <<role>> => Awaited(role)'
    BY <1>1 DEF Awaited
  <1>3. CallIsAnswered'
    BY <1>1, <1>2 DEF CallIsAnswered, Settled
  <1>4. SessionIsAnswered'
    BY <1>1, <1>2 DEF SessionIsAnswered, Settled
  <1> QED BY <1>3, <1>4

\* A call that its answer resumes takes the place the answer granted.
LEMMA ResumeCallAnswers ==
    ASSUME IInv, NEW c \in calls, ResumeCall(c)
    PROVE  CallIsAnswered' /\ SessionIsAnswered'
  <1>1. /\ calls' = {} /\ UNCHANGED <<link, rejoin, up, down, bound, overtaken, gaveUp, forgotten>>
        /\ session' = None \/ (session' = Installed(c) /\ c.stage # "refused")
    BY ResumeCallLocal DEF IInv, Local, gapVars
  <1>2. c \in Calls /\ c.stage \in Settled /\ rejoin = "none"
    BY DEF ResumeCall, IInv, TypeOK, CallsAreCurrent
  <1>3. CASE session' # None /\ link' = "up" /\ ~overtaken'
    <2>1. Answered(c.role, c.stage)
      BY <1>1, <1>2, <1>3 DEF IInv, CallIsAnswered
    <2>2. PlaceOf(session') = Granted(c.role, c.stage)
      <3>0. /\ session' = Installed(c) /\ Installed(c).role = c.role
            /\ Installed(c).waiting = (c.stage = "approval-required")
        BY <1>1, <1>3 DEF Installed
      <3>1. /\ session'.role = c.role
            /\ c.stage = "approval-required" => session'.waiting
            /\ c.stage # "approval-required" => ~session'.waiting
        BY <3>0
      <3>2. c.stage \in {"ok", "approval-required"}
        BY <1>1, <1>2, <1>3 DEF Settled
      <3> QED BY <3>1, <3>2 DEF PlaceOf, Granted
    <2>3. NoAnswer(0)' /\ LeadFrom(Granted(c.role, c.stage))'
      BY <1>1, <2>1, SameAnswers DEF Answered
    <2>4. SessionIsAnswered'
      BY <1>1, <1>2, <2>2, <2>3, LeadsFrom
    <2> QED BY <1>1, <2>4 DEF CallIsAnswered
  <1>4. CASE ~(session' # None /\ link' = "up" /\ ~overtaken')
    BY <1>1, <1>4 DEF SessionIsAnswered, CallIsAnswered
  <1> QED BY <1>3, <1>4

LEMMA ResumeRejoinAnswers ==
    ASSUME IInv, ResumeRejoin
    PROVE  CallIsAnswered' /\ SessionIsAnswered'
  <1>1. /\ rejoin' = "none" /\ calls' = {}
        /\ UNCHANGED <<link, up, down, bound, overtaken, gaveUp, forgotten>>
        /\ session' # None => /\ session # None /\ rejoin \in {"ok", "approval-required"}
                              /\ session'.role = session.role
                              /\ PlaceOf(session') = Granted(session.role, rejoin)
    BY ResumeRejoinLocal DEF IInv, Local
  <1>2. CASE session' # None /\ link' = "up" /\ ~overtaken' /\ ~gaveUp'
    <2>1. Answered(session.role, rejoin)
      BY <1>1, <1>2 DEF IInv, SessionIsAnswered, ResumeRejoin
    <2>2. PICK place : place = Granted(session.role, rejoin)
      OBVIOUS
    <2>3. NoAnswer(0) /\ LeadFrom(place)
      BY <2>1, <2>2 DEF Answered
    <2>4. NoAnswer(0)' /\ LeadFrom(place)'
      BY <1>1, <2>3, SameAnswers
    <2>5. SessionIsAnswered'
      BY <1>1, <1>2, <2>2, <2>4, LeadsFrom
    <2> QED BY <1>1, <2>5 DEF CallIsAnswered
  <1>3. CASE ~(session' # None /\ link' = "up" /\ ~overtaken' /\ ~gaveUp')
    BY <1>1, <1>3 DEF SessionIsAnswered, CallIsAnswered
  <1> QED BY <1>2, <1>3

\* The relay answers the one request; the client then awaits what is under way.
LEMMA RelayAnswersAnswers ==
    ASSUME IInv, RelayAnswers
    PROVE  CallIsAnswered' /\ SessionIsAnswered'
  <1>1. PICK result \in Settled :
            /\ Sent([type |-> "ack", result |-> result])
            /\ bound' = Granted(Head(up), result)
    BY DEF RelayAnswers, Sent, Granted
  <1>2. up # <<>> /\ up' = Tail(up) /\ UNCHANGED <<calls, session, rejoin, link, overtaken, gaveUp>>
    BY DEF RelayAnswers, UnchangedByRelay, clientVars, gapVars
  <1>3. ASSUME NEW role \in Roles, Awaited(role)
        PROVE  Awaited(role)'
    <2>1. up = <<role>> /\ down = <<>>
      BY <1>2, <1>3 DEF Awaited, NoAnswer
    <2>2. /\ up' = <<>> /\ Len(down') = 1 /\ down' # <<>> /\ down'[1] = Head(down')
          /\ Head(down').type = "ack" /\ Head(down').result = result
          /\ bound' = Granted(role, result)
      BY <1>1, <1>2, <2>1 DEF Sent
    <2>3. NoAnswer(1)'
      BY <2>2 DEF NoAnswer
    <2>4. \A i \in 1..Len(down') : ~Admits(i)' /\ ~Expels(i)'
      BY <2>2 DEF Admits, Expels
    <2>5. PICK place : place = Granted(role, result)
      OBVIOUS
    <2>6. LeadFrom(place)'
      BY <2>2, <2>4, <2>5 DEF LeadFrom, Stands
    <2>7. Granted(role, Head(down).result)' = place
      BY <2>2, <2>5 DEF Granted
    <2> QED BY <2>2, <2>3, <2>6, <2>7 DEF Awaited
  <1>4. \A c \in calls : c.role \in Roles
    BY DEF IInv, TypeOK, Calls
  <1>5. CallIsAnswered'
    BY <1>2, <1>3, <1>4 DEF IInv, CallIsAnswered, Answered, NoAnswer
  <1>6. session # None => session.role \in Roles
    BY DEF IInv, TypeOK, Sessions
  <1>7. rejoin \in {"none", "wait"} \cup Settled
    BY DEF IInv, TypeOK
  <1>8. SessionIsAnswered'
    BY <1>2, <1>3, <1>6, <1>7 DEF IInv, SessionIsAnswered, Answered, NoAnswer
  <1> QED BY <1>5, <1>8

\* An event leads on from where the events before it lead.
LEMMA EventLeadsOn ==
    ASSUME down \in Seq(Answers \cup Events),
           NEW type \in {"approved", "rejected", "removed", "stop", "m"}, Sent([type |-> type]),
           bound = IF type \in {"approved", "rejected"} THEN "waiting" ELSE "viewer",
           bound' = CASE type = "approved" -> "viewer"
                      [] type \in {"rejected", "removed"} -> "no"
                      [] OTHER -> bound
    PROVE  /\ \A place : LeadFrom(place) => LeadFrom(place)'
           /\ up' = up => \A k \in {0, 1} : NoAnswer(k) => NoAnswer(k)'
           /\ down # <<>> => down' # <<>> /\ Head(down') = Head(down)
  <1> DEFINE S == Answers \cup Events
  <1>0. PICK n : n = Len(down)
    OBVIOUS
  <1>1. /\ n \in Nat
        /\ \A i \in 1..n : i \in 1..Len(down') /\ down'[i] = down[i]
        /\ n + 1 \in 1..Len(down') /\ down'[n + 1] = [type |-> type]
        /\ \A i \in 1..Len(down') : i \in 1..n \/ i = n + 1
    <2>1. [type |-> type] \in S
      BY DEF Events
    <2> HIDE DEF S
    <2>2. down \in Seq(S)
      BY DEF S
    <2> QED BY <1>0, <2>1, <2>2, LongerBy DEF Sent
  <1>2. n + 1 \notin 1..n
    BY <1>1
  <1>3. /\ \A i \in 1..n : (Admits(i)' <=> Admits(i)) /\ (Expels(i)' <=> Expels(i))
        /\ Admits(n + 1)' <=> type = "approved"
        /\ Expels(n + 1)' <=> type \in {"rejected", "removed"}
    BY <1>1 DEF Admits, Expels
  <1>4. ASSUME NEW place, LeadFrom(place)
        PROVE  LeadFrom(place)'
    <2>1. /\ \A i, j \in 1..n : Admits(i) /\ Admits(j) => i = j
          /\ (\E i \in 1..n : Admits(i)) => place = "waiting"
          /\ \A i \in 1..n : ~Expels(i)
          /\ bound = IF \E i \in 1..n : Admits(i) THEN "viewer" ELSE place
      BY <1>0, <1>1, <1>4 DEF LeadFrom, Stands
    <2>2. CASE type = "approved"
      <3>1. place = "waiting" /\ bound' = "viewer" /\ \A i \in 1..n : ~Admits(i)
        BY <2>1, <2>2
      <3>2. \A i \in 1..Len(down') : (Admits(i)' <=> i = n + 1) /\ ~Expels(i)'
        BY <1>1, <1>2, <1>3, <2>1, <2>2, <3>1
      <3> QED BY <1>1, <3>1, <3>2 DEF LeadFrom, Stands
    <2>3. CASE type \in {"rejected", "removed"}
      <3>1. bound' = "no" /\ ~Admits(n + 1)' /\ Expels(n + 1)'
        BY <1>3, <2>3
      <3>2. \A i \in 1..Len(down') : Admits(i)' => i \in 1..n /\ Admits(i)
        BY <1>1, <1>3, <3>1
      <3> QED BY <1>1, <2>1, <3>1, <3>2 DEF LeadFrom
    <2>4. CASE type \in {"stop", "m"}
      <3>1. bound' = bound /\ ~Admits(n + 1)' /\ ~Expels(n + 1)'
        BY <1>3, <2>4
      <3>2. \A i \in 1..Len(down') : /\ Admits(i)' <=> i \in 1..n /\ Admits(i)
                                     /\ ~Expels(i)'
        BY <1>1, <1>2, <1>3, <2>1, <3>1
      <3>3. (\E i \in 1..Len(down') : Admits(i)') <=> \E i \in 1..n : Admits(i)
        BY <1>1, <3>2
      <3> QED BY <1>1, <2>1, <3>1, <3>2, <3>3 DEF LeadFrom, Stands
    <2> QED BY <2>2, <2>3, <2>4
  <1>5. ASSUME up' = up, NEW k \in {0, 1}, NoAnswer(k)
        PROVE  NoAnswer(k)'
    <2>1. \A i \in 1..n : i > k => down[i].type # "ack"
      BY <1>0, <1>5 DEF NoAnswer
    <2>2. \A i \in 1..Len(down') : i > k => down'[i].type # "ack"
      BY <1>1, <2>1
    <2> QED BY <1>5, <2>2 DEF NoAnswer
  <1>6. down # <<>> => down' # <<>> /\ Head(down') = Head(down)
    <2>1. ASSUME down # <<>>
          PROVE  1 \in 1..n /\ Head(down) = down[1] /\ down' # <<>> /\ Head(down') = down'[1]
      BY <1>0, <2>1 DEF Sent
    <2> QED BY <1>1, <2>1
  <1> QED BY <1>4, <1>5, <1>6

LEMMA RelayNotifiesAnswers ==
    ASSUME IInv, RelayNotifies
    PROVE  CallIsAnswered' /\ SessionIsAnswered'
  <1>1. PICK type \in {"approved", "rejected", "removed", "stop", "m"} :
          /\ bound = IF type \in {"approved", "rejected"} THEN "waiting" ELSE "viewer"
          /\ bound' = CASE type = "approved" -> "viewer"
                        [] type \in {"rejected", "removed"} -> "no"
                        [] OTHER -> bound
          /\ Sent([type |-> type])
    BY DEF RelayNotifies, Sent
  <1>2. UNCHANGED <<up, calls, session, rejoin, link, overtaken, gaveUp>>
    BY DEF RelayNotifies, UnchangedByRelay, clientVars, gapVars
  <1>3. /\ \A place : LeadFrom(place) => LeadFrom(place)'
        /\ \A k \in {0, 1} : NoAnswer(k) => NoAnswer(k)'
        /\ down # <<>> => down' # <<>> /\ Head(down') = Head(down)
    BY <1>1, <1>2, EventLeadsOn DEF IInv, TypeOK
  <1>4. ASSUME NEW role, Awaited(role)
        PROVE  Awaited(role)'
    <2>1. /\ NoAnswer(1) /\ down # <<>> /\ Head(down).type = "ack"
          /\ LeadFrom(Granted(role, Head(down).result))
      BY <1>1, <1>4 DEF Awaited
    <2>2. PICK place : place = Granted(role, Head(down).result)
      OBVIOUS
    <2>3. LeadFrom(place)' /\ NoAnswer(1)'
      BY <1>3, <2>1, <2>2
    <2>4. Granted(role, Head(down).result)' = place
      BY <1>3, <2>1, <2>2 DEF Granted
    <2> QED BY <1>3, <2>1, <2>3, <2>4 DEF Awaited
  <1>5. ASSUME NEW role, NEW result, Answered(role, result)
        PROVE  Answered(role, result)'
    <2>1. PICK place : place = Granted(role, result)
      OBVIOUS
    <2>2. LeadFrom(place)' /\ NoAnswer(0)'
      BY <1>3, <1>5, <2>1 DEF Answered
    <2>3. Granted(role, result)' = place
      BY <2>1 DEF Granted
    <2> QED BY <2>2, <2>3 DEF Answered
  <1>6. CallIsAnswered'
    BY <1>2, <1>4, <1>5 DEF IInv, CallIsAnswered
  <1>7. SessionIsAnswered'
    BY <1>2, <1>3, <1>4, <1>5 DEF IInv, SessionIsAnswered
  <1> QED BY <1>6, <1>7

\* A place that is given up silently was the one the packets lead to.
LEMMA RelayForgetsAnswers ==
    ASSUME IInv, RelayForgets
    PROVE  CallIsAnswered' /\ SessionIsAnswered'
  <1>1. /\ bound \in {"waiting", "host"} /\ bound' = "no" /\ forgotten'
        /\ UNCHANGED <<up, down, calls, session, rejoin, link, overtaken, gaveUp>>
    BY DEF RelayForgets, clientVars
  <1>2. ASSUME NEW place, LeadFrom(place)
        PROVE  LeadFrom(place)'
    <2>1. /\ \A i \in 1..Len(down) : ~Expels(i)
          /\ bound = IF \E i \in 1..Len(down) : Admits(i) THEN "viewer" ELSE place
      BY <1>1, <1>2 DEF LeadFrom, Stands
    <2>2. \A i \in 1..Len(down) : ~Admits(i)
      BY <1>1, <2>1
    <2>3. \A i \in 1..Len(down') : ~Expels(i)' /\ ~Admits(i)'
      BY <1>1, <2>1, <2>2 DEF Expels, Admits
    <2>4. Stands(place)'
      BY <1>1, <2>1, <2>2 DEF Stands
    <2> QED BY <2>3, <2>4 DEF LeadFrom
  <1>3. \A k : NoAnswer(k) => NoAnswer(k)'
    BY <1>1 DEF NoAnswer
  <1>4. ASSUME NEW role, NEW result
        PROVE  Granted(role, result)' = Granted(role, result)
    BY DEF Granted
  <1>5. ASSUME NEW role, NEW result, Answered(role, result)
        PROVE  Answered(role, result)'
    BY <1>2, <1>3, <1>4, <1>5 DEF Answered
  <1>6. ASSUME NEW role, Awaited(role)
        PROVE  Awaited(role)'
    BY <1>1, <1>2, <1>3, <1>4, <1>6 DEF Awaited
  <1>7. CallIsAnswered'
    BY <1>1, <1>5, <1>6 DEF IInv, CallIsAnswered
  <1>8. SessionIsAnswered'
    BY <1>1, <1>2, <1>3, <1>5, <1>6 DEF IInv, SessionIsAnswered
  <1> QED BY <1>7, <1>8

\* With the first packet handled, the rest leads on from where that one leads.
LEMMA RestLeadsOn ==
    ASSUME Local, NEW type, Arrives(type), UNCHANGED <<bound, up, forgotten>>
    PROVE  /\ NoAnswer(0) => NoAnswer(0)' /\ type # "ack"
           /\ NoAnswer(1) => NoAnswer(0)'
           /\ type \notin {"approved", "rejected", "removed"} =>
                 \A place : LeadFrom(place) => LeadFrom(place)'
           /\ type = "approved" =>
                 \A place : LeadFrom(place) => place = "waiting" /\ LeadFrom("viewer")'
  <1>1. /\ down[1].type = type /\ 1 \in 1..Len(down)
        /\ \A i \in 1..Len(down') : i + 1 \in 1..Len(down) /\ down'[i] = down[i + 1]
        /\ \A i \in 1..Len(down) : i # 1 =>
              i - 1 \in 1..Len(down') /\ down[i] = down'[i - 1]
    BY NextPacket
  <1>2. ASSUME NEW k \in {0, 1}, NoAnswer(k)
        PROVE  NoAnswer(0)' /\ (k = 0 => type # "ack")
    <2>1. \A i \in 1..Len(down') : down'[i].type # "ack"
      BY <1>1, <1>2 DEF NoAnswer
    <2>2. k = 0 => type # "ack"
      BY <1>1, <1>2 DEF NoAnswer
    <2> QED BY <1>2, <2>1, <2>2 DEF NoAnswer
  <1>3. /\ \A i \in 1..Len(down') : (Admits(i)' <=> Admits(i + 1)) /\ (Expels(i)' <=> Expels(i + 1))
        /\ \A i \in 1..Len(down) : i # 1 =>
              (Admits(i) <=> Admits(i - 1)') /\ (Expels(i) <=> Expels(i - 1)')
        /\ Admits(1) <=> type = "approved"
        /\ Expels(1) <=> type \in {"rejected", "removed"}
    BY <1>1 DEF Admits, Expels
  <1>4. \A i, j \in 1..Len(down') : i + 1 = j + 1 => i = j
    OBVIOUS
  <1>5. ASSUME NEW place, LeadFrom(place)
        PROVE  /\ \A i, j \in 1..Len(down') : Admits(i)' /\ Admits(j)' => i = j
               /\ \A i \in 1..Len(down') : Expels(i)' => bound = "no"
    BY <1>1, <1>3, <1>4, <1>5 DEF LeadFrom
  <1>6. ASSUME type \notin {"approved", "rejected", "removed"}, NEW place, LeadFrom(place)
        PROVE  LeadFrom(place)'
    <2>1. /\ (\E i \in 1..Len(down') : Admits(i)') <=> \E i \in 1..Len(down) : Admits(i)
          /\ (\E i \in 1..Len(down') : Expels(i)') <=> \E i \in 1..Len(down) : Expels(i)
      BY <1>1, <1>3, <1>6
    <2> QED BY <1>5, <1>6, <2>1 DEF LeadFrom, Stands
  <1>7. ASSUME type = "approved", NEW place, LeadFrom(place)
        PROVE  place = "waiting" /\ LeadFrom("viewer")'
    <2>1. place = "waiting"
      BY <1>1, <1>3, <1>7 DEF LeadFrom
    <2>2. \A i \in 1..Len(down') : ~Admits(i)'
      <3>1. \A i \in 1..Len(down') : i + 1 # 1
        OBVIOUS
      <3> QED BY <1>1, <1>3, <1>7, <3>1 DEF LeadFrom
    <2>3. (\A i \in 1..Len(down') : ~Expels(i)') => Stands("viewer")'
      <3>1. (\A i \in 1..Len(down') : ~Expels(i)') => \A i \in 1..Len(down) : ~Expels(i)
        BY <1>1, <1>3, <1>7
      <3> QED BY <1>1, <1>3, <1>7, <3>1 DEF LeadFrom, Stands
    <2> QED BY <1>5, <1>7, <2>1, <2>2, <2>3 DEF LeadFrom
  <1> QED BY <1>2, <1>6, <1>7

\* Whoever awaits an answer that is under way knows the next packet: it is that one.
LEMMA AwaitedNext ==
    ASSUME NEW type, Arrives(type), NEW role, Awaited(role)
    PROVE  type = "ack" /\ NoAnswer(1) /\ LeadFrom(Granted(role, Head(down).result))
  BY DEF Awaited, Arrives

LEMMA AckArrivesAnswers ==
    ASSUME IInv, AckArrives
    PROVE  CallIsAnswered' /\ SessionIsAnswered'
  <1>1. PICK result : result = Head(down).result
    OBVIOUS
  <1>2. /\ Arrives("ack") /\ Quiet /\ Local /\ UNCHANGED <<bound, up, forgotten>>
        /\ UNCHANGED <<session, overtaken, gaveUp, link>> /\ link = "up"
    BY NextPacket DEF AckArrives, UnchangedByPacket, IInv, Local, Arrives, Connected
  <1>3. ~NoAnswer(0)
    BY <1>2, RestLeadsOn
  <1>4. ASSUME NEW role, Awaited(role)
        PROVE  Answered(role, result)'
    <2>1. PICK place : place = Granted(role, result)
      OBVIOUS
    <2>2. NoAnswer(1) /\ LeadFrom(place)
      BY <1>1, <1>2, <1>4, <2>1, AwaitedNext
    <2>3. NoAnswer(0)' /\ LeadFrom(place)'
      BY <1>2, <2>2, RestLeadsOn
    <2>4. Granted(role, result)' = place
      BY <2>1 DEF Granted
    <2> QED BY <2>3, <2>4 DEF Answered
  <1>5. Head(down) \in Answers \cup Events /\ Head(down).type = "ack"
    BY <1>2, NextPacket
  <1>6. result \in Settled
    BY <1>1, <1>5 DEF Answers, Events
  <1>7. CASE rejoin = "wait" /\ rejoin' = result /\ UNCHANGED calls
    <2>1. calls' = {}
      BY <1>7 DEF IInv, CallsAreCurrent
    <2>2. SessionIsAnswered'
      BY <1>2, <1>4, <1>6, <1>7 DEF IInv, SessionIsAnswered, Settled
    <2> QED BY <2>1, <2>2 DEF CallIsAnswered
  <1>8. ASSUME NEW c \in calls, AwaitsAck(c), Moves(c, result), UNCHANGED rejoin
        PROVE  CallIsAnswered' /\ SessionIsAnswered'
    <2>1. /\ calls' = {[c EXCEPT !.stage = result]} /\ session = None
          /\ [c EXCEPT !.stage = result].role = c.role
          /\ [c EXCEPT !.stage = result].stage = result
      BY <1>2, <1>6, <1>8, MovesLocal DEF Settled, Stages
    <2>2. ~overtaken => Awaited(c.role)
      BY <1>2, <1>8 DEF IInv, CallIsAnswered, AwaitsAck
    <2>3. CallIsAnswered'
      BY <1>2, <1>4, <1>6, <2>1, <2>2 DEF CallIsAnswered, Settled
    <2> QED BY <1>2, <2>1, <2>3 DEF SessionIsAnswered
  <1>9. CASE rejoin # "wait" /\ (~\E c \in calls : AwaitsAck(c)) /\ UNCHANGED <<calls, rejoin>>
    <2>1. \A c \in calls : c.stage # "ack" /\ c.stage \notin Settled
      BY <1>2, <1>9 DEF IInv, CallsAreCurrent, AwaitsAck, OwnsLifecycle, Quiet
    <2>2. rejoin = "none"
      BY <1>2, <1>9 DEF IInv, TypeOK, Quiet
    <2>3. CallIsAnswered'
      BY <1>9, <2>1 DEF CallIsAnswered
    <2>4. SessionIsAnswered'
      BY <1>2, <1>3, <1>9, <2>2 DEF IInv, SessionIsAnswered
    <2> QED BY <2>3, <2>4
  <1> QED BY <1>1, <1>7, <1>8, <1>9 DEF AckArrives

LEMMA ApprovedArrivesAnswers ==
    ASSUME IInv, ApprovedArrives
    PROVE  CallIsAnswered' /\ SessionIsAnswered'
  <1>1. /\ Arrives("approved") /\ Local
        /\ UNCHANGED <<bound, up, forgotten, link, gaveUp, calls, rejoin>>
        /\ link = "up" /\ (~overtaken' => ~overtaken /\ Quiet)
    BY NextPacket DEF ApprovedArrives, Overtakes, UnchangedByPacket, IInv, Local, Arrives,
                      Connected
  <1>2. \A role : ~Awaited(role)
    BY <1>1, AwaitedNext
  <1>3. CallIsAnswered'
    BY <1>1, <1>2 DEF IInv, CallIsAnswered, Quiet
  <1>4. CASE session' # None /\ ~overtaken' /\ ~gaveUp'
    <2>1. session # None /\ session \in Sessions /\ ~overtaken /\ ~gaveUp /\ Quiet
      BY <1>1, <1>4, NoneAssumption DEF ApprovedArrives, IInv, TypeOK
    <2>2. rejoin = "none"
      BY <1>1, <1>2, <2>1 DEF IInv, SessionIsAnswered, TypeOK, Quiet
    <2>3. NoAnswer(0) /\ LeadFrom(PlaceOf(session))
      BY <1>1, <2>1, <2>2 DEF IInv, SessionIsAnswered
    <2>4. PICK place : place = PlaceOf(session)
      OBVIOUS
    <2>5. NoAnswer(0)' /\ place = "waiting" /\ LeadFrom("viewer")'
      BY <1>1, <2>3, <2>4, RestLeadsOn
    <2>6. session.role = "viewer"
      BY <2>1, <2>4, <2>5 DEF PlaceOf, Sessions, Roles, IInv, OnlyViewersWait,
                              SessionIsCurrent
    <2>7. PlaceOf(session') = "viewer"
      <3>1. session' = [session EXCEPT !.waiting = FALSE]
        BY <2>1, <2>6 DEF ApprovedArrives
      <3>2. session'.role = "viewer" /\ ~session'.waiting
        BY <2>1, <2>6, <3>1 DEF Sessions
      <3> QED BY <3>2 DEF PlaceOf
    <2>8. SessionIsAnswered'
      BY <1>1, <2>2, <2>5, <2>7, LeadsFrom
    <2> QED BY <1>3, <2>8
  <1>5. CASE ~(session' # None /\ ~overtaken' /\ ~gaveUp')
    BY <1>3, <1>5 DEF SessionIsAnswered
  <1> QED BY <1>4, <1>5

LEMMA RemovedArrivesAnswers ==
    ASSUME IInv, RemovedArrives
    PROVE  CallIsAnswered' /\ SessionIsAnswered'
  <1>1. /\ Arrives("rejected") \/ Arrives("removed")
        /\ UNCHANGED calls /\ link = "up" /\ (~overtaken' => ~overtaken /\ Quiet)
        /\ session' = None
    BY DEF RemovedArrives, Overtakes, LeaveSession, Arrives, Connected
  <1>2. \A role : ~Awaited(role)
    BY <1>1, AwaitedNext
  <1>3. CallIsAnswered'
    BY <1>1, <1>2 DEF IInv, CallIsAnswered, Quiet
  <1> QED BY <1>1, <1>3 DEF SessionIsAnswered

\* A stop or a frame leaves the membership alone.
LEMMA OtherPacketAnswers ==
    ASSUME IInv, StopArrives \/ MotionArrives
    PROVE  CallIsAnswered' /\ SessionIsAnswered'
  <1>1. PICK type \in {"stop", "m"} : Arrives(type)
    BY DEF StopArrives, MotionArrives
  <1>2. /\ Local /\ UNCHANGED <<bound, up, forgotten, link, gaveUp, overtaken>>
        /\ UNCHANGED <<calls, rejoin, session>> /\ link = "up"
    BY DEF StopArrives, MotionArrives, UnchangedByPacket, IInv, Local, Arrives, Connected
  <1>3. \A role : ~Awaited(role)
    BY <1>1, AwaitedNext
  <1>4. /\ NoAnswer(0) => NoAnswer(0)'
        /\ \A place : LeadFrom(place) => LeadFrom(place)'
    BY <1>1, <1>2, RestLeadsOn
  <1>5. ASSUME NEW role, NEW result, Answered(role, result)
        PROVE  Answered(role, result)'
    <2>1. PICK place : place = Granted(role, result)
      OBVIOUS
    <2>2. NoAnswer(0)' /\ LeadFrom(place)'
      BY <1>4, <1>5, <2>1 DEF Answered
    <2>3. Granted(role, result)' = place
      BY <2>1 DEF Granted
    <2> QED BY <2>2, <2>3 DEF Answered
  <1>6. CallIsAnswered'
    BY <1>2, <1>3, <1>5 DEF IInv, CallIsAnswered
  <1>7. SessionIsAnswered'
    BY <1>2, <1>3, <1>4, <1>5 DEF IInv, SessionIsAnswered
  <1> QED BY <1>6, <1>7

(***************************************************************************)
(* The invariant and what follows from it.                                 *)
(***************************************************************************)
LEMMA InitIInv == Init => IInv
  <1> SUFFICES ASSUME Init PROVE IInv
    OBVIOUS
  <1> USE DEF Init
  <1>1. TypeOK
    <2>1. 0 \in 0..MaxCalls /\ 0 \in 0..MaxBacklog /\ 0 \in 0..MaxDrops
      BY BoundsAssumption
    <2>2. up \in Seq(Roles) /\ down \in Seq(Answers \cup Events) /\ calls \subseteq Calls
      OBVIOUS
    <2>3. room \in BOOLEAN /\ flushTimer \in BOOLEAN /\ delayed \in BOOLEAN
          /\ motionTimer \in BOOLEAN /\ tracking \in BOOLEAN /\ overtaken \in BOOLEAN
          /\ gaveUp \in BOOLEAN /\ forgotten \in BOOLEAN
      OBVIOUS
    <2> QED BY <2>1, <2>2, <2>3 DEF TypeOK
  <1>2. CallsAreCurrent /\ ConnectionsAreFresh /\ FramesHaveRoom /\ SessionIsCurrent
        /\ SentInItsRoom /\ PlaysInTime
    BY DEF CallsAreCurrent, ConnectionsAreFresh, FramesHaveRoom, SessionIsCurrent,
           SentInItsRoom, PlaysInTime
  <1>3. OnlyViewersWait /\ CallIsAnswered /\ SessionIsAnswered
    BY DEF OnlyViewersWait, CallIsAnswered, SessionIsAnswered
  <1> QED BY <1>1, <1>2, <1>3 DEF IInv

LEMMA NextIInv ==
    ASSUME IInv, [Next]_vars
    PROVE  IInv'
  <1>0. Local
    BY DEF IInv, Local
  <1>1. ASSUME Local', CallIsAnswered', SessionIsAnswered'
        PROVE  IInv'
    BY <1>1 DEF IInv, Local
  <1>2. ASSUME Local', link' # "up"
        PROVE  IInv'
    BY <1>1, <1>2 DEF CallIsAnswered, SessionIsAnswered
  <1>3. ASSUME NEW role \in Roles, BeginCall(role)
        PROVE  IInv'
    BY <1>0, <1>2, <1>3, BeginCallLocal
  <1>4. ASSUME NEW c \in calls, HttpDone(c)
        PROVE  IInv'
    BY <1>0, <1>2, <1>4, HttpDoneLocal
  <1>5. ASSUME NEW c \in calls, CallFails(c)
        PROVE  IInv'
    <2>1. /\ UNCHANGED <<up, down, bound, forgotten, link, session, overtaken>>
          /\ UNCHANGED <<gaveUp, rejoin>> /\ calls' \subseteq calls
      BY <1>5 DEF CallFails, netVars, gapVars
    <2>2. CallIsAnswered' /\ SessionIsAnswered'
      BY <2>1, AnswersFrame
    <2> QED BY <1>0, <1>1, <1>5, <2>2, CallFailsLocal
  <1>6. ASSUME NEW c \in calls, ResumeCall(c)
        PROVE  IInv'
    BY <1>0, <1>1, <1>6, ResumeCallLocal, ResumeCallAnswers
  <1>7. CASE Disconnect
    BY <1>0, <1>2, <1>7, DisconnectLocal
  <1>8. CASE SocketConnects
    BY <1>0, <1>1, <1>8, SocketConnectsLocal, SocketConnectsAnswers
  <1>9. CASE ConnectionLost
    BY <1>0, <1>2, <1>9, ConnectionLostLocal
  <1>10. CASE AckTimeout
    <2>1. /\ UNCHANGED <<up, down, bound, forgotten, link, session, overtaken>>
          /\ calls' \subseteq calls /\ (rejoin' = rejoin \/ gaveUp')
          /\ gaveUp => gaveUp'
      BY <1>10 DEF AckTimeout, netVars
    <2>2. CallIsAnswered' /\ SessionIsAnswered'
      BY <2>1, AnswersFrame
    <2> QED BY <1>0, <1>1, <1>10, <2>2, AckTimeoutLocal
  <1>11. CASE ResumeRejoin
    BY <1>0, <1>1, <1>11, ResumeRejoinLocal, ResumeRejoinAnswers
  <1>12. CASE RelayAnswers
    BY <1>0, <1>1, <1>12, RelayAnswersLocal, RelayAnswersAnswers
  <1>13. CASE RelayNotifies
    BY <1>0, <1>1, <1>13, RelayNotifiesLocal, RelayNotifiesAnswers
  <1>14. CASE AckArrives
    BY <1>0, <1>1, <1>14, AckArrivesLocal, AckArrivesAnswers
  <1>15. CASE ApprovedArrives
    BY <1>0, <1>1, <1>15, ApprovedArrivesLocal, ApprovedArrivesAnswers
  <1>16. CASE RemovedArrives
    BY <1>0, <1>1, <1>16, RemovedArrivesLocal, RemovedArrivesAnswers
  <1>17. CASE StopArrives \/ MotionArrives
    BY <1>0, <1>1, <1>17, StopArrivesLocal, MotionArrivesLocal, OtherPacketAnswers
  <1>18. ASSUME MotionTimer \/ PublishMotion \/ FlushLatest \/ EmergencyStop
                   \/ \E on \in BOOLEAN : SetDelay(on)
         PROVE  IInv'
    <2>1. Local' /\ UNCHANGED <<clientVars, netVars, gapVars>>
      BY <1>0, <1>18, PlayingLocal
    <2>2. CallIsAnswered' /\ SessionIsAnswered'
      BY <2>1, AnswersFrame DEF clientVars, netVars, gapVars
    <2> QED BY <1>1, <2>1, <2>2
  <1>19. CASE RelayForgets
    BY <1>0, <1>1, <1>19, RelayForgetsLocal, RelayForgetsAnswers
  <1>20. CASE UNCHANGED vars
    <2> USE <1>20 DEF vars, clientVars, outVars, playVars, netVars, gapVars
    <2>1. /\ TypeOK' /\ CallsAreCurrent' /\ ConnectionsAreFresh' /\ FramesHaveRoom'
          /\ SessionIsCurrent' /\ SentInItsRoom' /\ PlaysInTime' /\ OnlyViewersWait'
      BY <1>0 DEF Local, TypeOK, CallsAreCurrent, ConnectionsAreFresh, FramesHaveRoom,
                  SessionIsCurrent, SentInItsRoom, PlaysInTime, OnlyViewersWait
    <2>2. CallIsAnswered' /\ SessionIsAnswered'
      BY AnswersFrame
    <2> QED BY <1>1, <2>1, <2>2 DEF Local
  <1> QED BY <1>3, <1>4, <1>5, <1>6, <1>7, <1>8, <1>9, <1>10, <1>11, <1>12, <1>13, <1>14,
             <1>15, <1>16, <1>17, <1>18, <1>19, <1>20 DEF Next

\* Whatever the calls, the connection and the relay do, in whatever order: the
\* client and what is on its way fit together.
THEOREM ClientInductive == Spec => []IInv
  <1>1. IInv /\ [Next]_vars => IInv'
    BY NextIInv
  <1> QED BY InitIInv, <1>1, PTL DEF Spec

\* Every variable keeps its type; in particular the frames waiting to be played
\* stay within the packets that were on their way.
THEOREM TypeCorrect == Spec => []TypeOK
  <1>1. IInv => TypeOK
    BY DEF IInv
  <1> QED BY ClientInductive, <1>1, PTL

\* The session is the one the user last asked for, whatever completes late.
THEOREM SessionStaysCurrent == Spec => []SessionIsCurrent
  <1>1. IInv => SessionIsCurrent
    BY DEF IInv
  <1> QED BY ClientInductive, <1>1, PTL

\* When nothing is on its way, the client's session is the place the relay holds
\* for it; the exceptions are the three that RelayAgrees names, and no other:
\* an overtaken answer, a rejoin nobody answers, and a place given up silently.
THEOREM AgreementIsKept == Spec => []RelayAgrees
  <1>1. IInv => RelayAgrees
    <2> SUFFICES ASSUME IInv, session # None, link = "up", ~Settling, ~overtaken, ~gaveUp
                 PROVE  Stands(PlaceOf(session))
      BY DEF RelayAgrees
    <2>1. rejoin = "none" /\ down = <<>>
      BY DEF Settling
    <2>2. LeadFrom(PlaceOf(session))
      BY <2>1 DEF IInv, SessionIsAnswered
    <2> QED BY <2>1, <2>2 DEF LeadFrom
  <1> QED BY ClientInductive, <1>1, PTL

\* The frame that waits to be sent was published in this session, and the frames
\* that wait to be played arrived after the last lost connection, entry, removal,
\* stop and change of the delay, with their timer set.
THEOREM NothingBecomesStale == Spec => []NothingStale
  <1>1. IInv => NothingStale
    BY DEF IInv, NothingStale
  <1> QED BY ClientInductive, <1>1, PTL
=============================================================================
