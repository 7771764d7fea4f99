--------------------------- MODULE Desktop_proofs ---------------------------
(***************************************************************************)
(* The invariant IInv of the desktop application is inductive: the latch,  *)
(* once it is set or released, is on its way to the window behind every    *)
(* message that says otherwise, and who left a room is about to be stopped *)
(* with no source of motion left.  LatchShown and LeavingStops follow.     *)
(***************************************************************************)
EXTENDS Desktop, FiniteSetTheorems, TLAPS

(***************************************************************************)
(* The way to the window: messages are read at its front and join at its   *)
(* end.                                                                    *)
(***************************************************************************)
\* k messages were read and s has joined
Delivers(k, s) ==
    /\ k \in Nat /\ k <= Len(messages) /\ s \in Seq(Messages)
    /\ messages' \in Seq(Messages) /\ Len(messages') = (Len(messages) - k) + Len(s)
    /\ \A i \in DOMAIN messages' : \/ i + k \in DOMAIN messages /\ messages'[i] = messages[i + k]
                                   \/ /\ i > Len(messages) - k
                                      /\ \E j \in DOMAIN s : messages'[i] = s[j]
    /\ \A i \in DOMAIN messages : i > k =>
          i - k \in DOMAIN messages' /\ messages'[i - k] = messages[i]
    /\ \A j \in DOMAIN s : /\ (Len(messages) - k) + j \in DOMAIN messages'
                           /\ messages'[(Len(messages) - k) + j] = s[j]

LEMMA Joins ==
    ASSUME messages \in Seq(Messages), NEW s \in Seq(Messages), messages' = messages \o s
    PROVE  Delivers(0, s)
  <1> DEFINE M == Messages
  <1> HIDE DEF M
  <1>0. messages \in Seq(M) /\ s \in Seq(M)
    BY DEF M
  <1>1. /\ messages' \in Seq(M) /\ Len(messages') = Len(messages) + Len(s)
        /\ DOMAIN messages' = 1..Len(messages) + Len(s) /\ DOMAIN messages = 1..Len(messages)
        /\ DOMAIN s = 1..Len(s) /\ Len(messages) \in Nat /\ Len(s) \in Nat
    BY <1>0
  <1>2. \A i \in 1..Len(messages) + Len(s) :
           messages'[i] = IF i <= Len(messages) THEN messages[i] ELSE s[i - Len(messages)]
    BY <1>0
  <1>3. ASSUME NEW i \in DOMAIN messages', i > Len(messages)
        PROVE  \E j \in DOMAIN s : messages'[i] = s[j]
    <2>1. i - Len(messages) \in DOMAIN s /\ messages'[i] = s[i - Len(messages)]
      BY <1>1, <1>2, <1>3
    <2> QED BY <2>1
  <1>4. \A j \in DOMAIN s : /\ Len(messages) + j \in DOMAIN messages'
                            /\ messages'[Len(messages) + j] = s[j]
    BY <1>1, <1>2
  <1>5. \A i \in DOMAIN messages : i \in DOMAIN messages' /\ messages'[i] = messages[i]
    BY <1>1, <1>2
  <1>6. \A i \in DOMAIN messages' : i <= Len(messages) \/ i > Len(messages)
    BY <1>1
  <1>7. \A i \in DOMAIN messages' : i <= Len(messages) =>
           i \in DOMAIN messages /\ messages'[i] = messages[i]
    BY <1>1, <1>2
  <1> QED BY <1>0, <1>1, <1>3, <1>4, <1>5, <1>6, <1>7 DEF Delivers, M

LEMMA ReadAndJoins ==
    ASSUME messages \in Seq(Messages), messages # <<>>, NEW s \in Seq(Messages),
           messages' = Tail(messages) \o s
    PROVE  Delivers(1, s)
  <1> DEFINE M == Messages
  <1> HIDE DEF M
  <1>0. messages \in Seq(M) /\ s \in Seq(M)
    BY DEF M
  <1>1. /\ Tail(messages) \in Seq(M) /\ Len(Tail(messages)) = Len(messages) - 1
        /\ Len(messages) \in Nat \ {0} /\ DOMAIN messages = 1..Len(messages)
        /\ \A i \in 1..Len(messages) - 1 : Tail(messages)[i] = messages[i + 1]
    BY <1>0
  <1>2. PICK rest : rest = Tail(messages)
    OBVIOUS
  <1>3. rest \in Seq(M) /\ messages' = rest \o s
    BY <1>1, <1>2
  <1>4. /\ messages' \in Seq(M) /\ Len(messages') = Len(rest) + Len(s)
        /\ DOMAIN messages' = 1..Len(rest) + Len(s)
        /\ DOMAIN s = 1..Len(s) /\ Len(rest) \in Nat /\ Len(s) \in Nat
        /\ \A i \in 1..Len(rest) + Len(s) :
              messages'[i] = IF i <= Len(rest) THEN rest[i] ELSE s[i - Len(rest)]
    BY <1>0, <1>3
  <1>5. ASSUME NEW i \in DOMAIN messages', i > Len(rest)
        PROVE  \E j \in DOMAIN s : messages'[i] = s[j]
    <2>1. i - Len(rest) \in DOMAIN s /\ messages'[i] = s[i - Len(rest)]
      BY <1>4, <1>5
    <2> QED BY <2>1
  <1>6. ASSUME NEW j \in DOMAIN s
        PROVE  Len(rest) + j \in DOMAIN messages' /\ messages'[Len(rest) + j] = s[j]
    <2>1. /\ Len(rest) + j \in 1..Len(rest) + Len(s)
          /\ ~(Len(rest) + j <= Len(rest)) /\ (Len(rest) + j) - Len(rest) = j
      BY <1>4
    <2> QED BY <1>4, <2>1
  <1>7. \A i \in DOMAIN messages : i > 1 =>
           i - 1 \in DOMAIN messages' /\ messages'[i - 1] = messages[i]
    <2> SUFFICES ASSUME NEW i \in DOMAIN messages, i > 1
                 PROVE  i - 1 \in DOMAIN messages' /\ messages'[i - 1] = messages[i]
      OBVIOUS
    <2>1. i - 1 \in 1..Len(rest) /\ (i - 1) + 1 = i
      BY <1>1, <1>2
    <2> QED BY <1>1, <1>2, <1>4, <2>1
  <1>8. \A i \in DOMAIN messages' : i <= Len(rest) =>
           i + 1 \in DOMAIN messages /\ messages'[i] = messages[i + 1]
    BY <1>1, <1>2, <1>4
  <1>9. Len(rest) = Len(messages) - 1 /\ \A i \in DOMAIN messages' : i <= Len(rest) \/ i > Len(rest)
    BY <1>1, <1>2, <1>4
  <1> QED BY <1>0, <1>1, <1>4, <1>5, <1>6, <1>7, <1>8, <1>9 DEF Delivers, M

(***************************************************************************)
(* Messages that have nothing to do with the latch.                        *)
(***************************************************************************)
Neutral(m) ==
    /\ m.task \notin {"stop", "release"} /\ ~Informs(m) /\ ~Clears(m)
    /\ m.name # "reply" => m.task = "none"

LEMMA NeutralMessages ==
    /\ \A task \in Tasks \cup {"none"}, ok \in BOOLEAN, latch \in BOOLEAN :
          /\ Reply(task, ok, latch) \in Messages
          /\ Reply(task, ok, latch).name = "reply" /\ Reply(task, ok, latch).task = task
          /\ Reply(task, ok, latch).latch = latch
    /\ \A name \in Events, latch \in BOOLEAN :
          /\ Event(name, latch) \in Messages
          /\ Event(name, latch).name = name /\ Event(name, latch).task = "none"
          /\ Event(name, latch).latch = latch
    /\ \A task \in (Tasks \cup {"none"}) \ {"stop", "release"}, ok \in BOOLEAN :
          Neutral(Reply(task, ok, FALSE))
    /\ \A name \in Events \ {"stop-received", "lost"} : Neutral(Event(name, FALSE))
    /\ Neutral(Event("stop-received", FALSE))
  BY DEF Reply, Event, Messages, Neutral, Informs, Clears, Tasks, Events

\* No message of an answered action comes twice or appears from nowhere.
AnswersStay ==
    \A task \in {"stop", "release"} :
        /\ \A i, j \in DOMAIN messages' :
              messages'[i].task = task /\ messages'[j].task = task => i = j
        /\ (\E i \in DOMAIN messages' : messages'[i].task = task) =>
              \E i \in DOMAIN messages : messages[i].task = task

LEMMA NeutralMail ==
    ASSUME IInv, NEW k \in {0, 1}, NEW s, Delivers(k, s),
           \A j \in DOMAIN s : Neutral(s[j]),
           k = 1 => Neutral(messages[1]), latchShown' = latchShown
    PROVE  /\ MessagesAreTrue' /\ AnswersStay /\ messages' \in Seq(Messages)
           /\ LeadsToLatch => LeadsToLatch'
           /\ LeadsToRelease => LeadsToRelease'
  <1>1. /\ \A i \in DOMAIN messages' : \/ i + k \in DOMAIN messages /\ messages'[i] = messages[i + k]
                                       \/ i > Len(messages) - k /\ Neutral(messages'[i])
        /\ \A i \in DOMAIN messages : i > k =>
              i - k \in DOMAIN messages' /\ messages'[i - k] = messages[i]
        /\ \A i \in DOMAIN messages : ~(i > k) => Neutral(messages[i])
    <2>1. \A i \in DOMAIN messages : ~(i > k) => k = 1 /\ i = 1
      BY DEF IInv, TypeOK
    <2> QED BY <2>1 DEF Delivers
  <1>2. /\ \A i, j \in DOMAIN messages' : i + k = j + k => i = j
        /\ \A i, j \in DOMAIN messages' : j > i => j + k > i + k
        /\ Len(messages) \in Nat /\ DOMAIN messages = 1..Len(messages)
        /\ DOMAIN messages' \subseteq Nat
    BY DEF Delivers, IInv, TypeOK
  <1>3. messages' \in Seq(Messages)
    BY DEF Delivers
  <1>4. MessagesAreTrue'
    <2> SUFFICES ASSUME NEW i \in DOMAIN messages'
                 PROVE  /\ messages'[i].task = "stop" => messages'[i].latch
                        /\ messages'[i].task = "release" => ~messages'[i].latch
                        /\ messages'[i].name # "reply" => messages'[i].task = "none"
      BY DEF MessagesAreTrue
    <2>1. CASE i + k \in DOMAIN messages /\ messages'[i] = messages[i + k]
      BY <2>1 DEF IInv, MessagesAreTrue
    <2>2. CASE Neutral(messages'[i])
      BY <2>2 DEF Neutral
    <2> QED BY <1>1, <2>1, <2>2
  <1>5. AnswersStay
    <2>1. \A task \in {"stop", "release"}, i \in DOMAIN messages' :
             messages'[i].task = task => i + k \in DOMAIN messages /\ messages[i + k].task = task
      BY <1>1 DEF Neutral
    <2>2. \A task \in {"stop", "release"}, i, j \in DOMAIN messages :
             messages[i].task = task /\ messages[j].task = task => i = j
      BY DEF IInv, StopsAreAnswered
    <2>3. \A task \in {"stop", "release"}, i, j \in DOMAIN messages' :
             messages'[i].task = task /\ messages'[j].task = task => i + k = j + k
      BY <2>1, <2>2
    <2> QED BY <1>2, <2>1, <2>3 DEF AnswersStay
  <1>6. /\ \A i \in DOMAIN messages' : Informs(messages'[i]) =>
              i + k \in DOMAIN messages /\ Informs(messages[i + k])
        /\ \A i \in DOMAIN messages' : Clears(messages'[i]) =>
              i + k \in DOMAIN messages /\ Clears(messages[i + k])
        /\ \A i \in DOMAIN messages : Informs(messages[i]) \/ Clears(messages[i]) => i > k
    BY <1>1 DEF Neutral
  <1>7. \A i \in DOMAIN messages, j \in DOMAIN messages' :
           i > k /\ j > i - k => j + k > i
    BY <1>2 DEF Delivers
  <1>8. ASSUME LeadsToLatch
        PROVE  LeadsToLatch'
    <2>1. CASE latchShown /\ \A i \in DOMAIN messages : ~Clears(messages[i])
      BY <1>6, <2>1 DEF LeadsToLatch
    <2>2. ASSUME NEW i \in DOMAIN messages, Informs(messages[i]),
                 \A j \in DOMAIN messages : j > i => ~Clears(messages[j])
          PROVE  LeadsToLatch'
      <3>1. i > k /\ i - k \in DOMAIN messages' /\ Informs(messages'[i - k])
        BY <1>1, <1>6, <2>2
      <3>2. \A j \in DOMAIN messages' : j > i - k => ~Clears(messages'[j])
        BY <1>6, <1>7, <2>2, <3>1
      <3> QED BY <3>1, <3>2 DEF LeadsToLatch
    <2> QED BY <1>8, <2>1, <2>2 DEF LeadsToLatch
  <1>9. ASSUME LeadsToRelease
        PROVE  LeadsToRelease'
    <2>1. CASE ~latchShown /\ \A i \in DOMAIN messages : ~Informs(messages[i])
      BY <1>6, <2>1 DEF LeadsToRelease
    <2>2. ASSUME NEW i \in DOMAIN messages, Clears(messages[i]),
                 \A j \in DOMAIN messages : j > i => ~Informs(messages[j])
          PROVE  LeadsToRelease'
      <3>1. i > k /\ i - k \in DOMAIN messages' /\ Clears(messages'[i - k])
        BY <1>1, <1>6, <2>2
      <3>2. \A j \in DOMAIN messages' : j > i - k => ~Informs(messages'[j])
        BY <1>6, <1>7, <2>2, <3>1
      <3> QED BY <3>1, <3>2 DEF LeadsToRelease
    <2> QED BY <1>9, <2>1, <2>2 DEF LeadsToRelease
  <1> QED BY <1>3, <1>4, <1>5, <1>8, <1>9

\* The messages stay as they are.
LEMMA NoMail ==
    ASSUME IInv, UNCHANGED <<messages, latchShown>>
    PROVE  /\ MessagesAreTrue' /\ AnswersStay /\ messages' \in Seq(Messages)
           /\ LeadsToLatch => LeadsToLatch'
           /\ LeadsToRelease => LeadsToRelease'
  BY DEF IInv, TypeOK, MessagesAreTrue, StopsAreAnswered, AnswersStay, LeadsToLatch,
         LeadsToRelease

Mail ==
    /\ MessagesAreTrue' /\ AnswersStay /\ messages' \in Seq(Messages)
    /\ LeadsToLatch => LeadsToLatch'
    /\ LeadsToRelease => LeadsToRelease'

\* the latch and its stops are where they were
LatchIsLeft ==
    /\ UNCHANGED <<latched, latchWrites, stopRead>>
    /\ \A task \in {"stop", "release"} :
          /\ stage'[task] = stage[task]
          /\ stage[task] # "idle" /\ busy /\ current = task => busy' /\ current' = task

LEMMA LatchFrame ==
    ASSUME IInv, Mail, LatchIsLeft
    PROVE  MessagesAreTrue' /\ StopsAreAnswered' /\ LatchIsOnItsWay'
  <1>1. LatchIsOnItsWay'
    BY DEF IInv, LatchIsOnItsWay, Mail, LatchIsLeft
  <1>2. \A task \in {"stop", "release"} :
          /\ stage'[task] # "idle" => busy' /\ current' = task
          /\ \A i, j \in DOMAIN messages' :
                messages'[i].task = task /\ messages'[j].task = task => i = j
          /\ \A i \in DOMAIN messages' : messages'[i].task = task => stage'[task] # "idle"
    BY DEF IInv, StopsAreAnswered, Mail, LatchIsLeft, AnswersStay
  <1>3. \A i \in DOMAIN messages' : messages'[i].task = "stop" =>
           \E j \in DOMAIN messages : messages[j].task = "stop"
    BY DEF Mail, AnswersStay
  <1>4. StopsAreAnswered'
    <2>1. StopWrites' = StopWrites
      BY DEF StopWrites, LatchIsLeft
    <2>2. stage'["stop"] = stage["stop"] /\ stopRead' = stopRead /\ latched' = latched
      BY DEF LatchIsLeft
    <2>3. /\ stage["stop"] # "idle" => latched
          /\ StopWrites # {} \/ stopRead # "none" =>
                /\ stage["stop"] # "idle"
                /\ \A i \in DOMAIN messages : messages[i].task # "stop"
          /\ StopWrites # {} => stopRead = "none"
          /\ stopRead # "released"
          /\ \A c, d \in StopWrites : c = d
      BY DEF IInv, StopsAreAnswered
    <2>4. /\ stage'["stop"] # "idle" => latched'
          /\ StopWrites' # {} \/ stopRead' # "none" =>
                /\ stage'["stop"] # "idle"
                /\ \A i \in DOMAIN messages' : messages'[i].task # "stop"
          /\ StopWrites' # {} => stopRead' = "none"
          /\ stopRead' # "released"
          /\ \A c, d \in StopWrites' : c = d
      BY <1>3, <2>1, <2>2, <2>3
    <2> QED BY <1>2, <2>4 DEF StopsAreAnswered
  <1> QED BY <1>1, <1>4 DEF Mail

\* One message joins, or the first one is read.
LEMMA OneJoins ==
    ASSUME IInv, NEW m \in Messages, messages' = Append(messages, m)
    PROVE  /\ messages' \in Seq(Messages) /\ Len(messages) \in Nat
           /\ Len(messages) + 1 \in DOMAIN messages' /\ messages'[Len(messages) + 1] = m
           /\ \A i \in DOMAIN messages : i \in DOMAIN messages' /\ messages'[i] = messages[i]
           /\ \A i \in DOMAIN messages' : i \in DOMAIN messages \/ i = Len(messages) + 1
           /\ \A i \in DOMAIN messages' : i <= Len(messages) + 1
           /\ Len(messages) + 1 \notin DOMAIN messages
           /\ Delivers(0, <<m>>)
  <1> DEFINE M == Messages
  <1> HIDE DEF M
  <1>1. messages \in Seq(M) /\ m \in M
    BY DEF M, IInv, TypeOK
  <1>2. /\ messages' \in Seq(M) /\ Len(messages) \in Nat
        /\ Len(messages) + 1 \in DOMAIN messages' /\ messages'[Len(messages) + 1] = m
        /\ \A i \in DOMAIN messages : i \in DOMAIN messages' /\ messages'[i] = messages[i]
        /\ \A i \in DOMAIN messages' : i \in DOMAIN messages \/ i = Len(messages) + 1
        /\ \A i \in DOMAIN messages' : i <= Len(messages) + 1
        /\ Len(messages) + 1 \notin DOMAIN messages
    BY <1>1
  <1>3. <<m>> \in Seq(M) /\ messages' = messages \o <<m>>
    BY <1>1
  <1> QED BY <1>1, <1>2, <1>3, Joins DEF M

LEMMA OneIsRead ==
    ASSUME IInv, messages # <<>>, messages' = Tail(messages)
    PROVE  /\ messages' \in Seq(Messages) /\ Head(messages) = messages[1]
           /\ Head(messages) \in Messages
           /\ 1 \in DOMAIN messages
           /\ \A i \in DOMAIN messages' : i + 1 \in DOMAIN messages /\ messages'[i] = messages[i + 1]
           /\ \A i \in DOMAIN messages : i > 1 => i - 1 \in DOMAIN messages'
           /\ \A i \in DOMAIN messages' : i \in Nat \ {0}
           /\ \A i \in DOMAIN messages : i \in Nat \ {0}
           /\ Delivers(1, <<>>)
  <1> DEFINE M == Messages
  <1> HIDE DEF M
  <1>1. messages \in Seq(M)
    BY DEF M, IInv, TypeOK
  <1>2. /\ messages' \in Seq(M) /\ Head(messages) = messages[1] /\ Head(messages) \in M
        /\ 1 \in DOMAIN messages
        /\ \A i \in DOMAIN messages' : i + 1 \in DOMAIN messages /\ messages'[i] = messages[i + 1]
        /\ \A i \in DOMAIN messages : i > 1 => i - 1 \in DOMAIN messages'
        /\ \A i \in DOMAIN messages' : i \in Nat \ {0}
        /\ \A i \in DOMAIN messages : i \in Nat \ {0}
    BY <1>1
  <1>3. <<>> \in Seq(M) /\ messages' = Tail(messages) \o <<>>
    BY <1>1
  <1> QED BY <1>1, <1>2, <1>3, ReadAndJoins DEF M

\* A neutral message joins, one is read, and one is read and another joins.
LEMMA NeutralJoins ==
    ASSUME IInv, NEW m \in Messages, Neutral(m), messages' = Append(messages, m),
           latchShown' = latchShown
    PROVE  Mail
  <1>1. \A j \in DOMAIN <<m>> : Neutral(<<m>>[j])
    OBVIOUS
  <1>2. Delivers(0, <<m>>)
    BY OneJoins
  <1> QED BY <1>1, <1>2, NeutralMail DEF Mail

LEMMA NeutralIsRead ==
    ASSUME IInv, messages # <<>>, messages' = Tail(messages), Neutral(Head(messages)),
           latchShown' = latchShown
    PROVE  Mail
  <1>1. Delivers(1, <<>>) /\ Neutral(messages[1])
    BY OneIsRead
  <1> QED BY <1>1, NeutralMail DEF Mail

LEMMA NeutralFollows ==
    ASSUME IInv, messages # <<>>, Neutral(Head(messages)), NEW s \in Seq(Messages),
           \A j \in DOMAIN s : Neutral(s[j]),
           messages' = Tail(messages) \o s, latchShown' = latchShown
    PROVE  Mail
  <1>1. Delivers(1, s)
    BY ReadAndJoins DEF IInv, TypeOK
  <1>2. Neutral(messages[1])
    BY DEF IInv, TypeOK
  <1> QED BY <1>1, <1>2, NeutralMail DEF Mail

LEMMA NeutralsJoin ==
    ASSUME IInv, NEW s \in Seq(Messages), \A j \in DOMAIN s : Neutral(s[j]),
           messages' = messages \o s, latchShown' = latchShown
    PROVE  Mail
  <1>1. Delivers(0, s)
    BY Joins DEF IInv, TypeOK
  <1> QED BY <1>1, NeutralMail DEF Mail

LEMMA SupersededIsNeutral ==
    ASSUME IInv
    PROVE  Superseded \in Seq(Messages) /\ \A j \in DOMAIN Superseded : Neutral(Superseded[j])
  <1>1. CASE relayCall = "none"
    BY <1>1 DEF Superseded
  <1>2. CASE relayCall # "none"
    <2>1. relayCall \in (Tasks \cup {"none"}) \ {"stop", "release"}
      BY <1>2 DEF IInv, TypeOK, Tasks
    <2>2. Reply(relayCall, FALSE, FALSE) \in Messages /\ Neutral(Reply(relayCall, FALSE, FALSE))
      BY <2>1, NeutralMessages
    <2>3. PICK m : m = Reply(relayCall, FALSE, FALSE)
      OBVIOUS
    <2>4. Superseded = <<m>> /\ m \in Messages /\ Neutral(m)
      BY <1>2, <2>2, <2>3 DEF Superseded
    <2> QED BY <2>4
  <1> QED BY <1>1, <1>2

(***************************************************************************)
(* The handlers of the main process.                                       *)
(***************************************************************************)
MainTyped ==
    /\ {latched, pending, moving, demo, stopped} \subseteq BOOLEAN
    /\ exit \in {"none", "queued", "stopping"}
    /\ latchWrites \subseteq {"local-stop", "room-stop", "received"}
    /\ stopRead \in {"none", "latched", "released"}
    /\ room \in {"none", "host", "viewer", "waiting"}
    /\ relayCall \in {"none", "create", "join"}
    /\ leavers \subseteq {"leave", "logout"}

WindowTyped ==
    /\ {loggedIn, hosting, viewing, demoShown, latchShown, busy} \subseteq BOOLEAN
    /\ role \in {"host", "viewer"} /\ leavingAs \in {"host", "viewer"}
    /\ current \in Tasks \cup {"none"}
    /\ stage \in [Tasks -> Answers \cup {"idle"}]

LEMMA Whole ==
    ASSUME IInv, MainTyped', WindowTyped', ExitsStop', Mail, LatchIsLeft
    PROVE  IInv'
  BY LatchFrame DEF IInv, TypeOK, MainTyped, WindowTyped, Mail

LEMMA WindowStays ==
    ASSUME IInv, UNCHANGED windowVars
    PROVE  /\ WindowTyped' /\ latchShown' = latchShown
           /\ UNCHANGED <<latched, latchWrites, stopRead>> => LatchIsLeft
  BY DEF windowVars, roomShown, IInv, TypeOK, WindowTyped, LatchIsLeft

LEMMA MainStays ==
    ASSUME IInv, UNCHANGED <<hardwareVars, mainVars>>
    PROVE  MainTyped' /\ ExitsStop' /\ UNCHANGED <<latched, latchWrites, stopRead>>
  BY DEF hardwareVars, mainVars, IInv, TypeOK, MainTyped, ExitsStop

\* what a handler that leaves the latch alone keeps
HandlerKeeps == MainTyped' /\ ExitsStop' /\ UNCHANGED <<latched, latchWrites, stopRead>>

LEMMA RelayCallKeeps ==
    ASSUME IInv, NEW kind \in {"create", "join"}, NEW inbox, BeginRelayCall(kind, inbox)
    PROVE  HandlerKeeps /\ messages' = inbox \o Superseded
  BY DEF IInv, TypeOK, MainTyped, ExitsStop, HandlerKeeps, BeginRelayCall, EndSession,
         hardwareVars

LEMMA DemoStartKeeps ==
    ASSUME IInv, NEW inbox, DemoStart(inbox)
    PROVE  HandlerKeeps
  BY DEF IInv, TypeOK, MainTyped, ExitsStop, HandlerKeeps, DemoStart, QueueMotion, Accepts

LEMMA DemoStopKeeps ==
    ASSUME IInv, NEW task, NEW inbox, DemoStop(task, inbox)
    PROVE  HandlerKeeps
  BY DEF IInv, TypeOK, MainTyped, ExitsStop, HandlerKeeps, DemoStop, QueueMotion, Accepts

LEMMA DisconnectKeeps ==
    ASSUME IInv, NEW task \in {"leave", "logout"}, NEW inbox, DisconnectRoom(task, inbox)
    PROVE  HandlerKeeps /\ messages' = inbox \o Superseded
  BY DEF IInv, TypeOK, MainTyped, ExitsStop, HandlerKeeps, DisconnectRoom, AskExit, EndSession

LEMMA ListViewersKeeps ==
    ASSUME IInv, NEW inbox, ListViewers(inbox)
    PROVE  HandlerKeeps
  BY MainStays DEF HandlerKeeps, ListViewers

(***************************************************************************)
(* Outcomes in the main process and in the world.                          *)
(***************************************************************************)
LEMMA RelayCallAnsweredStep ==
    ASSUME IInv, NEW kind \in {"create", "join"}, RelayCallAnswered(kind)
    PROVE  IInv'
  <1>1. UNCHANGED windowVars /\ UNCHANGED hardwareVars
    BY DEF RelayCallAnswered
  <1>2. room' \in {"none", "host", "viewer", "waiting"} /\ (stopped' => stopped /\ room' = "none")
        /\ stopped' \in BOOLEAN /\ relayCall' = "none" /\ UNCHANGED <<demo, leavers>>
    BY DEF RelayCallAnswered
  <1>3. MainTyped' /\ ExitsStop' /\ UNCHANGED <<latched, latchWrites, stopRead>>
    BY <1>1, <1>2 DEF IInv, TypeOK, MainTyped, ExitsStop, hardwareVars
  <1>4. PICK m : m = Reply(kind, room' # "none", FALSE)
    OBVIOUS
  <1>5. m \in Messages /\ Neutral(m)
    <2>1. kind \in (Tasks \cup {"none"}) \ {"stop", "release"} /\ (room' # "none") \in BOOLEAN
      BY DEF Tasks
    <2> QED BY <1>4, <2>1, NeutralMessages
  <1>6. messages' = Append(messages, m)
    BY <1>4 DEF RelayCallAnswered
  <1>7. Mail
    BY <1>1, <1>5, <1>6, NeutralJoins, WindowStays
  <1> QED BY <1>1, <1>3, <1>7, WindowStays, Whole

LEMMA MotionSteps ==
    ASSUME IInv, MotionWritten \/ MotionComes \/ ExitStops
    PROVE  IInv'
  <1>1. UNCHANGED <<windowVars, messages>> /\ UNCHANGED <<latched, latchWrites, stopRead>>
    BY DEF MotionWritten, MotionComes, ExitStops
  <1>2. MainTyped' /\ ExitsStop'
    <2>1. CASE MotionWritten
      BY <2>1 DEF MotionWritten, mainVars, IInv, TypeOK, MainTyped, ExitsStop
    <2>2. CASE MotionComes
      <3>1. /\ exit = "none" /\ ~stopped /\ pending' \in BOOLEAN
            /\ UNCHANGED <<latched, moving, exit, latchWrites, stopRead, mainVars>>
        BY <2>2 DEF MotionComes, QueueMotion, Accepts, IInv, ExitsStop
      <3> QED BY <3>1 DEF mainVars, IInv, TypeOK, MainTyped, ExitsStop
    <2>3. CASE ExitStops
      BY <2>3 DEF ExitStops, mainVars, IInv, TypeOK, MainTyped, ExitsStop
    <2> QED BY <2>1, <2>2, <2>3
  <1>3. Mail
    BY <1>1, NoMail, WindowStays DEF Mail
  <1> QED BY <1>1, <1>2, <1>3, WindowStays, Whole

LEMMA ExitOverStep ==
    ASSUME IInv, ExitOver
    PROVE  IInv'
  <1>1. UNCHANGED windowVars /\ UNCHANGED <<latched, latchWrites, stopRead>>
    BY DEF ExitOver
  <1>2. MainTyped' /\ ExitsStop'
    BY DEF ExitOver, IInv, TypeOK, MainTyped, ExitsStop
  <1>3. leavers \subseteq {"leave", "logout"} /\ Cardinality(leavers) \in Nat
    <2>1. leavers \subseteq {"leave", "logout"}
      BY DEF IInv, TypeOK
    <2>2. IsFiniteSet({"leave"} \cup {"logout"})
      BY FS_Singleton, FS_Union
    <2>3. {"leave"} \cup {"logout"} = {"leave", "logout"}
      OBVIOUS
    <2> QED BY <2>1, <2>2, <2>3, FS_Subset, FS_CardinalityType
  <1>4. PICK order \in [1..Cardinality(leavers) -> leavers] :
           messages' = messages \o [i \in DOMAIN order |-> Reply(order[i], TRUE, FALSE)]
    BY DEF ExitOver
  <1>5. PICK s : s = [i \in DOMAIN order |-> Reply(order[i], TRUE, FALSE)]
    OBVIOUS
  <1>6. \A i \in 1..Cardinality(leavers) : s[i] \in Messages /\ Neutral(s[i])
    <2> SUFFICES ASSUME NEW i \in 1..Cardinality(leavers)
                 PROVE  s[i] \in Messages /\ Neutral(s[i])
      OBVIOUS
    <2>1. s[i] = Reply(order[i], TRUE, FALSE)
      BY <1>5
    <2>2. PICK task \in {"leave", "logout"} : task = order[i]
      BY <1>3
    <2>3. task \in (Tasks \cup {"none"}) \ {"stop", "release"} /\ task \in Tasks \cup {"none"}
      BY DEF Tasks
    <2>4. Reply(task, TRUE, FALSE) \in Messages /\ Neutral(Reply(task, TRUE, FALSE))
      BY <2>3, NeutralMessages
    <2> QED BY <2>1, <2>2, <2>4
  <1>7. DOMAIN s = 1..Cardinality(leavers) /\ s \in Seq(Messages)
    <2> DEFINE M == Messages
    <2> HIDE DEF M
    <2>1. s \in [1..Cardinality(leavers) -> M]
      BY <1>5, <1>6 DEF M
    <2> QED BY <1>3, <2>1 DEF M
  <1>8. Mail
    BY <1>1, <1>4, <1>5, <1>6, <1>7, NeutralsJoin, WindowStays
  <1> QED BY <1>1, <1>2, <1>8, WindowStays, Whole

LEMMA ViewerSteps ==
    ASSUME IInv,
           Removed \/ ViewerAnswered("approved") \/ ViewerAnswered("rejected")
    PROVE  IInv'
  <1>1. UNCHANGED windowVars /\ UNCHANGED <<latched, latchWrites, stopRead>>
    BY DEF Removed, ViewerAnswered, AskExit, hardwareVars
  <1>2. MainTyped' /\ ExitsStop'
    <2>1. CASE Removed
      <3>1. /\ room' = "none" /\ stopped' \in BOOLEAN /\ (stopped' => ~demo)
            /\ pending' = FALSE /\ exit' = (IF exit = "none" THEN "queued" ELSE exit)
            /\ UNCHANGED <<latched, moving, latchWrites, stopRead, demo, relayCall, leavers>>
        BY <2>1 DEF Removed, EndSession, AskExit
      <3> QED BY <3>1 DEF IInv, TypeOK, MainTyped, ExitsStop
    <2>2. CASE ViewerAnswered("approved") \/ ViewerAnswered("rejected")
      <3>1. /\ room = "waiting" /\ room' \in {"none", "viewer"}
            /\ UNCHANGED <<hardwareVars, demo, relayCall, stopped, leavers>>
        BY <2>2 DEF ViewerAnswered
      <3> QED BY <3>1 DEF hardwareVars, IInv, TypeOK, MainTyped, ExitsStop
    <2> QED BY <2>1, <2>2
  <1>3. PICK name \in {"removed", "approved", "rejected"} :
            messages' = Append(messages, Event(name, FALSE))
    BY DEF Removed, ViewerAnswered
  <1>4. name \in Events \ {"stop-received", "lost"}
    BY DEF Events
  <1>5. Mail
    BY <1>1, <1>3, <1>4, NeutralMessages, NeutralJoins, WindowStays
  <1> QED BY <1>1, <1>2, <1>5, WindowStays, Whole

(***************************************************************************)
(* Steps of the latch.                                                     *)
(***************************************************************************)
\* The last message decides what the window will show.
LEMMA LastDecides ==
    ASSUME IInv, NEW m \in Messages, messages' = Append(messages, m)
    PROVE  /\ Informs(m) => LeadsToLatch'
           /\ Clears(m) => LeadsToRelease'
  <1>1. PICK n : n = Len(messages) + 1
    OBVIOUS
  <1>2. /\ n \in DOMAIN messages' /\ messages'[n] = m
        /\ \A i \in DOMAIN messages' : ~(i > n)
    <2>1. /\ Len(messages) \in Nat /\ DOMAIN messages' \subseteq Nat
          /\ \A i \in DOMAIN messages' : i <= Len(messages) + 1
      BY OneJoins
    <2> QED BY <1>1, <2>1, OneJoins
  <1> QED BY <1>2 DEF LeadsToLatch, LeadsToRelease

LEMMA StopReceivedStep ==
    ASSUME IInv, StopReceived
    PROVE  IInv'
  <1>1. /\ latched' = TRUE /\ pending' = FALSE /\ moving' = FALSE
        /\ latchWrites' = latchWrites \cup {"received"} /\ UNCHANGED <<exit, stopRead, mainVars>>
        /\ UNCHANGED windowVars /\ UNCHANGED messages
    BY DEF StopReceived, Latch
  <1>2. MainTyped' /\ ExitsStop'
    BY <1>1 DEF mainVars, IInv, TypeOK, MainTyped, ExitsStop
  <1>3. Mail /\ WindowTyped'
    BY <1>1, NoMail, WindowStays DEF Mail
  <1>4. LatchIsOnItsWay'
    BY <1>1 DEF LatchIsOnItsWay
  <1>5. StopsAreAnswered'
    <2>1. StopWrites' = StopWrites
      BY <1>1 DEF StopWrites
    <2>2. UNCHANGED <<busy, current, stage, messages, stopRead>>
      BY <1>1 DEF windowVars
    <2> QED BY <1>1, <2>1, <2>2 DEF IInv, StopsAreAnswered
  <1> QED BY <1>2, <1>3, <1>4, <1>5 DEF IInv, TypeOK, Mail, MainTyped, WindowTyped

\* A message other than an answer to a stop or a release keeps the answers.
LEMMA EventJoins ==
    ASSUME IInv, NEW m \in Messages, messages' = Append(messages, m), m.task = "none"
    PROVE  MessagesAreTrue' /\ AnswersStay /\ messages' \in Seq(Messages)
  <1>1. /\ messages' \in Seq(Messages)
        /\ \A i \in DOMAIN messages' : \/ i \in DOMAIN messages /\ messages'[i] = messages[i]
                                       \/ messages'[i].task = "none"
    BY OneJoins
  <1>2. MessagesAreTrue'
    BY <1>1 DEF IInv, MessagesAreTrue
  <1>3. \A task \in {"stop", "release"}, i \in DOMAIN messages' :
           messages'[i].task = task => i \in DOMAIN messages /\ messages[i].task = task
    BY <1>1
  <1>4. AnswersStay
    BY <1>3 DEF AnswersStay, IInv, StopsAreAnswered
  <1> QED BY <1>1, <1>2, <1>4

LEMMA DeviceLostStep ==
    ASSUME IInv, DeviceLost
    PROVE  IInv'
  <1>1. /\ latched' = TRUE /\ pending' = FALSE /\ moving' = FALSE
        /\ UNCHANGED <<exit, latchWrites, stopRead, mainVars>> /\ UNCHANGED windowVars
        /\ messages' = Append(messages, Event("lost", TRUE))
    BY DEF DeviceLost
  <1>2. MainTyped' /\ ExitsStop'
    BY <1>1 DEF mainVars, IInv, TypeOK, MainTyped, ExitsStop
  <1>3. PICK m : m = Event("lost", TRUE)
    OBVIOUS
  <1>4. /\ m \in Messages /\ m.name = "lost" /\ m.task = "none" /\ m.latch = TRUE
    BY <1>3, NeutralMessages DEF Events
  <1>5. Informs(m)
    BY <1>4 DEF Informs
  <1>6. LatchIsOnItsWay'
    BY <1>1, <1>3, <1>4, <1>5, LastDecides DEF LatchIsOnItsWay
  <1>7. MessagesAreTrue' /\ AnswersStay /\ messages' \in Seq(Messages)
    BY <1>1, <1>3, <1>4, EventJoins
  <1>8. StopsAreAnswered'
    <2>1. StopWrites' = StopWrites /\ UNCHANGED <<busy, current, stage, stopRead>>
      BY <1>1 DEF StopWrites, windowVars
    <2>2. \A task \in {"stop", "release"}, i \in DOMAIN messages' : messages'[i].task = task =>
             \E j \in DOMAIN messages : messages[j].task = task
      BY <1>7 DEF AnswersStay
    <2> QED BY <1>1, <1>7, <2>1, <2>2 DEF IInv, StopsAreAnswered, AnswersStay
  <1> QED BY <1>1, <1>2, <1>6, <1>7, <1>8, WindowStays DEF IInv, TypeOK, MainTyped, WindowTyped

\* The answer to a stop joins: it is the only one, and it says that the latch holds.
LEMMA StopAnswerJoins ==
    ASSUME IInv, latched, NEW m \in Messages, m.name = "reply", m.task = "stop", m.latch = TRUE,
           StopWrites # {} \/ stopRead # "none",
           messages' = Append(messages, m), UNCHANGED <<latched, busy, current, stage>>,
           StopWrites' = {}, stopRead' = "none"
    PROVE  MessagesAreTrue' /\ StopsAreAnswered' /\ LatchIsOnItsWay' /\ messages' \in Seq(Messages)
  <1>1. /\ messages' \in Seq(Messages)
        /\ \A i \in DOMAIN messages' : \/ i \in DOMAIN messages /\ messages'[i] = messages[i]
                                       \/ i = Len(messages) + 1 /\ messages'[i] = m
    BY OneJoins
  <1>2. MessagesAreTrue'
    BY <1>1 DEF IInv, MessagesAreTrue
  <1>3. LatchIsOnItsWay'
    <2>1. Informs(m)
      BY DEF Informs
    <2> QED BY <2>1, LastDecides DEF LatchIsOnItsWay
  <1>4. StopsAreAnswered'
    <2>1. /\ stage["stop"] # "idle"
          /\ \A i \in DOMAIN messages : messages[i].task # "stop"
      BY DEF IInv, StopsAreAnswered
    <2>2. /\ \A i, j \in DOMAIN messages' : messages'[i].task = "stop" /\ messages'[j].task = "stop" => i = j
          /\ \A i \in DOMAIN messages' : messages'[i].task = "release" =>
                i \in DOMAIN messages /\ messages[i].task = "release"
      BY <1>1, <2>1
    <2>3. /\ \A i, j \in DOMAIN messages : messages[i].task = "release" /\ messages[j].task = "release" => i = j
          /\ \A i \in DOMAIN messages : messages[i].task = "release" => stage["release"] # "idle"
          /\ \A task \in {"stop", "release"} : stage[task] # "idle" => busy /\ current = task
      BY DEF IInv, StopsAreAnswered
    <2> QED BY <2>1, <2>2, <2>3 DEF StopsAreAnswered
  <1> QED BY <1>1, <1>2, <1>3, <1>4

LEMMA LatchWrittenStep ==
    ASSUME IInv, NEW caller \in {"local-stop", "room-stop", "received"}, LatchWritten(caller)
    PROVE  IInv'
  <1>1. /\ caller \in latchWrites /\ latchWrites' = latchWrites \ {caller}
        /\ UNCHANGED <<latched, pending, moving, exit, mainVars>> /\ UNCHANGED windowVars
    BY DEF LatchWritten
  <1>2. ExitsStop' /\ WindowTyped' /\ latchShown' = latchShown
    BY <1>1, WindowStays DEF mainVars, IInv, ExitsStop
  <1>3. MainTyped'
    <2>1. stopRead' \in {"none", "latched", "released"}
      BY DEF LatchWritten, IInv, TypeOK
    <2> QED BY <1>1, <2>1 DEF mainVars, IInv, TypeOK, MainTyped
  <1>4. UNCHANGED <<busy, current, stage>>
    BY <1>1 DEF windowVars
  <1>5. caller # "received" =>
           /\ StopWrites # {} /\ stage["stop"] # "idle" /\ latched /\ stopRead = "none"
           /\ StopWrites' = {}
    BY <1>1 DEF StopWrites, IInv, StopsAreAnswered
  <1>6. CASE caller = "local-stop"
    <2>1. messages' = Append(messages, Reply("stop", TRUE, latched)) /\ UNCHANGED stopRead
      BY <1>6 DEF LatchWritten
    <2>2. PICK m : m = Reply("stop", TRUE, latched)
      OBVIOUS
    <2>3. /\ m \in Messages /\ m.name = "reply" /\ m.task = "stop" /\ m.latch = TRUE
      <3>1. latched = TRUE
        BY <1>5, <1>6 DEF IInv, TypeOK
      <3>2. "stop" \in Tasks \cup {"none"}
        BY DEF Tasks
      <3> QED BY <2>2, <3>1, <3>2, NeutralMessages
    <2>4. MessagesAreTrue' /\ StopsAreAnswered' /\ LatchIsOnItsWay' /\ messages' \in Seq(Messages)
      BY <1>1, <1>4, <1>5, <1>6, <2>1, <2>2, <2>3, StopAnswerJoins
    <2> QED BY <1>2, <1>3, <2>4 DEF IInv, TypeOK, MainTyped, WindowTyped
  <1>7. CASE caller = "room-stop"
    <2>1. stopRead' = (IF latched THEN "latched" ELSE "released") /\ UNCHANGED messages
      BY <1>7 DEF LatchWritten
    <2>2. stopRead' = "latched"
      BY <1>5, <1>7, <2>1
    <2>3. LatchIsOnItsWay'
      BY <1>1, <1>5, <1>7, <2>2 DEF LatchIsOnItsWay
    <2>4. StopsAreAnswered'
      BY <1>1, <1>4, <1>5, <1>7, <2>1 DEF IInv, StopsAreAnswered
    <2>5. MessagesAreTrue' /\ messages' \in Seq(Messages)
      BY <1>2, <2>1, NoMail
    <2> QED BY <1>2, <1>3, <2>3, <2>4, <2>5 DEF IInv, TypeOK, MainTyped, WindowTyped
  <1>8. CASE caller = "received"
    <2>1. messages' = Append(messages, Event("stop-received", latched)) /\ UNCHANGED stopRead
      BY <1>8 DEF LatchWritten
    <2>2. PICK m : m = Event("stop-received", latched)
      OBVIOUS
    <2>3. m \in Messages /\ m.name = "stop-received" /\ m.task = "none" /\ m.latch = latched
      BY <2>2, NeutralMessages DEF Events, IInv, TypeOK
    <2>4. MessagesAreTrue' /\ AnswersStay /\ messages' \in Seq(Messages)
      BY <2>1, <2>2, <2>3, EventJoins
    <2>5. StopsAreAnswered'
      <3>1. StopWrites' = StopWrites
        BY <1>1, <1>8 DEF StopWrites
      <3>2. \A task \in {"stop", "release"}, i \in DOMAIN messages' : messages'[i].task = task =>
               \E j \in DOMAIN messages : messages[j].task = task
        BY <2>4 DEF AnswersStay
      <3> QED BY <1>1, <1>4, <2>1, <2>4, <3>1, <3>2 DEF IInv, StopsAreAnswered, AnswersStay
    <2>6. LatchIsOnItsWay'
      <3>1. CASE latched
        <4>1. Informs(m)
          BY <2>3, <3>1 DEF Informs
        <4> QED BY <1>1, <2>1, <2>2, <2>3, <3>1, <4>1, LastDecides DEF LatchIsOnItsWay
      <3>2. CASE ~latched
        <4>1. m = Event("stop-received", FALSE)
          BY <2>2, <3>2 DEF IInv, TypeOK
        <4>2. Mail
          <5>1. Neutral(m)
            BY <4>1, NeutralMessages
          <5> QED BY <1>2, <2>1, <2>2, <2>3, <5>1, NeutralJoins
        <4> QED BY <1>1, <3>2, <4>2 DEF Mail, IInv, LatchIsOnItsWay
      <3> QED BY <3>1, <3>2
    <2> QED BY <1>2, <1>3, <2>4, <2>5, <2>6 DEF IInv, TypeOK, MainTyped, WindowTyped
  <1> QED BY <1>6, <1>7, <1>8

LEMMA RoomStopAnsweredStep ==
    ASSUME IInv, RoomStopAnswered
    PROVE  IInv'
  <1>1. /\ stopRead # "none" /\ stopRead' = "none"
        /\ messages' = Append(messages, Reply("stop", TRUE, stopRead = "latched"))
        /\ UNCHANGED <<latched, pending, moving, exit, latchWrites, mainVars>>
        /\ UNCHANGED windowVars
    BY DEF RoomStopAnswered
  <1>2. ExitsStop' /\ WindowTyped' /\ latchShown' = latchShown /\ MainTyped'
    BY <1>1, WindowStays DEF mainVars, IInv, TypeOK, MainTyped, ExitsStop
  <1>3. latched /\ StopWrites = {} /\ StopWrites' = {}
    BY <1>1 DEF StopWrites, IInv, StopsAreAnswered
  <1>4. stopRead = "latched"
    BY <1>1 DEF IInv, TypeOK, StopsAreAnswered
  <1>5. PICK m : m = Reply("stop", TRUE, stopRead = "latched")
    OBVIOUS
  <1>6. m \in Messages /\ m.name = "reply" /\ m.task = "stop" /\ m.latch = TRUE
    <2>1. "stop" \in Tasks \cup {"none"} /\ (stopRead = "latched") = TRUE
      BY <1>4 DEF Tasks
    <2> QED BY <1>5, <2>1, NeutralMessages
  <1>7. MessagesAreTrue' /\ StopsAreAnswered' /\ LatchIsOnItsWay' /\ messages' \in Seq(Messages)
    BY <1>1, <1>3, <1>5, <1>6, StopAnswerJoins DEF windowVars
  <1> QED BY <1>2, <1>7 DEF IInv, TypeOK, MainTyped, WindowTyped

(***************************************************************************)
(* The window.                                                             *)
(***************************************************************************)
\* Where the buttons of the stop work, neither a stop nor a release is under way.
LEMMA ButtonWorks ==
    ASSUME IInv, StopButton
    PROVE  /\ stage["stop"] = "idle" /\ stage["release"] = "idle"
           /\ StopWrites = {} /\ stopRead = "none"
           /\ \A i \in DOMAIN messages : messages[i].task \notin {"stop", "release"}
  BY DEF IInv, StopsAreAnswered, StopButton

LEMMA PressStopStep ==
    ASSUME IInv, NEW name \in {"local-stop", "room-stop"}, PressStop(name)
    PROVE  IInv'
  <1>1. /\ stage["stop"] = "idle" /\ stage["release"] = "idle"
        /\ StopWrites = {} /\ stopRead = "none"
        /\ \A i \in DOMAIN messages : messages[i].task \notin {"stop", "release"}
    BY ButtonWorks DEF PressStop
  <1>2. /\ stage' = [stage EXCEPT !["stop"] = name] /\ busy' = TRUE /\ current' = "stop"
        /\ latched' = TRUE /\ pending' = FALSE /\ moving' = FALSE
        /\ latchWrites' = latchWrites \cup {name} /\ demo' = FALSE
        /\ UNCHANGED <<exit, stopRead, room, relayCall, stopped, leavers, messages>>
        /\ UNCHANGED <<loggedIn, role, hosting, viewing, demoShown, latchShown, leavingAs>>
    BY DEF PressStop, Press, TakeOver, EmergencyStop, Latch, roomShown
  <1>3. /\ stage \in [Tasks -> Answers \cup {"idle"}]
        /\ stage' \in [Tasks -> Answers \cup {"idle"}]
        /\ stage'["stop"] = name /\ stage'["release"] = stage["release"] /\ name # "idle"
    BY <1>2 DEF IInv, TypeOK, Answers, Tasks
  <1>4. MainTyped' /\ ExitsStop'
    BY <1>2 DEF IInv, TypeOK, MainTyped, ExitsStop
  <1>5. WindowTyped'
    BY <1>2, <1>3 DEF IInv, TypeOK, WindowTyped, Tasks
  <1>6. MessagesAreTrue' /\ messages' \in Seq(Messages)
    BY <1>2, NoMail
  <1>7. LatchIsOnItsWay'
    BY <1>2 DEF LatchIsOnItsWay
  <1>8. StopsAreAnswered'
    <2>1. StopWrites' = {name}
      BY <1>1, <1>2 DEF StopWrites
    <2>2. \A i \in DOMAIN messages' : messages'[i].task \notin {"stop", "release"}
      BY <1>1, <1>2
    <2> QED BY <1>1, <1>2, <1>3, <2>1, <2>2 DEF StopsAreAnswered
  <1> QED BY <1>4, <1>5, <1>6, <1>7, <1>8 DEF IInv, TypeOK, MainTyped, WindowTyped

LEMMA PressReleaseStep ==
    ASSUME IInv, PressRelease
    PROVE  IInv'
  <1>1. /\ stage["stop"] = "idle" /\ stage["release"] = "idle"
        /\ StopWrites = {} /\ stopRead = "none"
        /\ \A i \in DOMAIN messages : messages[i].task \notin {"stop", "release"}
    BY ButtonWorks DEF PressRelease
  <1>2. /\ stage' = [stage EXCEPT !["release"] = "release"] /\ busy' = TRUE
        /\ current' = "release" /\ latched' = FALSE
        /\ messages' = Append(messages, Reply("release", TRUE, FALSE))
        /\ UNCHANGED <<pending, moving, exit, latchWrites, stopRead, mainVars>>
        /\ UNCHANGED <<loggedIn, role, hosting, viewing, demoShown, latchShown, leavingAs>>
    BY DEF PressRelease, Press, TakeOver, ReleaseStop, roomShown
  <1>3. /\ stage \in [Tasks -> Answers \cup {"idle"}]
        /\ stage' \in [Tasks -> Answers \cup {"idle"}]
        /\ stage'["release"] = "release" /\ stage'["stop"] = stage["stop"]
    BY <1>2 DEF IInv, TypeOK, Answers, Tasks
  <1>4. MainTyped' /\ ExitsStop'
    BY <1>2 DEF mainVars, IInv, TypeOK, MainTyped, ExitsStop
  <1>5. WindowTyped'
    BY <1>2, <1>3 DEF IInv, TypeOK, WindowTyped, Tasks
  <1>6. PICK m : m = Reply("release", TRUE, FALSE)
    OBVIOUS
  <1>7. /\ m \in Messages /\ m.name = "reply" /\ m.task = "release" /\ m.latch = FALSE
    <2>1. "release" \in Tasks \cup {"none"}
      BY DEF Tasks
    <2> QED BY <1>6, <2>1, NeutralMessages
  <1>8. /\ messages' \in Seq(Messages)
        /\ \A i \in DOMAIN messages' : \/ i \in DOMAIN messages /\ messages'[i] = messages[i]
                                       \/ i = Len(messages) + 1 /\ messages'[i] = m
    BY <1>2, <1>6, <1>7, OneJoins
  <1>9. MessagesAreTrue'
    BY <1>7, <1>8 DEF IInv, MessagesAreTrue
  <1>10. LatchIsOnItsWay'
    <2>1. Clears(m)
      BY <1>7 DEF Clears
    <2> QED BY <1>2, <1>6, <1>7, <2>1, LastDecides DEF LatchIsOnItsWay
  <1>11. StopsAreAnswered'
    <2>1. StopWrites' = {}
      BY <1>1, <1>2 DEF StopWrites
    <2>2. \A i \in DOMAIN messages' :
             /\ messages'[i].task # "stop"
             /\ messages'[i].task = "release" => i = Len(messages) + 1
      BY <1>1, <1>7, <1>8
    <2> QED BY <1>1, <1>2, <1>3, <2>1, <2>2 DEF StopsAreAnswered
  <1> QED BY <1>4, <1>5, <1>8, <1>9, <1>10, <1>11 DEF IInv, TypeOK, MainTyped, WindowTyped

\* An action other than a stop or a release takes or keeps the buttons.
LEMMA StageMoves ==
    ASSUME IInv, NEW task \in Tasks \ {"stop", "release"}, NEW name \in Answers \cup {"idle"},
           stage' = [stage EXCEPT ![task] = name],
           UNCHANGED <<latched, latchWrites, stopRead>>,
           \/ UNCHANGED <<busy, current>>
           \/ ~busy
           \/ busy' = (busy /\ current # task) /\ current' = (IF current = task THEN "none" ELSE current)
    PROVE  LatchIsLeft /\ stage' \in [Tasks -> Answers \cup {"idle"}]
  <1>1. stage \in [Tasks -> Answers \cup {"idle"}]
    BY DEF IInv, TypeOK
  <1>2. stage' \in [Tasks -> Answers \cup {"idle"}]
        /\ stage'["stop"] = stage["stop"] /\ stage'["release"] = stage["release"]
    BY <1>1
  <1>3. \A t \in {"stop", "release"} : busy /\ current = t => busy' /\ current' = t
    <2>1. CASE UNCHANGED <<busy, current>>
      BY <2>1
    <2>2. CASE ~busy
      BY <2>2
    <2>3. CASE busy' = (busy /\ current # task)
                 /\ current' = (IF current = task THEN "none" ELSE current)
      BY <2>3
    <2> QED BY <2>1, <2>2, <2>3
  <1> QED BY <1>2, <1>3 DEF LatchIsLeft

LEMMA PressRelayCallStep ==
    ASSUME IInv, NEW kind \in {"create", "join"}, PressRelayCall(kind)
    PROVE  IInv'
  <1>1. /\ BeginRelayCall(kind, messages) /\ ~busy /\ busy' = TRUE /\ current' = kind
        /\ stage' = [stage EXCEPT ![kind] = kind]
        /\ UNCHANGED <<loggedIn, role, hosting, viewing, demoShown, latchShown, leavingAs>>
    BY DEF PressRelayCall, RunAction, Press, TakeOver, roomShown
  <1>2. HandlerKeeps /\ messages' = messages \o Superseded
    BY <1>1, RelayCallKeeps
  <1>3. kind \in Tasks \ {"stop", "release"} /\ kind \in Answers
    BY DEF Tasks, Answers
  <1>4. LatchIsLeft /\ stage' \in [Tasks -> Answers \cup {"idle"}]
    BY <1>1, <1>2, <1>3, StageMoves DEF HandlerKeeps
  <1>5. WindowTyped'
    BY <1>1, <1>3, <1>4 DEF IInv, TypeOK, WindowTyped
  <1>6. Mail
    BY <1>1, <1>2, SupersededIsNeutral, NeutralsJoin
  <1> QED BY <1>2, <1>4, <1>5, <1>6, Whole DEF HandlerKeeps

\* the requests of an action that leaves, demonstrates or logs out
LEMMA RequestMail ==
    ASSUME IInv, NEW task \in {"leave", "logout", "demo"}, latchShown' = latchShown,
           \/ DemoStop(task, messages) \/ DemoStart(messages) \/ ListViewers(messages)
           \/ task # "demo" /\ DisconnectRoom(task, messages)
    PROVE  HandlerKeeps /\ Mail
  <1>1. /\ task \in (Tasks \cup {"none"}) \ {"stop", "release"}
        /\ {"demo", "create"} \subseteq (Tasks \cup {"none"}) \ {"stop", "release"}
    BY DEF Tasks
  <1>2. ASSUME NEW t \in {task, "demo", "create"}, NEW ok \in BOOLEAN,
               messages' = Append(messages, Reply(t, ok, FALSE))
        PROVE  Mail
    <2>1. t \in (Tasks \cup {"none"}) \ {"stop", "release"} /\ t \in Tasks \cup {"none"}
      BY <1>1
    <2>2. Reply(t, ok, FALSE) \in Messages /\ Neutral(Reply(t, ok, FALSE))
      BY <2>1, NeutralMessages
    <2> QED BY <1>2, <2>2, NeutralJoins
  <1>3. CASE DemoStop(task, messages)
    BY <1>2, <1>3, DemoStopKeeps DEF DemoStop
  <1>4. CASE DemoStart(messages)
    BY <1>2, <1>4, DemoStartKeeps DEF DemoStart
  <1>5. CASE ListViewers(messages)
    BY <1>2, <1>5, ListViewersKeeps DEF ListViewers
  <1>6. CASE task # "demo" /\ DisconnectRoom(task, messages)
    BY <1>6, DisconnectKeeps, SupersededIsNeutral, NeutralsJoin
  <1> QED BY <1>3, <1>4, <1>5, <1>6

LEMMA PressLeaveOrDemoStep ==
    ASSUME IInv, PressLeave \/ PressDemo
    PROVE  IInv'
  <1>1. PICK task \in {"leave", "demo"} :
            /\ ~busy /\ busy' = TRUE /\ current' = task
            /\ \E name \in {"demo-start", "demo-stop", "disconnect"} :
                  stage' = [stage EXCEPT ![task] = name]
            /\ \/ DemoStop(task, messages) \/ DemoStart(messages)
               \/ task # "demo" /\ DisconnectRoom(task, messages)
            /\ leavingAs' \in {role, leavingAs}
            /\ UNCHANGED <<loggedIn, role, hosting, viewing, demoShown, latchShown>>
    <2>1. CASE PressLeave
      BY <2>1 DEF PressLeave, RunAction, Press, TakeOver, BeginLeaving, roomShown
    <2>2. CASE PressDemo
      BY <2>2 DEF PressDemo, RunAction, Press, TakeOver, roomShown
    <2> QED BY <2>1, <2>2
  <1>2. HandlerKeeps /\ Mail
    BY <1>1, RequestMail
  <1>3. task \in Tasks \ {"stop", "release"} /\ {"demo-start", "demo-stop", "disconnect"} \subseteq Answers
    BY DEF Tasks, Answers
  <1>4. LatchIsLeft /\ stage' \in [Tasks -> Answers \cup {"idle"}]
    BY <1>1, <1>2, <1>3, StageMoves DEF HandlerKeeps
  <1>5. WindowTyped'
    BY <1>1, <1>3, <1>4 DEF IInv, TypeOK, WindowTyped
  <1> QED BY <1>2, <1>4, <1>5, Whole DEF HandlerKeeps

LEMMA LogoutStep ==
    ASSUME IInv, Logout
    PROVE  IInv'
  <1>1. /\ UNCHANGED <<role, latchShown, busy, current, leavingAs>>
        /\ loggedIn' = FALSE /\ hosting' = FALSE /\ viewing' = FALSE /\ demoShown' = FALSE
    BY DEF Logout
  <1>2. CASE ActiveRoom
    <2>1. /\ DemoStop("logout", messages) \/ DisconnectRoom("logout", messages)
          /\ \E name \in {"demo-stop", "disconnect"} :
                stage' = [stage EXCEPT !["logout"] = name]
      BY <1>2 DEF Logout, Press, BeginLeaving
    <2>2. HandlerKeeps /\ Mail
      BY <1>1, <2>1, RequestMail
    <2>3. "logout" \in Tasks \ {"stop", "release"} /\ {"demo-stop", "disconnect"} \subseteq Answers
      BY DEF Tasks, Answers
    <2>4. LatchIsLeft /\ stage' \in [Tasks -> Answers \cup {"idle"}]
      BY <1>1, <2>1, <2>2, <2>3, StageMoves DEF HandlerKeeps
    <2>5. WindowTyped'
      BY <1>1, <2>4 DEF IInv, TypeOK, WindowTyped
    <2> QED BY <2>2, <2>4, <2>5, Whole DEF HandlerKeeps
  <1>3. CASE ~ActiveRoom
    <2>1. UNCHANGED <<stage, hardwareVars, mainVars, messages>>
      BY <1>3 DEF Logout
    <2>2. MainTyped' /\ ExitsStop' /\ UNCHANGED <<latched, latchWrites, stopRead>>
      BY <2>1, MainStays
    <2>3. Mail
      BY <1>1, <2>1, NoMail DEF Mail
    <2>4. LatchIsLeft
      BY <1>1, <2>1, <2>2 DEF LatchIsLeft
    <2>5. WindowTyped'
      BY <1>1, <2>1 DEF IInv, TypeOK, WindowTyped
    <2> QED BY <2>2, <2>3, <2>4, <2>5, Whole
  <1> QED BY <1>2, <1>3

LEMMA LoginStep ==
    ASSUME IInv, Login
    PROVE  IInv'
  <1>1. /\ loggedIn' = TRUE /\ UNCHANGED <<hardwareVars, mainVars, messages, role, hosting, viewing,
             demoShown, latchShown, busy, current, stage, leavingAs>>
    BY DEF Login, roomShown
  <1>2. MainTyped' /\ ExitsStop' /\ UNCHANGED <<latched, latchWrites, stopRead>>
    BY <1>1, MainStays
  <1>3. Mail
    BY <1>1, NoMail DEF Mail
  <1>4. LatchIsLeft /\ WindowTyped'
    BY <1>1, <1>2 DEF LatchIsLeft, IInv, TypeOK, WindowTyped
  <1> QED BY <1>2, <1>3, <1>4, Whole

(***************************************************************************)
(* What the window hears.                                                  *)
(***************************************************************************)
\* A reply to an action other than a stop or a release is no news of the latch.
LEMMA ReplyIsNeutral ==
    ASSUME NEW m, m.name = "reply", m.task \notin {"stop", "release"}
    PROVE  Neutral(m)
  BY DEF Neutral, Informs, Clears

LEMMA ActionGoesOnStep ==
    ASSUME IInv, NEW task \in Tasks, ActionGoesOn(task)
    PROVE  IInv'
  <1>1. /\ messages # <<>> /\ Head(messages).name = "reply" /\ Head(messages).task = task
        /\ task \in {"create", "leave", "logout"}
        /\ UNCHANGED <<loggedIn, role, hosting, viewing, demoShown, latchShown, busy, current,
                       leavingAs>>
    BY DEF ActionGoesOn, Heard, Message, GoesOn, roomShown
  <1>2. \E name \in {"list-viewers", "disconnect"} : stage' = [stage EXCEPT ![task] = name]
    BY DEF ActionGoesOn
  <1>3. Neutral(Head(messages))
    BY <1>1, ReplyIsNeutral
  <1>4. HandlerKeeps /\ Mail
    <2>1. CASE task = "create"
      <3>1. PICK ok \in BOOLEAN : messages' = Append(Tail(messages), Reply("create", ok, FALSE))
        BY <2>1 DEF ActionGoesOn, ListViewers, Unread
      <3>2. HandlerKeeps
        BY <2>1, ListViewersKeeps DEF ActionGoesOn
      <3>3. PICK m : m = Reply("create", ok, FALSE)
        OBVIOUS
      <3>4. m \in Messages /\ Neutral(m)
        <4>1. "create" \in (Tasks \cup {"none"}) \ {"stop", "release"} /\ "create" \in Tasks \cup {"none"}
          BY DEF Tasks
        <4> QED BY <3>3, <4>1, NeutralMessages
      <3>5. messages' = Tail(messages) \o <<m>> /\ <<m>> \in Seq(Messages)
        <4> DEFINE M == Messages
        <4> HIDE DEF M
        <4>1. messages \in Seq(M) /\ m \in M
          BY <3>4 DEF M, IInv, TypeOK
        <4>2. Tail(messages) \in Seq(M)
          BY <1>1, <4>1
        <4>3. messages' = Append(Tail(messages), m)
          BY <3>1, <3>3
        <4> QED BY <4>1, <4>2, <4>3 DEF M
      <3>6. \A j \in DOMAIN <<m>> : Neutral(<<m>>[j])
        BY <3>4
      <3> QED BY <1>1, <1>3, <3>2, <3>5, <3>6, NeutralFollows
    <2>2. CASE task \in {"leave", "logout"}
      <3>1. DisconnectRoom(task, Tail(messages))
        BY <2>2 DEF ActionGoesOn, Unread
      <3>2. HandlerKeeps /\ messages' = Tail(messages) \o Superseded
        BY <2>2, <3>1, DisconnectKeeps
      <3> QED BY <1>1, <1>3, <3>2, SupersededIsNeutral, NeutralFollows
    <2> QED BY <1>1, <2>1, <2>2
  <1>5. task \in Tasks \ {"stop", "release"} /\ {"list-viewers", "disconnect"} \subseteq Answers
    BY <1>1 DEF Answers
  <1>6. LatchIsLeft /\ stage' \in [Tasks -> Answers \cup {"idle"}]
    BY <1>1, <1>2, <1>4, <1>5, StageMoves DEF HandlerKeeps
  <1>7. WindowTyped'
    BY <1>1, <1>6 DEF IInv, TypeOK, WindowTyped
  <1> QED BY <1>4, <1>6, <1>7, Whole DEF HandlerKeeps

\* The answer to a stop or a release is read: nothing before it counts any more.
LEMMA StopEnds ==
    ASSUME IInv, NEW task \in {"stop", "release"}, ActionEnds(task)
    PROVE  MessagesAreTrue' /\ StopsAreAnswered' /\ LatchIsOnItsWay' /\ messages' \in Seq(Messages)
  <1>1. /\ messages # <<>> /\ messages' = Tail(messages) /\ Head(messages).task = task
        /\ latchShown' = Head(messages).latch
        /\ UNCHANGED <<latched, latchWrites, stopRead>>
        /\ stage' = [stage EXCEPT ![task] = "idle"]
        /\ busy' = (busy /\ current # task)
        /\ current' = (IF current = task THEN "none" ELSE current)
    BY DEF ActionEnds, Heard, Message, Unread, Shows, hardwareVars
  <1>2. /\ messages' \in Seq(Messages) /\ Head(messages) = messages[1] /\ 1 \in DOMAIN messages
        /\ \A i \in DOMAIN messages' : i + 1 \in DOMAIN messages /\ messages'[i] = messages[i + 1]
        /\ \A i \in DOMAIN messages : i > 1 => i - 1 \in DOMAIN messages'
        /\ \A i \in DOMAIN messages' : i \in Nat \ {0}
        /\ \A i \in DOMAIN messages : i \in Nat \ {0}
    BY <1>1, OneIsRead
  <1>3. /\ stage \in [Tasks -> Answers \cup {"idle"}] /\ {"stop", "release"} \subseteq Tasks
        /\ latched \in BOOLEAN
    BY DEF IInv, TypeOK, Tasks
  <1>4. stage[task] # "idle" /\ busy /\ current = task
    BY <1>1, <1>2 DEF IInv, StopsAreAnswered
  <1>5. \A t \in {"stop", "release"}, i \in DOMAIN messages : messages[i].task = t => t = task /\ i = 1
    BY <1>1, <1>2, <1>4 DEF IInv, StopsAreAnswered
  <1>6. \A i \in DOMAIN messages' : messages'[i].task \notin {"stop", "release"}
    <2>1. \A i \in DOMAIN messages' : i + 1 # 1
      BY <1>2
    <2> QED BY <1>2, <1>5, <2>1
  <1>7. MessagesAreTrue'
    BY <1>2 DEF IInv, MessagesAreTrue
  <1>8. stage'[task] = "idle" /\ \A t \in {"stop", "release"} : stage'[t] = "idle"
    <2>1. \A t \in {"stop", "release"} \ {task} : stage[t] = "idle"
      BY <1>4 DEF IInv, StopsAreAnswered
    <2> QED BY <1>1, <1>3, <2>1
  <1>9. StopWrites = {} /\ stopRead = "none"
    <2>1. task = "stop" \/ stage["stop"] = "idle"
      BY <1>4 DEF IInv, StopsAreAnswered
    <2> QED BY <1>1, <1>2, <2>1 DEF IInv, StopsAreAnswered
  <1>10. StopsAreAnswered'
    <2>1. StopWrites' = {}
      BY <1>1, <1>9 DEF StopWrites
    <2> QED BY <1>1, <1>6, <1>8, <1>9, <2>1 DEF StopsAreAnswered
  <1>11. \A i \in DOMAIN messages' : ~Clears(messages'[i])
    BY <1>6 DEF Clears
  <1>12. CASE task = "stop"
    <2>1. latched /\ latchShown'
      BY <1>1, <1>2, <1>4, <1>12 DEF IInv, StopsAreAnswered, MessagesAreTrue
    <2> QED BY <1>1, <1>2, <1>7, <1>10, <1>11, <2>1 DEF LatchIsOnItsWay, LeadsToLatch
  <1>13. CASE task = "release"
    <2>1. ~latchShown' /\ Clears(messages[1]) /\ ~Informs(messages[1])
      BY <1>1, <1>2, <1>13 DEF IInv, MessagesAreTrue, Clears, Informs
    <2>2. CASE latched
      <3>1. CASE latchWrites # {}
        BY <1>1, <1>2, <1>7, <1>10, <2>2, <3>1 DEF LatchIsOnItsWay
      <3>2. CASE latchWrites = {}
        <4>1. LeadsToLatch
          BY <1>9, <2>2, <3>2 DEF IInv, LatchIsOnItsWay
        <4>2. PICK i \in DOMAIN messages : Informs(messages[i])
          BY <1>2, <2>1, <4>1 DEF LeadsToLatch
        <4>3. i > 1
          BY <1>2, <2>1, <4>2
        <4>4. i - 1 \in DOMAIN messages' /\ (i - 1) + 1 = i
          BY <1>2, <4>3
        <4>5. messages'[i - 1] = messages[i]
          BY <1>2, <4>4
        <4>6. LeadsToLatch'
          BY <1>11, <4>2, <4>4, <4>5 DEF LeadsToLatch
        <4> QED BY <1>1, <1>2, <1>7, <1>10, <2>2, <4>6 DEF LatchIsOnItsWay
      <3> QED BY <3>1, <3>2
    <2>3. CASE ~latched
      <3>1. \A i \in DOMAIN messages : i > 1 => ~Informs(messages[i])
        <4>1. LeadsToRelease
          BY <2>3 DEF IInv, LatchIsOnItsWay
        <4>2. \A i \in DOMAIN messages : Clears(messages[i]) => i = 1
          BY <1>5 DEF Clears
        <4> QED BY <4>1, <4>2 DEF LeadsToRelease
      <3>2. \A i \in DOMAIN messages' : i + 1 > 1
        BY <1>2
      <3>3. \A i \in DOMAIN messages' : ~Informs(messages'[i])
        BY <1>2, <3>1, <3>2
      <3>4. LeadsToRelease'
        BY <2>1, <3>3 DEF LeadsToRelease
      <3> QED BY <1>1, <1>2, <1>7, <1>10, <2>3, <3>4 DEF LatchIsOnItsWay
    <2> QED BY <2>2, <2>3
  <1> QED BY <1>12, <1>13

LEMMA ActionEndsStep ==
    ASSUME IInv, NEW task \in Tasks, ActionEnds(task)
    PROVE  IInv'
  <1>1. /\ messages # <<>> /\ messages' = Tail(messages) /\ Head(messages).task = task
        /\ Head(messages).name = "reply"
        /\ UNCHANGED <<hardwareVars, mainVars>> /\ loggedIn' = loggedIn
        /\ stage' = [stage EXCEPT ![task] = "idle"]
        /\ busy' = (busy /\ current # task)
        /\ current' = (IF current = task THEN "none" ELSE current)
        /\ leavingAs' \in {"host", leavingAs} /\ role' \in {"host", "viewer", role}
    BY DEF ActionEnds, Heard, Message, Unread, Shows
  <1>2. {hosting', viewing', demoShown'} \subseteq BOOLEAN
    BY DEF ActionEnds, Shows, IInv, TypeOK
  <1>3. MainTyped' /\ ExitsStop' /\ UNCHANGED <<latched, latchWrites, stopRead>>
    BY <1>1, MainStays
  <1>4. latchShown' \in BOOLEAN
    <2>1. Head(messages) \in Messages
      BY <1>1, OneIsRead
    <2>2. CASE task \in {"stop", "release"}
      <3>1. latchShown' = Head(messages).latch
        BY <2>2 DEF ActionEnds, Shows, Message
      <3> QED BY <2>1, <3>1 DEF Messages
    <2>3. CASE task \notin {"stop", "release"}
      BY <2>3 DEF ActionEnds, Shows, IInv, TypeOK
    <2> QED BY <2>2, <2>3
  <1>5. stage' \in [Tasks -> Answers \cup {"idle"}] /\ busy' \in BOOLEAN
        /\ current' \in Tasks \cup {"none"}
    BY <1>1 DEF IInv, TypeOK
  <1>6. WindowTyped'
    BY <1>1, <1>2, <1>4, <1>5 DEF IInv, TypeOK, WindowTyped
  <1>7. CASE task \in {"stop", "release"}
    BY <1>3, <1>6, <1>7, StopEnds DEF IInv, TypeOK, MainTyped, WindowTyped
  <1>8. CASE task \notin {"stop", "release"}
    <2>1. latchShown' = latchShown
      BY <1>8 DEF ActionEnds, Shows
    <2>2. Mail
      BY <1>1, <1>8, <2>1, ReplyIsNeutral, NeutralIsRead
    <2>3. LatchIsLeft
      BY <1>1, <1>3, <1>8, StageMoves
    <2> QED BY <1>3, <1>6, <2>2, <2>3, Whole
  <1> QED BY <1>7, <1>8

LEMMA ReplyIgnoredStep ==
    ASSUME IInv, ReplyIgnored
    PROVE  IInv'
  <1>1. /\ messages # <<>> /\ messages' = Tail(messages) /\ Head(messages).task = "none"
        /\ Head(messages).name = "reply" /\ UNCHANGED <<hardwareVars, mainVars>>
        /\ UNCHANGED windowVars
    BY DEF ReplyIgnored, Heard, Message, Unread
  <1>2. MainTyped' /\ ExitsStop' /\ UNCHANGED <<latched, latchWrites, stopRead>>
    BY <1>1, MainStays
  <1>3. Mail
    BY <1>1, ReplyIsNeutral, NeutralIsRead, WindowStays
  <1> QED BY <1>1, <1>2, <1>3, WindowStays, Whole

\* An event other than a stop or a loss is no news of the latch.
LEMMA EventIsNeutral ==
    ASSUME IInv, messages # <<>>, Head(messages).name \in {"approved", "rejected", "removed"}
    PROVE  Neutral(Head(messages))
  <1>1. Head(messages) = messages[1] /\ 1 \in DOMAIN messages
    BY DEF IInv, TypeOK
  <1>2. Head(messages).task = "none"
    BY <1>1 DEF IInv, MessagesAreTrue
  <1> QED BY <1>2 DEF Neutral, Informs, Clears

LEMMA HearViewerSteps ==
    ASSUME IInv,
           HearRemoved \/ HearViewerAnswer("approved") \/ HearViewerAnswer("rejected")
    PROVE  IInv'
  <1>1. /\ messages # <<>> /\ Head(messages).name \in {"approved", "rejected", "removed"}
        /\ UNCHANGED <<loggedIn, role, latchShown, busy, current, stage, leavingAs>>
    BY DEF HearRemoved, HearViewerAnswer, Heard, Message
  <1>2. {hosting', viewing', demoShown'} \subseteq BOOLEAN
    BY DEF HearRemoved, HearViewerAnswer, IInv, TypeOK
  <1>3. WindowTyped'
    BY <1>1, <1>2 DEF IInv, TypeOK, WindowTyped
  <1>4. Neutral(Head(messages))
    BY <1>1, EventIsNeutral
  <1>5. HandlerKeeps /\ Mail
    <2>1. CASE HearRemoved
      <3>1. DemoStop("none", Tail(messages))
        BY <2>1 DEF HearRemoved, Unread
      <3>2. PICK m : m = Reply("none", TRUE, FALSE)
        OBVIOUS
      <3>3. m \in Messages /\ Neutral(m)
        <4>1. "none" \in (Tasks \cup {"none"}) \ {"stop", "release"} /\ "none" \in Tasks \cup {"none"}
          BY DEF Tasks
        <4> QED BY <3>2, <4>1, NeutralMessages
      <3>4. messages' = Tail(messages) \o <<m>> /\ <<m>> \in Seq(Messages)
        <4> DEFINE M == Messages
        <4> HIDE DEF M
        <4>1. messages \in Seq(M) /\ m \in M
          BY <3>3 DEF M, IInv, TypeOK
        <4>2. Tail(messages) \in Seq(M)
          BY <1>1, <4>1
        <4>3. messages' = Append(Tail(messages), m)
          BY <3>1, <3>2 DEF DemoStop
        <4> QED BY <4>1, <4>2, <4>3 DEF M
      <3>5. \A j \in DOMAIN <<m>> : Neutral(<<m>>[j])
        BY <3>3
      <3> QED BY <1>1, <1>4, <3>1, <3>4, <3>5, DemoStopKeeps, NeutralFollows
    <2>2. CASE HearViewerAnswer("approved") \/ HearViewerAnswer("rejected")
      <3>1. UNCHANGED <<hardwareVars, mainVars>> /\ messages' = Tail(messages)
        BY <2>2 DEF HearViewerAnswer, Unread
      <3> QED BY <1>1, <1>4, <3>1, MainStays, NeutralIsRead DEF HandlerKeeps
    <2> QED BY <2>1, <2>2
  <1>6. LatchIsLeft
    BY <1>1, <1>5 DEF LatchIsLeft, HandlerKeeps
  <1> QED BY <1>3, <1>5, <1>6, Whole DEF HandlerKeeps

LEMMA HearLatchStep ==
    ASSUME IInv, HearLatch
    PROVE  IInv'
  <1>1. /\ messages # <<>> /\ messages' = Tail(messages)
        /\ Head(messages).name \in {"stop-received", "lost"}
        /\ UNCHANGED <<hardwareVars, mainVars>>
        /\ UNCHANGED <<loggedIn, role, hosting, viewing, demoShown, busy, current, stage, leavingAs>>
        /\ latchShown' = (latchShown \/ Head(messages).latch)
    BY DEF HearLatch, Heard, Message, Unread, roomShown
  <1>2. MainTyped' /\ ExitsStop' /\ UNCHANGED <<latched, latchWrites, stopRead>>
    BY <1>1, MainStays
  <1>3. WindowTyped'
    BY <1>1 DEF IInv, TypeOK, WindowTyped
  <1>4. /\ messages' \in Seq(Messages) /\ Head(messages) = messages[1] /\ 1 \in DOMAIN messages
        /\ Head(messages) \in Messages
        /\ \A i \in DOMAIN messages' : i + 1 \in DOMAIN messages /\ messages'[i] = messages[i + 1]
        /\ \A i \in DOMAIN messages : i > 1 => i - 1 \in DOMAIN messages'
        /\ \A i \in DOMAIN messages' : i \in Nat \ {0}
        /\ \A i \in DOMAIN messages : i \in Nat \ {0}
    BY <1>1, OneIsRead
  <1>5. messages[1].task = "none"
    BY <1>1, <1>4 DEF IInv, MessagesAreTrue
  <1>6. CASE ~Head(messages).latch
    <2>1. Neutral(Head(messages)) /\ latchShown' = latchShown
      BY <1>1, <1>4, <1>5, <1>6 DEF Neutral, Informs, Clears, IInv, TypeOK
    <2>2. Mail
      BY <1>1, <2>1, NeutralIsRead
    <2>3. LatchIsLeft
      BY <1>1, <1>2 DEF LatchIsLeft
    <2> QED BY <1>2, <1>3, <2>2, <2>3, Whole
  <1>7. CASE Head(messages).latch
    <2>1. latchShown' /\ Informs(messages[1]) /\ ~Clears(messages[1])
      BY <1>1, <1>4, <1>5, <1>7 DEF Informs, Clears
    <2>2. MessagesAreTrue'
      BY <1>4 DEF IInv, MessagesAreTrue
    <2>3. \A i \in DOMAIN messages : i # 1 =>
             i > 1 /\ i - 1 \in DOMAIN messages' /\ messages'[i - 1] = messages[i]
      <3> SUFFICES ASSUME NEW i \in DOMAIN messages, i # 1
                   PROVE  i > 1 /\ i - 1 \in DOMAIN messages' /\ messages'[i - 1] = messages[i]
        OBVIOUS
      <3>1. i > 1
        BY <1>4
      <3>2. i - 1 \in DOMAIN messages' /\ (i - 1) + 1 = i
        BY <1>4, <3>1
      <3> QED BY <1>4, <3>1, <3>2
    <2>4. LeadsToLatch => LeadsToLatch'
      <3>1. CASE \A i \in DOMAIN messages : ~Clears(messages[i])
        BY <1>4, <2>1, <3>1 DEF LeadsToLatch
      <3>2. ASSUME NEW i \in DOMAIN messages, Informs(messages[i]),
                   \A j \in DOMAIN messages : j > i => ~Clears(messages[j])
            PROVE  LeadsToLatch'
        <4>1. CASE i = 1
          <5>1. \A j \in DOMAIN messages' : j + 1 > 1
            BY <1>4
          <5>2. \A j \in DOMAIN messages' : ~Clears(messages'[j])
            BY <1>4, <3>2, <4>1, <5>1
          <5> QED BY <2>1, <5>2 DEF LeadsToLatch
        <4>2. CASE i # 1
          <5>1. i - 1 \in DOMAIN messages' /\ messages'[i - 1] = messages[i] /\ i \in Nat
            BY <1>4, <2>3, <4>2
          <5>2. \A j \in DOMAIN messages' : j > i - 1 => j + 1 > i
            BY <1>4, <5>1
          <5>3. \A j \in DOMAIN messages' : j > i - 1 => ~Clears(messages'[j])
            BY <1>4, <3>2, <5>2
          <5> QED BY <3>2, <5>1, <5>3 DEF LeadsToLatch
        <4> QED BY <4>1, <4>2
      <3> QED BY <3>1, <3>2 DEF LeadsToLatch
    <2>5. LeadsToRelease => LeadsToRelease'
      <3>1. LeadsToRelease =>
               \E i \in DOMAIN messages :
                  /\ Clears(messages[i])
                  /\ \A j \in DOMAIN messages : j > i => ~Informs(messages[j])
        BY <1>4, <2>1 DEF LeadsToRelease
      <3>2. ASSUME NEW i \in DOMAIN messages, Clears(messages[i]),
                   \A j \in DOMAIN messages : j > i => ~Informs(messages[j])
            PROVE  LeadsToRelease'
        <4>1. i # 1
          BY <2>1, <3>2
        <4>2. i - 1 \in DOMAIN messages' /\ messages'[i - 1] = messages[i] /\ i \in Nat
          BY <1>4, <2>3, <4>1
        <4>3. \A j \in DOMAIN messages' : j > i - 1 => j + 1 > i
          BY <1>4, <4>2
        <4>4. \A j \in DOMAIN messages' : j > i - 1 => ~Informs(messages'[j])
          BY <1>4, <3>2, <4>3
        <4> QED BY <3>2, <4>2, <4>4 DEF LeadsToRelease
      <3> QED BY <3>1, <3>2
    <2>6. LatchIsOnItsWay'
      BY <1>2, <2>4, <2>5 DEF IInv, LatchIsOnItsWay
    <2>7. StopsAreAnswered'
      <3>1. StopWrites' = StopWrites
        BY <1>2 DEF StopWrites
      <3>2. \A i, j \in DOMAIN messages' : i + 1 = j + 1 => i = j
        BY <1>4
      <3>3. \A task \in {"stop", "release"} :
              /\ \A i, j \in DOMAIN messages' :
                    messages'[i].task = task /\ messages'[j].task = task => i = j
              /\ \A i \in DOMAIN messages' : messages'[i].task = task =>
                    \E j \in DOMAIN messages : messages[j].task = task
        BY <1>4, <3>2 DEF IInv, StopsAreAnswered
      <3>4. UNCHANGED <<stage, busy, current, latched, stopRead>>
        BY <1>1, <1>2
      <3> QED BY <3>1, <3>3, <3>4 DEF IInv, StopsAreAnswered
    <2> QED BY <1>2, <1>3, <1>4, <2>2, <2>6, <2>7 DEF IInv, TypeOK, MainTyped, WindowTyped
  <1> QED BY <1>6, <1>7

(***************************************************************************)
(* The invariant and what follows from it.                                 *)
(***************************************************************************)
LEMMA InitIInv == Init => IInv
  <1> SUFFICES ASSUME Init PROVE IInv
    OBVIOUS
  <1> USE DEF Init
  <1>1. MainTyped
    <2>1. {latched, pending, moving, demo, stopped} \subseteq BOOLEAN
      OBVIOUS
    <2> QED BY <2>1 DEF MainTyped
  <1>2. messages \in Seq(Messages)
    OBVIOUS
  <1>3. WindowTyped
    BY DEF WindowTyped
  <1>4. MessagesAreTrue /\ ExitsStop /\ LatchIsOnItsWay
    BY DEF MessagesAreTrue, ExitsStop, LatchIsOnItsWay, LeadsToRelease
  <1>5. StopsAreAnswered
    BY DEF StopsAreAnswered, StopWrites, Tasks
  <1> QED BY <1>1, <1>2, <1>3, <1>4, <1>5 DEF IInv, TypeOK, MainTyped, WindowTyped

LEMMA NextIInv ==
    ASSUME IInv, [Next]_vars
    PROVE  IInv'
  <1>1. CASE Outcomes
    BY <1>1, RelayCallAnsweredStep, LatchWrittenStep, RoomStopAnsweredStep, MotionSteps,
       ExitOverStep DEF Outcomes, RelayAnswers, StopAnswers, ExitGoesOn
  <1>2. CASE World
    BY <1>2, MotionSteps, ViewerSteps, StopReceivedStep, DeviceLostStep DEF World
  <1>3. CASE User
    BY <1>3, PressRelayCallStep, PressLeaveOrDemoStep, PressStopStep, PressReleaseStep,
       LogoutStep, LoginStep DEF User
  <1>4. CASE Hears
    BY <1>4, ActionGoesOnStep, ActionEndsStep, ReplyIgnoredStep, HearViewerSteps, HearLatchStep
       DEF Hears
  <1>5. CASE UNCHANGED vars
    <2>1. UNCHANGED <<hardwareVars, mainVars, messages>> /\ UNCHANGED windowVars
      BY <1>5 DEF vars
    <2>2. MainTyped' /\ ExitsStop' /\ UNCHANGED <<latched, latchWrites, stopRead>>
      BY <2>1, MainStays
    <2>3. Mail
      BY <2>1, NoMail, WindowStays DEF Mail
    <2> QED BY <2>1, <2>2, <2>3, WindowStays, Whole
  <1> QED BY <1>1, <1>2, <1>3, <1>4, <1>5 DEF Next

\* Whatever the user, the relay, the device and the two processes do, in whatever
\* order replies and events come: the invariant holds.
THEOREM DesktopInductive == Spec => []IInv
  <1>1. IInv /\ [Next]_vars => IInv'
    BY NextIInv
  <1> QED BY InitIInv, <1>1, PTL DEF Spec

\* Every variable keeps its type.
THEOREM TypeCorrect == Spec => []TypeOK
  <1>1. IInv => TypeOK
    BY DEF IInv
  <1> QED BY DesktopInductive, <1>1, PTL

\* Once everything in flight has arrived, the window shows the latch as it is.
THEOREM LatchIsShown == Spec => []LatchShown
  <1>1. IInv => LatchShown
    <2> SUFFICES ASSUME IInv, Settled
                 PROVE  latchShown = latched
      BY DEF LatchShown
    <2>1. messages = <<>> /\ latchWrites = {} /\ stage["stop"] = "idle"
      BY DEF Settled, Tasks
    <2>2. stopRead = "none"
      BY <2>1 DEF IInv, StopsAreAnswered
    <2>3. latched => latchShown
      BY <2>1, <2>2 DEF IInv, LatchIsOnItsWay, LeadsToLatch
    <2>4. ~latched => ~latchShown
      BY <2>1 DEF IInv, LatchIsOnItsWay, LeadsToRelease
    <2> QED BY <2>3, <2>4 DEF IInv, TypeOK
  <1> QED BY DesktopInductive, <1>1, PTL

\* After a room was left, or its viewer was removed, the device has been told to
\* stop, and no frame comes after that.
THEOREM LeavingIsStopped == Spec => []LeavingStops
  <1>1. IInv => LeavingStops
    BY DEF IInv, ExitsStop, LeavingStops, Settled
  <1> QED BY DesktopInductive, <1>1, PTL
=============================================================================
