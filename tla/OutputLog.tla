------------------------------ MODULE OutputLog ------------------------------
(***************************************************************************)
(* The log of device commands and its window: the session store in the     *)
(* main process (electron/services/hardware-output-session-store.ts), the  *)
(* window it sends its events to (hardware-output-window-manager.ts,       *)
(* main.ts), and the copy the window keeps and shows                       *)
(* (src/ui/output-log-model.mjs, HardwareOutputLogView.tsx).               *)
(*                                                                         *)
(* The window subscribes to the events, asks for a snapshot, and joins the *)
(* two; then it applies the events in batches, one per frame drawn.  Rows  *)
(* are the numbers the store gives them, anew in every session.            *)
(***************************************************************************)
EXTENDS Naturals, SequencesExt

CONSTANTS
    MaxRows,      \* MAX_HARDWARE_OUTPUT_LOG_ROWS, MAX_ROWS
    PageSize,     \* PAGE_SIZE
    MaxSessions,  \* bound on connections of a device
    MaxOutputs,   \* bound on rows
    MaxOpens,     \* bound on openings of the window
    MaxWaiting    \* bound on messages and events that wait

ASSUME OutputAssumption ==
    /\ MaxRows \in Nat \ {0} /\ PageSize \in Nat \ {0} /\ MaxSessions \in Nat
    /\ MaxOutputs \in Nat /\ MaxOpens \in Nat /\ MaxWaiting \in Nat

VARIABLES
    store,      \* sessionId, rows and omittedRows of the store
    nextRow,    \* nextRowId
    outputs,    \* rows appended so far
    opens,
    window,     \* "closed", "opening", "asking", "waiting", "live" or "blind"
    wire,       \* messages to the window
    pending,    \* pendingEvents
    batch,      \* events that wait for the next frame
    view,       \* model.session
    following,
    anchor,     \* anchorRowId, or 0
    visible     \* visibleCount

logWindow  == <<window, wire, pending, batch, view, following, anchor, visible>>
outputVars == <<store, nextRow, outputs, opens, logWindow>>

EmptyLog == [session |-> 0, rows |-> <<>>, omitted |-> 0]

\* A session's rows have increasing numbers.
IsLog(log) ==
    /\ log.session \in 0..MaxSessions
    /\ log.rows \in Seq(1..MaxOutputs) /\ Len(log.rows) <= MaxRows
    /\ log.omitted \in 0..MaxOutputs

OutputTypeOK ==
    /\ IsLog(store) /\ IsLog(view)
    /\ nextRow \in 1..MaxOutputs + 1 /\ outputs \in 0..MaxOutputs
    /\ opens \in 0..MaxOpens
    /\ window \in {"closed", "opening", "asking", "waiting", "live", "blind"}
    /\ \A queue \in {wire, pending, batch} : \A i \in DOMAIN queue :
          queue[i].type \in {"reset", "append", "snapshot", "failed"}
    /\ following \in BOOLEAN /\ anchor \in 0..MaxOutputs /\ visible \in Nat

OutputInit ==
    /\ store = EmptyLog /\ nextRow = 1 /\ outputs = 0 /\ opens = 0
    /\ window = "closed" /\ wire = <<>> /\ pending = <<>> /\ batch = <<>>
    /\ view = EmptyLog /\ following = TRUE /\ anchor = 0 /\ visible = PageSize

LastRows(rows, n) == SubSeq(rows, Len(rows) - n + 1, Len(rows))

Retained(rows) == IF Len(rows) > MaxRows THEN LastRows(rows, MaxRows) ELSE rows

(***************************************************************************)
(* The store and what it sends; a window that is still opening has no      *)
(* listener yet.                                                           *)
(***************************************************************************)
Waiting == Len(wire) + Len(pending) + Len(batch)

Send(message) ==
    /\ Waiting < MaxWaiting
    /\ wire' = IF window \in {"closed", "opening"} THEN wire ELSE Append(wire, message)

ResetSession ==
    /\ store.session < MaxSessions
    /\ store' = [EmptyLog EXCEPT !.session = store.session + 1]
    /\ nextRow' = 1
    /\ Send([type |-> "reset", log |-> store'])
    /\ UNCHANGED <<outputs, opens, window, pending, batch, view, following, anchor, visible>>

AppendOutput ==
    /\ outputs < MaxOutputs /\ outputs' = outputs + 1
    /\ LET rows == Append(store.rows, nextRow) IN
       store' = [store EXCEPT !.rows = Retained(rows),
                              !.omitted = @ + (Len(rows) - Len(Retained(rows)))]
    /\ nextRow' = nextRow + 1
    /\ Send([type |-> "append", row |-> nextRow, log |-> [store' EXCEPT !.rows = <<nextRow>>]])
    /\ UNCHANGED <<opens, window, pending, batch, view, following, anchor, visible>>

OpenWindow ==
    /\ window = "closed" /\ opens < MaxOpens
    /\ window' = "opening" /\ opens' = opens + 1
    /\ UNCHANGED <<store, nextRow, outputs, wire, pending, batch, view, following, anchor, visible>>

CloseWindow ==
    /\ window # "closed" /\ window' = "closed"
    /\ wire' = <<>> /\ pending' = <<>> /\ batch' = <<>>
    /\ view' = EmptyLog /\ following' = TRUE /\ anchor' = 0 /\ visible' = PageSize
    /\ UNCHANGED <<store, nextRow, outputs, opens>>

\* hardware-output-log:get is answered, or the call fails.
AnswerGet ==
    /\ window = "asking" /\ window' = "waiting"
    /\ \/ wire' = Append(wire, [type |-> "snapshot", log |-> store])
       \/ wire' = Append(wire, [type |-> "failed"])
    /\ UNCHANGED <<store, nextRow, outputs, opens, pending, batch, view, following, anchor, visible>>

(***************************************************************************)
(* The window's copy.                                                      *)
(***************************************************************************)
\* Mutant: rows that are in the log already are added again.
ReduceTwice(log, event) ==
    IF event.log.session < log.session THEN log
    ELSE IF event.type = "reset" \/ event.log.session > log.session THEN event.log
    ELSE [event.log EXCEPT !.rows = Retained(Append(log.rows, event.row))]

\* reduceOutputLogEvent: what is older than the log is ignored.
Reduce(log, event) ==
    IF event.log.session < log.session THEN log
    ELSE IF event.type = "reset" \/ event.log.session > log.session THEN event.log
    ELSE IF event.row \in ToSet(log.rows) THEN log
    ELSE [event.log EXCEPT !.rows = Retained(Append(log.rows, event.row))]

\* The log after each of the events in turn.
After(log, events) ==
    LET after[i \in 0..Len(events)] ==
            IF i = 0 THEN log ELSE Reduce(after[i - 1], events[i])
    IN  after[Len(events)]

StartsOver(log, event) ==
    event.log.session >= log.session /\ (event.type = "reset" \/ event.log.session > log.session)

\* Mutant: a batch is shown from its first row, whoever scrolls.
ApplyLosingAnchor(events) ==
    /\ view' = After(view, events)
    /\ anchor' = 0
    /\ UNCHANGED <<following, visible>>

\* A new session is followed from its end; otherwise the anchor stays while
\* its row is kept.
Apply(events) ==
    /\ view' = After(view, events)
    /\ IF view'.session # view.session
          \/ \E i \in DOMAIN events : StartsOver(view, events[i])
       THEN following' = TRUE /\ anchor' = 0 /\ visible' = PageSize
       ELSE /\ anchor' = IF following \/ anchor \in ToSet(view'.rows) \/ view' = view THEN anchor
                         ELSE Head(view'.rows)
            /\ UNCHANGED <<following, visible>>

\* The first effect: listeners, then the request for a snapshot.
Subscribe ==
    /\ window = "opening" /\ window' = "asking"
    /\ UNCHANGED <<store, nextRow, outputs, opens, wire, pending, batch, view, following, anchor, visible>>

\* applyInitialSnapshot
SnapshotArrives ==
    /\ wire # <<>> /\ Head(wire).type = "snapshot" /\ wire' = Tail(wire)
    /\ window' = "live"
    /\ view' = After(Head(wire).log, pending) /\ pending' = <<>>
    /\ UNCHANGED <<store, nextRow, outputs, opens, batch, following, anchor, visible>>

\* Without a snapshot the window shows what came since it was opened.
GetFailed ==
    /\ wire # <<>> /\ Head(wire).type = "failed" /\ wire' = Tail(wire)
    /\ window' = "blind"
    /\ Apply(pending) /\ pending' = <<>>
    /\ UNCHANGED <<store, nextRow, outputs, opens, batch>>

EventArrives ==
    /\ wire # <<>> /\ Head(wire).type \in {"reset", "append"} /\ wire' = Tail(wire)
    /\ IF window \in {"asking", "waiting"}
       THEN pending' = Append(pending, Head(wire)) /\ UNCHANGED batch
       ELSE batch' = Append(batch, Head(wire)) /\ UNCHANGED pending
    /\ UNCHANGED <<store, nextRow, outputs, opens, window, view, following, anchor, visible>>

\* createFrameBatcher
FrameDrawn ==
    /\ batch # <<>> /\ batch' = <<>>
    /\ Apply(batch)
    /\ UNCHANGED <<store, nextRow, outputs, opens, window, wire, pending>>

(***************************************************************************)
(* What is shown of it.                                                    *)
(***************************************************************************)
AnchorIndex == IF anchor \in ToSet(view.rows)
               THEN CHOOSE i \in DOMAIN view.rows : view.rows[i] = anchor ELSE 1

VisibleRows ==
    IF following
    THEN IF Len(view.rows) > visible THEN LastRows(view.rows, visible) ELSE view.rows
    ELSE SubSeq(view.rows, AnchorIndex,
                IF AnchorIndex + visible - 1 < Len(view.rows)
                THEN AnchorIndex + visible - 1 ELSE Len(view.rows))

UnchangedByScrolling ==
    UNCHANGED <<store, nextRow, outputs, opens, window, wire, pending, batch, view>>

\* setOutputLogFollowing, by scrolling away from the end or back to it
ScrollAway ==
    /\ following /\ window \in {"live", "blind"} /\ VisibleRows # <<>>
    /\ following' = FALSE /\ anchor' = Head(VisibleRows)
    /\ UNCHANGED visible /\ UnchangedByScrolling

FollowEnd ==
    /\ ~following /\ following' = TRUE /\ anchor' = 0
    /\ UNCHANGED visible /\ UnchangedByScrolling

\* expandHistory: a page of earlier rows is shown above the others.
ShowEarlier ==
    LET start == IF following THEN Len(view.rows) - Len(VisibleRows) + 1 ELSE AnchorIndex
        added == IF start - 1 < PageSize THEN start - 1 ELSE PageSize
    IN  /\ window \in {"live", "blind"} /\ added > 0
        /\ visible' = Len(VisibleRows) + added
        /\ following' = FALSE /\ anchor' = view.rows[start - added]
        /\ UnchangedByScrolling

OutputNext ==
    \/ ResetSession \/ AppendOutput \/ OpenWindow \/ CloseWindow \/ AnswerGet
    \/ Subscribe \/ SnapshotArrives \/ GetFailed \/ EventArrives \/ FrameDrawn
    \/ ScrollAway \/ FollowEnd \/ ShowEarlier

OutputSpec == OutputInit /\ [][OutputNext]_outputVars

(***************************************************************************)
(* Properties.                                                             *)
(***************************************************************************)
\* Once no event is under way the window holds the store's session, its rows
\* and the number of omitted ones, whenever it was opened: nothing that happened
\* around the snapshot is missing or there twice.
WindowHasLog ==
    window = "live" /\ wire = <<>> /\ batch = <<>> => view = store

\* Rows that arrive do not move what a user who scrolled away is looking at,
\* as long as its first row is kept and no new session begins.
ScrolledViewStays ==
    [][/\ ~following /\ ~following' /\ UNCHANGED visible
       /\ view'.session = view.session /\ anchor \in ToSet(view'.rows)
       => IsPrefix(VisibleRows, VisibleRows')]_outputVars

(***************************************************************************)
(* The inductive invariant.  A point is how far the store had got: its     *)
(* session, and the rows of that so far.  What is under way leads, message *)
(* by message, from the point the window's copy has got to, or from where  *)
(* the store was when the window subscribed, to where the store is.        *)
(***************************************************************************)
Points  == [session : 0..MaxSessions, number : 0..MaxOutputs]
Present == [session |-> store.session, number |-> nextRow - 1]

Capped(count)      == IF count > MaxRows THEN MaxRows ELSE count
RowsUpTo(count, n) == [i \in 1..count |-> (n - count) + i]

\* The store's log at a point, and a copy of only its last rows.
LastOf(p, count) == [session |-> p.session, rows |-> RowsUpTo(Capped(count), p.number),
                     omitted |-> p.number - Capped(p.number)]
LogAt(p) == LastOf(p, p.number)

Logs     == [session : Nat, rows : Seq(Nat), omitted : Nat]
Events   == [type : {"reset"}, log : Logs] \cup [type : {"append"}, row : Nat, log : Logs]
Answers  == [type : {"snapshot"}, log : Logs] \cup [type : {"failed"}]
Messages == Events \cup Answers

Leads(from, message, to) ==
    \/ /\ message.type = "reset" /\ message.log = LogAt(to)
       /\ to.session = from.session + 1 /\ to.number = 0
    \/ /\ message.type = "append" /\ message.row = to.number
       /\ message.log = [LogAt(to) EXCEPT !.rows = <<to.number>>]
       /\ to.session = from.session /\ to.number = from.number + 1
    \/ message.type = "snapshot" /\ message.log = LogAt(to) /\ to = from
    \/ message.type = "failed" /\ to = from

NotAfter(p, q) ==
    p.session < q.session \/ (p.session = q.session /\ p.number <= q.number)

LeadsTo(at, messages, last) ==
    /\ at \in [0..Len(messages) -> Points] /\ at[Len(messages)] = last
    /\ \A i \in 1..Len(messages) : Leads(at[i - 1], messages[i], at[i])
    /\ \A j \in 0..Len(messages) : \A i \in 0..j : NotAfter(at[i], at[j])

Underway == pending \o batch \o wire

\* A window without a snapshot may lack earlier rows.
IsCopyOf(p) ==
    /\ window = "live" => view = LogAt(p)
    /\ window = "blind" => view = EmptyLog \/ \E count \in 0..p.number : view = LastOf(p, count)

QueuesInPlace ==
    /\ wire \in Seq(Messages) /\ pending \in Seq(Events) /\ batch \in Seq(Events)
    /\ window \in {"closed", "opening"} => wire = <<>>
    /\ window \notin {"asking", "waiting"} => pending = <<>>
    /\ window \notin {"live", "blind"} => batch = <<>> /\ view = EmptyLog /\ following
    /\ \A i \in DOMAIN wire : wire[i] \in Answers =>
          window = "waiting" /\ \A j \in DOMAIN wire : wire[j] \in Answers => j = i

\* Rows after the anchor fill what is shown, unless the anchor is the first row.
AnchorInPlace ==
    visible > 0 /\ (~following => /\ anchor \in ToSet(view.rows)
                                  /\ AnchorIndex = 1 \/ AnchorIndex + visible - 1 <= Len(view.rows))

OutputInv ==
    /\ OutputTypeOK /\ QueuesInPlace /\ AnchorInPlace
    /\ store = LogAt(Present) /\ nextRow <= outputs + 1
    /\ \E at \in [0..Len(Underway) -> Points] :
          LeadsTo(at, Underway, Present) /\ IsCopyOf(at[0])
=============================================================================
