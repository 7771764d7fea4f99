--------------------------- MODULE RoomDirectory ---------------------------
(***************************************************************************)
(* The list of live rooms of the window (src/App.tsx) and the relay server *)
(* that it is asked from.  The window asks when the list comes into view,  *)
(* when another server is selected, when the user refreshes it, and        *)
(* silently every three seconds; only the answer to its latest request     *)
(* counts.  Requests are HTTP: answers take their time and overtake each   *)
(* other.                                                                  *)
(***************************************************************************)
EXTENDS Integers, Sequences

CONSTANTS
    Servers,
    MaxChanges, \* bound on the changes of a server's rooms
    MaxAsked    \* bound on the requests in flight

ASSUME DirectoryAssumption == Servers # {} /\ MaxChanges \in Nat /\ MaxAsked \in Nat \ {0}

VARIABLES
    state,         \* how often the rooms of each server have changed
    selected,      \* selectedServer
    authenticated,
    browsing,      \* screen is "browser"
    inFlight,      \* requests in flight, in the order of roomDirectoryRequestId
    latestAsked,   \* the last of them is the latest request
    rooms,         \* browserRooms: whose rooms, and as of which change
    listLoading,   \* roomDirectoryLoading
    failed         \* roomDirectoryError is not empty

directoryVars ==
    <<state, selected, authenticated, browsing, inFlight, latestAsked, rooms, listLoading, failed>>

NoRooms  == [server |-> selected, change |-> -1]
Unanswered  == -1  \* the request has not reached the server
Failure  == -2
ListRequests == [server : Servers, silent : BOOLEAN, answer : Failure..MaxChanges]

DirectoryTypeOK ==
    /\ state \in [Servers -> 0..MaxChanges] /\ selected \in Servers
    /\ inFlight \in Seq(ListRequests) /\ Len(inFlight) <= MaxAsked /\ latestAsked \in BOOLEAN
    /\ rooms.server \in Servers /\ rooms.change \in -1..MaxChanges
    /\ {authenticated, browsing, listLoading, failed} \subseteq BOOLEAN

Request(server, silent) == [server |-> server, silent |-> silent, answer |-> Unanswered]

\* The app starts logged in when the login of an earlier start was kept.
DirectoryInit ==
    /\ state = [s \in Servers |-> 0] /\ selected \in Servers
    /\ authenticated \in BOOLEAN /\ browsing = TRUE
    /\ inFlight = IF authenticated THEN <<Request(selected, FALSE)>> ELSE <<>>
    /\ latestAsked = authenticated /\ listLoading = authenticated
    /\ rooms = NoRooms /\ failed = FALSE

Visible == authenticated /\ browsing

\* refreshRoomDirectory up to its await
Refresh(server, silent) ==
    /\ Len(inFlight) < MaxAsked
    /\ inFlight' = Append(inFlight, Request(server, silent))
    /\ latestAsked' = TRUE
    /\ listLoading' = (listLoading \/ ~silent)
    /\ UNCHANGED <<rooms, failed>>

Kept == UNCHANGED <<inFlight, latestAsked, listLoading, rooms, failed>>

\* The effect of the list runs again when what it depends on changes.
ShowsAnew(visible, server) == IF visible THEN Refresh(server, FALSE) ELSE Kept

ChooseServer ==
    /\ authenticated /\ selected' \in Servers \ {selected}
    /\ ShowsAnew(Visible, selected')
    /\ UNCHANGED <<state, authenticated, browsing>>

ChangeScreen ==
    /\ authenticated /\ browsing' = ~browsing
    /\ ShowsAnew(browsing', selected)
    /\ UNCHANGED <<state, selected, authenticated>>

LogIn ==
    /\ ~authenticated /\ authenticated' = TRUE /\ browsing' = TRUE
    /\ ShowsAnew(TRUE, selected)
    /\ UNCHANGED <<state, selected>>

LogOut ==
    /\ authenticated /\ authenticated' = FALSE /\ browsing' = TRUE
    /\ Kept /\ UNCHANGED <<state, selected>>

\* The refresh button is disabled while the list is loading.
PressRefresh ==
    /\ Visible /\ ~listLoading
    /\ Refresh(selected, FALSE)
    /\ UNCHANGED <<state, selected, authenticated, browsing>>

RefreshTimerFires ==
    /\ Visible
    /\ Refresh(selected, TRUE)
    /\ UNCHANGED <<state, selected, authenticated, browsing>>

(***************************************************************************)
(* The server, and the way back.                                           *)
(***************************************************************************)
RoomsChange(server) ==
    /\ state[server] < MaxChanges
    /\ state' = [state EXCEPT ![server] = @ + 1]
    /\ Kept /\ UNCHANGED <<selected, authenticated, browsing>>

\* GET /api/rooms is handled, or fails.
Lists(i) ==
    /\ inFlight[i].answer = Unanswered
    /\ \E answer \in {state[inFlight[i].server], Failure} : inFlight' = [inFlight EXCEPT ![i].answer = answer]
    /\ UNCHANGED <<state, selected, authenticated, browsing, latestAsked, listLoading, rooms, failed>>

Without(s, i) == SubSeq(s, 1, i - 1) \o SubSeq(s, i + 1, Len(s))

\* Mutant: every answer counts.
AnyAnswer(i) == TRUE

\* requestId is still the one of roomDirectoryRequestId
IsLatest(i) == latestAsked /\ i = Len(inFlight)

Answered(i) ==
    /\ inFlight[i].answer # Unanswered
    /\ inFlight' = Without(inFlight, i)
    /\ latestAsked' = (latestAsked /\ i # Len(inFlight))
    /\ IF IsLatest(i)
       THEN /\ rooms' = IF inFlight[i].answer = Failure THEN rooms
                        ELSE [server |-> inFlight[i].server, change |-> inFlight[i].answer]
            /\ failed' = (inFlight[i].answer = Failure)
            /\ listLoading' = (listLoading /\ inFlight[i].silent)
       ELSE UNCHANGED <<rooms, failed, listLoading>>
    /\ UNCHANGED <<state, selected, authenticated, browsing>>

User == ChooseServer \/ ChangeScreen \/ LogIn \/ LogOut \/ PressRefresh

DirectoryNext ==
    \/ User \/ RefreshTimerFires
    \/ \E server \in Servers : RoomsChange(server)
    \/ \E i \in DOMAIN inFlight : Lists(i) \/ Answered(i)

\* Every request is answered, or fails, in the end.
DirectorySpec ==
    /\ DirectoryInit /\ [][DirectoryNext]_directoryVars
    /\ \A i \in 1..MaxAsked :
          WF_directoryVars(i \in DOMAIN inFlight /\ (Lists(i) \/ Answered(i)))

(***************************************************************************)
(* Properties.                                                             *)
(***************************************************************************)
\* However late and in whichever order answers come, and whatever server is
\* selected meanwhile: a list that is put on show is one of the selected server,
\* and a list is never replaced by an older one of its server (App.tsx:361-378).
ListGoesForward ==
    [][rooms' # rooms =>
          /\ Visible => rooms'.server = selected
          /\ rooms.server = rooms'.server => rooms'.change >= rooms.change]_directoryVars

\* Live room directory design: "allow manual retry".  The button is disabled
\* while the list is loading, which should come to an end while the list stays
\* in view and the selected server answers.  It need not: the silent request of
\* the timer supersedes a first request that is answered late, and neither then
\* says that loading is over (App.tsx:363, 373-376).
RefreshAvailable == []<>(~listLoading \/ ~Visible)

(***************************************************************************)
(* The inductive invariant of the proofs.                                  *)
(***************************************************************************)
Latest == inFlight[Len(inFlight)]

\* The latest request that is not answered asks the server that is selected
\* while the list is in view, and was made after the rooms were shown.
LatestIsNew ==
    latestAsked =>
        /\ inFlight # <<>>
        /\ Visible => Latest.server = selected
        /\ Latest.answer >= 0 /\ Latest.server = rooms.server => Latest.answer >= rooms.change

DirectoryInv ==
    /\ DirectoryTypeOK
    /\ rooms.change <= state[rooms.server]
    /\ \A i \in DOMAIN inFlight : inFlight[i].answer <= state[inFlight[i].server]
    /\ LatestIsNew
=============================================================================
