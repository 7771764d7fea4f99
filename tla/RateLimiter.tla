----------------------------- MODULE RateLimiter -----------------------------
(***************************************************************************)
(* The relay's limit on control requests: FixedWindowRateLimiter           *)
(* (server/src/http-security.ts) allows a client a number of requests in a *)
(* window that begins with its first one.  Its table is bounded; to make   *)
(* room it forgets the windows that are over, and then the entry that was  *)
(* inserted first.  A client's entry keeps its place when its window is    *)
(* renewed.                                                                *)
(***************************************************************************)
EXTENDS Integers, Sequences, FiniteSets

CONSTANTS
    Clients,      \* client addresses
    MaxInWindow,  \* maxRequests
    Window,       \* windowMs
    MaxEntries,   \* size of the table
    MaxClock,     \* bound on the time
    MaxControl    \* bound on the requests

ASSUME LimiterAssumption ==
    /\ Clients # {}
    /\ MaxInWindow \in Nat \ {0} /\ Window \in Nat \ {0} /\ MaxEntries \in Nat \ {0}
    /\ MaxClock \in Nat /\ MaxControl \in Nat

VARIABLES
    clock,
    buckets,     \* of some clients: [count, resetAt, place], its place in the table
    granted,     \* history: when requests of each client were allowed
    forgotten,   \* history: clients that lost a window before it was over
    answer,      \* history: the last answer
    asked        \* requests so far

limiterVars == <<clock, buckets, granted, forgotten, answer, asked>>

LimiterTypeOK ==
    /\ clock \in 0..MaxClock
    /\ DOMAIN buckets \subseteq Clients /\ Cardinality(DOMAIN buckets) <= MaxEntries
    /\ \A c \in DOMAIN buckets :
          buckets[c] \in [count : 0..MaxInWindow, resetAt : Nat, place : 1..MaxControl]
    /\ granted \in [Clients -> Seq(0..MaxClock)] /\ forgotten \subseteq Clients
    /\ answer \in [client : Clients, allowed : BOOLEAN] /\ asked \in 0..MaxControl

LimiterInit ==
    /\ clock = 0 /\ buckets = <<>> /\ asked = 0
    /\ answer = [client |-> CHOOSE c \in Clients : TRUE, allowed |-> TRUE]
    /\ granted = [c \in Clients |-> <<>>] /\ forgotten = {}

ClockTicks ==
    /\ clock < MaxClock /\ clock' = clock + 1
    /\ UNCHANGED <<buckets, granted, forgotten, answer, asked>>

Live(client) == clock < buckets[client].resetAt

LiveClients == {c \in DOMAIN buckets : Live(c)}

\* the key that a Map lists first
InsertedFirst(clients) == CHOOSE c \in clients : \A d \in clients : buckets[c].place <= buckets[d].place

\* Mutant: the oldest entry goes although others are over.
EvictOldest ==
    IF Cardinality(DOMAIN buckets) < MaxEntries THEN DOMAIN buckets
    ELSE DOMAIN buckets \ {InsertedFirst(DOMAIN buckets)}

\* makeRoomForNewKey: the clients whose entries are kept
MakeRoom ==
    IF Cardinality(DOMAIN buckets) < MaxEntries THEN DOMAIN buckets
    ELSE IF Cardinality(LiveClients) < MaxEntries THEN LiveClients
    ELSE LiveClients \ {InsertedFirst(LiveClients)}

NewBucket(client) ==
    [count |-> 0, resetAt |-> clock + Window,
     place |-> IF client \in DOMAIN buckets THEN buckets[client].place ELSE asked + 1]

\* The table in which the client has a live window.
WithWindow(client) ==
    [c \in IF client \in DOMAIN buckets THEN DOMAIN buckets ELSE MakeRoom \cup {client} |->
        IF c = client /\ client \notin LiveClients THEN NewBucket(client) ELSE buckets[c]]

\* consume
ControlRequest(client) ==
    /\ asked < MaxControl /\ asked' = asked + 1
    /\ LET table == WithWindow(client)
       IN  /\ answer' = [client |-> client, allowed |-> table[client].count < MaxInWindow]
           /\ buckets' = IF answer'.allowed THEN [table EXCEPT ![client].count = @ + 1] ELSE table
           /\ forgotten' = forgotten \cup (LiveClients \ DOMAIN table)
    /\ granted' = IF answer'.allowed THEN [granted EXCEPT ![client] = Append(@, clock)] ELSE granted
    /\ UNCHANGED clock

LimiterNext == ClockTicks \/ \E client \in Clients : ControlRequest(client)

LimiterSpec == LimiterInit /\ [][LimiterNext]_limiterVars

(***************************************************************************)
(* Properties.                                                             *)
(***************************************************************************)
GrantedSince(client, time) == Cardinality({i \in DOMAIN granted[client] : granted[client][i] > time})

\* In no span as long as a window is a client allowed more than twice the limit
\* (two fixed windows may meet in the middle of it), and a request is refused
\* only if the limit was reached within such a span (http-security.ts:41-74).
\* The exception is a client whose window was forgotten, which happens only
\* while as many windows are live as the table holds.
LimiterIsFair ==
    [][/\ \A c \in Clients \ forgotten' : GrantedSince(c, clock - Window)' <= 2 * MaxInWindow
       /\ asked' # asked /\ ~answer'.allowed =>
             GrantedSince(answer'.client, clock - Window) >= MaxInWindow
       /\ forgotten' # forgotten => Cardinality(LiveClients) >= MaxEntries]_limiterVars
(***************************************************************************)
(* The inductive invariant of the proofs.                                  *)
(***************************************************************************)
\* An entry that is over and one that was dropped for it count alike: as a window
\* that begins when the client asks next.
WindowStart(client) == IF client \in DOMAIN buckets THEN buckets[client].resetAt - Window ELSE clock

Used(client) == IF client \in DOMAIN buckets THEN buckets[client].count ELSE 0

Within(times, from, to) == {i \in DOMAIN times : from <= times[i] /\ times[i] < to}

\* The window counts all requests since it began, and in a span of its length before
\* that there were no more than the limit.
FairWindow(times, start, used) ==
    /\ \A i \in DOMAIN times : times[i] < start + Window
    /\ Cardinality(Within(times, start, start + Window)) = used
    /\ Cardinality(Within(times, start - Window + 1, start)) <= MaxInWindow

LimiterInv ==
    /\ LimiterTypeOK /\ IsFiniteSet(DOMAIN buckets)
    /\ \A c \in Clients : \A i \in DOMAIN granted[c] : granted[c][i] <= clock
    /\ \A c \in Clients :
          /\ WindowStart(c) <= clock
          /\ Used(c) <= Cardinality(Within(granted[c], WindowStart(c), WindowStart(c) + Window))
    /\ \A c \in Clients \ forgotten : FairWindow(granted[c], WindowStart(c), Used(c))
=============================================================================
