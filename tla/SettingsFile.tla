---------------------------- MODULE SettingsFile ----------------------------
(***************************************************************************)
(* The settings of the app: one file, which electron/settings-file-        *)
(* store.ts replaces atomically and one operation at a time; the requests  *)
(* of electron/main.ts that read, save and change it and hand the playback *)
(* delay to the relay client; and the settings the window shows            *)
(* (src/App.tsx).  Reads and writes may fail, and the app may crash and be *)
(* started again at any step.                                              *)
(*                                                                         *)
(* Settings are the playback delay, which has a request of its own, and a  *)
(* profile that stands for all the rest.                                   *)
(***************************************************************************)
EXTENDS Naturals, Sequences

CONSTANTS
    Profiles, PlaybackDelays,
    DefaultProfile,   \* DEFAULT_SETTINGS has this profile and no delay
    MaxRequests,      \* bound on requests of the user
    MaxCrashes

ASSUME SettingsAssumption ==
    /\ DefaultProfile \in Profiles /\ 0 \in PlaybackDelays
    /\ MaxRequests \in Nat /\ MaxCrashes \in Nat

VARIABLES
    file,         \* the settings file: its settings, Missing or Partial
    outdated,     \* whether it has an older schema version
    storeQueue,   \* SettingsFileStore.queue; its head is the running operation
    stage,        \* how far that is
    content,      \* what it writes
    temporary,    \* its temporary file
    relayDelay,   \* motionDelayMs of the relay client
    replies,      \* answers on their way to the window
    saved,        \* savedSettings, or Unknown
    loading,      \* settingsLoading
    busy,         \* the request that holds busyAction, or 0
    requests, crashes,
    chosen,       \* history: the settings in which a delay was last reported as applied
    overlapped    \* history: a save began while the delay was being applied

fileVars     == <<file, outdated, storeQueue, stage, content, temporary>>
windowVars   == <<saved, loading, busy, chosen, overlapped>>
settingsVars == <<fileVars, windowVars, relayDelay, replies, requests, crashes>>

Settings == [profile : Profiles, delay : PlaybackDelays]
Default  == [profile |-> DefaultProfile, delay |-> 0]
Missing  == [file |-> "missing"]
Partial  == [file |-> "partial"]
Unknown  == [file |-> "unknown"]
Failed   == [file |-> "failed"]

Operations ==
    [kind : {"load"}, id : 0..MaxRequests]
    \cup [kind : {"save"}, id : 0..MaxRequests, settings : Settings]
    \cup [kind : {"delay"}, id : 0..MaxRequests, delay : PlaybackDelays]

\* An operation's answer to the window.
Outcomes == [kind : {"load", "save", "delay"}, id : 0..MaxRequests,
             settings : Settings \cup {Failed}]

SettingsTypeOK ==
    /\ file \in Settings \cup {Missing} /\ outdated \in BOOLEAN
    /\ storeQueue \in Seq(Operations)
    /\ stage \in {"start", "write", "rename"}
    /\ content \in Settings \cup {Unknown}
    /\ temporary \in Settings \cup {Missing, Partial}
    /\ relayDelay \in PlaybackDelays
    /\ replies \in Seq(Outcomes)
    /\ saved \in Settings \cup {Unknown} /\ loading \in BOOLEAN /\ busy \in 0..MaxRequests
    /\ requests \in 0..MaxRequests /\ crashes \in 0..MaxCrashes
    /\ chosen \in Settings \cup {Unknown} /\ overlapped \in BOOLEAN

\* The window's first effect loads the settings.
Started ==
    /\ storeQueue' = <<[kind |-> "load", id |-> 0]>> /\ stage' = "start" /\ content' = Unknown
    /\ relayDelay' = 0 /\ replies' = <<>>
    /\ saved' = Unknown /\ loading' = TRUE /\ busy' = 0
    /\ chosen' = Unknown /\ overlapped' = FALSE

SettingsInit ==
    /\ file \in Settings \cup {Missing} /\ outdated \in BOOLEAN
    /\ file = Missing => ~outdated
    /\ storeQueue = <<[kind |-> "load", id |-> 0]>> /\ stage = "start" /\ content = Unknown
    /\ temporary = Missing /\ relayDelay = 0 /\ replies = <<>>
    /\ saved = Unknown /\ loading = TRUE /\ busy = 0
    /\ requests = 0 /\ crashes = 0 /\ chosen = Unknown /\ overlapped = FALSE

(***************************************************************************)
(* The window.                                                             *)
(***************************************************************************)
Requests(operation) ==
    /\ requests < MaxRequests /\ requests' = requests + 1
    /\ ~loading /\ busy = 0
    /\ storeQueue' = Append(storeQueue, operation)
    /\ UNCHANGED <<file, outdated, stage, content, temporary, relayDelay, replies,
                   saved, chosen, crashes>>

PressLoad ==
    /\ Requests([kind |-> "load", id |-> requests'])
    /\ loading' = TRUE
    /\ UNCHANGED <<busy, overlapped>>

\* The saved settings carry the delay that the window knows to be applied.
PressSave(profile) ==
    /\ saved # Unknown
    /\ Requests([kind |-> "save", id |-> requests',
                 settings |-> [saved EXCEPT !.profile = profile]])
    /\ busy' = requests'
    /\ overlapped' = (overlapped \/ storeQueue # <<>> \/ replies # <<>>)
    /\ UNCHANGED loading

PressApplyDelay(delay) ==
    /\ saved # Unknown
    /\ Requests([kind |-> "delay", id |-> requests', delay |-> delay])
    /\ busy' = requests'
    /\ UNCHANGED <<loading, overlapped>>

\* An emergency stop, or its release, frees the buttons of what still runs.
StopFreesButtons ==
    /\ busy # 0 /\ busy' = 0
    /\ UNCHANGED <<fileVars, saved, loading, chosen, overlapped, relayDelay, replies,
                   requests, crashes>>

\* The answer to a load is shown after another request, setHardwareProtection,
\* during which the buttons stay disabled.
ReplyArrives ==
    /\ replies # <<>> /\ replies' = Tail(replies)
    /\ LET reply == Head(replies) IN
       /\ saved' = IF reply.settings = Failed THEN saved ELSE reply.settings
       /\ loading' = (loading /\ reply.kind # "load")
       /\ busy' = IF busy = reply.id THEN 0 ELSE busy
       /\ chosen' = IF reply.settings # Failed /\ (reply.kind = "delay" \/ chosen = Unknown)
                    THEN reply.settings ELSE chosen
    /\ UNCHANGED <<fileVars, relayDelay, requests, crashes, overlapped>>

(***************************************************************************)
(* The store.                                                              *)
(***************************************************************************)
Running == Head(storeQueue)

\* The request is answered; one that succeeded passes the delay on, before the
\* next operation has read or written anything.
Answer(result) ==
    /\ storeQueue' = Tail(storeQueue) /\ stage' = "start" /\ content' = Unknown
    /\ replies' = Append(replies, [kind |-> Running.kind, id |-> Running.id, settings |-> result])
    /\ relayDelay' = IF result = Failed THEN relayDelay ELSE result.delay

WillWrite(settings) ==
    /\ stage' = "write" /\ content' = settings
    /\ UNCHANGED <<storeQueue, relayDelay, replies>>

UnchangedByStore == UNCHANGED <<windowVars, requests, crashes>>

\* readSettingsInTransaction; an older file is written anew by a load, too.
ReadFile ==
    /\ storeQueue # <<>> /\ stage = "start" /\ Running.kind # "save"
    /\ LET current == IF file = Missing THEN Default ELSE file IN
       CASE Running.kind = "delay" -> WillWrite([current EXCEPT !.delay = Running.delay])
         [] Running.kind = "load" /\ outdated  -> WillWrite(current)
         [] Running.kind = "load" /\ ~outdated -> Answer(current)
    /\ UNCHANGED <<file, outdated, temporary>>
    /\ UnchangedByStore

BeginSave ==
    /\ storeQueue # <<>> /\ stage = "start" /\ Running.kind = "save"
    /\ WillWrite(Running.settings)
    /\ UNCHANGED <<file, outdated, temporary>>
    /\ UnchangedByStore

\* writeFile, which a crash may leave half done
WriteTemporary ==
    /\ storeQueue # <<>> /\ stage = "write"
    /\ \/ temporary' = Partial /\ temporary = Missing /\ UNCHANGED stage
       \/ temporary' = content /\ stage' = "rename"
    /\ UNCHANGED <<file, outdated, storeQueue, content, relayDelay, replies>>
    /\ UnchangedByStore

\* Mutant: a request is answered although the file could not be replaced.
RenameUnchecked ==
    /\ storeQueue # <<>> /\ stage = "rename"
    /\ \/ file' = temporary /\ outdated' = FALSE
       \/ UNCHANGED <<file, outdated>>
    /\ temporary' = Missing
    /\ Answer(content)
    /\ UnchangedByStore

RenameTemporary ==
    /\ storeQueue # <<>> /\ stage = "rename"
    /\ file' = temporary /\ outdated' = FALSE
    /\ temporary' = Missing
    /\ Answer(content)
    /\ UnchangedByStore

\* A failed read, write or rename fails the request, except that a load does
\* not need its migrated settings to be written.
OperationFails ==
    /\ storeQueue # <<>>
    /\ stage = "start" => Running.kind # "save"
    /\ temporary' = Missing
    /\ Answer(IF Running.kind = "load" /\ stage # "start" THEN content ELSE Failed)
    /\ UNCHANGED <<file, outdated>>
    /\ UnchangedByStore

\* The process ends and is started again; a new operation writes to a
\* temporary file of another name.
Crash ==
    /\ crashes < MaxCrashes /\ crashes' = crashes + 1
    /\ Started
    /\ temporary' = Missing
    /\ UNCHANGED <<file, outdated, requests>>

SettingsNext ==
    \/ PressLoad
    \/ \E profile \in Profiles : PressSave(profile)
    \/ \E delay \in PlaybackDelays : PressApplyDelay(delay)
    \/ StopFreesButtons \/ ReplyArrives
    \/ ReadFile \/ BeginSave \/ WriteTemporary \/ RenameTemporary
    \/ OperationFails \/ Crash

SettingsSpec == SettingsInit /\ [][SettingsNext]_settingsVars

(***************************************************************************)
(* Properties.                                                             *)
(***************************************************************************)
\* When nothing is under way, what the window shows as saved is what the file
\* holds and the relay client plays with its delay, whichever requests failed or
\* overlapped before; the delay is the one the user was last told is applied,
\* unless a save was begun while another request was still under way; and the
\* file is whole at every moment, so that a crash at any step leaves the old
\* settings or the new ones (settings-file-store.ts:22-47, main.ts:562-593).
SettingsAreKept ==
    /\ file # Partial
    /\ storeQueue = <<>> /\ replies = <<>> /\ saved # Unknown =>
          /\ saved = IF file = Missing THEN Default ELSE file
          /\ relayDelay = saved.delay
          /\ ~overlapped => saved.delay = chosen.delay

(***************************************************************************)
(* The inductive invariant of the proofs.                                  *)
(***************************************************************************)
\* what the store holds
Current == IF file = Missing THEN Default ELSE file

Succeeded(i)    == replies[i].settings # Failed
ReportsDelay(i) == Succeeded(i) /\ replies[i].kind = "delay"

\* What the running operation writes is what was asked for, upon what the file
\* holds.
WritesWhatIsAsked ==
    /\ stage # "start" =>
          /\ storeQueue # <<>>
          /\ content = CASE Running.kind = "load"  -> Current
                         [] Running.kind = "save"  -> Running.settings
                         [] Running.kind = "delay" -> [Current EXCEPT !.delay = Running.delay]
    /\ stage = "rename" => temporary = content

\* The last of the successful answers, or else what the window shows, is what
\* the file holds and the relay client plays with.
LastIsCurrent ==
    /\ \A i \in DOMAIN replies : Succeeded(i) /\ (\A j \in i + 1..Len(replies) : ~Succeeded(j))
          => replies[i].settings = Current /\ relayDelay = Current.delay
    /\ saved # Unknown /\ (\A i \in DOMAIN replies : ~Succeeded(i))
          => saved = Current /\ relayDelay = Current.delay

\* As long as no save was begun while something was under way: a save is alone
\* when it is asked for, with the delay of the file.
SavesAreAlone ==
    ~overlapped =>
        \A i \in DOMAIN storeQueue : storeQueue[i].kind = "save" =>
            i = 1 /\ storeQueue[i].settings.delay = Current.delay

\* So the file's delay is the one that was last applied.
DelayIsChosen ==
    ~overlapped =>
        /\ \A i \in DOMAIN replies : Succeeded(i) /\ (\A j \in i + 1..Len(replies) : ~ReportsDelay(j))
              => replies[i].settings.delay = Current.delay
        /\ chosen # Unknown /\ (\A i \in DOMAIN replies : ~ReportsDelay(i))
              => chosen.delay = Current.delay

SettingsInv ==
    /\ SettingsTypeOK
    /\ saved # Unknown => chosen # Unknown
    /\ WritesWhatIsAsked /\ LastIsCurrent /\ SavesAreAlone /\ DelayIsChosen
=============================================================================
