------------------------------ MODULE Invites ------------------------------
(***************************************************************************)
(* The way of an invite: a host types a room's name and password, the      *)
(* relay server records the room, the host's window shows the invite as a  *)
(* code, and a guest applies the code to its own form and joins.  The text *)
(* of a field passes six checks on that way (src/App.tsx,                  *)
(* src/electron/main.ts, src/server/src/relay-server.ts): the form, the    *)
(* main process and the server of the host, the decoder of the code, the   *)
(* form and the main process of the guest, and the server once more.       *)
(*                                                                         *)
(* A text is its length without surrounding space and whether it has any.  *)
(* A URL is "secure" (HTTPS), "slashed" (the same with a slash at its end),*)
(* "local" (HTTP in the local network), "public" (HTTP beyond it) or       *)
(* "other".  Whoever joins has a name to show, and there is room.          *)
(***************************************************************************)
EXTENDS Naturals

CONSTANTS
    NameLengths,     \* lengths of the names typed
    PasswordLengths, \* lengths of the passwords typed
    Urls,            \* the URLs typed for a server
    PublicUrl        \* HAPTIC_PUBLIC_RELAY_URL of the relay server

\* validateRelayUrl refuses HTTP beyond the local network, and normalizeRelayUrl
\* what is not HTTP.
IsHttp(url)     == url # "other"
MayUse(url)     == url \notin {"other", "public"}
Normalized(url) == IF url = "slashed" THEN "secure" ELSE url

\* Clients can use the URL that the relay server gives them.
ASSUME InviteAssumption ==
    /\ NameLengths \subseteq Nat /\ PasswordLengths \subseteq Nat
    /\ Urls \cup {PublicUrl} \subseteq {"secure", "slashed", "local", "public", "other"}
    /\ MayUse(PublicUrl)

Nothing == [never |-> TRUE]
Modes == {"open", "request"}

Text(lengths) == [length : lengths, padded : BOOLEAN]
Names         == Text(NameLengths)
Passwords     == Text(PasswordLengths \cup {0})

Empty         == [length |-> 0, padded |-> FALSE]
Trimmed(text) == [text EXCEPT !.padded = FALSE]

Forms == [name : Names, password : Passwords, mode : Modes, url : Urls \cup {Normalized(PublicUrl)}]

\* A room as it is recorded, and as the code of an invite says it.
Rooms   == [name : Names, password : Passwords, mode : Modes]
Payload == [name : Names, password : Passwords, mode : Modes, url : {PublicUrl}]

VARIABLES
    hostForm,    \* roomName, password, entryMode, relayUrl of the host's window
    registered,  \* the room's record in the relay server, or Nothing
    shownInvite, \* hostRoomInvite, or Nothing
    guestForm,   \* the form of the guest's window
    code,        \* inviteCodeInput, or Nothing
    applied,     \* the invite the guest's form was last filled from, unchanged
    joined       \* how its last request ended

inviteVars == <<hostForm, registered, shownInvite, guestForm, code, applied, joined>>

InvitesTypeOK ==
    /\ hostForm \in Forms /\ guestForm \in Forms /\ registered \in Rooms \cup {Nothing}
    /\ {shownInvite, code, applied} \subseteq Payload \cup {Nothing}
    /\ joined \in {"none", "entered", "refused"}

NewForm(name, url) == [name |-> name, password |-> Empty, mode |-> "open", url |-> url]

InvitesInit ==
    /\ \E name \in Names, url \in Urls :
           hostForm = NewForm(name, url) /\ guestForm = NewForm(name, url)
    /\ registered = Nothing /\ shownInvite = Nothing /\ code = Nothing /\ applied = Nothing
    /\ joined = "none"

\* changeEntryMode
WithMode(form, mode) ==
    [form EXCEPT !.mode = mode, !.password = IF mode = "open" THEN Empty ELSE @]

\* A field of the dialogs is edited; a password only where requests are approved.
Edited(form) ==
    {[form EXCEPT !.name = name] : name \in Names}
    \cup {[form EXCEPT !.password = p] : p \in IF form.mode = "request" THEN Passwords ELSE {}}
    \cup {WithMode(form, mode) : mode \in Modes}
    \cup {[form EXCEPT !.url = url] : url \in Urls}

\* password.trim() || undefined, where requests are approved
SentPassword(form) == IF form.mode = "request" THEN Trimmed(form.password) ELSE Empty

\* The main process: validateShortText, validateRelayUrl.
IsShort(text, least, most) == Trimmed(text).length \in least .. most
MainTakes(name, password, url) ==
    /\ MayUse(url) /\ IsShort(name, 3, 64)
    /\ password # Empty => IsShort(password, 1, 128)

(***************************************************************************)
(* The host.                                                               *)
(***************************************************************************)
HostEdits ==
    /\ registered = Nothing /\ shownInvite = Nothing
    /\ hostForm' \in Edited(hostForm)
    /\ UNCHANGED <<registered, shownInvite, guestForm, code, applied, joined>>

\* createRoom, room:start, POST /api/rooms: the invite says what was typed
\* and the name and the URL that the server answered.
CreateInvitedRoom ==
    LET form == hostForm
        room == [name |-> Trimmed(form.name), password |-> SentPassword(form),
                 mode |-> form.mode]
    IN
    /\ registered = Nothing /\ shownInvite = Nothing
    /\ form.name.length >= 3 /\ IsHttp(form.url)
    /\ MainTakes(room.name, room.password, Normalized(form.url))
    /\ registered' = room
    /\ shownInvite' = [name |-> room.name, password |-> room.password, mode |-> form.mode,
                  url |-> PublicUrl]
    /\ UNCHANGED <<hostForm, guestForm, code, applied, joined>>

\* The host leaves; its room is closed after a while.
HostLeaves ==
    /\ shownInvite # Nothing /\ shownInvite' = Nothing
    /\ UNCHANGED <<hostForm, registered, guestForm, code, applied, joined>>

RoomCloses ==
    /\ registered # Nothing /\ shownInvite = Nothing /\ registered' = Nothing
    /\ UNCHANGED <<hostForm, shownInvite, guestForm, code, applied, joined>>

(***************************************************************************)
(* The guest.                                                              *)
(***************************************************************************)
GuestEdits ==
    /\ guestForm' \in Edited(guestForm)
    /\ applied' = Nothing /\ joined' = "none"
    /\ UNCHANGED <<hostForm, registered, shownInvite, code>>

\* The guest pastes the code that the host copied.
PasteCode ==
    /\ shownInvite # Nothing /\ code' = shownInvite
    /\ UNCHANGED <<hostForm, registered, shownInvite, guestForm, applied, joined>>

\* decodeInviteCode
Decodes(payload) == payload.name.length >= 3 /\ IsHttp(payload.url)

\* Mutant: the password typed before stays.
ApplyInviteKeepingPassword ==
    /\ code # Nothing /\ Decodes(code)
    /\ guestForm' = WithMode([guestForm EXCEPT
                                  !.url = Normalized(code.url), !.name = Trimmed(code.name)],
                             code.mode)
    /\ applied' = code /\ joined' = "none"
    /\ UNCHANGED <<hostForm, registered, shownInvite, code>>

ApplyInvite ==
    /\ code # Nothing /\ Decodes(code)
    /\ guestForm' = WithMode([guestForm EXCEPT
                                  !.url = Normalized(code.url), !.name = Trimmed(code.name),
                                  !.password = IF code.mode = "request" THEN code.password
                                               ELSE Empty],
                             code.mode)
    /\ applied' = code /\ joined' = "none"
    /\ UNCHANGED <<hostForm, registered, shownInvite, code>>

\* openLiveRoom: the room is chosen from the list.
OpenLiveRoom ==
    /\ registered # Nothing
    /\ guestForm' \in {[name |-> registered.name, password |-> Empty, mode |-> registered.mode,
                        url |-> url] : url \in Urls}
    /\ applied' = Nothing /\ joined' = "none"
    /\ UNCHANGED <<hostForm, registered, shownInvite, code>>

\* POST /api/rooms/:room/join
ServerTakes(name, password) ==
    /\ registered # Nothing /\ registered.name = name
    /\ registered.password = Empty \/ registered.password = password

\* joinRoom, room:join and the server
JoinRoom ==
    LET form == guestForm
        name == Trimmed(form.name)
        password == SentPassword(form)
        passes == /\ form.name.length >= 3 /\ IsHttp(form.url)
                  /\ MainTakes(name, password, Normalized(form.url))
                  /\ ServerTakes(name, password)
    IN
    /\ joined = "none"
    /\ joined' = IF passes THEN "entered" ELSE "refused"
    /\ UNCHANGED <<hostForm, registered, shownInvite, guestForm, code, applied>>

InvitesNext ==
    \/ HostEdits \/ CreateInvitedRoom \/ HostLeaves \/ RoomCloses
    \/ GuestEdits \/ PasteCode \/ ApplyInvite \/ OpenLiveRoom \/ JoinRoom

InvitesSpec == InvitesInit /\ [][InvitesNext]_inviteVars

AsInvited(room, payload) ==
    /\ room # Nothing /\ payload # Nothing
    /\ room.name = payload.name /\ room.password = payload.password

\* A guest that applies an invite and changes nothing is not refused while
\* the room is as it was when the invite was made: what the six checks accept
\* from the host they accept from the guest, and nothing typed earlier into
\* the form that both dialogs share is sent in its place (src/App.tsx:616-653,
\* src/electron/main.ts:618-677, src/server/src/relay-server.ts:384-400).
InviteLeadsIn ==
    [][AsInvited(registered, applied) /\ joined = "none" /\ joined' # "none"
           => joined' = "entered"]_inviteVars

(***************************************************************************)
(* The inductive invariant of the proofs.                                  *)
(***************************************************************************)
\* What is left of a form that the host's checks accepted.
HostedInvites == {payload \in Payload :
    /\ payload.name = Trimmed(payload.name) /\ payload.name.length \in 3..64
    /\ payload.password = Empty
       \/ (payload.password = Trimmed(payload.password) /\ payload.password.length \in 1..128)
    /\ payload.mode = "open" => payload.password = Empty}

\* The guest's form says what the invite says.
FilledFrom(form, payload) ==
    /\ form.name = payload.name /\ form.password = payload.password
    /\ form.mode = payload.mode /\ form.url = Normalized(PublicUrl)

InvitesInv ==
    /\ InvitesTypeOK
    /\ {shownInvite, code, applied} \subseteq HostedInvites \cup {Nothing}
    /\ applied # Nothing => FilledFrom(guestForm, applied)
=============================================================================
