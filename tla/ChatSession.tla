---------------------------- MODULE ChatSession ----------------------------
(***************************************************************************)
(* The chat page of one room, open in one or more tabs of a browser:       *)
(* web/src/components/Chat.svelte with the protocol client of              *)
(* web/src/lib/ws.js, the credentials web/src/lib/storage.js keeps in      *)
(* localStorage (shared by the tabs) and the probe of web/src/App.svelte.  *)
(*                                                                         *)
(* JavaScript runs an event's callback to its end, and the cryptography is *)
(* awaited on promises that are already resolved, so a callback up to its  *)
(* next fetch is one step.  Socket events, timers, the answers to fetches, *)
(* the user and the server come in any order.                              *)
(*                                                                         *)
(* The server is seen from outside: a token is good until the room's rows  *)
(* are removed, and a challenge is answered by who has the room's key.     *)
(***************************************************************************)
EXTENDS Naturals, Sequences

CONSTANTS
    Tabs,           \* tabs with the page of this room
    PasswordRoom,   \* is there a password besides the link?
    Slots,          \* bound: probes of is_alive in flight in one tab
    MaxStale,       \* bound: replaced sockets whose close event is due
    MaxOutages      \* bound: failures of the network

ASSUME SessionAssumption ==
    /\ PasswordRoom \in BOOLEAN
    /\ MaxStale \in Nat /\ MaxOutages \in Nat

VARIABLES
    tab,        \* the component of each tab, and its current client
    stored,     \* the entry of the room in localStorage
    room,       \* on the server: alive, closing (peers told, rows still there) or gone
    outages     \* failures of the network so far

vars == <<tab, stored, room, outages>>

\* Keys: derived from the link alone, with the password, or with another one.
RightKey == IF PasswordRoom THEN "pass" ELSE "link"
Passwords == {"pass", "typo"}
Keys == {"link"} \cup Passwords

Entry(token, key) == [token |-> token, key |-> key]
Forgotten == Entry(FALSE, "none")

\* A ChatClient and its socket; `stage' is what the server does next for it,
\* `inbox' the frames under way to it.
Client(ws, token, key) ==
    [ws |-> ws, token |-> token, key |-> key, closedByUs |-> FALSE, joined |-> FALSE,
     stage |-> "none", inbox |-> <<>>]

FreshTab ==
    [status |-> "deriving_key", key |-> "none", client |-> Client("none", FALSE, "none"),
     needPassword |-> FALSE, passwordDraft |-> "", passwordBusy |-> FALSE,
     passwordError |-> FALSE, errorBanner |-> FALSE, reconnectTimer |-> FALSE,
     unmounted |-> FALSE, stale |-> 0, probe |-> [p \in Slots |-> "none"],
     delete |-> "none"]

Frames == {"challenge", "decoy", "joined", "deleted", "error", "close"}

ClientType == [ws: {"none", "connecting", "open", "closing", "closed"}, token: BOOLEAN,
               key: Keys \cup {"none"}, closedByUs: BOOLEAN, joined: BOOLEAN,
               stage: {"none", "hello", "answer"}, inbox: Seq(Frames)]

TabType ==
    [status: {"deriving_key", "connecting", "joining", "joined", "deleted", "lost"},
     key: Keys \cup {"none"}, client: ClientType, needPassword: BOOLEAN,
     passwordDraft: {""} \cup Passwords, passwordBusy: BOOLEAN,
     passwordError: BOOLEAN, errorBanner: BOOLEAN, reconnectTimer: BOOLEAN,
     unmounted: BOOLEAN, stale: 0 .. MaxStale,
     probe: [Slots -> {"none", "sent", "alive", "gone"}],
     delete: {"none", "sent", "removing", "ok", "refused"}]

TypeOK ==
    /\ tab \in [Tabs -> TabType]
    /\ stored \in [token: BOOLEAN, key: Keys \cup {"none"}]
    /\ room \in {"alive", "closing", "gone"} /\ outages \in 0 .. MaxOutages

\* A first visit, the creator's first visit, or a return.
Init ==
    /\ tab = [t \in Tabs |-> FreshTab]
    /\ stored \in {Forgotten, Entry(FALSE, RightKey), Entry(TRUE, RightKey)}
    /\ room \in {"alive", "gone"}
    /\ outages = 0

----------------------------------------------------------------------------
(* The functions of the component, as what they make of its state `s'.     *)

\* A client whose socket is closing or closed: no more frames, no more answers.
Ended(c, ws) == [c EXCEPT !.ws = ws, !.stage = "none", !.inbox = <<>>]

\* ChatClient.close: after it the socket delivers its close event only.
CloseClient(s) ==
    IF s.client.ws = "none" THEN s
    ELSE LET ws == IF s.client.ws = "closed" THEN "closed" ELSE "closing"
         IN  [s EXCEPT !.client = [Ended(s.client, ws) EXCEPT !.closedByUs = TRUE]]

\* spawnClient.  A replaced socket may still owe its close event.
SpawnClient(s, isInitial, token) ==
    [s EXCEPT !.client = Client("connecting", token, s.key),
              !.stale = IF s.client.ws \in {"none", "closed"} THEN @ ELSE @ + 1,
              !.status = IF ~isInitial THEN @ ELSE IF token THEN "joining" ELSE "connecting"]

CancelReconnect(s) == [s EXCEPT !.reconnectTimer = FALSE]

ScheduleReconnect(s) ==
    IF s.unmounted \/ s.status = "deleted" THEN s ELSE [s EXCEPT !.reconnectTimer = TRUE]

\* Mutant of OnClose: only a session on its way in is marked as lost.
OnCloseJoining(s, clean) ==
    LET lost == [s EXCEPT !.status = IF @ \in {"connecting", "joining"} THEN "lost" ELSE @]
    IN  IF s.unmounted \/ s.status = "deleted" THEN s
        ELSE IF clean THEN lost ELSE ScheduleReconnect(lost)

\* The onClose callback, of whichever client.
OnClose(s, clean) ==
    LET lost == [s EXCEPT !.status =
                    IF @ \in {"joined", "connecting", "joining"} THEN "lost" ELSE @]
    IN  IF s.unmounted \/ s.status = "deleted" THEN s
        ELSE IF clean THEN lost ELSE ScheduleReconnect(lost)

\* Mutant of OnInvalidKey: the form stays busy.
OnInvalidKeyBusy(s) ==
    [CancelReconnect(s) EXCEPT !.needPassword = TRUE,
                               !.passwordError = s.passwordDraft # "", !.passwordDraft = ""]

\* The onError callback with invalid_key.
OnInvalidKey(s) ==
    [CancelReconnect(s) EXCEPT !.needPassword = TRUE, !.passwordBusy = FALSE,
                               !.passwordError = s.passwordDraft # "", !.passwordDraft = ""]

HandleJoined(s) ==
    [s EXCEPT !.needPassword = FALSE, !.passwordError = FALSE, !.passwordDraft = "",
              !.errorBanner = FALSE, !.status = "joined"]

\* The socket of the client is gone and its close event is delivered.
SocketGone(s) ==
    OnClose([s EXCEPT !.client = Ended(s.client, "closed")], s.client.closedByUs)

Update(t, s) == tab' = [tab EXCEPT ![t] = s]
Outage == outages < MaxOutages /\ outages' = outages + 1

----------------------------------------------------------------------------
(* Mounting and leaving the page.                                          *)

\* App's probe does not report the room as gone: it is not, or the probe failed.
Probed == (room # "gone" /\ UNCHANGED outages) \/ Outage

\* App probes the room, then the component mounts: deleted, or a client with
\* the stored key or the one of the link.
Mount(t) ==
    LET s == tab[t]
        keyed == [s EXCEPT !.key = IF stored.key # "none" THEN stored.key ELSE "link"]
    IN
    /\ s.status = "deriving_key" /\ ~s.unmounted
    /\ \/ /\ room = "gone"
          /\ Update(t, [s EXCEPT !.status = "deleted"])
          /\ stored' = Forgotten
          /\ UNCHANGED outages
       \/ /\ Probed
          /\ Update(t, SpawnClient(keyed, TRUE, stored.token))
          /\ UNCHANGED stored
    /\ UNCHANGED room

\* onDestroy.
Unmount(t) ==
    LET s == tab[t] IN
    /\ s.status # "deriving_key" /\ ~s.unmounted
    /\ Update(t, CloseClient([CancelReconnect(s) EXCEPT !.unmounted = TRUE]))
    /\ UNCHANGED <<stored, room, outages>>

----------------------------------------------------------------------------
(* The socket and the handshake.                                           *)

\* #onOpen: hello goes out.
OnOpen(t) ==
    /\ tab[t].client.ws = "connecting"
    /\ tab' = [tab EXCEPT ![t].client.ws = "open", ![t].client.stage = "hello"]
    /\ UNCHANGED <<stored, room, outages>>

\* The connection fails or is refused, or an open one breaks.
Drop(t) ==
    /\ tab[t].client.ws \in {"connecting", "open"}
    /\ Outage
    /\ Update(t, SocketGone(tab[t]))
    /\ UNCHANGED <<stored, room>>

\* Frames the server sends to a client; it has nothing else to do for it then.
Sent(c, frames) == [c EXCEPT !.stage = "none", !.inbox = c.inbox \o frames]
Reply(t, frames) == Update(t, [tab[t] EXCEPT !.client = Sent(tab[t].client, frames)])

\* The server handles hello: a token is good or not; without one there is a
\* challenge, or a decoy (no room, no place, no challenge left).  The close of
\* a refusal overtakes its error frame (WsConnection), which no browser then
\* delivers.
ServerHello(t) ==
    LET c == tab[t].client IN
    /\ c.stage = "hello"
    /\ \/ c.token /\ room # "gone" /\ Reply(t, <<"joined">>)
       \/ c.token /\ room = "gone" /\ Reply(t, <<"close">>)
       \/ ~c.token /\ room # "gone" /\ Reply(t, <<"challenge">>)
       \/ ~c.token /\ Reply(t, <<"decoy">>)
    /\ UNCHANGED <<stored, room, outages>>

\* It handles a right answer: the token is inserted unless the room is gone.
ServerAnswer(t) ==
    /\ tab[t].client.stage = "answer"
    /\ Reply(t, IF room # "gone" THEN <<"joined">> ELSE <<"close">>)
    /\ UNCHANGED <<stored, room, outages>>

\* The frame the client is handed next, and the state once it is taken.
Receives(t, frame) ==
    /\ tab[t].client.ws = "open" /\ tab[t].client.inbox # <<>>
    /\ Head(tab[t].client.inbox) = frame
Taken(t) == [tab[t] EXCEPT !.client.inbox = Tail(@)]

\* #onFrame, challenge: answer it, or report invalid_key and close.
OnChallenge(t, frame) ==
    /\ frame \in {"challenge", "decoy"} /\ Receives(t, frame)
    /\ \/ /\ frame = "challenge" /\ tab[t].client.key = RightKey
          /\ Update(t, [Taken(t) EXCEPT !.client.stage = "answer"])
          /\ UNCHANGED stored
       \/ /\ frame = "decoy" \/ tab[t].client.key # RightKey
          /\ Update(t, CloseClient(OnInvalidKey(Taken(t))))
          /\ stored' = Forgotten
    /\ UNCHANGED <<room, outages>>

\* joined: the token and the key of the component are saved.
OnJoined(t) ==
    /\ Receives(t, "joined")
    /\ Update(t, [HandleJoined(Taken(t)) EXCEPT !.client.joined = TRUE, !.client.token = TRUE])
    /\ stored' = Entry(TRUE, tab[t].key)
    /\ UNCHANGED <<room, outages>>

\* deleted.
OnDeleted(t) ==
    /\ Receives(t, "deleted")
    /\ Update(t, [CancelReconnect(Taken(t)) EXCEPT !.client.closedByUs = TRUE,
                                                   !.status = "deleted"])
    /\ stored' = Forgotten
    /\ UNCHANGED <<room, outages>>

\* The server answers a frame of a joined client with an error (sendErr).
ServerError(t) ==
    /\ tab[t].client.ws = "open" /\ tab[t].client.joined
    /\ tab[t].client.inbox = <<>> /\ ~tab[t].errorBanner
    /\ Reply(t, <<"error">>)
    /\ UNCHANGED <<stored, room, outages>>

\* error, any code but invalid_key: the banner.
OnError(t) ==
    /\ Receives(t, "error")
    /\ Update(t, [Taken(t) EXCEPT !.errorBanner = TRUE])
    /\ UNCHANGED <<stored, room, outages>>

\* The close event: the server's close, the end of our own, and that of a
\* client that was replaced, whose callback acts on the session all the same.
OnServerClose(t) ==
    /\ Receives(t, "close")
    /\ Update(t, SocketGone(tab[t]))
    /\ UNCHANGED <<stored, room, outages>>

OnOwnClose(t) ==
    /\ tab[t].client.ws = "closing"
    /\ Update(t, SocketGone(tab[t]))
    /\ UNCHANGED <<stored, room, outages>>

OnStaleClose(t) ==
    /\ tab[t].stale > 0
    /\ Update(t, OnClose([tab[t] EXCEPT !.stale = @ - 1], TRUE))
    /\ UNCHANGED <<stored, room, outages>>

----------------------------------------------------------------------------
(* Reconnecting.                                                           *)

\* tryReconnect up to the probe.
TryReconnect(t, p) ==
    LET s == [tab[t] EXCEPT !.reconnectTimer = FALSE] IN
    /\ tab[t].reconnectTimer /\ s.probe[p] = "none"
    /\ Update(t, IF s.unmounted \/ s.status \in {"deleted", "joined"} THEN s
                 ELSE [s EXCEPT !.probe[p] = "sent"])
    /\ UNCHANGED <<stored, room, outages>>

ServerProbe(t, p) ==
    /\ tab[t].probe[p] = "sent"
    /\ tab' = [tab EXCEPT ![t].probe[p] = IF room # "gone" THEN "alive" ELSE "gone"]
    /\ UNCHANGED <<stored, room, outages>>

\* ... and after it: the room is gone, or a new client replaces the old one.
\* Nothing is looked at again: the session may be joined or left by now.
ProbeDone(t, p) ==
    LET s == [tab[t] EXCEPT !.probe[p] = "none"] IN
    /\ \/ /\ tab[t].probe[p] = "gone"
          /\ Update(t, [s EXCEPT !.status = "deleted"])
          /\ stored' = Forgotten
       \/ /\ tab[t].probe[p] = "alive" /\ s.stale < MaxStale
          /\ Update(t, SpawnClient(CloseClient(s), FALSE, stored.token))
          /\ UNCHANGED stored
    /\ UNCHANGED <<room, outages>>

\* Mutant of ProbeFails: the loop ends with the first failed probe.
ProbeFailsForGood(t, p) ==
    /\ tab[t].probe[p] # "none"
    /\ Outage
    /\ Update(t, [tab[t] EXCEPT !.probe[p] = "none"])
    /\ UNCHANGED <<stored, room>>

\* The probe fails: the wait starts again.
ProbeFails(t, p) ==
    /\ tab[t].probe[p] # "none"
    /\ Outage
    /\ Update(t, ScheduleReconnect([tab[t] EXCEPT !.probe[p] = "none"]))
    /\ UNCHANGED <<stored, room>>

----------------------------------------------------------------------------
(* The password form.                                                      *)

Prompted(s) == s.needPassword /\ s.status # "deleted" /\ ~s.unmounted

TypePassword(t, text) ==
    /\ Prompted(tab[t]) /\ text # tab[t].passwordDraft
    /\ tab' = [tab EXCEPT ![t].passwordDraft = text]
    /\ UNCHANGED <<stored, room, outages>>

\* Mutant of SubmitPassword: the key is saved before it is tried.
SubmitPasswordSaved(t) ==
    LET s == tab[t]
        rekeyed == [CancelReconnect(CloseClient(s)) EXCEPT
                       !.key = s.passwordDraft, !.passwordBusy = TRUE, !.passwordError = FALSE,
                       !.passwordDraft = "", !.needPassword = FALSE]
    IN
    /\ Prompted(s) /\ ~s.passwordBusy
    /\ s.passwordDraft # "" /\ s.stale < MaxStale
    /\ Update(t, SpawnClient(rekeyed, TRUE, stored.token))
    /\ stored' = Entry(stored.token, s.passwordDraft)
    /\ UNCHANGED <<room, outages>>

\* submitPassword.
SubmitPassword(t) ==
    LET s == tab[t]
        rekeyed == [CancelReconnect(CloseClient(s)) EXCEPT
                       !.key = s.passwordDraft, !.passwordBusy = TRUE, !.passwordError = FALSE,
                       !.passwordDraft = "", !.needPassword = FALSE]
    IN
    /\ Prompted(s) /\ ~s.passwordBusy
    /\ \/ /\ s.passwordDraft = ""
          /\ Update(t, [s EXCEPT !.passwordError = TRUE])
       \/ /\ s.passwordDraft # "" /\ s.stale < MaxStale
          /\ Update(t, SpawnClient(rekeyed, TRUE, stored.token))
    /\ UNCHANGED <<stored, room, outages>>

----------------------------------------------------------------------------
(* Deleting the room.                                                      *)

\* confirmDelete up to the request (one at a time).
ConfirmDelete(t) ==
    LET s == tab[t] IN
    /\ s.status \notin {"deriving_key", "deleted"} /\ ~s.needPassword /\ ~s.unmounted
    /\ s.delete = "none"
    /\ Update(t, IF ~stored.token THEN [s EXCEPT !.errorBanner = TRUE]
                 ELSE [CloseClient(s) EXCEPT !.delete = "sent"])
    /\ UNCHANGED <<stored, room, outages>>

\* closeRoom: a connection of the room gets `deleted' and is closed, or, when
\* it shares the io thread of the request, the close overtakes `deleted'.
Notified(s, told) ==
    IF s.client.ws # "open" THEN s
    ELSE [s EXCEPT !.client =
              Sent(s.client, IF told THEN <<"deleted", "close">> ELSE <<"close">>)]

\* Somebody else deletes the room, or it is purged.
RoomCloses ==
    /\ room = "alive"
    /\ room' = "closing"
    /\ \E told \in [Tabs -> BOOLEAN] : tab' = [t \in Tabs |-> Notified(tab[t], told[t])]
    /\ UNCHANGED <<stored, outages>>

\* The delete request: the peers are told, then the rows are removed.
ServerDelete(t) ==
    /\ tab[t].delete = "sent"
    /\ \/ /\ room # "gone" /\ room' = "closing"
          /\ \E told \in [Tabs -> BOOLEAN] :
               tab' = [u \in Tabs |->
                         IF u = t THEN [Notified(tab[u], told[u]) EXCEPT !.delete = "removing"]
                         ELSE Notified(tab[u], told[u])]
       \/ /\ room = "gone" /\ UNCHANGED room
          /\ tab' = [tab EXCEPT ![t].delete = "refused"]
    /\ UNCHANGED <<stored, outages>>

\* deleteRoom, and the answers to those who asked for it.
RoomRemoved ==
    /\ room = "closing"
    /\ room' = "gone"
    /\ tab' = [t \in Tabs |->
                 IF tab[t].delete = "removing" THEN [tab[t] EXCEPT !.delete = "ok"] ELSE tab[t]]
    /\ UNCHANGED <<stored, outages>>

\* Mutant of DeleteDone: the credentials are kept.
DeleteDoneKept(t) ==
    /\ tab[t].delete = "ok"
    /\ tab' = [tab EXCEPT ![t].delete = "none", ![t].status = "deleted"]
    /\ UNCHANGED <<stored, room, outages>>

\* ... and after it.
DeleteDone(t) ==
    /\ \/ /\ tab[t].delete = "ok"
          /\ tab' = [tab EXCEPT ![t].delete = "none", ![t].status = "deleted"]
          /\ stored' = Forgotten
       \/ /\ tab[t].delete = "refused"
          /\ tab' = [tab EXCEPT ![t].delete = "none", ![t].errorBanner = TRUE]
          /\ UNCHANGED stored
    /\ UNCHANGED <<room, outages>>

DeleteFails(t) ==
    /\ tab[t].delete # "none"
    /\ Outage
    /\ tab' = [tab EXCEPT ![t].delete = "none", ![t].errorBanner = TRUE]
    /\ UNCHANGED <<stored, room>>

----------------------------------------------------------------------------

\* What the browser and the server do by themselves.
Proceed(t) ==
    \/ OnOpen(t) \/ ServerHello(t) \/ ServerAnswer(t)
    \/ \E frame \in Frames : OnChallenge(t, frame)
    \/ OnJoined(t) \/ OnDeleted(t) \/ OnError(t)
    \/ OnServerClose(t) \/ OnOwnClose(t) \/ OnStaleClose(t)
    \/ \E p \in Slots : TryReconnect(t, p) \/ ServerProbe(t, p) \/ ProbeDone(t, p)
    \/ ServerDelete(t) \/ DeleteDone(t)

\* What the user and the network do.
Disturb(t) ==
    \/ Mount(t) \/ Unmount(t) \/ Drop(t) \/ DeleteFails(t)
    \/ \E p \in Slots : ProbeFails(t, p)
    \/ \E text \in {""} \cup Passwords : TypePassword(t, text)
    \/ SubmitPassword(t) \/ ConfirmDelete(t) \/ ServerError(t)

Next == RoomCloses \/ RoomRemoved \/ \E t \in Tabs : Proceed(t) \/ Disturb(t)

Spec == Init /\ [][Next]_vars

\* Events that are due are delivered and requests are answered.
FairSpec == Spec /\ WF_vars(RoomRemoved) /\ \A t \in Tabs : WF_vars(Proceed(t))

----------------------------------------------------------------------------
(* Properties.                                                             *)

\* A key is stored once it was tested: what a tab writes is the right key, or
\* the tab joined by a token, which tests no key, and not the only tab that
\* has had the room open, for then the token is its own, and came with a join
\* by the right key (handleJoined saves the key of the component, spawnClient
\* reads the token; what the session forgets when is what this rests on).
KeyIsTested ==
    [][stored'.key \in {stored.key, RightKey, "none"}
       \/ \E t, u \in Tabs : /\ Receives(t, "joined") /\ tab[t].client.token
                             /\ u # t /\ tab[u].status # "deriving_key"]_vars

\* The password form never locks up: whenever it is shown it can be submitted,
\* however attempts, reconnects and errors followed each other
\* (submitPassword, onError).
PromptIsUsable == \A t \in Tabs : tab[t].needPassword => ~tab[t].passwordBusy

\* A session shown as joined has a joined, connected client, or the close
\* event of the one it had is still due, whatever clients replaced each other
\* (spawnClient, onClose, tryReconnect).
ShownJoinedIsConnected ==
    \A t \in Tabs : tab[t].status = "joined" /\ ~tab[t].unmounted =>
        \/ tab[t].stale > 0
        \/ tab[t].client.joined /\ tab[t].client.ws \in {"open", "closing"}

\* Once a session shows the room as deleted, no late probe, close event or
\* error revives it and, in a lone tab, the room's credentials are out of
\* localStorage.  The one exception is a reconnect the server let in before
\* the rows were removed, whose `joined' is handled late (onDeleted,
\* tryReconnect, confirmDelete).
DeletedIsFinal ==
    [][\A t \in Tabs :
         /\ tab[t].status = "deleted" =>
              tab'[t].status = "deleted" \/ Receives(t, "joined")
         /\ tab'[t].status = "deleted" => stored' = Forgotten]_vars

\* A session that waits to reconnect gets somewhere: it is joined, shows the
\* room as deleted, asks for the password, reports an error or is left
\* (scheduleReconnect, tryReconnect).
LostSessionsComeBack ==
    \A t \in Tabs :
        LET s == tab[t] IN
        s.reconnectTimer ~> \/ s.status \in {"joined", "deleted"} \/ s.needPassword
                            \/ s.delete # "none" \/ s.unmounted

(* What a comment says, and the code does not keep.                        *)

\* storage.js: the key is only ever written after a successful join, so it is
\* known to be the right one (saveRoomKey; a second tab's join by the token
\* of the first saves the key it has).
StoredKeyIsRight == stored.key \in {RightKey, "none"}

=============================================================================
