---------------------------------- MODULE Ui ----------------------------------
(***************************************************************************)
(* The browser page (src/ui/app.js) and what it sees of the gateway: it    *)
(* connects, loses its connection, reconnects by a timer, and asks for the *)
(* history it missed.  JavaScript runs one handler at a time, so each      *)
(* handler is one action; between them sockets open, close and deliver,    *)
(* and the gateway persists, broadcasts, cuts and answers (Gateway and     *)
(* WsServer have the details; here it is a server without faults).         *)
(*                                                                         *)
(* A sample is the number of its reception by the gateway.                 *)
(***************************************************************************)
EXTENDS Integers, Sequences

CONSTANTS MaxSeq,         \* bound: samples the gateway receives
          MaxSockets,     \* bound: WebSockets the page makes
          MaxReqs,        \* bound: clicks on Load history
          LastN           \* the "Last N" input, already clamped to 0..5000

ASSUME UiBoundsAssumption == {MaxSeq, MaxSockets, MaxReqs, LastN} \subseteq Nat

VARIABLES
    \* the page's state
    ws,                   \* state.ws: a socket, or 0 for null
    manualDisconnect, pendingRecovery,
    reconnectTimer,       \* whether it is set
    paused,
    lastLiveSeq,          \* 0 for null
    live, replay,         \* uiLog: the telemetry rows of each source
    latest,               \* the sample renderLatest shows, 0 for none
    online,               \* the buttons: Disconnect, Pause and Load history are
                          \* enabled and Connect is not, or the other way round
    failed,               \* the constructor of the last socket has thrown
    \* the page's sockets
    made,                 \* sockets made so far: they are 1..made
    again,                \* those made by connect(true)
    ready,                \* readyState
    inbox,                \* what has been sent to it and not been delivered
    reqs, loaded,         \* its history_request and history_batch_loaded rows
    window,               \* first sample of the last batch loaded
    clicks,               \* clicks on Load history since state.ws was made
    excused,              \* samples the page ignored, cleared, or never got
                          \* because a cut went on when it was back
    \* the gateway
    link,                 \* its end of a socket: "none", "up", "gone"
    answered,             \* history requests it has answered
    fetched,              \* the last sample persisted when the history was last
                          \* read for the socket, -1 when it never was
    busy,                 \* a history has been read for it and not been sent
    persisted, sent,      \* samples persisted, and broadcast
    cut

sockVars == <<ws, failed, made, again>>
modeVars == <<manualDisconnect, reconnectTimer, online>>
pageVars == <<sockVars, modeVars, pendingRecovery, paused>>
liveVars == <<lastLiveSeq, live>>
logVars == <<liveVars, replay, latest, window, excused>>
askVars == <<reqs, loaded, clicks>>
askedVars == <<answered, fetched, busy>>
gwVars == <<link, askedVars, persisted, sent, cut>>
vars == <<pageVars, logVars, askVars, ready, inbox, gwVars>>

Sockets == 1..MaxSockets
Samples == 1..MaxSeq
Rows == [type : {"telemetry", "history"}, from : 1..(MaxSeq + 1), to : 0..MaxSeq]
        \cup {[type |-> "open"]}

TypeOK ==
    /\ ws \in 0..made
    /\ manualDisconnect \in BOOLEAN /\ pendingRecovery \in BOOLEAN
    /\ reconnectTimer \in BOOLEAN /\ paused \in BOOLEAN
    /\ lastLiveSeq \in 0..MaxSeq /\ latest \in 0..MaxSeq
    /\ live \subseteq Samples /\ replay \subseteq Samples
    /\ online \in BOOLEAN /\ failed \in BOOLEAN
    /\ made \in 0..MaxSockets /\ again \subseteq 1..made
    /\ ready \in [Sockets -> {"none", "connecting", "open", "closing", "closed"}]
    /\ inbox \in [Sockets -> Seq(Rows)]
    /\ reqs \in [Sockets -> 0..(MaxReqs + 1)]
    /\ loaded \in [Sockets -> 0..(MaxReqs + 1)]
    /\ window \in 0..(MaxSeq + 1)
    /\ clicks \in 0..MaxReqs /\ excused \subseteq Samples
    /\ link \in [Sockets -> {"none", "up", "gone"}]
    /\ answered \in [Sockets -> 0..(MaxReqs + 1)]
    /\ fetched \in [Sockets -> -1..MaxSeq] /\ busy \in [Sockets -> BOOLEAN]
    /\ sent \in 0..MaxSeq /\ persisted \in sent..MaxSeq
    /\ cut \in {"before", "on", "fired", "after"}

Init ==
    /\ ws = 0 /\ manualDisconnect = FALSE /\ pendingRecovery = FALSE
    /\ reconnectTimer = FALSE /\ paused = FALSE
    /\ lastLiveSeq = 0 /\ latest = 0 /\ live = {} /\ replay = {}
    /\ online = FALSE /\ failed = FALSE
    /\ made = 0 /\ again = {}
    /\ ready = [k \in Sockets |-> "none"]
    /\ inbox = [k \in Sockets |-> <<>>]
    /\ reqs = [k \in Sockets |-> 0] /\ loaded = [k \in Sockets |-> 0]
    /\ window = 0 /\ clicks = 0 /\ excused = {}
    /\ link = [k \in Sockets |-> "none"]
    /\ answered = [k \in Sockets |-> 0]
    /\ fetched = [k \in Sockets |-> -1] /\ busy = [k \in Sockets |-> FALSE]
    /\ persisted = 0 /\ sent = 0
    /\ cut = "before"

-----------------------------------------------------------------------------
(* connect and disconnect *)

(* WebSocket.close: nothing that arrives afterwards is delivered, and        *)
(* onclose comes later.                                                      *)
Closing(k) == [ready EXCEPT ![k] =
                 IF @ \in {"connecting", "open"} THEN "closing" ELSE @]

(* mutant: the old socket is forgotten without being closed *)
AfterDisconnectMut == ready
AfterDisconnect == IF ws = 0 THEN ready ELSE Closing(ws)

(* connect drops the old socket and the timer and makes a new socket, unless *)
(* the constructor throws, as it does when the inputs form no URL.           *)
Connect(isReconnect) ==
    /\ made < MaxSockets
    /\ manualDisconnect' = FALSE
    /\ reconnectTimer' = FALSE
    /\ clicks' = 0
    /\ \/ /\ made' = made + 1 /\ ws' = made'
          /\ ready' = [AfterDisconnect EXCEPT ![made'] = "connecting"]
          /\ again' = IF isReconnect THEN again \cup {made'} ELSE again
          /\ failed' = FALSE
       \/ /\ ws' = 0 /\ ready' = AfterDisconnect /\ failed' = TRUE
          /\ UNCHANGED <<made, again>>
    /\ UNCHANGED <<paused, online, latest, excused, reqs, loaded, inbox, gwVars>>

(* A run started by hand starts a new log. *)
ResetRunState ==
    /\ live' = {} /\ replay' = {} /\ lastLiveSeq' = 0 /\ window' = 0
    /\ pendingRecovery' = FALSE

(* Connect is disabled only once a socket has opened. *)
ClickConnect ==
    /\ ~online
    /\ Connect(FALSE)
    /\ ResetRunState

ClickDisconnect ==
    /\ online
    /\ manualDisconnect' = TRUE
    /\ reconnectTimer' = FALSE
    /\ ready' = AfterDisconnect /\ ws' = 0
    /\ UNCHANGED <<pendingRecovery, paused, online, failed, made, again, logVars,
                   askVars, inbox, gwVars>>

(* The callback of the reconnect timer. *)
TimerFires ==
    /\ reconnectTimer
    /\ Connect(TRUE)
    /\ pendingRecovery' = TRUE
    /\ UNCHANGED <<liveVars, replay, window>>

-----------------------------------------------------------------------------
(* The handlers of a socket *)

Delivers(k, type) == /\ inbox[k] # <<>> /\ Head(inbox[k]).type = type
                     /\ inbox' = [inbox EXCEPT ![k] = Tail(@)]

(* requestHistory asks on state.ws, if it is open. *)
RequestHistory(open) == [reqs EXCEPT ![open] = @ + (IF LastN > 0 THEN 1 ELSE 0)]

(* mutant: the history is asked for whenever a socket opens *)
AsksMut(k) == ws = k
Asks(k) == pendingRecovery /\ ws = k

OnOpen(k) ==
    /\ ready[k] = "connecting" /\ Delivers(k, "open")
    /\ ready' = [ready EXCEPT ![k] = "open"]
    /\ online' = TRUE
    /\ reconnectTimer' = FALSE
    /\ reqs' = IF Asks(k) THEN RequestHistory(k) ELSE reqs
    /\ UNCHANGED <<sockVars, manualDisconnect, pendingRecovery, paused, logVars,
                   loaded, clicks, gwVars>>

(* mutant: a socket that did not open is not tried again *)
TriesAgainMut == ~manualDisconnect /\ online
TriesAgain == ~manualDisconnect

(* onclose schedules a reconnection, whichever socket has closed. *)
OnClose(k) ==
    /\ \/ ready[k] = "closing"
       \/ ready[k] \in {"connecting", "open"} /\ link[k] = "gone" /\ inbox[k] = <<>>
    /\ ready' = [ready EXCEPT ![k] = "closed"]
    /\ online' = FALSE
    /\ reconnectTimer' = (reconnectTimer \/ TriesAgain)
    /\ UNCHANGED <<sockVars, manualDisconnect, pendingRecovery, paused, logVars,
                   askVars, inbox, gwVars>>

(* handleTelemetry: a paused page ignores the message. *)
OnTelemetry(k) ==
    /\ ready[k] = "open" /\ Delivers(k, "telemetry")
    /\ LET s == Head(inbox[k]).from
       IN IF paused
            THEN /\ excused' = excused \cup {s}
                 /\ UNCHANGED <<pendingRecovery, liveVars, latest>>
            ELSE /\ pendingRecovery' = FALSE
                 /\ lastLiveSeq' = s /\ live' = live \cup {s} /\ latest' = s
                 /\ UNCHANGED excused
    /\ UNCHANGED <<sockVars, modeVars, paused, replay, window, askVars, ready,
                   gwVars>>

(* handleHistory logs the batch even when the page is paused, and shows its *)
(* last item.                                                               *)
OnHistory(k) ==
    /\ ready[k] = "open" /\ Delivers(k, "history")
    /\ LET batch == Head(inbox[k]) IN
         /\ replay' = replay \cup (batch.from..batch.to)
         /\ window' = batch.from
         /\ latest' = IF paused \/ batch.to = 0 THEN latest ELSE batch.to
    /\ loaded' = [loaded EXCEPT ![k] = @ + 1]
    /\ pendingRecovery' = FALSE
    /\ UNCHANGED <<sockVars, modeVars, paused, liveVars, excused, reqs, clicks,
                   ready, gwVars>>

-----------------------------------------------------------------------------
(* The other buttons *)

ClickHistory ==
    /\ online /\ clicks < MaxReqs
    /\ ws # 0 /\ ready[ws] = "open"
    /\ reqs' = RequestHistory(ws)
    /\ clicks' = clicks + 1
    /\ UNCHANGED <<pageVars, logVars, loaded, ready, inbox, gwVars>>

ClickPause ==
    /\ online
    /\ paused' = ~paused
    /\ UNCHANGED <<sockVars, modeVars, pendingRecovery, logVars, askVars, ready,
                   inbox, gwVars>>

ClearAll ==
    /\ excused' = excused \cup live \cup replay
    /\ live' = {} /\ replay' = {} /\ lastLiveSeq' = 0 /\ latest' = 0
    /\ UNCHANGED <<pageVars, window, askVars, ready, inbox, gwVars>>

-----------------------------------------------------------------------------
(* The gateway *)

Sends(k, row) == inbox' = [inbox EXCEPT ![k] = Append(@, row)]

(* The client is in the list by the time its handshake is answered. *)
Accept(k) ==
    /\ ready[k] = "connecting" /\ link[k] = "none"
    /\ link' = [link EXCEPT ![k] = "up"]
    /\ Sends(k, [type |-> "open"])
    /\ UNCHANGED <<pageVars, logVars, askVars, ready, askedVars, persisted, sent,
                   cut>>

(* A connection is refused, or ends; what was under way may be lost. *)
Lose(k) ==
    /\ ready[k] # "none" /\ link[k] # "gone"
    /\ link' = [link EXCEPT ![k] = "gone"]
    /\ \E n \in 0..Len(inbox[k]) :
         inbox' = [inbox EXCEPT ![k] = SubSeq(@, 1, n)]
    /\ UNCHANGED <<pageVars, logVars, askVars, ready, askedVars, persisted, sent,
                   cut>>

Persist ==
    /\ persisted < MaxSeq
    /\ persisted' = persisted + 1
    /\ UNCHANGED <<pageVars, logVars, askVars, ready, inbox, link, askedVars, sent,
                   cut>>

(* mutant: a sample is broadcast before it is persisted *)
ReadyToSendMut == sent <= persisted /\ sent < MaxSeq

(* A sample is broadcast after it has been persisted. *)
ReadyToSend == sent < persisted

Broadcast ==
    /\ ReadyToSend
    /\ cut \notin {"on", "fired"}
    /\ sent' = sent + 1
    /\ inbox' = [k \in Sockets |-> IF link[k] = "up"
                   THEN Append(inbox[k], [type |-> "telemetry", from |-> sent',
                                          to |-> sent'])
                   ELSE inbox[k]]
    /\ UNCHANGED <<pageVars, logVars, askVars, ready, link, askedVars, persisted,
                   cut>>

(* A connection that is up, and whose replay, if one is due, has been read:  *)
(* it can learn of a new sample only from the broadcast.                     *)
Listening(k) == link[k] = "up" /\ (k \in again => fetched[k] >= 0)

(* The first sample of the cut closes all clients, and none is sent, also to *)
(* a page that comes back while the cut goes on.                             *)
BroadcastCut ==
    /\ ReadyToSend
    /\ cut \in {"on", "fired"}
    /\ sent' = sent + 1
    /\ cut' = "fired"
    /\ IF cut = "on"
         THEN /\ link' = [k \in Sockets |-> IF link[k] = "up" THEN "gone" ELSE link[k]]
              /\ UNCHANGED excused
         ELSE /\ excused' = IF \E k \in Sockets : Listening(k)
                              THEN excused \cup {sent'} ELSE excused
              /\ UNCHANGED link
    /\ UNCHANGED <<pageVars, liveVars, replay, latest, window, askVars, ready,
                   inbox, askedVars, persisted>>

(* mutant: the window begins one sample too early *)
FirstRowMut(n) == IF n < LastN THEN 1 ELSE n - LastN

(* ORDER BY received_at_ns DESC LIMIT: where the last LastN of n rows begin. *)
FirstRow(n) == IF n < LastN THEN 1 ELSE n - LastN + 1

(* The thread of a client serves its requests one after the other.  It reads *)
(* the samples that are persisted by then,                                   *)
ReadHistory(k) ==
    /\ link[k] = "up" /\ ~busy[k] /\ answered[k] < reqs[k]
    /\ fetched' = [fetched EXCEPT ![k] = persisted]
    /\ busy' = [busy EXCEPT ![k] = TRUE]
    /\ UNCHANGED <<pageVars, logVars, askVars, ready, inbox, link, answered,
                   persisted, sent, cut>>

(* and then sends them: a batch may go behind samples newer than its last.   *)
SendReply(k) ==
    /\ link[k] = "up" /\ busy[k]
    /\ answered' = [answered EXCEPT ![k] = @ + 1]
    /\ busy' = [busy EXCEPT ![k] = FALSE]
    /\ Sends(k, [type |-> "history", from |-> FirstRow(fetched[k]),
                 to |-> fetched[k]])
    /\ UNCHANGED <<pageVars, logVars, askVars, ready, link, fetched, persisted,
                   sent, cut>>

(* The history cannot be read; the page only logs the error it is sent.      *)
HistoryFails(k) ==
    /\ link[k] = "up" /\ ~busy[k] /\ answered[k] < reqs[k]
    /\ answered' = [answered EXCEPT ![k] = @ + 1]
    /\ UNCHANGED <<pageVars, logVars, askVars, ready, inbox, link, fetched, busy,
                   persisted, sent, cut>>

(* The cut begins and ends. *)
Tick ==
    /\ \/ cut = "before" /\ cut' = "on"
       \/ cut \in {"on", "fired"} /\ cut' = "after"
    /\ UNCHANGED <<pageVars, logVars, askVars, ready, inbox, link, askedVars,
                   persisted, sent>>

PageNext == \/ ClickConnect \/ ClickDisconnect \/ TimerFires
            \/ ClickHistory \/ ClickPause \/ ClearAll
            \/ \E k \in Sockets : \/ OnOpen(k) \/ OnClose(k)
                                  \/ OnTelemetry(k) \/ OnHistory(k)
GatewayNext == \/ \E k \in Sockets : \/ Accept(k) \/ Lose(k) \/ ReadHistory(k)
                                     \/ SendReply(k) \/ HistoryFails(k)
               \/ Persist \/ Broadcast \/ BroadcastCut \/ Tick

Next == PageNext \/ GatewayNext

Spec == Init /\ [][Next]_vars

-----------------------------------------------------------------------------
(* Properties *)

Seen == live \cup replay
Missed == {s \in Samples \ (Seen \cup excused) : \E a, b \in Seen : a < s /\ s < b}

(* At most one socket is connecting or open, and it is state.ws, whatever   *)
(* clicks, timers and late events come (connect calls disconnect first).    *)
OneSocket == \A k \in Sockets : ready[k] \in {"connecting", "open"} => ws = k

(* Once it has made a socket, the page is connected, about to be, or has    *)
(* the timer set that will try again (onclose, scheduleReconnect).  Else it *)
(* was disconnected by hand, or the constructor threw: a reconnection that  *)
(* the timer began ends there, with no new timer (connect's catch).  Then   *)
(* Connect at least is enabled, so that the user can go on.                 *)
NeverStuck == made > 0
    => \/ reconnectTimer
       \/ \E k \in Sockets : ready[k] \in {"connecting", "open", "closing"}
       \/ ~online /\ (manualDisconnect \/ failed)

(* EXPERIMENTS.md:291: but for clicks on Load history, a reconnection asks  *)
(* for the history exactly once, and a first connection never does.         *)
AskedOnce == \A k \in Sockets : ready[k] = "open" /\ LastN > 0 =>
    reqs[k] = clicks + (IF k \in again THEN 1 ELSE 0)

(* Once the batch asked for after a reconnection is in, all that the page   *)
(* has still missed is older than that batch: the live stream and the       *)
(* replay leave no hole between them, whatever is persisted, broadcast or   *)
(* lost between the read of the history and its arrival (accept_thread      *)
(* links the client before the history is read, and what is broadcast is    *)
(* already persisted).                                                      *)
Recovered ==
    ws # 0 /\ ready[ws] = "open" /\ LastN > 0 /\ (ws \in again => loaded[ws] > 0)
        => \A s \in Missed : s < window

(* Each live sample that reaches the page is newer than all it has logged   *)
(* since the run was started or the page cleared, also over reconnections:  *)
(* none is logged twice, and the gap that handleTelemetry computes from     *)
(* lastLiveSeq is never negative.                                           *)
LiveInOrder == \A k \in Sockets :
    ready[k] = "open" /\ inbox[k] # <<>> /\ Head(inbox[k]).type = "telemetry"
        => \A s \in live : s < Head(inbox[k]).from

(* A replay never takes the page back to an older sample than the "Latest   *)
(* sample" (index.html:194) it shows.  It can: handleHistory shows the last *)
(* item of the batch, which may have been read before, and sent after, the  *)
(* live samples that the page has got meanwhile.                            *)
LatestStays == [][loaded' # loaded => latest' >= latest]_vars

=============================================================================
