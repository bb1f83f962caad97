---------------------------- MODULE HelpProtocol ----------------------------
(***************************************************************************)
(* One contestant's call for help, end to end:                             *)
(*   the host  - AppState of the desktop backend (src-tauri/app_state.rs), *)
(*               which the shortcuts' IPC calls read and change;           *)
(*   the page  - the overlay (Overlay.tsx) and its WsClient (ws-client.ts),*)
(*               which owns the WebSocket and the offline queue;           *)
(*   the server - the contestant's sockets (ws/contestant.ts) and place in *)
(*               the help queue (HelpEntries and HelpRoom say the rest).   *)
(*                                                                         *)
(* Host and page exchange Tauri events, which arrive in order in each      *)
(* direction; the IPC listener serves one call at a time.  A connection    *)
(* delivers in order until it breaks, when either end may learn of it      *)
(* first.  The server listens to a socket only after it has looked up the  *)
(* room; a frame that arrives earlier finds no listener and is dropped.    *)
(***************************************************************************)
EXTENDS Integers, Sequences

CONSTANTS MaxCalls,       \* bound: IPC calls that are not refused
          MaxFaults,      \* bound: connections that fail, server restarts and
                          \* changes of the preferences, together
          MaxMoves        \* bound: calls and faults together

ASSUME ProtocolBounds == MaxCalls \in Nat /\ MaxFaults \in Nat /\ MaxMoves \in Nat

VARIABLES
  host,      \* AppState.inner: helpPending, helpQueuedOffline, connected
  call,      \* the status do_help_request is about to record
  toPage,    \* Tauri events on their way to the overlay
  toHost,    \* Tauri events on their way to the backend
  client,    \* the current WsClient's requestQueued, outstanding, cancelQueued
  phase,     \* of its WebSocket
  conn,      \* its connection's number
  dirty,     \* bootstrap has changed and its effect has not run
  leaving,   \* sockets of stopped clients whose onclose has not run
  link,      \* each connection: frames on their way and the server's end
  inQueue,   \* the contestant is in RoomState.helpQueue
  faults,    \* history: faults so far
  asked,     \* history: IPC calls that requested help
  cancels,   \* history: IPC calls that cancelled it
  entered,   \* history: times the contestant entered the queue
  wanted,    \* history: the last call was a request, and no ack took it
  troubled   \* history: a frame was lost, or two crossed, or a client or
             \* the server forgot, as the actions say

vars == <<host, call, toPage, toHost, client, phase, conn, dirty, leaving, link,
          inQueue, faults, asked, cancels, entered, wanted, troubled>>

hostVars   == <<host, call>>
pageVars   == <<client, phase, conn, dirty, leaving>>
countVars  == <<faults, asked, cancels>>
serverVars == <<inQueue, entered>>

Conns   == 1..MaxFaults + 1     \* each fault makes the page connect once
Frames  == {"HELP_REQUEST", "HELP_CANCEL"}
Events  == {"send-help-request", "send-help-cancel", "preferences-changed"}
Reports == [event : {"connection-changed", "help-pending-changed"}, value : BOOLEAN]

Client == [requestQueued : BOOLEAN, outstanding : BOOLEAN, cancelQueued : BOOLEAN]

Link == [ up : Seq(Frames), acks : Nat,      \* HELP_ACKED frames on their way
          server : {"none", "admitting", "listening", "closed"} ]

TypeOK ==
  /\ host \in [helpPending : BOOLEAN, helpQueuedOffline : BOOLEAN, connected : BOOLEAN]
  /\ call \in {"none", "requested", "queued_offline"}
  /\ toPage \in Seq(Events) /\ toHost \in Seq(Reports)
  /\ client \in Client
  /\ phase \in {"waiting", "connecting", "open", "closing"}
  /\ conn \in Conns /\ leaving \subseteq Conns
  /\ link \in [Conns -> Link]
  /\ dirty \in BOOLEAN /\ inQueue \in BOOLEAN
  /\ wanted \in BOOLEAN /\ troubled \in BOOLEAN
  /\ faults \in 0..MaxFaults
  /\ asked \in Nat /\ cancels \in Nat /\ entered \in Nat

NewClient == [requestQueued |-> FALSE, outstanding |-> FALSE, cancelQueued |-> FALSE]
NoLink    == [up |-> <<>>, acks |-> 0, server |-> "none"]

\* The page has its bootstrap and has started its first client.
Init ==
  /\ host = [helpPending |-> FALSE, helpQueuedOffline |-> FALSE, connected |-> FALSE]
  /\ call = "none"
  /\ toPage = <<>> /\ toHost = <<>>
  /\ client = NewClient /\ phase = "connecting" /\ conn = 1
  /\ dirty = FALSE /\ leaving = {}
  /\ link = [c \in Conns |-> IF c = 1 THEN [NoLink EXCEPT !.server = "admitting"] ELSE NoLink]
  /\ inQueue = FALSE
  /\ faults = 0
  /\ asked = 0 /\ cancels = 0 /\ entered = 0
  /\ wanted = FALSE /\ troubled = FALSE

MayMove == asked + cancels + faults < MaxMoves
Fault   == MayMove /\ faults < MaxFaults /\ faults' = faults + 1

Trouble(happened) == troubled' = (troubled \/ happened)
----------------------------------------------------------------------------
(* The host *)

Pending == host.helpPending \/ host.helpQueuedOffline

\* do_help_request up to its emit; a call while Pending changes nothing.
IpcHelpRequest ==
  /\ call = "none" /\ ~Pending /\ asked + cancels < MaxCalls /\ MayMove
  /\ call' = IF host.connected THEN "requested" ELSE "queued_offline"
  /\ toPage' = Append(toPage, "send-help-request")
  /\ asked' = asked + 1 /\ wanted' = TRUE
  /\ UNCHANGED <<host, toHost, link, faults, cancels, troubled>>
  /\ UNCHANGED <<pageVars, serverVars>>

\* The flag do_help_request sets after the emit; a report that arrived in
\* between is overwritten.
IpcRequestReturns ==
  /\ call # "none"
  /\ call' = "none"
  /\ host' = IF call = "requested" THEN [host EXCEPT !.helpPending = TRUE]
                                   ELSE [host EXCEPT !.helpQueuedOffline = TRUE]
  /\ UNCHANGED <<toPage, toHost, link, wanted, troubled>>
  /\ UNCHANGED <<pageVars, serverVars, countVars>>

\* do_help_cancel.
IpcHelpCancel ==
  /\ call = "none" /\ Pending /\ asked + cancels < MaxCalls /\ MayMove
  /\ host' = [host EXCEPT !.helpPending = FALSE, !.helpQueuedOffline = FALSE]
  /\ toPage' = Append(toPage, "send-help-cancel")
  /\ cancels' = cancels + 1 /\ wanted' = FALSE
  /\ UNCHANGED <<call, toHost, link, faults, asked, troubled>>
  /\ UNCHANGED <<pageVars, serverVars>>

\* persist_preferences or save_preferences: the corner, alarm or flash is
\* changed, or the timer shown or hidden.
ChangePreferences ==
  /\ Fault
  /\ toPage' = Append(toPage, "preferences-changed")
  /\ UNCHANGED <<toHost, link, asked, cancels, wanted, troubled>>
  /\ UNCHANGED <<hostVars, pageVars, serverVars>>

\* set_connected and mark_help_pending.
HostHears ==
  /\ toHost # <<>>
  /\ toHost' = Tail(toHost)
  /\ LET report == Head(toHost)
     IN /\ host' =
             IF report.event = "connection-changed" THEN [host EXCEPT !.connected = report.value]
             ELSE IF report.value THEN [host EXCEPT !.helpPending = TRUE]
             ELSE [host EXCEPT !.helpPending = FALSE, !.helpQueuedOffline = FALSE]
        /\ Trouble(call # "none" /\ report = [event |-> "help-pending-changed", value |-> FALSE])
  /\ UNCHANGED <<call, toPage, link, wanted>>
  /\ UNCHANGED <<pageVars, serverVars, countVars>>
----------------------------------------------------------------------------
(* The WsClient: each handler's new state, the frame it sends, if any, and *)
(* what it reports to onHelpPendingChanged.                                *)

Outcome(k, frames, reports) == [client |-> k, frames |-> frames, reports |-> reports]

\* Seeded fault: a queued cancel outlives a new request.
SendHelpRequestOnly(k, open) ==
  IF open THEN Outcome([k EXCEPT !.outstanding = TRUE], <<"HELP_REQUEST">>, <<TRUE>>)
          ELSE Outcome([k EXCEPT !.requestQueued = TRUE], <<>>, <<>>)

SendHelpRequest(k, open) ==
  LET clear == [k EXCEPT !.cancelQueued = FALSE]
  IN IF open THEN Outcome([clear EXCEPT !.outstanding = TRUE], <<"HELP_REQUEST">>, <<TRUE>>)
             ELSE Outcome([clear EXCEPT !.requestQueued = TRUE], <<>>, <<>>)

\* Seeded fault: a cancel made offline is dropped.
SendHelpCancelOnline(k, open) ==
  LET clear == [k EXCEPT !.requestQueued = FALSE]
  IN IF k.requestQueued /\ ~k.outstanding THEN Outcome(clear, <<>>, <<FALSE>>)
     ELSE IF open THEN Outcome([clear EXCEPT !.outstanding = FALSE, !.cancelQueued = FALSE],
                               <<"HELP_CANCEL">>, <<FALSE>>)
     ELSE Outcome(clear, <<>>, <<>>)

SendHelpCancel(k, open) ==
  LET clear == [k EXCEPT !.requestQueued = FALSE]
  IN IF k.requestQueued /\ ~k.outstanding THEN Outcome(clear, <<>>, <<FALSE>>)
     ELSE IF open THEN Outcome([clear EXCEPT !.outstanding = FALSE, !.cancelQueued = FALSE],
                               <<"HELP_CANCEL">>, <<FALSE>>)
     ELSE Outcome([clear EXCEPT !.cancelQueued = @ \/ k.outstanding], <<>>, <<>>)

\* Seeded faults: a flushed request stays queued; onopen only sends cancels.
FlushAgain(k) ==
  IF k.cancelQueued THEN Outcome([k EXCEPT !.cancelQueued = FALSE, !.outstanding = FALSE],
                                 <<"HELP_CANCEL">>, <<FALSE>>)
  ELSE IF k.requestQueued THEN Outcome([k EXCEPT !.outstanding = TRUE], <<"HELP_REQUEST">>, <<TRUE>>)
  ELSE Outcome(k, <<>>, <<>>)
FlushCancel(k) ==
  IF k.cancelQueued THEN Outcome([k EXCEPT !.cancelQueued = FALSE, !.outstanding = FALSE],
                                 <<"HELP_CANCEL">>, <<FALSE>>)
  ELSE Outcome(k, <<>>, <<>>)

\* What onopen does with what was queued while the socket was down.
Flush(k) ==
  IF k.cancelQueued
  THEN IF k.requestQueued
       THEN Outcome([k EXCEPT !.requestQueued = FALSE, !.cancelQueued = FALSE], <<>>, <<FALSE>>)
       ELSE IF k.outstanding
       THEN Outcome([k EXCEPT !.cancelQueued = FALSE, !.outstanding = FALSE],
                    <<"HELP_CANCEL">>, <<FALSE>>)
       ELSE Outcome(k, <<>>, <<>>)
  ELSE IF k.requestQueued
  THEN Outcome([k EXCEPT !.requestQueued = FALSE, !.outstanding = TRUE], <<"HELP_REQUEST">>, <<TRUE>>)
  ELSE Outcome(k, <<>>, <<>>)

HelpAcked(k) ==
  Outcome(NewClient, <<>>, IF k.outstanding THEN <<FALSE>> ELSE <<>>)

PendingReports(values) ==
  [i \in DOMAIN values |-> [event |-> "help-pending-changed", value |-> values[i]]]
ConnectionReport(value) == <<[event |-> "connection-changed", value |-> value]>>

\* A handler of the client ends as o says, after it reported first.
ClientStep(o, first) ==
  /\ client' = o.client
  /\ toHost' = toHost \o first \o PendingReports(o.reports)
----------------------------------------------------------------------------
(* The page *)

PageHearsCall ==
  /\ toPage # <<>> /\ Head(toPage) # "preferences-changed"
  /\ toPage' = Tail(toPage)
  /\ LET open == phase = "open"
         o == IF Head(toPage) = "send-help-request" THEN SendHelpRequest(client, open)
                                                    ELSE SendHelpCancel(client, open)
     IN /\ ClientStep(o, <<>>)
        /\ link' = [link EXCEPT ![conn].up = @ \o o.frames]
        \* a frame crosses the ack of an earlier request
        /\ Trouble(o.frames # <<>> /\ link[conn].acks > 0)
  /\ UNCHANGED <<phase, conn, dirty, leaving, wanted>>
  /\ UNCHANGED <<hostVars, serverVars, countVars>>

PageHearsPreferences ==
  /\ toPage # <<>> /\ Head(toPage) = "preferences-changed"
  /\ toPage' = Tail(toPage)
  /\ dirty' = TRUE
  /\ UNCHANGED <<toHost, client, phase, conn, leaving, link, wanted, troubled>>
  /\ UNCHANGED <<hostVars, serverVars, countVars>>

\* connect(): a new WebSocket.
Connect ==
  /\ conn' = conn + 1
  /\ phase' = "connecting"
  /\ link' = [link EXCEPT ![conn + 1].server = "admitting", ![conn].acks = 0]

\* The effect on [bootstrap]: the old client is stopped, a new one started.
\* Whatever the old one knew is forgotten.
ReplaceClient ==
  /\ dirty /\ dirty' = FALSE
  /\ Connect
  /\ client' = NewClient
  /\ leaving' = IF phase = "waiting" THEN leaving ELSE leaving \cup {conn}
  /\ Trouble(client # NewClient \/ link[conn].up # <<>>)
  /\ UNCHANGED <<toPage, toHost, wanted>>
  /\ UNCHANGED <<hostVars, serverVars, countVars>>

Reconnect ==
  /\ phase = "waiting"
  /\ Connect
  /\ UNCHANGED <<toPage, toHost, client, dirty, leaving, wanted, troubled>>
  /\ UNCHANGED <<hostVars, serverVars, countVars>>

OnOpen ==
  /\ phase = "connecting" /\ link[conn].server \in {"admitting", "listening"}
  /\ phase' = "open"
  /\ LET o == Flush(client)
     IN /\ ClientStep(o, ConnectionReport(TRUE))
        /\ link' = [link EXCEPT ![conn].up = @ \o o.frames]
        /\ Trouble(o.frames # <<>> /\ link[conn].acks > 0)
  /\ UNCHANGED <<toPage, conn, dirty, leaving, wanted>>
  /\ UNCHANGED <<hostVars, serverVars, countVars>>

OnHelpAcked ==
  /\ phase = "open" /\ link[conn].acks > 0
  /\ link' = [link EXCEPT ![conn].acks = @ - 1]
  /\ ClientStep(HelpAcked(client), <<>>)
  /\ UNCHANGED <<toPage, phase, conn, dirty, leaving, wanted, troubled>>
  /\ UNCHANGED <<hostVars, serverVars, countVars>>

\* The socket's onclose; the handler schedules the next attempt.
OnClose ==
  /\ phase = "closing"
  /\ phase' = "waiting"
  /\ toHost' = toHost \o ConnectionReport(FALSE)
  /\ UNCHANGED <<toPage, client, conn, dirty, leaving, link, wanted, troubled>>
  /\ UNCHANGED <<hostVars, serverVars, countVars>>

\* The same handler, run late for a stopped client's socket.
OnCloseOfStopped(c) ==
  /\ c \in leaving
  /\ leaving' = leaving \ {c}
  /\ toHost' = toHost \o ConnectionReport(FALSE)
  /\ UNCHANGED <<toPage, client, phase, conn, dirty, link, wanted, troubled>>
  /\ UNCHANGED <<hostVars, serverVars, countVars>>
----------------------------------------------------------------------------
(* The network and the server *)

\* The page's end of the connection fails, while it is set up or later.
\* Frames it sent may still reach the server.
ConnectionFails ==
  /\ phase \in {"connecting", "open"} /\ Fault
  /\ phase' = "closing"
  /\ link' = [link EXCEPT ![conn].acks = 0]
  /\ Trouble(link[conn].up # <<>> \/ link[conn].acks > 0)
  /\ UNCHANGED <<toPage, toHost, client, conn, dirty, leaving, asked, cancels, wanted>>
  /\ UNCHANGED <<hostVars, serverVars>>

\* getRoomByKey has returned and the listeners are attached.
Admit(c) ==
  /\ link[c].server = "admitting"
  /\ link' = [link EXCEPT ![c].server = "listening"]
  /\ UNCHANGED <<toPage, toHost, wanted, troubled>>
  /\ UNCHANGED <<hostVars, pageVars, serverVars, countVars>>

\* A frame reaches a socket the server does not yet listen to.
FrameUnheard(c) ==
  /\ link[c].server = "admitting" /\ link[c].up # <<>>
  /\ link' = [link EXCEPT ![c].up = Tail(@)]
  /\ troubled' = TRUE
  /\ UNCHANGED <<toPage, toHost, wanted>>
  /\ UNCHANGED <<hostVars, pageVars, serverVars, countVars>>

\* handleHelpRequest and handleHelpCancel; a request of someone who waits and
\* a cancel of someone who does not change nothing.
ServerHears(c) ==
  /\ link[c].server = "listening" /\ link[c].up # <<>>
  /\ link' = [link EXCEPT ![c].up = Tail(@)]
  /\ inQueue' = (Head(link[c].up) = "HELP_REQUEST")
  /\ entered' = IF inQueue' /\ ~inQueue THEN entered + 1 ELSE entered
  /\ UNCHANGED <<toPage, toHost, wanted, troubled>>
  /\ UNCHANGED <<hostVars, pageVars, countVars>>

\* The server's end of a connection the page has left.
ServerCloses(c) ==
  /\ link[c].server \in {"admitting", "listening"}
  /\ c # conn \/ phase \in {"closing", "waiting"}
  /\ link' = [link EXCEPT ![c] = [NoLink EXCEPT !.server = "closed"]]
  /\ UNCHANGED <<toPage, toHost, wanted, troubled>>
  /\ UNCHANGED <<hostVars, pageVars, serverVars, countVars>>

\* A judge's HELP_ACK, and notifyContestantHelpAcked: every socket of the
\* contestant in the room is told; only the current one's frames are read.
JudgeAcks ==
  /\ inQueue /\ inQueue' = FALSE
  /\ wanted' = FALSE
  /\ LET told == link[conn].server = "listening" /\ phase \in {"connecting", "open"}
     IN /\ link' = IF told THEN [link EXCEPT ![conn].acks = @ + 1] ELSE link
        \* nobody is told, or frames or calls of the contestant are under way
        /\ Trouble(~told \/ toPage # <<>> \/ \E c \in Conns : link[c].up # <<>>)
  /\ UNCHANGED <<toPage, toHost, entered>>
  /\ UNCHANGED <<hostVars, pageVars, countVars>>

\* The help queue is in memory only; every connection breaks.
Restart ==
  /\ Fault
  /\ inQueue' = FALSE
  /\ link' = [c \in Conns |-> IF link[c].server = "none" THEN link[c]
                              ELSE [NoLink EXCEPT !.server = "closed"]]
  /\ phase' = IF phase \in {"connecting", "open"} THEN "closing" ELSE phase
  /\ Trouble(inQueue \/ \E c \in Conns : link[c].up # <<>> \/ link[c].acks > 0)
  /\ UNCHANGED <<toPage, toHost, client, conn, dirty, leaving, asked, cancels, entered,
                 wanted>>
  /\ UNCHANGED hostVars

HostStep == IpcRequestReturns \/ HostHears
PageStep ==
  \/ PageHearsCall \/ PageHearsPreferences \/ ReplaceClient \/ Reconnect
  \/ OnOpen \/ OnHelpAcked \/ OnClose \/ \E c \in Conns : OnCloseOfStopped(c)
ServerStep ==
  \E c \in Conns : Admit(c) \/ FrameUnheard(c) \/ ServerHears(c) \/ ServerCloses(c)

Next ==
  \/ IpcHelpRequest \/ IpcHelpCancel \/ ChangePreferences \/ ConnectionFails
  \/ JudgeAcks \/ Restart
  \/ HostStep \/ PageStep \/ ServerStep

Spec == Init /\ [][Next]_vars

\* Programs keep running; nobody is obliged to call, acknowledge or fail.
Fairness ==
  /\ WF_vars(HostStep) /\ WF_vars(PageStep)
  /\ \A c \in Conns : WF_vars(Admit(c)) /\ WF_vars(ServerHears(c)) /\ WF_vars(ServerCloses(c))

FairSpec == Spec /\ Fairness
----------------------------------------------------------------------------
(* Properties *)

\* The client never holds a queued request together with a queued cancel,
\* queues a cancel only for a request the server may have, and has flushed
\* both while its socket is open: the last word of the contestant is the one
\* that is sent.
OneThingQueued ==
  /\ client.cancelQueued => client.outstanding /\ ~client.requestQueued
  /\ phase = "open" => ~client.requestQueued /\ ~client.cancelQueued

\* However connections fail, clients are replaced and queued frames flushed,
\* the contestant never enters the queue more often than they asked.
NeverMoreThanAsked == entered <= asked

\* Nothing is under way and the page is connected.
Quiet ==
  /\ call = "none" /\ toPage = <<>> /\ toHost = <<>>
  /\ phase = "open" /\ link[conn].server = "listening" /\ link[conn].acks = 0
  /\ ~dirty /\ leaving = {} /\ \A c \in Conns : link[c].up = <<>>

\* Once everything is delivered, the three views of the call agree with each
\* other and with the contestant's last call, whatever was queued offline and
\* however often the page reconnected, unless one of the mishaps of troubled
\* happened: nothing in the protocol repairs those.
SettledViewsAgree ==
  Quiet /\ ~troubled =>
    /\ Pending = wanted
    /\ client.outstanding = wanted
    /\ inQueue = wanted

\* A request, made online or offline, reaches the queue, unless it is taken
\* back or one of the mishaps happens.
RequestsArrive == wanted ~> (inQueue \/ ~wanted \/ troubled)
=============================================================================
