---------------------------- MODULE JudgeSession ----------------------------
(***************************************************************************)
(* The judges' connection to a room: the page's useJudgeSocket             *)
(* (spa/src/hooks/useWebSocket.ts), the tickets (server/src/auth/          *)
(* identity.ts, routes/judge.ts) and the admission of a socket to a room   *)
(* (server/src/ws/judge.ts; ws/contestant.ts is the same without tickets), *)
(* while administrators archive the room and bring it back                 *)
(* (routes/admin.ts, spa/src/pages/Rooms.tsx).                             *)
(*                                                                         *)
(* A connection is one call of connect(): asking for a ticket, the answer, *)
(* the socket, its end.  The generation number and the cancelled flag of   *)
(* the page come to one thing: which connection isLatest() holds for.  The *)
(* two ends of a socket learn of its end separately, and the server's may  *)
(* learn of it while it looks the room up, before its listeners are there. *)
(*                                                                         *)
(* Only the order of timeouts is modelled: reconnect delays, the tickets'  *)
(* thirty seconds and the heartbeat's ninety are unbounded.  Connections   *)
(* that are over on both sides are used again.                             *)
(***************************************************************************)
EXTENDS Integers, FiniteSets, SequencesExt

CONSTANTS Pages, Rooms,
          Access,           \* the rooms of the judges' groups
          Conns,
          Cap,              \* ROOM_CONNECTION_CAP
          MaxTickets,
          MaxFaults,        \* bound: room changes, returns to the foreground,
                            \* failures, expiries, restarts and clicks of an
                            \* administrator
          None

ASSUME SessionAssumption ==
  /\ Access \subseteq Rooms
  /\ Cap \in Nat \ {0} /\ MaxTickets \in Nat \ {0} /\ MaxFaults \in Nat
  /\ None \notin Rooms \cup Conns

VARIABLES
  page,         \* the hook: room, the latest connection, socketRef, timersRef,
                \* the status pill
  shown,        \* the room of the timer and the queue in the page's store
  timers,       \* timers that will fire: [kind, conn]
  conn,         \* connections: page, room, the two ends
  tickets,      \* the ticket cache, in order of minting; None: a ticket whose
                \* connection is over
  nExpired,     \* how many of the oldest tickets are too old
  archived,     \* rooms.archived_at is set
  admin,        \* requests of administrators between reading the row and writing
  faults

ticketVars == <<tickets, nExpired>>
adminVars == <<archived, admin>>
serverVars == <<ticketVars, adminVars>>
vars == <<page, shown, timers, conn, serverVars, faults>>

Page == [room : Rooms \cup {None}, latest : Conns \cup {None},
         socket : Conns \cup {None}, reconnect : Conns \cup {None},
         ping : Conns \cup {None}, status : {"idle", "dialing", "connected"}]
Conn == [page : Pages, room : Rooms \cup {None},
         client : {"asking", "answered", "connecting", "open", "down", "done"},
         server : {"none", "looking", "lost", "member", "leaked", "closed"}]
AdminRequest == [archive : BOOLEAN, room : Rooms]
Timer == [kind : {"reconnect", "ping"}, conn : Conns]

TypeOK ==
  /\ page \in [Pages -> Page]
  /\ shown \in [Pages -> Rooms \cup {None}]
  /\ timers \subseteq Timer
  /\ conn \in [Conns -> Conn]
  /\ tickets \in Seq(Conns \cup {None}) /\ Len(tickets) <= MaxTickets
  /\ nExpired \in 0..Len(tickets)
  /\ archived \subseteq Rooms
  /\ admin \subseteq AdminRequest
  /\ faults \in 0..MaxFaults

Init ==
  /\ page = [p \in Pages |-> [room |-> None, latest |-> None, socket |-> None,
                              reconnect |-> None, ping |-> None, status |-> "idle"]]
  /\ shown = [p \in Pages |-> None]
  /\ timers = {}
  /\ \E p \in Pages : conn = [c \in Conns |->
       [page |-> p, room |-> None, client |-> "done", server |-> "none"]]
  /\ tickets = <<>>
  /\ nExpired = 0
  /\ archived = {}
  /\ admin = {}
  /\ faults = 0

Fault == faults < MaxFaults /\ faults' = faults + 1

IsLatest(c) == page[conn[c].page].latest = c
IsCurrent(c) == page[conn[c].page].socket = c
Alive(c) == conn[c].client \in {"connecting", "open"}

\* Nothing in the page or on the server will mention c again.
Over(c) ==
  /\ conn[c].client = "done"
  /\ conn[c].server \in {"none", "closed"}
  /\ \A t \in timers : t.conn # c
----------------------------------------------------------------------------
(* The page *)

ReconnectOf(c) == [kind |-> "reconnect", conn |-> c]
PingOf(c) == [kind |-> "ping", conn |-> c]

\* Seeded fault: the pings of the socket that is replaced go on.
WithoutReconnect(pg) == timers \ {ReconnectOf(pg.reconnect)}

\* cleanupTimers: what is left of the timers.
Without(pg) == timers \ {ReconnectOf(pg.reconnect), PingOf(pg.ping)}
NoTimers(pg) == [pg EXCEPT !.reconnect = None, !.ping = None]

\* close() of the socket the page held, if it held one.
Detached(cs, s) ==
  [c \in Conns |-> IF c = s /\ Alive(c) THEN [cs[c] EXCEPT !.client = "down"] ELSE cs[c]]

\* The page that starts connection c, and what connect() does up to the await.
Dialing(pg, c) == [pg EXCEPT !.latest = c, !.status = "dialing"]
Asking(cs, p, r, c) ==
  [cs EXCEPT ![c] = [page |-> p, room |-> r, client |-> "asking", server |-> "none"]]
Forgotten(c) == [i \in DOMAIN tickets |-> IF tickets[i] = c THEN None ELSE tickets[i]]

\* Clean up, and connect to r: when the page changes rooms, and when it comes to
\* the foreground and its socket is not open.
Reopen(p, r, c) ==
  /\ Over(c)
  /\ page' = [page EXCEPT ![p] = Dialing([NoTimers(@) EXCEPT !.room = r, !.socket = None], c)]
  /\ timers' = Without(page[p])
  /\ conn' = Asking(Detached(conn, page[p].socket), p, r, c)
  /\ tickets' = Forgotten(c)
  /\ UNCHANGED <<shown, nExpired, adminVars>>

EnterRoom(p, r, c) ==
  /\ r # page[p].room
  /\ Fault
  /\ Reopen(p, r, c)

\* The effect's cleanup alone: the page leaves.  In-flight connects are cancelled.
LeaveRoom(p) ==
  /\ page[p].room # None
  /\ Fault
  /\ page' = [page EXCEPT ![p] = [NoTimers(@) EXCEPT
                !.room = None, !.latest = None, !.socket = None, !.status = "idle"]]
  /\ timers' = Without(page[p])
  /\ conn' = Detached(conn, page[p].socket)
  /\ UNCHANGED <<shown, serverVars>>

\* onVisible.
Visible(p, c) ==
  /\ page[p].room # None
  /\ page[p].socket # None => conn[page[p].socket].client # "open"
  /\ Fault
  /\ Reopen(p, page[p].room, c)

\* The callback of scheduleReconnect.  Its id stays in timersRef, where clearing it
\* later does nothing, as if it were gone.
ReconnectFires(t, c) ==
  LET p == conn[t.conn].page
  IN /\ t.kind = "reconnect"
     /\ timers' = timers \ {t}
     /\ page[p].room # None
     /\ Over(c)
     /\ page' = [page EXCEPT ![p] = Dialing([@ EXCEPT !.reconnect = None], c)]
     /\ conn' = Asking(conn, p, page[p].room, c)
     /\ tickets' = Forgotten(c)
     /\ UNCHANGED <<shown, nExpired, adminVars, faults>>

\* scheduleReconnect of the page p, for the end of c.
Scheduled(pg, c) == [pg EXCEPT !.reconnect = c, !.status = "dialing"]

\* Seeded fault: a request for a ticket that fails is only logged.
TicketFailsQuietly(c) ==
  /\ conn[c].client = "asking"
  /\ Fault
  /\ conn' = [conn EXCEPT ![c].client = "done"]
  /\ UNCHANGED <<page, shown, timers, serverVars>>

\* The request for a ticket fails.
TicketFails(c) ==
  /\ conn[c].client = "asking"
  /\ Fault
  /\ conn' = [conn EXCEPT ![c].client = "done"]
  /\ IF IsLatest(c)
     THEN /\ page' = [page EXCEPT ![conn[c].page] = Scheduled(@, c)]
          /\ timers' = timers \cup {ReconnectOf(c)}
     ELSE UNCHANGED <<page, timers>>
  /\ UNCHANGED <<shown, serverVars>>

\* Seeded fault: the answer is used whether or not its connect() is the latest.
TicketAnsweredLate(c) ==
  /\ conn[c].client = "answered"
  /\ conn' = [conn EXCEPT ![c].client = "connecting"]
  /\ page' = [page EXCEPT ![conn[c].page].socket = c]
  /\ UNCHANGED <<shown, timers, serverVars, faults>>

TicketAnswered(c) ==
  /\ conn[c].client = "answered"
  /\ conn' = [conn EXCEPT ![c].client = IF IsLatest(c) THEN "connecting" ELSE "done"]
  /\ page' = IF IsLatest(c) THEN [page EXCEPT ![conn[c].page].socket = c] ELSE page
  /\ UNCHANGED <<shown, timers, serverVars, faults>>

\* The open event; the ping timers stand for the four of the warm-up and the
\* interval, which are set and cleared together.
Opens(c) ==
  /\ conn[c].client = "connecting"
  /\ conn[c].server # "none"
  /\ conn' = [conn EXCEPT ![c].client = "open"]
  /\ IF IsCurrent(c)
     THEN /\ page' = [page EXCEPT ![conn[c].page].ping = c,
                                  ![conn[c].page].status = "connected"]
          /\ timers' = timers \cup {PingOf(c)}
     ELSE UNCHANGED <<page, timers>>
  /\ UNCHANGED <<shown, serverVars, faults>>

\* The socket is no longer open: the server closed it, or the network did.
Drops(c) ==
  /\ Alive(c)
  /\ \/ conn[c].server = "closed" /\ UNCHANGED faults
     \/ Fault
  /\ conn' = [conn EXCEPT ![c].client = "down"]
  /\ UNCHANGED <<page, shown, timers, serverVars>>

\* Seeded fault: the close event of a replaced socket is acted on as well.
CloseEventStale(c) ==
  /\ conn[c].client = "down"
  /\ conn' = [conn EXCEPT ![c].client = "done"]
  /\ page[conn[c].page].room # None
  /\ page' = [page EXCEPT ![conn[c].page] = Scheduled([NoTimers(@) EXCEPT !.socket = None], c)]
  /\ timers' = Without(page[conn[c].page]) \cup {ReconnectOf(c)}
  /\ UNCHANGED <<shown, serverVars, faults>>

CloseEvent(c) ==
  /\ conn[c].client = "down"
  /\ conn' = [conn EXCEPT ![c].client = "done"]
  /\ IF IsCurrent(c)
     THEN /\ page' = [page EXCEPT ![conn[c].page] =
                        Scheduled([NoTimers(@) EXCEPT !.socket = None], c)]
          /\ timers' = Without(page[conn[c].page]) \cup {ReconnectOf(c)}
     ELSE UNCHANGED <<page, timers>>
  /\ UNCHANGED <<shown, serverVars, faults>>

\* A STATE or HELP_QUEUE frame.
Frame(c) ==
  /\ conn[c].client = "open"
  /\ conn[c].server = "member"
  /\ IsCurrent(c)
  /\ shown' = [shown EXCEPT ![conn[c].page] = conn[c].room]
  /\ UNCHANGED <<page, timers, conn, serverVars, faults>>
----------------------------------------------------------------------------
(* The server *)

\* POST /api/judge/ticket: prune, make room, mint.
TicketMinted(c) ==
  LET valid == SubSeq(tickets, nExpired + 1, Len(tickets))
      kept == IF Len(valid) >= MaxTickets THEN Tail(valid) ELSE valid
  IN /\ conn[c].client = "asking"
     /\ conn' = [conn EXCEPT ![c].client = "answered"]
     /\ tickets' = Append(kept, c)
     /\ nExpired' = 0
     /\ UNCHANGED <<page, shown, timers, adminVars, faults>>

TicketExpires ==
  /\ nExpired < Len(tickets)
  /\ Fault
  /\ nExpired' = nExpired + 1
  /\ UNCHANGED <<page, shown, timers, conn, tickets, adminVars>>

\* The upgrade is done before the handler runs; the page may have given up.
Upgraded(c) ==
  /\ conn[c].client \in {"connecting", "down"}
  /\ conn[c].server = "none"
  /\ conn' = [conn EXCEPT ![c].server = "looking"]
  /\ UNCHANGED <<page, shown, timers, serverVars, faults>>

\* room.judges, closed sockets that nothing will remove included.
Members(r) == {c \in Conns : conn[c].room = r /\ conn[c].server \in {"member", "leaked"}}
Leaked(r) == {c \in Conns : conn[c].room = r /\ conn[c].server = "leaked"}

Position(c) == CHOOSE i \in DOMAIN tickets : tickets[i] = c
Holds(c) == \E i \in DOMAIN tickets : tickets[i] = c

\* The handler after its await: the ticket is redeemed, and the socket is let in
\* or closed.  One that closed during the await is let in like any other: the
\* listener for its end comes too late.
Admit(c) ==
  LET admitted == /\ Holds(c) /\ Position(c) > nExpired
                  /\ conn[c].room \in Access
                  /\ Cardinality(Members(conn[c].room)) < Cap
  IN /\ conn[c].server \in {"looking", "lost"}
     /\ conn[c].room \notin archived
     /\ conn' = [conn EXCEPT ![c].server =
          IF ~admitted THEN "closed" ELSE IF @ = "lost" THEN "leaked" ELSE "member"]
     /\ IF Holds(c)
        THEN /\ tickets' = RemoveAt(tickets, Position(c))
             /\ nExpired' = IF Position(c) <= nExpired THEN nExpired - 1 ELSE nExpired
        ELSE UNCHANGED ticketVars
     /\ UNCHANGED <<page, shown, timers, adminVars, faults>>

\* The room is archived, or the database away: refused, and the ticket kept.
LookupFails(c) ==
  /\ conn[c].server \in {"looking", "lost"}
  /\ \/ conn[c].room \in archived /\ UNCHANGED faults
     \/ Fault
  /\ conn' = [conn EXCEPT ![c].server = "closed"]
  /\ UNCHANGED <<page, shown, timers, serverVars>>

\* The server's end of the socket closes after the page's.
PeerCloses(c) ==
  /\ conn[c].client \in {"down", "done"}
  /\ conn[c].server \in {"looking", "member"}
  /\ conn' = [conn EXCEPT ![c].server = IF @ = "looking" THEN "lost" ELSE "closed"]
  /\ UNCHANGED <<page, shown, timers, serverVars, faults>>

\* Ninety seconds without a frame.  A socket that is closed already has no close
\* event left to come, so for a leaked one nothing happens.
Heartbeat(c) ==
  /\ conn[c].server = "member"
  /\ conn[c].client # "connecting"
  /\ PingOf(c) \notin timers
  /\ conn' = [conn EXCEPT ![c].server = "closed"]
  /\ UNCHANGED <<page, shown, timers, serverVars, faults>>

ServerRestarts ==
  /\ Fault
  /\ conn' = [c \in Conns |-> IF conn[c].server = "none" THEN conn[c]
                              ELSE [conn[c] EXCEPT !.server = "closed"]]
  /\ tickets' = <<>>
  /\ nExpired' = 0
  /\ admin' = {}
  /\ UNCHANGED <<page, shown, timers, archived>>

\* POST /api/admin/rooms/:id/archive and unarchive: a row that is so already is
\* answered at once ...
ArchivingAsked(r, archive) ==
  /\ r \in archived <=> ~archive
  /\ Fault
  /\ admin' = admin \cup {[archive |-> archive, room |-> r]}
  /\ UNCHANGED <<page, shown, timers, conn, ticketVars, archived>>

\* ... any other is written after an await.  Sockets that are open stay open.
ArchivingWritten(a) ==
  /\ admin' = admin \ {a}
  /\ archived' = IF a.archive THEN archived \cup {a.room} ELSE archived \ {a.room}
  /\ UNCHANGED <<page, shown, timers, conn, ticketVars, faults>>
----------------------------------------------------------------------------
ClientStep ==
  \/ \E t \in timers, c \in Conns : ReconnectFires(t, c)
  \/ \E c \in Conns : TicketAnswered(c) \/ Opens(c) \/ CloseEvent(c)
ServerStep ==
  \E c \in Conns : TicketMinted(c) \/ Upgraded(c) \/ Admit(c) \/ Heartbeat(c)

Next ==
  \/ \E p \in Pages, c \in Conns : Visible(p, c) \/ \E r \in Rooms : EnterRoom(p, r, c)
  \/ \E p \in Pages : LeaveRoom(p)
  \/ ClientStep
  \/ ServerStep
  \/ \E c \in Conns : \/ TicketFails(c)
                      \/ Drops(c)
                      \/ Frame(c)
                      \/ LookupFails(c)
                      \/ PeerCloses(c)
  \/ TicketExpires
  \/ ServerRestarts
  \/ \E r \in Rooms, archive \in BOOLEAN : ArchivingAsked(r, archive)
  \/ \E a \in admin : ArchivingWritten(a)

\* Timers fire, answers and events arrive, and the server's handlers run; the
\* network may lose anything and a judge need not do anything.
Fairness ==
  /\ \A t \in Timer : WF_vars(t \in timers /\ \E c \in Conns : ReconnectFires(t, c))
  /\ \A c \in Conns : /\ WF_vars(TicketAnswered(c)) /\ WF_vars(Opens(c))
                      /\ WF_vars(CloseEvent(c)) /\ WF_vars(TicketMinted(c))
                      /\ WF_vars(Upgraded(c)) /\ WF_vars(Admit(c))
                      /\ WF_vars(Heartbeat(c))
                      /\ WF_vars(conn[c].room \in archived /\ LookupFails(c))
                      /\ WF_vars(conn[c].server = "closed" /\ Drops(c))

Spec == Init /\ [][Next]_vars /\ Fairness
----------------------------------------------------------------------------
(* Properties *)

\* However room changes, returns to the foreground, late tickets and late close
\* events interleave, a page has one socket: no other of its sockets is open or
\* opening (useWebSocket.ts: connectGen, cancelled, the detaching of stale sockets).
OneSocket ==
  \A c \in Conns : Alive(c) => IsCurrent(c)

\* Every timer that will fire is the one the page would clear, pings are sent
\* for the socket the page holds, and a page never has a reconnect coming while
\* it has a socket.
TimersAreTracked ==
  \A t \in timers :
    LET pg == page[conn[t.conn].page]
    IN IF t.kind = "ping" THEN pg.ping = t.conn /\ pg.socket = t.conn
       ELSE pg.reconnect = t.conn /\ pg.socket = None

\* What the page shows changes to the room it is in, never to another one,
\* whichever sockets still deliver frames.
StoreFollowsRoom ==
  [][\A p \in Pages : shown'[p] # shown[p] => shown'[p] = page'[p].room]_vars

\* A page in a room is never stuck: it holds a socket, or waits for the ticket of
\* its latest connect(), or has a reconnect coming, and only one of them.
AlwaysUnderWay ==
  \A p \in Pages :
    LET pg == page[p]
        asking == pg.latest # None /\ conn[pg.latest].client \in {"asking", "answered"}
        waiting == \E c \in Conns : conn[c].page = p /\ ReconnectOf(c) \in timers
    IN IF pg.room = None THEN pg.socket = None /\ ~asking /\ ~waiting
       ELSE \/ pg.socket # None /\ ~asking /\ ~waiting
            \/ pg.socket = None /\ (asking # waiting)

Connected(p) ==
  /\ page[p].socket # None
  /\ conn[page[p].socket].client = "open"
  /\ conn[page[p].socket].server = "member"

\* Once failures stop, a page that stays in a room it has access to is connected
\* to it for good, without being reloaded, if the room is not archived, or no
\* longer; unless closed sockets that were let in hold all the places.
EventuallyConnected ==
  \A p \in Pages :
    <>[](\/ page[p].room \notin Access \ archived
         \/ Connected(p)
         \/ Cardinality(Leaked(page[p].room)) >= Cap)
=============================================================================
