------------------------ MODULE JudgeSession_proofs ------------------------
(***************************************************************************)
(* For any pages, rooms, connections and bounds: a page has one socket,    *)
(* its timers are its own, it is never stuck, and it shows the room it is  *)
(* in.                                                                     *)
(*                                                                         *)
(* The argument: at any time one connection, the latest, acts for a page.  *)
(* It holds the page's socket while it connects, is open or goes down; a   *)
(* reconnect is coming once it is done; every timer is its timer; and no   *)
(* other connection of the page is alive.                                  *)
(***************************************************************************)
EXTENDS JudgeSession, TLAPS

Types ==
  /\ page \in [Pages -> Page]
  /\ conn \in [Conns -> Conn]
  /\ timers \subseteq Timer

Latest(p) == conn[page[p].latest]
Acting(p) == page[p].latest # None

\* A timer the page would clear is one of the latest connection.
TimersKnown ==
  \A p \in Pages :
    /\ page[p].reconnect # None => page[p].reconnect = page[p].latest
    /\ page[p].ping # None => page[p].ping = page[p].socket

\* The latest connection is one of the page's, to the room the page is in.
LatestIsOurs ==
  \A p \in Pages :
    /\ page[p].room # None <=> Acting(p)
    /\ Acting(p) => Latest(p).page = p /\ Latest(p).room = page[p].room

\* It is the page's socket while it has one.
LatestIsSocket ==
  \A p \in Pages :
    page[p].socket = IF Acting(p) /\ Latest(p).client \in {"connecting", "open", "down"}
                     THEN page[p].latest ELSE None

DoneReconnects ==
  \A p \in Pages :
    Acting(p) /\ Latest(p).client = "done" => ReconnectOf(page[p].latest) \in timers

TimersServeLatest ==
  \A t \in timers :
    LET pg == page[conn[t.conn].page]
    IN /\ pg.latest = t.conn
       /\ t.kind = "reconnect" => pg.reconnect = t.conn /\ conn[t.conn].client = "done"
       /\ t.kind = "ping" => pg.ping = t.conn /\ pg.socket = t.conn

IInv ==
  /\ Types
  /\ TimersKnown
  /\ LatestIsOurs
  /\ LatestIsSocket
  /\ DoneReconnects
  /\ TimersServeLatest
  /\ OneSocket

LEMMA InitHolds == Init => IInv
<1> SUFFICES ASSUME Init PROVE IInv
  OBVIOUS
<1>1. Types
  BY SessionAssumption DEF Init, Types, Page, Conn
<1> QED
  BY <1>1 DEF Init, IInv, TimersKnown, LatestIsOurs, LatestIsSocket,
              DoneReconnects, TimersServeLatest, OneSocket, Alive, Acting, Latest

\* A connection that is over is not the latest, nor a socket, of any page.
LEMMA OverIsIdle ==
  ASSUME IInv, NEW c \in Conns, Over(c)
  PROVE  \A q \in Pages : page[q].latest # c /\ page[q].socket # c
<1>1. c # None /\ conn[c].client = "done"
  BY SessionAssumption DEF Over
<1>2. ReconnectOf(c) \notin timers
  BY DEF Over, ReconnectOf
<1> QED
  BY <1>1, <1>2 DEF IInv, DoneReconnects, LatestIsSocket, Acting, Latest

\* The timers that outlive a cleanup of p are of other pages.
LEMMA CleanedUp ==
  ASSUME IInv, NEW p \in Pages
  PROVE  \A t \in Without(page[p]) : t \in timers /\ conn[t.conn].page # p
<1> SUFFICES ASSUME NEW t \in timers, conn[t.conn].page = p,
                    t # ReconnectOf(page[p].reconnect), t # PingOf(page[p].ping)
             PROVE  FALSE
  BY DEF Without
<1>1. t \in Timer
  BY DEF IInv, Types
<1>2. CASE t.kind = "reconnect"
  BY <1>1, <1>2 DEF IInv, TimersServeLatest, Timer, ReconnectOf
<1>3. CASE t.kind = "ping"
  BY <1>1, <1>3 DEF IInv, TimersServeLatest, Timer, PingOf
<1> QED BY <1>1, <1>2, <1>3 DEF Timer

\* Connections as records.
LEMMA DetachedConn ==
  ASSUME Types, NEW s
  PROVE  /\ Detached(conn, s) \in [Conns -> Conn]
         /\ \A c \in Conns : /\ Detached(conn, s)[c].page = conn[c].page
                             /\ Detached(conn, s)[c].room = conn[c].room
                             /\ Detached(conn, s)[c].client =
                                  IF c = s /\ Alive(c) THEN "down" ELSE conn[c].client
  BY DEF Detached, Types, Conn

LEMMA ReopenHolds ==
  ASSUME IInv, NEW p \in Pages, NEW r \in Rooms, NEW c \in Conns, Reopen(p, r, c)
  PROVE  IInv'
<1> DEFINE pg == [page[p] EXCEPT !.reconnect = None, !.ping = None, !.room = r,
                                 !.socket = None, !.latest = c, !.status = "dialing"]
<1>0. c # None /\ r # None
  BY SessionAssumption
<1>1. /\ page' = [page EXCEPT ![p] = pg]
      /\ pg \in Page
      /\ pg.room = r /\ pg.socket = None /\ pg.latest = c
      /\ pg.reconnect = None /\ pg.ping = None
  BY <1>0 DEF Reopen, Dialing, NoTimers, IInv, Types, Page
<1>2. /\ conn' \in [Conns -> Conn]
      /\ conn'[c].page = p /\ conn'[c].room = r /\ conn'[c].client = "asking"
      /\ \A d \in Conns \ {c} :
           /\ conn'[d].page = conn[d].page /\ conn'[d].room = conn[d].room
           /\ conn'[d].client = IF d = page[p].socket /\ Alive(d) THEN "down"
                                ELSE conn[d].client
  BY <1>0, DetachedConn DEF Reopen, Asking, IInv, Conn
<1>3. \A q \in Pages : page[q].latest # c /\ page[q].socket # c
  BY OverIsIdle DEF Reopen
<1>4. \A t \in timers' : /\ t \in timers /\ t \in Timer /\ t.conn \in Conns \ {c}
                         /\ conn[t.conn].page \in Pages \ {p}
  <2>1. \A t \in timers' : t \in timers /\ conn[t.conn].page # p
    BY CleanedUp DEF Reopen
  <2>2. \A t \in timers : t.conn # c
    BY DEF Reopen, Over
  <2> QED BY <2>1, <2>2 DEF IInv, Types, Timer, Conn
<1>5. Types'
  BY <1>1, <1>2, <1>4 DEF IInv, Types
\* Another page's latest connection is not touched.
<1>6. \A q \in Pages \ {p} :
        /\ page'[q] = page[q] /\ page[q] \in Page
        /\ Acting(q) => LET d == page[q].latest
                        IN /\ d \in Conns \ {c}
                           /\ conn'[d].page = conn[d].page /\ conn'[d].room = conn[d].room
                           /\ conn'[d].client = conn[d].client
  <2> SUFFICES ASSUME NEW q \in Pages \ {p}
               PROVE  /\ page'[q] = page[q] /\ page[q] \in Page
                      /\ Acting(q) =>
                           /\ page[q].latest \in Conns \ {c}
                           /\ conn'[page[q].latest].page = conn[page[q].latest].page
                           /\ conn'[page[q].latest].room = conn[page[q].latest].room
                           /\ conn'[page[q].latest].client = conn[page[q].latest].client
    OBVIOUS
  <2>1. page'[q] = page[q] /\ page[q] \in Page
    BY <1>1 DEF IInv, Types
  <2>2. Acting(q) => page[q].latest \in Conns \ {c}
    BY <1>3, <2>1 DEF Page, Acting
  <2>3. Acting(q) => page[q].latest # page[p].socket
    BY SessionAssumption DEF IInv, LatestIsOurs, LatestIsSocket, Acting, Latest
  <2> QED BY <1>2, <2>1, <2>2, <2>3
<1>7. LatestIsOurs'
  BY <1>0, <1>1, <1>2, <1>6 DEF IInv, Types, LatestIsOurs, Latest, Acting
<1>8. LatestIsSocket'
  BY <1>0, <1>1, <1>2, <1>6 DEF IInv, Types, LatestIsSocket, Latest, Acting
<1>9. DoneReconnects'
  <2>1. \A q \in Pages \ {p} :
          Acting(q) => /\ page[q].latest # page[p].reconnect
                       /\ ReconnectOf(page[q].latest) # PingOf(page[p].ping)
    BY <1>6 DEF IInv, TimersKnown, LatestIsOurs, Acting, Latest, ReconnectOf, PingOf
  <2>2. \A q \in Pages \ {p} :
          Acting(q) /\ ReconnectOf(page[q].latest) \in timers
            => ReconnectOf(page[q].latest) \in timers'
    BY <2>1 DEF Reopen, Without, ReconnectOf
  <2> QED
    BY <1>0, <1>1, <1>2, <1>6, <2>2 DEF IInv, Types, DoneReconnects, Latest, Acting
<1>10. TimersServeLatest'
  <2> SUFFICES ASSUME NEW t \in timers'
               PROVE  LET pg2 == page'[conn'[t.conn].page]
                      IN /\ pg2.latest = t.conn
                         /\ t.kind = "reconnect" => /\ pg2.reconnect = t.conn
                                                    /\ conn'[t.conn].client = "done"
                         /\ t.kind = "ping" => pg2.ping = t.conn /\ pg2.socket = t.conn
    BY DEF TimersServeLatest
  <2>1. /\ t \in timers /\ t.conn \in Conns \ {c} /\ t.conn # None
        /\ conn[t.conn].page \in Pages \ {p} /\ conn'[t.conn].page = conn[t.conn].page
    BY <1>2, <1>4, SessionAssumption
  <2>2. page[conn[t.conn].page].latest = t.conn
    BY <2>1 DEF IInv, TimersServeLatest
  <2> QED BY <1>6, <2>1, <2>2 DEF IInv, TimersServeLatest, Acting
<1>12. TimersKnown'
  BY <1>1, <1>6 DEF IInv, Types, TimersKnown
<1>11. OneSocket'
  BY <1>1, <1>2, <1>6 DEF IInv, Types, OneSocket, Alive, IsCurrent
<1> QED BY <1>5, <1>7, <1>8, <1>9, <1>10, <1>11, <1>12 DEF IInv

\* What may happen to the client's end of a connection without the page's doing.
Drifts(d) ==
  /\ conn'[d].page = conn[d].page /\ conn'[d].room = conn[d].room
  /\ \/ conn'[d].client = conn[d].client
     \/ conn[d].client = "asking" /\ conn'[d].client = "answered"
     \/ Alive(d) /\ conn'[d].client \in {"open", "down"}
     \/ conn'[d].client = "done" /\ \A q \in Pages : page[q].latest # d

LEMMA DriftHolds ==
  ASSUME IInv, UNCHANGED <<page, timers>>, conn' \in [Conns -> Conn],
         \A d \in Conns : Drifts(d)
  PROVE  IInv'
<1>1. \A q \in Pages : page[q] \in Page /\ (Acting(q) => page[q].latest \in Conns)
  BY DEF IInv, Types, Page, Acting
<1>2. \A t \in timers : t.conn \in Conns /\ conn[t.conn].page \in Pages
  BY DEF IInv, Types, Timer, Conn
<1>3. Types' /\ TimersKnown'
  BY DEF IInv, Types, TimersKnown
<1>4. LatestIsOurs'
  BY <1>1 DEF IInv, LatestIsOurs, Latest, Acting, Drifts
<1>5. LatestIsSocket'
  BY <1>1 DEF IInv, LatestIsSocket, Latest, Acting, Drifts, Alive
<1>6. DoneReconnects'
  BY <1>1 DEF IInv, DoneReconnects, Latest, Acting, Drifts, Alive
<1>7. TimersServeLatest'
  BY <1>2 DEF IInv, TimersServeLatest, Drifts, Alive
<1>8. OneSocket'
  BY DEF IInv, OneSocket, IsCurrent, Drifts, Alive
<1> QED BY <1>3, <1>4, <1>5, <1>6, <1>7, <1>8 DEF IInv

\* A connection that is the latest of a page is so of its own.
LEMMA LatestOfItsPage ==
  ASSUME IInv, NEW c \in Conns, NEW q \in Pages, page[q].latest = c
  PROVE  q = conn[c].page /\ Acting(q) /\ IsLatest(c)
  BY SessionAssumption DEF IInv, LatestIsOurs, Acting, Latest, IsLatest

LEMMA LeaveHolds ==
  ASSUME IInv, NEW p \in Pages, LeaveRoom(p)
  PROVE  IInv'
<1> DEFINE pg == [page[p] EXCEPT !.reconnect = None, !.ping = None, !.room = None,
                                 !.latest = None, !.socket = None, !.status = "idle"]
<1>1. /\ page' = [page EXCEPT ![p] = pg]
      /\ pg \in Page
      /\ pg.room = None /\ pg.socket = None /\ pg.latest = None
      /\ pg.reconnect = None /\ pg.ping = None
  BY DEF LeaveRoom, NoTimers, IInv, Types, Page
<1>2. /\ conn' \in [Conns -> Conn]
      /\ \A d \in Conns :
           /\ conn'[d].page = conn[d].page /\ conn'[d].room = conn[d].room
           /\ conn'[d].client = IF d = page[p].socket /\ Alive(d) THEN "down"
                                ELSE conn[d].client
  BY DetachedConn DEF LeaveRoom, IInv
<1>3. \A t \in timers' : /\ t \in timers /\ t \in Timer /\ t.conn \in Conns
                         /\ t.conn # None /\ conn[t.conn].page \in Pages \ {p}
  <2>1. \A t \in timers' : t \in timers /\ conn[t.conn].page # p
    BY CleanedUp DEF LeaveRoom
  <2> QED BY <2>1, SessionAssumption DEF IInv, Types, Timer, Conn
<1>4. \A q \in Pages \ {p} :
        /\ page'[q] = page[q] /\ page[q] \in Page
        /\ Acting(q) => LET d == page[q].latest
                        IN /\ d \in Conns
                           /\ conn'[d].page = conn[d].page /\ conn'[d].room = conn[d].room
                           /\ conn'[d].client = conn[d].client
  <2> SUFFICES ASSUME NEW q \in Pages \ {p}
               PROVE  /\ page'[q] = page[q] /\ page[q] \in Page
                      /\ Acting(q) =>
                           /\ page[q].latest \in Conns
                           /\ conn'[page[q].latest].page = conn[page[q].latest].page
                           /\ conn'[page[q].latest].room = conn[page[q].latest].room
                           /\ conn'[page[q].latest].client = conn[page[q].latest].client
    OBVIOUS
  <2>1. page'[q] = page[q] /\ page[q] \in Page
    BY <1>1 DEF IInv, Types
  <2>2. Acting(q) => page[q].latest \in Conns
    BY <2>1 DEF Page, Acting
  <2>3. Acting(q) => page[q].latest # page[p].socket
    BY SessionAssumption DEF IInv, LatestIsOurs, LatestIsSocket, Acting, Latest
  <2> QED BY <1>2, <2>1, <2>2, <2>3
<1>5. Types'
  BY <1>1, <1>2, <1>3 DEF IInv, Types
<1>6. LatestIsOurs' /\ LatestIsSocket' /\ TimersKnown'
  BY <1>1, <1>4 DEF IInv, Types, LatestIsOurs, LatestIsSocket, TimersKnown, Latest, Acting
<1>7. DoneReconnects'
  <2>1. \A q \in Pages \ {p} :
          Acting(q) /\ ReconnectOf(page[q].latest) \in timers
            => ReconnectOf(page[q].latest) \in timers'
    BY <1>4 DEF IInv, TimersKnown, LatestIsOurs, Acting, Latest, LeaveRoom, Without,
                ReconnectOf, PingOf
  <2> QED BY <1>1, <1>4, <2>1 DEF IInv, Types, DoneReconnects, Latest, Acting
<1>8. TimersServeLatest'
  <2> SUFFICES ASSUME NEW t \in timers'
               PROVE  LET pg2 == page'[conn'[t.conn].page]
                      IN /\ pg2.latest = t.conn
                         /\ t.kind = "reconnect" => /\ pg2.reconnect = t.conn
                                                    /\ conn'[t.conn].client = "done"
                         /\ t.kind = "ping" => pg2.ping = t.conn /\ pg2.socket = t.conn
    BY DEF TimersServeLatest
  <2>1. /\ t \in timers /\ t.conn \in Conns /\ t.conn # None
        /\ conn[t.conn].page \in Pages \ {p} /\ conn'[t.conn].page = conn[t.conn].page
    BY <1>2, <1>3
  <2>2. page[conn[t.conn].page].latest = t.conn
    BY <2>1 DEF IInv, TimersServeLatest
  <2> QED BY <1>4, <2>1, <2>2 DEF IInv, TimersServeLatest, Acting
<1>9. OneSocket'
  BY <1>1, <1>2, <1>4 DEF IInv, Types, OneSocket, Alive, IsCurrent
<1> QED BY <1>5, <1>6, <1>7, <1>8, <1>9 DEF IInv

\* The page p acts with its latest connection c, and the step leaves it with pg and
\* the connection with k; the timers of other pages stay.
Acts(p, c, pg, k) ==
  /\ page' = [page EXCEPT ![p] = pg] /\ conn' = [conn EXCEPT ![c] = k]
  /\ k.page = p /\ k.room = pg.room /\ pg.room # None /\ pg.latest = c
  /\ pg.socket = IF k.client \in {"connecting", "open", "down"} THEN c ELSE None
  /\ pg.reconnect \in {None, c} /\ pg.ping \in {None, pg.socket}
  /\ \A q \in Pages \ {p} : page[q].latest # c
  /\ \A d \in Conns \ {c} : Alive(d) => conn[d].page # p
  /\ timers' \subseteq Timer
  /\ \A t \in timers' :
       \/ t \in timers /\ t.conn # c /\ conn[t.conn].page # p
       \/ t = ReconnectOf(c) /\ pg.reconnect = c /\ k.client = "done"
       \/ t = PingOf(c) /\ pg.ping = c /\ pg.socket = c
  /\ \A t \in timers : t.conn # c /\ conn[t.conn].page # p => t \in timers'
  /\ k.client = "done" => ReconnectOf(c) \in timers'

LEMMA ActingHolds ==
  ASSUME IInv, NEW p \in Pages, NEW c \in Conns, NEW pg \in Page, NEW k \in Conn,
         Acts(p, c, pg, k)
  PROVE  IInv'
<1> USE DEF Acts
<1>0. c # None
  BY SessionAssumption
<1>1. /\ page'[p] = pg /\ conn'[c] = k
      /\ \A d \in Conns \ {c} : conn'[d] = conn[d]
      /\ \A q \in Pages \ {p} : page'[q] = page[q] /\ page[q] \in Page
  BY DEF IInv, Types
<1>2. \A q \in Pages \ {p} : Acting(q) => page[q].latest \in Conns \ {c}
  BY <1>1 DEF Page, Acting
<1>3. Types'
  BY DEF IInv, Types
<1>4. LatestIsOurs' /\ LatestIsSocket' /\ TimersKnown'
  BY <1>0, <1>1, <1>2 DEF IInv, LatestIsOurs, LatestIsSocket, TimersKnown, Latest, Acting
<1>5. DoneReconnects'
  <2>1. \A q \in Pages \ {p} :
          Acting(q) /\ Latest(q).client = "done" => ReconnectOf(page[q].latest) \in timers'
    BY <1>2 DEF IInv, DoneReconnects, LatestIsOurs, Latest, Acting, ReconnectOf
  <2> QED BY <1>0, <1>1, <1>2, <2>1 DEF DoneReconnects, Latest, Acting
<1>6. TimersServeLatest'
  <2> SUFFICES ASSUME NEW t \in timers'
               PROVE  LET pg2 == page'[conn'[t.conn].page]
                      IN /\ pg2.latest = t.conn
                         /\ t.kind = "reconnect" => /\ pg2.reconnect = t.conn
                                                    /\ conn'[t.conn].client = "done"
                         /\ t.kind = "ping" => pg2.ping = t.conn /\ pg2.socket = t.conn
    BY DEF TimersServeLatest
  <2>1. CASE t \in timers /\ t.conn # c /\ conn[t.conn].page # p
    <3>1. conn[t.conn].page \in Pages \ {p} /\ conn'[t.conn] = conn[t.conn]
      BY <1>1, <2>1 DEF IInv, Types, Timer, Conn
    <3> QED BY <1>1, <2>1, <3>1 DEF IInv, TimersServeLatest
  <2>2. CASE t = ReconnectOf(c) /\ pg.reconnect = c /\ k.client = "done"
    BY <1>1, <2>2 DEF ReconnectOf
  <2>3. CASE t = PingOf(c) /\ pg.ping = c
    BY <1>0, <1>1, <2>3 DEF PingOf
  <2> QED BY <2>1, <2>2, <2>3
<1>7. OneSocket'
  <2> SUFFICES ASSUME NEW d \in Conns, Alive(d)'
               PROVE  IsCurrent(d)'
    BY DEF OneSocket
  <2>1. CASE d = c
    BY <1>1, <2>1 DEF Alive, IsCurrent
  <2>2. CASE d # c
    <3>1. conn'[d] = conn[d] /\ Alive(d) /\ conn[d].page \in Pages \ {p}
      BY <1>1, <2>2 DEF Alive, IInv, Types, Conn
    <3> QED BY <1>1, <3>1 DEF IInv, OneSocket, IsCurrent
  <2> QED BY <2>1, <2>2
<1> QED BY <1>3, <1>4, <1>5, <1>6, <1>7 DEF IInv

\* What is known of a page whose latest connection is c.
LEMMA OfThePage ==
  ASSUME IInv, NEW c \in Conns, IsLatest(c)
  PROVE  LET p == conn[c].page
         IN /\ p \in Pages /\ page[p] \in Page /\ conn[c] \in Conn
            /\ page[p].latest = c /\ page[p].room # None /\ conn[c].room = page[p].room
            /\ page[p].socket =
                 IF conn[c].client \in {"connecting", "open", "down"} THEN c ELSE None
            /\ page[p].reconnect \in {None, c} /\ page[p].ping \in {None, page[p].socket}
            /\ \A q \in Pages \ {p} : page[q].latest # c
            /\ \A d \in Conns \ {c} : Alive(d) => conn[d].page # p
            /\ \A t \in timers : conn[t.conn].page = p <=> t.conn = c
            /\ \A t \in timers : conn[t.conn].page = p => conn[c].client # "asking"
            /\ ReconnectOf(c) \in timers => conn[c].client = "done"
<1> DEFINE p == conn[c].page
<1>1. p \in Pages /\ page[p] \in Page /\ conn[c] \in Conn /\ c # None /\ page[p].latest = c
  BY SessionAssumption DEF IInv, Types, Conn, IsLatest
<1>2. /\ page[p].room # None /\ conn[c].room = page[p].room
      /\ page[p].socket =
           IF conn[c].client \in {"connecting", "open", "down"} THEN c ELSE None
      /\ page[p].reconnect \in {None, c} /\ page[p].ping \in {None, page[p].socket}
  BY <1>1 DEF IInv, LatestIsOurs, LatestIsSocket, TimersKnown, Acting, Latest
<1>3. \A q \in Pages \ {p} : page[q].latest # c
  BY LatestOfItsPage
<1>4. \A d \in Conns \ {c} : Alive(d) => conn[d].page # p
  BY <1>2, SessionAssumption DEF IInv, OneSocket, IsCurrent
<1>5. \A t \in timers : conn[t.conn].page = p <=> t.conn = c
  BY <1>1 DEF IInv, TimersServeLatest
<1>6. \A t \in timers : conn[t.conn].page = p => conn[c].client # "asking"
  BY <1>1, <1>2, <1>5 DEF IInv, Types, Timer, TimersServeLatest
<1>7. ReconnectOf(c) \in timers => conn[c].client = "done"
  BY DEF IInv, TimersServeLatest, ReconnectOf
<1> QED BY <1>1, <1>2, <1>3, <1>4, <1>5, <1>6, <1>7

LEMMA ReconnectHolds ==
  ASSUME IInv, NEW t \in timers, NEW c \in Conns, ReconnectFires(t, c)
  PROVE  IInv'
<1> DEFINE p == conn[t.conn].page
           pg == [page[p] EXCEPT !.reconnect = None, !.latest = c, !.status = "dialing"]
           k == [page |-> p, room |-> page[p].room, client |-> "asking", server |-> "none"]
<1>1. t \in Timer /\ t.kind = "reconnect" /\ t.conn \in Conns
  BY DEF ReconnectFires, IInv, Types, Timer
<1>2. /\ p \in Pages /\ page[p].latest = t.conn
      /\ page[p].reconnect = t.conn /\ conn[t.conn].client = "done" /\ IsLatest(t.conn)
  BY <1>1 DEF IInv, Types, Conn, TimersServeLatest, IsLatest
<1>3. /\ page[p].socket = None /\ page[p].ping = None /\ page[p].room # None
      /\ \A d \in Conns \ {t.conn} : Alive(d) => conn[d].page # p
      /\ \A u \in timers : conn[u.conn].page = p <=> u.conn = t.conn
  BY <1>1, <1>2, OfThePage
<1>4. /\ pg \in Page /\ k \in Conn
      /\ k.page = p /\ k.room = page[p].room /\ k.client = "asking"
      /\ pg.room = page[p].room /\ pg.socket = None /\ pg.latest = c
      /\ pg.reconnect = None /\ pg.ping = None
  <2>1. page[p] \in Page
    BY <1>2 DEF IInv, Types
  <2> QED BY <1>2, <1>3, <2>1 DEF Page, Conn
<1>5. /\ page' = [page EXCEPT ![p] = pg] /\ conn' = [conn EXCEPT ![c] = k]
      /\ timers' = timers \ {t}
  <2>1. page[p] \in Page /\ page \in [Pages -> Page]
    BY <1>2 DEF IInv, Types
  <2> QED BY <2>1 DEF ReconnectFires, Dialing, Asking, Page
<1>6. \A q \in Pages : page[q].latest # c
  BY OverIsIdle DEF ReconnectFires
<1>7. \A u \in timers : u.conn # c
  BY DEF ReconnectFires, Over
<1>8. \A d \in Conns \ {c} : Alive(d) => conn[d].page # p
  BY <1>2, <1>3 DEF Alive
<1>9. \A u \in timers' : u \in timers /\ u.conn # c /\ conn[u.conn].page # p
  <2> SUFFICES ASSUME NEW u \in timers, u.conn = t.conn PROVE u = t
    BY <1>3, <1>5, <1>7
  <2>1. u \in Timer /\ page[conn[u.conn].page].socket = None
    BY <1>3 DEF IInv, Types
  <2>2. u.kind = "reconnect"
    BY <1>1, <2>1, SessionAssumption DEF IInv, TimersServeLatest, Timer
  <2> QED BY <1>1, <2>1, <2>2 DEF Timer
<1>10. timers' \subseteq Timer
  BY <1>5 DEF IInv, Types
<1>11. \A u \in timers : u.conn # c /\ conn[u.conn].page # p => u \in timers'
  BY <1>5
<1> HIDE DEF pg, k, p
<1>12. Acts(p, c, pg, k)
  BY <1>3, <1>4, <1>5, <1>6, <1>8, <1>9, <1>10, <1>11 DEF Acts
<1> QED BY <1>2, <1>4, <1>12, ActingHolds

LEMMA TicketFailsHolds ==
  ASSUME IInv, NEW c \in Conns, TicketFails(c)
  PROVE  IInv'
<1> DEFINE p == conn[c].page
           pg == [page[p] EXCEPT !.reconnect = c, !.status = "dialing"]
           k == [conn[c] EXCEPT !.client = "done"]
<1>1. conn[c] \in Conn /\ conn' = [conn EXCEPT ![c] = k]
  BY DEF TicketFails, IInv, Types
<1>2. CASE ~IsLatest(c)
  <2>1. UNCHANGED <<page, timers>> /\ conn' \in [Conns -> Conn]
    BY <1>1, <1>2 DEF TicketFails, IInv, Types, Conn
  <2>2. \A q \in Pages : page[q].latest # c
    BY <1>2, LatestOfItsPage
  <2>3. \A d \in Conns : Drifts(d)
    BY <1>1, <2>2 DEF Drifts, IInv, Types, Conn
  <2> QED BY <2>1, <2>3, DriftHolds
<1>3. CASE IsLatest(c)
  <2>1. conn[c].client = "asking"
    BY DEF TicketFails
  <2>2. /\ page' = [page EXCEPT ![p] = pg]
        /\ timers' = timers \cup {ReconnectOf(c)}
    BY <1>3 DEF TicketFails, Scheduled
  <2>3. /\ p \in Pages /\ page[p] \in Page /\ page[p].room # None
        /\ page[p].latest = c /\ conn[c].room = page[p].room
        /\ page[p].socket = None /\ page[p].ping = None
        /\ \A q \in Pages \ {p} : page[q].latest # c
        /\ \A d \in Conns \ {c} : Alive(d) => conn[d].page # p
        /\ \A t \in timers : t.conn # c /\ conn[t.conn].page # p
    BY <1>3, <2>1, OfThePage
  <2>4. /\ pg \in Page /\ k \in Conn /\ k.page = p /\ k.room = conn[c].room
        /\ k.client = "done" /\ pg.room = page[p].room /\ pg.latest = c
        /\ pg.socket = None /\ pg.reconnect = c /\ pg.ping = None
    BY <1>1, <2>3 DEF Page, Conn
  <2>5. timers' \subseteq Timer
    BY <2>2 DEF IInv, Types, ReconnectOf, Timer
  <2> HIDE DEF pg, k, p
  <2>6. Acts(p, c, pg, k)
    BY <1>1, <2>2, <2>3, <2>4, <2>5 DEF Acts
  <2> QED BY <2>3, <2>4, <2>6, ActingHolds
<1> QED BY <1>2, <1>3

LEMMA TicketAnsweredHolds ==
  ASSUME IInv, NEW c \in Conns, TicketAnswered(c)
  PROVE  IInv'
<1> DEFINE p == conn[c].page
           pg == [page[p] EXCEPT !.socket = c]
           k == [conn[c] EXCEPT !.client = "connecting"]
<1>1. conn[c] \in Conn /\ conn[c].client = "answered" /\ timers' = timers
  BY DEF TicketAnswered, IInv, Types
<1>2. CASE ~IsLatest(c)
  <2>1. UNCHANGED page /\ conn' \in [Conns -> Conn]
    BY <1>1, <1>2 DEF TicketAnswered, IInv, Types, Conn
  <2>2. \A q \in Pages : page[q].latest # c
    BY <1>2, LatestOfItsPage
  <2>3. \A d \in Conns : Drifts(d)
    BY <1>1, <1>2, <2>2 DEF TicketAnswered, Drifts, IInv, Types, Conn
  <2> QED BY <1>1, <2>1, <2>3, DriftHolds
<1>3. CASE IsLatest(c)
  <2>1. page' = [page EXCEPT ![p] = pg] /\ conn' = [conn EXCEPT ![c] = k]
    BY <1>3 DEF TicketAnswered
  <2>2. /\ p \in Pages /\ page[p] \in Page /\ page[p].room # None
        /\ page[p].latest = c /\ conn[c].room = page[p].room
        /\ page[p].reconnect \in {None, c} /\ page[p].ping = None
        /\ \A q \in Pages \ {p} : page[q].latest # c
        /\ \A d \in Conns \ {c} : Alive(d) => conn[d].page # p
    BY <1>1, <1>3, OfThePage
  <2>3. \A t \in timers : t.conn # c /\ conn[t.conn].page # p
    <3> SUFFICES ASSUME NEW t \in timers, t.conn = c PROVE FALSE
      BY <1>3, OfThePage
    <3>1. page[p].socket = None /\ c # None /\ t \in Timer
      BY <1>1, <1>3, OfThePage, SessionAssumption DEF IInv, Types
    <3> QED BY <1>1, <3>1 DEF IInv, TimersServeLatest, Timer
  <2>4. /\ pg \in Page /\ k \in Conn /\ k.page = p /\ k.room = conn[c].room
        /\ k.client = "connecting" /\ pg.room = page[p].room /\ pg.latest = c
        /\ pg.socket = c /\ pg.reconnect \in {None, c} /\ pg.ping = None
    BY <1>1, <2>2 DEF Page, Conn
  <2>5. timers' \subseteq Timer
    BY <1>1 DEF IInv, Types
  <2> HIDE DEF pg, k, p
  <2>6. Acts(p, c, pg, k)
    BY <1>1, <2>1, <2>2, <2>3, <2>4, <2>5 DEF Acts
  <2> QED BY <2>2, <2>4, <2>6, ActingHolds
<1> QED BY <1>2, <1>3

LEMMA OpensHolds ==
  ASSUME IInv, NEW c \in Conns, Opens(c)
  PROVE  IInv'
<1> DEFINE p == conn[c].page
           pg == [page[p] EXCEPT !.ping = c, !.status = "connected"]
           k == [conn[c] EXCEPT !.client = "open"]
<1>1. /\ conn[c] \in Conn /\ conn[c].client = "connecting"
      /\ conn' = [conn EXCEPT ![c] = k] /\ c # None
  BY SessionAssumption DEF Opens, IInv, Types
\* A socket that connects is current: this holds for any other than by OneSocket.
<1>2. IsCurrent(c) /\ IsLatest(c)
  BY <1>1 DEF IInv, OneSocket, Alive, IsCurrent, LatestIsSocket, Types, Conn, IsLatest
<1>3. /\ page' = [page EXCEPT ![p] = pg]
      /\ timers' = timers \cup {PingOf(c)}
  BY <1>2 DEF Opens
<1>4. /\ p \in Pages /\ page[p] \in Page /\ page[p].room # None
      /\ page[p].latest = c /\ conn[c].room = page[p].room
      /\ page[p].socket = c /\ page[p].reconnect \in {None, c}
      /\ \A q \in Pages \ {p} : page[q].latest # c
      /\ \A d \in Conns \ {c} : Alive(d) => conn[d].page # p
  BY <1>1, <1>2, OfThePage
<1>5. \A t \in timers : (t.conn # c /\ conn[t.conn].page # p) \/ t = PingOf(c)
  <2> SUFFICES ASSUME NEW t \in timers, t.conn = c PROVE t = PingOf(c)
    BY <1>2, OfThePage
  <2>1. t \in Timer
    BY DEF IInv, Types
  <2>2. t.kind # "reconnect"
    BY <1>1 DEF IInv, TimersServeLatest
  <2> QED BY <2>1, <2>2 DEF Timer, PingOf
<1>6. /\ pg \in Page /\ k \in Conn /\ k.page = p /\ k.room = conn[c].room
      /\ k.client = "open" /\ pg.room = page[p].room /\ pg.latest = c
      /\ pg.socket = c /\ pg.reconnect \in {None, c} /\ pg.ping = c
  BY <1>1, <1>4 DEF Page, Conn
<1>7. timers' \subseteq Timer
  BY <1>3 DEF IInv, Types, PingOf, Timer
<1> HIDE DEF pg, k, p
<1>8. Acts(p, c, pg, k)
  BY <1>1, <1>3, <1>4, <1>5, <1>6, <1>7 DEF Acts
<1> QED BY <1>4, <1>6, <1>8, ActingHolds

LEMMA CloseEventHolds ==
  ASSUME IInv, NEW c \in Conns, CloseEvent(c)
  PROVE  IInv'
<1> DEFINE p == conn[c].page
           pg == [page[p] EXCEPT !.reconnect = c, !.ping = None, !.socket = None,
                                 !.status = "dialing"]
           k == [conn[c] EXCEPT !.client = "done"]
<1>1. /\ conn[c] \in Conn /\ conn[c].client = "down"
      /\ conn' = [conn EXCEPT ![c] = k] /\ c # None
  BY SessionAssumption DEF CloseEvent, IInv, Types
<1>2. CASE ~IsCurrent(c)
  <2>1. UNCHANGED <<page, timers>> /\ conn' \in [Conns -> Conn]
    BY <1>1, <1>2 DEF CloseEvent, IInv, Types, Conn
  <2>2. \A q \in Pages : page[q].latest # c
    BY <1>1, <1>2, LatestOfItsPage, OfThePage DEF IsCurrent
  <2>3. \A d \in Conns : Drifts(d)
    BY <1>1, <2>2 DEF Drifts, IInv, Types, Conn
  <2> QED BY <2>1, <2>3, DriftHolds
<1>3. CASE IsCurrent(c)
  <2>1. IsLatest(c)
    BY <1>1, <1>3 DEF IInv, LatestIsSocket, Types, Conn, IsCurrent, IsLatest
  <2>2. /\ p \in Pages /\ page[p] \in Page /\ page[p].room # None
        /\ page[p].latest = c /\ conn[c].room = page[p].room
        /\ \A q \in Pages \ {p} : page[q].latest # c
        /\ \A d \in Conns \ {c} : Alive(d) => conn[d].page # p
    BY <2>1, OfThePage
  <2>3. page' = [page EXCEPT ![p] = pg]
    BY <1>3, <2>2 DEF CloseEvent, Scheduled, NoTimers, IInv, Types, Page
  <2>4. timers' = Without(page[p]) \cup {ReconnectOf(c)}
    BY <1>3 DEF CloseEvent
  <2>5. \A t \in timers' :
          \/ t \in timers /\ t.conn # c /\ conn[t.conn].page # p
          \/ t = ReconnectOf(c)
    BY <2>2, <2>4, CleanedUp
  <2>6. \A t \in timers : t.conn # c /\ conn[t.conn].page # p => t \in timers'
    <3>1. page[p].reconnect \in {None, c} /\ page[p].ping \in {None, c}
      BY <1>1, <2>1, OfThePage
    <3>2. \A t \in timers : t.conn # None
      BY SessionAssumption DEF IInv, Types, Timer
    <3> QED BY <2>4, <3>1, <3>2 DEF Without, ReconnectOf, PingOf
  <2>7. /\ pg \in Page /\ k \in Conn /\ k.page = p /\ k.room = conn[c].room
        /\ k.client = "done" /\ pg.room = page[p].room /\ pg.latest = c
        /\ pg.socket = None /\ pg.reconnect = c /\ pg.ping = None
    BY <1>1, <2>2 DEF Page, Conn
  <2>8. timers' \subseteq Timer
    BY <2>4 DEF IInv, Types, Without, ReconnectOf, Timer
  <2> HIDE DEF pg, k, p
  <2>9. Acts(p, c, pg, k)
    BY <1>1, <2>2, <2>3, <2>4, <2>5, <2>6, <2>7, <2>8 DEF Acts
  <2> QED BY <2>2, <2>7, <2>9, ActingHolds
<1> QED BY <1>2, <1>3

\* The server's steps, and those of the network, leave the page to itself.
LEMMA QuietHolds ==
  ASSUME IInv, NEW c \in Conns,
         \/ Drops(c) \/ Frame(c) \/ TicketMinted(c) \/ Upgraded(c) \/ Admit(c)
         \/ Heartbeat(c) \/ LookupFails(c) \/ PeerCloses(c)
  PROVE  IInv'
<1>1. UNCHANGED <<page, timers>>
  BY DEF Drops, Frame, TicketMinted, Upgraded, Admit, Heartbeat, LookupFails,
         PeerCloses, vars, serverVars, ticketVars
<1>2. \/ conn' = conn
      \/ Alive(c) /\ conn' = [conn EXCEPT ![c].client = "down"]
      \/ conn[c].client = "asking" /\ conn' = [conn EXCEPT ![c].client = "answered"]
      \/ \E s \in {"looking", "lost", "member", "leaked", "closed"} :
           conn' = [conn EXCEPT ![c].server = s]
  BY DEF Drops, Frame, TicketMinted, Upgraded, Admit, Heartbeat, LookupFails, PeerCloses
<1>3. conn \in [Conns -> Conn]
  BY DEF IInv, Types
<1>4. conn' \in [Conns -> Conn] /\ \A d \in Conns : Drifts(d)
  BY <1>2, <1>3 DEF Conn, Drifts
<1> QED BY <1>1, <1>4, DriftHolds

LEMMA RestartHolds ==
  ASSUME IInv, ServerRestarts
  PROVE  IInv'
<1>1. conn \in [Conns -> Conn]
  BY DEF IInv, Types
<1>2. conn' \in [Conns -> Conn] /\ \A d \in Conns : Drifts(d)
  BY <1>1 DEF ServerRestarts, Conn, Drifts
<1> QED BY <1>2, DriftHolds DEF ServerRestarts

\* Steps that leave the page, its timers and the connections alone.
LEMMA StillHolds ==
  ASSUME IInv, UNCHANGED <<page, timers, conn>>
  PROVE  IInv'
<1>1. conn' \in [Conns -> Conn] /\ \A d \in Conns : Drifts(d)
  BY DEF IInv, Types, Drifts
<1> QED BY <1>1, DriftHolds

LEMMA NextHolds == IInv /\ [Next]_vars => IInv'
<1> SUFFICES ASSUME IInv, [Next]_vars PROVE IInv'
  OBVIOUS
<1>1. ASSUME NEW p \in Pages, NEW c \in Conns, Visible(p, c) PROVE IInv'
  <2>1. page[p].room \in Rooms
    BY <1>1 DEF Visible, IInv, Types, Page
  <2> QED BY <1>1, <2>1, ReopenHolds DEF Visible
<1>2. ASSUME NEW p \in Pages, NEW c \in Conns, NEW r \in Rooms, EnterRoom(p, r, c)
      PROVE  IInv'
  BY <1>2, ReopenHolds DEF EnterRoom
<1>3. ASSUME NEW p \in Pages, LeaveRoom(p) PROVE IInv'
  BY <1>3, LeaveHolds
<1>4. CASE ClientStep
  BY <1>4, ReconnectHolds, TicketAnsweredHolds, OpensHolds, CloseEventHolds DEF ClientStep
<1>5. CASE ServerStep
  BY <1>5, QuietHolds DEF ServerStep
<1>6. ASSUME NEW c \in Conns,
             TicketFails(c) \/ Drops(c) \/ Frame(c) \/ LookupFails(c) \/ PeerCloses(c)
      PROVE  IInv'
  BY <1>6, TicketFailsHolds, QuietHolds
<1>7. CASE TicketExpires
  BY <1>7, StillHolds DEF TicketExpires
<1>8. CASE ServerRestarts
  BY <1>8, RestartHolds
<1>9. ASSUME NEW r \in Rooms, NEW archive \in BOOLEAN, ArchivingAsked(r, archive)
      PROVE  IInv'
  BY <1>9, StillHolds DEF ArchivingAsked
<1>10. ASSUME NEW a \in admin, ArchivingWritten(a) PROVE IInv'
  BY <1>10, StillHolds DEF ArchivingWritten
<1>11. CASE UNCHANGED vars
  BY <1>11, StillHolds DEF vars
<1> QED
  BY <1>1, <1>2, <1>3, <1>4, <1>5, <1>6, <1>7, <1>8, <1>9, <1>10, <1>11 DEF Next

THEOREM IInvHolds == Spec => []IInv
BY InitHolds, NextHolds, PTL DEF Spec

\* However room changes, returns to the foreground, late tickets and late close
\* events interleave, no socket of a page is open beside the one it holds
\* (useWebSocket.ts).
THEOREM OneSocketHolds == Spec => []OneSocket
<1>1. IInv => OneSocket
  BY DEF IInv
<1> QED BY <1>1, IInvHolds, PTL

\* No timer outlives what it was set for: cleanupTimers clears every one, and a
\* reconnect never comes to a page that has a socket.
THEOREM TimersAreTrackedHolds == Spec => []TimersAreTracked
<1>1. IInv => TimersAreTracked
  <2> SUFFICES ASSUME IInv, NEW t \in timers
               PROVE  LET pg == page[conn[t.conn].page]
                      IN IF t.kind = "ping" THEN pg.ping = t.conn /\ pg.socket = t.conn
                         ELSE pg.reconnect = t.conn /\ pg.socket = None
    BY DEF TimersAreTracked
  <2>1. t \in Timer /\ t.conn \in Conns /\ conn[t.conn].page \in Pages
    BY DEF IInv, Types, Timer, Conn
  <2> QED BY <2>1 DEF IInv, TimersServeLatest, LatestIsSocket, Latest, Timer
<1> QED BY <1>1, IInvHolds, PTL

\* A page in a room always holds a socket, waits for a ticket, or has a reconnect
\* coming, and one of these alone.
THEOREM AlwaysUnderWayHolds == Spec => []AlwaysUnderWay
<1>1. IInv => AlwaysUnderWay
  <2> SUFFICES ASSUME IInv, NEW p \in Pages
               PROVE
                 LET pg == page[p]
                     asking == pg.latest # None /\ conn[pg.latest].client \in {"asking", "answered"}
                     waiting == \E c \in Conns : conn[c].page = p /\ ReconnectOf(c) \in timers
                 IN IF pg.room = None THEN pg.socket = None /\ ~asking /\ ~waiting
                    ELSE \/ pg.socket # None /\ ~asking /\ ~waiting
                         \/ pg.socket = None /\ (asking # waiting)
    BY DEF AlwaysUnderWay
  <2> DEFINE asking == Acting(p) /\ Latest(p).client \in {"asking", "answered"}
             waiting == \E c \in Conns : conn[c].page = p /\ ReconnectOf(c) \in timers
  <2>1. page[p] \in Page /\ (page[p].room # None <=> Acting(p))
    BY DEF IInv, Types, LatestIsOurs
  <2>2. waiting <=> Acting(p) /\ Latest(p).client = "done"
    <3>1. ASSUME NEW c \in Conns, conn[c].page = p, ReconnectOf(c) \in timers
          PROVE  Acting(p) /\ Latest(p).client = "done"
      BY <3>1, SessionAssumption DEF IInv, TimersServeLatest, ReconnectOf, Acting, Latest
    <3>2. ASSUME Acting(p), Latest(p).client = "done" PROVE waiting
      BY <2>1, <3>2 DEF IInv, DoneReconnects, LatestIsOurs, Page, Acting, Latest
    <3> QED BY <3>1, <3>2
  <2>3. page[p].socket = IF Acting(p) /\ Latest(p).client \in {"connecting", "open", "down"}
                         THEN page[p].latest ELSE None
    BY DEF IInv, LatestIsSocket
  <2>4. Acting(p) => Latest(p) \in Conn
    BY <2>1 DEF IInv, Types, Page, Acting, Latest
  <2> QED BY <2>1, <2>2, <2>3, <2>4 DEF Acting, Latest, Conn
<1> QED BY <1>1, IInvHolds, PTL

\* A frame changes what the page shows to the room the page is in, and to no
\* other: the socket it comes by is the page's, and goes to the page's room.
THEOREM StoreFollowsRoomHolds == Spec => StoreFollowsRoom
<1> DEFINE Follows == \A p \in Pages : shown'[p] # shown[p] => shown'[p] = page'[p].room
<1>1. IInv /\ [Next]_vars => [Follows]_vars
  <2> SUFFICES ASSUME IInv, Next, NEW p \in Pages, shown'[p] # shown[p]
               PROVE  shown'[p] = page'[p].room
    OBVIOUS
  <2>1. PICK c \in Conns : Frame(c)
    BY DEF Next, ClientStep, ServerStep, Visible, EnterRoom, Reopen, LeaveRoom,
           ReconnectFires, TicketAnswered, Opens, CloseEvent, TicketMinted, Upgraded,
           Admit, Heartbeat, TicketFails, Drops, LookupFails, PeerCloses, TicketExpires,
           ServerRestarts, ArchivingAsked, ArchivingWritten
  <2>2. conn[c].page = p /\ shown'[p] = conn[c].room
    BY <2>1 DEF Frame
  <2>3. conn[c].room = page[p].room
    BY <2>1, <2>2, SessionAssumption
    DEF Frame, IsCurrent, IInv, LatestIsOurs, LatestIsSocket, Latest, Acting
  <2> QED BY <2>1, <2>2, <2>3 DEF Frame
<1> QED BY <1>1, IInvHolds, PTL DEF Spec, StoreFollowsRoom
=============================================================================
