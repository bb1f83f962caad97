------------------------------ MODULE HelpAcks ------------------------------
(***************************************************************************)
(* The judges' view of one room's help queue.  The server broadcasts the   *)
(* queue after every change (broadcastHelpQueueToJudges in                 *)
(* server/src/rooms.ts) and sends it to a judge who connects               *)
(* (server/src/ws/judge.ts); a judge's page shows the last frame it got    *)
(* (the HELP_QUEUE case of spa/src/hooks/useWebSocket.ts) and keeps        *)
(* showing it while disconnected; clicking Acknowledge sends a HELP_ACK    *)
(* for a row of that page (spa/src/pages/Help.tsx), which the server       *)
(* handles later, when the queue may be another.                           *)
(*                                                                         *)
(* Frames from the server arrive in order.  A page may lag arbitrarily;    *)
(* it is enough to deliver the last frame sent, because the moment a page  *)
(* changes cannot be observed by the others.                               *)
(*                                                                         *)
(* The page sends no version, and the server then takes the version to be  *)
(* the current one.  The server's handler, and its wire contract           *)
(* (shared/src/api), also take an ack with the version the judge saw, so   *)
(* an ack of either kind may be sent here.                                 *)
(***************************************************************************)
EXTENDS HelpEntries

CONSTANTS Judges,
          NoVersion,        \* the version field of an ack that has none
          MaxRestarts       \* bound: server restarts

ASSUME VersionAssumption == NoVersion \notin Nat
ASSUME JudgeBounds == MaxRequests \in Nat /\ MaxRestarts \in Nat

VARIABLES
  helpQueue,   \* RoomState.helpQueue
  lookups,     \* contestants' station lookups awaited
  connected,   \* judges in RoomState.judges
  sent,        \* the last HELP_QUEUE frame sent to each judge
  view,        \* the queue on each judge's page
  acks,        \* HELP_ACK frames on their way
  nreq,        \* history: requests accepted so far
  restarts     \* history: restarts so far

vars == <<helpQueue, lookups, connected, sent, view, acks, nreq, restarts>>

Requests == 1..MaxRequests

Ack == [ judge      : Judges,
         contestant : Contestants,
         version    : Nat \cup {NoVersion},
         req        : Nat ]     \* history: the request the judge saw

TypeOK ==
  /\ helpQueue \in Queue
  /\ \A e \in helpQueue.entries : e.req \in 1..nreq
  /\ lookups \in SUBSET [contestant : Contestants, req : Requests]
  /\ connected \in SUBSET Judges
  /\ sent \in [Judges -> Queue]
  /\ view \in [Judges -> Queue]
  /\ acks \in SUBSET Ack
  /\ nreq \in 0..MaxRequests
  /\ restarts \in 0..MaxRestarts

Init ==
  /\ helpQueue = InitialHelpQueue
  /\ lookups = {}
  /\ connected = {}
  /\ sent = [j \in Judges |-> InitialHelpQueue]
  /\ view = [j \in Judges |-> InitialHelpQueue]
  /\ acks = {}
  /\ nreq = 0
  /\ restarts = 0

\* A handler's change of the queue, and the broadcast that ends it.
Broadcast(q) ==
  /\ helpQueue' = q
  /\ sent' = [j \in Judges |-> IF j \in connected THEN q ELSE sent[j]]
----------------------------------------------------------------------------
(* Contestants *)

RequestHelp(c) ==
  /\ ~IsInQueue(helpQueue, c) /\ nreq < MaxRequests
  /\ nreq' = nreq + 1
  /\ \E at \in Instants : Broadcast(HelpRequest(helpQueue, c, at, nreq + 1))
  /\ lookups' = lookups \cup {[contestant |-> c, req |-> nreq + 1]}
  /\ UNCHANGED <<connected, view, acks, restarts>>

\* Seeded fault: the station is not broadcast.
LookupDoneQuiet(l) ==
  /\ lookups' = lookups \ {l}
  /\ \E s \in Stations \cup {NoStation} :
       helpQueue' = StationFound(helpQueue, l.contestant, s)
  /\ UNCHANGED <<sent, connected, view, acks, nreq, restarts>>

LookupDone(l) ==
  /\ lookups' = lookups \ {l}
  /\ \E s \in Stations \cup {NoStation} :
       LET q == StationFound(helpQueue, l.contestant, s)
       IN IF q = helpQueue THEN UNCHANGED <<helpQueue, sent>> ELSE Broadcast(q)
  /\ UNCHANGED <<connected, view, acks, nreq, restarts>>

CancelHelp(c) ==
  /\ IsInQueue(helpQueue, c)
  /\ Broadcast(HelpCancel(helpQueue, c))
  /\ UNCHANGED <<lookups, connected, view, acks, nreq, restarts>>
----------------------------------------------------------------------------
(* Judges *)

\* Seeded fault: a judge who connects is not sent the queue.
ConnectUntold(j) ==
  /\ j \notin connected
  /\ connected' = connected \cup {j}
  /\ UNCHANGED <<helpQueue, sent, lookups, view, acks, nreq, restarts>>

\* The socket is admitted and is sent the queue.
Connect(j) ==
  /\ j \notin connected
  /\ connected' = connected \cup {j}
  /\ sent' = [sent EXCEPT ![j] = helpQueue]
  /\ UNCHANGED <<helpQueue, lookups, view, acks, nreq, restarts>>

\* The socket closes; frames on their way, in both directions, are lost.
Disconnect(j) ==
  /\ j \in connected
  /\ connected' = connected \ {j}
  /\ sent' = [sent EXCEPT ![j] = view[j]]
  /\ acks' = {a \in acks : a.judge # j}
  /\ UNCHANGED <<helpQueue, lookups, view, nreq, restarts>>

SeeQueue(j) ==
  /\ j \in connected /\ view[j] # sent[j]
  /\ view' = [view EXCEPT ![j] = sent[j]]
  /\ UNCHANGED <<helpQueue, lookups, connected, sent, acks, nreq, restarts>>

ClickAck(j) ==
  /\ j \in connected
  /\ \E e \in view[j].entries, v \in {view[j].version, NoVersion} :
       acks' = acks \cup
         {[judge |-> j, contestant |-> e.contestant, version |-> v, req |-> e.req]}
  /\ UNCHANGED <<helpQueue, lookups, connected, sent, view, nreq, restarts>>

ExpectedVersion(a) == IF a.version = NoVersion THEN helpQueue.version ELSE a.version

\* HELP_ACK in handleJudgeFrame.
HandleAck(a) ==
  /\ acks' = acks \ {a}
  /\ LET q == HelpAck(helpQueue, a.contestant, ExpectedVersion(a))
     IN IF q = helpQueue THEN UNCHANGED <<helpQueue, sent>> ELSE Broadcast(q)
  /\ UNCHANGED <<lookups, connected, view, nreq, restarts>>

\* The server restarts with an empty queue; every socket closes.
Restart ==
  /\ restarts < MaxRestarts
  /\ restarts' = restarts + 1
  /\ helpQueue' = InitialHelpQueue
  /\ lookups' = {}
  /\ connected' = {}
  /\ sent' = view
  /\ acks' = {}
  /\ UNCHANGED <<view, nreq>>

Next ==
  \/ \E c \in Contestants : RequestHelp(c) \/ CancelHelp(c)
  \/ \E l \in lookups : LookupDone(l)
  \/ \E j \in Judges : Connect(j) \/ Disconnect(j) \/ SeeQueue(j) \/ ClickAck(j)
  \/ \E a \in acks : HandleAck(a)
  \/ Restart

Spec == Init /\ [][Next]_vars

\* Pages reconnect and frames arrive; nobody is obliged to act.
Fairness == \A j \in Judges : WF_vars(Connect(j)) /\ WF_vars(SeeQueue(j))

FairSpec == Spec /\ Fairness
----------------------------------------------------------------------------
(* Properties *)

\* A version names one content of the queue as long as the server runs: a
\* judge whose page, or whose frame on its way, bears the current version has
\* the current queue.  (The station lookup bumps the version for this, see
\* the comment in handleHelpRequest.)
SameVersionSameQueue ==
  restarts = 0 =>
    \A j \in Judges :
      /\ view[j].version = helpQueue.version => view[j] = helpQueue
      /\ sent[j].version = helpQueue.version => sent[j] = helpQueue

\* Every judge connected has been sent the current queue: no handler changes
\* it without telling them.
ConnectedAreUpToDate == \A j \in connected : sent[j] = helpQueue

\* Handling a removes no request but the one the judge saw when clicking.
RemovesOnly(a) ==
  \A e \in helpQueue.entries :
    e.req \notin {f.req : f \in helpQueue'.entries} => e.req = a.req

\* First judge wins (section 7.2): an ack that names the version the judge saw
\* never removes a later request of the same contestant, however late it comes,
\* as long as the server has not restarted.
VersionedAckRemovesWhatTheJudgeSaw ==
  [][ \A a \in acks : HandleAck(a) /\ a.version # NoVersion /\ restarts = 0
                      => RemovesOnly(a) ]_vars

\* A judge who stays connected from some time on ends up seeing the queue.
JudgesSeeTheQueue ==
  \A j \in Judges : <>[](j \in connected) => <>[](view[j] = helpQueue)
============================================================================
