---------------------------- MODULE HelpEntries ----------------------------
(***************************************************************************)
(* The operations of server/src/help-queue.ts on a help queue              *)
(*   [version, entries]                                                    *)
(* whose entries are a set.  The code keeps an array sorted by             *)
(* requestedAtServerMs, ties in arrival order; `req', the number of the    *)
(* request, is history that tells two requests of one contestant apart and *)
(* breaks those ties, so the set determines the array (HelpQueue checks    *)
(* that the code's arrays agree with these sets, operation by operation).  *)
(***************************************************************************)
EXTENDS Integers

CONSTANTS Contestants,   \* contestant ids
          Stations,      \* station numbers
          NoStation,     \* stationNumber null
          Instants,      \* readings of Date.now() at a request
          MaxRequests    \* bound: requests accepted

ASSUME StationAssumption == NoStation \notin Stations
ASSUME InstantAssumption == Instants \subseteq Nat

Entry == [ contestant : Contestants,
           station    : Stations \cup {NoStation},
           at         : Nat,
           req        : Nat ]

Queue == [ version : Nat, entries : SUBSET Entry ]

InitialHelpQueue == [version |-> 0, entries |-> {}]

EntriesOf(q, c) == {e \in q.entries : e.contestant = c}

IsInQueue(q, c) == EntriesOf(q, c) # {}

\* Contestant c waits with its request number r.
Waits(q, c, r) == \E e \in q.entries : e.contestant = c /\ e.req = r

\* Nobody is listed twice, and no two entries are one request.
OneEach(q) == \A e, f \in q.entries : e.contestant = f.contestant => e = f
RequestsDiffer(q) == \A e, f \in q.entries : e.req = f.req => e = f

Before(e, f) == e.at < f.at \/ (e.at = f.at /\ e.req < f.req)

\* entries[0] of the array, for a nonempty queue.
HeadEntry(q) == CHOOSE e \in q.entries : \A f \in q.entries \ {e} : Before(e, f)

Bumped(q, entries) == [version |-> q.version + 1, entries |-> entries]

\* Seeded fault: a null station turned into 0.
HelpRequestAtStationZero(q, c, at, req) ==
  IF IsInQueue(q, c) THEN q
  ELSE Bumped(q, q.entries \cup
               {[contestant |-> c, station |-> 0, at |-> at, req |-> req]})

HelpRequest(q, c, at, req) ==
  IF IsInQueue(q, c) THEN q
  ELSE Bumped(q, q.entries \cup
               {[contestant |-> c, station |-> NoStation, at |-> at, req |-> req]})

HelpCancel(q, c) ==
  IF ~IsInQueue(q, c) THEN q ELSE Bumped(q, q.entries \ EntriesOf(q, c))

\* Seeded fault: the version is not compared.
HelpAckAnyVersion(q, c, expectedVersion) == HelpCancel(q, c)

HelpAck(q, c, expectedVersion) ==
  IF expectedVersion # q.version \/ ~IsInQueue(q, c) THEN q
  ELSE Bumped(q, q.entries \ EntriesOf(q, c))

\* Seeded fault: the entry is replaced in place and the
\* version stays.
StationFoundSameVersion(q, c, station) ==
  IF station = NoStation THEN q
  ELSE [q EXCEPT !.entries =
          (@ \ EntriesOf(q, c)) \cup {[e EXCEPT !.station = station] : e \in EntriesOf(q, c)}]

\* The second half of handleHelpRequest (server/src/ws/contestant.ts): the
\* station lookup came back while the contestant may have left or returned.
StationFound(q, c, station) ==
  LET old == EntriesOf(q, c)
  IN IF station = NoStation \/ \A e \in old : e.station = station THEN q
     ELSE Bumped(q, (q.entries \ old) \cup {[e EXCEPT !.station = station] : e \in old})
============================================================================
