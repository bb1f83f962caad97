-------------------------- MODULE HelpAcks_proofs --------------------------
(***************************************************************************)
(* What the version of the help queue is good for, for any contestants,    *)
(* judges and bounds: between two starts of the server a version names one *)
(* content of the queue, so an acknowledgement with a version, however     *)
(* late, removes nothing but the request its judge saw.                    *)
(*                                                                         *)
(* The argument: every page, and every frame on its way, is of the past:   *)
(* its version is at most the queue's, and if the versions are equal so    *)
(* are the queues.  A change of the queue raises its version, so all that  *)
(* was of the past before is of the past, and bears an older version.      *)
(*                                                                         *)
(* And why the pages may be modelled with a set of entries: the sorted     *)
(* array of help-queue.ts is that set (Q).  Sorted by time with ties in    *)
(* order of arrival, and with nobody listed twice, it has one place for a  *)
(* new entry, and inserting, removing and replacing an element are the     *)
(* operations of HelpEntries.                                              *)
(***************************************************************************)
EXTENDS HelpAcks, HelpArray, HelpEntries_proofs, SequencesExt, SequenceTheorems

\* The queue of one room as the code keeps it.
CONSTANT MaxVersion
Q == INSTANCE HelpQueue

OfThePast(p) ==
  p.version <= helpQueue.version /\ (p.version = helpQueue.version => p = helpQueue)

PagesOfThePast ==
  restarts = 0 => \A j \in Judges : OfThePast(view[j]) /\ OfThePast(sent[j])

\* An ack with the current version is for a request that waits.
Current(a) ==
  /\ a.version <= helpQueue.version
  /\ a.version = helpQueue.version => Waits(helpQueue, a.contestant, a.req)

AcksOfThePast ==
  restarts = 0 => \A a \in acks : a.version # NoVersion => Current(a)

IInv ==
  /\ TypeOK
  /\ SoundQueue(helpQueue, nreq)
  /\ ConnectedAreUpToDate
  /\ PagesOfThePast
  /\ AcksOfThePast

LEMMA InitHolds == Init => IInv
<1> SUFFICES ASSUME Init PROVE IInv
  OBVIOUS
<1>1. InitialHelpQueue \in Queue /\ InitialHelpQueue.entries = {}
      /\ InitialHelpQueue.version = 0
  BY DEF InitialHelpQueue, Queue
<1>2. TypeOK
  BY <1>1, JudgeBounds DEF Init, TypeOK
<1>3. SoundQueue(helpQueue, nreq)
  BY <1>1 DEF Init, SoundQueue, OneEach, RequestsDiffer
<1>4. ConnectedAreUpToDate /\ AcksOfThePast
  BY DEF Init, ConnectedAreUpToDate, AcksOfThePast
<1>5. PagesOfThePast
  BY <1>1 DEF Init, PagesOfThePast, OfThePast
<1> QED BY <1>2, <1>3, <1>4, <1>5 DEF IInv

Raised(q) == q = helpQueue \/ q.version = helpQueue.version + 1

\* A change of the queue with its broadcast, by whatever handler.
LEMMA BroadcastHolds ==
  ASSUME IInv, Broadcast(helpQueue'), Raised(helpQueue'),
         nreq' \in 0..MaxRequests, SoundQueue(helpQueue', nreq'),
         lookups' \in SUBSET [contestant : Contestants, req : Requests],
         acks' \subseteq acks, UNCHANGED <<connected, view, restarts>>
  PROVE  IInv'
<1>1. helpQueue' \in Queue /\ helpQueue'.version \in Nat /\ helpQueue.version \in Nat
  BY DEF SoundQueue, Queue, IInv
<1>2. /\ sent' \in [Judges -> Queue]
      /\ \A j \in Judges : sent'[j] = IF j \in connected THEN helpQueue' ELSE sent[j]
  BY <1>1 DEF Broadcast, IInv, TypeOK
<1>3. TypeOK'
  <2>1. \A e \in helpQueue'.entries : e.req \in 1..nreq'
    BY DEF SoundQueue
  <2> QED BY <1>1, <1>2, <2>1 DEF IInv, TypeOK
<1>4. ConnectedAreUpToDate'
  BY <1>2 DEF ConnectedAreUpToDate, IInv, TypeOK
<1>5. PagesOfThePast'
  <2> SUFFICES ASSUME restarts = 0, NEW j \in Judges
               PROVE  OfThePast(view[j])' /\ OfThePast(sent[j])'
    BY DEF PagesOfThePast
  <2>1. OfThePast(view[j]) /\ OfThePast(sent[j])
    BY DEF IInv, PagesOfThePast
  <2>2. view[j].version \in Nat /\ sent[j].version \in Nat
    BY DEF IInv, TypeOK, Queue
  <2>3. OfThePast(view[j])'
    BY <2>1, <2>2, <1>1 DEF OfThePast, Raised
  <2>4. OfThePast(sent[j])'
    BY <2>1, <2>2, <1>1, <1>2 DEF OfThePast, Raised
  <2> QED BY <2>3, <2>4
<1>6. AcksOfThePast'
  <2> SUFFICES ASSUME restarts = 0, NEW a \in acks, a.version # NoVersion
               PROVE  Current(a)'
    BY DEF AcksOfThePast
  <2>1. Current(a) /\ a.version \in Nat
    BY DEF IInv, AcksOfThePast, TypeOK, Ack
  <2> QED BY <2>1, <1>1 DEF Current, Raised
<1> QED BY <1>3, <1>4, <1>5, <1>6 DEF IInv

\* Telling nobody is telling them the queue they were sent last.
LEMMA QuietBroadcast ==
  ASSUME IInv, UNCHANGED <<helpQueue, sent>>
  PROVE  Broadcast(helpQueue') /\ Raised(helpQueue')
<1>1. sent = [j \in Judges |-> IF j \in connected THEN helpQueue ELSE sent[j]]
  BY DEF IInv, TypeOK, ConnectedAreUpToDate
<1> QED BY <1>1 DEF Broadcast, Raised

\* What an ack does to the queue: nothing, or what a cancel does.
LEMMA HandledAck ==
  ASSUME IInv, NEW a \in acks, HandleAck(a)
  PROVE  /\ Broadcast(helpQueue') /\ Raised(helpQueue')
         /\ helpQueue' = helpQueue \/ (/\ ExpectedVersion(a) = helpQueue.version
                                       /\ helpQueue' = HelpCancel(helpQueue, a.contestant))
         /\ UNCHANGED <<lookups, connected, view, nreq, restarts>> /\ acks' \subseteq acks
<1> DEFINE q == HelpAck(helpQueue, a.contestant, ExpectedVersion(a))
<1>1. /\ IF q = helpQueue THEN UNCHANGED <<helpQueue, sent>> ELSE Broadcast(q)
      /\ UNCHANGED <<lookups, connected, view, nreq, restarts>> /\ acks' \subseteq acks
  BY DEF HandleAck
<1>2. CASE q = helpQueue
  <2>1. UNCHANGED <<helpQueue, sent>>
    BY <1>1, <1>2
  <2> QED BY <1>1, <2>1, QuietBroadcast
<1>3. CASE q # helpQueue
  <2>1. Broadcast(q)
    BY <1>1, <1>3
  <2>2. helpQueue' = q
    BY <2>1 DEF Broadcast
  <2>3. /\ ExpectedVersion(a) = helpQueue.version
        /\ q = HelpCancel(helpQueue, a.contestant)
    BY <1>3, AckIsCancel
  <2>4. Raised(q)
    BY <2>3 DEF HelpCancel, Bumped, Raised
  <2> HIDE DEF q
  <2> QED BY <1>1, <2>1, <2>2, <2>3, <2>4
<1> QED BY <1>2, <1>3

LEMMA RequestHolds ==
  ASSUME IInv, NEW c \in Contestants, RequestHelp(c)
  PROVE  IInv'
<1>1. PICK at \in Instants : Broadcast(HelpRequest(helpQueue, c, at, nreq + 1))
  BY DEF RequestHelp
<1> DEFINE q == HelpRequest(helpQueue, c, at, nreq + 1)
<1>2. /\ ~IsInQueue(helpQueue, c) /\ nreq < MaxRequests /\ nreq' = nreq + 1
      /\ lookups' = lookups \cup {[contestant |-> c, req |-> nreq + 1]}
      /\ UNCHANGED <<connected, view, acks, restarts>>
  BY DEF RequestHelp
<1>3. at \in Nat /\ nreq \in Nat /\ nreq + 1 \in 0..MaxRequests /\ nreq + 1 \in Requests
  BY <1>2, InstantAssumption, JudgeBounds DEF IInv, TypeOK, Requests
<1>4. helpQueue' = q /\ Broadcast(helpQueue')
  BY <1>1 DEF Broadcast
<1>5. Raised(q)
  BY <1>2 DEF HelpRequest, Bumped, Raised
<1>6. SoundQueue(q, nreq + 1)
  BY <1>2, <1>3, RequestKeepsSound DEF IInv
<1>7. lookups' \in SUBSET [contestant : Contestants, req : Requests]
  BY <1>2, <1>3 DEF IInv, TypeOK
<1> HIDE DEF q
<1> QED BY <1>2, <1>3, <1>4, <1>5, <1>6, <1>7, BroadcastHolds

LEMMA CancelHolds ==
  ASSUME IInv, NEW c \in Contestants, CancelHelp(c)
  PROVE  IInv'
<1>1. /\ Broadcast(HelpCancel(helpQueue, c))
      /\ UNCHANGED <<lookups, connected, view, acks, nreq, restarts>>
  BY DEF CancelHelp
<1>2. helpQueue' = HelpCancel(helpQueue, c) /\ Broadcast(helpQueue')
  BY <1>1 DEF Broadcast
<1>3. Raised(helpQueue')
  BY <1>2 DEF HelpCancel, Bumped, Raised
<1>4. SoundQueue(helpQueue', nreq')
  BY <1>1, <1>2, CancelKeepsSound DEF IInv, TypeOK
<1>5. nreq' \in 0..MaxRequests /\ lookups' \in SUBSET [contestant : Contestants, req : Requests]
  BY <1>1 DEF IInv, TypeOK
<1> QED BY <1>1, <1>2, <1>3, <1>4, <1>5, BroadcastHolds

LEMMA LookupHolds ==
  ASSUME IInv, NEW l \in lookups, LookupDone(l)
  PROVE  IInv'
<1>1. PICK s \in Stations \cup {NoStation} :
        LET q == StationFound(helpQueue, l.contestant, s)
        IN IF q = helpQueue THEN UNCHANGED <<helpQueue, sent>> ELSE Broadcast(q)
  BY DEF LookupDone
<1> DEFINE q == StationFound(helpQueue, l.contestant, s)
<1>2. UNCHANGED <<connected, view, acks, nreq, restarts>> /\ lookups' = lookups \ {l}
  BY DEF LookupDone
<1>3. SoundQueue(q, nreq)
  BY StationKeepsSound DEF IInv, TypeOK
<1>4. Raised(q)
  BY DEF StationFound, Bumped, Raised
<1>5. helpQueue' = q /\ Broadcast(helpQueue') /\ Raised(helpQueue')
  <2>1. CASE q = helpQueue
    BY <1>1, <2>1, QuietBroadcast
  <2>2. CASE q # helpQueue
    BY <1>1, <1>4, <2>2 DEF Broadcast
  <2> QED BY <2>1, <2>2
<1>6. nreq' \in 0..MaxRequests /\ lookups' \in SUBSET [contestant : Contestants, req : Requests]
  BY <1>2 DEF IInv, TypeOK
<1> HIDE DEF q
<1> QED BY <1>2, <1>3, <1>5, <1>6, BroadcastHolds

LEMMA AckHolds ==
  ASSUME IInv, NEW a \in acks, HandleAck(a)
  PROVE  IInv'
<1>1. /\ Broadcast(helpQueue') /\ Raised(helpQueue')
      /\ helpQueue' = helpQueue \/ helpQueue' = HelpCancel(helpQueue, a.contestant)
      /\ UNCHANGED <<lookups, connected, view, nreq, restarts>> /\ acks' \subseteq acks
  BY HandledAck
<1>2. a.contestant \in Contestants
  BY DEF IInv, TypeOK, Ack
<1>3. SoundQueue(helpQueue', nreq')
  BY <1>1, <1>2, CancelKeepsSound DEF IInv, TypeOK
<1>4. nreq' \in 0..MaxRequests /\ lookups' \in SUBSET [contestant : Contestants, req : Requests]
  BY <1>1 DEF IInv, TypeOK
<1> QED BY <1>1, <1>3, <1>4, BroadcastHolds

\* Pages that connect, disconnect and catch up show queues of the past.
LEMMA PageHolds ==
  ASSUME IInv, NEW j \in Judges, Connect(j) \/ Disconnect(j) \/ SeeQueue(j)
  PROVE  IInv'
<1>1. /\ UNCHANGED <<helpQueue, lookups, nreq, restarts>> /\ acks' \subseteq acks
      /\ helpQueue \in Queue /\ helpQueue.version \in Nat
  BY DEF Connect, Disconnect, SeeQueue, IInv, TypeOK, Queue
<1>2. /\ connected' \in SUBSET Judges
      /\ sent' \in [Judges -> Queue] /\ view' \in [Judges -> Queue]
  BY DEF Connect, Disconnect, SeeQueue, IInv, TypeOK
<1>3. \A i \in Judges : /\ view'[i] \in {view[i], sent[i]}
                        /\ sent'[i] \in {view[i], sent[i], helpQueue}
  BY DEF Connect, Disconnect, SeeQueue, IInv, TypeOK
<1>4. TypeOK'
  BY <1>1, <1>2 DEF IInv, TypeOK
<1>5. SoundQueue(helpQueue', nreq')
  BY <1>1 DEF IInv
<1>6. ConnectedAreUpToDate'
  BY <1>1 DEF Connect, Disconnect, SeeQueue, IInv, TypeOK, ConnectedAreUpToDate
<1>7. PagesOfThePast'
  BY <1>1, <1>3 DEF IInv, PagesOfThePast, OfThePast
<1>8. AcksOfThePast'
  BY <1>1 DEF IInv, AcksOfThePast, Current
<1> QED BY <1>4, <1>5, <1>6, <1>7, <1>8 DEF IInv

\* A click on a row of a page whose version is current is for a request that
\* waits.
LEMMA ClickHolds ==
  ASSUME IInv, NEW j \in Judges, ClickAck(j)
  PROVE  IInv'
<1>1. PICK e \in view[j].entries, v \in {view[j].version, NoVersion} :
        acks' = acks \cup
          {[judge |-> j, contestant |-> e.contestant, version |-> v, req |-> e.req]}
  BY DEF ClickAck
<1> DEFINE a == [judge |-> j, contestant |-> e.contestant, version |-> v, req |-> e.req]
<1>2. UNCHANGED <<helpQueue, lookups, connected, sent, view, nreq, restarts>>
  BY DEF ClickAck
<1>3. e \in Entry /\ view[j].version \in Nat
  BY DEF IInv, TypeOK, Queue
<1>4. a \in Ack
  BY <1>3 DEF Ack, Entry
<1>5. TypeOK'
  BY <1>1, <1>2, <1>4 DEF IInv, TypeOK
<1>6. SoundQueue(helpQueue', nreq') /\ ConnectedAreUpToDate' /\ PagesOfThePast'
  BY <1>2 DEF IInv, ConnectedAreUpToDate, PagesOfThePast, OfThePast
<1>7. AcksOfThePast'
  <2>1. ASSUME restarts = 0, v # NoVersion
        PROVE  Current(a)
    <3>1. OfThePast(view[j]) /\ v = view[j].version
      BY <2>1 DEF IInv, PagesOfThePast
    <3> QED BY <3>1 DEF OfThePast, Current, Waits
  <2>2. ASSUME restarts = 0, NEW b \in acks, b.version # NoVersion
        PROVE  Current(b)
    BY <2>2 DEF IInv, AcksOfThePast
  <2>3. \A b : Current(b)' <=> Current(b)
    BY <1>2 DEF Current
  <2>4. a.version = v
    OBVIOUS
  <2> HIDE DEF a
  <2> QED BY <1>1, <1>2, <2>1, <2>2, <2>3, <2>4 DEF AcksOfThePast, a
<1> QED BY <1>5, <1>6, <1>7 DEF IInv

LEMMA RestartHolds ==
  ASSUME IInv, Restart
  PROVE  IInv'
<1>1. InitialHelpQueue \in Queue /\ InitialHelpQueue.entries = {}
  BY DEF InitialHelpQueue, Queue
<1>2. /\ restarts < MaxRestarts /\ restarts' = restarts + 1 /\ restarts' # 0
      /\ restarts' \in 0..MaxRestarts
  BY JudgeBounds DEF Restart, IInv, TypeOK
<1>3. TypeOK'
  BY <1>1, <1>2 DEF Restart, IInv, TypeOK
<1>4. SoundQueue(helpQueue', nreq')
  BY <1>1 DEF Restart, SoundQueue, OneEach, RequestsDiffer
<1>5. ConnectedAreUpToDate' /\ PagesOfThePast' /\ AcksOfThePast'
  BY <1>2 DEF Restart, ConnectedAreUpToDate, PagesOfThePast, AcksOfThePast
<1> QED BY <1>3, <1>4, <1>5 DEF IInv

LEMMA NextHolds == IInv /\ [Next]_vars => IInv'
<1> SUFFICES ASSUME IInv, [Next]_vars PROVE IInv'
  OBVIOUS
<1>1. ASSUME NEW c \in Contestants, RequestHelp(c) \/ CancelHelp(c) PROVE IInv'
  BY <1>1, RequestHolds, CancelHolds
<1>2. ASSUME NEW l \in lookups, LookupDone(l) PROVE IInv'
  BY <1>2, LookupHolds
<1>3. ASSUME NEW j \in Judges, Connect(j) \/ Disconnect(j) \/ SeeQueue(j) PROVE IInv'
  BY <1>3, PageHolds
<1>4. ASSUME NEW j \in Judges, ClickAck(j) PROVE IInv'
  BY <1>4, ClickHolds
<1>5. ASSUME NEW a \in acks, HandleAck(a) PROVE IInv'
  BY <1>5, AckHolds
<1>6. CASE UNCHANGED vars
  BY <1>6 DEF vars, IInv, TypeOK, ConnectedAreUpToDate, PagesOfThePast, OfThePast,
              AcksOfThePast, Current
<1> QED
  BY <1>1, <1>2, <1>3, <1>4, <1>5, <1>6, RestartHolds DEF Next

LEMMA IInvHolds == Spec => []IInv
<1> QED BY InitHolds, NextHolds, PTL DEF Spec

\* No handler changes the queue without sending it to every judge connected,
\* and a judge who connects is sent it.
THEOREM NobodyConnectedIsBehind == Spec => []ConnectedAreUpToDate
<1>1. IInv => ConnectedAreUpToDate
  BY DEF IInv
<1> QED BY <1>1, IInvHolds, PTL

\* Until the server restarts a version names one content of the queue; the
\* station lookup keeps to it because it raises the version.
THEOREM VersionNamesQueue == Spec => []SameVersionSameQueue
<1>1. IInv => SameVersionSameQueue
  BY DEF IInv, PagesOfThePast, OfThePast, SameVersionSameQueue
<1> QED BY <1>1, IInvHolds, PTL

\* An ack that carries a version removes, until the server restarts, only the
\* request the judge saw: not a later one of the same contestant.
THEOREM VersionedAckIsSafe == Spec => VersionedAckRemovesWhatTheJudgeSaw
<1>1. ASSUME IInv, NEW a \in acks, HandleAck(a), a.version # NoVersion, restarts = 0
      PROVE  RemovesOnly(a)
  <2> SUFFICES ASSUME NEW e \in helpQueue.entries,
                      e.req \notin {f.req : f \in helpQueue'.entries}
               PROVE  e.req = a.req
    BY DEF RemovesOnly
  <2>1. e \notin helpQueue'.entries
    OBVIOUS
  <2>2. /\ ExpectedVersion(a) = helpQueue.version
        /\ helpQueue' = HelpCancel(helpQueue, a.contestant)
    BY <1>1, <2>1, HandledAck
  <2>3. a.version = helpQueue.version /\ a.contestant \in Contestants
    BY <1>1, <2>2 DEF ExpectedVersion, IInv, TypeOK, Ack
  <2>4. e.contestant = a.contestant
    BY <1>1, <2>1, <2>2, <2>3, CancelKeepsSound DEF IInv, TypeOK
  <2>5. Waits(helpQueue, a.contestant, a.req)
    BY <1>1, <2>3 DEF IInv, AcksOfThePast, Current
  <2> QED BY <1>1, <2>4, <2>5 DEF Waits, IInv, SoundQueue, OneEach
<1>2. IInv => [\A a \in acks : HandleAck(a) /\ a.version # NoVersion /\ restarts = 0
                              => RemovesOnly(a)]_vars
  BY <1>1
<1> QED BY <1>2, IInvHolds, PTL DEF VersionedAckRemovesWhatTheJudgeSaw

----------------------------------------------------------------------------
\* The arrays of help-queue.ts, and the sets of HelpEntries they stand for.

SetOf(s) == {s[i] : i \in DOMAIN s}

\* An array of the queue on which n requests have been accepted: nobody is
\* listed twice, and entries are sorted by time, ties in order of arrival.
SortedQueue(s, n) ==
  /\ s \in Seq(Entry)
  /\ \A i \in 1..Len(s) : s[i].req \in 1..n
  /\ \A i, k \in 1..Len(s) : s[i].contestant = s[k].contestant => i = k
  /\ \A i, k \in 1..Len(s) : i < k => Before(s[i], s[k])

LEMMA InsertAtIs ==
  ASSUME NEW S, NEW s \in Seq(S), NEW e \in S, NEW p \in 1..(Len(s) + 1)
  PROVE  /\ InsertAt(s, p, e) \in Seq(S)
         /\ Len(InsertAt(s, p, e)) = Len(s) + 1
         /\ \A i \in 1..(Len(s) + 1) :
              InsertAt(s, p, e)[i] = IF i < p THEN s[i] ELSE IF i = p THEN e ELSE s[i - 1]
<1> DEFINE a == SubSeq(s, 1, p - 1)
           b == SubSeq(s, p, Len(s))
           ae == a \o <<e>>
<1>0. Len(s) \in Nat /\ p \in Int /\ \A i \in 1..Len(s) : s[i] \in S
  BY LenProperties, ElementOfSeq
<1>1. a \in Seq(S) /\ Len(a) = p - 1 /\ \A i \in 1..(p - 1) : a[i] = s[i]
  BY <1>0
<1>2. b \in Seq(S) /\ Len(b) = Len(s) - p + 1 /\ \A i \in 1..(Len(s) - p + 1) : b[i] = s[p + i - 1]
  BY <1>0
<1>3. <<e>> \in Seq(S) /\ Len(<<e>>) = 1 /\ <<e>>[1] = e
  OBVIOUS
<1> HIDE DEF a, b
<1>4. /\ ae \in Seq(S) /\ Len(ae) = p
      /\ \A i \in 1..p : ae[i] = IF i < p THEN s[i] ELSE e
  BY <1>0, <1>1, <1>3
<1> HIDE DEF ae
<1>5. /\ ae \o b \in Seq(S) /\ Len(ae \o b) = Len(s) + 1
      /\ \A i \in 1..(Len(s) + 1) :
           (ae \o b)[i] = IF i < p THEN s[i] ELSE IF i = p THEN e ELSE s[i - 1]
  <2>1. /\ ae \o b \in Seq(S) /\ Len(ae \o b) = Len(ae) + Len(b)
        /\ \A i \in 1..(Len(ae) + Len(b)) :
             (ae \o b)[i] = IF i <= Len(ae) THEN ae[i] ELSE b[i - Len(ae)]
    BY <1>2, <1>4, ConcatProperties
  <2>2. ASSUME NEW i \in 1..(Len(s) + 1)
        PROVE  (ae \o b)[i] = IF i < p THEN s[i] ELSE IF i = p THEN e ELSE s[i - 1]
    <3>1. (ae \o b)[i] = IF i <= p THEN ae[i] ELSE b[i - p]
      BY <1>0, <1>2, <1>4, <2>1
    <3>2. CASE i <= p
      BY <1>0, <1>4, <3>1, <3>2
    <3>3. CASE ~(i <= p)
      <4>1. i - p \in 1..(Len(s) - p + 1) /\ p + (i - p) - 1 = i - 1
        BY <1>0, <3>3
      <4> QED BY <1>0, <1>2, <3>1, <3>3, <4>1
    <3> QED BY <3>2, <3>3
  <2> QED BY <1>0, <1>2, <1>4, <2>1, <2>2
<1>6. InsertAt(s, p, e) = ae \o b
  BY DEF InsertAt, a, b, ae
<1> QED BY <1>5, <1>6

LEMMA RemoveAtIs ==
  ASSUME NEW S, NEW s \in Seq(S), NEW p \in 1..Len(s)
  PROVE  /\ RemoveAt(s, p) \in Seq(S)
         /\ Len(RemoveAt(s, p)) = Len(s) - 1
         /\ \A i \in 1..(Len(s) - 1) : RemoveAt(s, p)[i] = IF i < p THEN s[i] ELSE s[i + 1]
<1> DEFINE a == SubSeq(s, 1, p - 1)
           b == SubSeq(s, p + 1, Len(s))
<1>0. Len(s) \in Nat /\ p \in Int /\ \A i \in 1..Len(s) : s[i] \in S
  BY LenProperties, ElementOfSeq
<1>1. a \in Seq(S) /\ Len(a) = p - 1 /\ \A i \in 1..(p - 1) : a[i] = s[i]
  BY <1>0
<1>2. b \in Seq(S) /\ Len(b) = Len(s) - p /\ \A i \in 1..(Len(s) - p) : b[i] = s[p + i]
  BY <1>0
<1> HIDE DEF a, b
<1>3. /\ a \o b \in Seq(S) /\ Len(a \o b) = Len(s) - 1
      /\ \A i \in 1..(Len(s) - 1) : (a \o b)[i] = IF i < p THEN s[i] ELSE s[i + 1]
  <2>1. /\ a \o b \in Seq(S) /\ Len(a \o b) = Len(a) + Len(b)
        /\ \A i \in 1..(Len(a) + Len(b)) :
             (a \o b)[i] = IF i <= Len(a) THEN a[i] ELSE b[i - Len(a)]
    BY <1>1, <1>2, ConcatProperties
  <2>2. ASSUME NEW i \in 1..(Len(s) - 1)
        PROVE  (a \o b)[i] = IF i < p THEN s[i] ELSE s[i + 1]
    <3>1. (a \o b)[i] = IF i <= p - 1 THEN a[i] ELSE b[i - (p - 1)]
      BY <1>0, <1>1, <1>2, <2>1
    <3>2. CASE i < p
      BY <1>0, <1>1, <3>1, <3>2
    <3>3. CASE ~(i < p)
      <4>1. i - (p - 1) \in 1..(Len(s) - p) /\ p + (i - (p - 1)) = i + 1
        BY <1>0, <3>3
      <4>2. b[i - (p - 1)] = s[p + (i - (p - 1))]
        BY <1>2, <4>1
      <4>3. ~(i <= p - 1)
        BY <1>0, <3>3
      <4> QED BY <3>1, <3>3, <4>1, <4>2, <4>3
    <3> QED BY <3>2, <3>3
  <2> QED BY <1>0, <1>1, <1>2, <2>1, <2>2
<1>4. RemoveAt(s, p) = a \o b
  BY DEF RemoveAt, a, b
<1> QED BY <1>3, <1>4

LEMMA SetOfLen ==
  ASSUME NEW S, NEW s \in Seq(S)
  PROVE  Len(s) \in Nat /\ DOMAIN s = 1..Len(s) /\ SetOf(s) = {s[i] : i \in 1..Len(s)}
BY LenProperties DEF SetOf

\* An entry is inserted.
LEMMA InsertedSet ==
  ASSUME NEW S, NEW s \in Seq(S), NEW e \in S, NEW p \in 1..(Len(s) + 1)
  PROVE  SetOf(InsertAt(s, p, e)) = SetOf(s) \cup {e}
<1> DEFINE t == InsertAt(s, p, e)
<1>1. /\ t \in Seq(S) /\ Len(t) = Len(s) + 1 /\ Len(s) \in Nat
      /\ \A i \in 1..(Len(s) + 1) :
           t[i] = IF i < p THEN s[i] ELSE IF i = p THEN e ELSE s[i - 1]
  BY InsertAtIs, LenProperties
<1> HIDE DEF t
<1>2. SetOf(t) = {t[i] : i \in 1..(Len(s) + 1)} /\ SetOf(s) = {s[i] : i \in 1..Len(s)}
  BY <1>1, SetOfLen
<1>3. ASSUME NEW i \in 1..(Len(s) + 1) PROVE t[i] \in SetOf(s) \cup {e}
  <2>1. CASE i < p
    BY <1>1, <1>2, <2>1
  <2>2. CASE i > p
    <3>1. i - 1 \in 1..Len(s) /\ t[i] = s[i - 1]
      BY <1>1, <2>2
    <3> QED BY <1>2, <3>1
  <2>3. CASE i = p
    BY <1>1, <2>3
  <2> QED BY <2>1, <2>2, <2>3
<1>4. ASSUME NEW i \in 1..Len(s) PROVE s[i] \in SetOf(t)
  <2>1. CASE i < p
    BY <1>1, <1>2, <2>1
  <2>2. CASE i >= p
    <3>1. i + 1 \in 1..(Len(s) + 1) /\ t[i + 1] = s[(i + 1) - 1] /\ (i + 1) - 1 = i
      BY <1>1, <2>2
    <3> QED BY <1>2, <3>1
  <2> QED BY <2>1, <2>2
<1>5. e \in SetOf(t)
  BY <1>1, <1>2
<1> QED BY <1>2, <1>3, <1>4, <1>5 DEF t

\* An entry is removed.
LEMMA RemovedSet ==
  ASSUME NEW S, NEW s \in Seq(S), NEW p \in 1..Len(s),
         \A i \in 1..Len(s) : s[i] = s[p] => i = p
  PROVE  SetOf(RemoveAt(s, p)) = SetOf(s) \ {s[p]}
<1> DEFINE t == RemoveAt(s, p)
<1>1. /\ t \in Seq(S) /\ Len(t) = Len(s) - 1 /\ Len(s) \in Nat
      /\ \A i \in 1..(Len(s) - 1) : t[i] = IF i < p THEN s[i] ELSE s[i + 1]
  BY RemoveAtIs, LenProperties
<1> HIDE DEF t
<1>2. SetOf(t) = {t[i] : i \in 1..(Len(s) - 1)} /\ SetOf(s) = {s[i] : i \in 1..Len(s)}
  BY <1>1, SetOfLen
<1>3. ASSUME NEW i \in 1..(Len(s) - 1) PROVE t[i] \in SetOf(s) \ {s[p]}
  <2>1. CASE i < p
    BY <1>1, <1>2, <2>1
  <2>2. CASE i >= p
    <3>1. i + 1 \in 1..Len(s) /\ t[i] = s[i + 1] /\ i + 1 # p
      BY <1>1, <2>2
    <3> QED BY <1>2, <3>1
  <2> QED BY <2>1, <2>2
<1>4. ASSUME NEW i \in 1..Len(s), i # p PROVE s[i] \in SetOf(t)
  <2>1. CASE i < p
    BY <1>1, <1>2, <2>1
  <2>2. CASE i > p
    <3>1. i - 1 \in 1..(Len(s) - 1) /\ t[i - 1] = s[(i - 1) + 1] /\ (i - 1) + 1 = i
      BY <1>1, <2>2
    <3> QED BY <1>2, <3>1
  <2> QED BY <1>4, <2>1, <2>2
<1> QED BY <1>2, <1>3, <1>4 DEF t

LEMMA SortedFields ==
  ASSUME NEW n, NEW s, SortedQueue(s, n)
  PROVE  /\ Len(s) \in Nat /\ DOMAIN s = 1..Len(s)
         /\ \A i \in 1..Len(s) :
              /\ s[i] \in Entry /\ s[i].at \in Nat /\ s[i].req \in Nat
              /\ s[i].contestant \in Contestants
<1>1. s \in Seq(Entry)
  BY DEF SortedQueue
<1>2. Len(s) \in Nat /\ DOMAIN s = 1..Len(s) /\ \A i \in 1..Len(s) : s[i] \in Entry
  BY <1>1, LenProperties, ElementOfSeq
<1>3. \A e \in Entry : e.at \in Nat /\ e.req \in Nat /\ e.contestant \in Contestants
  BY DEF Entry
<1> QED BY <1>2, <1>3

\* Sorted by time, an array has a place for a new entry.
LEMMA PlaceExists ==
  ASSUME NEW n, NEW s, SortedQueue(s, n), NEW at \in Nat
  PROVE  \E p \in 1..(Len(s) + 1) : /\ \A i \in 1..(p - 1) : s[i].at <= at
                                    /\ \A i \in p..Len(s) : s[i].at > at
<1>0. Len(s) \in Nat /\ \A i \in 1..Len(s) : s[i] \in Entry /\ s[i].at \in Nat
  BY SortedFields
<1> DEFINE T == {i \in 1..Len(s) : s[i].at > at} \cup {Len(s) + 1}
<1>1. T \subseteq Nat /\ T # {}
  BY <1>0
<1> HIDE DEF T
<1>2. PICK p \in T : \A k \in T : p <= k
  BY <1>1, LeastNatural
<1>3. p \in 1..(Len(s) + 1) /\ (p <= Len(s) => s[p].at > at)
  BY <1>0, <1>2 DEF T
<1>4. ASSUME NEW i \in 1..(p - 1) PROVE s[i].at <= at
  <2>1. i \in 1..Len(s) /\ i \notin T
    BY <1>0, <1>2, <1>3
  <2> QED BY <1>0, <2>1 DEF T
<1>5. ASSUME NEW i \in p..Len(s) PROVE s[i].at > at
  <2>1. i \in 1..Len(s) /\ p \in 1..Len(s) /\ s[p].at > at
    BY <1>0, <1>3
  <2>2. CASE i = p
    BY <2>1, <2>2
  <2>3. CASE i # p
    <3>1. Before(s[p], s[i])
      BY <1>3, <2>1, <2>3 DEF SortedQueue
    <3>2. s[p].at <= s[i].at
      BY <1>0, <2>1, <3>1 DEF Before
    <3> QED BY <1>0, <2>1, <3>2
  <2> QED BY <2>2, <2>3
<1> QED BY <1>3, <1>4, <1>5

LEMMA SortedInserted ==
  ASSUME NEW n \in Nat, NEW s, SortedQueue(s, n), NEW c \in Contestants, NEW at \in Nat,
         \A i \in 1..Len(s) : s[i].contestant # c,
         NEW new, new = [contestant |-> c, station |-> NoStation, at |-> at, req |-> n + 1],
         NEW p \in 1..(Len(s) + 1),
         \A i \in 1..(p - 1) : s[i].at <= at, \A i \in p..Len(s) : s[i].at > at
  PROVE  SortedQueue(InsertAt(s, p, new), n + 1)
<1> DEFINE t == InsertAt(s, p, new)
<1>0. /\ Len(s) \in Nat /\ s \in Seq(Entry)
      /\ \A i \in 1..Len(s) : /\ s[i] \in Entry /\ s[i].at \in Nat /\ s[i].req \in Nat
                              /\ s[i].req \in 1..n
  BY SortedFields DEF SortedQueue
<1>1. /\ new \in Entry /\ new.at = at /\ new.req = n + 1 /\ new.contestant = c
  BY DEF Entry
<1>2. /\ t \in Seq(Entry) /\ Len(t) = Len(s) + 1
      /\ \A i \in 1..(Len(s) + 1) :
           t[i] = IF i < p THEN s[i] ELSE IF i = p THEN new ELSE s[i - 1]
  BY <1>0, <1>1, InsertAtIs
<1> HIDE DEF t
\* An entry of t is the new one, or one of s.
<1> DEFINE Old(i) == IF i < p THEN i ELSE i - 1
<1>3. \A i \in 1..(Len(s) + 1) :
        i # p => /\ Old(i) \in 1..Len(s) /\ t[i] = s[Old(i)]
                 /\ i < p => Old(i) \in 1..(p - 1)
                 /\ i > p => Old(i) \in p..Len(s)
  BY <1>0, <1>2
<1>4. t[p] = new
  BY <1>0, <1>2
<1>5. \A i, k \in 1..(Len(s) + 1) : i # p /\ k # p => (Old(i) = Old(k) => i = k) /\ (i < k => Old(i) < Old(k))
  BY <1>0
<1> HIDE DEF Old
<1>6. ASSUME NEW i \in 1..(Len(s) + 1) PROVE t[i].req \in 1..(n + 1)
  <2>1. CASE i = p
    BY <1>1, <1>4, <2>1
  <2>2. CASE i # p
    BY <1>0, <1>3, <2>2
  <2> QED BY <2>1, <2>2
<1>7. ASSUME NEW i \in 1..(Len(s) + 1), NEW k \in 1..(Len(s) + 1), t[i].contestant = t[k].contestant
      PROVE  i = k
  <2>1. \A j \in 1..(Len(s) + 1) : t[j].contestant = c => j = p
    BY <1>3
  <2>2. CASE i = p \/ k = p
    BY <1>1, <1>4, <1>7, <2>1, <2>2
  <2>3. CASE i # p /\ k # p
    <3>1. /\ Old(i) \in 1..Len(s) /\ Old(k) \in 1..Len(s)
          /\ s[Old(i)].contestant = s[Old(k)].contestant
      BY <1>3, <1>7, <2>3
    <3>2. Old(i) = Old(k)
      BY <3>1 DEF SortedQueue
    <3> QED BY <1>5, <2>3, <3>2
  <2> QED BY <2>2, <2>3
<1>8. ASSUME NEW i \in 1..(Len(s) + 1), NEW k \in 1..(Len(s) + 1), i < k
      PROVE  Before(t[i], t[k])
  <2>1. CASE i = p
    <3>1. k > p /\ t[k] = s[Old(k)] /\ Old(k) \in p..Len(s)
      BY <1>3, <1>8, <2>1
    <3>2. s[Old(k)].at > at
      BY <3>1
    <3> QED BY <1>1, <1>4, <2>1, <3>1, <3>2 DEF Before
  <2>2. CASE k = p
    <3>1. i < p /\ t[i] = s[Old(i)] /\ Old(i) \in 1..(p - 1) /\ Old(i) \in 1..Len(s)
      BY <1>3, <1>8, <2>2
    <3>2. s[Old(i)].at <= at /\ s[Old(i)].req < n + 1 /\ s[Old(i)].at \in Nat
      BY <1>0, <3>1
    <3> QED BY <1>1, <1>4, <2>2, <3>1, <3>2 DEF Before
  <2>3. CASE i # p /\ k # p
    <3>1. Old(i) \in 1..Len(s) /\ Old(k) \in 1..Len(s) /\ Old(i) < Old(k)
      BY <1>3, <1>5, <1>8, <2>3
    <3>2. Before(s[Old(i)], s[Old(k)])
      BY <3>1 DEF SortedQueue
    <3> QED BY <1>3, <2>3, <3>2
  <2> QED BY <2>1, <2>2, <2>3
<1>9. SortedQueue(t, n + 1)
  BY <1>2, <1>6, <1>7, <1>8 DEF SortedQueue
<1> QED BY <1>9 DEF t

LEMMA SortedRemoved ==
  ASSUME NEW n, NEW s, SortedQueue(s, n), NEW p \in 1..Len(s)
  PROVE  SortedQueue(RemoveAt(s, p), n)
<1> DEFINE t == RemoveAt(s, p)
           Old(i) == IF i < p THEN i ELSE i + 1
<1>0. Len(s) \in Nat /\ s \in Seq(Entry)
  BY SortedFields DEF SortedQueue
<1>1. /\ t \in Seq(Entry) /\ Len(t) = Len(s) - 1
      /\ \A i \in 1..(Len(s) - 1) : t[i] = IF i < p THEN s[i] ELSE s[i + 1]
  BY <1>0, RemoveAtIs
<1> HIDE DEF t
<1>2. \A i \in 1..(Len(s) - 1) : Old(i) \in 1..Len(s) /\ t[i] = s[Old(i)]
  BY <1>0, <1>1
<1>3. \A i, k \in 1..(Len(s) - 1) : (Old(i) = Old(k) => i = k) /\ (i < k => Old(i) < Old(k))
  BY <1>0
<1> HIDE DEF Old
<1>4. SortedQueue(t, n)
  BY <1>1, <1>2, <1>3 DEF SortedQueue
<1> QED BY <1>4 DEF t

\* An entry is replaced.
LEMMA ReplacedSet ==
  ASSUME NEW S, NEW s \in Seq(S), NEW p \in 1..Len(s), NEW f, NEW t \in Seq(S),
         Len(t) = Len(s), t[p] = f, \A i \in 1..Len(s) : i # p => t[i] = s[i],
         \A i \in 1..Len(s) : s[i] = s[p] => i = p
  PROVE  SetOf(t) = (SetOf(s) \ {s[p]}) \cup {f}
<1>1. DOMAIN t = 1..Len(s)
  BY LenProperties
<1>2. SetOf(t) = {t[i] : i \in 1..Len(s)} /\ SetOf(s) = {s[i] : i \in 1..Len(s)}
  BY <1>1, SetOfLen DEF SetOf
<1> QED BY <1>1, <1>2

LEMMA SortedReplaced ==
  ASSUME NEW n, NEW s, SortedQueue(s, n), NEW p \in 1..Len(s), NEW f \in Entry,
         f.contestant = s[p].contestant, f.at = s[p].at, f.req = s[p].req,
         NEW t \in Seq(Entry), Len(t) = Len(s), t[p] = f,
         \A i \in 1..Len(s) : i # p => t[i] = s[i]
  PROVE  SortedQueue(t, n)
<1>1. \A i \in 1..Len(s) : t[i].contestant = s[i].contestant /\ t[i].at = s[i].at /\ t[i].req = s[i].req
  OBVIOUS
<1> QED BY <1>1 DEF SortedQueue, Before

LEMMA SameQueue ==
  /\ Desk!Entry = Entry /\ Desk!InitialHelpQueue = InitialHelpQueue
  /\ \A q, c : Desk!EntriesOf(q, c) = EntriesOf(q, c)
  /\ \A q, c : Desk!IsInQueue(q, c) <=> IsInQueue(q, c)
  /\ \A q : Desk!HeadEntry(q) = HeadEntry(q)
  /\ \A q, c, at, req : Desk!HelpRequest(q, c, at, req) = HelpRequest(q, c, at, req)
  /\ \A q, c : Desk!HelpCancel(q, c) = HelpCancel(q, c)
  /\ \A q, c, v : Desk!HelpAck(q, c, v) = HelpAck(q, c, v)
  /\ \A q, c, s : Desk!StationFound(q, c, s) = StationFound(q, c, s)
BY DEF Desk!Entry, Entry, Desk!InitialHelpQueue, InitialHelpQueue,
       Desk!EntriesOf, EntriesOf, Desk!IsInQueue, IsInQueue,
       Desk!HeadEntry, HeadEntry, Desk!Before, Before, Desk!Bumped, Bumped,
       Desk!HelpRequest, HelpRequest, Desk!HelpCancel, HelpCancel,
       Desk!HelpAck, HelpAck, Desk!StationFound, StationFound

QueueInv == version \in Nat /\ accepted \in Nat /\ SortedQueue(entries, accepted)

LEMMA ViewIs ==
  View = [version |-> version, entries |-> SetOf(entries)]
BY DEF View, SetOf

\* Who waits is who has an element in the array, one and only one.
LEMMA ElementOf ==
  ASSUME QueueInv, NEW c
  PROVE  /\ Q!Has(c) <=> IsInQueue(View, c)
         /\ \A i \in 1..Len(entries) :
              entries[i].contestant = c => EntriesOf(View, c) = {entries[i]}
         /\ Q!Has(c) <=> \E i \in 1..Len(entries) : entries[i].contestant = c
<1>1. /\ DOMAIN entries = 1..Len(entries)
      /\ \A i, k \in 1..Len(entries) : entries[i].contestant = entries[k].contestant => i = k
  BY SortedFields DEF QueueInv, SortedQueue
<1>2. EntriesOf(View, c) = {e \in SetOf(entries) : e.contestant = c}
  BY ViewIs DEF EntriesOf
<1>3. SetOf(entries) = {entries[i] : i \in 1..Len(entries)}
  BY <1>1 DEF SetOf
<1>4. Q!Has(c) <=> \E i \in 1..Len(entries) : entries[i].contestant = c
  BY <1>1 DEF Q!Has
<1>5. Q!Has(c) <=> IsInQueue(View, c)
  BY <1>2, <1>3, <1>4 DEF IsInQueue
<1>6. ASSUME NEW i \in 1..Len(entries), entries[i].contestant = c
      PROVE  EntriesOf(View, c) = {entries[i]}
  BY <1>1, <1>2, <1>3, <1>6
<1> QED BY <1>4, <1>5, <1>6

\* helpRequest: push and sort.
LEMMA QueueRequest ==
  ASSUME QueueInv, NEW c \in Contestants, NEW at \in Instants, Q!Request(c, at)
  PROVE  QueueInv' /\ Desk!Request(c)
<1> DEFINE new == [contestant |-> c, station |-> NoStation, at |-> at, req |-> accepted + 1]
           p == Q!PlaceOf(new)
<1>1. /\ ~Q!Has(c) /\ accepted < MaxRequests /\ version' = version + 1 /\ accepted' = accepted + 1
      /\ entries' = InsertAt(entries, p, new)
  <2>1. Q!InsertAt(entries, p, new) = InsertAt(entries, p, new)
    BY DEF Q!InsertAt, InsertAt
  <2> QED BY <2>1 DEF Q!Request, Q!Changed, Q!InsertedByTime
<1>2. at \in Nat /\ new.at = at /\ accepted \in Nat /\ entries \in Seq(Entry) /\ new \in Entry
  BY InstantAssumption DEF QueueInv, SortedQueue, Entry
<1> HIDE DEF new
<1>3. /\ p \in 1..(Len(entries) + 1)
      /\ \A i \in 1..(p - 1) : entries[i].at <= at
      /\ \A i \in p..Len(entries) : entries[i].at > at
  <2>1. \E k \in 1..(Len(entries) + 1) : /\ \A i \in 1..(k - 1) : entries[i].at <= new.at
                                         /\ \A i \in k..Len(entries) : entries[i].at > new.at
    BY <1>2, PlaceExists DEF QueueInv
  <2> QED BY <1>2, <2>1 DEF Q!PlaceOf
<1> HIDE DEF p
<1>4. \A i \in 1..Len(entries) : entries[i].contestant # c
  BY <1>1, ElementOf
<1>5. QueueInv'
  <2>1. SortedQueue(InsertAt(entries, p, new), accepted + 1)
    BY <1>2, <1>3, <1>4, SortedInserted DEF QueueInv, new
  <2> QED BY <1>1, <2>1 DEF QueueInv
<1>6. SetOf(entries') = SetOf(entries) \cup {new}
  BY <1>1, <1>2, <1>3, InsertedSet
<1>7. ~IsInQueue(View, c)
  BY <1>1, ElementOf
<1>8. View' = HelpRequest(View, c, at, accepted')
  <2>1. View' = [version |-> version + 1, entries |-> SetOf(entries) \cup {new}]
    BY <1>1, <1>6 DEF View, SetOf
  <2> QED BY <1>1, <1>7, <2>1, ViewIs DEF HelpRequest, Bumped, new
<1>9. Desk!Request(c)
  BY <1>1, <1>7, <1>8, SameQueue DEF Desk!Request
<1> QED BY <1>5, <1>9

\* What is left without a contestant who waits.
LEMMA QueueWithout ==
  ASSUME QueueInv, NEW c \in Contestants, Q!Has(c), entries' = Q!Without(c),
         version' = version + 1, accepted' = accepted
  PROVE  QueueInv' /\ View' = HelpCancel(View, c)
<1> DEFINE p == CHOOSE i \in DOMAIN entries : entries[i].contestant = c
<1>1. DOMAIN entries = 1..Len(entries) /\ entries \in Seq(Entry)
      /\ \A i, k \in 1..Len(entries) : entries[i].contestant = entries[k].contestant => i = k
  BY SortedFields DEF QueueInv, SortedQueue
<1>2. p \in 1..Len(entries) /\ entries[p].contestant = c
  BY <1>1 DEF Q!Has
<1>3. entries' = RemoveAt(entries, p)
  BY DEF Q!Without, Q!RemoveAt, RemoveAt
<1> HIDE DEF p
<1>4. QueueInv'
  BY <1>2, <1>3, SortedRemoved DEF QueueInv
<1>5. SetOf(entries') = SetOf(entries) \ {entries[p]}
  BY <1>1, <1>2, <1>3, RemovedSet
<1>6. EntriesOf(View, c) = {entries[p]} /\ IsInQueue(View, c)
  BY <1>2, ElementOf
<1>7. View' = [version |-> version + 1, entries |-> SetOf(entries) \ {entries[p]}]
  BY <1>5 DEF View, SetOf
<1> QED BY <1>4, <1>6, <1>7, ViewIs DEF HelpCancel, Bumped

LEMMA QueueLeaves ==
  ASSUME QueueInv, NEW c \in Contestants,
         Q!Cancel(c) \/ \E v \in 0..MaxVersion : Q!Ack(c, v)
  PROVE  QueueInv' /\ (Desk!Leave(c) \/ Desk!Acknowledge(c))
<1>1. Q!Has(c) /\ entries' = Q!Without(c) /\ version' = version + 1 /\ accepted' = accepted
  <2>1. CASE Q!Cancel(c)
    BY <2>1 DEF Q!Cancel, Q!Changed, Q!Without
  <2>2. CASE \E v \in 0..MaxVersion : Q!Ack(c, v)
    BY <2>2 DEF Q!Ack, Q!Changed
  <2> QED BY <2>1, <2>2
<1>2. QueueInv' /\ View' = HelpCancel(View, c)
  BY <1>1, QueueWithout
<1> QED BY <1>1, <1>2, SameQueue DEF Desk!Leave

LEMMA QueuePlaces ==
  ASSUME QueueInv, NEW c \in Contestants, NEW s \in Stations, Q!StationFilled(c, s)
  PROVE  QueueInv' /\ Desk!Place(c, s)
<1>1. DOMAIN entries = 1..Len(entries)
  BY SortedFields DEF QueueInv
<1>2. PICK i \in 1..Len(entries) :
        /\ entries[i].contestant = c /\ entries[i].station # s
        /\ entries' = [entries EXCEPT ![i].station = s]
  BY <1>1 DEF Q!StationFilled
<1>3. version' = version + 1 /\ accepted' = accepted /\ s # NoStation
  BY StationAssumption DEF Q!StationFilled, Q!Changed
<1>4. SortedQueue(entries, accepted) /\ s \in Stations \cup {NoStation}
  BY DEF QueueInv
<1> DEFINE f == [entries[i] EXCEPT !.station = s]
<1>4a. entries' = [entries EXCEPT ![i] = f]
  BY <1>2
<1>4b. f = [entries[i] EXCEPT !.station = s]
  OBVIOUS
<1>4c. /\ f \in Entry /\ f.contestant = entries[i].contestant
       /\ f.at = entries[i].at /\ f.req = entries[i].req
  <2>1. entries[i] \in Entry
    BY <1>4, SortedFields
  <2> QED BY <1>4, <2>1 DEF Entry
<1> HIDE DEF f
<1> DEFINE t == [entries EXCEPT ![i] = f]
<1>4d. /\ entries \in Seq(Entry) /\ t \in Seq(Entry) /\ Len(t) = Len(entries) /\ t[i] = f
       /\ \A k \in 1..Len(entries) : k # i => t[k] = entries[k]
       /\ \A k \in 1..Len(entries) : entries[k] = entries[i] => k = i
  BY <1>1, <1>4, <1>4c DEF SortedQueue
<1> HIDE DEF t
<1>4e. SortedQueue(t, accepted)
  BY <1>4, <1>4c, <1>4d, SortedReplaced
<1>4f. SetOf(t) = (SetOf(entries) \ {entries[i]}) \cup {f}
  BY <1>4d, ReplacedSet
<1>4g. entries' = t
  BY <1>4a DEF t
<1>5. QueueInv'
  BY <1>3, <1>4e, <1>4g DEF QueueInv
<1>6. EntriesOf(View, c) = {entries[i]}
  BY <1>2, ElementOf
<1>7. View' = [version |-> version + 1,
                 entries |-> (SetOf(entries) \ {entries[i]}) \cup {f}]
  BY <1>3, <1>4f, <1>4g DEF View, SetOf
<1>8. View' = StationFound(View, c, s)
  BY <1>2, <1>3, <1>4b, <1>6, <1>7, ViewIs DEF StationFound, Bumped
<1> QED BY <1>3, <1>5, <1>8, SameQueue DEF Desk!Place

LEMMA QueueStep ==
  ASSUME QueueInv, [Q!Next]_Q!arrayVars
  PROVE  QueueInv' /\ [Desk!Next]_Desk!dvars
<1>1. CASE UNCHANGED Q!arrayVars
  <2>1. UNCHANGED <<version, entries, accepted>>
    BY <1>1 DEF Q!arrayVars
  <2>2. QueueInv'
    BY <2>1 DEF QueueInv
  <2>3. UNCHANGED Desk!dvars
    BY <2>1 DEF Desk!dvars, View
  <2> QED BY <2>2, <2>3
<1>2. ASSUME NEW c \in Contestants, NEW at \in Instants, Q!Request(c, at)
      PROVE  QueueInv' /\ Desk!Next
  BY <1>2, QueueRequest DEF Desk!Next
<1>3. ASSUME NEW c \in Contestants, Q!Cancel(c) \/ \E v \in 0..MaxVersion : Q!Ack(c, v)
      PROVE  QueueInv' /\ Desk!Next
  BY <1>3, QueueLeaves DEF Desk!Next
<1>4. ASSUME NEW c \in Contestants, NEW s \in Stations, Q!StationFilled(c, s)
      PROVE  QueueInv' /\ Desk!Next
  BY <1>4, QueuePlaces DEF Desk!Next
<1> QED BY <1>1, <1>2, <1>3, <1>4 DEF Q!Next

LEMMA QueueInit == Q!Init => QueueInv /\ Desk!Init
<1> SUFFICES ASSUME Q!Init PROVE QueueInv /\ Desk!Init
  OBVIOUS
<1>1. version = 0 /\ entries = <<>> /\ accepted = 0
  BY DEF Q!Init
<1>2. entries \in Seq(Entry) /\ Len(entries) = 0 /\ DOMAIN entries = {}
  BY <1>1, EmptySeq, LenProperties
<1>3. QueueInv
  BY <1>1, <1>2 DEF QueueInv, SortedQueue
<1>4. SetOf(entries) = {}
  BY <1>2 DEF SetOf
<1>5. Desk!Init
  BY <1>1, <1>4, SameQueue, ViewIs DEF Desk!Init, InitialHelpQueue
<1> QED BY <1>3, <1>5

\* Operation by operation the array of help-queue.ts is the set of entries that
\* HelpEntries keeps, for any contestants, stations and instants.
THEOREM QueueImplementsDesk == Q!Spec => ImplementsDesk
<1>1. QueueInv /\ [Q!Next]_Q!arrayVars => QueueInv' /\ [Desk!Next]_Desk!dvars
  BY QueueStep
<1> QED BY QueueInit, <1>1, PTL DEF Q!Spec, ImplementsDesk, Desk!Spec

\* And the element a notification job is armed for is the array's first
\* (scheduleHeadNotification).
THEOREM FirstIsHead == Q!Spec => []HeadAgrees
<1>1. QueueInv => HeadAgrees
  <2> SUFFICES ASSUME QueueInv, entries # <<>>
               PROVE  HeadEntry(View) = Head(entries)
    BY SameQueue DEF HeadAgrees
  <2>1. /\ Len(entries) \in Nat \ {0} /\ Head(entries) = entries[1] /\ DOMAIN entries = 1..Len(entries)
    BY SortedFields, EmptySeq, HeadTailProperties DEF QueueInv, SortedQueue
  <2>2. View.entries = {entries[i] : i \in 1..Len(entries)}
    BY <2>1, ViewIs DEF SetOf
  <2>3. \A i \in 1..Len(entries) : i # 1 => Before(entries[1], entries[i])
    BY <2>1 DEF QueueInv, SortedQueue
  <2>4. entries[1] \in View.entries /\ \A f \in View.entries \ {entries[1]} : Before(entries[1], f)
    BY <2>1, <2>2, <2>3
  <2>5. \A i, k \in 1..Len(entries) : ~(Before(entries[i], entries[k]) /\ Before(entries[k], entries[i]))
    BY SortedFields DEF Before, QueueInv
  <2>6. ASSUME NEW e \in View.entries, \A f \in View.entries \ {e} : Before(e, f)
        PROVE  e = entries[1]
    BY <2>1, <2>2, <2>4, <2>5, <2>6
  <2> QED BY <2>1, <2>4, <2>6 DEF HeadEntry
<1>2. QueueInv /\ [Q!Next]_Q!arrayVars => QueueInv'
  BY QueueStep
<1> QED BY QueueInit, <1>1, <1>2, PTL DEF Q!Spec
============================================================================
