------------------------ MODULE HelpProtocol_proofs ------------------------
(***************************************************************************)
(* What is proved of HelpProtocol for every number of calls, connections   *)
(* and faults.                                                             *)
(*                                                                         *)
(* The argument: each of the three views of the call (the client's, the    *)
(* server's, the host's) is the last thing on its way there, or, if nothing *)
(* is on its way, what was last sent.  Only the mishaps of `troubled` break *)
(* this, and when nothing is under way all three are the contestant's last *)
(* word.  A connection is paid for by a fault, and every place in the queue *)
(* by a call: ConnsCounted and RequestsCounted count what is still on its  *)
(* way.                                                                    *)
(***************************************************************************)
EXTENDS HelpProtocol, FiniteSets, FiniteSetTheorems, SequenceTheorems, FunctionTheorems, TLAPS

\* In a sequence of events or frames: the last one of the kind is x, or there is none.
LastOf(s, kind, x) ==
  \E i \in 1..Len(s) : s[i] = x /\ \A j \in (i + 1)..Len(s) : s[j] \notin kind
NoneOf(s, kind) == \A i \in 1..Len(s) : s[i] \notin kind

Calls == {"send-help-request", "send-help-cancel"}
PendingReport(value) == [event |-> "help-pending-changed", value |-> value]
PendingKind == {PendingReport(value) : value \in BOOLEAN}

WantedCall == IF wanted THEN "send-help-request" ELSE "send-help-cancel"
Queued == client.requestQueued \/ client.cancelQueued

\* Where x stands in a sequence.
PlacesOf(s, x) == {i \in 1..Len(s) : s[i] = x}

\* Each client the page connects costs a fault: the change of the preferences,
\* on its way or noticed, or the failure after which it has not reconnected.
ConnsCounted ==
  conn + Cardinality(PlacesOf(toPage, "preferences-changed")) + (IF dirty THEN 1 ELSE 0)
       + (IF phase \in {"closing", "waiting"} THEN 1 ELSE 0) <= faults + 1

\* Unless there was trouble, frames are on their way on the open connection
\* only, and an ack only when they have arrived.
FramesAreCurrent ==
  /\ \A c \in Conns : c # conn => link[c].up = <<>> /\ link[c].acks = 0
  /\ phase # "open" => link[conn].up = <<>>
  /\ phase \in {"closing", "waiting"} => link[conn].acks = 0
  /\ link[conn].acks > 0 => /\ link[conn].acks = 1 /\ link[conn].up = <<>>
                            /\ ~inQueue /\ client.outstanding

\* What the server has, or is about to hear last, is what the client sent last.
ServerFollows ==
  /\ link[conn].up # <<>> => 
       (link[conn].up[Len(link[conn].up)] = "HELP_REQUEST" <=> client.outstanding)
  /\ link[conn].up = <<>> /\ link[conn].acks = 0 => (inQueue <=> client.outstanding)

\* The contestant's last word is on its way to the page, or the client has it.
PageFollows ==
  \/ LastOf(toPage, Calls, WantedCall)
  \/ /\ NoneOf(toPage, Calls)
     /\ IF link[conn].acks = 0
        THEN wanted <=> client.requestQueued \/ (client.outstanding /\ ~client.cancelQueued)
        ELSE wanted => Queued

\* The last report on its way to the host is of the client as it is; when there
\* is none and the client has nothing to send later, the host shows the client's
\* word, or that of the call under way.
HostFollows ==
  \/ LastOf(toHost, PendingKind, PendingReport(client.outstanding))
  \/ /\ NoneOf(toHost, PendingKind)
     /\ ~Queued => 
          /\ NoneOf(toPage, Calls) => (call # "none" \/ Pending <=> client.outstanding)
          /\ LastOf(toPage, Calls, "send-help-cancel") /\ ~client.outstanding =>
               call = "none" /\ ~Pending

ViewsFollow == FramesAreCurrent /\ ServerFollows /\ PageFollows /\ HostFollows

\* The inductive invariant.
ProtocolInv ==
  /\ TypeOK /\ OneThingQueued /\ ConnsCounted
  /\ ~troubled => ViewsFollow
----------------------------------------------------------------------------
\* Sequences: what is last, and how often.
LEMMA LastAppended ==
  ASSUME NEW S, NEW s \in Seq(S), NEW x \in S, NEW kind
  PROVE  LastOf(Append(s, x), kind, x)
<1>1. Len(Append(s, x)) = Len(s) + 1 /\ Append(s, x)[Len(s) + 1] = x /\ Len(s) \in Nat
  BY AppendProperties, LenProperties
<1>2. Len(s) + 1 \in 1..Len(Append(s, x)) /\ ((Len(s) + 1) + 1)..Len(Append(s, x)) = {}
  BY <1>1
<1> QED BY <1>1, <1>2 DEF LastOf

LEMMA AppendedOther ==
  ASSUME NEW S, NEW s \in Seq(S), NEW y \in S, NEW kind, y \notin kind
  PROVE  /\ \A x \in kind : LastOf(Append(s, y), kind, x) <=> LastOf(s, kind, x)
         /\ NoneOf(Append(s, y), kind) <=> NoneOf(s, kind)
<1>1. /\ Len(Append(s, y)) = Len(s) + 1 /\ Append(s, y)[Len(s) + 1] = y /\ Len(s) \in Nat
      /\ \A i \in 1..Len(s) : Append(s, y)[i] = s[i]
  BY AppendProperties, LenProperties
<1>2. ASSUME NEW x \in kind, LastOf(s, kind, x) PROVE LastOf(Append(s, y), kind, x)
  <2>1. PICK i \in 1..Len(s) : s[i] = x /\ \A j \in (i + 1)..Len(s) : s[j] \notin kind
    BY <1>2 DEF LastOf
  <2>2. i \in 1..Len(Append(s, y)) /\ Append(s, y)[i] = s[i]
    BY <1>1
  <2>3. ASSUME NEW j \in (i + 1)..Len(Append(s, y)) PROVE Append(s, y)[j] \notin kind
    BY <1>1, <2>1
  <2> QED BY <2>1, <2>2, <2>3 DEF LastOf
<1>3. ASSUME NEW x \in kind, LastOf(Append(s, y), kind, x) PROVE LastOf(s, kind, x)
  <2>1. PICK i \in 1..Len(Append(s, y)) :
           /\ Append(s, y)[i] = x
           /\ \A j \in (i + 1)..Len(Append(s, y)) : Append(s, y)[j] \notin kind
    BY <1>3 DEF LastOf
  <2>2. i # Len(s) + 1
    BY <1>1, <2>1
  <2>3. i \in 1..Len(s)
    BY <1>1, <2>2
  <2>4. ASSUME NEW j \in (i + 1)..Len(s) PROVE s[j] \notin kind
    <3>1. j \in (i + 1)..Len(Append(s, y)) /\ j \in 1..Len(s)
      BY <1>1, <2>3
    <3> QED BY <1>1, <2>1, <3>1
  <2> QED BY <1>1, <2>1, <2>3, <2>4 DEF LastOf
<1>4. NoneOf(Append(s, y), kind) <=> NoneOf(s, kind)
  <2>1. 1..Len(Append(s, y)) = 1..Len(s) \cup {Len(s) + 1}
    BY <1>1
  <2> QED BY <1>1, <2>1 DEF NoneOf
<1> QED BY <1>2, <1>3, <1>4

LEMMA TakenOff ==
  ASSUME NEW S, NEW s \in Seq(S), s # <<>>, NEW kind
  PROVE  /\ \A x \in kind : LastOf(s, kind, x) =>
               LastOf(Tail(s), kind, x) \/ (NoneOf(Tail(s), kind) /\ Head(s) = x)
         /\ \A x \in kind : LastOf(Tail(s), kind, x) => LastOf(s, kind, x)
         /\ NoneOf(s, kind) => NoneOf(Tail(s), kind) /\ Head(s) \notin kind
         /\ NoneOf(Tail(s), kind) /\ Head(s) \notin kind => NoneOf(s, kind)
<1>1. /\ Len(Tail(s)) = Len(s) - 1 /\ Head(s) = s[1] /\ Len(s) \in Nat \ {0}
      /\ \A i \in 1..Len(Tail(s)) : Tail(s)[i] = s[i + 1]
  OBVIOUS
<1>2. ASSUME NEW x \in kind, LastOf(s, kind, x), ~LastOf(Tail(s), kind, x)
      PROVE  NoneOf(Tail(s), kind) /\ Head(s) = x
  <2>1. PICK i \in 1..Len(s) : s[i] = x /\ \A j \in (i + 1)..Len(s) : s[j] \notin kind
    BY <1>2 DEF LastOf
  <2>2. CASE i = 1
    BY <1>1, <2>1, <2>2 DEF NoneOf
  <2>3. CASE i # 1
    <3>1. i - 1 \in 1..Len(Tail(s)) /\ Tail(s)[i - 1] = s[i]
      BY <1>1, <2>3
    <3>2. ASSUME NEW j \in ((i - 1) + 1)..Len(Tail(s)) PROVE Tail(s)[j] \notin kind
      BY <1>1, <2>1, <2>3
    <3> QED BY <1>2, <2>1, <3>1, <3>2 DEF LastOf
  <2> QED BY <2>2, <2>3
<1>3. ASSUME NEW x \in kind, LastOf(Tail(s), kind, x) PROVE LastOf(s, kind, x)
  <2>1. PICK i \in 1..Len(Tail(s)) :
           Tail(s)[i] = x /\ \A j \in (i + 1)..Len(Tail(s)) : Tail(s)[j] \notin kind
    BY <1>3 DEF LastOf
  <2>2. i + 1 \in 1..Len(s) /\ s[i + 1] = x
    BY <1>1, <2>1
  <2>3. ASSUME NEW j \in ((i + 1) + 1)..Len(s) PROVE s[j] \notin kind
    <3>1. j - 1 \in (i + 1)..Len(Tail(s)) /\ j - 1 \in 1..Len(Tail(s)) /\ (j - 1) + 1 = j
      BY <1>1, <2>1
    <3> QED BY <1>1, <2>1, <3>1
  <2> QED BY <2>2, <2>3 DEF LastOf
<1>4. ASSUME NoneOf(s, kind) PROVE NoneOf(Tail(s), kind) /\ Head(s) \notin kind
  BY <1>1, <1>4 DEF NoneOf
<1>5. ASSUME NoneOf(Tail(s), kind), Head(s) \notin kind, NEW i \in 1..Len(s)
      PROVE  s[i] \notin kind
  <2>1. CASE i = 1
    BY <1>1, <1>5, <2>1
  <2>2. CASE i # 1
    <3>1. i - 1 \in 1..Len(Tail(s)) /\ (i - 1) + 1 = i
      BY <1>1, <2>2
    <3> QED BY <1>1, <1>5, <3>1 DEF NoneOf
  <2> QED BY <2>1, <2>2
<1> QED BY <1>2, <1>3, <1>4, <1>5 DEF NoneOf

LEMMA OneLast ==
  ASSUME NEW S, NEW s \in Seq(S), NEW kind, NEW x \in kind, LastOf(s, kind, x)
  PROVE  /\ \A y \in kind : LastOf(s, kind, y) => x = y
         /\ ~NoneOf(s, kind)
<1>0. Len(s) \in Nat
  BY LenProperties
<1>1. PICK i \in 1..Len(s) : s[i] = x /\ \A j \in (i + 1)..Len(s) : s[j] \notin kind
  BY DEF LastOf
<1>2. ASSUME NEW y \in kind, LastOf(s, kind, y) PROVE x = y
  <2>1. PICK m \in 1..Len(s) : s[m] = y /\ \A j \in (m + 1)..Len(s) : s[j] \notin kind
    BY <1>2 DEF LastOf
  <2>2. ~(i < m) /\ ~(m < i)
    BY <1>0, <1>1, <2>1
  <2> QED BY <1>0, <1>1, <2>1, <2>2
<1> QED BY <1>1, <1>2 DEF NoneOf

LEMMA NoneInEmpty ==
  ASSUME NEW kind
  PROVE  /\ NoneOf(<<>>, kind)
         /\ \A x : ~LastOf(<<>>, kind, x)
BY DEF NoneOf, LastOf

LEMMA PlacesFinite ==
  ASSUME NEW n \in Nat, NEW T, T \subseteq 1..n
  PROVE  IsFiniteSet(T) /\ Cardinality(T) \in Nat
<1>1. IsFiniteSet(1..n)
  BY FS_Interval
<1>2. IsFiniteSet(T)
  BY <1>1, FS_Subset
<1> QED BY <1>2, FS_CardinalityType

LEMMA PlacesAppended ==
  ASSUME NEW S, NEW s \in Seq(S), NEW y \in S, NEW x
  PROVE  /\ IsFiniteSet(PlacesOf(s, x)) /\ Cardinality(PlacesOf(s, x)) \in Nat
         /\ Cardinality(PlacesOf(Append(s, y), x))
              = Cardinality(PlacesOf(s, x)) + (IF y = x THEN 1 ELSE 0)
<1>1. /\ Len(Append(s, y)) = Len(s) + 1 /\ Append(s, y)[Len(s) + 1] = y /\ Len(s) \in Nat
      /\ \A i \in 1..Len(s) : Append(s, y)[i] = s[i]
  BY AppendProperties, LenProperties
<1>2. IsFiniteSet(PlacesOf(s, x)) /\ Cardinality(PlacesOf(s, x)) \in Nat
  BY <1>1, PlacesFinite DEF PlacesOf
<1>3. PlacesOf(Append(s, y), x) = IF y = x THEN PlacesOf(s, x) \cup {Len(s) + 1} ELSE PlacesOf(s, x)
  <2>1. 1..Len(Append(s, y)) = 1..Len(s) \cup {Len(s) + 1}
    BY <1>1
  <2> QED BY <1>1, <2>1 DEF PlacesOf
<1>4. Len(s) + 1 \notin PlacesOf(s, x)
  BY <1>1 DEF PlacesOf
<1>5. Cardinality(PlacesOf(s, x) \cup {Len(s) + 1}) = Cardinality(PlacesOf(s, x)) + 1
  BY <1>2, <1>4, FS_AddElement
<1> QED BY <1>2, <1>3, <1>5

LEMMA PlacesTakenOff ==
  ASSUME NEW S, NEW s \in Seq(S), s # <<>>, NEW x
  PROVE  /\ Cardinality(PlacesOf(s, x)) \in Nat /\ Cardinality(PlacesOf(Tail(s), x)) \in Nat
         /\ Cardinality(PlacesOf(Tail(s), x)) + (IF Head(s) = x THEN 1 ELSE 0)
              <= Cardinality(PlacesOf(s, x))
<1> DEFINE rest == PlacesOf(s, x) \ {1}
           shift == [i \in PlacesOf(Tail(s), x) |-> i + 1]
<1>1. /\ Len(Tail(s)) = Len(s) - 1 /\ Head(s) = s[1] /\ Len(s) \in Nat \ {0}
      /\ \A i \in 1..Len(Tail(s)) : Tail(s)[i] = s[i + 1]
  OBVIOUS
<1>2. IsFiniteSet(PlacesOf(s, x)) /\ Cardinality(PlacesOf(s, x)) \in Nat
  BY <1>1, PlacesFinite DEF PlacesOf
<1>3. /\ IsFiniteSet(rest)
      /\ Cardinality(rest) = Cardinality(PlacesOf(s, x)) - (IF Head(s) = x THEN 1 ELSE 0)
  <2>1. 1 \in PlacesOf(s, x) <=> Head(s) = x
    BY <1>1 DEF PlacesOf
  <2> QED BY <1>2, <2>1, FS_RemoveElement
<1>4. shift \in Injection(PlacesOf(Tail(s), x), rest)
  <2>1. shift \in [PlacesOf(Tail(s), x) -> rest]
    BY <1>1 DEF PlacesOf
  <2>2. ASSUME NEW i \in PlacesOf(Tail(s), x), NEW j \in PlacesOf(Tail(s), x), i # j
        PROVE  shift[i] # shift[j]
    BY <2>2 DEF PlacesOf
  <2> QED BY <2>1, <2>2 DEF Injection, IsInjective
<1>5. IsFiniteSet(PlacesOf(Tail(s), x)) /\ Cardinality(PlacesOf(Tail(s), x)) <= Cardinality(rest)
  BY <1>3, <1>4, FS_Injection
<1>6. Cardinality(PlacesOf(Tail(s), x)) \in Nat
  BY <1>5, FS_CardinalityType
<1> QED BY <1>2, <1>3, <1>5, <1>6

----------------------------------------------------------------------------
\* The client: it holds one thing at a time; what it sends and what it reports
\* is what it then takes the call to be.
Says(k, o) ==
  /\ o.client \in Client
  /\ \/ o.frames = <<>> /\ o.client.outstanding = k.outstanding
     \/ o.frames = <<"HELP_REQUEST">> /\ o.client.outstanding
     \/ o.frames = <<"HELP_CANCEL">> /\ ~o.client.outstanding
  /\ \/ o.reports = <<>> /\ o.client.outstanding = k.outstanding
     \/ o.reports = <<o.client.outstanding>>

OneThing(k, open) ==
  /\ k.cancelQueued => k.outstanding /\ ~k.requestQueued
  /\ open => ~k.requestQueued /\ ~k.cancelQueued

LEMMA RequestOutcome ==
  ASSUME NEW k \in Client, NEW open \in BOOLEAN, OneThing(k, open),
         NEW o, o = SendHelpRequest(k, open)
  PROVE  /\ Says(k, o) /\ OneThing(o.client, open) /\ ~o.client.cancelQueued
         /\ IF open THEN o.client.outstanding /\ o.frames = <<"HELP_REQUEST">> /\ o.reports = <<TRUE>>
                    ELSE o.client.requestQueued /\ o.frames = <<>> /\ o.reports = <<>>
<1>1. CASE open
  BY <1>1 DEF Client, SendHelpRequest, Outcome, Says, OneThing
<1>2. CASE ~open
  BY <1>2 DEF Client, SendHelpRequest, Outcome, Says, OneThing
<1> QED BY <1>1, <1>2

LEMMA CancelOutcome ==
  ASSUME NEW k \in Client, NEW open \in BOOLEAN, OneThing(k, open),
         NEW o, o = SendHelpCancel(k, open)
  PROVE  /\ Says(k, o) /\ OneThing(o.client, open) /\ ~o.client.requestQueued
         /\ o.client.outstanding => o.client.cancelQueued
         /\ open => o.frames = <<"HELP_CANCEL">> /\ o.reports = <<FALSE>>
         /\ ~open => o.frames = <<>> /\ o.client.outstanding = k.outstanding
         /\ o.reports = <<>> => /\ k.requestQueued \/ k.cancelQueued => o.client.cancelQueued
                                /\ o.client.outstanding = k.outstanding
<1>1. CASE open
  BY <1>1 DEF Client, SendHelpCancel, Outcome, Says, OneThing
<1>2. CASE ~open
  <2>1. CASE k.requestQueued /\ ~k.outstanding
    BY <1>2, <2>1 DEF Client, SendHelpCancel, Outcome, Says, OneThing
  <2>2. CASE ~(k.requestQueued /\ ~k.outstanding)
    BY <1>2, <2>2 DEF Client, SendHelpCancel, Outcome, Says, OneThing
  <2> QED BY <2>1, <2>2
<1> QED BY <1>1, <1>2

LEMMA FlushOutcome ==
  ASSUME NEW k \in Client, OneThing(k, FALSE), NEW o, o = Flush(k)
  PROVE  /\ Says(k, o) /\ OneThing(o.client, TRUE)
         /\ o.client.outstanding <=> (k.requestQueued \/ (k.outstanding /\ ~k.cancelQueued))
         /\ IF k.requestQueued \/ k.cancelQueued
            THEN o.frames # <<>> /\ o.reports = <<o.client.outstanding>>
            ELSE o.client = k /\ o.frames = <<>> /\ o.reports = <<>>
<1>1. CASE k.cancelQueued
  BY <1>1 DEF Client, Flush, Outcome, Says, OneThing
<1>2. CASE ~k.cancelQueued /\ k.requestQueued
  BY <1>2 DEF Client, Flush, Outcome, Says, OneThing
<1>3. CASE ~k.cancelQueued /\ ~k.requestQueued
  BY <1>3 DEF Client, Flush, Outcome, Says, OneThing
<1> QED BY <1>1, <1>2, <1>3

LEMMA AckOutcome ==
  ASSUME NEW k \in Client, NEW o, o = HelpAcked(k)
  PROVE  /\ o.client = NewClient /\ NewClient \in Client /\ OneThing(NewClient, TRUE)
         /\ OneThing(NewClient, FALSE) /\ ~NewClient.outstanding
         /\ ~NewClient.requestQueued /\ ~NewClient.cancelQueued
         /\ o.frames = <<>>
         /\ o.reports = IF k.outstanding THEN <<FALSE>> ELSE <<>>
BY DEF HelpAcked, Outcome, NewClient, Client, OneThing

\* What is appended to toHost.
LEMMA Reported ==
  ASSUME NEW s \in Seq(Reports), NEW v \in BOOLEAN, NEW w \in BOOLEAN
  PROVE  /\ s \o <<>> \o PendingReports(<<>>) = s
         /\ s \o <<>> \o PendingReports(<<v>>) = Append(s, PendingReport(v))
         /\ s \o ConnectionReport(w) = Append(s, [event |-> "connection-changed", value |-> w])
         /\ s \o ConnectionReport(w) \o PendingReports(<<>>)
              = Append(s, [event |-> "connection-changed", value |-> w])
         /\ s \o ConnectionReport(w) \o PendingReports(<<v>>)
              = Append(Append(s, [event |-> "connection-changed", value |-> w]), PendingReport(v))
         /\ PendingReport(v) \in Reports /\ PendingReport(v) \in PendingKind
         /\ [event |-> "connection-changed", value |-> w] \in Reports
         /\ [event |-> "connection-changed", value |-> w] \notin PendingKind
<1> DEFINE c == [event |-> "connection-changed", value |-> w]
           p == PendingReport(v)
<1>1. c \in Reports /\ p \in Reports /\ c \notin PendingKind /\ p \in PendingKind
  BY DEF Reports, PendingReport, PendingKind
<1>2. PendingReports(<<>>) = <<>> /\ PendingReports(<<v>>) = <<p>> /\ ConnectionReport(w) = <<c>>
  BY DEF PendingReports, PendingReport, ConnectionReport
<1> HIDE DEF c, p
<1>3. s \o <<>> = s /\ s \o <<p>> = Append(s, p) /\ s \o <<c>> = Append(s, c)
  BY <1>1, ConcatEmptySeq, AppendIsConcat
<1>4. Append(s, c) \in Seq(Reports)
  BY <1>1, AppendProperties
<1>5. Append(s, c) \o <<>> = Append(s, c) /\ Append(s, c) \o <<p>> = Append(Append(s, c), p)
  BY <1>1, <1>4, ConcatEmptySeq, AppendIsConcat
<1>6. s \o <<>> \o PendingReports(<<>>) = s /\ s \o <<>> \o PendingReports(<<v>>) = Append(s, p)
  BY <1>2, <1>3, Zenon
<1>7. /\ s \o ConnectionReport(w) = Append(s, c)
      /\ s \o ConnectionReport(w) \o PendingReports(<<>>) = Append(s, c)
      /\ s \o ConnectionReport(w) \o PendingReports(<<v>>) = Append(Append(s, c), p)
  BY <1>2, <1>3, <1>5, Zenon
<1> QED BY <1>1, <1>6, <1>7 DEF c, p

----------------------------------------------------------------------------
\* Types, the client's queue and the number of connections.
Basics == TypeOK /\ OneThingQueued /\ ConnsCounted

LEMMA LinkTyped ==
  ASSUME NEW r \in Link, NEW u \in Seq(Frames), NEW n \in Nat,
         NEW s \in {"none", "admitting", "listening", "closed"}
  PROVE  /\ [r EXCEPT !.up = u] \in Link /\ [r EXCEPT !.acks = n] \in Link
         /\ [r EXCEPT !.server = s] \in Link /\ [r EXCEPT !.server = s, !.acks = n] \in Link
BY DEF Link

LEMMA NoLinkTyped ==
  /\ NoLink \in Link /\ [NoLink EXCEPT !.server = "admitting"] \in Link
  /\ [NoLink EXCEPT !.server = "closed"] \in Link
<1>1. NoLink \in Link /\ <<>> \in Seq(Frames)
  BY DEF NoLink, Link
<1> QED BY <1>1, LinkTyped

\* A new connection; the old one delivers no ack any more.
LEMMA ConnectionMade ==
  ASSUME Basics, conn + 1 \in Conns,
         link' = [link EXCEPT ![conn + 1].server = "admitting", ![conn].acks = 0]
  PROVE  /\ link' \in [Conns -> Link]
         /\ \A c \in Conns : link'[c].up = link[c].up
         /\ \A c \in Conns : c # conn => link'[c].acks = link[c].acks
<1>1. conn \in Conns /\ link \in [Conns -> Link] /\ conn # conn + 1
  BY DEF Basics, TypeOK, Conns
<1>2. link[conn] \in Link /\ link[conn + 1] \in Link
  BY <1>1
<1>3. [link[conn] EXCEPT !.acks = 0] \in Link /\ [link[conn + 1] EXCEPT !.server = "admitting"] \in Link
  BY <1>2 DEF Link
<1>4. /\ link'[conn] = [link[conn] EXCEPT !.acks = 0]
      /\ link'[conn + 1] = [link[conn + 1] EXCEPT !.server = "admitting"]
      /\ \A c \in Conns \ {conn, conn + 1} : link'[c] = link[c]
      /\ DOMAIN link' = Conns
  BY <1>1
<1>5. link' \in [Conns -> Link]
  BY <1>1, <1>3
<1>6. link'[conn].up = link[conn].up /\ link'[conn + 1].up = link[conn + 1].up
      /\ link'[conn + 1].acks = link[conn + 1].acks
  BY <1>2, <1>4 DEF Link
<1> QED BY <1>4, <1>5, <1>6

LEMMA ClientTyped ==
  ASSUME Basics, NEW o, Says(client, o), NEW w \in BOOLEAN,
         ClientStep(o, <<>>) \/ ClientStep(o, ConnectionReport(w))
  PROVE  client' \in Client /\ toHost' \in Seq(Reports)
<1>1. client' = o.client /\ client' \in Client /\ o.client.outstanding \in BOOLEAN
  BY DEF ClientStep, Says, Client
<1>2. toHost \in Seq(Reports)
  BY DEF Basics, TypeOK
<1>3. PICK v \in BOOLEAN : o.reports \in {<<>>, <<v>>}
  BY <1>1 DEF Says
<1> DEFINE e == [event |-> "connection-changed", value |-> w]
<1>4. PendingReport(v) \in Reports /\ e \in Reports
  BY Reported, <1>2, Zenon
<1>6. /\ toHost \o <<>> \o PendingReports(<<>>) = toHost
      /\ toHost \o <<>> \o PendingReports(<<v>>) = Append(toHost, PendingReport(v))
      /\ toHost \o ConnectionReport(w) \o PendingReports(<<>>) = Append(toHost, e)
      /\ toHost \o ConnectionReport(w) \o PendingReports(<<v>>)
           = Append(Append(toHost, e), PendingReport(v))
  BY <1>2, Reported, Zenon
<1>7. \/ toHost' = toHost \o <<>> \o PendingReports(o.reports)
      \/ toHost' = toHost \o ConnectionReport(w) \o PendingReports(o.reports)
  BY DEF ClientStep
<1>8. o.reports = <<>> \/ o.reports = <<v>>
  BY <1>3
<1>5. \/ toHost' = toHost \/ toHost' = Append(toHost, PendingReport(v))
      \/ toHost' = Append(toHost, e) \/ toHost' = Append(Append(toHost, e), PendingReport(v))
  <2> HIDE DEF e
  <2> QED BY <1>6, <1>7, <1>8, Zenon
<1> HIDE DEF e
<1> QED BY <1>1, <1>2, <1>4, <1>5, AppendProperties

LEMMA FramesTyped ==
  ASSUME Basics, NEW o, NEW k, Says(k, o), link' = [link EXCEPT ![conn].up = @ \o o.frames]
  PROVE  /\ link' \in [Conns -> Link]
         /\ link'[conn].up = link[conn].up \o o.frames /\ link'[conn].acks = link[conn].acks
         /\ \A c \in Conns : c # conn => link'[c] = link[c]
<1>1. conn \in Conns /\ link \in [Conns -> Link] /\ link[conn].up \in Seq(Frames)
  BY DEF Basics, TypeOK, Link
<1>2. o.frames \in {<<>>, <<"HELP_REQUEST">>, <<"HELP_CANCEL">>}
  BY DEF Says
<1>3. o.frames \in Seq(Frames)
  <2>1. <<>> \in Seq(Frames) /\ <<"HELP_REQUEST">> \in Seq(Frames) /\ <<"HELP_CANCEL">> \in Seq(Frames)
    BY DEF Frames
  <2> QED BY <1>2, <2>1
<1>4. link[conn].up \o o.frames \in Seq(Frames)
  BY <1>1, <1>3, ConcatProperties
<1> DEFINE u == link[conn].up \o o.frames
<1>5. link' = [link EXCEPT ![conn].up = u] /\ u \in Seq(Frames)
  BY <1>4
<1> HIDE DEF u
<1>6. link[conn] \in Link /\ [link[conn] EXCEPT !.up = u] \in Link
  BY <1>1, <1>5 DEF Link
<1>7. link' \in [Conns -> Link] /\ link'[conn] = [link[conn] EXCEPT !.up = u]
      /\ \A c \in Conns : c # conn => link'[c] = link[c]
  BY <1>1, <1>5, <1>6
<1>8. link'[conn].up = u /\ link'[conn].acks = link[conn].acks
  BY <1>6, <1>7 DEF Link
<1> QED BY <1>7, <1>8 DEF u

LEMMA BasicsInit == Init => Basics
<1> SUFFICES ASSUME Init PROVE Basics
  OBVIOUS
<1>1. TypeOK
  <2>1. link \in [Conns -> Link]
    BY NoLinkTyped DEF Init
  <2>2. client \in Client
    BY DEF Init, NewClient, Client
  <2>3. conn \in Conns /\ faults \in 0..MaxFaults
    BY ProtocolBounds DEF Init, Conns
  <2>4. host \in [helpPending : BOOLEAN, helpQueuedOffline : BOOLEAN, connected : BOOLEAN]
    BY DEF Init
  <2>5. leaving \subseteq Conns /\ toPage \in Seq(Events) /\ toHost \in Seq(Reports)
    BY DEF Init
  <2>6. /\ call = "none" /\ phase = "connecting" /\ dirty = FALSE /\ inQueue = FALSE
        /\ wanted = FALSE /\ troubled = FALSE /\ asked = 0 /\ cancels = 0 /\ entered = 0
    BY DEF Init
  <2> QED BY <2>1, <2>2, <2>3, <2>4, <2>5, <2>6 DEF TypeOK
<1>2. OneThingQueued
  BY DEF Init, OneThingQueued, NewClient
<1>3. PlacesOf(toPage, "preferences-changed") = {}
  BY DEF Init, PlacesOf
<1>4. ConnsCounted
  BY <1>3, FS_EmptySet DEF Init, ConnsCounted
<1> QED BY <1>1, <1>2, <1>4 DEF Basics

LEMMA BasicsHost ==
  ASSUME Basics, IpcHelpRequest \/ IpcHelpCancel \/ ChangePreferences \/ HostStep
  PROVE  Basics'
<1> USE DEF Basics, Events
<1>0. toPage \in Seq(Events)
  BY DEF TypeOK
<1>1. CASE IpcHelpRequest
  <2>1. TypeOK'
    BY <1>1, AppendProperties DEF IpcHelpRequest, TypeOK, pageVars, serverVars
  <2>2. Cardinality(PlacesOf(toPage', "preferences-changed"))
          = Cardinality(PlacesOf(toPage, "preferences-changed"))
    BY <1>0, <1>1, PlacesAppended DEF IpcHelpRequest
  <2> QED BY <1>1, <2>1, <2>2 DEF IpcHelpRequest, pageVars, OneThingQueued, ConnsCounted
<1>2. CASE IpcHelpCancel
  <2>3. host' \in [helpPending : BOOLEAN, helpQueuedOffline : BOOLEAN, connected : BOOLEAN]
    BY <1>2 DEF IpcHelpCancel, TypeOK
  <2>1. TypeOK'
    <3>1. toPage' \in Seq(Events)
      BY <1>0, <1>2, AppendProperties DEF IpcHelpCancel
    <3>2. /\ UNCHANGED <<call, toHost, client, phase, conn, dirty, leaving, link, inQueue, entered,
                         faults, asked, troubled>>
          /\ cancels' = cancels + 1 /\ wanted' = FALSE
      BY <1>2 DEF IpcHelpCancel, pageVars, serverVars
    <3>3. cancels \in Nat
      BY DEF TypeOK
    <3>4. cancels' \in Nat
      BY <3>2, <3>3
    <3>5. wanted' \in BOOLEAN
      BY <3>2, Zenon
    <3> QED BY <2>3, <3>1, <3>2, <3>4, <3>5 DEF TypeOK
  <2>2. Cardinality(PlacesOf(toPage', "preferences-changed"))
          = Cardinality(PlacesOf(toPage, "preferences-changed"))
    BY <1>0, <1>2, PlacesAppended DEF IpcHelpCancel
  <2> QED BY <1>2, <2>1, <2>2 DEF IpcHelpCancel, pageVars, OneThingQueued, ConnsCounted
<1>3. CASE ChangePreferences
  <2>1. TypeOK'
    BY <1>3, AppendProperties, ProtocolBounds
       DEF ChangePreferences, Fault, TypeOK, hostVars, pageVars, serverVars
  <2>2. Cardinality(PlacesOf(toPage', "preferences-changed"))
          = Cardinality(PlacesOf(toPage, "preferences-changed")) + 1
        /\ Cardinality(PlacesOf(toPage, "preferences-changed")) \in Nat
    BY <1>0, <1>3, PlacesAppended DEF ChangePreferences
  <2>3. faults \in Nat /\ conn \in Nat
    BY DEF TypeOK, Conns
  <2> QED BY <1>3, <2>1, <2>2, <2>3 DEF ChangePreferences, Fault, pageVars, OneThingQueued, ConnsCounted
<1>4. CASE IpcRequestReturns
  BY <1>4 DEF IpcRequestReturns, TypeOK, pageVars, serverVars, countVars, OneThingQueued, ConnsCounted
<1>5. CASE HostHears
  <2>1. Head(toHost) \in Reports /\ Tail(toHost) \in Seq(Reports)
    BY <1>5, HeadTailProperties DEF HostHears, TypeOK
  <2>2. host' \in [helpPending : BOOLEAN, helpQueuedOffline : BOOLEAN, connected : BOOLEAN]
    <3> DEFINE report == Head(toHost)
    <3>1. host' = IF report.event = "connection-changed" THEN [host EXCEPT !.connected = report.value]
                  ELSE IF report.value THEN [host EXCEPT !.helpPending = TRUE]
                  ELSE [host EXCEPT !.helpPending = FALSE, !.helpQueuedOffline = FALSE]
      BY <1>5 DEF HostHears
    <3>2. report.value \in BOOLEAN
      BY <2>1 DEF Reports
    <3> HIDE DEF report
    <3> QED BY <3>1, <3>2 DEF TypeOK
  <2> QED BY <1>5, <2>1, <2>2
         DEF HostHears, Trouble, TypeOK, pageVars, serverVars, countVars, OneThingQueued, ConnsCounted
<1> QED BY <1>1, <1>2, <1>3, <1>4, <1>5 DEF HostStep

LEMMA BasicsCall ==
  ASSUME Basics, PageHearsCall
  PROVE  Basics' /\ Head(toPage) \in Calls
<1> DEFINE o == IF Head(toPage) = "send-help-request" THEN SendHelpRequest(client, phase = "open")
                                                      ELSE SendHelpCancel(client, phase = "open")
<1>0. toPage \in Seq(Events) /\ toPage # <<>> /\ client \in Client /\ OneThing(client, phase = "open")
  BY DEF Basics, TypeOK, PageHearsCall, OneThingQueued, OneThing
<1>1. Head(toPage) \in Calls /\ Tail(toPage) \in Seq(Events)
  BY <1>0, HeadTailProperties DEF PageHearsCall, Events, Calls
<1>2. Says(client, o) /\ OneThing(o.client, phase = "open")
  BY <1>0, RequestOutcome, CancelOutcome
<1>3. ClientStep(o, <<>>) /\ link' = [link EXCEPT ![conn].up = @ \o o.frames]
  BY DEF PageHearsCall
<1> HIDE DEF o
<1>4. client' \in Client /\ toHost' \in Seq(Reports) /\ link' \in [Conns -> Link] /\ client' = o.client
  BY <1>2, <1>3, ClientTyped, FramesTyped DEF ClientStep
<1>5. /\ toPage' = Tail(toPage) /\ troubled' \in BOOLEAN
      /\ UNCHANGED <<phase, conn, dirty, leaving, wanted, host, call, inQueue, entered, faults, asked, cancels>>
  BY DEF PageHearsCall, hostVars, serverVars, countVars, Trouble
<1>6. TypeOK'
  BY <1>1, <1>4, <1>5 DEF Basics, TypeOK
<1>7. OneThingQueued'
  BY <1>2, <1>4, <1>5 DEF OneThing, OneThingQueued
<1>8. ConnsCounted'
  <2>1. Cardinality(PlacesOf(toPage', "preferences-changed"))
          <= Cardinality(PlacesOf(toPage, "preferences-changed"))
        /\ Cardinality(PlacesOf(toPage', "preferences-changed")) \in Nat
        /\ Cardinality(PlacesOf(toPage, "preferences-changed")) \in Nat
    BY <1>0, <1>1, <1>5, PlacesTakenOff DEF Calls
  <2>2. conn \in Nat /\ faults \in Nat
    BY DEF Basics, TypeOK, Conns
  <2> QED BY <1>5, <2>1, <2>2 DEF Basics, ConnsCounted
<1> QED BY <1>1, <1>6, <1>7, <1>8 DEF Basics

LEMMA BasicsPreferences ==
  ASSUME Basics, PageHearsPreferences
  PROVE  Basics'
<1>0. toPage \in Seq(Events) /\ toPage # <<>> /\ Head(toPage) = "preferences-changed"
  BY DEF Basics, TypeOK, PageHearsPreferences
<1>1. Tail(toPage) \in Seq(Events)
  BY <1>0, HeadTailProperties
<1>2. /\ toPage' = Tail(toPage) /\ dirty' = TRUE
      /\ UNCHANGED <<toHost, client, phase, conn, leaving, link, wanted, troubled, host, call, inQueue,
                     entered, faults, asked, cancels>>
  BY DEF PageHearsPreferences, hostVars, serverVars, countVars
<1>3. TypeOK' /\ OneThingQueued'
  BY <1>1, <1>2 DEF Basics, TypeOK, OneThingQueued
<1>4. /\ Cardinality(PlacesOf(toPage', "preferences-changed")) + 1
           <= Cardinality(PlacesOf(toPage, "preferences-changed"))
      /\ Cardinality(PlacesOf(toPage', "preferences-changed")) \in Nat
      /\ Cardinality(PlacesOf(toPage, "preferences-changed")) \in Nat
  BY <1>0, <1>2, PlacesTakenOff
<1>5. conn \in Nat /\ faults \in Nat
  BY DEF Basics, TypeOK, Conns
<1>6. ConnsCounted'
  BY <1>2, <1>4, <1>5 DEF Basics, ConnsCounted
<1> QED BY <1>3, <1>6 DEF Basics

\* There is a connection left for the page to make.
LEMMA ConnectionLeft ==
  ASSUME Basics, dirty \/ phase \in {"closing", "waiting"}
  PROVE  /\ conn \in Conns /\ conn + 1 \in Conns /\ conn + 1 # conn
         /\ Cardinality(PlacesOf(toPage, "preferences-changed")) \in Nat
<1>1. toPage \in Seq(Events) /\ conn \in Conns /\ conn \in Nat /\ faults \in 0..MaxFaults
  BY DEF Basics, TypeOK, Conns
<1>2. Cardinality(PlacesOf(toPage, "preferences-changed")) \in Nat
  BY <1>1, PlacesAppended DEF Events
<1>3. conn + 1 <= faults + 1
  BY <1>1, <1>2 DEF Basics, ConnsCounted
<1> QED BY <1>1, <1>2, <1>3, ProtocolBounds DEF Conns

LEMMA BasicsConnect ==
  ASSUME Basics, ReplaceClient \/ Reconnect
  PROVE  /\ Basics' /\ conn' = conn + 1 /\ conn \in Conns /\ conn' \in Conns
         /\ \A c \in Conns : link'[c].up = link[c].up
         /\ link'[conn'].acks = link[conn'].acks
         /\ \A c \in Conns : c # conn => link'[c].acks = link[c].acks
         /\ link'[conn].acks = 0
<1>1. /\ conn \in Conns /\ conn + 1 \in Conns /\ conn + 1 # conn
      /\ Cardinality(PlacesOf(toPage, "preferences-changed")) \in Nat
  BY ConnectionLeft DEF ReplaceClient, Reconnect
<1>2. /\ conn' = conn + 1 /\ phase' = "connecting"
      /\ link' = [link EXCEPT ![conn + 1].server = "admitting", ![conn].acks = 0]
  BY DEF ReplaceClient, Reconnect, Connect
<1>3. /\ link' \in [Conns -> Link]
      /\ \A c \in Conns : link'[c].up = link[c].up
      /\ \A c \in Conns : c # conn => link'[c].acks = link[c].acks
  BY <1>1, <1>2, ConnectionMade
<1>4. link'[conn].acks = 0
  <2>1. link \in [Conns -> Link] /\ link[conn] \in Link
    BY <1>1 DEF Basics, TypeOK
  <2>2. link'[conn] = [link[conn] EXCEPT !.acks = 0]
    BY <1>1, <1>2, <2>1
  <2> QED BY <2>1, <2>2 DEF Link
<1>5. NewClient \in Client
  BY DEF NewClient, Client
<1>6. /\ leaving' \subseteq Conns /\ client' \in {client, NewClient} /\ troubled' \in BOOLEAN
      /\ dirty' \in BOOLEAN
      /\ UNCHANGED <<toPage, toHost, wanted, host, call, inQueue, entered, faults, asked, cancels>>
  BY <1>1 DEF Basics, TypeOK, ReplaceClient, Reconnect, Trouble, hostVars, serverVars, countVars
<1>7. TypeOK'
  BY <1>1, <1>2, <1>3, <1>5, <1>6 DEF Basics, TypeOK
<1>8. OneThingQueued'
  BY <1>2, <1>6 DEF Basics, OneThingQueued, NewClient
<1>9. ConnsCounted'
  <2>1. conn \in Nat /\ faults \in Nat /\ dirty \in BOOLEAN
    BY DEF Basics, TypeOK, Conns
  <2>2. (dirty /\ ~dirty') \/ (phase = "waiting" /\ dirty' = dirty)
    BY DEF ReplaceClient, Reconnect
  <2> QED BY <1>1, <1>2, <1>6, <2>1, <2>2 DEF Basics, ConnsCounted
<1> QED BY <1>1, <1>2, <1>3, <1>4, <1>7, <1>8, <1>9 DEF Basics

LEMMA BasicsOpen ==
  ASSUME Basics, OnOpen
  PROVE  Basics'
<1> DEFINE o == Flush(client)
<1>0. client \in Client /\ OneThing(client, FALSE)
  BY DEF Basics, TypeOK, OneThingQueued, OneThing
<1>1. Says(client, o) /\ OneThing(o.client, TRUE)
  BY <1>0, FlushOutcome
<1>2. ClientStep(o, ConnectionReport(TRUE)) /\ link' = [link EXCEPT ![conn].up = @ \o o.frames]
  BY DEF OnOpen
<1> HIDE DEF o
<1>3. client' \in Client /\ toHost' \in Seq(Reports) /\ link' \in [Conns -> Link] /\ client' = o.client
  BY <1>1, <1>2, ClientTyped, FramesTyped DEF ClientStep
<1>4. /\ phase = "connecting" /\ phase' = "open" /\ troubled' \in BOOLEAN
      /\ UNCHANGED <<toPage, conn, dirty, leaving, wanted, host, call, inQueue, entered, faults, asked, cancels>>
  BY DEF OnOpen, hostVars, serverVars, countVars, Trouble
<1>5. TypeOK' /\ OneThingQueued' /\ ConnsCounted'
  BY <1>1, <1>3, <1>4 DEF Basics, TypeOK, OneThing, OneThingQueued, ConnsCounted
<1> QED BY <1>5 DEF Basics

LEMMA BasicsAcked ==
  ASSUME Basics, OnHelpAcked
  PROVE  /\ Basics' /\ client' = NewClient
         /\ link'[conn].acks = link[conn].acks - 1 /\ link[conn].acks \in Nat
         /\ \A c \in Conns : link'[c].up = link[c].up
         /\ \A c \in Conns : c # conn => link'[c].acks = link[c].acks
<1>0. client \in Client /\ conn \in Conns /\ link \in [Conns -> Link] /\ link[conn] \in Link
      /\ toHost \in Seq(Reports) /\ link[conn].acks \in Nat
  BY DEF Basics, TypeOK, Link
<1> DEFINE o == HelpAcked(client)
<1>1. /\ o.client = NewClient /\ NewClient \in Client /\ OneThing(NewClient, TRUE)
      /\ o.reports \in {<<>>, <<FALSE>>}
  BY <1>0, AckOutcome
<1>2. ClientStep(o, <<>>)
  BY DEF OnHelpAcked
<1> HIDE DEF o
<1>3. toHost' \in Seq(Reports) /\ client' = NewClient
  <2>1. toHost' = toHost \/ toHost' = Append(toHost, PendingReport(FALSE))
    BY <1>0, <1>1, <1>2, Reported DEF ClientStep
  <2>2. PendingReport(FALSE) \in Reports
    BY DEF PendingReport, Reports
  <2>3. client' = NewClient
    BY <1>1, <1>2 DEF ClientStep
  <2>4. Append(toHost, PendingReport(FALSE)) \in Seq(Reports)
    BY <1>0, <2>2, AppendProperties
  <2> QED BY <1>0, <2>1, <2>3, <2>4
<1>4. link[conn].acks - 1 \in Nat /\ link' = [link EXCEPT ![conn].acks = link[conn].acks - 1]
  BY <1>0 DEF OnHelpAcked
<1>5. [link[conn] EXCEPT !.acks = link[conn].acks - 1] \in Link
  BY <1>0, <1>4 DEF Link
<1>6. /\ link' \in [Conns -> Link] /\ link'[conn] = [link[conn] EXCEPT !.acks = link[conn].acks - 1]
      /\ \A c \in Conns : c # conn => link'[c] = link[c]
  BY <1>0, <1>4, <1>5
<1>7. link'[conn].up = link[conn].up /\ link'[conn].acks = link[conn].acks - 1
  BY <1>0, <1>6 DEF Link
<1>8. UNCHANGED <<toPage, phase, conn, dirty, leaving, wanted, troubled, host, call, inQueue, entered, faults,
                  asked, cancels>>
  BY DEF OnHelpAcked, hostVars, serverVars, countVars
<1>9. TypeOK' /\ OneThingQueued' /\ ConnsCounted'
  BY <1>1, <1>3, <1>6, <1>8 DEF Basics, TypeOK, OneThing, OneThingQueued, ConnsCounted
<1> QED BY <1>0, <1>3, <1>6, <1>7, <1>9 DEF Basics

LEMMA BasicsClose ==
  ASSUME Basics, OnClose \/ (\E c \in Conns : OnCloseOfStopped(c))
  PROVE  Basics'
<1>0. toHost \in Seq(Reports)
  BY DEF Basics, TypeOK
<1>1. toHost' = Append(toHost, [event |-> "connection-changed", value |-> FALSE])
  BY <1>0, Reported DEF OnClose, OnCloseOfStopped
<1>2. [event |-> "connection-changed", value |-> FALSE] \in Reports
  BY DEF Reports
<1>3. toHost' \in Seq(Reports)
  BY <1>0, <1>1, <1>2, AppendProperties
<1>4. /\ leaving' \subseteq leaving
      /\ phase' = phase \/ (phase = "closing" /\ phase' = "waiting")
      /\ UNCHANGED <<toPage, client, conn, dirty, link, wanted, troubled, host, call, inQueue, entered, faults,
                  asked, cancels>>
  BY DEF OnClose, OnCloseOfStopped, hostVars, serverVars, countVars
<1>5. TypeOK' /\ OneThingQueued' /\ ConnsCounted'
  BY <1>3, <1>4 DEF Basics, TypeOK, OneThingQueued, ConnsCounted
<1> QED BY <1>5 DEF Basics

LEMMA BasicsNetwork ==
  ASSUME Basics, ConnectionFails \/ JudgeAcks \/ Restart \/ ServerStep \/ UNCHANGED vars
  PROVE  Basics' /\ conn' = conn /\ client' = client /\ toPage' = toPage /\ toHost' = toHost
<1>0. /\ conn \in Conns /\ link \in [Conns -> Link] /\ link[conn] \in Link
      /\ \A c \in Conns : link[c] \in Link /\ link[c].up \in Seq(Frames) /\ link[c].acks \in Nat
  BY DEF Basics, TypeOK, Link
<1>1. conn' = conn /\ client' = client /\ toPage' = toPage /\ toHost' = toHost /\ dirty' = dirty /\ leaving' = leaving
  BY DEF ConnectionFails, JudgeAcks, Restart, ServerStep, Admit, FrameUnheard, ServerHears, ServerCloses,
         pageVars, vars
<1>2. link' \in [Conns -> Link]
  <2>1. CASE ConnectionFails
    <3>1. [link[conn] EXCEPT !.acks = 0] \in Link
      BY <1>0, LinkTyped
    <3> QED BY <1>0, <2>1, <3>1 DEF ConnectionFails
  <2>2. CASE JudgeAcks
    <3> DEFINE n == link[conn].acks + 1
    <3>1. n \in Nat /\ (link' = [link EXCEPT ![conn].acks = n] \/ link' = link)
      BY <1>0, <2>2 DEF JudgeAcks
    <3> HIDE DEF n
    <3>2. [link[conn] EXCEPT !.acks = n] \in Link
      BY <1>0, <3>1 DEF Link
    <3> QED BY <1>0, <3>1, <3>2
  <2>3. CASE Restart
    BY <1>0, <2>3, NoLinkTyped DEF Restart
  <2>4. ASSUME NEW c \in Conns, Admit(c) PROVE link' \in [Conns -> Link]
    <3>1. [link[c] EXCEPT !.server = "listening"] \in Link
      BY <1>0 DEF Link
    <3> QED BY <1>0, <2>4, <3>1 DEF Admit
  <2>5. ASSUME NEW c \in Conns, FrameUnheard(c) \/ ServerHears(c) PROVE link' \in [Conns -> Link]
    <3>1. Tail(link[c].up) \in Seq(Frames)
      BY <1>0, <2>5, HeadTailProperties DEF FrameUnheard, ServerHears
    <3>2. [link[c] EXCEPT !.up = Tail(link[c].up)] \in Link
      BY <1>0, <3>1 DEF Link
    <3> QED BY <1>0, <2>5, <3>2 DEF FrameUnheard, ServerHears
  <2>6. ASSUME NEW c \in Conns, ServerCloses(c) PROVE link' \in [Conns -> Link]
    BY <1>0, <2>6, NoLinkTyped DEF ServerCloses
  <2>7. CASE UNCHANGED vars
    BY <1>0, <2>7 DEF vars
  <2> QED BY <2>1, <2>2, <2>3, <2>4, <2>5, <2>6, <2>7 DEF ServerStep
<1>3. /\ host' = host /\ call' = call /\ asked' = asked /\ cancels' = cancels
      /\ inQueue' \in BOOLEAN /\ wanted' \in BOOLEAN /\ troubled' \in BOOLEAN /\ entered' \in Nat
  <2>0. entered \in Nat /\ {inQueue, wanted, troubled} \subseteq BOOLEAN
    BY DEF Basics, TypeOK
  <2>1. CASE ConnectionFails
    BY <2>0, <2>1 DEF ConnectionFails, hostVars, serverVars, Trouble
  <2>2. CASE JudgeAcks
    BY <2>0, <2>2 DEF JudgeAcks, hostVars, countVars, Trouble
  <2>3. CASE Restart
    BY <2>0, <2>3 DEF Restart, hostVars, Trouble
  <2>4. CASE ServerStep
    <3> USE DEF hostVars, serverVars, countVars
    <3>1. PICK c \in Conns : Admit(c) \/ FrameUnheard(c) \/ ServerHears(c) \/ ServerCloses(c)
      BY <2>4 DEF ServerStep
    <3>2. CASE Admit(c) \/ FrameUnheard(c) \/ ServerCloses(c)
      BY <2>0, <3>2 DEF Admit, FrameUnheard, ServerCloses
    <3>3. CASE ServerHears(c)
      <4>1. inQueue' \in BOOLEAN /\ entered' \in {entered, entered + 1}
        BY <3>3, Zenon DEF ServerHears
      <4> QED BY <2>0, <3>3, <4>1 DEF ServerHears
    <3> QED BY <3>1, <3>2, <3>3
  <2>5. CASE UNCHANGED vars
    BY <2>0, <2>5 DEF vars
  <2> QED BY <2>1, <2>2, <2>3, <2>4, <2>5
<1>4. /\ \/ faults' = faults /\ phase' = phase
         \/ faults' = faults + 1 /\ faults < MaxFaults
            /\ \/ phase' = phase
               \/ phase \in {"connecting", "open"} /\ phase' = "closing"
  BY DEF ConnectionFails, JudgeAcks, Restart, ServerStep, Admit, FrameUnheard, ServerHears, ServerCloses,
         pageVars, vars, hostVars, serverVars, countVars, Fault
<1>5. faults' \in 0..MaxFaults /\ phase' \in {"waiting", "connecting", "open", "closing"}
  BY <1>4, ProtocolBounds DEF Basics, TypeOK
<1>6. TypeOK'
  BY <1>1, <1>2, <1>3, <1>5 DEF Basics, TypeOK
<1>7. OneThingQueued'
  BY <1>1, <1>4 DEF Basics, OneThingQueued
<1>8. ConnsCounted'
  <2>1. conn \in Nat /\ faults \in Nat /\ Cardinality(PlacesOf(toPage, "preferences-changed")) \in Nat
    <3>1. toPage \in Seq(Events) /\ "preferences-changed" \in Events
      BY DEF Basics, TypeOK, Events
    <3> QED BY <3>1, PlacesAppended DEF Basics, TypeOK, Conns
  <2> QED BY <1>1, <1>4, <2>1 DEF Basics, ConnsCounted
<1> QED BY <1>1, <1>6, <1>7, <1>8 DEF Basics

LEMMA BasicsHold == Basics /\ [Next]_vars => Basics'
BY BasicsHost, BasicsCall, BasicsPreferences, BasicsConnect, BasicsOpen, BasicsAcked, BasicsClose, BasicsNetwork
   DEF Next, PageStep

----------------------------------------------------------------------------
\* The three views.
LEMMA HostStays ==
  ASSUME HostFollows, UNCHANGED <<toHost, toPage, client, call, host>>
  PROVE  HostFollows'
BY DEF HostFollows, Queued, Pending

LEMMA PageStays ==
  ASSUME PageFollows, UNCHANGED <<toPage, client, wanted>>, link'[conn'].acks = link[conn].acks
  PROVE  PageFollows'
BY DEF PageFollows, WantedCall, Queued

LEMMA ServerStays ==
  ASSUME FramesAreCurrent, ServerFollows, UNCHANGED <<conn, link, client, inQueue>>,
         phase' = phase \/ (phase' = "waiting" /\ phase = "closing")
  PROVE  FramesAreCurrent' /\ ServerFollows'
BY DEF FramesAreCurrent, ServerFollows

\* The client tells the server, if anything, what it now takes the call to be.
LEMMA FramesSent ==
  ASSUME Basics, FramesAreCurrent, ServerFollows, NEW o, Says(client, o), client' = o.client,
         link' = [link EXCEPT ![conn].up = @ \o o.frames],
         o.frames # <<>> => phase' = "open" /\ link[conn].acks = 0,
         UNCHANGED <<conn, inQueue>>,
         phase' = phase \/ (phase = "connecting" /\ phase' = "open")
  PROVE  FramesAreCurrent' /\ ServerFollows' /\ link'[conn'].acks = link[conn].acks
<1>0. /\ conn \in Conns /\ link[conn].up \in Seq(Frames) /\ link[conn].acks \in Nat
      /\ client.outstanding \in BOOLEAN /\ o.client.outstanding \in BOOLEAN
  BY DEF Basics, TypeOK, Link, Client, Says
<1>1. /\ link'[conn].up = link[conn].up \o o.frames /\ link'[conn].acks = link[conn].acks
      /\ \A c \in Conns : c # conn => link'[c] = link[c]
  BY FramesTyped
<1>2. CASE o.frames = <<>>
  <2>1. link'[conn].up = link[conn].up
    BY <1>0, <1>1, <1>2, ConcatEmptySeq
  <2>2. o.client.outstanding = client.outstanding
    BY <1>2 DEF Says
  <2> QED BY <1>0, <1>1, <2>1, <2>2 DEF FramesAreCurrent, ServerFollows
<1>3. CASE o.frames # <<>>
  <2>1. PICK x \in Frames : o.frames = <<x>> /\ (x = "HELP_REQUEST" <=> o.client.outstanding)
    BY <1>3 DEF Says, Frames
  <2>2. link'[conn].up = Append(link[conn].up, x)
    BY <1>0, <1>1, <2>1, AppendIsConcat
  <2>3. link'[conn].up # <<>> /\ link'[conn].up[Len(link'[conn].up)] = x
    <3> DEFINE u == link[conn].up
    <3>1. u \in Seq(Frames) /\ link'[conn].up = Append(u, x)
      BY <1>0, <2>2
    <3> HIDE DEF u
    <3>2. Append(u, x) # <<>> /\ Append(u, x)[Len(Append(u, x))] = x
      BY <3>1, AppendProperties, LenProperties
    <3> QED BY <3>1, <3>2, Zenon
  <2> QED BY <1>0, <1>1, <1>3, <2>1, <2>3 DEF FramesAreCurrent, ServerFollows
<1> QED BY <1>1, <1>2, <1>3

\* So it does the host.
LEMMA ReportsSent ==
  ASSUME Basics, NEW o, Says(client, o), NEW w \in BOOLEAN,
         ClientStep(o, <<>>) \/ ClientStep(o, ConnectionReport(w))
  PROVE  /\ o.reports # <<>> => LastOf(toHost', PendingKind, PendingReport(client'.outstanding))
         /\ o.reports = <<>> =>
              /\ client'.outstanding = client.outstanding
              /\ \A x \in PendingKind : LastOf(toHost', PendingKind, x) <=> LastOf(toHost, PendingKind, x)
              /\ NoneOf(toHost', PendingKind) <=> NoneOf(toHost, PendingKind)
<1> DEFINE v == o.client.outstanding
           e == [event |-> "connection-changed", value |-> w]
<1>1. client' = o.client /\ v \in BOOLEAN /\ toHost \in Seq(Reports)
  BY DEF ClientStep, Says, Client, Basics, TypeOK
<1>2. /\ toHost \o <<>> \o PendingReports(<<>>) = toHost
      /\ toHost \o <<>> \o PendingReports(<<v>>) = Append(toHost, PendingReport(v))
      /\ toHost \o ConnectionReport(w) \o PendingReports(<<>>) = Append(toHost, e)
      /\ toHost \o ConnectionReport(w) \o PendingReports(<<v>>)
           = Append(Append(toHost, e), PendingReport(v))
      /\ PendingReport(v) \in Reports /\ PendingReport(v) \in PendingKind
      /\ e \in Reports /\ e \notin PendingKind
  <2> HIDE DEF v
  <2> QED BY <1>1, Reported, Zenon
<1>3. \/ toHost' = toHost \o <<>> \o PendingReports(o.reports)
      \/ toHost' = toHost \o ConnectionReport(w) \o PendingReports(o.reports)
  BY DEF ClientStep
<1>4. CASE o.reports = <<>>
  <2>1. toHost' = toHost \/ toHost' = Append(toHost, e)
    <3> HIDE DEF v, e
    <3> QED BY <1>2, <1>3, <1>4, Zenon
  <2>2. client'.outstanding = client.outstanding
    BY <1>1, <1>4 DEF Says
  <2> HIDE DEF v, e
  <2>3. /\ \A x \in PendingKind : LastOf(Append(toHost, e), PendingKind, x) <=> LastOf(toHost, PendingKind, x)
        /\ NoneOf(Append(toHost, e), PendingKind) <=> NoneOf(toHost, PendingKind)
    BY <1>1, <1>2, AppendedOther
  <2>4. /\ \A x \in PendingKind : LastOf(toHost', PendingKind, x) <=> LastOf(toHost, PendingKind, x)
        /\ NoneOf(toHost', PendingKind) <=> NoneOf(toHost, PendingKind)
    BY <2>1, <2>3, Zenon
  <2> QED BY <1>4, <2>2, <2>4
<1>5. CASE o.reports # <<>>
  <2>1. o.reports = <<v>>
    BY <1>5 DEF Says
  <2>2. toHost' = Append(toHost, PendingReport(v)) \/ toHost' = Append(Append(toHost, e), PendingReport(v))
    <3> HIDE DEF v, e
    <3> QED BY <1>2, <1>3, <2>1, Zenon
  <2>3. client'.outstanding = v
    BY <1>1
  <2> HIDE DEF v, e
  <2>4. Append(toHost, e) \in Seq(Reports)
    BY <1>1, <1>2, AppendProperties
  <2>5. LastOf(toHost', PendingKind, PendingReport(v))
    BY <1>1, <1>2, <2>2, <2>4, LastAppended
  <2> QED BY <1>5, <2>3, <2>5
<1> QED BY <1>4, <1>5

\* The host's steps.
LEMMA ViewsHost ==
  ASSUME Basics, ViewsFollow, ~troubled',
         IpcHelpRequest \/ IpcHelpCancel \/ ChangePreferences \/ IpcRequestReturns
  PROVE  ViewsFollow'
<1>0. /\ toPage \in Seq(Events) /\ Calls \subseteq Events /\ "preferences-changed" \in Events \ Calls
      /\ "send-help-request" \in Calls /\ "send-help-cancel" \in Calls
      /\ host \in [helpPending : BOOLEAN, helpQueuedOffline : BOOLEAN, connected : BOOLEAN]
      /\ call \in {"none", "requested", "queued_offline"}
  BY DEF Basics, TypeOK, Events, Calls
<1>1. UNCHANGED <<toHost, client, phase, conn, link, inQueue>>
  BY DEF IpcHelpRequest, IpcHelpCancel, ChangePreferences, IpcRequestReturns, pageVars, serverVars
<1>2. FramesAreCurrent' /\ ServerFollows'
  BY <1>1, ServerStays DEF ViewsFollow
<1>3. CASE IpcHelpRequest
  <2>1. toPage' = Append(toPage, "send-help-request") /\ wanted' = TRUE
    BY <1>3 DEF IpcHelpRequest
  <2>2. LastOf(toPage', Calls, "send-help-request") /\ toPage' \in Seq(Events)
    BY <1>0, <2>1, LastAppended, AppendProperties
  <2>3. PageFollows'
    BY <2>1, <2>2 DEF PageFollows, WantedCall
  <2>4. ~NoneOf(toPage', Calls) /\ ~LastOf(toPage', Calls, "send-help-cancel")
    BY <1>0, <2>2, OneLast
  <2>5. HostFollows'
    BY <1>1, <2>4 DEF ViewsFollow, HostFollows
  <2> QED BY <1>2, <2>3, <2>5 DEF ViewsFollow
<1>4. CASE IpcHelpCancel
  <2>1. /\ toPage' = Append(toPage, "send-help-cancel") /\ wanted' = FALSE /\ call' = "none"
        /\ host' = [host EXCEPT !.helpPending = FALSE, !.helpQueuedOffline = FALSE]
    BY <1>4 DEF IpcHelpCancel
  <2>2. LastOf(toPage', Calls, "send-help-cancel") /\ toPage' \in Seq(Events)
    BY <1>0, <2>1, LastAppended, AppendProperties
  <2>3. PageFollows'
    BY <2>1, <2>2 DEF PageFollows, WantedCall
  <2>4. ~NoneOf(toPage', Calls) /\ ~Pending'
    <3>1. host'.helpPending = FALSE /\ host'.helpQueuedOffline = FALSE
      BY <1>0, <2>1
    <3> QED BY <1>0, <2>2, <3>1, OneLast DEF Pending
  <2>5. HostFollows'
    BY <1>1, <2>1, <2>4 DEF ViewsFollow, HostFollows
  <2> QED BY <1>2, <2>3, <2>5 DEF ViewsFollow
<1>5. CASE ChangePreferences
  <2>1. /\ toPage' = Append(toPage, "preferences-changed") /\ UNCHANGED <<wanted, call, host>>
    BY <1>5 DEF ChangePreferences, hostVars
  <2>2. /\ \A x \in Calls : LastOf(toPage', Calls, x) <=> LastOf(toPage, Calls, x)
        /\ NoneOf(toPage', Calls) <=> NoneOf(toPage, Calls)
    BY <1>0, <2>1, AppendedOther
  <2>3. WantedCall \in Calls /\ WantedCall' = WantedCall
    BY <2>1 DEF WantedCall, Calls
  <2>4. PageFollows'
    BY <1>1, <2>1, <2>2, <2>3 DEF ViewsFollow, PageFollows, Queued
  <2>5. HostFollows'
    BY <1>0, <1>1, <2>1, <2>2 DEF ViewsFollow, HostFollows, Queued, Pending
  <2> QED BY <1>2, <2>4, <2>5 DEF ViewsFollow
<1>6. CASE IpcRequestReturns
  <2>1. call # "none" /\ call' = "none" /\ UNCHANGED <<toPage, wanted>>
    BY <1>6 DEF IpcRequestReturns
  <2>2. Pending'
    <3>1. CASE call = "requested"
      <4>1. host' = [host EXCEPT !.helpPending = TRUE]
        BY <1>6, <3>1 DEF IpcRequestReturns
      <4> QED BY <1>0, <4>1 DEF Pending
    <3>2. CASE call # "requested"
      <4>1. host' = [host EXCEPT !.helpQueuedOffline = TRUE]
        BY <1>6, <3>2 DEF IpcRequestReturns
      <4> QED BY <1>0, <4>1 DEF Pending
    <3> QED BY <3>1, <3>2
  <2>3. PageFollows'
    BY <1>1, <2>1, PageStays DEF ViewsFollow
  <2>4. HostFollows'
    BY <1>1, <2>1, <2>2 DEF ViewsFollow, HostFollows, Queued
  <2> QED BY <1>2, <2>3, <2>4 DEF ViewsFollow
<1> QED BY <1>3, <1>4, <1>5, <1>6

LEMMA ViewsHears ==
  ASSUME Basics, ViewsFollow, ~troubled', HostHears
  PROVE  ViewsFollow'
<1> DEFINE report == Head(toHost)
           mine == PendingReport(client.outstanding)
<1>0. /\ toHost \in Seq(Reports) /\ toHost # <<>> /\ client.outstanding \in BOOLEAN
      /\ host \in [helpPending : BOOLEAN, helpQueuedOffline : BOOLEAN, connected : BOOLEAN]
  BY DEF Basics, TypeOK, Client, HostHears
<1>1. report \in Reports /\ mine \in PendingKind
  BY <1>0, HeadTailProperties DEF PendingKind
<1>2. /\ toHost' = Tail(toHost)
      /\ host' = IF report.event = "connection-changed" THEN [host EXCEPT !.connected = report.value]
                 ELSE IF report.value THEN [host EXCEPT !.helpPending = TRUE]
                 ELSE [host EXCEPT !.helpPending = FALSE, !.helpQueuedOffline = FALSE]
      /\ UNCHANGED <<call, toPage, link, wanted, client, phase, conn, inQueue>>
  BY DEF HostHears, pageVars, serverVars
<1>3. ~(call # "none" /\ report = PendingReport(FALSE))
  BY DEF HostHears, Trouble, PendingReport
<1>4. FramesAreCurrent' /\ ServerFollows' /\ PageFollows'
  BY <1>2, ServerStays, PageStays DEF ViewsFollow
<1>5. HostFollows'
  <2>1. CASE LastOf(toHost, PendingKind, mine)
    <3>1. LastOf(Tail(toHost), PendingKind, mine) \/ (NoneOf(Tail(toHost), PendingKind) /\ report = mine)
      BY <1>0, <1>1, <2>1, TakenOff
    <3>2. CASE LastOf(Tail(toHost), PendingKind, mine)
      BY <1>2, <3>2 DEF HostFollows
    <3>3. CASE NoneOf(Tail(toHost), PendingKind) /\ report = mine
      <4>1. report.event = "help-pending-changed" /\ report.value = client.outstanding
        BY <3>3 DEF PendingReport
      <4>2. CASE client.outstanding
        <5>1. host' = [host EXCEPT !.helpPending = TRUE]
          BY <1>2, <4>1, <4>2
        <5>2. Pending'
          BY <1>0, <5>1 DEF Pending
        <5> QED BY <1>2, <3>3, <4>2, <5>2 DEF HostFollows
      <4>3. CASE ~client.outstanding
        <5>1. host' = [host EXCEPT !.helpPending = FALSE, !.helpQueuedOffline = FALSE]
          BY <1>2, <4>1, <4>3
        <5>2. ~Pending'
          BY <1>0, <5>1 DEF Pending
        <5>3. mine = PendingReport(FALSE)
          BY <1>0, <4>3
        <5>4. call = "none"
          BY <1>3, <3>3, <5>3
        <5> QED BY <1>2, <3>3, <4>3, <5>2, <5>4 DEF HostFollows
      <4> QED BY <4>2, <4>3
    <3> QED BY <3>1, <3>2, <3>3
  <2>2. CASE ~LastOf(toHost, PendingKind, mine)
    <3>1. NoneOf(toHost, PendingKind)
      BY <2>2 DEF ViewsFollow, HostFollows
    <3>2. NoneOf(Tail(toHost), PendingKind) /\ report \notin PendingKind
      BY <1>0, <3>1, TakenOff
    <3>3. report.event = "connection-changed"
      BY <1>1, <3>2 DEF Reports, PendingKind, PendingReport
    <3>4. host' = [host EXCEPT !.connected = report.value]
      BY <1>2, <3>3
    <3>5. host'.helpPending = host.helpPending /\ host'.helpQueuedOffline = host.helpQueuedOffline
      BY <1>0, <3>4
    <3> QED BY <1>2, <2>2, <3>2, <3>5 DEF ViewsFollow, HostFollows, Queued, Pending
  <2> QED BY <2>1, <2>2
<1> QED BY <1>4, <1>5 DEF ViewsFollow

\* The page takes a call.
LEMMA ViewsCall ==
  ASSUME Basics, ViewsFollow, ~troubled', PageHearsCall
  PROVE  ViewsFollow'
<1> DEFINE open == phase = "open"
           o == IF Head(toPage) = "send-help-request" THEN SendHelpRequest(client, open)
                                                      ELSE SendHelpCancel(client, open)
<1>0. /\ toPage \in Seq(Events) /\ toPage # <<>> /\ client \in Client /\ OneThing(client, open)
      /\ toHost \in Seq(Reports) /\ conn \in Conns /\ link[conn].acks \in Nat /\ open \in BOOLEAN
      /\ WantedCall \in Calls /\ client.outstanding \in BOOLEAN
      /\ "send-help-request" \in Calls /\ "send-help-cancel" \in Calls
  BY DEF Basics, TypeOK, PageHearsCall, OneThingQueued, OneThing, Link, WantedCall, Calls, Client
<1>1. Head(toPage) \in Calls
  BY BasicsCall
<1>2. Says(client, o) /\ OneThing(o.client, open) /\ o.client \in Client
  <2>1. Says(client, o) /\ OneThing(o.client, open)
    BY <1>0, RequestOutcome, CancelOutcome
  <2> QED BY <2>1 DEF Says
<1>3. /\ ClientStep(o, <<>>) /\ link' = [link EXCEPT ![conn].up = @ \o o.frames] /\ client' = o.client
      /\ toPage' = Tail(toPage) /\ ~(o.frames # <<>> /\ link[conn].acks > 0)
      /\ UNCHANGED <<phase, conn, wanted, call, host, inQueue>>
  BY DEF PageHearsCall, ClientStep, Trouble, hostVars, serverVars
<1>4. open \/ o.frames = <<>>
  BY <1>0, RequestOutcome, CancelOutcome
<1>q. Head(toPage) = "send-help-request" =>
        /\ ~o.client.cancelQueued
        /\ IF open THEN o.client.outstanding /\ o.frames = <<"HELP_REQUEST">> /\ o.reports = <<TRUE>>
                   ELSE o.client.requestQueued /\ o.frames = <<>> /\ o.reports = <<>>
  BY <1>0, RequestOutcome
<1>c. Head(toPage) # "send-help-request" =>
        /\ ~o.client.requestQueued
        /\ o.client.outstanding => o.client.cancelQueued
        /\ o.reports = <<>> => (client.requestQueued \/ client.cancelQueued => o.client.cancelQueued)
  BY <1>0, CancelOutcome
<1> HIDE DEF o
<1>6. FramesAreCurrent' /\ ServerFollows' /\ link'[conn'].acks = link[conn].acks
  <2>1. o.frames # <<>> => phase' = "open" /\ link[conn].acks = 0
    BY <1>0, <1>3, <1>4
  <2>2. FramesAreCurrent /\ ServerFollows
    BY DEF ViewsFollow
  <2> QED BY <1>2, <1>3, <2>1, <2>2, FramesSent
<1>7. LastOf(toPage, Calls, WantedCall)
  BY <1>0, <1>1, TakenOff DEF ViewsFollow, PageFollows
<1>8. PageFollows'
  <2>1. LastOf(Tail(toPage), Calls, WantedCall) \/ (NoneOf(Tail(toPage), Calls) /\ Head(toPage) = WantedCall)
    BY <1>0, <1>7, TakenOff
  <2>2. WantedCall' = WantedCall
    BY <1>3 DEF WantedCall
  <2>3. CASE LastOf(Tail(toPage), Calls, WantedCall)
    BY <1>3, <2>2, <2>3 DEF PageFollows
  <2>4. CASE NoneOf(Tail(toPage), Calls) /\ Head(toPage) = WantedCall
    <3>1. wanted <=> Head(toPage) = "send-help-request"
      BY <2>4 DEF WantedCall
    <3>2. CASE wanted
      <4>1. ~client'.cancelQueued /\ (client'.requestQueued \/ client'.outstanding)
            /\ (link[conn].acks # 0 => client'.requestQueued)
        <5>1. <<"HELP_REQUEST">> # <<>>
          OBVIOUS
        <5>2. ~(link[conn].acks > 0) => link[conn].acks = 0
          BY <1>0
        <5> QED BY <1>3, <1>q, <3>1, <3>2, <5>1, <5>2
      <4> QED BY <1>3, <1>6, <2>4, <3>2, <4>1 DEF PageFollows, Queued
    <3>3. CASE ~wanted
      <4>1. ~client'.requestQueued /\ (client'.outstanding => client'.cancelQueued)
        BY <1>3, <1>c, <3>1, <3>3
      <4> QED BY <1>3, <1>6, <2>4, <3>3, <4>1 DEF PageFollows
    <3> QED BY <3>2, <3>3
  <2> QED BY <2>1, <2>3, <2>4
<1>9. HostFollows'
  <2>0. /\ o.reports # <<>> => LastOf(toHost', PendingKind, PendingReport(client'.outstanding))
        /\ o.reports = <<>> =>
              /\ client'.outstanding = client.outstanding
              /\ \A x \in PendingKind : LastOf(toHost', PendingKind, x) <=> LastOf(toHost, PendingKind, x)
              /\ NoneOf(toHost', PendingKind) <=> NoneOf(toHost, PendingKind)
    BY <1>2, <1>3, ReportsSent
  <2>1. CASE o.reports # <<>>
    BY <2>0, <2>1 DEF HostFollows
  <2>2. CASE o.reports = <<>>
    <3>0. PendingReport(client.outstanding) \in PendingKind
      BY <1>0 DEF PendingKind
    <3>1. CASE LastOf(toHost, PendingKind, PendingReport(client.outstanding))
      BY <2>0, <2>2, <3>0, <3>1 DEF HostFollows
    <3>2. CASE ~LastOf(toHost, PendingKind, PendingReport(client.outstanding))
      <4>1. NoneOf(toHost', PendingKind)
        BY <2>0, <2>2, <3>2 DEF ViewsFollow, HostFollows
      <4>2. ASSUME ~Queued' PROVE ~Queued /\ ~client.outstanding /\ Head(toPage) # "send-help-request"
        BY <1>3, <1>q, <1>c, <2>0, <2>2, <4>2 DEF Queued
      <4>3. NoneOf(Tail(toPage), Calls) /\ Head(toPage) # "send-help-request" =>
              LastOf(toPage, Calls, "send-help-cancel")
        <5>1. ASSUME NoneOf(Tail(toPage), Calls), Head(toPage) # "send-help-request"
              PROVE  WantedCall = "send-help-cancel"
          <6>1. Tail(toPage) \in Seq(Events)
            BY <1>0
          <6>2. ~LastOf(Tail(toPage), Calls, WantedCall)
            BY <1>0, <5>1, <6>1, OneLast
          <6>3. Head(toPage) = WantedCall
            BY <1>0, <1>7, <6>2, TakenOff
          <6> QED BY <5>1, <6>3 DEF WantedCall
        <5> QED BY <1>7, <5>1
      <4>4. LastOf(Tail(toPage), Calls, "send-help-cancel") => LastOf(toPage, Calls, "send-help-cancel")
        BY <1>0, TakenOff
      <4>5. ~Queued /\ ~client.outstanding /\ LastOf(toPage, Calls, "send-help-cancel") => 
               call = "none" /\ ~Pending
        BY <3>2 DEF ViewsFollow, HostFollows
      <4>6. Pending' = Pending /\ call' = call
        BY <1>3 DEF Pending
      <4> QED BY <1>3, <2>0, <2>2, <4>1, <4>2, <4>3, <4>4, <4>5, <4>6 DEF HostFollows
    <3> QED BY <3>1, <3>2
  <2> QED BY <2>1, <2>2
<1> QED BY <1>6, <1>8, <1>9 DEF ViewsFollow
\* The page hears of other preferences, connects, or closes.
LEMMA ViewsPreferences ==
  ASSUME Basics, ViewsFollow, PageHearsPreferences
  PROVE  ViewsFollow'
<1>0. /\ toPage \in Seq(Events) /\ toPage # <<>> /\ Head(toPage) \notin Calls
      /\ WantedCall \in Calls /\ "send-help-cancel" \in Calls
  BY DEF Basics, TypeOK, PageHearsPreferences, Calls, WantedCall
<1>1. /\ toPage' = Tail(toPage)
      /\ UNCHANGED <<toHost, client, phase, conn, link, wanted, host, call, inQueue>>
  BY DEF PageHearsPreferences, hostVars, serverVars
<1>2. /\ \A x \in Calls : LastOf(toPage', Calls, x) <=> LastOf(toPage, Calls, x)
      /\ NoneOf(toPage', Calls) <=> NoneOf(toPage, Calls)
  BY <1>0, <1>1, TakenOff
<1>3. FramesAreCurrent' /\ ServerFollows'
  BY <1>1, ServerStays DEF ViewsFollow
<1>4. WantedCall' = WantedCall /\ Pending' = Pending /\ (Queued' <=> Queued)
  BY <1>1 DEF WantedCall, Pending, Queued
<1>5. PageFollows'
  BY <1>0, <1>1, <1>2, <1>4 DEF ViewsFollow, PageFollows
<1>6. HostFollows'
  BY <1>0, <1>1, <1>2, <1>4 DEF ViewsFollow, HostFollows
<1> QED BY <1>3, <1>5, <1>6 DEF ViewsFollow

LEMMA ViewsConnect ==
  ASSUME Basics, ViewsFollow, ~troubled', ReplaceClient \/ Reconnect
  PROVE  ViewsFollow'
<1>0. /\ conn \in Conns /\ conn' \in Conns /\ conn' = conn + 1 /\ link[conn].acks \in Nat
      /\ conn' # conn
  <2>1. conn \in Conns /\ conn' \in Conns /\ conn' = conn + 1
    BY BasicsConnect
  <2>2. link \in [Conns -> Link]
    BY DEF Basics, TypeOK
  <2>3. link[conn].acks \in Nat
    <3>1. link[conn] \in Link
      BY <2>1, <2>2
    <3> QED BY <3>1 DEF Link
  <2>4. conn' # conn
    BY <2>1 DEF Conns
  <2> QED BY <2>1, <2>3, <2>4
<1>1. /\ \A c \in Conns : link'[c].up = link[c].up
      /\ \A c \in Conns : c # conn => link'[c].acks = link[c].acks
      /\ link'[conn].acks = 0
  BY BasicsConnect
<1>2. /\ UNCHANGED <<toPage, toHost, wanted, host, call, inQueue>> /\ phase' = "connecting"
  BY DEF ReplaceClient, Reconnect, Connect, hostVars, serverVars
<1>3. link[conn].up = <<>>
  BY DEF ReplaceClient, Reconnect, Trouble, ViewsFollow, FramesAreCurrent
<1>4. client' = client
  BY DEF ReplaceClient, Reconnect, Trouble
<1>5. link[conn].acks = 0
  <2>1. CASE Reconnect
    BY <2>1 DEF Reconnect, ViewsFollow, FramesAreCurrent
  <2>2. CASE ReplaceClient
    <3>1. ~client.outstanding
      <4>1. client = NewClient
        BY <2>2 DEF ReplaceClient, Trouble
      <4> QED BY <4>1 DEF NewClient
    <3> QED BY <1>0, <3>1 DEF ViewsFollow, FramesAreCurrent
  <2> QED BY <2>1, <2>2
<1>6. link[conn'].up = <<>> /\ link[conn'].acks = 0
  BY <1>0 DEF ViewsFollow, FramesAreCurrent
<1>7. \A c \in Conns : link'[c].up = <<>> /\ link'[c].acks = 0
  BY <1>0, <1>1, <1>3 DEF ViewsFollow, FramesAreCurrent
<1>8. FramesAreCurrent'
  BY <1>0, <1>7 DEF FramesAreCurrent
<1>9. ServerFollows'
  BY <1>0, <1>2, <1>3, <1>4, <1>5, <1>7 DEF ViewsFollow, ServerFollows
<1>10. PageFollows' /\ HostFollows'
  <2>1. link'[conn'].acks = link[conn].acks
    BY <1>0, <1>5, <1>7
  <2> QED BY <1>2, <1>4, <2>1, PageStays, HostStays DEF ViewsFollow
<1> QED BY <1>8, <1>9, <1>10 DEF ViewsFollow

LEMMA ViewsOpen ==
  ASSUME Basics, ViewsFollow, ~troubled', OnOpen
  PROVE  ViewsFollow'
<1> DEFINE o == Flush(client)
<1>0. /\ client \in Client /\ OneThing(client, FALSE) /\ link[conn].acks \in Nat
      /\ client.outstanding \in BOOLEAN
  BY DEF Basics, TypeOK, OneThingQueued, OneThing, Client, Link
<1>1. /\ Says(client, o) /\ OneThing(o.client, TRUE)
      /\ o.client.outstanding <=> (client.requestQueued \/ (client.outstanding /\ ~client.cancelQueued))
      /\ IF client.requestQueued \/ client.cancelQueued
         THEN o.frames # <<>> /\ o.reports = <<o.client.outstanding>>
         ELSE o.client = client /\ o.frames = <<>> /\ o.reports = <<>>
  BY <1>0, FlushOutcome
<1>2. /\ ClientStep(o, ConnectionReport(TRUE)) /\ link' = [link EXCEPT ![conn].up = @ \o o.frames]
      /\ client' = o.client /\ ~(o.frames # <<>> /\ link[conn].acks > 0)
      /\ phase = "connecting" /\ phase' = "open"
      /\ UNCHANGED <<toPage, conn, wanted, call, host, inQueue>>
  BY DEF OnOpen, ClientStep, Trouble, hostVars, serverVars
<1> HIDE DEF o
<1>3. FramesAreCurrent' /\ ServerFollows' /\ link'[conn'].acks = link[conn].acks
  <2>1. o.frames # <<>> => phase' = "open" /\ link[conn].acks = 0
    BY <1>0, <1>2
  <2>2. FramesAreCurrent /\ ServerFollows
    BY DEF ViewsFollow
  <2> QED BY <1>1, <1>2, <2>1, <2>2, FramesSent
<1>4. ~Queued' /\ WantedCall' = WantedCall
  BY <1>1, <1>2 DEF Queued, OneThing, WantedCall
<1>5. PageFollows'
  <2>1. CASE link[conn].acks = 0
    BY <1>1, <1>2, <1>3, <1>4, <2>1 DEF ViewsFollow, PageFollows, Queued
  <2>2. CASE link[conn].acks # 0
    <3>1. ~Queued
      BY <1>0, <1>1, <1>2, <2>2 DEF Queued
    <3> QED BY <1>2, <1>3, <1>4, <2>2, <3>1 DEF ViewsFollow, PageFollows
  <2> QED BY <2>1, <2>2
<1>6. HostFollows'
  <2>0. /\ o.reports # <<>> => LastOf(toHost', PendingKind, PendingReport(client'.outstanding))
        /\ o.reports = <<>> =>
              /\ \A x \in PendingKind : LastOf(toHost', PendingKind, x) <=> LastOf(toHost, PendingKind, x)
              /\ NoneOf(toHost', PendingKind) <=> NoneOf(toHost, PendingKind)
    BY <1>1, <1>2, ReportsSent
  <2>1. CASE Queued
    <3>1. o.reports # <<>>
      BY <1>1, <2>1 DEF Queued
    <3> QED BY <2>0, <3>1 DEF HostFollows
  <2>2. CASE ~Queued
    <3>1. o.reports = <<>> /\ client' = client
      BY <1>1, <1>2, <2>2 DEF Queued
    <3>2. PendingReport(client.outstanding) \in PendingKind /\ Pending' = Pending
      BY <1>0, <1>2 DEF PendingKind, Pending
    <3> QED BY <1>2, <2>0, <2>2, <3>1, <3>2 DEF ViewsFollow, HostFollows
  <2> QED BY <2>1, <2>2
<1> QED BY <1>3, <1>5, <1>6 DEF ViewsFollow

LEMMA ViewsAcked ==
  ASSUME Basics, ViewsFollow, OnHelpAcked
  PROVE  ViewsFollow'
<1>0. /\ conn \in Conns /\ client \in Client /\ toHost \in Seq(Reports) /\ link[conn].acks \in Nat
      /\ PendingReport(FALSE) \in Reports
  BY DEF Basics, TypeOK, Link, PendingReport, Reports
<1>1. /\ client' = NewClient /\ link'[conn].acks = link[conn].acks - 1
      /\ \A c \in Conns : link'[c].up = link[c].up
      /\ \A c \in Conns : c # conn => link'[c].acks = link[c].acks
  BY BasicsAcked
<1>2. /\ link[conn].acks = 1 /\ link[conn].up = <<>> /\ ~inQueue /\ client.outstanding /\ phase = "open"
      /\ UNCHANGED <<toPage, phase, conn, wanted, host, call, inQueue>>
  BY <1>0 DEF ViewsFollow, FramesAreCurrent, OnHelpAcked, hostVars, serverVars
<1>3. link'[conn].acks = 0
  BY <1>1, <1>2
<1>4. ~NewClient.outstanding /\ ~NewClient.requestQueued /\ ~NewClient.cancelQueued
  BY DEF NewClient
<1>5. FramesAreCurrent' /\ ServerFollows'
  BY <1>0, <1>1, <1>2, <1>3, <1>4 DEF ViewsFollow, FramesAreCurrent, ServerFollows
<1>6. ~Queued
  BY <1>2 DEF Basics, OneThingQueued, Queued
<1>7. PageFollows'
  BY <1>1, <1>2, <1>3, <1>4, <1>6 DEF ViewsFollow, PageFollows, WantedCall
<1>8. LastOf(toHost', PendingKind, PendingReport(FALSE))
  <2>1. HelpAcked(client).reports = <<FALSE>>
    BY <1>0, <1>2, AckOutcome
  <2>2. toHost' = Append(toHost, PendingReport(FALSE))
    BY <1>0, <2>1, Reported DEF OnHelpAcked, ClientStep
  <2> QED BY <1>0, <2>2, LastAppended
<1>9. HostFollows'
  <2>1. client'.outstanding = FALSE
    BY <1>1 DEF NewClient
  <2> QED BY <1>8, <2>1 DEF HostFollows
<1> QED BY <1>5, <1>7, <1>9 DEF ViewsFollow

LEMMA ViewsClose ==
  ASSUME Basics, ViewsFollow, OnClose \/ (\E c \in Conns : OnCloseOfStopped(c))
  PROVE  ViewsFollow'
<1> DEFINE e == [event |-> "connection-changed", value |-> FALSE]
<1>0. /\ toHost \in Seq(Reports) /\ e \in Reports /\ e \notin PendingKind
      /\ PendingReport(client.outstanding) \in PendingKind
  BY DEF Basics, TypeOK, Client, Reports, PendingKind, PendingReport
<1>1. toHost' = Append(toHost, e)
  BY <1>0, Reported DEF OnClose, OnCloseOfStopped
<1>2. /\ phase' = phase \/ (phase' = "waiting" /\ phase = "closing")
      /\ UNCHANGED <<toPage, client, conn, link, wanted, host, call, inQueue>>
  BY DEF OnClose, OnCloseOfStopped, hostVars, serverVars
<1> HIDE DEF e
<1>3. FramesAreCurrent' /\ ServerFollows' /\ PageFollows'
  BY <1>2, ServerStays, PageStays DEF ViewsFollow
<1>4. /\ \A x \in PendingKind : LastOf(toHost', PendingKind, x) <=> LastOf(toHost, PendingKind, x)
      /\ NoneOf(toHost', PendingKind) <=> NoneOf(toHost, PendingKind)
  BY <1>0, <1>1, AppendedOther
<1>5. HostFollows'
  BY <1>0, <1>2, <1>4 DEF ViewsFollow, HostFollows, Queued, Pending
<1> QED BY <1>3, <1>5 DEF ViewsFollow

\* The network and the server.
LEMMA ViewsNetwork ==
  ASSUME Basics, ViewsFollow, ~troubled', ConnectionFails \/ JudgeAcks \/ Restart
  PROVE  ViewsFollow'
<1>0. /\ conn \in Conns /\ link \in [Conns -> Link] /\ link[conn] \in Link
      /\ \A c \in Conns : link[c] \in Link /\ link[c].acks \in Nat
      /\ inQueue \in BOOLEAN
  BY DEF Basics, TypeOK, Link
<1>1. conn' = conn /\ client' = client /\ toPage' = toPage /\ toHost' = toHost
  BY BasicsNetwork
<1>2. UNCHANGED <<host, call>>
  BY DEF ConnectionFails, JudgeAcks, Restart, hostVars
<1>3. HostFollows'
  BY <1>1, <1>2, HostStays DEF ViewsFollow
<1>4. CASE ConnectionFails
  <2>1. link[conn].up = <<>> /\ link[conn].acks = 0 /\ UNCHANGED <<wanted, inQueue>> /\ phase' = "closing"
    <3>1. link[conn].up = <<>> /\ ~(link[conn].acks > 0) /\ UNCHANGED <<wanted, inQueue>> /\ phase' = "closing"
      BY <1>4 DEF ConnectionFails, Trouble, serverVars
    <3>2. link[conn].acks \in Nat
      BY <1>0
    <3>3. link[conn].acks = 0
      BY <3>1, <3>2
    <3> QED BY <3>1, <3>3
  <2>2. /\ link'[conn] = [link[conn] EXCEPT !.acks = 0]
        /\ \A c \in Conns : c # conn => link'[c] = link[c]
    BY <1>0, <1>4 DEF ConnectionFails
  <2>3. link'[conn].up = <<>> /\ link'[conn].acks = 0
    BY <1>0, <2>1, <2>2 DEF Link
  <2>4. FramesAreCurrent' /\ ServerFollows'
    BY <1>1, <2>1, <2>2, <2>3 DEF ViewsFollow, FramesAreCurrent, ServerFollows
  <2>5. PageFollows'
    BY <1>1, <2>1, <2>3, PageStays DEF ViewsFollow
  <2> QED BY <1>3, <2>4, <2>5 DEF ViewsFollow
<1>5. CASE JudgeAcks
  <2>1. /\ link[conn].server = "listening" /\ phase \in {"connecting", "open"}
        /\ toPage = <<>> /\ \A c \in Conns : link[c].up = <<>>
        /\ inQueue /\ ~inQueue' /\ wanted' = FALSE /\ phase' = phase
        /\ link' = [link EXCEPT ![conn].acks = @ + 1]
    BY <1>5 DEF JudgeAcks, Trouble, pageVars
  <2>2. link[conn].acks = 0 /\ link[conn].up = <<>>
    BY <1>0, <2>1 DEF ViewsFollow, FramesAreCurrent
  <2>3. client.outstanding
    BY <2>1, <2>2 DEF ViewsFollow, ServerFollows
  <2>4. /\ link'[conn] = [link[conn] EXCEPT !.acks = link[conn].acks + 1]
        /\ \A c \in Conns : c # conn => link'[c] = link[c]
    BY <1>0, <2>1
  <2>5. link'[conn].up = <<>> /\ link'[conn].acks = 1
    BY <1>0, <2>2, <2>4 DEF Link
  <2>6. FramesAreCurrent' /\ ServerFollows'
    BY <1>1, <2>1, <2>3, <2>4, <2>5 DEF ViewsFollow, FramesAreCurrent, ServerFollows
  <2>7. PageFollows'
    BY <1>1, <2>1, <2>5, NoneInEmpty DEF PageFollows
  <2> QED BY <1>3, <2>6, <2>7 DEF ViewsFollow
<1>6. CASE Restart
  <2>1. /\ ~inQueue /\ \A c \in Conns : link[c].up = <<>> /\ link[c].acks = 0
        /\ ~inQueue' /\ wanted' = wanted
        /\ phase' \in {phase, "closing"} /\ (phase' = "open" => phase = "open")
        /\ link' = [c \in Conns |-> IF link[c].server = "none" THEN link[c]
                                    ELSE [NoLink EXCEPT !.server = "closed"]]
    <3>1. ~inQueue /\ \A c \in Conns : link[c].up = <<>> /\ ~(link[c].acks > 0)
      BY <1>6 DEF Restart, Trouble
    <3>2. \A c \in Conns : link[c].acks = 0
      BY <1>0, <3>1
    <3>3. /\ inQueue' = FALSE /\ wanted' = wanted
          /\ phase' = IF phase \in {"connecting", "open"} THEN "closing" ELSE phase
          /\ link' = [c \in Conns |-> IF link[c].server = "none" THEN link[c]
                                      ELSE [NoLink EXCEPT !.server = "closed"]]
      BY <1>6 DEF Restart
    <3> QED BY <3>1, <3>2, <3>3
  <2>2. [NoLink EXCEPT !.server = "closed"].up = <<>> /\ [NoLink EXCEPT !.server = "closed"].acks = 0
    BY DEF NoLink
  <2>3. \A c \in Conns : link'[c].up = <<>> /\ link'[c].acks = 0
    BY <2>1, <2>2
  <2>4. FramesAreCurrent' /\ ServerFollows'
    BY <1>0, <1>1, <2>1, <2>3 DEF ViewsFollow, FramesAreCurrent, ServerFollows
  <2>5. PageFollows'
    BY <1>0, <1>1, <2>1, <2>3, PageStays DEF ViewsFollow
  <2> QED BY <1>3, <2>4, <2>5 DEF ViewsFollow
<1> QED BY <1>4, <1>5, <1>6

LEMMA ViewsServer ==
  ASSUME Basics, ViewsFollow, ~troubled', ServerStep
  PROVE  ViewsFollow'
<1>0. /\ conn \in Conns /\ link \in [Conns -> Link] /\ inQueue \in BOOLEAN
      /\ \A c \in Conns : link[c] \in Link /\ link[c].up \in Seq(Frames)
  BY DEF Basics, TypeOK, Link
<1>1. conn' = conn /\ client' = client /\ toPage' = toPage /\ toHost' = toHost
  BY BasicsNetwork
<1>2. PICK c \in Conns : Admit(c) \/ ServerHears(c) \/ ServerCloses(c)
  BY DEF ServerStep, FrameUnheard
<1>3. UNCHANGED <<host, call, wanted, phase>>
  BY <1>2 DEF Admit, ServerHears, ServerCloses, hostVars, pageVars
<1>4. HostFollows'
  BY <1>1, <1>3, HostStays DEF ViewsFollow
<1>5. CASE Admit(c)
  <2>1. /\ link'[c] = [link[c] EXCEPT !.server = "listening"] /\ inQueue' = inQueue
        /\ \A d \in Conns : d # c => link'[d] = link[d]
    BY <1>0, <1>5 DEF Admit, serverVars
  <2>2. link'[c].up = link[c].up /\ link'[c].acks = link[c].acks
    BY <1>0, <2>1 DEF Link
  <2>3. \A d \in Conns : link'[d].up = link[d].up /\ link'[d].acks = link[d].acks
    BY <2>1, <2>2
  <2>4. FramesAreCurrent' /\ ServerFollows'
    BY <1>0, <1>1, <1>3, <2>1, <2>3 DEF ViewsFollow, FramesAreCurrent, ServerFollows
  <2>5. PageFollows'
    BY <1>0, <1>1, <1>3, <2>3, PageStays DEF ViewsFollow
  <2> QED BY <1>4, <2>4, <2>5 DEF ViewsFollow
<1>6. CASE ServerHears(c)
  <2>1. c = conn
    BY <1>6 DEF ServerHears, ViewsFollow, FramesAreCurrent
  <2> DEFINE u == link[conn].up
  <2>2. /\ u \in Seq(Frames) /\ u # <<>>
        /\ link' = [link EXCEPT ![conn].up = Tail(u)] /\ inQueue' = (Head(u) = "HELP_REQUEST")
    BY <1>0, <1>6, <2>1 DEF ServerHears
  <2>3. /\ phase = "open" /\ link[conn].acks = 0
        /\ u[Len(u)] = "HELP_REQUEST" <=> client.outstanding
    BY <1>0, <2>2 DEF ViewsFollow, FramesAreCurrent, ServerFollows, Link
  <2>4. /\ link'[conn] = [link[conn] EXCEPT !.up = Tail(u)]
        /\ \A d \in Conns : d # conn => link'[d] = link[d]
    BY <1>0, <2>2
  <2>5. link'[conn].up = Tail(u) /\ link'[conn].acks = 0
    BY <1>0, <2>3, <2>4 DEF Link
  <2> HIDE DEF u
  <2>6. Tail(u) # <<>> => Tail(u)[Len(Tail(u))] = u[Len(u)]
    BY <2>2
  <2>7. ASSUME Tail(u) = <<>> PROVE u[Len(u)] = Head(u)
    <3>1. Len(Tail(u)) = Len(u) - 1 /\ Len(u) \in Nat /\ Head(u) = u[1]
      BY <2>2
    <3>2. Len(Tail(u)) = 0
      <4>1. Len(<<>>) = 0
        OBVIOUS
      <4> QED BY <2>7, <4>1, Zenon
    <3>3. Len(u) = 1
      BY <3>1, <3>2
    <3> QED BY <3>1, <3>3
  <2>8. FramesAreCurrent'
    BY <1>1, <1>3, <2>3, <2>4, <2>5 DEF ViewsFollow, FramesAreCurrent
  <2>9. ServerFollows'
    BY <1>1, <2>2, <2>3, <2>5, <2>6, <2>7 DEF ServerFollows
  <2>10. PageFollows'
    BY <1>1, <1>3, <2>3, <2>5, PageStays DEF ViewsFollow
  <2> QED BY <1>4, <2>8, <2>9, <2>10 DEF ViewsFollow
<1>7. CASE ServerCloses(c)
  <2>1. link[c].up = <<>> /\ link[c].acks = 0
    BY <1>7 DEF ServerCloses, ViewsFollow, FramesAreCurrent
  <2>2. /\ link' = [link EXCEPT ![c] = [NoLink EXCEPT !.server = "closed"]] /\ inQueue' = inQueue
    BY <1>7 DEF ServerCloses, serverVars
  <2>3. \A d \in Conns : link'[d].up = link[d].up /\ link'[d].acks = link[d].acks
    BY <1>0, <2>1, <2>2 DEF NoLink
  <2>4. FramesAreCurrent' /\ ServerFollows'
    BY <1>0, <1>1, <1>3, <2>2, <2>3 DEF ViewsFollow, FramesAreCurrent, ServerFollows
  <2>5. PageFollows'
    BY <1>0, <1>1, <1>3, <2>3, PageStays DEF ViewsFollow
  <2> QED BY <1>4, <2>4, <2>5 DEF ViewsFollow
<1> QED BY <1>2, <1>5, <1>6, <1>7

LEMMA ViewsInit == Init => ViewsFollow
<1> SUFFICES ASSUME Init PROVE ViewsFollow
  OBVIOUS
<1>1. conn = 1 /\ conn \in Conns /\ \A c \in Conns : link[c].up = <<>> /\ link[c].acks = 0
  <2>1. 1 \in Conns
    BY ProtocolBounds DEF Conns
  <2> QED BY <2>1 DEF Init, NoLink
<1>2. ~client.outstanding /\ ~client.requestQueued /\ ~client.cancelQueued
  BY DEF Init, NewClient
<1>3. FramesAreCurrent /\ ServerFollows
  <2>1. ~inQueue
    BY DEF Init
  <2>2. FramesAreCurrent
    BY <1>1 DEF FramesAreCurrent
  <2>3. ServerFollows
    BY <1>1, <1>2, <2>1 DEF ServerFollows
  <2> QED BY <2>2, <2>3
<1>4. toPage = <<>> /\ toHost = <<>> /\ ~wanted /\ call = "none" /\ ~Pending
  BY DEF Init, Pending
<1>5. PageFollows
  BY <1>1, <1>2, <1>4, NoneInEmpty DEF PageFollows
<1>6. HostFollows
  BY <1>1, <1>2, <1>4, NoneInEmpty DEF HostFollows
<1> QED BY <1>3, <1>5, <1>6 DEF ViewsFollow
----------------------------------------------------------------------------
LEMMA ViewsHold == Basics /\ [Next]_vars /\ (~troubled => ViewsFollow) => (~troubled' => ViewsFollow')
<1> SUFFICES ASSUME Basics, [Next]_vars, ~troubled => ViewsFollow, ~troubled' PROVE ViewsFollow'
  OBVIOUS
<1>1. ~troubled
  <2>1. troubled \in BOOLEAN
    BY DEF Basics, TypeOK
  <2>2. \/ troubled' = troubled \/ troubled' = TRUE \/ \E happened : troubled' = (troubled \/ happened)
    BY DEF Next, vars, IpcHelpRequest, IpcHelpCancel, ChangePreferences, ConnectionFails, JudgeAcks, Restart,
           HostStep, IpcRequestReturns, HostHears, PageStep, PageHearsCall, PageHearsPreferences,
           ReplaceClient, Reconnect, OnOpen, OnHelpAcked, OnClose, OnCloseOfStopped,
           ServerStep, Admit, FrameUnheard, ServerHears, ServerCloses, Trouble
  <2> QED BY <2>1, <2>2
<1>2. ViewsFollow
  BY <1>1
<1>3. CASE UNCHANGED vars
  <2>1. UNCHANGED <<toHost, toPage, client, call, host, wanted, link, conn, inQueue, phase>>
    BY <1>3 DEF vars
  <2> QED BY <1>2, <2>1, HostStays, PageStays, ServerStays DEF ViewsFollow
<1>4. CASE HostHears
  BY <1>2, <1>4, ViewsHears
<1>5. CASE IpcHelpRequest \/ IpcHelpCancel \/ ChangePreferences \/ IpcRequestReturns
  BY <1>2, <1>5, ViewsHost
<1>6. CASE PageStep
  BY <1>2, <1>6, ViewsCall, ViewsPreferences, ViewsConnect, ViewsOpen, ViewsAcked, ViewsClose DEF PageStep
<1>7. CASE ConnectionFails \/ JudgeAcks \/ Restart
  BY <1>2, <1>7, ViewsNetwork
<1>8. CASE ServerStep
  BY <1>2, <1>8, ViewsServer
<1> QED BY <1>3, <1>4, <1>5, <1>6, <1>7, <1>8 DEF Next, HostStep

\* Every reachable state is well typed, and the page never runs out of
\* connections: each one it makes is paid for by a fault.
THEOREM ProtocolTypes == Spec => [](TypeOK /\ ConnsCounted)
<1>1. Basics => TypeOK /\ ConnsCounted
  BY DEF Basics
<1> QED BY BasicsInit, BasicsHold, <1>1, PTL DEF Spec

\* The client never holds a queued request and a queued cancel together, and
\* holds neither while its socket is open, however often the user asks and
\* cancels and the connection fails (sendHelpRequest, sendHelpCancel, onopen).
THEOREM OneThingIsQueued == Spec => []OneThingQueued
<1>1. Basics => OneThingQueued
  BY DEF Basics
<1> QED BY BasicsInit, BasicsHold, <1>1, PTL DEF Spec

\* Unless there was a mishap, the views follow one another in every reachable
\* state (the inductive invariant).
THEOREM ViewsAlwaysFollow == Spec => []ProtocolInv
<1>1. Init => ProtocolInv
  BY BasicsInit, ViewsInit DEF ProtocolInv, Basics
<1>2. ProtocolInv /\ [Next]_vars => ProtocolInv'
  BY BasicsHold, ViewsHold DEF ProtocolInv, Basics
<1> QED BY <1>1, <1>2, PTL DEF Spec

\* Once everything is delivered, the host, the page and the server agree with
\* each other and with the contestant's last call, unless one of the mishaps
\* happened (the whole path of a call for help, Overlay.tsx to help-queue.ts).
THEOREM ViewsSettle == Spec => []SettledViewsAgree
<1>1. ProtocolInv => SettledViewsAgree
  <2> SUFFICES ASSUME ProtocolInv, Quiet, ~troubled
               PROVE  Pending = wanted /\ client.outstanding = wanted /\ inQueue = wanted
    BY DEF SettledViewsAgree
  <2>1. /\ toPage = <<>> /\ toHost = <<>> /\ call = "none" /\ phase = "open"
        /\ link[conn].acks = 0 /\ link[conn].up = <<>>
    BY DEF Quiet, ProtocolInv, TypeOK
  <2>2. ~Queued
    BY <2>1 DEF ProtocolInv, OneThingQueued, Queued
  <2>3. {wanted, inQueue, client.outstanding, Pending} \subseteq BOOLEAN
    BY DEF ProtocolInv, TypeOK, Client, Pending
  <2>4. wanted <=> client.outstanding
    BY <2>1, <2>2, NoneInEmpty DEF ProtocolInv, ViewsFollow, PageFollows, Queued
  <2>5. inQueue <=> client.outstanding
    BY <2>1 DEF ProtocolInv, ViewsFollow, ServerFollows
  <2>6. Pending <=> client.outstanding
    BY <2>1, <2>2, NoneInEmpty DEF ProtocolInv, ViewsFollow, HostFollows
  <2> QED BY <2>3, <2>4, <2>5, <2>6
<1> QED BY ViewsAlwaysFollow, <1>1, PTL
----------------------------------------------------------------------------
\* The requests on their way to the server, as places in the links.
RequestsUp == {p \in Conns \X Nat : p[2] \in 1..Len(link[p[1]].up) /\ link[p[1]].up[p[2]] = "HELP_REQUEST"}

Flag(b) == IF b THEN 1 ELSE 0
CallsUp == PlacesOf(toPage, "send-help-request")

\* Every request is on its way to the page, queued there, on its way to the
\* server, or has been heard: no step makes one into two.
RequestsCounted ==
  /\ IsFiniteSet(RequestsUp)
  /\ entered + Cardinality(RequestsUp) + Cardinality(CallsUp) + Flag(client.requestQueued) <= asked

LEMMA UpsShrink ==
  ASSUME IsFiniteSet(RequestsUp), \A c \in Conns : link'[c].up \in {link[c].up, <<>>}
  PROVE  /\ IsFiniteSet(RequestsUp') /\ Cardinality(RequestsUp') \in Nat /\ Cardinality(RequestsUp) \in Nat
         /\ Cardinality(RequestsUp') <= Cardinality(RequestsUp)
<1>1. RequestsUp' \subseteq RequestsUp
  <2> SUFFICES ASSUME NEW p \in RequestsUp' PROVE p \in RequestsUp
    OBVIOUS
  <2>1. /\ p \in Conns \X Nat /\ p[1] \in Conns
        /\ p[2] \in 1..Len(link'[p[1]].up) /\ link'[p[1]].up[p[2]] = "HELP_REQUEST"
    BY DEF RequestsUp
  <2>2. 1..Len(<<>>) = {}
    OBVIOUS
  <2>3. link'[p[1]].up = link[p[1]].up
    BY <2>1, <2>2
  <2> QED BY <2>1, <2>3 DEF RequestsUp
<1> QED BY <1>1, FS_Subset, FS_CardinalityType

LEMMA UpsSent ==
  ASSUME IsFiniteSet(RequestsUp), conn \in Conns, link[conn].up \in Seq(Frames), NEW x \in Frames,
         link'[conn].up = Append(link[conn].up, x), \A c \in Conns : c # conn => link'[c] = link[c]
  PROVE  /\ IsFiniteSet(RequestsUp') /\ Cardinality(RequestsUp') \in Nat /\ Cardinality(RequestsUp) \in Nat
         /\ Cardinality(RequestsUp') <= Cardinality(RequestsUp) + Flag(x = "HELP_REQUEST")
<1> DEFINE u == link[conn].up
           new == <<conn, Len(u) + 1>>
<1>0. /\ u \in Seq(Frames) /\ Len(u) \in Nat /\ link'[conn].up = Append(u, x)
      /\ Len(Append(u, x)) = Len(u) + 1 /\ Append(u, x)[Len(u) + 1] = x
      /\ \A i \in 1..Len(u) : Append(u, x)[i] = u[i]
  BY AppendProperties, LenProperties
<1>1. RequestsUp' \subseteq RequestsUp \cup {new} /\ (x # "HELP_REQUEST" => RequestsUp' \subseteq RequestsUp)
  <2> SUFFICES ASSUME NEW p \in RequestsUp'
               PROVE  p \in RequestsUp \/ (p = new /\ x = "HELP_REQUEST")
    OBVIOUS
  <2>1. /\ p \in Conns \X Nat /\ p[1] \in Conns /\ p[2] \in Nat /\ p = <<p[1], p[2]>>
        /\ p[2] \in 1..Len(link'[p[1]].up) /\ link'[p[1]].up[p[2]] = "HELP_REQUEST"
    BY DEF RequestsUp
  <2>2. CASE p[1] # conn
    BY <2>1, <2>2 DEF RequestsUp
  <2>3. CASE p[1] = conn /\ p[2] # Len(u) + 1
    <3> HIDE DEF u
    <3>1. p[2] \in 1..Len(u) /\ u[p[2]] = "HELP_REQUEST"
      BY <1>0, <2>1, <2>3
    <3> QED BY <2>1, <2>3, <3>1 DEF RequestsUp, u
  <2>4. CASE p[1] = conn /\ p[2] = Len(u) + 1
    BY <1>0, <2>1, <2>4
  <2> QED BY <2>2, <2>3, <2>4
<1>2. /\ IsFiniteSet(RequestsUp \cup {new}) /\ Cardinality(RequestsUp) \in Nat
      /\ Cardinality(RequestsUp \cup {new}) <= Cardinality(RequestsUp) + 1
  <2> HIDE DEF new
  <2>1. Cardinality(RequestsUp) \in Nat
    BY FS_CardinalityType
  <2>2. /\ IsFiniteSet(RequestsUp \cup {new})
        /\ Cardinality(RequestsUp \cup {new})
             = IF new \in RequestsUp THEN Cardinality(RequestsUp) ELSE Cardinality(RequestsUp) + 1
    BY FS_AddElement, Zenon
  <2> QED BY <2>1, <2>2
<1> HIDE DEF new
<1>3. CASE x = "HELP_REQUEST"
  BY <1>1, <1>2, <1>3, FS_Subset, FS_CardinalityType DEF Flag
<1>4. CASE x # "HELP_REQUEST"
  BY <1>1, <1>2, <1>4, FS_Subset, FS_CardinalityType DEF Flag
<1> QED BY <1>3, <1>4

LEMMA UpsHeard ==
  ASSUME IsFiniteSet(RequestsUp), NEW c \in Conns, link[c].up \in Seq(Frames), link[c].up # <<>>,
         link'[c].up = Tail(link[c].up), \A d \in Conns : d # c => link'[d] = link[d]
  PROVE  /\ IsFiniteSet(RequestsUp') /\ Cardinality(RequestsUp') \in Nat /\ Cardinality(RequestsUp) \in Nat
         /\ Cardinality(RequestsUp') + Flag(Head(link[c].up) = "HELP_REQUEST") <= Cardinality(RequestsUp)
<1> DEFINE u == link[c].up
           first == <<c, 1>>
           rest == RequestsUp \ {first}
           shift == [p \in RequestsUp' |-> IF p[1] = c THEN <<c, p[2] + 1>> ELSE p]
<1>0. /\ u \in Seq(Frames) /\ Len(u) \in Nat \ {0} /\ link'[c].up = Tail(u) /\ Head(u) = u[1]
      /\ Len(Tail(u)) = Len(u) - 1
      /\ \A i \in 1..Len(Tail(u)) : Tail(u)[i] = u[i + 1]
  OBVIOUS
<1>1. Head(u) = "HELP_REQUEST" => first \in RequestsUp
  BY <1>0 DEF RequestsUp
<1>2. IsFiniteSet(rest) /\ Cardinality(RequestsUp) \in Nat
      /\ Cardinality(rest) <= Cardinality(RequestsUp) - Flag(Head(u) = "HELP_REQUEST")
  <2>1. /\ IsFiniteSet(rest)
        /\ Cardinality(rest) = IF first \in RequestsUp THEN Cardinality(RequestsUp) - 1 ELSE Cardinality(RequestsUp)
    BY FS_RemoveElement
  <2>2. Cardinality(RequestsUp) \in Nat
    BY FS_CardinalityType
  <2> HIDE DEF first, rest
  <2> QED BY <1>1, <2>1, <2>2 DEF Flag
<1>3. \A p \in RequestsUp' : /\ p \in Conns \X Nat /\ p[1] \in Conns /\ p[2] \in Nat /\ p = <<p[1], p[2]>>
                             /\ p[2] \in 1..Len(link'[p[1]].up) /\ link'[p[1]].up[p[2]] = "HELP_REQUEST"
  BY DEF RequestsUp
<1>4. shift \in Injection(RequestsUp', rest)
  <2>1. ASSUME NEW p \in RequestsUp' PROVE shift[p] \in rest
    <3>1. CASE p[1] = c
      <4>1. p[2] + 1 \in 1..Len(u) /\ u[p[2] + 1] = "HELP_REQUEST" /\ p[2] + 1 # 1 /\ p[2] + 1 \in Nat
        <5> HIDE DEF u
        <5> QED BY <1>0, <1>3, <3>1
      <4>2. <<c, p[2] + 1>> \in RequestsUp
        BY <4>1 DEF RequestsUp
      <4> QED BY <3>1, <4>1, <4>2
    <3>2. CASE p[1] # c
      <4>1. p \in RequestsUp
        BY <1>3, <3>2 DEF RequestsUp
      <4> QED BY <1>3, <3>2, <4>1
    <3> QED BY <3>1, <3>2
  <2>2. ASSUME NEW p \in RequestsUp', NEW q \in RequestsUp', shift[p] = shift[q]
        PROVE  p = q
    <3>1. p = <<p[1], p[2]>> /\ q = <<q[1], q[2]>> /\ p[2] \in Nat /\ q[2] \in Nat
      BY <1>3
    <3>2. shift[p] = (IF p[1] = c THEN <<c, p[2] + 1>> ELSE p) /\ shift[q] = (IF q[1] = c THEN <<c, q[2] + 1>> ELSE q)
      OBVIOUS
    <3> HIDE DEF shift
    <3>3. shift[p] = <<p[1], IF p[1] = c THEN p[2] + 1 ELSE p[2]>>
          /\ shift[q] = <<q[1], IF q[1] = c THEN q[2] + 1 ELSE q[2]>>
      BY <3>1, <3>2
    <3>4. p[1] = q[1] /\ (IF p[1] = c THEN p[2] + 1 ELSE p[2]) = (IF q[1] = c THEN q[2] + 1 ELSE q[2])
      <4> DEFINE i == IF p[1] = c THEN p[2] + 1 ELSE p[2]
                 j == IF q[1] = c THEN q[2] + 1 ELSE q[2]
      <4>1. shift[p] = <<p[1], i>> /\ shift[q] = <<q[1], j>>
        BY <3>3, Zenon
      <4> HIDE DEF i, j
      <4>2. <<p[1], i>> = <<q[1], j>>
        BY <2>2, <4>1, Zenon
      <4>3. p[1] = q[1] /\ i = j
        BY <4>2
      <4> QED BY <4>3 DEF i, j
    <3>5. p[2] = q[2]
      BY <3>1, <3>4
    <3> QED BY <3>1, <3>4, <3>5
  <2>3. shift \in [RequestsUp' -> rest]
    <3> HIDE DEF rest
    <3> QED BY <2>1
  <2> QED BY <2>2, <2>3 DEF Injection, IsInjective
<1> HIDE DEF shift, rest
<1>5. IsFiniteSet(RequestsUp') /\ Cardinality(RequestsUp') <= Cardinality(rest)
  BY <1>2, <1>4, FS_Injection
<1>6. Cardinality(RequestsUp') \in Nat /\ Cardinality(rest) \in Nat
  BY <1>2, <1>5, FS_CardinalityType
<1> QED BY <1>2, <1>5, <1>6 DEF Flag

\* What a handler of the client sends is counted: a request it sends or queues
\* is the one it was given or had queued.
LEMMA ClientCounted ==
  ASSUME Basics, RequestsCounted, NEW o, Says(client, o), NEW given \in {0, 1},
         link' = [link EXCEPT ![conn].up = @ \o o.frames], client' = o.client,
         Flag(o.frames = <<"HELP_REQUEST">>) + Flag(o.client.requestQueued)
           <= Flag(client.requestQueued) + given
  PROVE  /\ IsFiniteSet(RequestsUp') /\ Cardinality(RequestsUp') \in Nat /\ Cardinality(RequestsUp) \in Nat
         /\ Cardinality(RequestsUp') + Flag(client'.requestQueued)
              <= Cardinality(RequestsUp) + Flag(client.requestQueued) + given
<1>0. IsFiniteSet(RequestsUp) /\ conn \in Conns /\ link[conn].up \in Seq(Frames)
  BY DEF RequestsCounted, Basics, TypeOK, Link
<1>1. /\ link'[conn].up = link[conn].up \o o.frames
      /\ \A c \in Conns : c # conn => link'[c] = link[c]
  BY FramesTyped
<1>2. CASE o.frames = <<>>
  <2>1. \A c \in Conns : link'[c].up \in {link[c].up, <<>>}
    BY <1>0, <1>1, <1>2, ConcatEmptySeq
  <2>2. /\ IsFiniteSet(RequestsUp') /\ Cardinality(RequestsUp') \in Nat /\ Cardinality(RequestsUp) \in Nat
        /\ Cardinality(RequestsUp') <= Cardinality(RequestsUp)
    BY <1>0, <2>1, UpsShrink
  <2> QED BY <2>2 DEF Flag
<1>3. CASE o.frames # <<>>
  <2>1. PICK x \in Frames : o.frames = <<x>>
    BY <1>3 DEF Says, Frames
  <2>2. link'[conn].up = Append(link[conn].up, x)
    BY <1>0, <1>1, <2>1, AppendIsConcat
  <2>3. /\ IsFiniteSet(RequestsUp') /\ Cardinality(RequestsUp') \in Nat /\ Cardinality(RequestsUp) \in Nat
        /\ Cardinality(RequestsUp') <= Cardinality(RequestsUp) + Flag(x = "HELP_REQUEST")
    BY <1>0, <1>1, <2>2, UpsSent
  <2>4. o.frames = <<"HELP_REQUEST">> <=> x = "HELP_REQUEST"
    BY <2>1
  <2> QED BY <2>3, <2>4 DEF Flag
<1> QED BY <1>2, <1>3

LEMMA CountedCall ==
  ASSUME Basics, RequestsCounted, PageHearsCall
  PROVE  RequestsCounted'
<1> DEFINE open == phase = "open"
           o == IF Head(toPage) = "send-help-request" THEN SendHelpRequest(client, open)
                                                      ELSE SendHelpCancel(client, open)
           given == Flag(Head(toPage) = "send-help-request")
<1>0. /\ toPage \in Seq(Events) /\ toPage # <<>> /\ client \in Client /\ OneThing(client, open)
      /\ open \in BOOLEAN /\ asked \in Nat /\ entered \in Nat
  BY DEF Basics, TypeOK, PageHearsCall, OneThingQueued, OneThing
<1>1. Says(client, o) /\ OneThing(o.client, open)
  BY <1>0, RequestOutcome, CancelOutcome
<1>2. /\ link' = [link EXCEPT ![conn].up = @ \o o.frames] /\ client' = o.client
      /\ toPage' = Tail(toPage) /\ entered' = entered /\ asked' = asked
  BY DEF PageHearsCall, ClientStep, serverVars, countVars
<1>3. Flag(o.frames = <<"HELP_REQUEST">>) + Flag(o.client.requestQueued) <= given
  <2>1. CASE Head(toPage) = "send-help-request"
    <3>1. IF open THEN ~o.client.requestQueued ELSE o.frames = <<>>
      BY <1>0, <1>1, <2>1, RequestOutcome DEF OneThing
    <3>2. <<"HELP_REQUEST">> # <<>>
      OBVIOUS
    <3> HIDE DEF o
    <3>3. ~(o.frames = <<"HELP_REQUEST">> /\ o.client.requestQueued)
      <4>1. CASE open
        BY <3>1, <4>1
      <4>2. CASE ~open
        <5>1. o.frames = <<>>
          BY <3>1, <4>2
        <5> QED BY <3>2, <5>1
      <4> QED BY <4>1, <4>2
    <3> QED BY <2>1, <3>3 DEF Flag
  <2>2. CASE Head(toPage) # "send-help-request"
    <3>1. ~o.client.requestQueued /\ (o.frames = <<>> \/ o.frames = <<"HELP_CANCEL">>)
      BY <1>0, <2>2, CancelOutcome
    <3> HIDE DEF o
    <3>2. o.frames # <<"HELP_REQUEST">>
      BY <3>1
    <3> QED BY <2>2, <3>1, <3>2 DEF Flag
  <2> QED BY <2>1, <2>2
<1> HIDE DEF o
<1>4. given \in {0, 1} /\ Flag(client.requestQueued) \in {0, 1}
  BY DEF Flag
<1>5. Flag(o.frames = <<"HELP_REQUEST">>) + Flag(o.client.requestQueued) <= Flag(client.requestQueued) + given
  <2>1. Flag(o.frames = <<"HELP_REQUEST">>) \in {0, 1} /\ Flag(o.client.requestQueued) \in {0, 1}
    BY DEF Flag
  <2> HIDE DEF given
  <2> QED BY <1>3, <1>4, <2>1
<1> HIDE DEF given
<1>6. /\ IsFiniteSet(RequestsUp') /\ Cardinality(RequestsUp') \in Nat /\ Cardinality(RequestsUp) \in Nat
      /\ Cardinality(RequestsUp') + Flag(client'.requestQueued)
           <= Cardinality(RequestsUp) + Flag(client.requestQueued) + given
  BY <1>1, <1>2, <1>4, <1>5, ClientCounted
<1>7. /\ Cardinality(CallsUp) \in Nat /\ Cardinality(CallsUp') \in Nat
      /\ Cardinality(CallsUp') + given <= Cardinality(CallsUp)
  BY <1>0, <1>2, PlacesTakenOff DEF CallsUp, given, Flag
<1>8. Flag(client'.requestQueued) \in {0, 1}
  BY DEF Flag
<1>9. entered + Cardinality(RequestsUp) + Cardinality(CallsUp) + Flag(client.requestQueued) <= asked
  BY DEF RequestsCounted
<1>10. entered' + Cardinality(RequestsUp') + Cardinality(CallsUp') + Flag(client'.requestQueued) <= asked'
  <2>1. given \in Int /\ Flag(client.requestQueued) \in Int /\ Flag(client'.requestQueued) \in Int
    BY <1>4, <1>8
  <2> HIDE DEF open
  <2>2. Cardinality(RequestsUp') + Cardinality(CallsUp') + Flag(client'.requestQueued)
          <= Cardinality(RequestsUp) + Cardinality(CallsUp) + Flag(client.requestQueued)
    BY <1>6, <1>7, <2>1
  <2>3. entered' = entered /\ asked' = asked /\ entered \in Nat /\ asked \in Nat
    BY <1>0, <1>2
  <2> QED BY <1>6, <1>7, <1>9, <2>1, <2>2, <2>3
<1> QED BY <1>6, <1>10 DEF RequestsCounted

LEMMA CountedOpen ==
  ASSUME Basics, RequestsCounted, OnOpen
  PROVE  RequestsCounted'
<1> DEFINE o == Flush(client)
<1>0. /\ client \in Client /\ OneThing(client, FALSE) /\ asked \in Nat /\ entered \in Nat
      /\ toPage \in Seq(Events)
  BY DEF Basics, TypeOK, OneThingQueued, OneThing
<1>1. /\ Says(client, o) /\ ~o.client.requestQueued
      /\ o.frames = <<"HELP_REQUEST">> => client.requestQueued
  <2>1. /\ Says(client, o) /\ OneThing(o.client, TRUE)
        /\ o.client.outstanding <=> (client.requestQueued \/ (client.outstanding /\ ~client.cancelQueued))
        /\ IF client.requestQueued \/ client.cancelQueued THEN TRUE ELSE o.frames = <<>>
    BY <1>0, FlushOutcome
  <2> HIDE DEF o
  <2>2. o.frames = <<"HELP_REQUEST">> =>
          o.frames # <<>> /\ o.frames # <<"HELP_CANCEL">> /\ o.client.outstanding
    BY <2>1 DEF Says
  <2> QED BY <2>1, <2>2 DEF OneThing
<1>2. /\ link' = [link EXCEPT ![conn].up = @ \o o.frames] /\ client' = o.client
      /\ UNCHANGED <<toPage, entered, asked>>
  BY DEF OnOpen, ClientStep, serverVars, countVars
<1> HIDE DEF o
<1>3. Flag(o.frames = <<"HELP_REQUEST">>) + Flag(o.client.requestQueued) <= Flag(client.requestQueued) + 0
  BY <1>1 DEF Flag
<1>4. /\ IsFiniteSet(RequestsUp') /\ Cardinality(RequestsUp') \in Nat /\ Cardinality(RequestsUp) \in Nat
      /\ Cardinality(RequestsUp') + Flag(client'.requestQueued)
           <= Cardinality(RequestsUp) + Flag(client.requestQueued) + 0
  <2>1. 0 \in {0, 1}
    OBVIOUS
  <2> QED BY <1>1, <1>2, <1>3, <2>1, ClientCounted
<1>5. Cardinality(CallsUp) \in Nat /\ CallsUp' = CallsUp
  BY <1>0, <1>2, PlacesAppended DEF CallsUp, Events
<1>6. Flag(client'.requestQueued) \in {0, 1} /\ Flag(client.requestQueued) \in {0, 1}
  BY DEF Flag
<1> QED BY <1>0, <1>2, <1>4, <1>5, <1>6 DEF RequestsCounted

\* The other steps move no request towards the server, or one out of its link.
LEMMA CountedHost ==
  ASSUME Basics, RequestsCounted,
         IpcHelpRequest \/ IpcHelpCancel \/ ChangePreferences \/ PageHearsPreferences
  PROVE  RequestsCounted'
<1>0. /\ toPage \in Seq(Events) /\ Events = Calls \cup {"preferences-changed"}
      /\ asked \in Nat /\ entered \in Nat
  BY DEF Basics, TypeOK, Events, Calls
<1>1. UNCHANGED <<link, client, entered>>
  BY DEF IpcHelpRequest, IpcHelpCancel, ChangePreferences, PageHearsPreferences, pageVars, serverVars
<1>2. /\ IsFiniteSet(RequestsUp') /\ Cardinality(RequestsUp') \in Nat /\ Cardinality(RequestsUp) \in Nat
      /\ Cardinality(RequestsUp') <= Cardinality(RequestsUp)
  BY <1>1, UpsShrink DEF RequestsCounted
<1>3. /\ Cardinality(CallsUp) \in Nat /\ Cardinality(CallsUp') \in Nat
      /\ Cardinality(CallsUp') - asked' <= Cardinality(CallsUp) - asked /\ asked' \in Nat
  <2>1. CASE IpcHelpRequest
    BY <1>0, <2>1, PlacesAppended DEF IpcHelpRequest, CallsUp, Calls
  <2>2. CASE IpcHelpCancel
    BY <1>0, <2>2, PlacesAppended DEF IpcHelpCancel, CallsUp, Calls
  <2>3. CASE ChangePreferences
    BY <1>0, <2>3, PlacesAppended DEF ChangePreferences, CallsUp, Calls
  <2>4. CASE PageHearsPreferences
    BY <1>0, <2>4, PlacesTakenOff DEF PageHearsPreferences, CallsUp, Calls, countVars
  <2> QED BY <2>1, <2>2, <2>3, <2>4
<1>4. Flag(client.requestQueued) \in {0, 1} /\ Flag(client'.requestQueued) = Flag(client.requestQueued)
  BY <1>1 DEF Flag
<1> QED BY <1>0, <1>1, <1>2, <1>3, <1>4 DEF RequestsCounted

LEMMA CountedElse ==
  ASSUME Basics, RequestsCounted,
         \/ HostStep \/ ReplaceClient \/ Reconnect \/ OnHelpAcked \/ OnClose
         \/ (\E c \in Conns : OnCloseOfStopped(c) \/ Admit(c) \/ ServerCloses(c))
         \/ ConnectionFails \/ JudgeAcks \/ Restart \/ UNCHANGED vars
  PROVE  RequestsCounted'
<1>0. toPage \in Seq(Events) /\ asked \in Nat /\ entered \in Nat
      /\ link \in [Conns -> Link] /\ conn \in Conns /\ \A c \in Conns : link[c] \in Link
  BY DEF Basics, TypeOK
<1>1. UNCHANGED <<toPage, entered, asked>>
  BY DEF HostStep, IpcRequestReturns, HostHears, ReplaceClient, Reconnect, OnHelpAcked, OnClose, OnCloseOfStopped,
         Admit, ServerCloses, ConnectionFails, JudgeAcks, Restart, vars, countVars, serverVars
<1>2. Flag(client'.requestQueued) <= Flag(client.requestQueued)
  <2>1. client' = client \/ client' = NewClient
    BY BasicsAcked DEF HostStep, IpcRequestReturns, HostHears, ReplaceClient, Reconnect, OnClose, OnCloseOfStopped,
         Admit, ServerCloses, ConnectionFails, JudgeAcks, Restart, vars, pageVars
  <2> QED BY <2>1 DEF Flag, NewClient
<1>3. \A c \in Conns : link'[c].up \in {link[c].up, <<>>}
  <2>1. CASE ReplaceClient \/ Reconnect \/ OnHelpAcked
    BY <2>1, BasicsConnect, BasicsAcked
  <2>2. CASE HostStep \/ OnClose \/ (\E c \in Conns : OnCloseOfStopped(c)) \/ UNCHANGED vars
    <3>1. link' = link
      BY <2>2 DEF HostStep, IpcRequestReturns, HostHears, OnClose, OnCloseOfStopped, vars
    <3> QED BY <3>1
  <2>3. CASE ConnectionFails
    <3>1. /\ link'[conn] = [link[conn] EXCEPT !.acks = 0]
          /\ \A c \in Conns : c # conn => link'[c] = link[c]
      BY <1>0, <2>3 DEF ConnectionFails
    <3>2. link'[conn].up = link[conn].up
      BY <1>0, <3>1 DEF Link
    <3> QED BY <3>1, <3>2
  <2>4. CASE JudgeAcks
    <3>1. /\ link'[conn] = [link[conn] EXCEPT !.acks = @ + 1] \/ link'[conn] = link[conn]
          /\ \A c \in Conns : c # conn => link'[c] = link[c]
      BY <1>0, <2>4 DEF JudgeAcks
    <3>2. link'[conn].up = link[conn].up
      BY <1>0, <3>1 DEF Link
    <3> QED BY <3>1, <3>2
  <2>5. CASE Restart
    BY <1>0, <2>5 DEF Restart, NoLink
  <2>6. ASSUME NEW d \in Conns, Admit(d) PROVE \A c \in Conns : link'[c].up \in {link[c].up, <<>>}
    <3>1. /\ link'[d] = [link[d] EXCEPT !.server = "listening"]
          /\ \A c \in Conns : c # d => link'[c] = link[c]
      BY <1>0, <2>6 DEF Admit
    <3>2. link'[d].up = link[d].up
      BY <1>0, <3>1 DEF Link
    <3> QED BY <3>1, <3>2
  <2>7. ASSUME NEW d \in Conns, ServerCloses(d) PROVE \A c \in Conns : link'[c].up \in {link[c].up, <<>>}
    BY <1>0, <2>7 DEF ServerCloses, NoLink
  <2> QED BY <2>1, <2>2, <2>3, <2>4, <2>5, <2>6, <2>7
<1>4. /\ IsFiniteSet(RequestsUp') /\ Cardinality(RequestsUp') \in Nat /\ Cardinality(RequestsUp) \in Nat
      /\ Cardinality(RequestsUp') <= Cardinality(RequestsUp)
  BY <1>3, UpsShrink DEF RequestsCounted
<1>5. Cardinality(CallsUp) \in Nat /\ CallsUp' = CallsUp
  BY <1>0, <1>1, PlacesAppended DEF CallsUp, Events
<1>6. Flag(client'.requestQueued) \in {0, 1} /\ Flag(client.requestQueued) \in {0, 1}
  BY DEF Flag
<1> QED BY <1>0, <1>1, <1>2, <1>4, <1>5, <1>6 DEF RequestsCounted

LEMMA CountedHeard ==
  ASSUME Basics, RequestsCounted, NEW c \in Conns, FrameUnheard(c) \/ ServerHears(c)
  PROVE  RequestsCounted'
<1>0. toPage \in Seq(Events) /\ asked \in Nat /\ entered \in Nat /\ IsFiniteSet(RequestsUp)
      /\ link \in [Conns -> Link] /\ link[c] \in Link /\ link[c].up \in Seq(Frames) /\ link[c].up # <<>>
  BY DEF Basics, TypeOK, Link, RequestsCounted, FrameUnheard, ServerHears
<1> DEFINE u == Tail(link[c].up)
<1>1. UNCHANGED <<toPage, client, asked>> /\ link' = [link EXCEPT ![c].up = u]
  BY DEF FrameUnheard, ServerHears, pageVars, countVars
<1>2. entered' <= entered + Flag(Head(link[c].up) = "HELP_REQUEST") /\ entered' \in Nat
  <2>1. CASE FrameUnheard(c)
    BY <1>0, <2>1 DEF FrameUnheard, serverVars, Flag
  <2>2. CASE ServerHears(c)
    <3>1. /\ entered' = entered \/ (inQueue' /\ entered' = entered + 1)
          /\ inQueue' = (Head(link[c].up) = "HELP_REQUEST")
      BY <2>2 DEF ServerHears
    <3>2. CASE entered' = entered
      BY <1>0, <3>2 DEF Flag
    <3>3. CASE inQueue' /\ entered' = entered + 1
      <4>1. Head(link[c].up) = "HELP_REQUEST"
        BY <3>1, <3>3, Zenon
      <4> QED BY <1>0, <3>3, <4>1 DEF Flag
    <3> QED BY <3>1, <3>2, <3>3
  <2> QED BY <2>1, <2>2
<1>3. link'[c].up = u /\ \A d \in Conns : d # c => link'[d] = link[d]
  <2> HIDE DEF u
  <2>1. link'[c] = [link[c] EXCEPT !.up = u] /\ \A d \in Conns : d # c => link'[d] = link[d]
    BY <1>0, <1>1
  <2> QED BY <1>0, <2>1 DEF Link
<1>4. /\ IsFiniteSet(RequestsUp') /\ Cardinality(RequestsUp') \in Nat /\ Cardinality(RequestsUp) \in Nat
      /\ Cardinality(RequestsUp') + Flag(Head(link[c].up) = "HELP_REQUEST") <= Cardinality(RequestsUp)
  BY <1>0, <1>3, UpsHeard
<1>5. Cardinality(CallsUp) \in Nat /\ CallsUp' = CallsUp
  <2>1. toPage' = toPage /\ "send-help-cancel" \in Events
    BY <1>1 DEF Events
  <2> QED BY <1>0, <2>1, PlacesAppended DEF CallsUp
<1>6. Flag(client'.requestQueued) = Flag(client.requestQueued) /\ Flag(client.requestQueued) \in {0, 1}
      /\ Flag(Head(link[c].up) = "HELP_REQUEST") \in {0, 1}
  BY <1>1 DEF Flag
<1> QED BY <1>0, <1>1, <1>2, <1>4, <1>5, <1>6 DEF RequestsCounted

\* However connections fail, clients are replaced and queued frames flushed,
\* the contestant never enters the queue more often than they asked.
THEOREM NeverMoreThanTheyAsked == Spec => []NeverMoreThanAsked
<1>1. Init => Basics /\ RequestsCounted
  <2> SUFFICES ASSUME Init PROVE RequestsCounted
    BY BasicsInit
  <2>1. RequestsUp = {} /\ CallsUp = {}
    BY DEF Init, NoLink, RequestsUp, CallsUp, PlacesOf
  <2> QED BY <2>1, FS_EmptySet DEF Init, RequestsCounted, Flag, NewClient
<1>2. Basics /\ RequestsCounted /\ [Next]_vars => Basics' /\ RequestsCounted'
  BY BasicsHold, CountedCall, CountedOpen, CountedHost, CountedElse, CountedHeard DEF Next, PageStep, ServerStep
<1>3. Basics /\ RequestsCounted => NeverMoreThanAsked
  <2> SUFFICES ASSUME Basics, RequestsCounted PROVE entered <= asked
    BY DEF NeverMoreThanAsked
  <2>1. asked \in Nat /\ entered \in Nat /\ toPage \in Seq(Events)
    BY DEF Basics, TypeOK
  <2>2. Cardinality(RequestsUp) \in Nat /\ Cardinality(CallsUp) \in Nat
    BY <2>1, FS_CardinalityType, PlacesAppended DEF RequestsCounted, CallsUp, Events
  <2>3. Flag(client.requestQueued) \in {0, 1}
    BY DEF Flag
  <2> QED BY <2>1, <2>2, <2>3 DEF RequestsCounted
<1> QED BY <1>1, <1>2, <1>3, PTL DEF Spec
====
