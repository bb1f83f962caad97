----------------------------- MODULE Desktop_proofs -----------------------------
(***************************************************************************)
(* What the overlay's backend keeps, for any corners, files and bounds: its  *)
(* copies of the visibility, the corner and the preferences, in its windows, *)
(* on disk and on the page (module Desktop), and the place of its window     *)
(* (module Placement, instantiated below).                                   *)
(*                                                                         *)
(* Desktop: two threads and a page each hold a copy and a part of a change.  *)
(* The invariant says, for each copy, what it is going to be once the steps  *)
(* the thread has left are taken and the events on their way have been       *)
(* heard; whatever is changed alone comes out right.                         *)
(* Placement: whatever a placement went by, the step that moves the window   *)
(* knows whether the window is where it should be; the invariant says what   *)
(* the later steps of a reposition make of that.                             *)
(***************************************************************************)
EXTENDS Desktop, PlacementState, SequenceTheorems, TLAPS

CONSTANTS Sizes, Reassertions, MaxItems, MaxLayouts
VARIABLES size, layout, seen, items
P == INSTANCE Placement

\* The steps of the operations and their number.
LEMMA Steps ==
  /\ Program["show"][1] = "write" /\ Program["show"][2] = "window" /\ Program["show"][3] = "emit"
  /\ Program["show"][4] = "label" /\ Program["show"][5] = "persist" /\ Program["show"][6] = "tell"
  /\ Len(Program["show"]) = 6
  /\ Program["hide"][1] = "write" /\ Program["hide"][2] = "window" /\ Program["hide"][3] = "emit"
  /\ Program["hide"][4] = "label" /\ Program["hide"][5] = "persist" /\ Program["hide"][6] = "tell"
  /\ Len(Program["hide"]) = 6
  /\ Program["toggle"][1] = "read" /\ Program["toggle"][2] = "write" /\ Program["toggle"][3] = "window"
  /\ Program["toggle"][4] = "emit" /\ Program["toggle"][5] = "label" /\ Program["toggle"][6] = "persist"
  /\ Program["toggle"][7] = "tell" /\ Len(Program["toggle"]) = 7
  /\ Program["move"][1] = "emit" /\ Program["move"][2] = "persist" /\ Program["move"][3] = "tell"
  /\ Len(Program["move"]) = 3
  /\ Program["setting"][1] = "persist" /\ Program["setting"][2] = "tell" /\ Len(Program["setting"]) = 2
<1>1. Program["show"] = <<"write", "window", "emit", "label", "persist", "tell">>
  BY DEF Program, Show
<1>2. Program["hide"] = <<"write", "window", "emit", "label", "persist", "tell">>
  BY DEF Program, Show
<1>6. Program["toggle"] = <<"read">> \o Show
  BY DEF Program
<1> DEFINE names == {"write", "window", "emit", "label", "persist", "tell", "read"}
<1>7. /\ Show \in Seq(names) /\ Len(Show) = 6
      /\ <<"read">> \in Seq(names)
  BY DEF Show
<1>9. \A s1, s2 \in Seq(names) :
        /\ Len(s1 \o s2) = Len(s1) + Len(s2)
        /\ \A i \in 1..(Len(s1) + Len(s2)) : (s1 \o s2)[i] = IF i <= Len(s1) THEN s1[i] ELSE s2[i - Len(s1)]
  BY ConcatProperties
<1>10. /\ Len(<<"read">> \o Show) = 7
       /\ \A i \in 1..7 : (<<"read">> \o Show)[i] = IF i <= 1 THEN <<"read">>[i] ELSE Show[i - 1]
  <2>1. Len(<<"read">>) = 1 /\ <<"read">> \in Seq(names)
    OBVIOUS
  <2>2. /\ Len(<<"read">> \o Show) = 1 + 6
        /\ \A i \in 1..(1 + 6) : (<<"read">> \o Show)[i] = IF i <= 1 THEN <<"read">>[i] ELSE Show[i - 1]
    BY <1>7, <1>9, <2>1
  <2> QED BY <2>2
<1>8. /\ Len(Program["toggle"]) = 7 /\ Program["toggle"][1] = "read"
      /\ \A i \in 2..7 : Program["toggle"][i] = Show[i - 1]
  BY <1>6, <1>10
<1>3. /\ Len(Program["toggle"]) = 7 /\ Program["toggle"][1] = "read"
      /\ Program["toggle"][2] = "write" /\ Program["toggle"][3] = "window"
      /\ Program["toggle"][4] = "emit" /\ Program["toggle"][5] = "label"
      /\ Program["toggle"][6] = "persist" /\ Program["toggle"][7] = "tell"
  BY <1>8 DEF Show
<1>4. Program["move"] = <<"emit", "persist", "tell">>
  BY DEF Program, Show
<1>5. Program["setting"] = <<"persist", "tell">>
  BY DEF Program, Show
<1> QED BY <1>1, <1>2, <1>3, <1>4, <1>5

\* The thread changes the visibility.
ShowOps == {"show", "hide", "toggle"}
Showing(t) == th[t].do \in ShowOps

\* How far a visibility change is: 0 before it knows the value, 1 before "write" ...
Stage(t) == IF th[t].do = "toggle" THEN th[t].k - 1 ELSE th[t].k

\* A thread is at a step of its program.
WithinProgram(t) ==
  \/ IsIdle(t)
  \/ th[t].do \in {"show", "hide"} /\ th[t].k \in 1..6
  \/ th[t].do = "toggle" /\ th[t].k \in 1..7
  \/ th[t].do = "move" /\ th[t].k \in 1..3
  \/ th[t].do = "setting" /\ th[t].k \in 1..2

\* At which stage a thread is that is about to take a step of this name.
LEMMA WhereItIs ==
  ASSUME NEW t \in Threads, WithinProgram(t)
  PROVE  /\ At(t, "read") <=> th[t].do = "toggle" /\ Stage(t) = 0
         /\ At(t, "write") <=> Showing(t) /\ Stage(t) = 1
         /\ At(t, "window") <=> Showing(t) /\ Stage(t) = 2
         /\ At(t, "emit") <=> (Showing(t) /\ Stage(t) = 3) \/ (th[t].do = "move" /\ th[t].k = 1)
         /\ At(t, "label") <=> Showing(t) /\ Stage(t) = 4
         /\ At(t, "persist") <=> (Showing(t) /\ Stage(t) = 5)
                \/ (th[t].do = "move" /\ th[t].k = 2) \/ (th[t].do = "setting" /\ th[t].k = 1)
         /\ At(t, "tell") <=> ~IsIdle(t) /\ th[t].k = Len(Program[th[t].do])
         /\ At(t, "tell") <=> (Showing(t) /\ Stage(t) = 6)
                \/ (th[t].do = "move" /\ th[t].k = 3) \/ (th[t].do = "setting" /\ th[t].k = 2)
<1> USE Steps, DesktopAssumption DEF At, Showing, ShowOps, Stage, IsIdle
<1>0. CASE IsIdle(t) BY <1>0
<1>1. CASE th[t].do = "show" /\ th[t].k = 1 BY <1>1
<1>2. CASE th[t].do = "show" /\ th[t].k = 2 BY <1>2
<1>3. CASE th[t].do = "show" /\ th[t].k = 3 BY <1>3
<1>4. CASE th[t].do = "show" /\ th[t].k = 4 BY <1>4
<1>5. CASE th[t].do = "show" /\ th[t].k = 5 BY <1>5
<1>6. CASE th[t].do = "show" /\ th[t].k = 6 BY <1>6
<1>7. CASE th[t].do = "hide" /\ th[t].k = 1 BY <1>7
<1>8. CASE th[t].do = "hide" /\ th[t].k = 2 BY <1>8
<1>9. CASE th[t].do = "hide" /\ th[t].k = 3 BY <1>9
<1>10. CASE th[t].do = "hide" /\ th[t].k = 4 BY <1>10
<1>11. CASE th[t].do = "hide" /\ th[t].k = 5 BY <1>11
<1>12. CASE th[t].do = "hide" /\ th[t].k = 6 BY <1>12
<1>13. CASE th[t].do = "toggle" /\ th[t].k = 1 BY <1>13
<1>14. CASE th[t].do = "toggle" /\ th[t].k = 2 BY <1>14
<1>15. CASE th[t].do = "toggle" /\ th[t].k = 3 BY <1>15
<1>16. CASE th[t].do = "toggle" /\ th[t].k = 4 BY <1>16
<1>17. CASE th[t].do = "toggle" /\ th[t].k = 5 BY <1>17
<1>18. CASE th[t].do = "toggle" /\ th[t].k = 6 BY <1>18
<1>19. CASE th[t].do = "toggle" /\ th[t].k = 7 BY <1>19
<1>20. CASE th[t].do = "move" /\ th[t].k = 1 BY <1>20
<1>21. CASE th[t].do = "move" /\ th[t].k = 2 BY <1>21
<1>22. CASE th[t].do = "move" /\ th[t].k = 3 BY <1>22
<1>23. CASE th[t].do = "setting" /\ th[t].k = 1 BY <1>23
<1>24. CASE th[t].do = "setting" /\ th[t].k = 2 BY <1>24
<1> HIDE DEF At, Showing, Stage
<1>25. \A k \in Nat : (k \in 1..2 => k = 1 \/ k = 2) /\ (k \in 1..3 => k = 1 \/ k = 2 \/ k = 3)
      /\ (k \in 1..6 => k = 1 \/ k = 2 \/ k = 3 \/ k = 4 \/ k = 5 \/ k = 6)
      /\ (k \in 1..7 => k = 1 \/ k = 2 \/ k = 3 \/ k = 4 \/ k = 5 \/ k = 6 \/ k = 7)
  OBVIOUS
<1>26. CASE th[t].do = "show" /\ th[t].k \in 1..6
  BY <1>26, <1>1, <1>2, <1>3, <1>4, <1>5, <1>6
<1>27. CASE th[t].do = "hide" /\ th[t].k \in 1..6
  BY <1>27, <1>7, <1>8, <1>9, <1>10, <1>11, <1>12
<1>28. CASE th[t].do = "toggle" /\ th[t].k \in 1..7
  BY <1>28, <1>13, <1>14, <1>15, <1>16, <1>17, <1>18, <1>19
<1>29. CASE th[t].do = "move" /\ th[t].k \in 1..3
  BY <1>29, <1>20, <1>21, <1>22
<1>30. CASE th[t].do = "setting" /\ th[t].k \in 1..2
  BY <1>30, <1>23, <1>24
<1> QED BY <1>0, <1>26, <1>27, <1>28, <1>29, <1>30 DEF WithinProgram

----------------------------------------------------------------------------
\* Before its last step, which tells the page of the preferences.
Telling(t) == \/ Showing(t) /\ Stage(t) = 6
              \/ th[t].do = "move" /\ th[t].k = 3
              \/ th[t].do = "setting" /\ th[t].k = 2

\* The types.
Topics == {"visible", "corner", "prefs"}
Values == BOOLEAN \cup Corners \cup Prefs \cup {None}
Event == [topic : Topics, value : Values]
Operation == [do : {None, "show", "hide", "toggle", "move", "setting"}, k : Nat,
              to : Values, was : Prefs \cup {None}]
PageState == [listening : BOOLEAN, asked : BOOLEAN, reply : Prefs \cup {None}, loaded : BOOLEAN,
              visible : Values, corner : Values, prefs : Values]

ThreadsTyped ==
  /\ th \in [Threads -> Operation]
  /\ \A t \in Threads :
       /\ WithinProgram(t)
       /\ Showing(t) /\ Stage(t) # 0 => th[t].to \in BOOLEAN
       /\ th[t].do = "move" => th[t].to \in Corners
       /\ Telling(t) => th[t].was \in Prefs

DesktopTypes ==
  /\ running \in BOOLEAN /\ ready \in BOOLEAN /\ visible \in BOOLEAN
  /\ prefs \in Prefs /\ file \in [kind : Kinds, prefs : Prefs]
  /\ ThreadsTyped
  /\ page \in PageState /\ bus \in Seq(Event)
  /\ alone \in [Copies -> BOOLEAN]
  \* only a page that has asked has an answer, and it takes one
  /\ page.loaded => page.asked /\ page.reply = None
  /\ page.reply # None => page.asked
  /\ ~running => page = NoPage /\ bus = <<>> /\ ~ready /\ \A t \in Threads : IsIdle(t)

\* The last event of the topic on its way to the page carries the value.
LastIs(events, topic, value) ==
  \E i \in 1..Len(events) :
    /\ events[i].topic = topic /\ events[i].value = value
    /\ \A j \in (i + 1)..Len(events) : events[j].topic # topic
NoneOf(events, topic) == \A i \in 1..Len(events) : events[i].topic # topic

\* What the page's copy becomes once it has all that is under way: the answer of
\* get_bootstrap first, and then the events.
PageGets(topic, copy, answered, value) ==
  /\ PageReady => LastIs(bus, topic, value) \/ (NoneOf(bus, topic) /\ copy = value)
  /\ ~PageReady => /\ NoneOf(bus, topic)
                   /\ page.loaded => copy = value
                   /\ page.reply # None => answered = value

\* The page ends up with this visibility, corner, preferences.
VisibleReaches(v) == PageGets("visible", page.visible, ~page.reply.hidden, v)
CornerReaches(c) == PageGets("corner", page.corner, page.reply.corner, c)
PrefsReach(p) == PageGets("prefs", page.prefs, page.reply, p)

\* A visibility change alone brings the copies to its value one by one.
VisibilityFollows ==
  running /\ alone["shown"] =>
    /\ (\A t \in Threads : ~Showing(t)) =>
          shown = visible /\ label = visible /\ prefs.hidden = ~visible /\ VisibleReaches(visible)
    /\ \A t \in Threads : Showing(t) =>
          /\ ready /\ PageReady
          /\ \A u \in Threads : Showing(u) => u = t
          /\ Stage(t) >= 2 => visible = th[t].to
          /\ Stage(t) >= 3 => shown = th[t].to
          /\ Stage(t) >= 4 => VisibleReaches(th[t].to)
          /\ Stage(t) >= 5 => label = th[t].to
          /\ Stage(t) >= 6 => prefs.hidden = ~th[t].to

\* So does a change of the corner,
CornerFollows ==
  running /\ alone["corner"] =>
    /\ (\A t \in Threads : th[t].do # "move") => CornerReaches(prefs.corner)
    /\ \A t \in Threads : th[t].do = "move" =>
          /\ PageReady
          /\ \A u \in Threads : th[u].do = "move" => u = t
          /\ th[t].k >= 2 => CornerReaches(th[t].to)
          /\ th[t].k >= 3 => prefs.corner = th[t].to

\* and the preferences, which every operation stores and tells.
PrefsFollow ==
  running /\ alone["prefs"] =>
    /\ (\A t \in Threads : IsIdle(t)) => PrefsReach(prefs)
    /\ \A t \in Threads : ~IsIdle(t) =>
          /\ PageReady
          /\ \A u \in Threads : ~IsIdle(u) => u = t
          /\ Telling(t) => th[t].was = prefs

\* The inductive invariant.
DesktopInv == /\ DesktopTypes /\ FileHoldsEveryChoice
              /\ VisibilityFollows /\ CornerFollows /\ PrefsFollow

----------------------------------------------------------------------------
\* Events on their way.
LEMMA AppendedIsLast ==
  ASSUME NEW s \in Seq(Event), NEW e \in Event
  PROVE  LastIs(Append(s, e), e.topic, e.value)
<1>1. Len(Append(s, e)) = Len(s) + 1 /\ Append(s, e)[Len(s) + 1] = e /\ Len(s) \in Nat
  OBVIOUS
<1>2. Len(s) + 1 \in 1..Len(Append(s, e)) /\ (Len(s) + 2)..Len(Append(s, e)) = {}
  BY <1>1
<1> QED BY <1>1, <1>2 DEF LastIs

\* An event of another topic leaves the last one of this topic.
LEMMA AppendedOther ==
  ASSUME NEW s \in Seq(Event), NEW e \in Event, NEW topic, e.topic # topic
  PROVE  /\ \A v : LastIs(s, topic, v) => LastIs(Append(s, e), topic, v)
         /\ NoneOf(s, topic) => NoneOf(Append(s, e), topic)
<1>1. /\ Len(Append(s, e)) = Len(s) + 1 /\ Append(s, e)[Len(s) + 1] = e /\ Len(s) \in Nat
      /\ \A i \in 1..Len(s) : Append(s, e)[i] = s[i]
  OBVIOUS
<1>2. ASSUME NEW v, LastIs(s, topic, v) PROVE LastIs(Append(s, e), topic, v)
  <2>1. PICK i \in 1..Len(s) : /\ s[i].topic = topic /\ s[i].value = v
                               /\ \A j \in (i + 1)..Len(s) : s[j].topic # topic
    BY <1>2 DEF LastIs
  <2>2. i \in 1..Len(Append(s, e)) /\ Append(s, e)[i] = s[i]
    BY <1>1
  <2>3. ASSUME NEW j \in (i + 1)..Len(Append(s, e)) PROVE Append(s, e)[j].topic # topic
    BY <1>1, <2>1
  <2> QED BY <2>1, <2>2, <2>3 DEF LastIs
<1>3. ASSUME NoneOf(s, topic), NEW i \in 1..Len(Append(s, e)) PROVE Append(s, e)[i].topic # topic
  BY <1>1, <1>3 DEF NoneOf
<1> QED BY <1>2, <1>3 DEF NoneOf

\* The page hears the first event.
LEMMA TakenOff ==
  ASSUME NEW s \in Seq(Event), s # <<>>, NEW topic
  PROVE  /\ \A v : LastIs(s, topic, v) =>
               \/ LastIs(Tail(s), topic, v)
               \/ NoneOf(Tail(s), topic) /\ Head(s).topic = topic /\ Head(s).value = v
         /\ NoneOf(s, topic) => NoneOf(Tail(s), topic) /\ Head(s).topic # topic
<1>1. /\ Len(Tail(s)) = Len(s) - 1 /\ Head(s) = s[1] /\ Len(s) \in Nat \ {0}
      /\ \A i \in 1..Len(Tail(s)) : Tail(s)[i] = s[i + 1]
  OBVIOUS
<1>2. ASSUME NEW v, LastIs(s, topic, v), ~LastIs(Tail(s), topic, v)
      PROVE  NoneOf(Tail(s), topic) /\ Head(s).topic = topic /\ Head(s).value = v
  <2>1. PICK i \in 1..Len(s) : /\ s[i].topic = topic /\ s[i].value = v
                               /\ \A j \in (i + 1)..Len(s) : s[j].topic # topic
    BY <1>2 DEF LastIs
  <2>2. CASE i = 1
    BY <1>1, <2>1, <2>2 DEF NoneOf
  <2>3. CASE i # 1
    <3>1. i - 1 \in 1..Len(Tail(s)) /\ Tail(s)[i - 1] = s[i]
      BY <1>1, <2>3
    <3>2. ASSUME NEW j \in ((i - 1) + 1)..Len(Tail(s)) PROVE Tail(s)[j].topic # topic
      BY <1>1, <2>1, <2>3
    <3> QED BY <1>2, <2>1, <3>1, <3>2 DEF LastIs
  <2> QED BY <2>2, <2>3
<1>3. ASSUME NoneOf(s, topic) PROVE NoneOf(Tail(s), topic) /\ Head(s).topic # topic
  BY <1>1, <1>3 DEF NoneOf
<1> QED BY <1>2, <1>3

\* A step that sends the page nothing, or an event of another topic.
SentOther(topic) == \/ bus' = bus
                    \/ \E e \in Event : e.topic # topic /\ bus' = Append(bus, e)

\* Such a step does not change what the page ends up with.
LEMMA StillReach ==
  ASSUME DesktopTypes, UNCHANGED page
  PROVE  /\ SentOther("visible") => \A v : VisibleReaches(v) => VisibleReaches(v)'
         /\ SentOther("corner") => \A c : CornerReaches(c) => CornerReaches(c)'
         /\ SentOther("prefs") => \A p : PrefsReach(p) => PrefsReach(p)'
         /\ PageReady' <=> PageReady
<1>1. ASSUME NEW topic, SentOther(topic)
      PROVE  /\ \A v : LastIs(bus, topic, v) => LastIs(bus', topic, v)
             /\ NoneOf(bus, topic) => NoneOf(bus', topic)
  BY <1>1, AppendedOther DEF SentOther, DesktopTypes
<1>2. PageReady' <=> PageReady
  BY DEF PageReady
<1>3. SentOther("visible") => \A v : VisibleReaches(v) => VisibleReaches(v)'
  BY <1>1, <1>2 DEF VisibleReaches, PageGets
<1>4. SentOther("corner") => \A c : CornerReaches(c) => CornerReaches(c)'
  BY <1>1, <1>2 DEF CornerReaches, PageGets
<1>5. SentOther("prefs") => \A p : PrefsReach(p) => PrefsReach(p)'
  BY <1>1, <1>2 DEF PrefsReach, PageGets
<1> QED BY <1>2, <1>3, <1>4, <1>5

----------------------------------------------------------------------------
\* A thread's steps.
Onward(t) == [do |-> th[t].do, k |-> th[t].k + 1, to |-> th[t].to, was |-> th[t].was]

\* Advance, as a record.
LEMMA AdvancedIs ==
  ASSUME NEW r \in Operation
  PROVE  Advanced(r) = IF r.k = Len(Program[r.do]) THEN Idle
                       ELSE [do |-> r.do, k |-> r.k + 1, to |-> r.to, was |-> r.was]
BY DEF Advanced, Operation

LEMMA StepsOn ==
  ASSUME DesktopTypes, NEW t \in Threads, ~IsIdle(t)
  PROVE  Advanced(th[t]) = IF At(t, "tell") THEN Idle ELSE Onward(t)
<1>1. th[t] \in Operation /\ WithinProgram(t)
  BY DEF DesktopTypes, ThreadsTyped
<1>2. At(t, "tell") <=> th[t].k = Len(Program[th[t].do])
  BY <1>1, WhereItIs
<1> QED BY <1>1, <1>2, AdvancedIs DEF Onward

LEMMA OneThread ==
  ASSUME DesktopTypes, NEW t \in Threads, NEW r \in Operation, th' = [th EXCEPT ![t] = r]
  PROVE  /\ th' \in [Threads -> Operation] /\ th'[t] = r
         /\ \A u \in Threads \ {t} : th'[u] = th[u]
BY DEF DesktopTypes, ThreadsTyped

\* The other thread is where it was.
LEMMA OthersStay ==
  ASSUME NEW u, th'[u] = th[u]
  PROVE  /\ (IsIdle(u)' <=> IsIdle(u)) /\ (Showing(u)' <=> Showing(u)) /\ Stage(u)' = Stage(u)
         /\ (WithinProgram(u)' <=> WithinProgram(u)) /\ (Telling(u)' <=> Telling(u))
BY DEF IsIdle, Showing, Stage, WithinProgram, Telling

\* A thread that is not at its last step stays in its operation,
LEMMA GoesOn ==
  ASSUME DesktopTypes, NEW t \in Threads, ~IsIdle(t), ~At(t, "tell"),
         th'[t].do = th[t].do, th'[t].k = th[t].k + 1
  PROVE  /\ ~IsIdle(t)' /\ (Showing(t)' <=> Showing(t)) /\ Stage(t)' = Stage(t) + 1
         /\ WithinProgram(t)' /\ (Telling(t)' => At(t, "persist"))
<1>1. th[t] \in Operation /\ WithinProgram(t)
  BY DEF DesktopTypes, ThreadsTyped
<1>2. ~IsIdle(t)' /\ (Showing(t)' <=> Showing(t)) /\ Stage(t)' = Stage(t) + 1
  BY <1>1 DEF IsIdle, Showing, Stage, Operation
<1>3. WithinProgram(t)'
  <2>1. ~(\/ (Showing(t) /\ Stage(t) = 6)
          \/ (th[t].do = "move" /\ th[t].k = 3) \/ (th[t].do = "setting" /\ th[t].k = 2))
    BY <1>1, WhereItIs
  <2>2. th[t].k \in Nat
    BY <1>1 DEF Operation
  <2>3. CASE th[t].do \in {"show", "hide"} /\ th[t].k \in 1..6
    <3>1. th[t].k # 6
      BY <2>1, <2>3 DEF Showing, ShowOps, Stage
    <3> QED BY <2>2, <2>3, <3>1 DEF WithinProgram
  <2>4. CASE th[t].do = "toggle" /\ th[t].k \in 1..7
    <3>1. th[t].k # 7
      BY <2>1, <2>4 DEF Showing, ShowOps, Stage
    <3> QED BY <2>2, <2>4, <3>1 DEF WithinProgram
  <2>5. CASE th[t].do = "move" /\ th[t].k \in 1..3
    BY <2>1, <2>2, <2>5 DEF WithinProgram
  <2>6. CASE th[t].do = "setting" /\ th[t].k \in 1..2
    BY <2>1, <2>2, <2>6 DEF WithinProgram
  <2> QED BY <1>1, <2>3, <2>4, <2>5, <2>6 DEF WithinProgram
<1>4. ASSUME Telling(t)' PROVE At(t, "persist")
  <2>0. th[t].k \in Nat /\ Stage(t) \in Int
    BY <1>1 DEF Operation, Stage
  <2>1. \/ Showing(t) /\ Stage(t) = 5
        \/ th[t].do = "move" /\ th[t].k = 2
        \/ th[t].do = "setting" /\ th[t].k = 1
    BY <1>2, <1>4, <2>0 DEF Telling
  <2> QED BY <1>1, <2>1, WhereItIs
<1> QED BY <1>2, <1>3, <1>4

\* and well typed,
LEMMA ThreadGoesOn ==
  ASSUME DesktopTypes, NEW t \in Threads, ~IsIdle(t), ~At(t, "tell"),
         NEW r \in Operation, th' = [th EXCEPT ![t] = r], r.do = th[t].do, r.k = th[t].k + 1,
         Showing(t) => r.to \in BOOLEAN, r.do = "move" => r.to \in Corners,
         At(t, "persist") => r.was \in Prefs
  PROVE  ThreadsTyped'
<1>1. /\ th' \in [Threads -> Operation] /\ th'[t] = r
      /\ \A u \in Threads \ {t} : th'[u] = th[u]
  BY OneThread
<1>2. ASSUME NEW u \in Threads
      PROVE  /\ WithinProgram(u)'
             /\ (Showing(u) /\ Stage(u) # 0)' => th'[u].to \in BOOLEAN
             /\ th'[u].do = "move" => th'[u].to \in Corners
             /\ Telling(u)' => th'[u].was \in Prefs
  <2>1. CASE u = t
    BY <1>1, <2>1, GoesOn
  <2>2. CASE u # t
    BY <1>1, <2>2, OthersStay DEF DesktopTypes, ThreadsTyped
  <2> QED BY <2>1, <2>2
<1> QED BY <1>1, <1>2 DEF ThreadsTyped

\* and one that is becomes idle.
LEMMA ThreadEnds ==
  ASSUME DesktopTypes, NEW t \in Threads, th' = [th EXCEPT ![t] = Idle]
  PROVE  ThreadsTyped' /\ IsIdle(t)' /\ ~Showing(t)' /\ th'[t] = Idle
<1>0. Idle \in Operation
  BY DEF Idle, Operation, Values
<1>1. /\ th' \in [Threads -> Operation] /\ th'[t] = Idle
      /\ \A u \in Threads \ {t} : th'[u] = th[u]
  BY <1>0, OneThread
<1>2. IsIdle(t)' /\ ~Showing(t)' /\ ~Telling(t)' /\ th'[t].do # "move" /\ WithinProgram(t)'
  BY <1>1, DesktopAssumption DEF IsIdle, Idle, Showing, ShowOps, Telling, WithinProgram
<1>3. ASSUME NEW u \in Threads
      PROVE  /\ WithinProgram(u)'
             /\ (Showing(u) /\ Stage(u) # 0)' => th'[u].to \in BOOLEAN
             /\ th'[u].do = "move" => th'[u].to \in Corners
             /\ Telling(u)' => th'[u].was \in Prefs
  <2>1. CASE u = t
    BY <1>2, <2>1
  <2>2. CASE u # t
    BY <1>1, <2>2, OthersStay DEF DesktopTypes, ThreadsTyped
  <2> QED BY <2>1, <2>2
<1> QED BY <1>1, <1>2, <1>3 DEF ThreadsTyped

\* Steps that have nothing to do with visibility, the corner.
LEMMA VisibilityUntouched ==
  ASSUME DesktopInv, UNCHANGED <<running, ready, page, visible, shown, label>>,
         alone'["shown"] => alone["shown"], prefs'.hidden = prefs.hidden, SentOther("visible"),
         \A u \in Threads : /\ (Showing(u)' <=> Showing(u))
                            /\ Showing(u) => Stage(u)' = Stage(u) /\ th'[u].to = th[u].to
  PROVE  VisibilityFollows'
<1>1. (PageReady' <=> PageReady) /\ \A v : VisibleReaches(v) => VisibleReaches(v)'
  BY StillReach DEF DesktopInv
<1>2. VisibilityFollows
  BY DEF DesktopInv
<1> QED BY <1>1, <1>2 DEF VisibilityFollows

LEMMA CornerUntouched ==
  ASSUME DesktopInv, UNCHANGED <<running, page>>,
         alone'["corner"] => alone["corner"], prefs'.corner = prefs.corner, SentOther("corner"),
         \A u \in Threads : /\ (th'[u].do = "move" <=> th[u].do = "move")
                            /\ th[u].do = "move" => th'[u].k = th[u].k /\ th'[u].to = th[u].to
  PROVE  CornerFollows'
<1>1. (PageReady' <=> PageReady) /\ \A c : CornerReaches(c) => CornerReaches(c)'
  BY StillReach DEF DesktopInv
<1>2. CornerFollows
  BY DEF DesktopInv
<1> QED BY <1>1, <1>2 DEF CornerFollows

\* A step on the way of an operation, whose preferences are not told yet.
LEMMA PrefsOnTheWay ==
  ASSUME DesktopInv, NEW t \in Threads, ~IsIdle(t), ~IsIdle(t)',
         \A u \in Threads \ {t} : th'[u] = th[u],
         UNCHANGED <<running, page>>, alone'["prefs"] => alone["prefs"],
         Telling(t)' => th'[t].was = prefs'
  PROVE  PrefsFollow'
<1>1. PageReady' <=> PageReady
  BY DEF PageReady
<1>2. \A u \in Threads \ {t} : (IsIdle(u)' <=> IsIdle(u))
  BY OthersStay
<1>3. PrefsFollow
  BY DEF DesktopInv
<1> SUFFICES ASSUME running, alone["prefs"]
             PROVE  /\ ~\A u \in Threads : IsIdle(u)'
                    /\ \A u \in Threads : ~IsIdle(u)' =>
                          /\ PageReady'
                          /\ \A v \in Threads : ~IsIdle(v)' => v = u
                          /\ Telling(u)' => th'[u].was = prefs'
  BY DEF PrefsFollow
<1>4. PageReady /\ \A u \in Threads : ~IsIdle(u) => u = t
  BY <1>3 DEF PrefsFollow
<1>5. \A u \in Threads : ~IsIdle(u)' => u = t
  BY <1>2, <1>4
<1> QED BY <1>1, <1>4, <1>5

\* A step of a visibility change that has set one more copy.
LEMMA VisibilityGoesOn ==
  ASSUME DesktopInv, NEW t \in Threads, Showing(t), Showing(t)', Stage(t)' = Stage(t) + 1,
         \A u \in Threads \ {t} : th'[u] = th[u],
         UNCHANGED <<running, ready, page, alone>>, Stage(t) \in 0..5,
         Stage(t) >= 1 => th'[t].to = th[t].to,
         Stage(t) = 1 => visible' = th'[t].to,
         Stage(t) >= 2 => visible' = visible,
         Stage(t) = 2 => shown' = th'[t].to,
         Stage(t) >= 3 => shown' = shown,
         Stage(t) = 3 => LastIs(bus', "visible", th'[t].to),
         Stage(t) >= 4 => SentOther("visible"),
         Stage(t) = 4 /\ ready => label' = th'[t].to,
         Stage(t) >= 5 => label' = label,
         Stage(t) = 5 => prefs'.hidden = ~th'[t].to
  PROVE  VisibilityFollows'
<1>1. (PageReady' <=> PageReady) /\ (SentOther("visible") => \A v : VisibleReaches(v) => VisibleReaches(v)')
  BY StillReach DEF DesktopInv
<1>2. VisibilityFollows
  BY DEF DesktopInv
<1>3. \A u \in Threads \ {t} : (Showing(u)' <=> Showing(u))
  BY OthersStay
<1> SUFFICES ASSUME running, alone["shown"]
             PROVE  \A u \in Threads : Showing(u)' =>
                          /\ ready' /\ PageReady'
                          /\ \A v \in Threads : Showing(v)' => v = u
                          /\ Stage(u)' >= 2 => visible' = th'[u].to
                          /\ Stage(u)' >= 3 => shown' = th'[u].to
                          /\ Stage(u)' >= 4 => VisibleReaches(th[u].to)'
                          /\ Stage(u)' >= 5 => label' = th'[u].to
                          /\ Stage(u)' >= 6 => prefs'.hidden = ~th'[u].to
  BY DEF VisibilityFollows
<1>4. /\ ready /\ PageReady /\ \A u \in Threads : Showing(u) => u = t
      /\ Stage(t) >= 2 => visible = th[t].to
      /\ Stage(t) >= 3 => shown = th[t].to
      /\ Stage(t) >= 4 => VisibleReaches(th[t].to)
      /\ Stage(t) >= 5 => label = th[t].to
  BY <1>2 DEF VisibilityFollows
<1>5. \A u \in Threads : Showing(u)' => u = t
  BY <1>3, <1>4
<1>6. Stage(t)' >= 4 => VisibleReaches(th[t].to)'
  <2>1. CASE Stage(t) = 3
    BY <1>1, <1>4, <2>1 DEF VisibleReaches, PageGets
  <2>2. CASE Stage(t) >= 4
    <3>1. VisibleReaches(th[t].to) /\ th'[t].to = th[t].to
      BY <1>4, <2>2
    <3>2. \A v : VisibleReaches(v) => VisibleReaches(v)'
      BY <1>1, <2>2
    <3> QED BY <3>1, <3>2
  <2> QED BY <2>1, <2>2
<1>7. /\ Stage(t)' >= 2 => visible' = th'[t].to
      /\ Stage(t)' >= 3 => shown' = th'[t].to
      /\ Stage(t)' >= 5 => label' = th'[t].to
      /\ Stage(t)' >= 6 => prefs'.hidden = ~th'[t].to
  BY <1>4
<1> QED BY <1>1, <1>4, <1>5, <1>6, <1>7

\* toggle_visible reads AppState.visible.
LEMMA ReadVisibleHolds ==
  ASSUME DesktopInv, NEW t \in Threads, ReadVisible(t)
  PROVE  DesktopInv'
<1> DEFINE r == [do |-> th[t].do, k |-> th[t].k + 1, to |-> ~visible, was |-> th[t].was]
<1>1. DesktopTypes /\ th[t] \in Operation /\ WithinProgram(t) /\ visible \in BOOLEAN
  BY DEF DesktopInv, DesktopTypes, ThreadsTyped
<1>2. At(t, "read") /\ ~IsIdle(t) /\ Showing(t) /\ Stage(t) = 0
  BY <1>1, WhereItIs DEF ReadVisible, At, Showing, ShowOps
<1>3. ~At(t, "tell") /\ ~At(t, "persist") /\ th[t].do # "move" 
  BY <1>1, <1>2, WhereItIs DEF Showing, ShowOps, DesktopTypes, ThreadsTyped
<1>4. th' = [th EXCEPT ![t] = r]
  <2>1. th' = [th EXCEPT ![t] = [Onward(t) EXCEPT !.to = ~visible]]
    BY <1>1, <1>2, <1>3, StepsOn DEF ReadVisible
  <2>2. r = [Onward(t) EXCEPT !.to = ~visible]
    BY DEF Onward
  <2> QED BY <2>1, <2>2, Zenon
<1>5. r \in Operation /\ r.do = th[t].do /\ r.k = th[t].k + 1 /\ r.to \in BOOLEAN
  BY <1>1 DEF Onward, Operation, Values
<1> HIDE DEF r
<1>6. th'[t] = r /\ \A u \in Threads \ {t} : th'[u] = th[u]
  BY <1>1, <1>4, <1>5, OneThread
<1>7. ThreadsTyped'
  BY <1>1, <1>2, <1>3, <1>4, <1>5, ThreadGoesOn
<1>8. /\ ~IsIdle(t)' /\ Showing(t)' /\ Stage(t)' = Stage(t) + 1 /\ ~Telling(t)'
  BY <1>1, <1>2, <1>3, <1>5, <1>6, GoesOn
<1>9. UNCHANGED <<running, ready, visible, shown, label, prefs, file, failed, page, bus, alone>>
  BY <1>1, <1>2 DEF ReadVisible, app, window, stored, DesktopTypes
<1>10. DesktopTypes'
  BY <1>1, <1>2, <1>7, <1>9 DEF DesktopTypes
<1>11. VisibilityFollows'
  BY <1>2, <1>6, <1>8, <1>9, VisibilityGoesOn DEF SentOther
<1>12. CornerFollows'
  BY <1>3, <1>5, <1>6, <1>9, CornerUntouched DEF SentOther
<1>13. PrefsFollow'
  BY <1>2, <1>6, <1>8, <1>9, PrefsOnTheWay
<1>14. FileHoldsEveryChoice'
  BY <1>9 DEF DesktopInv, FileHoldsEveryChoice
<1> QED BY <1>10, <1>11, <1>12, <1>13, <1>14 DEF DesktopInv

\* set_visible.
LEMMA WriteVisibleHolds ==
  ASSUME DesktopInv, NEW t \in Threads, WriteVisible(t)
  PROVE  DesktopInv'
<1> DEFINE r == Onward(t)
<1>1. DesktopTypes /\ th[t] \in Operation /\ WithinProgram(t) /\ visible \in BOOLEAN
  BY DEF DesktopInv, DesktopTypes, ThreadsTyped
<1>2. At(t, "write") /\ ~IsIdle(t) /\ Showing(t) /\ Stage(t) = 1
  BY <1>1, WhereItIs DEF WriteVisible, At, Showing, ShowOps
<1>3. ~At(t, "tell") /\ ~At(t, "persist") /\ th[t].do # "move" /\ th[t].to \in BOOLEAN
  BY <1>1, <1>2, WhereItIs DEF Showing, ShowOps, DesktopTypes, ThreadsTyped
<1>4. th' = [th EXCEPT ![t] = r]
  BY <1>1, <1>2, <1>3, StepsOn DEF WriteVisible, Advance
<1>5. r \in Operation /\ r.do = th[t].do /\ r.k = th[t].k + 1 /\ r.to \in BOOLEAN
  BY <1>1, <1>3 DEF Onward, Operation, Values
<1> HIDE DEF r
<1>6. th'[t] = r /\ \A u \in Threads \ {t} : th'[u] = th[u]
  BY <1>1, <1>4, <1>5, OneThread
<1>7. ThreadsTyped'
  BY <1>1, <1>2, <1>3, <1>4, <1>5, ThreadGoesOn
<1>8. /\ ~IsIdle(t)' /\ Showing(t)' /\ Stage(t)' = Stage(t) + 1 /\ ~Telling(t)'
  BY <1>1, <1>2, <1>3, <1>5, <1>6, GoesOn
<1>9. UNCHANGED <<running, ready, shown, label, prefs, file, failed, page, bus, alone>> /\ visible' = th[t].to
      /\ visible' \in BOOLEAN
  BY <1>1, <1>2, <1>3 DEF WriteVisible, app, window, stored, DesktopTypes
<1>10. DesktopTypes'
  BY <1>1, <1>2, <1>7, <1>9 DEF DesktopTypes
<1>15. th'[t].to = th[t].to
  BY <1>6 DEF r, Onward
<1>11. VisibilityFollows'
  BY <1>2, <1>6, <1>8, <1>9, <1>15, VisibilityGoesOn DEF SentOther
<1>12. CornerFollows'
  BY <1>3, <1>5, <1>6, <1>9, CornerUntouched DEF SentOther
<1>13. PrefsFollow'
  BY <1>2, <1>6, <1>8, <1>9, PrefsOnTheWay
<1>14. FileHoldsEveryChoice'
  BY <1>9 DEF DesktopInv, FileHoldsEveryChoice
<1> QED BY <1>10, <1>11, <1>12, <1>13, <1>14 DEF DesktopInv

\* The window is shown or hidden.
LEMMA ApplyVisibilityHolds ==
  ASSUME DesktopInv, NEW t \in Threads, ApplyVisibility(t)
  PROVE  DesktopInv'
<1> DEFINE r == Onward(t)
<1>1. DesktopTypes /\ th[t] \in Operation /\ WithinProgram(t) /\ visible \in BOOLEAN
  BY DEF DesktopInv, DesktopTypes, ThreadsTyped
<1>2. At(t, "window") /\ ~IsIdle(t) /\ Showing(t) /\ Stage(t) = 2
  BY <1>1, WhereItIs DEF ApplyVisibility, At, Showing, ShowOps
<1>3. ~At(t, "tell") /\ ~At(t, "persist") /\ th[t].do # "move" /\ th[t].to \in BOOLEAN
  BY <1>1, <1>2, WhereItIs DEF Showing, ShowOps, DesktopTypes, ThreadsTyped
<1>4. th' = [th EXCEPT ![t] = r]
  BY <1>1, <1>2, <1>3, StepsOn DEF ApplyVisibility, Advance
<1>5. r \in Operation /\ r.do = th[t].do /\ r.k = th[t].k + 1 /\ r.to \in BOOLEAN
  BY <1>1, <1>3 DEF Onward, Operation, Values
<1> HIDE DEF r
<1>6. th'[t] = r /\ \A u \in Threads \ {t} : th'[u] = th[u]
  BY <1>1, <1>4, <1>5, OneThread
<1>7. ThreadsTyped'
  BY <1>1, <1>2, <1>3, <1>4, <1>5, ThreadGoesOn
<1>8. /\ ~IsIdle(t)' /\ Showing(t)' /\ Stage(t)' = Stage(t) + 1 /\ ~Telling(t)'
  BY <1>1, <1>2, <1>3, <1>5, <1>6, GoesOn
<1>9. UNCHANGED <<running, ready, visible, label, prefs, file, failed, page, bus, alone>> /\ shown' = th[t].to
  BY <1>1, <1>2, <1>3 DEF ApplyVisibility, app, window, stored, DesktopTypes
<1>10. DesktopTypes'
  BY <1>1, <1>2, <1>7, <1>9 DEF DesktopTypes
<1>15. th'[t].to = th[t].to
  BY <1>6 DEF r, Onward
<1>11. VisibilityFollows'
  BY <1>2, <1>6, <1>8, <1>9, <1>15, VisibilityGoesOn DEF SentOther
<1>12. CornerFollows'
  BY <1>3, <1>5, <1>6, <1>9, CornerUntouched DEF SentOther
<1>13. PrefsFollow'
  BY <1>2, <1>6, <1>8, <1>9, PrefsOnTheWay
<1>14. FileHoldsEveryChoice'
  BY <1>9 DEF DesktopInv, FileHoldsEveryChoice
<1> QED BY <1>10, <1>11, <1>12, <1>13, <1>14 DEF DesktopInv

\* The tray's label, by its listener once setup has finished.
LEMMA SetLabelHolds ==
  ASSUME DesktopInv, NEW t \in Threads, SetLabel(t)
  PROVE  DesktopInv'
<1> DEFINE r == Onward(t)
<1>1. DesktopTypes /\ th[t] \in Operation /\ WithinProgram(t) /\ visible \in BOOLEAN
  BY DEF DesktopInv, DesktopTypes, ThreadsTyped
<1>2. At(t, "label") /\ ~IsIdle(t) /\ Showing(t) /\ Stage(t) = 4
  BY <1>1, WhereItIs DEF SetLabel, At, Showing, ShowOps
<1>3. ~At(t, "tell") /\ ~At(t, "persist") /\ th[t].do # "move" /\ th[t].to \in BOOLEAN
  BY <1>1, <1>2, WhereItIs DEF Showing, ShowOps, DesktopTypes, ThreadsTyped
<1>4. th' = [th EXCEPT ![t] = r]
  BY <1>1, <1>2, <1>3, StepsOn DEF SetLabel, Advance
<1>5. r \in Operation /\ r.do = th[t].do /\ r.k = th[t].k + 1 /\ r.to \in BOOLEAN
  BY <1>1, <1>3 DEF Onward, Operation, Values
<1> HIDE DEF r
<1>6. th'[t] = r /\ \A u \in Threads \ {t} : th'[u] = th[u]
  BY <1>1, <1>4, <1>5, OneThread
<1>7. ThreadsTyped'
  BY <1>1, <1>2, <1>3, <1>4, <1>5, ThreadGoesOn
<1>8. /\ ~IsIdle(t)' /\ Showing(t)' /\ Stage(t)' = Stage(t) + 1 /\ ~Telling(t)'
  BY <1>1, <1>2, <1>3, <1>5, <1>6, GoesOn
<1>9. /\ UNCHANGED <<running, ready, visible, shown, prefs, file, failed, page, bus, alone>>
      /\ ready => label' = th[t].to
  BY <1>1, <1>2, <1>3 DEF SetLabel, app, window, stored, DesktopTypes
<1>10. DesktopTypes'
  BY <1>1, <1>2, <1>7, <1>9 DEF DesktopTypes
<1>15. th'[t].to = th[t].to
  BY <1>6 DEF r, Onward
<1>11. VisibilityFollows'
  BY <1>2, <1>6, <1>8, <1>9, <1>15, VisibilityGoesOn DEF SentOther
<1>12. CornerFollows'
  BY <1>3, <1>5, <1>6, <1>9, CornerUntouched DEF SentOther
<1>13. PrefsFollow'
  BY <1>2, <1>6, <1>8, <1>9, PrefsOnTheWay
<1>14. FileHoldsEveryChoice'
  BY <1>9 DEF DesktopInv, FileHoldsEveryChoice
<1> QED BY <1>10, <1>11, <1>12, <1>13, <1>14 DEF DesktopInv

\* A step of a corner change that has set one more copy.
LEMMA CornerGoesOn ==
  ASSUME DesktopInv, NEW t \in Threads, th[t].do = "move", th'[t].do = "move", th[t].k \in 1..2,
         th'[t].k = th[t].k + 1, th'[t].to = th[t].to,
         \A u \in Threads \ {t} : th'[u] = th[u],
         UNCHANGED <<running, page, alone>>,
         th[t].k = 1 => LastIs(bus', "corner", th[t].to),
         th[t].k = 2 => SentOther("corner") /\ prefs'.corner = th[t].to
  PROVE  CornerFollows'
<1>1. (PageReady' <=> PageReady) /\ (SentOther("corner") => \A c : CornerReaches(c) => CornerReaches(c)')
  BY StillReach DEF DesktopInv
<1>2. CornerFollows
  BY DEF DesktopInv
<1> SUFFICES ASSUME running, alone["corner"]
             PROVE  \A u \in Threads : th'[u].do = "move" =>
                          /\ PageReady'
                          /\ \A v \in Threads : th'[v].do = "move" => v = u
                          /\ th'[u].k >= 2 => CornerReaches(th[u].to)'
                          /\ th'[u].k >= 3 => prefs'.corner = th'[u].to
  BY DEF CornerFollows
<1>3. /\ PageReady /\ \A u \in Threads : th[u].do = "move" => u = t
      /\ th[t].k >= 2 => CornerReaches(th[t].to)
  BY <1>2 DEF CornerFollows
<1>4. \A u \in Threads : th'[u].do = "move" => u = t
  BY <1>3
<1>5. CornerReaches(th[t].to)'
  <2>1. CASE th[t].k = 1
    BY <1>1, <1>3, <2>1 DEF CornerReaches, PageGets
  <2>2. CASE th[t].k = 2
    <3>1. CornerReaches(th[t].to) /\ \A c : CornerReaches(c) => CornerReaches(c)'
      BY <1>1, <1>3, <2>2
    <3> QED BY <3>1
  <2> QED BY <2>1, <2>2
<1>6. th'[t].k >= 3 => prefs'.corner = th'[t].to
  OBVIOUS
<1> QED BY <1>1, <1>3, <1>4, <1>5, <1>6

\* The event for the page.
LEMMA EmitHolds ==
  ASSUME DesktopInv, NEW t \in Threads, Emit(t)
  PROVE  DesktopInv'
<1> DEFINE r == Onward(t)
           e == [topic |-> IF th[t].do = "move" THEN "corner" ELSE "visible", value |-> th[t].to]
<1>1. DesktopTypes /\ th[t] \in Operation /\ WithinProgram(t)
  BY DEF DesktopInv, DesktopTypes, ThreadsTyped
<1>2. At(t, "emit") /\ ~IsIdle(t)
  BY DEF Emit, At
<1>3. (Showing(t) /\ Stage(t) = 3 /\ th[t].do # "move") \/ (~Showing(t) /\ th[t].do = "move" /\ th[t].k = 1)
  BY <1>1, <1>2, WhereItIs DEF Showing, ShowOps
<1>4. ~At(t, "tell") /\ ~At(t, "persist")
  BY <1>1, <1>3, WhereItIs DEF Showing, ShowOps
<1>5. th' = [th EXCEPT ![t] = r] /\ bus' = Append(bus, e)
  BY <1>1, <1>2, <1>4, StepsOn DEF Emit, Advance
<1>6. r \in Operation /\ r.do = th[t].do /\ r.k = th[t].k + 1 /\ r.to = th[t].to
  BY <1>1 DEF Onward, Operation
<1>7. (Showing(t) => r.to \in BOOLEAN) /\ (r.do = "move" => r.to \in Corners)
  BY <1>1, <1>3, <1>6 DEF DesktopTypes, ThreadsTyped
<1>8. e \in Event /\ e.value = th[t].to /\ bus \in Seq(Event)
  BY <1>1 DEF Event, Topics, Operation, DesktopTypes
<1>9. (th[t].do = "move" => e.topic = "corner") /\ (th[t].do # "move" => e.topic = "visible")
  OBVIOUS
<1> HIDE DEF r, e
<1>10. th'[t] = r /\ \A u \in Threads \ {t} : th'[u] = th[u]
  BY <1>1, <1>5, <1>6, OneThread
<1>11. ThreadsTyped'
  BY <1>1, <1>2, <1>4, <1>5, <1>6, <1>7, ThreadGoesOn
<1>12. /\ ~IsIdle(t)' /\ (Showing(t)' <=> Showing(t)) /\ Stage(t)' = Stage(t) + 1 /\ ~Telling(t)'
  BY <1>1, <1>2, <1>4, <1>6, <1>10, GoesOn
<1>13. UNCHANGED <<running, ready, visible, shown, label, prefs, file, failed, page, alone>>
  BY DEF Emit, app, window, stored
<1>14. LastIs(bus', e.topic, e.value) /\ bus' \in Seq(Event)
  BY <1>5, <1>8, AppendedIsLast
<1>15. DesktopTypes'
  BY <1>1, <1>2, <1>11, <1>13, <1>14 DEF DesktopTypes
<1>16. VisibilityFollows'
  <2>1. CASE Showing(t)
    BY <1>3, <1>6, <1>8, <1>9, <1>10, <1>12, <1>13, <1>14, <2>1, VisibilityGoesOn
  <2>2. CASE ~Showing(t)
    <3>1. SentOther("visible")
      BY <1>3, <1>5, <1>8, <1>9, <2>2 DEF SentOther
    <3>2. \A u \in Threads : /\ (Showing(u)' <=> Showing(u))
                             /\ Showing(u) => Stage(u)' = Stage(u) /\ th'[u].to = th[u].to
      BY <1>10, <1>12, <2>2, OthersStay
    <3> QED BY <1>13, <3>1, <3>2, VisibilityUntouched
  <2> QED BY <2>1, <2>2
<1>17. CornerFollows'
  <2>1. CASE th[t].do = "move"
    BY <1>3, <1>6, <1>8, <1>9, <1>10, <1>13, <1>14, <2>1, CornerGoesOn
  <2>2. CASE th[t].do # "move"
    <3>1. SentOther("corner")
      BY <1>5, <1>8, <1>9, <2>2 DEF SentOther
    <3>2. \A u \in Threads : /\ (th'[u].do = "move" <=> th[u].do = "move")
                             /\ th[u].do = "move" => th'[u].k = th[u].k /\ th'[u].to = th[u].to
      BY <1>6, <1>10, <2>2
    <3> QED BY <1>13, <3>1, <3>2, CornerUntouched
  <2> QED BY <2>1, <2>2
<1>18. PrefsFollow'
  BY <1>2, <1>10, <1>12, <1>13, PrefsOnTheWay
<1>19. FileHoldsEveryChoice'
  BY <1>13 DEF DesktopInv, FileHoldsEveryChoice
<1> QED BY <1>15, <1>16, <1>17, <1>18, <1>19 DEF DesktopInv

\* update_preferences: memory and file under one mutex.
LEMMA PersistHolds ==
  ASSUME DesktopInv, NEW t \in Threads, Persist(t)
  PROVE  DesktopInv'
<1> DEFINE r == [do |-> th[t].do, k |-> th[t].k + 1, to |-> th[t].to, was |-> prefs']
<1>1. DesktopTypes /\ th[t] \in Operation /\ WithinProgram(t) /\ prefs \in Prefs
  BY DEF DesktopInv, DesktopTypes, ThreadsTyped
<1>2. At(t, "persist") /\ ~IsIdle(t)
  BY DEF Persist, At
<1>3. \/ (Showing(t) /\ Stage(t) = 5 /\ th[t].do # "move" /\ th[t].do # "setting")
      \/ (~Showing(t) /\ th[t].do = "move" /\ th[t].k = 2)
      \/ (~Showing(t) /\ th[t].do = "setting" /\ th[t].k = 1)
  BY <1>1, <1>2, WhereItIs DEF Showing, ShowOps
<1>4. ~At(t, "tell")
  BY <1>1, <1>3, WhereItIs DEF Showing, ShowOps
<1>5. (Showing(t) => th[t].to \in BOOLEAN) /\ (th[t].do = "move" => th[t].to \in Corners)
  BY <1>1, <1>3 DEF DesktopTypes, ThreadsTyped
<1>6. prefs' = Patch(prefs, th[t])
  BY DEF Persist
<1>7. /\ prefs' \in Prefs
      /\ Showing(t) => prefs'.hidden = ~th[t].to /\ prefs'.corner = prefs.corner
      /\ th[t].do = "move" => prefs'.corner = th[t].to /\ prefs'.hidden = prefs.hidden
      /\ th[t].do = "setting" => prefs'.corner = prefs.corner /\ prefs'.hidden = prefs.hidden
  <2>1. CASE Showing(t)
    BY <1>1, <1>3, <1>5, <1>6, <2>1 DEF Patch, Prefs
  <2>2. CASE th[t].do = "move"
    BY <1>1, <1>3, <1>5, <1>6, <2>2 DEF Patch, Prefs
  <2>3. CASE th[t].do = "setting"
    BY <1>1, <1>3, <1>6, <2>3 DEF Patch, Prefs
  <2> QED BY <1>3, <2>1, <2>2, <2>3
<1>8. th' = [th EXCEPT ![t] = r]
  <2>1. th' = [th EXCEPT ![t] = [Onward(t) EXCEPT !.was = prefs']]
    BY <1>1, <1>2, <1>4, StepsOn DEF Persist
  <2>2. r = [Onward(t) EXCEPT !.was = prefs']
    BY DEF Onward
  <2> QED BY <2>1, <2>2, Zenon
<1>9. r \in Operation /\ r.do = th[t].do /\ r.k = th[t].k + 1 /\ r.to = th[t].to /\ r.was = prefs'
  BY <1>1, <1>7 DEF Operation
<1> HIDE DEF r
<1>10. th'[t] = r /\ \A u \in Threads \ {t} : th'[u] = th[u]
  BY <1>1, <1>8, <1>9, OneThread
<1>11. ThreadsTyped'
  BY <1>1, <1>2, <1>4, <1>5, <1>7, <1>8, <1>9, ThreadGoesOn
<1>12. ~IsIdle(t)' /\ (Showing(t)' <=> Showing(t)) /\ Stage(t)' = Stage(t) + 1
  BY <1>1, <1>2, <1>4, <1>9, <1>10, GoesOn
<1>13. UNCHANGED <<running, ready, visible, shown, label, page, bus, alone>>
  BY DEF Persist, app, window
<1>14. \/ file' = Saved(prefs')
       \/ failed' /\ file' = file
  BY DEF Persist
<1>15. DesktopTypes'
  <2>1. file' \in [kind : Kinds, prefs : Prefs]
    BY <1>1, <1>7, <1>14 DEF Saved, Kinds, DesktopTypes
  <2> QED BY <1>1, <1>2, <1>7, <1>11, <1>13, <2>1 DEF DesktopTypes
<1>16. VisibilityFollows'
  <2>1. CASE Showing(t)
    BY <1>3, <1>7, <1>9, <1>10, <1>12, <1>13, <2>1, VisibilityGoesOn DEF SentOther
  <2>2. CASE ~Showing(t)
    <3>1. \A u \in Threads : /\ (Showing(u)' <=> Showing(u))
                             /\ Showing(u) => Stage(u)' = Stage(u) /\ th'[u].to = th[u].to
      BY <1>10, <1>12, <2>2, OthersStay
    <3> QED BY <1>3, <1>7, <1>13, <2>2, <3>1, VisibilityUntouched DEF SentOther
  <2> QED BY <2>1, <2>2
<1>17. CornerFollows'
  <2>1. CASE th[t].do = "move"
    BY <1>3, <1>7, <1>9, <1>10, <1>13, <2>1, CornerGoesOn DEF SentOther
  <2>2. CASE th[t].do # "move"
    <3>1. \A u \in Threads : /\ (th'[u].do = "move" <=> th[u].do = "move")
                             /\ th[u].do = "move" => th'[u].k = th[u].k /\ th'[u].to = th[u].to
      BY <1>9, <1>10, <2>2
    <3> QED BY <1>3, <1>7, <1>13, <2>2, <3>1, CornerUntouched DEF SentOther
  <2> QED BY <2>1, <2>2
<1>18. PrefsFollow'
  BY <1>2, <1>9, <1>10, <1>12, <1>13, PrefsOnTheWay
<1>19. FileHoldsEveryChoice'
  BY <1>14 DEF FileHoldsEveryChoice, Saved
<1> QED BY <1>15, <1>16, <1>17, <1>18, <1>19 DEF DesktopInv

\* preferences-changed, the last step of every operation.
LEMMA TellHolds ==
  ASSUME DesktopInv, NEW t \in Threads, Tell(t)
  PROVE  DesktopInv'
<1> DEFINE e == [topic |-> "prefs", value |-> th[t].was]
<1>1. DesktopTypes /\ th[t] \in Operation /\ WithinProgram(t) /\ bus \in Seq(Event)
  BY DEF DesktopInv, DesktopTypes, ThreadsTyped
<1>2. At(t, "tell") /\ ~IsIdle(t)
  BY DEF Tell, At
<1>3. /\ Telling(t)
      /\ Showing(t) => Stage(t) = 6
      /\ th[t].do = "move" => th[t].k = 3
  BY <1>1, <1>2, WhereItIs DEF Telling, Showing, ShowOps
<1>4. th' = [th EXCEPT ![t] = Idle] /\ bus' = Append(bus, e)
  BY <1>1, <1>2, StepsOn DEF Tell, Advance
<1>16. ThreadsTyped' /\ IsIdle(t)' /\ ~Showing(t)' /\ th'[t] = Idle
  BY <1>1, <1>4, ThreadEnds
<1>5. /\ ThreadsTyped' /\ IsIdle(t)' /\ ~Showing(t)' /\ th'[t] = Idle
      /\ th'[t].do # "move"
  BY <1>16, DesktopAssumption DEF Idle
<1>6. \A u \in Threads \ {t} : th'[u] = th[u]
  BY <1>1, <1>4 DEF DesktopTypes, ThreadsTyped
<1>7. e \in Event /\ e.topic = "prefs" /\ e.value = th[t].was
  BY <1>1, <1>3 DEF Event, Topics, Values, Operation, DesktopTypes, ThreadsTyped
<1> HIDE DEF e
<1>8. LastIs(bus', "prefs", th[t].was) /\ bus' \in Seq(Event) /\ SentOther("visible") /\ SentOther("corner")
  BY <1>1, <1>4, <1>7, AppendedIsLast DEF SentOther
<1>9. UNCHANGED <<running, ready, visible, shown, label, prefs, file, failed, page, alone>>
  BY DEF Tell, app, window, stored
<1>10. DesktopTypes'
  BY <1>1, <1>2, <1>5, <1>8, <1>9 DEF DesktopTypes
<1>11. /\ (PageReady' <=> PageReady) /\ \A v : VisibleReaches(v) => VisibleReaches(v)'
       /\ \A c : CornerReaches(c) => CornerReaches(c)'
  BY <1>1, <1>8, <1>9, StillReach
<1>12. VisibilityFollows'
  <2>1. CASE Showing(t)
    <3>1. ASSUME running, alone["shown"]
          PROVE  /\ \A u \in Threads : ~Showing(u)'
                 /\ shown = visible /\ label = visible /\ prefs.hidden = ~visible /\ VisibleReaches(visible)
      BY <1>3, <1>5, <1>6, <2>1, <3>1, OthersStay DEF DesktopInv, VisibilityFollows
    <3>2. ASSUME running, alone["shown"] PROVE VisibleReaches(visible)'
      BY <1>9, <1>11, <3>1, <3>2
    <3> QED BY <1>9, <3>1, <3>2 DEF VisibilityFollows
  <2>2. CASE ~Showing(t)
    <3>1. \A u \in Threads : /\ (Showing(u)' <=> Showing(u))
                             /\ Showing(u) => Stage(u)' = Stage(u) /\ th'[u].to = th[u].to
      BY <1>5, <1>6, <2>2, OthersStay
    <3> QED BY <1>8, <1>9, <3>1, VisibilityUntouched
  <2> QED BY <2>1, <2>2
<1>13. CornerFollows'
  <2>1. CASE th[t].do = "move"
    <3>1. ASSUME running, alone["corner"]
          PROVE  (\A u \in Threads : th'[u].do # "move") /\ CornerReaches(prefs.corner)
      BY <1>3, <1>5, <1>6, <2>1, <3>1 DEF DesktopInv, CornerFollows
    <3>2. ASSUME running, alone["corner"] PROVE CornerReaches(prefs.corner)'
      BY <1>9, <1>11, <3>1, <3>2
    <3> QED BY <1>9, <3>1, <3>2 DEF CornerFollows
  <2>2. CASE th[t].do # "move"
    <3>1. \A u \in Threads : /\ (th'[u].do = "move" <=> th[u].do = "move")
                             /\ th[u].do = "move" => th'[u].k = th[u].k /\ th'[u].to = th[u].to
      BY <1>5, <1>6, <2>2
    <3> QED BY <1>8, <1>9, <3>1, CornerUntouched
  <2> QED BY <2>1, <2>2
<1>14. PrefsFollow'
  <2>1. ASSUME running, alone["prefs"]
        PROVE  (\A u \in Threads : IsIdle(u)') /\ PageReady /\ th[t].was = prefs
    BY <1>2, <1>3, <1>5, <1>6, <2>1, OthersStay DEF DesktopInv, PrefsFollow
  <2>2. ASSUME running, alone["prefs"] PROVE PrefsReach(prefs)'
    BY <1>8, <1>9, <1>11, <2>1, <2>2 DEF PrefsReach, PageGets
  <2> QED BY <1>9, <2>1, <2>2 DEF PrefsFollow
<1>15. FileHoldsEveryChoice'
  BY <1>9 DEF DesktopInv, FileHoldsEveryChoice
<1> QED BY <1>10, <1>12, <1>13, <1>14, <1>15 DEF DesktopInv

----------------------------------------------------------------------------
\* An operation begins.
Operations == {"show", "hide", "toggle", "move", "setting"}

\* A thread takes up an operation; if the other is busy, neither is alone.
LEMMA CallHolds ==
  ASSUME DesktopInv, NEW t \in Threads, NEW do \in Operations, NEW to \in Values, Call(t, do, to),
         do \in {"show", "hide"} => to \in BOOLEAN, do = "move" => to \in Corners
  PROVE  DesktopInv'
<1> DEFINE r == [do |-> do, k |-> 1, to |-> to, was |-> None]
           quiet == ready /\ PageReady /\ \A u \in Threads : IsIdle(u)
<1>1. DesktopTypes /\ ThreadsTyped /\ th[t] \in Operation /\ IsIdle(t) /\ running
  BY DEF DesktopInv, DesktopTypes, ThreadsTyped, Call
<1>2. th' = [th EXCEPT ![t] = r] /\ UNCHANGED <<running, ready, visible, shown, label, prefs, file, failed, page, bus>>
  BY DEF Call, app, window, stored
<1>3. alone' = [c \in Copies |-> IF c \in Touches(do) THEN quiet ELSE alone[c]]
  BY DEF Call
<1>4. r \in Operation /\ r.do = do /\ r.k = 1 /\ r.to = to
  BY DEF Operation, Operations
<1> HIDE DEF r
<1>5. th'[t] = r /\ (\A u \in Threads \ {t} : th'[u] = th[u]) /\ th' \in [Threads -> Operation]
  BY <1>1, <1>2, <1>4, OneThread
<1>6. ~Showing(t) /\ th[t].do # "move"
  BY <1>1, DesktopAssumption DEF IsIdle, Showing, ShowOps
<1>7. /\ ~IsIdle(t)' /\ (Showing(t)' <=> do \in ShowOps) /\ WithinProgram(t)' /\ ~Telling(t)'
      /\ Showing(t)' => Stage(t)' = IF do = "toggle" THEN 0 ELSE 1
  BY <1>4, <1>5, DesktopAssumption
     DEF IsIdle, Showing, ShowOps, WithinProgram, Telling, Stage, Operations
<1>8. ThreadsTyped'
  <2>1. ASSUME NEW u \in Threads
        PROVE  /\ WithinProgram(u)'
               /\ (Showing(u) /\ Stage(u) # 0)' => th'[u].to \in BOOLEAN
               /\ th'[u].do = "move" => th'[u].to \in Corners
               /\ Telling(u)' => th'[u].was \in Prefs
    <3>1. CASE u = t
      BY <1>4, <1>5, <1>7, <3>1 DEF ShowOps
    <3>2. CASE u # t
      BY <1>1, <1>5, <3>2, OthersStay DEF ThreadsTyped
    <3> QED BY <3>1, <3>2
  <2> QED BY <1>5, <2>1 DEF ThreadsTyped
<1>9. \A c \in Copies : /\ c \in Touches(do) => (alone'[c] <=> quiet)
                        /\ c \notin Touches(do) => (alone'[c] <=> alone[c])
  BY <1>3
<1>10. alone' \in [Copies -> BOOLEAN]
  <2>1. \A c \in Copies : (IF c \in Touches(do) THEN quiet ELSE alone[c]) \in BOOLEAN
    BY <1>1 DEF DesktopTypes, PageReady
  <2> HIDE DEF quiet
  <2> QED BY <1>3, <2>1
<1>11. DesktopTypes'
  BY <1>1, <1>2, <1>8, <1>10 DEF DesktopTypes
<1>12. /\ alone'["prefs"] => quiet
       /\ do \in ShowOps => (alone'["shown"] => quiet)
       /\ do \notin ShowOps => (alone'["shown"] => alone["shown"])
       /\ do = "move" => (alone'["corner"] => quiet)
       /\ do # "move" => (alone'["corner"] => alone["corner"])
  <2>1. /\ "prefs" \in Copies /\ "shown" \in Copies /\ "corner" \in Copies /\ "prefs" \in Touches(do)
        /\ do \in ShowOps => "shown" \in Touches(do)
        /\ do \notin ShowOps => "shown" \notin Touches(do)
        /\ do = "move" => "corner" \in Touches(do)
        /\ do # "move" => "corner" \notin Touches(do)
    BY DEF Copies, Touches, ShowOps, Operations
  <2> HIDE DEF quiet
  <2> QED BY <1>9, <2>1
<1>13. quiet => ready' /\ PageReady' /\ \A u \in Threads \ {t} : IsIdle(u)' /\ ~Showing(u)' /\ th'[u].do # "move"
  BY <1>2, <1>5, DesktopAssumption DEF PageReady, IsIdle, Showing, ShowOps
<1> HIDE DEF quiet
<1>14. VisibilityFollows'
  <2>1. CASE do \in ShowOps
    <3> SUFFICES ASSUME alone'["shown"]
                 PROVE  /\ Showing(t)'
                        /\ \A u \in Threads : Showing(u)' =>
                              /\ ready' /\ PageReady'
                              /\ \A v \in Threads : Showing(v)' => v = u
                              /\ Stage(u)' < 2 /\ Stage(u)' \in Int
      BY DEF VisibilityFollows
    <3>1. ready' /\ PageReady' /\ \A u \in Threads : Showing(u)' => u = t
      BY <1>12, <1>13, <2>1
    <3> QED BY <1>7, <2>1, <3>1
  <2>2. CASE do \notin ShowOps
    <3>1. \A u \in Threads : /\ (Showing(u)' <=> Showing(u))
                             /\ Showing(u) => Stage(u)' = Stage(u) /\ th'[u].to = th[u].to
      BY <1>5, <1>6, <1>7, <2>2, OthersStay
    <3>2. alone'["shown"] => alone["shown"]
      BY <1>12, <2>2
    <3> QED BY <1>2, <3>1, <3>2, VisibilityUntouched DEF SentOther
  <2> QED BY <2>1, <2>2
<1>15. CornerFollows'
  <2>1. CASE do = "move"
    <3> SUFFICES ASSUME alone'["corner"]
                 PROVE  /\ th'[t].do = "move"
                        /\ \A u \in Threads : th'[u].do = "move" =>
                              /\ PageReady'
                              /\ \A v \in Threads : th'[v].do = "move" => v = u
                              /\ th'[u].k = 1
      BY DEF CornerFollows
    <3>1. PageReady' /\ \A u \in Threads : th'[u].do = "move" => u = t
      BY <1>12, <1>13, <2>1
    <3> QED BY <1>4, <1>5, <2>1, <3>1
  <2>2. CASE do # "move"
    <3>1. \A u \in Threads : /\ (th'[u].do = "move" <=> th[u].do = "move")
                             /\ th[u].do = "move" => th'[u].k = th[u].k /\ th'[u].to = th[u].to
      BY <1>4, <1>5, <1>6, <2>2
    <3>2. alone'["corner"] => alone["corner"]
      BY <1>12, <2>2
    <3> QED BY <1>2, <3>1, <3>2, CornerUntouched DEF SentOther
  <2> QED BY <2>1, <2>2
<1>16. PrefsFollow'
  <2> SUFFICES ASSUME alone'["prefs"]
               PROVE  /\ ~IsIdle(t)'
                      /\ \A u \in Threads : ~IsIdle(u)' =>
                            /\ PageReady' /\ ~Telling(u)'
                            /\ \A v \in Threads : ~IsIdle(v)' => v = u
    BY DEF PrefsFollow
  <2>1. PageReady' /\ \A u \in Threads : ~IsIdle(u)' => u = t
    BY <1>12, <1>13
  <2> QED BY <1>7, <2>1
<1>17. FileHoldsEveryChoice'
  BY <1>2 DEF DesktopInv, FileHoldsEveryChoice
<1> QED BY <1>11, <1>14, <1>15, <1>16, <1>17 DEF DesktopInv

LEMMA CallsHold ==
  ASSUME DesktopInv,
         \/ TrayToggle \/ TrayReposition \/ TraySetting
         \/ IpcShow \/ IpcHide \/ IpcToggle
  PROVE  DesktopInv'
<1>1. PICK t \in Threads, do \in Operations, to \in Values :
        /\ Call(t, do, to)
        /\ do \in {"show", "hide"} => to \in BOOLEAN
        /\ do = "move" => to \in Corners
  BY DEF TrayToggle, TrayReposition, TraySetting, IpcShow, IpcHide, IpcToggle, Threads, Operations, Values
<1> QED BY <1>1, CallHolds

----------------------------------------------------------------------------
\* The process, and its page.
\* A new process: no operation, nothing on its way.
LEMMA IdleThreads ==
  ASSUME \A t \in Threads : IsIdle(t)
  PROVE  \A t \in Threads : ~Showing(t) /\ th[t].do # "move" /\ ~Telling(t)
BY DesktopAssumption DEF IsIdle, Showing, ShowOps, Telling

LEMMA NothingSent ==
  /\ (\A topic : NoneOf(<<>>, topic)) /\ <<>> \in Seq(Event)
  /\ NoPage \in PageState /\ ~NoPage.loaded /\ ~NoPage.listening /\ ~NoPage.asked /\ NoPage.reply = None
<1>1. Len(<<>>) = 0 /\ 1..0 = {}
  OBVIOUS
<1> QED BY <1>1 DEF NoneOf, NoPage, PageState, Values

LEMMA DesktopInit == Init => DesktopInv
<1> SUFFICES ASSUME Init PROVE DesktopInv
  OBVIOUS
<1>1. /\ th \in [Threads -> Operation] /\ \A t \in Threads : IsIdle(t)
      /\ DefaultPrefs \in Prefs
  BY DesktopAssumption DEF Init, Operation, Idle, IsIdle, Values, DefaultPrefs, Prefs
<1>2. ThreadsTyped
  BY <1>1, IdleThreads DEF ThreadsTyped, WithinProgram
<1>3. file \in [kind : Kinds, prefs : Prefs] /\ bus \in Seq(Event) /\ alone \in [Copies -> BOOLEAN]
  BY DesktopAssumption DEF Init
<1>4. DesktopTypes
  BY <1>1, <1>2, <1>3, NothingSent DEF Init, DesktopTypes
<1>5. ~running
  BY DEF Init
<1> QED BY <1>4, <1>5
     DEF DesktopInv, FileHoldsEveryChoice, VisibilityFollows, CornerFollows, PrefsFollow

\* The process starts, and takes its state from the file.
LEMMA StartHolds ==
  ASSUME DesktopInv, Start
  PROVE  DesktopInv'
<1> DEFINE p == Loaded(file)
<1>1. /\ DesktopTypes /\ ~running /\ page = NoPage /\ bus = <<>> /\ \A t \in Threads : IsIdle(t)
  BY DEF DesktopInv, DesktopTypes, Start
<1>2. file \in [kind : Kinds, prefs : Prefs] /\ DefaultPrefs \in Prefs
  BY <1>1, DesktopAssumption DEF DesktopTypes, DefaultPrefs, Prefs
<1>3. p \in Prefs /\ (file.kind = "current" => p = file.prefs) /\ p.hidden \in BOOLEAN
  BY <1>2 DEF Loaded, Prefs
<1> HIDE DEF p
<1>4. /\ prefs' = p /\ visible' = ~p.hidden /\ shown' = ~p.hidden /\ label' = ~p.hidden
      /\ running' = TRUE /\ ready' = FALSE /\ alone' = [c \in Copies |-> TRUE]
      /\ UNCHANGED <<th, page, bus>>
      /\ \/ file' = Saved(p)
         \/ file' = file /\ failed'
         \/ file' = file /\ file.kind \in {"current", "foreign"}
  BY DEF Start, p
<1>5. ThreadsTyped' /\ (\A t \in Threads : IsIdle(t)')
  BY <1>1, <1>4, OthersStay DEF DesktopTypes, ThreadsTyped
<1>6. DesktopTypes'
  <2>1. file' \in [kind : Kinds, prefs : Prefs]
    BY <1>2, <1>3, <1>4 DEF Saved, Kinds
  <2>2. visible' \in BOOLEAN /\ prefs' \in Prefs /\ running' \in BOOLEAN /\ ready' \in BOOLEAN
        /\ alone' \in [Copies -> BOOLEAN]
    BY <1>3, <1>4
  <2> QED BY <1>1, <1>4, <1>5, <2>1, <2>2 DEF DesktopTypes
<1>7. FileHoldsEveryChoice'
  BY <1>3, <1>4 DEF FileHoldsEveryChoice, Saved
<1>8. \A t \in Threads : ~Showing(t)' /\ th'[t].do # "move"
  BY <1>1, <1>4, IdleThreads, OthersStay
<1>9. /\ ~PageReady' /\ (\A topic : NoneOf(bus', topic)) /\ ~page'.loaded /\ page'.reply = None
  BY <1>1, <1>4, NothingSent DEF PageReady
<1>10. shown' = visible' /\ label' = visible' /\ prefs'.hidden = ~visible'
  BY <1>3, <1>4
<1>11. VisibilityFollows'
  BY <1>8, <1>9, <1>10 DEF VisibilityFollows, VisibleReaches, PageGets
<1>12. CornerFollows'
  BY <1>8, <1>9 DEF CornerFollows, CornerReaches, PageGets
<1>13. PrefsFollow'
  BY <1>5, <1>9 DEF PrefsFollow, PrefsReach, PageGets
<1> QED BY <1>6, <1>7, <1>11, <1>12, <1>13 DEF DesktopInv

\* It dies or exits, in the middle of any operation.
LEMMA StopHolds ==
  ASSUME DesktopInv, Stop
  PROVE  DesktopInv'
<1>1. /\ running' = FALSE /\ ready' = FALSE /\ th' = [t \in Threads |-> Idle] /\ page' = NoPage
      /\ bus' = <<>> /\ UNCHANGED <<visible, shown, label, prefs, file, failed, alone>>
  BY DEF Stop, window, stored
<1>2. th' \in [Threads -> Operation] /\ \A t \in Threads : th'[t].do = None
  BY <1>1 DEF Operation, Idle, Values
<1>3. \A t \in Threads : IsIdle(t)' /\ WithinProgram(t)' /\ ~Showing(t)' /\ th'[t].do # "move" /\ ~Telling(t)'
  BY <1>2, DesktopAssumption DEF IsIdle, WithinProgram, Showing, ShowOps, Telling
<1>4. ThreadsTyped'
  BY <1>2, <1>3 DEF ThreadsTyped
<1>5. DesktopTypes'
  <2>1. DesktopTypes
    BY DEF DesktopInv
  <2>2. visible' \in BOOLEAN /\ prefs' \in Prefs /\ file' \in [kind : Kinds, prefs : Prefs]
        /\ alone' \in [Copies -> BOOLEAN]
    BY <1>1, <2>1 DEF DesktopTypes
  <2> QED BY <1>1, <1>3, <1>4, <2>2, NothingSent DEF DesktopTypes
<1> QED BY <1>1, <1>5
     DEF DesktopInv, FileHoldsEveryChoice, VisibilityFollows, CornerFollows, PrefsFollow

\* The tray is built, and the page loads and listens.
LEMMA SetupHolds ==
  ASSUME DesktopInv, TrayReady \/ SecondLaunch \/ UNCHANGED vars
  PROVE  DesktopInv'
<1>1. UNCHANGED <<running, visible, label, prefs, file, failed, th, page, bus>>
  BY DEF TrayReady, SecondLaunch, vars, app, window, stored
<1>2. /\ alone' \in [Copies -> BOOLEAN]
      /\ alone'["prefs"] => alone["prefs"]
      /\ alone'["corner"] => alone["corner"]
      /\ alone'["shown"] => alone["shown"] /\ shown' = shown
      /\ (ready => ready') /\ ready' \in BOOLEAN /\ (ready' => running)
  <2>0. ready \in BOOLEAN /\ (ready => running) /\ alone \in [Copies -> BOOLEAN]
    BY DEF DesktopInv, DesktopTypes
  <2>1. CASE TrayReady
    BY <2>0, <2>1 DEF TrayReady, window
  <2>2. CASE SecondLaunch
    <3>1. alone' = [alone EXCEPT !["shown"] = FALSE] /\ ready' = ready
      BY <2>2 DEF SecondLaunch, app
    <3>2. /\ alone' \in [Copies -> BOOLEAN] /\ ~alone'["shown"] /\ alone'["prefs"] = alone["prefs"]
          /\ alone'["corner"] = alone["corner"]
      BY <2>0, <3>1 DEF Copies
    <3> QED BY <2>0, <3>1, <3>2
  <2>3. CASE UNCHANGED vars
    BY <2>0, <2>3 DEF vars, app, window
  <2> QED BY <2>1, <2>2, <2>3
<1>3. \A u \in Threads : /\ (IsIdle(u)' <=> IsIdle(u)) /\ (Showing(u)' <=> Showing(u)) /\ Stage(u)' = Stage(u)
                         /\ (WithinProgram(u)' <=> WithinProgram(u)) /\ (Telling(u)' <=> Telling(u))
  BY <1>1, OthersStay
<1>4. DesktopTypes'
  <2>1. DesktopTypes /\ ThreadsTyped
    BY DEF DesktopInv, DesktopTypes
  <2>2. ThreadsTyped'
    BY <1>1, <1>3, <2>1 DEF ThreadsTyped
  <2>3. ~running' => page' = NoPage /\ bus' = <<>> /\ ~ready' /\ \A u \in Threads : IsIdle(u)'
    BY <1>1, <1>2, <1>3, <2>1 DEF DesktopTypes
  <2>4. /\ running' \in BOOLEAN /\ visible' \in BOOLEAN
        /\ page'.loaded => page'.asked /\ page'.reply = None
        /\ page'.reply # None => page'.asked
    BY <1>1, <2>1 DEF DesktopTypes
  <2>5. prefs' \in Prefs /\ file' \in [kind : Kinds, prefs : Prefs] /\ page' \in PageState /\ bus' \in Seq(Event)
    BY <1>1, <2>1 DEF DesktopTypes
  <2> QED BY <1>2, <2>2, <2>3, <2>4, <2>5 DEF DesktopTypes
<1>5. /\ (PageReady' <=> PageReady) /\ \A v : VisibleReaches(v) => VisibleReaches(v)'
      /\ (\A c : CornerReaches(c) => CornerReaches(c)') /\ (\A p : PrefsReach(p) => PrefsReach(p)')
  BY <1>1, StillReach DEF DesktopInv, SentOther
<1>6. VisibilityFollows'
  BY <1>1, <1>2, <1>3, <1>5 DEF DesktopInv, VisibilityFollows
<1>7. CornerFollows'
  BY <1>1, <1>2, CornerUntouched DEF SentOther
<1>8. PrefsFollow'
  <2> SUFFICES ASSUME running, alone["prefs"]
               PROVE  /\ (\A t \in Threads : IsIdle(t)) => PrefsReach(prefs)'
                      /\ \A t \in Threads : ~IsIdle(t) =>
                            /\ PageReady
                            /\ \A u \in Threads : ~IsIdle(u) => u = t
                            /\ Telling(t) => th[t].was = prefs
    BY <1>1, <1>2, <1>3, <1>5 DEF PrefsFollow
  <2>1. PrefsFollow
    BY DEF DesktopInv
  <2>2. PrefsReach(prefs) => PrefsReach(prefs)'
    BY <1>1, <1>5
  <2> QED BY <2>1, <2>2 DEF PrefsFollow
<1>9. FileHoldsEveryChoice'
  BY <1>1 DEF DesktopInv, FileHoldsEveryChoice
<1> QED BY <1>4, <1>6, <1>7, <1>8, <1>9 DEF DesktopInv

\* The three steps of the page that change no copy a claim is about yet.
LEMMA AnswerHolds ==
  ASSUME DesktopInv, PageListens \/ GetBootstrap \/ BootstrapArrives
  PROVE  DesktopInv'
<1>1. UNCHANGED <<running, ready, visible, shown, label, prefs, file, failed, th, bus, alone>>
  BY DEF PageListens, GetBootstrap, BootstrapArrives, app, window, stored
<1>2. DesktopTypes /\ page \in PageState
  BY DEF DesktopInv, DesktopTypes
<1>3. \A u \in Threads : /\ (IsIdle(u)' <=> IsIdle(u)) /\ (Showing(u)' <=> Showing(u)) /\ Stage(u)' = Stage(u)
                         /\ (WithinProgram(u)' <=> WithinProgram(u)) /\ (Telling(u)' <=> Telling(u))
  BY <1>1, OthersStay
<1>4. /\ page' \in PageState /\ running
      /\ page'.loaded => page'.asked /\ page'.reply = None
      /\ page'.reply # None => page'.asked
  <2>1. CASE PageListens
    BY <1>2, <2>1 DEF PageListens, DesktopTypes, PageState
  <2>2. CASE GetBootstrap
    BY <1>2, <2>2 DEF GetBootstrap, DesktopTypes, PageState
  <2>3. CASE BootstrapArrives
    <3>1. page.reply \in Prefs /\ page.asked
      BY <1>2, <2>3 DEF BootstrapArrives, DesktopTypes, PageState
    <3>2. page' = [page EXCEPT !.loaded = TRUE, !.reply = None, !.prefs = page.reply,
                               !.visible = ~page.reply.hidden, !.corner = page.reply.corner]
      BY <2>3 DEF BootstrapArrives
    <3>3. (~page.reply.hidden) \in Values /\ page.reply.corner \in Values /\ page.reply \in Values
      <4>1. page.reply.corner \in Corners
        BY <3>1 DEF Prefs
      <4>2. (~page.reply.hidden) \in BOOLEAN
        OBVIOUS
      <4> QED BY <3>1, <4>1, <4>2 DEF Values
    <3>4. running
      BY <1>2, <2>3 DEF BootstrapArrives, DesktopTypes, NoPage
    <3>5. page' = [listening |-> page.listening, asked |-> page.asked, reply |-> None, loaded |-> TRUE,
                   visible |-> ~page.reply.hidden, corner |-> page.reply.corner, prefs |-> page.reply]
      BY <1>2, <3>2 DEF PageState
    <3> QED BY <1>2, <3>1, <3>3, <3>4, <3>5 DEF PageState
  <2> QED BY <2>1, <2>2, <2>3
<1>5. ThreadsTyped'
  BY <1>1, <1>2, <1>3 DEF DesktopTypes, ThreadsTyped
<1>6. DesktopTypes'
  <2>1. /\ running' \in BOOLEAN /\ ready' \in BOOLEAN /\ visible' \in BOOLEAN /\ running'
        /\ prefs' \in Prefs /\ file' \in [kind : Kinds, prefs : Prefs] /\ bus' \in Seq(Event)
        /\ alone' \in [Copies -> BOOLEAN]
    BY <1>1, <1>2, <1>4 DEF DesktopTypes
  <2> QED BY <1>4, <1>5, <2>1 DEF DesktopTypes
\* each copy, whatever it should reach: the value the preferences have now
<1>7. PageReady => PageReady' /\ page' = page
  BY <1>2, <1>4 DEF PageReady, PageListens, GetBootstrap, BootstrapArrives, DesktopTypes, PageState
<1>8. /\ VisibleReaches(visible) /\ prefs.hidden = ~visible => VisibleReaches(visible)'
      /\ CornerReaches(prefs.corner) => CornerReaches(prefs.corner)'
      /\ PrefsReach(prefs) => PrefsReach(prefs)'
  <2>0. visible \in BOOLEAN /\ prefs \in Prefs /\ (~~visible) = visible
    BY <1>2 DEF DesktopTypes
  <2>1. CASE PageReady
    BY <1>1, <1>7, <2>1 DEF VisibleReaches, CornerReaches, PrefsReach, PageGets
  <2>2. CASE ~PageReady
    <3>1. CASE PageListens
      <4>1. /\ page'.loaded = page.loaded /\ page'.reply = page.reply /\ page'.visible = page.visible
            /\ page'.corner = page.corner /\ page'.prefs = page.prefs
        BY <1>2, <3>1 DEF PageListens, PageState
      <4>2. PageReady' => page'.loaded
        BY DEF PageReady
      <4> QED BY <1>1, <2>2, <4>1, <4>2 DEF VisibleReaches, CornerReaches, PrefsReach, PageGets
    <3>2. CASE GetBootstrap
      <4>1. /\ page'.loaded = page.loaded /\ page'.reply = prefs /\ page'.visible = page.visible
            /\ page'.corner = page.corner /\ page'.prefs = page.prefs /\ ~PageReady'
            /\ ~page.loaded
        BY <1>2, <2>2, <3>2 DEF GetBootstrap, PageState, DesktopTypes, PageReady
      <4>2. prefs.hidden = ~visible => (~page'.reply.hidden) = visible
        BY <2>0, <4>1 DEF Prefs
      <4>3. VisibleReaches(visible) /\ prefs.hidden = ~visible => VisibleReaches(visible)'
        BY <1>1, <2>2, <4>1, <4>2 DEF VisibleReaches, PageGets
      <4>4. CornerReaches(prefs.corner) => CornerReaches(prefs.corner)'
        BY <1>1, <2>2, <4>1 DEF CornerReaches, PageGets
      <4>5. PrefsReach(prefs) => PrefsReach(prefs)'
        BY <1>1, <2>2, <4>1 DEF PrefsReach, PageGets
      <4> QED BY <4>3, <4>4, <4>5
    <3>3. CASE BootstrapArrives
      <4>1. /\ page'.loaded /\ page'.reply = None /\ page'.visible = ~page.reply.hidden
            /\ page'.corner = page.reply.corner /\ page'.prefs = page.reply /\ page.reply # None
        BY <1>2, <3>3 DEF BootstrapArrives, PageState
      <4> QED BY <1>1, <2>2, <4>1 DEF VisibleReaches, CornerReaches, PrefsReach, PageGets
    <3> QED BY <3>1, <3>2, <3>3
  <2> QED BY <2>1, <2>2
<1>9. /\ PageReady => \A v : VisibleReaches(v) => VisibleReaches(v)'
      /\ PageReady => \A c : CornerReaches(c) => CornerReaches(c)'
  BY <1>1, <1>7, StillReach DEF DesktopInv, SentOther
<1>10. VisibilityFollows'
  <2>1. VisibilityFollows
    BY DEF DesktopInv
  <2> QED BY <1>1, <1>3, <1>4, <1>7, <1>8, <1>9, <2>1 DEF VisibilityFollows
<1>11. CornerFollows'
  <2>1. CornerFollows
    BY DEF DesktopInv
  <2> QED BY <1>1, <1>4, <1>7, <1>8, <1>9, <2>1 DEF CornerFollows
<1>12. PrefsFollow'
  <2>1. PrefsFollow
    BY DEF DesktopInv
  <2> QED BY <1>1, <1>3, <1>4, <1>7, <1>8, <2>1 DEF PrefsFollow
<1>13. FileHoldsEveryChoice'
  BY <1>1 DEF DesktopInv, FileHoldsEveryChoice
<1> QED BY <1>6, <1>10, <1>11, <1>12, <1>13 DEF DesktopInv

\* The page hears an event, or drops it before it listens.
LEMMA EventHolds ==
  ASSUME DesktopInv, EventArrives
  PROVE  DesktopInv'
<1> DEFINE e == Head(bus)
<1>1. /\ UNCHANGED <<running, ready, visible, shown, label, prefs, file, failed, th, alone>>
      /\ page' = Received(page, e) /\ bus' = Tail(bus) /\ bus # <<>>
  BY DEF EventArrives, app, window, stored
<1>2. DesktopTypes /\ page \in PageState /\ bus \in Seq(Event) /\ running
  BY <1>1 DEF DesktopInv, DesktopTypes
<1>3. e \in Event /\ bus' \in Seq(Event)
  BY <1>1, <1>2
<1> HIDE DEF e
<1>4. \A u \in Threads : /\ (IsIdle(u)' <=> IsIdle(u)) /\ (Showing(u)' <=> Showing(u)) /\ Stage(u)' = Stage(u)
                         /\ (WithinProgram(u)' <=> WithinProgram(u)) /\ (Telling(u)' <=> Telling(u))
  BY <1>1, OthersStay
\* what the page makes of the event
<1>5. /\ page' \in PageState
      /\ page'.listening = page.listening /\ page'.asked = page.asked
      /\ page'.loaded = page.loaded /\ page'.reply = page.reply
      /\ page'.visible = IF page.listening /\ e.topic = "visible" THEN e.value ELSE page.visible
      /\ page'.corner = IF page.listening /\ e.topic = "corner" THEN e.value ELSE page.corner
      /\ page'.prefs = IF page.listening /\ page.loaded /\ e.topic = "prefs" THEN e.value ELSE page.prefs
  <2>0. e.topic \in Topics /\ e.value \in Values
    BY <1>3 DEF Event
  <2>1. CASE ~page.listening
    BY <1>1, <1>2, <2>1 DEF Received
  <2>2. CASE page.listening /\ e.topic = "visible"
    <3>1. page' = [page EXCEPT !.visible = e.value]
      BY <1>1, <2>2 DEF Received
    <3> QED BY <1>2, <2>0, <2>2, <3>1 DEF PageState
  <2>3. CASE page.listening /\ e.topic = "corner"
    <3>1. page' = [page EXCEPT !.corner = e.value]
      BY <1>1, <2>3 DEF Received
    <3> QED BY <1>2, <2>0, <2>3, <3>1 DEF PageState
  <2>4. CASE page.listening /\ e.topic = "prefs"
    <3>1. page' = IF page.loaded THEN [page EXCEPT !.prefs = e.value] ELSE page
      BY <1>1, <2>4 DEF Received
    <3>2. CASE page.loaded
      BY <1>2, <2>0, <2>4, <3>1, <3>2 DEF PageState
    <3>3. CASE ~page.loaded
      BY <1>2, <2>4, <3>1, <3>3
    <3> QED BY <3>2, <3>3
  <2> QED BY <2>0, <2>1, <2>2, <2>3, <2>4 DEF Topics
<1>6. DesktopTypes'
  <2>1. ThreadsTyped'
    BY <1>1, <1>2, <1>4 DEF DesktopTypes, ThreadsTyped
  <2>2. /\ running' \in BOOLEAN /\ ready' \in BOOLEAN /\ visible' \in BOOLEAN /\ running'
        /\ prefs' \in Prefs /\ file' \in [kind : Kinds, prefs : Prefs]
        /\ alone' \in [Copies -> BOOLEAN]
    BY <1>1, <1>2 DEF DesktopTypes
  <2>3. /\ page'.loaded => page'.asked /\ page'.reply = None
        /\ page'.reply # None => page'.asked
    BY <1>2, <1>5 DEF DesktopTypes
  <2> QED BY <1>3, <1>5, <2>1, <2>2, <2>3 DEF DesktopTypes
<1>7. PageReady' <=> PageReady
  BY <1>5 DEF PageReady
<1>8. PageReady => page.listening /\ page.loaded
  BY DEF PageReady
<1>9. \A v : VisibleReaches(v) => VisibleReaches(v)'
  <2>1. /\ \A v : LastIs(bus, "visible", v) =>
               \/ LastIs(bus', "visible", v)
               \/ NoneOf(bus', "visible") /\ e.topic = "visible" /\ e.value = v
        /\ NoneOf(bus, "visible") => NoneOf(bus', "visible") /\ e.topic # "visible"
    BY <1>1, <1>2, TakenOff DEF e
  <2> QED BY <1>5, <1>7, <1>8, <2>1 DEF VisibleReaches, PageGets
<1>10. \A c : CornerReaches(c) => CornerReaches(c)'
  <2>1. /\ \A v : LastIs(bus, "corner", v) =>
               \/ LastIs(bus', "corner", v)
               \/ NoneOf(bus', "corner") /\ e.topic = "corner" /\ e.value = v
        /\ NoneOf(bus, "corner") => NoneOf(bus', "corner") /\ e.topic # "corner"
    BY <1>1, <1>2, TakenOff DEF e
  <2> QED BY <1>5, <1>7, <1>8, <2>1 DEF CornerReaches, PageGets
<1>11. \A p : PrefsReach(p) => PrefsReach(p)'
  <2>1. /\ \A v : LastIs(bus, "prefs", v) =>
               \/ LastIs(bus', "prefs", v)
               \/ NoneOf(bus', "prefs") /\ e.topic = "prefs" /\ e.value = v
        /\ NoneOf(bus, "prefs") => NoneOf(bus', "prefs") /\ e.topic # "prefs"
    BY <1>1, <1>2, TakenOff DEF e
  <2> QED BY <1>5, <1>7, <1>8, <2>1 DEF PrefsReach, PageGets
<1>12. VisibilityFollows'
  <2>1. VisibilityFollows
    BY DEF DesktopInv
  <2> QED BY <1>1, <1>4, <1>7, <1>9, <2>1 DEF VisibilityFollows
<1>13. CornerFollows'
  <2>1. CornerFollows
    BY DEF DesktopInv
  <2> QED BY <1>1, <1>7, <1>10, <2>1 DEF CornerFollows
<1>14. PrefsFollow'
  <2>1. PrefsFollow
    BY DEF DesktopInv
  <2> QED BY <1>1, <1>4, <1>7, <1>11, <2>1 DEF PrefsFollow
<1>15. FileHoldsEveryChoice'
  BY <1>1 DEF DesktopInv, FileHoldsEveryChoice
<1> QED BY <1>6, <1>12, <1>13, <1>14, <1>15 DEF DesktopInv

----------------------------------------------------------------------------
\* The invariant holds in every state.
LEMMA DesktopInductive == Spec => []DesktopInv
<1>1. DesktopInv /\ [Next]_vars => DesktopInv'
  <2> SUFFICES ASSUME DesktopInv, [Next]_vars PROVE DesktopInv'
    OBVIOUS
  <2>1. ASSUME NEW t \in Threads, Step(t) PROVE DesktopInv'
    BY <2>1, ReadVisibleHolds, WriteVisibleHolds, ApplyVisibilityHolds, EmitHolds, SetLabelHolds,
       PersistHolds, TellHolds DEF Step
  <2>2. CASE Page
    BY <2>2, AnswerHolds, EventHolds DEF Page
  <2> QED BY <2>1, <2>2, StartHolds, StopHolds, SetupHolds, CallsHold DEF Next
<1> QED BY <1>1, DesktopInit, PTL DEF Spec

\* Whatever the threads interleave and wherever the process dies, the file
\* holds the preferences in memory unless its last write failed, so a restart
\* loses no choice of the user that was stored (update_preferences).
THEOREM FileIsCurrent == Spec => []FileHoldsEveryChoice
BY DesktopInductive, PTL DEF DesktopInv

\* Once the threads are idle and the page has heard everything, a change that
\* met no other is in all six copies: AppState, window, label, memory, file and
\* page (set_visible, apply_corner_choice, update_preferences, App.tsx).
THEOREM ChangesReachEveryCopy == Spec => []CopiesAgree
<1>1. DesktopInv => CopiesAgree
  <2> SUFFICES ASSUME DesktopInv, running, ready, \A t \in Threads : IsIdle(t)
               PROVE  /\ alone["shown"] => /\ shown = visible /\ label = visible
                                           /\ prefs.hidden = ~visible
                                           /\ Delivered => page.visible = visible
                      /\ alone["corner"] /\ Delivered => page.corner = prefs.corner
                      /\ alone["prefs"] /\ Delivered => page.prefs = prefs
    BY DEF CopiesAgree, Settled
  <2>1. \A t \in Threads : ~Showing(t) /\ th[t].do # "move"
    BY IdleThreads
  <2>2. ASSUME Delivered, NEW topic, NEW value PROVE PageReady /\ ~LastIs(bus, topic, value)
    BY <2>2 DEF Delivered, LastIs
  <2>3. ASSUME alone["shown"]
        PROVE  /\ shown = visible /\ label = visible /\ prefs.hidden = ~visible
               /\ Delivered => page.visible = visible
    BY <2>1, <2>2, <2>3 DEF DesktopInv, VisibilityFollows, VisibleReaches, PageGets
  <2>4. ASSUME alone["corner"], Delivered PROVE page.corner = prefs.corner
    BY <2>1, <2>2, <2>4 DEF DesktopInv, CornerFollows, CornerReaches, PageGets
  <2>5. ASSUME alone["prefs"], Delivered PROVE page.prefs = prefs
    BY <2>2, <2>5 DEF DesktopInv, PrefsFollow, PrefsReach, PageGets
  <2> QED BY <2>3, <2>4, <2>5
<1> QED BY <1>1, DesktopInductive, PTL

-----------------------------------------------------------------------------
\* Where the window is.  The steps of the operations that the proof tells apart.
Placings == {"move", "size", "scale", "check", "reassert"}

LEMMA PlacementLengths ==
  /\ Len(P!Program["move"]) = 5 /\ Len(P!Program["size"]) = 5 /\ Len(P!Program["scale"]) = 10
  /\ Len(P!Program["check"]) = 6 /\ Len(P!Program["reassert"]) = 4
<1>1. P!Program["move"] = <<"insets", "measure", "set", "pin", "save">> BY DEF P!Program
<1>2. P!Program["size"] = <<"resize", "corner", "insets", "measure", "set">> BY DEF P!Program
<1>3. P!Program["scale"] = <<"corner", "insets", "measure", "set",
                             "sample", "compare", "corner", "insets", "measure", "set">>
  BY DEF P!Program
<1>4. P!Program["check"] = <<"sample", "compare", "corner", "insets", "measure", "set">>
  BY DEF P!Program
<1>5. P!Program["reassert"] = <<"corner", "insets", "measure", "set">> BY DEF P!Program
<1> QED BY <1>1, <1>2, <1>3, <1>4, <1>5

\* A reposition sets the corner and saves it after it has moved the window; nothing else does.
LEMMA PlacementSteps ==
  ASSUME NEW do \in Placings, NEW k \in 1..Len(P!Program[do])
  PROVE  LET step == P!Program[do][k]  last == Len(P!Program[do]) IN
         /\ step = "insets" => k < last /\ (do = "move" => k = 1)
         /\ step = "measure" => k < last /\ (do = "move" => k = 2)
         /\ step = "set" => (do = "move" => k = 3)
         /\ step = "pin" => do = "move" /\ k = 4
         /\ step = "save" => do = "move" /\ k = 5
         /\ step = "resize" => do = "size" /\ k = 1
         /\ step = "corner" => do # "move" /\ k < last
         /\ step \in {"sample", "compare"} => do \in {"scale", "check"} /\ k < last
         /\ do = "move" /\ k = 4 => step = "pin"
         /\ do = "move" /\ k = 5 => step = "save"
<1> USE PlacementLengths
<1>1. CASE do = "move"
  <2>1. P!Program["move"] = <<"insets", "measure", "set", "pin", "save">> BY DEF P!Program
  <2>2. Len(P!Program[do]) = 5 BY <1>1
  <2>3. k \in 1..5 BY <2>2
  <2>4. k \in {1, 2, 3, 4, 5} BY <2>3
  <2> QED BY <1>1, <2>1, <2>2, <2>4
<1>2. CASE do = "size"
  <2>1. P!Program["size"] = <<"resize", "corner", "insets", "measure", "set">> BY DEF P!Program
  <2>2. Len(P!Program[do]) = 5 BY <1>2
  <2>3. k \in 1..5 BY <2>2
  <2>4. k \in {1, 2, 3, 4, 5} BY <2>3
  <2> QED BY <1>2, <2>1, <2>2, <2>4
<1>3. CASE do = "scale"
  <2>1. P!Program["scale"] = <<"corner", "insets", "measure", "set",
                               "sample", "compare", "corner", "insets", "measure", "set">>
    BY DEF P!Program
  <2>2. Len(P!Program[do]) = 10 BY <1>3
  <2>3. k \in 1..10 BY <2>2
  <2>4. k \in {1, 2, 3, 4, 5, 6, 7, 8, 9, 10} BY <2>3
  <2> QED BY <1>3, <2>1, <2>2, <2>4
<1>4. CASE do = "check"
  <2>1. P!Program["check"] = <<"sample", "compare", "corner", "insets", "measure", "set">>
    BY DEF P!Program
  <2>2. Len(P!Program[do]) = 6 BY <1>4
  <2>3. k \in 1..6 BY <2>2
  <2>4. k \in {1, 2, 3, 4, 5, 6} BY <2>3
  <2> QED BY <1>4, <2>1, <2>2, <2>4
<1>5. CASE do = "reassert"
  <2>1. P!Program["reassert"] = <<"corner", "insets", "measure", "set">> BY DEF P!Program
  <2>2. Len(P!Program[do]) = 4 BY <1>5
  <2>3. k \in 1..4 BY <2>2
  <2>4. k \in {1, 2, 3, 4} BY <2>3
  <2> QED BY <1>5, <2>1, <2>2, <2>4
<1> QED BY <1>1, <1>2, <1>3, <1>4, <1>5 DEF Placings

\* What a thread is doing: nothing, or a step of an operation.
PlacementOperation == [do : {Nothing} \cup Placings, k : Nat, to : Corners \cup Sizes \cup {Nothing},
                       insets : Sizes \cup {Nothing}, saw : Nat]
Fits(r) == /\ r \in PlacementOperation
           /\ r.do = Nothing \/ r.k \in 1..Len(P!Program[r.do])
           /\ r.do = "move" => r.to \in Corners
           /\ r.do = "size" /\ r.k = 1 => r.to \in Sizes
PlacersTyped ==
  /\ doing = [t \in P!Threads |-> doing[t]]
  /\ \A t \in P!Threads : Fits(doing[t])
  /\ doing["watch"].do \in {Nothing, "check"} /\ doing["start"].do \in {Nothing, "reassert"}

PlacementTypes ==
  /\ {corner, saved} \subseteq Corners /\ size \in Sizes
  /\ {layout, seen, left} \subseteq Nat /\ stale \in BOOLEAN
  /\ PlacersTyped

\* The menu is about to take the k-th step of a reposition.
Repositioning(k) == doing["menu"].do = "move" /\ doing["menu"].k = k

\* CurrentCorner is ahead of the file between the two steps.
FileFollows == corner = IF Repositioning(5) THEN doing["menu"].to ELSE saved

\* The window is in CurrentCorner, or where a reposition has just moved it.
WindowFollows ==
  ~stale /\ left = 0 /\ IsFree("start") =>
    at.corner = IF Repositioning(4) THEN doing["menu"].to ELSE corner

\* The inductive invariant.
PlacementInv == PlacementTypes /\ FileFollows /\ WindowFollows

\* A step of a program leaves the operation as it was, one step on, or ends it.
LEMMA PlacerAdvances ==
  ASSUME P!PlacementAssumption, NEW r, Fits(r), r.do # Nothing
  PROVE  /\ Fits(P!Advanced(r)) /\ Fits(P!Used(r))
         /\ P!Advanced(r).do \in {Nothing, r.do} /\ P!Used(r).do = P!Advanced(r).do
         /\ P!Used(r).k = P!Advanced(r).k /\ P!Used(r).to = P!Advanced(r).to
         /\ r.k < Len(P!Program[r.do]) => P!Advanced(r) = [r EXCEPT !.k = r.k + 1]
         /\ r.k = Len(P!Program[r.do]) => P!Advanced(r).do = Nothing
<1> USE P!PlacementAssumption DEF P!PlacementAssumption
<1>1. r \in PlacementOperation /\ r.k \in 1..Len(P!Program[r.do]) /\ r.do \in Placings
  BY DEF Fits, PlacementOperation
<1>2. Len(P!Program[r.do]) \in Nat
  BY <1>1, PlacementLengths DEF Placings
<1>3. CASE r.k = Len(P!Program[r.do])
  <2>1. P!Advanced(r) = P!Idle
    BY <1>3 DEF P!Advanced
  <2> DEFINE none == [do |-> Nothing, k |-> 1, to |-> Nothing, insets |-> Nothing, saw |-> 0]
  <2>2. P!Idle = none
    BY DEF P!Idle, P!Begun
  <2>3. P!Used(r) = none
    <3>1. P!Used(r) = [none EXCEPT !.insets = Nothing, !.saw = 0]
      BY <2>1, <2>2, Zenon DEF P!Used
    <3>2. [none EXCEPT !.insets = Nothing] = none
      OBVIOUS
    <3>3. [none EXCEPT !.saw = 0] = none
      OBVIOUS
    <3> HIDE DEF none
    <3> QED BY <3>1, <3>2, <3>3
  <2>4. none \in PlacementOperation /\ none.do = Nothing
    BY DEF PlacementOperation
  <2>5. Fits(none)
    BY <2>4 DEF Fits, Placings
  <2> QED BY <1>3, <1>2, <2>1, <2>2, <2>3, <2>4, <2>5
<1>4. CASE r.k # Len(P!Program[r.do])
  <2>1. P!Advanced(r) = [r EXCEPT !.k = r.k + 1] /\ r.k < Len(P!Program[r.do])
    BY <1>1, <1>2, <1>4 DEF P!Advanced
  <2> DEFINE n == [do |-> r.do, k |-> r.k + 1, to |-> r.to, insets |-> r.insets, saw |-> r.saw]
             u == [do |-> r.do, k |-> r.k + 1, to |-> r.to, insets |-> Nothing, saw |-> 0]
  <2>2. P!Advanced(r) = n
    BY <1>1, <2>1 DEF PlacementOperation
  <2>c. P!Used(r) = u
    <3>1. P!Used(r) = [n EXCEPT !.insets = Nothing, !.saw = 0]
      BY <2>2, Zenon DEF P!Used
    <3> DEFINE i == [do |-> r.do, k |-> r.k + 1, to |-> r.to, insets |-> Nothing, saw |-> r.saw]
    <3>2. [n EXCEPT !.insets = Nothing] = i
      OBVIOUS
    <3>3. [i EXCEPT !.saw = 0] = u
      OBVIOUS
    <3> HIDE DEF n, i, u
    <3> QED BY <3>1, <3>2, <3>3
  <2>3. n \in PlacementOperation /\ u \in PlacementOperation
    BY <1>1 DEF PlacementOperation
  <2>4. r.k + 1 \in 1..Len(P!Program[r.do]) /\ r.k + 1 # 1
    BY <1>1, <1>2, <2>1
  <2>a. /\ n.do = r.do /\ n.k = r.k + 1 /\ n.to = r.to
        /\ u.do = r.do /\ u.k = r.k + 1 /\ u.to = r.to
    OBVIOUS
  <2>b. r.do = "move" => r.to \in Corners
    BY DEF Fits
  <2> HIDE DEF n, u
  <2>5. Fits(n)
    BY <2>3, <2>4, <2>a, <2>b DEF Fits
  <2>6. Fits(u)
    BY <2>3, <2>4, <2>a, <2>b DEF Fits
  <2> QED BY <2>1, <2>2, <2>c, <2>5, <2>6, <2>a, <1>4
<1> QED BY <1>3, <1>4

\* A step of one thread that leaves the rest of the types alone.
LEMMA OnePlacer ==
  ASSUME P!PlacementAssumption, PlacementTypes, NEW t \in P!Threads, NEW r, Fits(r),
         doing' = [doing EXCEPT ![t] = r],
         \/ r.do \in {Nothing, doing[t].do}
         \/ t = "menu" \/ (t = "watch" /\ r.do = "check") \/ (t = "start" /\ r.do = "reassert"),
         {corner', saved'} \subseteq Corners, size' \in Sizes,
         {layout', seen', left'} \subseteq Nat, stale' \in BOOLEAN
  PROVE  /\ PlacementTypes' /\ doing'[t] = r
         /\ \A u \in P!Threads \ {t} : doing'[u] = doing[u]
<1>1. doing' = [u \in P!Threads |-> IF u = t THEN r ELSE doing[u]]
  BY DEF PlacementTypes, PlacersTyped
<1>2. doing'[t] = r /\ \A u \in P!Threads \ {t} : doing'[u] = doing[u]
  BY <1>1
<1>3. \A u \in P!Threads : Fits(doing[u])'
  <2> SUFFICES ASSUME NEW u \in P!Threads PROVE Fits(doing'[u])
    BY DEF Fits, PlacementOperation, P!Program
  <2>1. Fits(doing[u])
    BY DEF PlacementTypes, PlacersTyped
  <2> QED BY <1>2, <2>1
<1>4. doing' = [u \in P!Threads |-> doing'[u]]
  BY <1>1, <1>2
<1>5. doing'["watch"].do \in {Nothing, "check"} /\ doing'["start"].do \in {Nothing, "reassert"}
  BY <1>2 DEF PlacementTypes, PlacersTyped, P!Threads
<1> QED BY <1>2, <1>3, <1>4, <1>5 DEF PlacementTypes, PlacersTyped

\* A step that reads: the window, the corners and the flag stay.
LEMMA ReadingStep ==
  ASSUME P!PlacementAssumption, PlacementInv, NEW t \in P!Threads, NEW r, Fits(r),
         doing' = [doing EXCEPT ![t] = r], r.do \in {Nothing, doing[t].do},
         doing[t].do = "move" => r.do = "move" /\ r.k < 4 /\ doing[t].k < 4,
         t = "start" => r.do # Nothing,
         UNCHANGED <<corner, saved, at, left, stale>>,
         size' \in Sizes, {layout', seen'} \subseteq Nat
  PROVE  PlacementInv'
<1> USE DEF PlacementInv
<1>1. /\ PlacementTypes' /\ doing'[t] = r
      /\ \A u \in P!Threads \ {t} : doing'[u] = doing[u]
  BY OnePlacer DEF PlacementTypes
<1>a. "menu" \in P!Threads /\ "start" \in P!Threads /\ Fits(doing["menu"]) /\ Fits(r)
  BY DEF PlacementTypes, PlacersTyped, P!Threads
<1>b. r.k \in Nat /\ doing[t].k \in Nat
  BY <1>a DEF P!PlacementAssumption, Fits, PlacementOperation, PlacementTypes, PlacersTyped
<1>2. \A k \in {4, 5} : Repositioning(k)' <=> Repositioning(k)
  BY <1>1, <1>a, <1>b DEF Repositioning
<1>3. Repositioning(4) \/ Repositioning(5) => doing'["menu"] = doing["menu"]
  BY <1>1, <1>a, <1>b DEF Repositioning
<1>4. IsFree("start")' => IsFree("start")
  BY <1>1, <1>a DEF IsFree
<1>5. FileFollows'
  BY <1>2, <1>3 DEF FileFollows
<1>6. WindowFollows'
  BY <1>2, <1>3, <1>4 DEF WindowFollows
<1> QED BY <1>1, <1>5, <1>6

\* A step that places the window, or gives up: it knows whether the window is in its place.
LEMMA PlacingStep ==
  ASSUME P!PlacementAssumption, PlacementInv, NEW t \in P!Threads, NEW r, Fits(r),
         doing' = [doing EXCEPT ![t] = r], r.do \in {Nothing, doing[t].do},
         doing[t].do = "move" => r.do = "move" /\ r.k = 4 /\ r.to = doing[t].to /\ doing[t].k < 4,
         UNCHANGED <<corner, saved, left, size, layout, seen>>, stale' \in BOOLEAN,
         ~stale' => at' = P!Wanted(t)
  PROVE  PlacementInv'
<1> USE DEF PlacementInv
<1>1. /\ PlacementTypes' /\ doing'[t] = r
      /\ \A u \in P!Threads \ {t} : doing'[u] = doing[u]
  BY OnePlacer DEF PlacementTypes
<1>a. "menu" \in P!Threads /\ Fits(doing["menu"])
  BY DEF PlacementTypes, PlacersTyped, P!Threads
<1>b. /\ doing["menu"].k \in Nat /\ r.k \in Nat
      /\ doing["menu"].do = "move" => doing["menu"].k \in 1..Len(P!Program["move"])
  BY <1>a, P!PlacementAssumption DEF P!PlacementAssumption, Fits, PlacementOperation
<1>2. P!At("menu", "pin") <=> Repositioning(4)
  BY <1>a, <1>b, PlacementSteps, P!PlacementAssumption
     DEF P!PlacementAssumption, P!At, P!IsFree, Repositioning, Placings, Fits, PlacementOperation
<1>c. t # "menu" => doing["menu"].do = "move" \/ ~Repositioning(4)
  BY DEF Repositioning
<1>3. t # "menu" => doing'["menu"] = doing["menu"]
  BY <1>1, <1>a
<1>4. FileFollows'
  BY <1>1, <1>3, <1>a DEF FileFollows, Repositioning
<1>5. P!Wanted(t).corner = IF doing["menu"].do = "move" /\ (t = "menu" \/ Repositioning(4))
                           THEN doing["menu"].to ELSE corner
  BY <1>2 DEF P!Wanted, P!Place
<1>6. P!Wanted(t).corner = IF Repositioning(4)' THEN doing'["menu"].to ELSE corner
  <2>1. CASE t = "menu" /\ doing["menu"].do = "move"
    BY <2>1, <1>1, <1>5 DEF Repositioning
  <2>2. CASE t = "menu" /\ doing["menu"].do # "move"
    BY <2>2, <1>1, <1>5, P!PlacementAssumption DEF P!PlacementAssumption, Repositioning
  <2>3. CASE t # "menu"
    BY <2>3, <1>3, <1>5 DEF Repositioning
  <2> QED BY <2>1, <2>2, <2>3
<1>7. WindowFollows'
  BY <1>6 DEF WindowFollows
<1> QED BY <1>1, <1>4, <1>7

\* main() places the window before the threads start.
LEMMA PlacedAtFirst ==
  ASSUME P!PlacementAssumption, P!Init
  PROVE  PlacementInv
<1> USE P!PlacementAssumption DEF P!PlacementAssumption
<1>1. doing = [t \in P!Threads |-> P!Idle]
  BY DEF P!Init
<1>2. Fits(P!Idle) /\ P!Idle.do = Nothing
  BY DEF P!Idle, P!Begun, Fits, PlacementOperation
<1>3. PlacersTyped
  BY <1>1, <1>2 DEF PlacersTyped, P!Threads
<1>a. {corner, saved} \subseteq Corners /\ size \in Sizes /\ stale \in BOOLEAN
  BY DEF P!Init
<1>b. layout = 1 /\ seen = 0 /\ left = Reassertions /\ Reassertions \in Nat
  BY DEF P!Init
<1>4. PlacementTypes
  BY <1>3, <1>a, <1>b DEF PlacementTypes
<1>5. doing["menu"].do = Nothing
  BY <1>1, <1>2 DEF P!Threads
<1>6. FileFollows /\ WindowFollows
  BY <1>5 DEF P!Init, P!Place, FileFollows, WindowFollows, Repositioning
<1> QED BY <1>4, <1>6 DEF PlacementInv

\* The main thread takes an event, the poll and the startup thread begin.
LEMMA BegunFits ==
  ASSUME P!PlacementAssumption, NEW do \in Placings, NEW to \in Corners \cup Sizes \cup {Nothing},
         do = "move" => to \in Corners, do = "size" => to \in Sizes
  PROVE  Fits(P!Begun(do, to)) /\ P!Begun(do, to).do = do /\ P!Begun(do, to).k = 1
<1>1. P!Begun(do, to) \in PlacementOperation
  BY DEF P!Begun, PlacementOperation
<1>2. 1 \in 1..Len(P!Program[do])
  <2>1. Len(P!Program[do]) \in {4, 5, 6, 10}
    BY PlacementLengths DEF Placings
  <2>2. \A n \in {4, 5, 6, 10} : 1 \in 1..n
    OBVIOUS
  <2> QED BY <2>1, <2>2
<1> QED BY <1>1, <1>2 DEF P!Begun, Fits

LEMMA OperationsBegin ==
  ASSUME P!PlacementAssumption, PlacementInv,
         P!Reposition \/ P!ChangeTextSize \/ P!ScaleFactorChanged \/ P!Poll \/ P!Reassert
  PROVE  PlacementInv'
<1> USE DEF PlacementInv
<1> DEFINE Starts(t, do, to) ==
      /\ IsFree(t) /\ doing' = [doing EXCEPT ![t] = P!Begun(do, to)]
      /\ UNCHANGED <<corner, saved, size, at, layout, seen, stale>>
<1>1. ASSUME NEW t \in P!Threads, NEW do \in Placings, NEW to \in Corners \cup Sizes \cup {Nothing},
             Starts(t, do, to),
             do = "move" => to \in Corners, do = "size" => to \in Sizes,
             t = "watch" => do = "check", t = "start" => do = "reassert",
             left' \in Nat, t # "start" => left' = left
      PROVE  PlacementInv'
  <2>1. Fits(P!Begun(do, to)) /\ P!Begun(do, to).do = do /\ P!Begun(do, to).k = 1
    BY <1>1, BegunFits
  <2>2. /\ {corner', saved'} \subseteq Corners /\ size' \in Sizes
        /\ {layout', seen', left'} \subseteq Nat /\ stale' \in BOOLEAN
    BY <1>1 DEF PlacementTypes
  <2>3. t \in {"menu", "watch", "start"} BY DEF P!Threads
  <2>4. /\ PlacementTypes' /\ doing'[t] = P!Begun(do, to)
        /\ \A u \in P!Threads \ {t} : doing'[u] = doing[u]
    BY <1>1, <2>1, <2>2, <2>3, OnePlacer
  <2>5. \A k \in {4, 5} : ~Repositioning(k)' \/ doing'["menu"] = doing["menu"]
    BY <2>1, <2>4 DEF Repositioning, P!Threads
  <2>6. \A k \in {4, 5} : Repositioning(k) => t # "menu"
    BY <1>1, P!PlacementAssumption DEF P!PlacementAssumption, Repositioning, IsFree
  <2>7. \A k \in {4, 5} : /\ Repositioning(k)' <=> Repositioning(k)
                          /\ Repositioning(k) => doing'["menu"] = doing["menu"]
    BY <2>4, <2>5, <2>6 DEF Repositioning, P!Threads
  <2>8. FileFollows'
    BY <1>1, <2>7 DEF FileFollows
  <2>9. t = "start" => ~IsFree("start")'
    BY <2>1, <2>4, P!PlacementAssumption DEF P!PlacementAssumption, IsFree, Placings
  <2>10. t # "start" => IsFree("start")' = IsFree("start")
    BY <2>4 DEF IsFree, P!Threads
  <2>11. WindowFollows'
    BY <1>1, <2>7, <2>9, <2>10 DEF WindowFollows
  <2> QED BY <2>4, <2>8, <2>11
<1> HIDE DEF PlacementInv
<1>t. left \in Nat /\ P!Threads = {"menu", "watch", "start"}
  BY DEF PlacementInv, PlacementTypes, P!Threads
<1>2. CASE P!Reposition
  <2> PICK c \in Corners : P!Choose("move", c) BY <1>2 DEF P!Reposition
  <2>1. Starts("menu", "move", c) /\ left' = left BY DEF P!Choose, IsFree, P!IsFree
  <2> QED BY <1>1, <1>t, <2>1 DEF Placings
<1>3. CASE P!ChangeTextSize
  <2> PICK s \in Sizes : P!Choose("size", s) BY <1>3 DEF P!ChangeTextSize
  <2>1. Starts("menu", "size", s) /\ left' = left BY DEF P!Choose, IsFree, P!IsFree
  <2> QED BY <1>1, <1>t, <2>1 DEF Placings
<1>4. CASE P!ScaleFactorChanged
  <2>1. Starts("menu", "scale", Nothing) /\ left' = left
    BY <1>4 DEF P!ScaleFactorChanged, P!Choose, IsFree, P!IsFree
  <2> QED BY <1>1, <1>t, <2>1 DEF Placings
<1>5. CASE P!Poll
  <2>1. Starts("watch", "check", Nothing) /\ left' = left
    BY <1>5 DEF P!Poll, IsFree, P!IsFree
  <2> QED BY <1>1, <1>t, <2>1 DEF Placings
<1>6. CASE P!Reassert
  <2>1. Starts("start", "reassert", Nothing) /\ left' = left - 1 /\ left > 0
    BY <1>6 DEF P!Reassert, IsFree, P!IsFree
  <2>2. left' \in Nat BY <1>t, <2>1
  <2> QED BY <1>1, <1>t, <2>1, <2>2 DEF Placings
<1> QED BY <1>2, <1>3, <1>4, <1>5, <1>6

\* The steps of an operation.
LEMMA OperationsStep ==
  ASSUME P!PlacementAssumption, PlacementInv, NEW t \in P!Threads, P!Step(t)
  PROVE  PlacementInv'
<1> USE P!PlacementAssumption DEF P!PlacementAssumption
<1> DEFINE m == doing[t]
           step == P!Program[m.do][m.k]
           last == Len(P!Program[m.do])
<1>0. /\ Fits(m) /\ {corner, saved} \subseteq Corners /\ size \in Sizes
      /\ {layout, seen, left} \subseteq Nat /\ stale \in BOOLEAN
      /\ t = "start" => m.do \in {Nothing, "reassert"}
  BY DEF PlacementInv, PlacementTypes, PlacersTyped
<1>1. m.do # Nothing /\ m.do \in Placings /\ m.k \in 1..last /\ m.k \in Nat /\ m.k <= last
      /\ last \in Nat
  <2>1. m.do # Nothing
    BY DEF P!Step, P!ReadInsets, P!Measure, P!GiveUp, P!SetPosition, P!Pin, P!Save, P!Resize,
           P!ReadCorner, P!Sample, P!NoSample, P!Compare, P!At, P!IsFree
  <2>2. m.do \in Placings /\ m.k \in 1..last /\ m.k \in Nat
    BY <1>0, <2>1 DEF Fits, PlacementOperation
  <2>3. last \in Nat
    BY <2>2, PlacementLengths DEF Placings
  <2> QED BY <2>1, <2>2, <2>3
<1>2. /\ step = "insets" => m.k < last /\ (m.do = "move" => m.k = 1)
      /\ step = "measure" => m.k < last /\ (m.do = "move" => m.k = 2)
      /\ step = "set" => (m.do = "move" => m.k = 3)
      /\ step = "pin" => m.do = "move" /\ m.k = 4
      /\ step = "save" => m.do = "move" /\ m.k = 5
      /\ step = "resize" => m.do = "size" /\ m.k = 1
      /\ step = "corner" => m.do # "move" /\ m.k < last
      /\ step \in {"sample", "compare"} => m.do \in {"scale", "check"} /\ m.k < last
  BY <1>1, PlacementSteps
<1>3. /\ Fits(P!Advanced(m)) /\ Fits(P!Used(m))
      /\ P!Advanced(m).do \in {Nothing, m.do} /\ P!Used(m).do = P!Advanced(m).do
      /\ P!Used(m).k = P!Advanced(m).k /\ P!Used(m).to = P!Advanced(m).to
      /\ m.k < last => P!Advanced(m) = [m EXCEPT !.k = m.k + 1]
      /\ m.k = last => P!Advanced(m).do = Nothing
  BY <1>0, <1>1, PlacerAdvances
<1>4. m.k < last => /\ P!Advanced(m).do = m.do /\ P!Advanced(m).k = m.k + 1
                    /\ P!Advanced(m).to = m.to
  BY <1>0, <1>3 DEF Fits, PlacementOperation
<1>5. Fits(P!Idle) /\ P!Idle.do = Nothing
  BY DEF P!Idle, P!Begun, Fits, PlacementOperation
<1>m. t # "menu" => m.do # "move"
  BY DEF PlacementInv, PlacementTypes, PlacersTyped, P!Threads
<1>a. m.k < last => \A r : (\/ r = [P!Advanced(m) EXCEPT !.insets = size]
                            \/ r = [P!Advanced(m) EXCEPT !.saw = layout]
                            \/ r = [P!Advanced(m) EXCEPT !.to = corner] /\ m.do # "move")
                           => Fits(r) /\ r.do = m.do /\ r.k = m.k + 1
  <2> SUFFICES ASSUME m.k < last, NEW r,
                      \/ r = [P!Advanced(m) EXCEPT !.insets = size]
                      \/ r = [P!Advanced(m) EXCEPT !.saw = layout]
                      \/ r = [P!Advanced(m) EXCEPT !.to = corner] /\ m.do # "move"
               PROVE  Fits(r) /\ r.do = m.do /\ r.k = m.k + 1
    OBVIOUS
  <2>1. P!Advanced(m) \in PlacementOperation /\ Fits(P!Advanced(m)) /\ size \in Sizes
        /\ layout \in Nat /\ corner \in Corners
    BY <1>0, <1>3 DEF Fits
  <2>2. /\ r \in PlacementOperation /\ r.do = P!Advanced(m).do /\ r.k = P!Advanced(m).k
        /\ r.to = P!Advanced(m).to \/ (m.do # "move" /\ r.to = corner)
    <3> DEFINE n == P!Advanced(m)
    <3>1. n \in PlacementOperation
      BY <2>1
    <3>2. \/ r = [n EXCEPT !.insets = size] \/ r = [n EXCEPT !.saw = layout]
          \/ r = [n EXCEPT !.to = corner] /\ m.do # "move"
      OBVIOUS
    <3> HIDE DEF n
    <3> DEFINE Like(x) == /\ x \in PlacementOperation /\ x.do = n.do /\ x.k = n.k
                          /\ x.to = n.to \/ (m.do # "move" /\ x.to = corner)
    <3>3. Like([n EXCEPT !.insets = size])
      BY <2>1, <3>1 DEF PlacementOperation
    <3>4. Like([n EXCEPT !.saw = layout])
      BY <2>1, <3>1 DEF PlacementOperation
    <3>5. m.do # "move" => Like([n EXCEPT !.to = corner])
      BY <2>1, <3>1 DEF PlacementOperation
    <3> HIDE DEF Like
    <3>6. Like(r)
      BY <3>2, <3>3, <3>4, <3>5
    <3> QED BY <3>6 DEF Like, n
  <2>3. r.k = m.k + 1 /\ r.do = m.do /\ r.k # 1 /\ m.do # Nothing
    BY <1>1, <1>4, <2>2
  <2>4. r.k \in 1..Len(P!Program[r.do]) /\ (r.do = "move" => r.to \in Corners)
    BY <1>1, <2>1, <2>2, <2>3 DEF Fits
  <2> QED BY <2>2, <2>3, <2>4 DEF Fits
\* reading
<1>6. CASE P!ReadInsets(t)
  <2> DEFINE r == [P!Advanced(m) EXCEPT !.insets = size]
  <2>1. m.k < last /\ (m.do = "move" => m.k = 1) /\ doing' = [doing EXCEPT ![t] = r]
        /\ UNCHANGED <<corner, saved, size, at, layout, seen, left, stale>>
    BY <1>2, <1>6 DEF P!ReadInsets, P!At
  <2>2. Fits(r) /\ r.do = m.do /\ r.k = m.k + 1
    BY <1>0, <1>a, <2>1
  <2>3. r.do = "move" => r.k < 4 /\ m.k < 4
    BY <2>1, <2>2
  <2> HIDE DEF r
  <2> QED BY <1>0, <1>1, <2>1, <2>2, <2>3, ReadingStep
<1>7. CASE P!Measure(t)
  <2> DEFINE r == [P!Advanced(m) EXCEPT !.saw = layout]
  <2>1. m.k < last /\ (m.do = "move" => m.k = 2) /\ doing' = [doing EXCEPT ![t] = r]
        /\ UNCHANGED <<corner, saved, size, at, layout, seen, left, stale>>
    BY <1>2, <1>7 DEF P!Measure, P!At
  <2>2. Fits(r) /\ r.do = m.do /\ r.k = m.k + 1
    BY <1>0, <1>a, <2>1
  <2>3. r.do = "move" => r.k < 4 /\ m.k < 4
    BY <2>1, <2>2
  <2> HIDE DEF r
  <2> QED BY <1>0, <1>1, <2>1, <2>2, <2>3, ReadingStep
<1>8. CASE P!ReadCorner(t)
  <2> DEFINE r == [P!Advanced(m) EXCEPT !.to = corner]
  <2>1. m.k < last /\ m.do # "move" /\ doing' = [doing EXCEPT ![t] = r]
        /\ UNCHANGED <<corner, saved, size, at, layout, seen, left, stale>>
    BY <1>2, <1>8 DEF P!ReadCorner, P!At
  <2>2. Fits(r) /\ r.do = m.do /\ r.k = m.k + 1
    BY <1>0, <1>a, <2>1
  <2> HIDE DEF r
  <2> QED BY <1>0, <1>1, <2>1, <2>2, ReadingStep
<1>9. CASE P!Sample(t)
  <2> DEFINE r == [P!Advanced(m) EXCEPT !.saw = layout]
  <2>1. m.k < last /\ m.do # "move" /\ doing' = [doing EXCEPT ![t] = r]
        /\ UNCHANGED <<corner, saved, size, at, layout, seen, left, stale>>
    BY <1>2, <1>9 DEF P!Sample, P!At
  <2>2. Fits(r) /\ r.do = m.do /\ r.k = m.k + 1
    BY <1>0, <1>a, <2>1
  <2> HIDE DEF r
  <2> QED BY <1>0, <1>1, <2>1, <2>2, ReadingStep
<1>10. CASE P!NoSample(t) \/ P!Compare(t)
  <2>1. m.do \in {"scale", "check"} /\ t # "start" /\ {layout', seen'} \subseteq Nat
        /\ UNCHANGED <<corner, saved, size, at, left, stale>>
    BY <1>0, <1>2, <1>10 DEF P!NoSample, P!Compare, P!At, Fits, PlacementOperation
  <2>2. \/ doing' = [doing EXCEPT ![t] = P!Idle]
        \/ doing' = [doing EXCEPT ![t] = P!Used(m)]
    BY <1>10 DEF P!NoSample, P!Compare
  <2>3. CASE doing' = [doing EXCEPT ![t] = P!Idle]
    BY <1>0, <1>5, <2>1, <2>3, ReadingStep
  <2>4. CASE doing' = [doing EXCEPT ![t] = P!Used(m)]
    BY <1>0, <1>3, <2>1, <2>4, ReadingStep
  <2> QED BY <2>2, <2>3, <2>4
<1>11. CASE P!Resize(t)
  <2>1. m.do = "size" /\ m.k = 1 /\ doing' = [doing EXCEPT ![t] = P!Advanced(m)] /\ size' = m.to
        /\ UNCHANGED <<corner, saved, at, layout, seen, left, stale>>
    BY <1>2, <1>11 DEF P!Resize, P!At, P!Advance
  <2>2. size' \in Sizes /\ t # "start"
    BY <1>0, <2>1 DEF Fits
  <2> QED BY <1>0, <1>3, <2>1, <2>2, ReadingStep
\* placing
<1>12. CASE P!GiveUp(t)
  <2> DEFINE r == P!Used(P!Advanced(m))
  <2>1. m.k < last /\ (m.do = "move" => m.k = 2) /\ doing' = [doing EXCEPT ![t] = r]
        /\ UNCHANGED <<corner, saved, size, at, layout, seen, left>>
        /\ stale' = (stale \/ at # P!Wanted(t))
    BY <1>2, <1>12 DEF P!GiveUp, P!At
  <2>2. /\ P!Advanced(m).do = m.do /\ P!Advanced(m).k = m.k + 1 /\ P!Advanced(m).to = m.to
        /\ Fits(P!Advanced(m))
    BY <1>3, <1>4, <2>1
  <2>3. /\ Fits(r) /\ r.do \in {Nothing, m.do} /\ r.k = P!Advanced(P!Advanced(m)).k
        /\ r.to = P!Advanced(P!Advanced(m)).to /\ r.do = P!Advanced(P!Advanced(m)).do
        /\ m.k + 1 < last => P!Advanced(P!Advanced(m)) = [P!Advanced(m) EXCEPT !.k = m.k + 2]
    BY <1>1, <2>2, PlacerAdvances
  <2>4. ASSUME m.do = "move" PROVE r.do = "move" /\ r.k = 4 /\ r.to = m.to /\ m.k < 4
    <3>1. m.k = 2 /\ last = 5
      BY <2>1, <2>4, PlacementLengths
    <3>2. P!Advanced(P!Advanced(m)) = [P!Advanced(m) EXCEPT !.k = 4]
      BY <2>3, <3>1
    <3> QED BY <2>2, <2>3, <2>4, <3>1, <3>2 DEF Fits, PlacementOperation
  <2>5. stale' \in BOOLEAN /\ (~stale' => at' = P!Wanted(t))
    BY <1>0, <2>1
  <2> HIDE DEF r
  <2> QED BY <2>1, <2>3, <2>4, <2>5, PlacingStep
<1>13. CASE P!SetPosition(t)
  <2> DEFINE r == P!Used(m)
  <2>1. (m.do = "move" => m.k = 3) /\ doing' = [doing EXCEPT ![t] = r]
        /\ UNCHANGED <<corner, saved, size, layout, seen, left>>
    BY <1>2, <1>13 DEF P!SetPosition, P!At
  <2>2. stale' \in BOOLEAN /\ (~stale' => at' = P!Wanted(t))
    BY <1>13 DEF P!SetPosition, P!Wanted
  <2>3. ASSUME m.do = "move" PROVE r.do = "move" /\ r.k = 4 /\ r.to = m.to /\ m.k < 4
    <3>1. m.k = 3 /\ last = 5
      BY <2>1, <2>3, PlacementLengths
    <3> QED BY <1>3, <1>4, <2>3, <3>1
  <2>4. Fits(r) /\ r.do \in {Nothing, m.do}
    BY <1>3
  <2> HIDE DEF r
  <2> QED BY <2>1, <2>2, <2>3, <2>4, PlacingStep
\* the last two steps of a reposition
<1>14. CASE P!Pin(t) \/ P!Save(t)
  <2>1. /\ m.do = "move" /\ t = "menu" /\ m.to \in Corners
        /\ doing' = [doing EXCEPT ![t] = P!Advanced(m)]
        /\ UNCHANGED <<size, at, layout, seen, left, stale>>
        /\ \/ m.k = 4 /\ corner' = m.to /\ saved' = saved
           \/ m.k = 5 /\ saved' = m.to /\ corner' = corner
    BY <1>0, <1>2, <1>14, <1>m DEF P!Pin, P!Save, P!At, P!Advance, Fits
  <2>2. {corner', saved'} \subseteq Corners /\ stale' \in BOOLEAN /\ size' \in Sizes
        /\ {layout', seen', left'} \subseteq Nat
    BY <1>0, <2>1
  <2>3. /\ PlacementTypes' /\ doing'["menu"] = P!Advanced(m)
        /\ doing'["start"] = doing["start"]
    BY <1>3, <2>1, <2>2, OnePlacer DEF PlacementInv, P!Threads
  <2>4. last = 5
    BY <2>1, PlacementLengths
  <2>5. IsFree("start")' = IsFree("start")
    BY <2>3 DEF IsFree
  <2>6. CASE m.k = 4
    <3>1. corner' = m.to /\ saved' = saved /\ Repositioning(4) /\ ~Repositioning(5)
      BY <2>1, <2>6 DEF Repositioning
    <3>a. P!Advanced(m).do = "move" /\ P!Advanced(m).k = 5 /\ P!Advanced(m).to = m.to
      <4>1. m.k < last /\ m.k + 1 = 5
        BY <2>4, <2>6
      <4> QED BY <1>4, <2>1, <4>1
    <3>2. Repositioning(5)' /\ ~Repositioning(4)' /\ doing'["menu"].to = m.to
      BY <2>3, <3>a DEF Repositioning
    <3> QED BY <2>1, <2>3, <2>5, <3>1, <3>2 DEF PlacementInv, FileFollows, WindowFollows
  <2>7. CASE m.k = 5
    <3>1. saved' = m.to /\ corner' = corner /\ Repositioning(5) /\ ~Repositioning(4)
      BY <2>1, <2>7 DEF Repositioning
    <3>2. ~Repositioning(5)' /\ ~Repositioning(4)'
      BY <1>3, <2>3, <2>4, <2>7 DEF Repositioning
    <3> QED BY <2>1, <2>3, <2>5, <3>1, <3>2 DEF PlacementInv, FileFollows, WindowFollows
  <2> QED BY <2>1, <2>6, <2>7
<1> QED BY <1>6, <1>7, <1>8, <1>9, <1>10, <1>11, <1>12, <1>13, <1>14 DEF P!Step

\* The monitors change, or the window manager puts the window elsewhere.
LEMMA OutsideStepsHold ==
  ASSUME P!PlacementAssumption, PlacementInv, P!LayoutChanges \/ (\E c \in Corners : P!Elsewhere(c)) \/ UNCHANGED P!vars
  PROVE  PlacementInv'
<1> USE P!PlacementAssumption DEF P!PlacementAssumption, PlacementInv
<1>1. /\ UNCHANGED <<corner, saved, size, seen, doing, left, stale>> /\ layout' \in Nat
      /\ at' = at \/ left # 0
  BY DEF P!LayoutChanges, P!Elsewhere, P!vars, PlacementTypes
<1>2. PlacementTypes'
  BY <1>1 DEF PlacementTypes, PlacersTyped, Fits, PlacementOperation, P!Program
<1>3. FileFollows' /\ WindowFollows'
  BY <1>1 DEF FileFollows, WindowFollows, Repositioning, IsFree
<1> QED BY <1>2, <1>3

\* The invariant holds in every state.
LEMMA PlacementInductive ==
  ASSUME P!PlacementAssumption
  PROVE  P!Spec => []PlacementInv
<1>0. P!Init => PlacementInv
  BY PlacedAtFirst
<1>1. PlacementInv /\ [P!Next]_P!vars => PlacementInv'
  BY OperationsBegin, OperationsStep, OutsideStepsHold DEF P!Next
<1> QED BY <1>0, <1>1, PTL DEF P!Spec

\* While the main thread is idle, CurrentCorner and the saved corner agree; and
\* once the startup reassertions are over the window stands in that corner,
\* unless the placement that moved it last went by something out of date, or
\* gave up (main.rs, display_watch.rs).
THEOREM CornersAgree ==
  ASSUME P!PlacementAssumption
  PROVE  P!Spec => []CornerAgrees
<1>1. PlacementInv => CornerAgrees
  <2> SUFFICES ASSUME PlacementInv, IsFree("menu") PROVE CornerAgrees
    BY DEF CornerAgrees
  <2>1. ~Repositioning(4) /\ ~Repositioning(5)
    BY P!PlacementAssumption DEF P!PlacementAssumption, IsFree, Repositioning
  <2> QED BY <2>1 DEF PlacementInv, FileFollows, WindowFollows, CornerAgrees
<1> QED BY <1>1, PlacementInductive, PTL
=============================================================================
