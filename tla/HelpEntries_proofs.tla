------------------------- MODULE HelpEntries_proofs -------------------------
(***************************************************************************)
(* Lemmas about the operations on the help queue, for any contestants,     *)
(* stations and instants: they keep the queue well formed, the head of a   *)
(* nonempty queue is one of its entries, and what an operation leaves      *)
(* alone.                                                                  *)
(***************************************************************************)
EXTENDS HelpEntries, WellFoundedInduction, TLAPS

\* A queue on which n requests have been accepted.
SoundQueue(q, n) ==
  /\ q \in Queue
  /\ OneEach(q)
  /\ RequestsDiffer(q)
  /\ \A e \in q.entries : e.req \in 1..n

\* A nonempty set of naturals has a least element (the code compares times
\* and arrival order, both naturals).
LEMMA LeastNatural ==
  ASSUME NEW T, T \subseteq Nat, T # {}
  PROVE  \E x \in T : \A y \in T : x <= y
<1> DEFINE R == OpToRel(<, Nat)
<1>1. \E x \in T : \A y \in T : ~ (<<y, x>> \in R)
  <2> HIDE DEF R
  <2> QED BY NatLessThanWellFounded, WFMin, Zenon DEF R
<1>2. \A x, y \in Nat : y < x => <<y, x>> \in R
  BY DEF OpToRel
<1> HIDE DEF R
<1>3. PICK x \in T : \A y \in T : ~ (<<y, x>> \in R)
  BY <1>1
<1>4. ASSUME NEW y \in T PROVE x <= y
  <2>1. x \in Nat /\ y \in Nat
    OBVIOUS
  <2>2. ~ (y < x)
    BY <1>2, <1>3, <2>1, Zenon
  <2> QED BY <2>1, <2>2
<1> QED BY <1>4

\* The head of a nonempty queue (entries[0], for which scheduleHeadNotification
\* arms a job) is an entry of the queue, and nobody is before it.
LEMMA HeadIsEntry ==
  ASSUME NEW q \in Queue, RequestsDiffer(q), q.entries # {}
  PROVE  /\ HeadEntry(q) \in q.entries
         /\ \A f \in q.entries \ {HeadEntry(q)} : Before(HeadEntry(q), f)
<1>0. \A e \in q.entries : e \in Entry /\ e.at \in Nat /\ e.req \in Nat
  BY DEF Queue, Entry
<1> DEFINE times == {e.at : e \in q.entries}
<1>1. PICK t \in times : \A u \in times : t <= u
  BY <1>0, LeastNatural
<1> DEFINE first == {e \in q.entries : e.at = t}
           reqs  == {e.req : e \in first}
<1>2. PICK r \in reqs : \A s \in reqs : r <= s
  <2>1. reqs \subseteq Nat
    BY <1>0
  <2>2. reqs # {}
    BY <1>1
  <2> QED BY <2>1, <2>2, LeastNatural
<1>3. PICK e \in first : e.req = r
  BY <1>2
<1>4. \A f \in q.entries \ {e} : Before(e, f)
  <2> SUFFICES ASSUME NEW f \in q.entries \ {e} PROVE Before(e, f)
    OBVIOUS
  <2>1. e.at <= f.at
    BY <1>1, <1>3
  <2>2. CASE e.at = f.at
    <3>1. e.req <= f.req
      BY <1>2, <1>3, <2>2
    <3>2. e.req # f.req
      BY <1>3 DEF RequestsDiffer
    <3> QED BY <1>0, <1>3, <2>2, <3>1, <3>2 DEF Before
  <2>3. CASE e.at # f.at
    BY <1>0, <1>3, <2>1, <2>3 DEF Before
  <2> QED BY <2>2, <2>3
<1>5. \E x \in q.entries : \A f \in q.entries \ {x} : Before(x, f)
  BY <1>3, <1>4
<1> QED BY <1>5 DEF HeadEntry

\* HELP_REQUEST keeps the queue well formed.
LEMMA RequestKeepsSound ==
  ASSUME NEW n \in Nat, NEW q, SoundQueue(q, n), NEW c \in Contestants, NEW at \in Nat,
         ~IsInQueue(q, c)
  PROVE  /\ SoundQueue(HelpRequest(q, c, at, n + 1), n + 1)
         /\ HelpRequest(q, c, at, n + 1).entries =
              q.entries \cup {[contestant |-> c, station |-> NoStation, at |-> at, req |-> n + 1]}
<1> DEFINE new == [contestant |-> c, station |-> NoStation, at |-> at, req |-> n + 1]
           p == HelpRequest(q, c, at, n + 1)
<1>1. p = [version |-> q.version + 1, entries |-> q.entries \cup {new}]
  BY DEF HelpRequest, Bumped
<1>2. new \in Entry /\ new.req = n + 1 /\ new.contestant = c
  BY DEF Entry
<1> HIDE DEF new
<1>3. p \in Queue
  BY <1>1, <1>2 DEF SoundQueue, Queue
<1>4. \A e \in q.entries : e.contestant # c /\ e.req \in 1..n
  BY DEF SoundQueue, IsInQueue, EntriesOf
<1>5. OneEach(p)
  BY <1>1, <1>2, <1>4 DEF OneEach, SoundQueue
<1>6. RequestsDiffer(p)
  BY <1>1, <1>2, <1>4 DEF RequestsDiffer, SoundQueue
<1>7. \A e \in p.entries : e.req \in 1..(n + 1)
  BY <1>1, <1>2, <1>4
<1>8. p.entries = q.entries \cup {new}
  BY <1>1
<1> HIDE DEF p
<1> QED BY <1>3, <1>5, <1>6, <1>7, <1>8 DEF SoundQueue, p, new

\* HELP_CANCEL keeps the queue well formed and touches only the one who left.
LEMMA CancelKeepsSound ==
  ASSUME NEW n \in Nat, NEW q, SoundQueue(q, n), NEW c \in Contestants
  PROVE  /\ SoundQueue(HelpCancel(q, c), n)
         /\ HelpCancel(q, c).entries = {e \in q.entries : e.contestant # c}
<1> DEFINE p == HelpCancel(q, c)
<1>1. p.entries = {e \in q.entries : e.contestant # c}
  BY DEF HelpCancel, IsInQueue, EntriesOf, Bumped
<1>2. p \in Queue
  BY DEF HelpCancel, Bumped, SoundQueue, Queue
<1> HIDE DEF p
<1>3. SoundQueue(p, n)
  BY <1>1, <1>2 DEF SoundQueue, OneEach, RequestsDiffer
<1> QED BY <1>1, <1>3 DEF p

\* An ack that names the current version removes the contestant as a cancel
\* does; any other ack changes nothing.
LEMMA AckIsCancel ==
  ASSUME NEW q, NEW c, NEW v
  PROVE  /\ v = q.version => HelpAck(q, c, v) = HelpCancel(q, c)
         /\ v # q.version => HelpAck(q, c, v) = q
BY DEF HelpAck, HelpCancel

\* The station lookup keeps the queue well formed and who waits for what.
LEMMA StationKeepsSound ==
  ASSUME NEW n \in Nat, NEW q, SoundQueue(q, n), NEW c \in Contestants,
         NEW s \in Stations \cup {NoStation}
  PROVE  /\ SoundQueue(StationFound(q, c, s), n)
         /\ \A d \in Contestants, r \in Nat :
              Waits(StationFound(q, c, s), d, r) <=> Waits(q, d, r)
         /\ \A d \in Contestants : IsInQueue(StationFound(q, c, s), d) <=> IsInQueue(q, d)
<1> DEFINE p == StationFound(q, c, s)
           old == EntriesOf(q, c)
           new == {[e EXCEPT !.station = s] : e \in old}
<1>1. CASE p = q
  BY <1>1
<1>2. CASE p # q
  <2>1. p = [version |-> q.version + 1, entries |-> (q.entries \ old) \cup new]
    BY <1>2 DEF StationFound, Bumped
  <2>2. \A e \in q.entries : e \in Entry
    BY DEF SoundQueue, Queue
  <2>3. \A e \in old : [e EXCEPT !.station = s] =
           [contestant |-> e.contestant, station |-> s, at |-> e.at, req |-> e.req]
    BY <2>2 DEF EntriesOf, Entry
  <2>4. \A f \in new : \E e \in old :
           f = [contestant |-> e.contestant, station |-> s, at |-> e.at, req |-> e.req]
    BY <2>3
  <2>5. \A e \in old :
           [contestant |-> e.contestant, station |-> s, at |-> e.at, req |-> e.req] \in new
    BY <2>3
  <2>6. \A e \in q.entries : e \in old <=> e.contestant = c
    BY DEF EntriesOf
  <2>7. old \subseteq q.entries
    BY DEF EntriesOf
  <2> HIDE DEF old, new
  <2>8. p \in Queue
    <3>1. \A f \in new : f \in Entry
      BY <2>2, <2>4, <2>7 DEF Entry
    <3>2. (q.entries \ old) \cup new \in SUBSET Entry
      BY <2>2, <3>1
    <3> QED BY <2>1, <3>2 DEF SoundQueue, Queue
  <2>9. p.entries = (q.entries \ old) \cup new
    BY <2>1
  <2> HIDE DEF p
  <2>10. \A f \in p.entries : \E e \in q.entries :
            /\ f.contestant = e.contestant /\ f.req = e.req
            /\ (f = e \/ (e \in old /\ f = [contestant |-> e.contestant, station |-> s,
                                             at |-> e.at, req |-> e.req]))
    BY <2>4, <2>7, <2>9
  <2>11. \A e \in q.entries : \E f \in p.entries :
            f.contestant = e.contestant /\ f.req = e.req
    <3> SUFFICES ASSUME NEW e \in q.entries
                 PROVE  \E f \in p.entries : f.contestant = e.contestant /\ f.req = e.req
      OBVIOUS
    <3>1. CASE e \in old
      <4> DEFINE f == [contestant |-> e.contestant, station |-> s, at |-> e.at, req |-> e.req]
      <4>1. f \in p.entries
        BY <2>5, <2>9, <3>1
      <4>2. f.contestant = e.contestant /\ f.req = e.req
        OBVIOUS
      <4> HIDE DEF f
      <4> QED BY <4>1, <4>2
    <3>2. CASE e \notin old
      BY <2>9, <3>2
    <3> QED BY <3>1, <3>2
  <2>12. OneEach(p)
    <3> SUFFICES ASSUME NEW f \in p.entries, NEW g \in p.entries,
                        f.contestant = g.contestant
                 PROVE  f = g
      BY DEF OneEach
    <3>1. PICK e \in q.entries :
            /\ f.contestant = e.contestant /\ (f \in new => e \in old)
            /\ ((f = e /\ f \notin new)
                \/ (e \in old /\ f = [contestant |-> e.contestant, station |-> s,
                                      at |-> e.at, req |-> e.req]))
      BY <2>4, <2>7, <2>9
    <3>2. PICK d \in q.entries :
            /\ g.contestant = d.contestant /\ (g \in new => d \in old)
            /\ ((g = d /\ g \notin new)
                \/ (d \in old /\ g = [contestant |-> d.contestant, station |-> s,
                                      at |-> d.at, req |-> d.req]))
      BY <2>4, <2>7, <2>9
    <3>3. e = d
      BY <3>1, <3>2 DEF SoundQueue, OneEach
    <3>4. f \in new <=> e \in old
      BY <2>5, <2>9, <3>1
    <3>5. g \in new <=> d \in old
      BY <2>5, <2>9, <3>2
    <3> QED BY <2>5, <3>1, <3>2, <3>3, <3>4, <3>5
  <2>13. RequestsDiffer(p)
    <3> SUFFICES ASSUME NEW f \in p.entries, NEW g \in p.entries, f.req = g.req
                 PROVE  f = g
      BY DEF RequestsDiffer
    <3>1. PICK e \in q.entries : f.contestant = e.contestant /\ f.req = e.req
      BY <2>10
    <3>2. PICK d \in q.entries : g.contestant = d.contestant /\ g.req = d.req
      BY <2>10
    <3>3. e = d
      BY <3>1, <3>2 DEF SoundQueue, RequestsDiffer
    <3> QED BY <2>12, <3>1, <3>2, <3>3 DEF OneEach
  <2>14. \A f \in p.entries : f.req \in 1..n
    BY <2>10 DEF SoundQueue
  <2>15. SoundQueue(p, n)
    BY <2>8, <2>12, <2>13, <2>14 DEF SoundQueue
  <2>16. \A d \in Contestants, r \in Nat : Waits(p, d, r) <=> Waits(q, d, r)
    BY <2>10, <2>11 DEF Waits
  <2>17. \A d \in Contestants : IsInQueue(p, d) <=> IsInQueue(q, d)
    BY <2>10, <2>11 DEF IsInQueue, EntriesOf
  <2> QED BY <2>15, <2>16, <2>17 DEF p
<1> QED BY <1>1, <1>2
============================================================================
