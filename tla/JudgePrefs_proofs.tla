------------------------- MODULE JudgePrefs_proofs -------------------------
(***************************************************************************)
(* For any judges, contacts, settings pages and bounds: a pending contact  *)
(* has its code, whoever is notified has confirmed the contact, and nobody *)
(* is silenced who did not opt out.  The argument: a request under way     *)
(* carries a code only for the contact it carries.                         *)
(*                                                                         *)
(* For any calendar: both evaluators of quiet hours say what the windows   *)
(* of the reference say.  The argument: a minute of the week is a day and  *)
(* a minute of that day in one way only, and the minutes of a window after *)
(* midnight are those of the day after, the last day's of the first.       *)
(*                                                                         *)
(* For any windows, accounts and times: the browser is the judge's who     *)
(* signed in, an active judge stays signed in, and a login no other window *)
(* disturbed completes.  The argument: no other session is under way; a    *)
(* session is never issued long before the last use; and the state of a    *)
(* login is one window's, whose cookie is still there.                     *)
(***************************************************************************)
EXTENDS JudgePrefs, LoginState, SequenceTheorems, TLAPS

CONSTANTS MaxLogins, MaxClock
VARIABLE logins

\* Columns of a row and the requests under way; the other fields are free.
Typed ==
  /\ row \in [Judges -> Row]
  /\ request \in [Tabs -> {Idle} \cup Put \cup Verify]
  /\ messages \in Seq(JudgeContact)
  /\ optOuts \in SUBSET JudgeContact

\* A code stands for one contact of one judge, and its message was sent.
CodeFor(code, j, contact) ==
  code \in DOMAIN messages /\ messages[code] = [judge |-> j, contact |-> contact]

\* What a save is about to write, and what a verification has checked.
RequestsCarryTheirCode ==
  \A t \in Tabs :
    LET r == request[t]
    IN /\ r.op = "put" => /\ r.body = None /\ r.body # r.seen => r.code = NoCode
                          /\ r.body # None /\ r.body # r.seen => CodeFor(r.code, Owner[t], r.body)
       /\ r.op = "verify" => CodeFor(r.code, Owner[t], r.contact)

RowsCarryTheirCode ==
  \A j \in Judges :
    /\ row[j].status = "pending" <=> row[j].code # NoCode
    /\ row[j].code # NoCode => CodeFor(row[j].code, j, row[j].contact)

VerifiedIsConfirmed ==
  \A j \in Judges \ crossed : row[j].status = "verified" => ContactOf(j) \in confirmed

IInv ==
  /\ Typed
  /\ RequestsCarryTheirCode
  /\ RowsCarryTheirCode
  /\ VerifiedIsConfirmed
  /\ OptedOutHasAsked

LEMMA InitHolds == Init => IInv
<1> SUFFICES ASSUME Init PROVE IInv
  OBVIOUS
<1>1. NewRow \in Row
  BY DEF NewRow, Row, ContactOrNone, Status, NoCode, Fields, NoQuiet, QuietSpec
<1>2. Typed
  BY <1>1, EmptySeq DEF Init, Typed
<1> QED
  BY <1>2
     DEF Init, IInv, RequestsCarryTheirCode, RowsCarryTheirCode, VerifiedIsConfirmed,
              OptedOutHasAsked, Idle, NewRow

\* The fields that are written are fields again.
LEMMA MergedFields ==
  ASSUME NEW fields \in Fields, NEW old \in Fields
  PROVE  Merged(fields, old) \in Fields
<1>1. fields.quiet \in QuietSpec /\ old.quiet \in QuietSpec
  BY DEF Fields
<1>2. /\ OrElse(fields.quiet.start, old.quiet.start) \in MinutesOfDay \cup {None}
      /\ OrElse(fields.quiet.end, old.quiet.end) \in MinutesOfDay \cup {None}
  BY <1>1 DEF OrElse, QuietSpec
<1> QED BY <1>1, <1>2 DEF Merged, Fields, QuietSpec

\* Messages that were sent stay sent.
LEMMA CodesKept ==
  ASSUME Typed, NEW m \in JudgeContact, messages' = messages \/ messages' = Append(messages, m),
         NEW code, NEW j, NEW contact, CodeFor(code, j, contact)
  PROVE  CodeFor(code, j, contact)'
<1>1. CASE messages' = Append(messages, m)
  <2>1. /\ Len(messages) \in Nat /\ DOMAIN messages = 1..Len(messages)
        /\ Len(messages') = Len(messages) + 1 /\ DOMAIN messages' = 1..Len(messages')
        /\ \A i \in 1..Len(messages) : messages'[i] = messages[i]
    BY <1>1, LenProperties, AppendProperties DEF Typed
  <2> QED BY <2>1 DEF CodeFor
<1> QED BY <1>1 DEF CodeFor

LEMMA SaveBeginsHolds ==
  ASSUME IInv, NEW t \in Tabs, NEW body \in ContactOrNone, NEW fields \in Choices,
         SaveBegins(t, body, fields)
  PROVE  IInv'
<1> DEFINE j == Owner[t]
           seen == row[j]
           fresh == body # None /\ body # seen.contact
           code == IF fresh THEN Len(messages) + 1 ELSE NoCode
           m == [judge |-> j, contact |-> body]
           r == [op |-> "put", seen |-> seen.contact, body |-> body,
                 fields |-> Merged(fields, seen.fields), code |-> code]
<1>1. /\ j \in Judges /\ seen \in Row /\ messages \in Seq(JudgeContact)
      /\ Len(messages) \in Nat /\ fields \in Fields
  BY OwnerAssumption, ChoiceAssumption, LenProperties DEF IInv, Typed
<1>2. code \in Codes \cup {NoCode}
  BY <1>1 DEF SaveBegins, Codes
<1>3. r \in Put
  BY <1>1, <1>2, MergedFields DEF Put, Row
<1>4. /\ request' = [request EXCEPT ![t] = r]
      /\ messages' = IF fresh THEN Append(messages, m) ELSE messages
      /\ UNCHANGED <<row, optOuts, confirmed, optedOut, crossed>>
  BY DEF SaveBegins, prefVars
<1>5. fresh => m \in JudgeContact
  BY <1>1 DEF JudgeContact, ContactOrNone
<1>6. Typed'
  <2>1. messages' \in Seq(JudgeContact)
    BY <1>1, <1>4, <1>5, AppendProperties
  <2> QED BY <1>3, <1>4, <2>1 DEF IInv, Typed
<1>7. fresh => code \in DOMAIN messages' /\ messages'[code] = m
  <2> SUFFICES ASSUME fresh PROVE code \in DOMAIN messages' /\ messages'[code] = m
    OBVIOUS
  <2>1. /\ DOMAIN messages' = 1..(Len(messages) + 1)
        /\ messages'[Len(messages) + 1] = m
    BY <1>1, <1>4, <1>5, AppendProperties, LenProperties
  <2> QED BY <1>1, <2>1
<1>8. \A c, i, contact : CodeFor(c, i, contact) => CodeFor(c, i, contact)'
  BY <1>4, <1>5, CodesKept DEF IInv, CodeFor
<1>9. RequestsCarryTheirCode'
  <2>1. r.op = "put" /\ r.body = body /\ r.seen = seen.contact /\ r.code = code
    OBVIOUS
  <2>2. request'[t] = r /\ \A u \in Tabs \ {t} : request'[u] = request[u]
    BY <1>4 DEF IInv, Typed
  <2> HIDE DEF r
  <2> SUFFICES ASSUME NEW u \in Tabs
               PROVE  /\ request'[u].op = "put" /\ request'[u].body # request'[u].seen =>
                           IF request'[u].body = None THEN request'[u].code = NoCode
                           ELSE /\ request'[u].code \in DOMAIN messages'
                                /\ messages'[request'[u].code]
                                     = [judge |-> Owner[u], contact |-> request'[u].body]
                      /\ request'[u].op = "verify" =>
                           /\ request'[u].code \in DOMAIN messages'
                           /\ messages'[request'[u].code]
                                = [judge |-> Owner[u], contact |-> request'[u].contact]
    BY DEF RequestsCarryTheirCode, CodeFor
  <2>3. CASE u = t
    BY <1>7, <2>1, <2>2, <2>3
  <2>4. CASE u # t
    BY <1>8, <2>2, <2>4 DEF IInv, RequestsCarryTheirCode, CodeFor
  <2> QED BY <2>3, <2>4
<1>10. RowsCarryTheirCode'
  BY <1>4, <1>8 DEF IInv, RowsCarryTheirCode, CodeFor
<1> QED
  BY <1>4, <1>6, <1>9, <1>10
     DEF IInv, VerifiedIsConfirmed, OptedOutHasAsked, ContactOf

\* What a write to the judge j leaves must be in order for j: the others keep
\* their rows, and the requests under way theirs.
LEMMA WriteHolds ==
  ASSUME IInv, NEW j \in Judges, NEW new \in Row, row' = [row EXCEPT ![j] = new],
         UNCHANGED messages, optOuts' \subseteq optOuts,
         \/ UNCHANGED request
         \/ \E t \in Tabs : request' = [request EXCEPT ![t] = Idle],
         new.status = "pending" <=> new.code # NoCode,
         new.code # NoCode => CodeFor(new.code, j, new.contact),
         crossed \subseteq crossed', optedOut \subseteq optedOut',
         \A o \in confirmed \ confirmed' : o.judge = j,
         j \notin crossed' /\ new.status = "verified"
           => [judge |-> j, contact |-> new.contact] \in confirmed',
         j \notin crossed' /\ new.status = "opted_out" => new.contact \in optedOut'
  PROVE  IInv'
<1>1. row'[j] = new /\ \A i \in Judges \ {j} : row'[i] = row[i]
  BY DEF IInv, Typed
<1>2. request' \in [Tabs -> {Idle} \cup Put \cup Verify]
  BY DEF IInv, Typed
<1>3. \A u \in Tabs : request'[u] = request[u] \/ request'[u] = Idle
  BY DEF IInv, Typed
<1>4. Typed'
  BY <1>2 DEF IInv, Typed
<1>5. RequestsCarryTheirCode'
  BY <1>3 DEF IInv, RequestsCarryTheirCode, CodeFor, Idle
<1>6. RowsCarryTheirCode'
  BY <1>1 DEF IInv, RowsCarryTheirCode, CodeFor
<1>7. VerifiedIsConfirmed'
  <2> SUFFICES ASSUME NEW i \in Judges \ crossed', row'[i].status = "verified"
               PROVE  [judge |-> i, contact |-> row'[i].contact] \in confirmed'
    BY DEF VerifiedIsConfirmed, ContactOf
  <2>1. CASE i = j
    BY <1>1, <2>1
  <2>2. CASE i # j
    BY <1>1, <2>2 DEF IInv, VerifiedIsConfirmed, ContactOf
  <2> QED BY <2>1, <2>2
<1>8. OptedOutHasAsked'
  BY <1>1 DEF IInv, OptedOutHasAsked
<1> QED BY <1>4, <1>5, <1>6, <1>7, <1>8 DEF IInv

LEMMA SaveEndsHolds ==
  ASSUME IInv, NEW t \in Tabs, SaveEnds(t)
  PROVE  IInv'
<1> DEFINE j == Owner[t]
           r == request[t]
           new == [Patched(row[j], r) EXCEPT !.fields = r.fields]
<1>1. j \in Judges /\ row[j] \in Row /\ r \in Put
  <2>1. j \in Judges /\ row[j] \in Row /\ r \in {Idle} \cup Put \cup Verify
    BY OwnerAssumption DEF IInv, Typed
  <2> QED BY <2>1 DEF SaveEnds, Idle, Verify
<1>4. /\ row' = [row EXCEPT ![j] = new]
      /\ request' = [request EXCEPT ![t] = Idle]
      /\ UNCHANGED <<messages, optOuts, confirmed, optedOut, crossed>>
  BY DEF SaveEnds
<1> HIDE DEF new
<1>2. CASE r.body = r.seen
  <2>1. /\ new \in Row /\ new.contact = row[j].contact
        /\ new.status = row[j].status /\ new.code = row[j].code
    BY <1>1, <1>2 DEF new, Patched, Row, Put
  <2>2. /\ new.status = "pending" <=> new.code # NoCode
        /\ new.code # NoCode => CodeFor(new.code, j, new.contact)
        /\ j \notin crossed /\ new.status = "verified"
             => [judge |-> j, contact |-> new.contact] \in confirmed
        /\ j \notin crossed /\ new.status = "opted_out" => new.contact \in optedOut
    BY <1>1, <2>1
    DEF IInv, RowsCarryTheirCode, VerifiedIsConfirmed, OptedOutHasAsked, ContactOf
  <2> QED BY <1>1, <1>4, <2>1, <2>2, WriteHolds
<1>3. CASE r.body # r.seen
  <2>1. /\ new \in Row /\ new.contact = r.body /\ new.code = r.code
        /\ new.status = IF r.body = None THEN "none" ELSE "pending"
    BY <1>1, <1>3 DEF new, Patched, Row, Put, Status, ContactOrNone
  <2>2. /\ new.status = "pending" <=> new.code # NoCode
        /\ new.code # NoCode => CodeFor(new.code, j, new.contact)
    <3>1. NoCode \notin DOMAIN messages
      BY LenProperties DEF IInv, Typed, NoCode
    <3> QED
      BY <1>1, <1>3, <2>1, <3>1 DEF IInv, RequestsCarryTheirCode, SaveEnds, CodeFor
  <2> QED BY <1>1, <1>4, <2>1, <2>2, WriteHolds
<1> QED BY <1>2, <1>3

LEMMA VerifyBeginsHolds ==
  ASSUME IInv, NEW t \in Tabs, VerifyBegins(t)
  PROVE  IInv'
<1> DEFINE j == Owner[t]
           seen == row[j]
           r == [op |-> "verify", contact |-> seen.contact, code |-> seen.code]
<1>1. j \in Judges /\ seen \in Row
  BY OwnerAssumption DEF IInv, Typed
<1>2. /\ request' = [request EXCEPT ![t] = r] /\ seen.code # NoCode
      /\ UNCHANGED <<row, messages, optOuts, confirmed, optedOut, crossed>>
  BY DEF VerifyBegins, prefVars
<1>3. r \in Verify
  BY <1>1, <1>2 DEF Verify, Row
<1>4. CodeFor(seen.code, j, seen.contact)
  BY <1>1, <1>2 DEF IInv, RowsCarryTheirCode
<1>5. Typed'
  BY <1>2, <1>3 DEF IInv, Typed
<1>6. RequestsCarryTheirCode'
  <2>1. r.op = "verify" /\ r.contact = seen.contact /\ r.code = seen.code
    OBVIOUS
  <2>2. request'[t] = r /\ \A u \in Tabs \ {t} : request'[u] = request[u]
    BY <1>2 DEF IInv, Typed
  <2> HIDE DEF r
  <2> QED
    BY <1>2, <1>4, <2>1, <2>2 DEF IInv, RequestsCarryTheirCode, CodeFor
<1>7. RowsCarryTheirCode'
  BY <1>2 DEF IInv, RowsCarryTheirCode, CodeFor
<1> QED
  BY <1>2, <1>5, <1>6, <1>7 DEF IInv, VerifiedIsConfirmed, OptedOutHasAsked, ContactOf

\* A status that is not "pending" and no code: the contact stays.
LEMMA StatusWritten ==
  ASSUME NEW old \in Row, NEW status \in Status
  PROVE  /\ WithStatus(old, status) \in Row
         /\ WithStatus(old, status).contact = old.contact
         /\ WithStatus(old, status).status = status
         /\ WithStatus(old, status).code = NoCode
  BY DEF WithStatus, Row

LEMMA VerifyEndsHolds ==
  ASSUME IInv, NEW t \in Tabs, VerifyEnds(t)
  PROVE  IInv'
<1> DEFINE j == Owner[t]
           r == request[t]
           new == WithStatus(row[j], "verified")
<1>1. j \in Judges /\ row[j] \in Row
  BY OwnerAssumption DEF IInv, Typed
<1>2. /\ new \in Row /\ new.contact = row[j].contact
      /\ new.status = "verified" /\ new.code = NoCode
  BY <1>1, StatusWritten DEF Status
<1>3. /\ row' = [row EXCEPT ![j] = new]
      /\ request' = [request EXCEPT ![t] = Idle]
      /\ confirmed' = confirmed \cup {messages[r.code]}
      /\ crossed' = IF row[j].contact = r.contact /\ row[j].status = "pending"
                    THEN crossed ELSE crossed \cup {j}
      /\ UNCHANGED <<messages, optOuts, optedOut>>
  BY DEF VerifyEnds, Crossing
<1>4. messages[r.code] = [judge |-> j, contact |-> r.contact]
  BY DEF VerifyEnds, IInv, RequestsCarryTheirCode, CodeFor
<1>5. j \notin crossed' => [judge |-> j, contact |-> new.contact] \in confirmed'
  BY <1>2, <1>3, <1>4
<1> HIDE DEF new
<1> QED BY <1>1, <1>2, <1>3, <1>5, WriteHolds

LEMMA OptOutEndsHolds ==
  ASSUME IInv, NEW o \in optOuts, OptOutEnds(o)
  PROVE  IInv'
<1> DEFINE j == o.judge
           new == WithStatus(row[j], "opted_out")
<1>1. j \in Judges /\ row[j] \in Row
  BY DEF IInv, Typed, JudgeContact
<1>2. /\ new \in Row /\ new.contact = row[j].contact
      /\ new.status = "opted_out" /\ new.code = NoCode
  BY <1>1, StatusWritten DEF Status
<1>3. /\ row' = [row EXCEPT ![j] = new]
      /\ optOuts' = optOuts \ {o} /\ confirmed' = confirmed \ {o}
      /\ optedOut' = optedOut \cup {o.contact}
      /\ crossed' = IF row[j].contact = o.contact THEN crossed ELSE crossed \cup {j}
      /\ UNCHANGED <<messages, request>>
  BY DEF OptOutEnds, Crossing
<1>4. j \notin crossed' => new.contact \in optedOut'
  BY <1>2, <1>3
<1> HIDE DEF new
<1> QED BY <1>1, <1>2, <1>3, <1>4, WriteHolds

\* Nothing but the requests under way, and those only to end.
LEMMA StillHolds ==
  ASSUME IInv, UNCHANGED <<row, messages, confirmed, optedOut, crossed>>,
         optOuts' \in SUBSET JudgeContact,
         \/ UNCHANGED request
         \/ \E t \in Tabs : request' = [request EXCEPT ![t] = Idle]
  PROVE  IInv'
<1>1. /\ request' \in [Tabs -> {Idle} \cup Put \cup Verify]
      /\ \A u \in Tabs : request'[u] = request[u] \/ request'[u] = Idle
  BY DEF IInv, Typed
<1>2. Typed' /\ RequestsCarryTheirCode'
  BY <1>1 DEF IInv, Typed, RequestsCarryTheirCode, CodeFor, Idle
<1> QED
  BY <1>2
     DEF IInv, RowsCarryTheirCode, CodeFor, VerifiedIsConfirmed, OptedOutHasAsked,
              ContactOf

LEMMA NextHolds == IInv /\ [Next]_vars => IInv'
<1> SUFFICES ASSUME IInv, [Next]_vars PROVE IInv'
  OBVIOUS
<1>0. optOuts \in SUBSET JudgeContact
  BY DEF IInv, Typed
<1>1. ASSUME NEW t \in Tabs, NEW body \in ContactOrNone, NEW fields \in Choices,
             SaveBegins(t, body, fields)
      PROVE  IInv'
  BY <1>1, SaveBeginsHolds
<1>2. ASSUME NEW t \in Tabs, SaveEnds(t) PROVE IInv'
  BY <1>2, SaveEndsHolds
<1>3. ASSUME NEW t \in Tabs, VerifyBegins(t) PROVE IInv'
  BY <1>3, VerifyBeginsHolds
<1>4. ASSUME NEW t \in Tabs, VerifyEnds(t) PROVE IInv'
  BY <1>4, VerifyEndsHolds
<1>5. ASSUME NEW t \in Tabs, RequestFails(t) PROVE IInv'
  BY <1>0, <1>5, StillHolds DEF RequestFails, prefVars
<1>6. ASSUME NEW c \in Codes, CodeExpires(c) PROVE IInv'
  BY <1>0, <1>6, StillHolds DEF CodeExpires, prefVars
<1>7. ASSUME NEW j \in Judges, NEW contact \in Contacts, OptOutBegins(j, contact) PROVE IInv'
  <2>1. optOuts' \in SUBSET JudgeContact
    BY <1>0, <1>7 DEF OptOutBegins, JudgeContact
  <2> QED BY <1>7, <2>1, StillHolds DEF OptOutBegins, prefVars
<1>8. ASSUME NEW o \in optOuts, OptOutEnds(o) PROVE IInv'
  BY <1>8, OptOutEndsHolds
<1>9. CASE UNCHANGED vars
  BY <1>0, <1>9, StillHolds DEF vars
<1> QED
  BY <1>1, <1>2, <1>3, <1>4, <1>5, <1>6, <1>7, <1>8, <1>9 DEF Next

LEMMA IInvHolds == Spec => []IInv
BY InitHolds, NextHolds, PTL DEF Spec

\* However saves of several tabs, verifications and opt-outs interleave, a contact
\* awaits verification exactly while its row holds the code sent to it.
THEOREM PendingContactsHaveTheirCode == Spec => []PendingHasItsCode
<1>1. IInv => PendingHasItsCode
  BY DEF IInv, RowsCarryTheirCode, PendingHasItsCode, CodeFor, ContactOf
<1> QED BY <1>1, IInvHolds, PTL

\* The dispatcher reaches nobody at a contact that was not confirmed, or that has
\* opted out since, unless a write crossed another one.
THEOREM OnlyTheConfirmedAreReached == Spec => []ReachableIsConfirmed
<1>1. IInv => ReachableIsConfirmed
  BY DEF IInv, VerifiedIsConfirmed, ReachableIsConfirmed, Reachable
<1> QED BY <1>1, IInvHolds, PTL

\* A contact marked as opted out did opt out, with the same exception.
THEOREM OnlyThoseWhoAskedAreSilenced == Spec => []OptedOutHasAsked
<1>1. IInv => OptedOutHasAsked
  BY DEF IInv
<1> QED BY <1>1, IInvHolds, PTL

\* The server's and the page's evaluators of quiet hours agree on every window, at
\* every moment of every week.
THEOREM EvaluatorsAgree ==
  ASSUME NEW spec \in QuietSpec, NEW weekday \in Weekdays, NEW minute \in MinutesOfDay
  PROVE  InQuietHours(spec, weekday, minute) = PageInQuietHours(spec, weekday, minute)
<1>1. CASE None \in {spec.start, spec.end}
  BY <1>1 DEF InQuietHours, PageInQuietHours
<1>2. CASE None \notin {spec.start, spec.end}
  <2>1. spec.start \in MinutesOfDay /\ spec.end \in MinutesOfDay
    BY <1>2 DEF QuietSpec
  <2>2. spec.start \in Int /\ spec.end \in Int /\ minute \in Int
    BY <2>1, CalendarAssumption DEF MinutesOfDay
  <2>3. CASE spec.start <= spec.end
    BY <1>2, <2>2, <2>3 DEF InQuietHours, PageInQuietHours
  <2>4. CASE spec.end < spec.start
    BY <1>2, <2>2, <2>4 DEF InQuietHours, PageInQuietHours
  <2> QED BY <2>2, <2>3, <2>4
<1> QED BY <1>1, <1>2
----------------------------------------------------------------------------
\* Remainders, for numbers that are less than twice the divisor.
LEMMA Remainders ==
  ASSUME NEW n \in Nat \ {0}
  PROVE  /\ \A x \in 0..(n - 1) : x % n = x
         /\ \A x \in n..(2 * n - 1) : x % n = x - n
OBVIOUS

\* A day and a minute of it name one minute of the week.
LEMMA MinuteOfWeek ==
  ASSUME NEW a \in Int, NEW c \in Int, NEW m \in Nat \ {0},
         NEW b \in 0..(m - 1), NEW d \in 0..(m - 1), a * m + b = c * m + d
  PROVE  a = c /\ b = d
<1>1. (a - c) * m = d - b
  OBVIOUS
<1>2. CASE a - c >= 1
  <2>1. (a - c) * m >= m
    BY <1>2
  <2> QED BY <1>1, <2>1
<1>3. CASE c - a >= 1
  <2>1. (c - a) * m >= m /\ (c - a) * m = b - d
    BY <1>3
  <2> QED BY <2>1
<1>4. CASE a = c
  OBVIOUS
<1> QED BY <1>2, <1>3, <1>4

\* The minutes of a day fill its part of the week.
LEMMA DaysFillTheWeek ==
  ASSUME NEW day \in Weekdays, NEW b \in MinutesOfDay
  PROVE  day * Minutes + b \in 0..(Days * Minutes - 1)
<1>1. day \in Nat /\ b \in Nat /\ Days - 1 - day >= 0 /\ b <= Minutes - 1
      /\ Days \in Nat \ {0} /\ Minutes \in Nat \ {0}
  BY CalendarAssumption DEF Weekdays, MinutesOfDay
<1>2. (Days - 1 - day) * Minutes >= 0 /\ day * Minutes >= 0
  BY <1>1
<1>3. (Days - 1 - day) * Minutes = Days * Minutes - Minutes - day * Minutes
  BY <1>1
<1> QED BY <1>1, <1>2, <1>3

\* The day after, and the minute of the week that is a day later.
LEMMA NextDay ==
  ASSUME NEW day \in Weekdays, NEW b \in MinutesOfDay
  PROVE  /\ (day + 1) % Days \in Weekdays
         /\ Yesterday((day + 1) % Days) = day
         /\ (day * Minutes + Minutes + b) % (Days * Minutes) = ((day + 1) % Days) * Minutes + b
         /\ Yesterday(day) \in Weekdays /\ (Yesterday(day) + 1) % Days = day
<1>0. day \in 0..(Days - 1) /\ Days \in Nat \ {0} /\ Minutes \in Nat \ {0} /\ b \in 0..(Minutes - 1)
  BY CalendarAssumption DEF Weekdays, MinutesOfDay
<1>1. Yesterday(day) = (IF day = 0 THEN Days - 1 ELSE day - 1)
  <2>1. CASE day = 0
    BY <1>0, <2>1, Remainders DEF Yesterday
  <2>2. CASE day # 0
    <3>1. day + Days - 1 \in Days..(2 * Days - 1)
      BY <1>0, <2>2
    <3> QED BY <1>0, <2>2, <3>1, Remainders DEF Yesterday
  <2> QED BY <2>1, <2>2
<1>2. CASE day = Days - 1
  <2>1. day + 1 = Days /\ Days \in Days..(2 * Days - 1)
    BY <1>0, <1>2
  <2>2. (day + 1) % Days = 0
    BY <1>0, <2>1, Remainders
  <2>3. 0 \in Weekdays /\ Days - 1 \in Weekdays
    BY <1>0 DEF Weekdays
  <2>4. Yesterday(0) = Days - 1
    <3>1. 0 + Days - 1 \in 0..(Days - 1)
      BY <1>0
    <3> QED BY <1>0, <3>1, Remainders DEF Yesterday
  <2>5. (day * Minutes + Minutes + b) % (Days * Minutes) = b
    <3> DEFINE week == Days * Minutes
    <3>1. day * Minutes + Minutes = week /\ week \in Nat
      BY <1>0, <1>2
    <3>2. week >= Minutes
      BY <1>0
    <3> HIDE DEF week
    <3> DEFINE x == day * Minutes + Minutes + b
    <3>3. x \in week..(2 * week - 1) /\ x - week = b /\ week \in Nat \ {0}
      BY <1>0, <3>1, <3>2
    <3> HIDE DEF x
    <3>4. x % week = x - week
      BY <3>3, Remainders
    <3> QED BY <3>3, <3>4 DEF week, x
  <2>6. (Yesterday(day) + 1) % Days = day /\ Yesterday(day) \in Weekdays
    <3>1. CASE day = 0
      BY <1>0, <1>1, <2>1, <2>2, <2>3, <3>1
    <3>2. CASE day # 0
      BY <1>0, <1>1, <3>2, Remainders DEF Weekdays
    <3> QED BY <3>1, <3>2
  <2> QED BY <1>0, <1>2, <2>2, <2>3, <2>4, <2>5, <2>6
<1>3. CASE day # Days - 1
  <2>0. day + 1 \in 0..(Days - 1) /\ day + 1 >= 1
    BY <1>0, <1>3
  <2>1. day + 1 \in 1..(Days - 1) /\ (day + 1) % Days = day + 1
    BY <1>0, <2>0, Remainders
  <2>2. day + 1 \in Weekdays
    BY <1>0, <2>1 DEF Weekdays
  <2>3. Yesterday(day + 1) = day
    <3>1. day + 1 + Days - 1 \in Days..(2 * Days - 1) /\ day + 1 + Days - 1 - Days = day
      BY <1>0, <1>3
    <3> QED BY <1>0, <3>1, Remainders DEF Yesterday
  <2>4. (day * Minutes + Minutes + b) % (Days * Minutes) = (day + 1) * Minutes + b
    <3> DEFINE week == Days * Minutes
    <3>1. (day + 1) * Minutes + b = day * Minutes + Minutes + b
      BY <1>0
    <3>2. (day + 1) * Minutes + b \in 0..(week - 1)
      BY <2>2, DaysFillTheWeek
    <3>3. week \in Nat \ {0}
      BY <1>0
    <3> HIDE DEF week
    <3>4. ((day + 1) * Minutes + b) % week = (day + 1) * Minutes + b
      BY <3>2, <3>3, Remainders
    <3> QED BY <3>1, <3>4 DEF week
  <2>5. (Yesterday(day) + 1) % Days = day /\ Yesterday(day) \in Weekdays
    <3>1. CASE day = 0
      <4>1. Days \in Days..(2 * Days - 1)
        BY <1>0
      <4> QED BY <1>0, <1>1, <3>1, <4>1, Remainders DEF Weekdays
    <3>2. CASE day # 0
      BY <1>0, <1>1, <3>2, Remainders DEF Weekdays
    <3> QED BY <3>1, <3>2
  <2> QED BY <2>1, <2>2, <2>3, <2>4, <2>5
<1> QED BY <1>2, <1>3

\* The server's evaluator says whether the minute lies in one of the windows.
LEMMA WindowsMean ==
  ASSUME NEW spec \in QuietSpec, NEW weekday \in Weekdays, NEW minute \in MinutesOfDay
  PROVE  InQuietHours(spec, weekday, minute) <=> weekday * Minutes + minute \in QuietMinutes(spec)
<1>0. Days \in Nat \ {0} /\ Minutes \in Nat \ {0} /\ spec.weekdays \subseteq Weekdays
      /\ minute \in 0..(Minutes - 1) /\ weekday \in Int /\ \A day \in Weekdays : day \in Int
  BY CalendarAssumption DEF Weekdays, MinutesOfDay, QuietSpec
<1>1. CASE None \in {spec.start, spec.end}
  BY <1>1 DEF InQuietHours, QuietMinutes
<1>2. CASE None \notin {spec.start, spec.end}
  <2> DEFINE start == spec.start
             end == spec.end
             length == (end - start + Minutes) % Minutes
             week == Days * Minutes
             At(day, k) == (day * Minutes + start + k) % week
  <2>1. start \in 0..(Minutes - 1) /\ end \in 0..(Minutes - 1)
    BY <1>2 DEF QuietSpec, MinutesOfDay
  <2>2. weekday * Minutes + minute \in QuietMinutes(spec) <=>
          \E day \in spec.weekdays, k \in 0..(length - 1) : weekday * Minutes + minute = At(day, k)
    BY <1>2 DEF QuietMinutes
  <2>3. length = IF start <= end THEN end - start ELSE end - start + Minutes
    <3>1. CASE start <= end
      <4>1. end - start + Minutes \in Minutes..(2 * Minutes - 1)
        BY <1>0, <2>1, <3>1
      <4> QED BY <1>0, <2>1, <3>1, <4>1, Remainders
    <3>2. CASE ~(start <= end)
      <4>1. end - start + Minutes \in 0..(Minutes - 1)
        BY <1>0, <2>1, <3>2
      <4> QED BY <1>0, <2>1, <3>2, <4>1, Remainders
    <3> QED BY <3>1, <3>2
  <2> HIDE DEF length
  \* A minute of the window before midnight is one of the day it starts on.
  <2>4. ASSUME NEW day \in Weekdays, NEW k \in Nat, start + k <= Minutes - 1
        PROVE  At(day, k) = day * Minutes + (start + k)
    <3>1. start + k \in MinutesOfDay /\ day \in Int
      BY <1>0, <2>1, <2>4 DEF MinutesOfDay
    <3>2. day * Minutes + (start + k) \in 0..(week - 1)
      BY <3>1, DaysFillTheWeek
    <3>3. day * Minutes + (start + k) = day * Minutes + start + k /\ week \in Nat \ {0}
      BY <1>0, <2>1, <3>1
    <3> HIDE DEF week
    <3>4. (day * Minutes + (start + k)) % week = day * Minutes + (start + k)
      BY <3>2, <3>3, Remainders
    <3> QED BY <3>3, <3>4
  \* One after midnight is one of the day after.
  <2>5. ASSUME NEW day \in Weekdays, NEW k \in Nat, start + k >= Minutes,
               start + k - Minutes <= Minutes - 1
        PROVE  At(day, k) = ((day + 1) % Days) * Minutes + (start + k - Minutes)
    <3> DEFINE b == start + k - Minutes
    <3>0. b \in 0..(Minutes - 1)
      BY <1>0, <2>1, <2>5
    <3>1. b \in MinutesOfDay /\ day \in Int
      BY <1>0, <3>0 DEF MinutesOfDay
    <3>2. day * Minutes + Minutes + b = day * Minutes + start + k
      BY <1>0, <2>1, <3>1
    <3> HIDE DEF b
    <3>3. (day * Minutes + Minutes + b) % week = ((day + 1) % Days) * Minutes + b
      BY <3>1, NextDay
    <3>4. At(day, k) = ((day + 1) % Days) * Minutes + b
      BY <3>2, <3>3
    <3> QED BY <3>4 DEF b
  <2> HIDE DEF At
  <2>6. CASE start <= end
    <3>1. ASSUME NEW day \in spec.weekdays, NEW k \in 0..(length - 1),
                 weekday * Minutes + minute = At(day, k)
          PROVE  weekday \in spec.weekdays /\ start <= minute /\ minute < end
      <4>1. k \in Nat /\ start + k < end /\ start <= start + k /\ day \in Weekdays
        BY <1>0, <2>1, <2>3, <2>6
      <4>2. start + k \in 0..(Minutes - 1) /\ start + k <= Minutes - 1
        BY <1>0, <2>1, <4>1
      <4>3. weekday * Minutes + minute = day * Minutes + (start + k)
        BY <2>4, <3>1, <4>1, <4>2
      <4>4. weekday = day /\ minute = start + k
        BY <1>0, <4>1, <4>2, <4>3, MinuteOfWeek
      <4> QED BY <4>1, <4>4
    <3>2. ASSUME weekday \in spec.weekdays, start <= minute, minute < end
          PROVE  \E day \in spec.weekdays, k \in 0..(length - 1) :
                    weekday * Minutes + minute = At(day, k)
      <4> DEFINE k == minute - start
      <4>1. k \in 0..(length - 1) /\ k \in Nat /\ start + k = minute
        BY <1>0, <2>1, <2>3, <2>6, <3>2
      <4> HIDE DEF k
      <4>2. At(weekday, k) = weekday * Minutes + minute
        BY <1>0, <2>4, <4>1
      <4> QED BY <3>2, <4>1, <4>2
    <3> QED BY <1>2, <2>2, <2>6, <3>1, <3>2 DEF InQuietHours
  <2>7. CASE ~(start <= end)
    <3>1. ASSUME NEW day \in spec.weekdays, NEW k \in 0..(length - 1),
                 weekday * Minutes + minute = At(day, k)
          PROVE  \/ weekday \in spec.weekdays /\ start <= minute
                 \/ Yesterday(weekday) \in spec.weekdays /\ minute < end
      <4>1. k \in Nat /\ start + k < end + Minutes /\ start <= start + k /\ day \in Weekdays
        BY <1>0, <2>1, <2>3, <2>7
      <4>2. CASE start + k <= Minutes - 1
        <5>1. start + k \in 0..(Minutes - 1)
          BY <2>1, <4>1, <4>2
        <5>2. weekday * Minutes + minute = day * Minutes + (start + k)
          BY <2>4, <3>1, <4>1, <4>2
        <5>3. weekday = day /\ minute = start + k
          BY <1>0, <4>1, <5>1, <5>2, MinuteOfWeek
        <5> QED BY <4>1, <5>3
      <4>3. CASE start + k >= Minutes
        <5> DEFINE next == (day + 1) % Days
                   b == start + k - Minutes
        <5>1. b \in 0..(Minutes - 1) /\ b < end
          BY <1>0, <2>1, <4>1, <4>3
        <5>2. At(day, k) = next * Minutes + b
          BY <2>5, <4>1, <4>3, <5>1
        <5>3. b \in MinutesOfDay
          BY <5>1 DEF MinutesOfDay
        <5>4. next \in Weekdays /\ Yesterday(next) = day
          BY <4>1, <5>3, NextDay
        <5>5. next \in Int
          BY <1>0, <5>4
        <5> HIDE DEF next, b
        <5>6. weekday = next /\ minute = b
          BY <1>0, <3>1, <5>1, <5>2, <5>5, MinuteOfWeek
        <5> QED BY <5>1, <5>4, <5>6
      <4> QED BY <1>0, <2>1, <4>1, <4>2, <4>3
    <3>2. ASSUME weekday \in spec.weekdays, start <= minute
          PROVE  \E day \in spec.weekdays, k \in 0..(length - 1) :
                    weekday * Minutes + minute = At(day, k)
      <4> DEFINE k == minute - start
      <4>1. k \in 0..(length - 1) /\ k \in Nat /\ start + k = minute
        BY <1>0, <2>1, <2>3, <2>7, <3>2
      <4> HIDE DEF k
      <4>2. At(weekday, k) = weekday * Minutes + minute
        BY <1>0, <2>4, <4>1
      <4> QED BY <3>2, <4>1, <4>2
    <3>3. ASSUME Yesterday(weekday) \in spec.weekdays, minute < end
          PROVE  \E day \in spec.weekdays, k \in 0..(length - 1) :
                    weekday * Minutes + minute = At(day, k)
      <4> DEFINE k == minute + Minutes - start
                 day == Yesterday(weekday)
      <4>1. k \in 0..(length - 1) /\ k \in Nat /\ start + k = minute + Minutes
        BY <1>0, <2>1, <2>3, <2>7, <3>3
      <4>2. day \in Weekdays /\ (day + 1) % Days = weekday
        BY NextDay
      <4> HIDE DEF k, day
      <4>3. /\ start + k >= Minutes /\ start + k - Minutes = minute
            /\ start + k - Minutes <= Minutes - 1
        BY <1>0, <2>1, <4>1
      <4>4. At(day, k) = weekday * Minutes + minute
        BY <2>5, <4>1, <4>2, <4>3
      <4>5. day \in spec.weekdays
        BY <3>3 DEF day
      <4> QED BY <4>1, <4>4, <4>5
    <3> QED BY <1>2, <2>2, <2>7, <3>1, <3>2, <3>3 DEF InQuietHours
  <2> QED BY <2>6, <2>7
<1> QED BY <1>1, <1>2

\* Whatever saves from several pages leave in a row, overnight windows and
\* windows mixed from two saves included: both evaluators of quiet hours say
\* what the windows say (isInQuietHours).
THEOREM QuietHoursMean == Spec => []QuietHoursAreWindows
<1>1. IInv => QuietHoursAreWindows
  <2> SUFFICES ASSUME IInv,
                      NEW j \in Judges, NEW weekday \in Weekdays, NEW minute \in MinutesOfDay
               PROVE  LET spec == row[j].fields.quiet
                          quiet == weekday * Minutes + minute \in QuietMinutes(spec)
                      IN /\ InQuietHours(spec, weekday, minute) = quiet
                         /\ PageInQuietHours(spec, weekday, minute) = quiet
    BY DEF QuietHoursAreWindows
  <2> DEFINE spec == row[j].fields.quiet
             quiet == weekday * Minutes + minute \in QuietMinutes(spec)
  <2>1. row[j] \in Row
    BY DEF IInv, Typed
  <2>2. spec \in QuietSpec
    BY <2>1 DEF Row, Fields
  <2>3. InQuietHours(spec, weekday, minute) <=> quiet
    BY <2>2, WindowsMean
  <2>4. InQuietHours(spec, weekday, minute) = PageInQuietHours(spec, weekday, minute)
    BY <2>2, EvaluatorsAgree
  <2>5. InQuietHours(spec, weekday, minute) \in BOOLEAN
    BY DEF InQuietHours
  <2> QED BY <2>3, <2>4, <2>5
<1> QED BY <1>1, IInvHolds, PTL
----------------------------------------------------------------------------
(***************************************************************************)
(* Signing in.                                                             *)
(***************************************************************************)
L == INSTANCE Login

\* A session is issued for SessionTtl.
Issued(s, user, at) == s \in L!Session /\ s.user = user /\ s.iat = at /\ s.exp = at + SessionTtl

\* What the answer to each request is, and where window w is that waits for it.
Fits(w, e, x) ==
  /\ e \in {L!Idle} \cup L!Request \cup L!Answer /\ x \in L!Window
  /\ e # L!Idle => x.place = IF e.route = "callback" THEN "provider" ELSE "page"
  /\ e # L!Idle /\ e.session # NoCookie => e.session.exp = e.session.iat + SessionTtl
  /\ e.stage = "redeeming" => e.route = "callback" /\ e.intent # NoCookie
  /\ e.stage = "answered" =>
       /\ e.route \in {"me", "login"} => e.setSession = Keep
       /\ e.route = "logout" => e.setSession = NoCookie
       /\ e.route = "judge" /\ e.setSession # Keep =>
            e.session # NoCookie /\ Issued(e.setSession, e.session.user, e.handled)
       /\ e.route = "judge" /\ e.status = "ok" /\ e.setSession = Keep =>
            e.session # NoCookie /\ e.handled < e.session.iat + RenewAfter
       /\ e.route = "callback" /\ e.status = "ok" =>
            /\ e.account \in Accounts /\ Issued(e.setSession, e.account, e.handled)
            /\ e.intent # NoCookie /\ e.intent.state = x.state
       /\ e.route = "callback" /\ e.status # "ok" => e.setSession = Keep
       /\ e.route = "judge" /\ e.status # "ok" => e.setSession = Keep
       /\ e.route = "login" /\ e.status = "ok" => e.setIntent \in L!Intent /\ e.setIntent.returnTo = w
       /\ e.route = "login" /\ e.status # "ok" => e.setIntent = Keep
       /\ e.route \in {"me", "judge", "logout"} => e.setIntent = Keep
       /\ e.route = "callback" => e.setIntent \in {Keep, NoCookie}

Basics ==
  /\ clock \in Nat /\ logins \in Nat /\ lastUse \in Nat
  /\ session \in L!Session \cup {NoCookie} /\ intent \in L!Intent \cup {NoCookie}
  /\ session # NoCookie => session.exp = session.iat + SessionTtl
  /\ who \in Accounts \cup {Nobody} /\ mixed \in BOOLEAN /\ alone \subseteq Windows
  /\ window \in [Windows -> L!Window]
  /\ DOMAIN exchange = Windows /\ exchange = [w \in Windows |-> exchange[w]]
  /\ \A w \in Windows : Fits(w, exchange[w], window[w])

\* A request a window may send now fits.
LEMMA RequestTyped ==
  ASSUME Basics, NEW w \in Windows, NEW route \in L!Routes, NEW account \in Accounts \cup {Nobody},
         NEW x \in L!Window, x.place = IF route = "callback" THEN "provider" ELSE "page"
  PROVE  Fits(w, L!RequestOf(route, account), x)
BY DEF L!RequestOf, L!Request, L!Idle, Basics, Fits

\* So does waiting for nothing.
LEMMA IdleFits ==
  ASSUME NEW w, NEW x \in L!Window
  PROVE  Fits(w, L!Idle, x)
BY DEF L!Idle, Fits

\* What waits for an answer is a request, and what is answered an answer.
LEMMA Stages ==
  ASSUME Basics, NEW w \in Windows
  PROVE  /\ Fits(w, exchange[w], window[w]) /\ window[w] \in L!Window
         /\ exchange[w].stage \in {"sent", "redeeming"} => exchange[w] \in L!Request
         /\ exchange[w].stage = "answered" => exchange[w] \in L!Answer
         /\ exchange[w].stage # "idle" => exchange[w] # L!Idle
         /\ exchange[w] # L!Idle => exchange[w] \in L!Request \cup L!Answer
BY DEF Basics, Fits, L!Idle, L!Request, L!Answer

\* The window that steps is what has to be looked at.
LEMMA OthersFit ==
  ASSUME Basics, NEW w \in Windows, NEW e, NEW x \in L!Window, Fits(w, e, x),
         exchange' = [exchange EXCEPT ![w] = e],
         window' = [window EXCEPT ![w] = x] \/ (window' = window /\ x = window[w])
  PROVE  /\ window' \in [Windows -> L!Window]
         /\ DOMAIN exchange' = Windows /\ exchange' = [v \in Windows |-> exchange'[v]]
         /\ \A v \in Windows : Fits(v, exchange'[v], window'[v])
         /\ exchange'[w] = e /\ window'[w] = x
         /\ \A v \in Windows \ {w} : exchange'[v] = exchange[v] /\ window'[v] = window[v]
BY DEF Basics

\* The values that are no cookie are no cookie.
LEMMA Names ==
  /\ Nobody \notin Accounts /\ NoCookie # Keep
  /\ NoCookie \notin L!Session \cup L!Intent /\ Keep \notin L!Session \cup L!Intent
BY LoginNames DEF Session, Intent, L!Session, L!Intent

\* The sessions and the intents the server seals.
LEMMA CookiesTyped ==
  ASSUME Basics
  PROVE  /\ \A s \in L!Session : /\ clock < s.iat + RenewAfter => L!Renewed(s) = Keep
                                 /\ ~(clock < s.iat + RenewAfter) => Issued(L!Renewed(s), s.user, clock)
         /\ \A a \in Accounts : Issued(L!NewSession(a), a, clock)
         /\ \A w \in Windows : L!NewLoginIntent(w) \in L!Intent /\ L!NewLoginIntent(w).returnTo = w
<1>1. SessionTtl \in Nat /\ IntentTtl \in Nat /\ RenewAfter \in Nat /\ clock \in Nat /\ logins \in Nat
  BY LoginTimes DEF Basics
<1>2. ASSUME NEW s \in L!Session
      PROVE  /\ clock < s.iat + RenewAfter => L!Renewed(s) = Keep
             /\ ~(clock < s.iat + RenewAfter) => Issued(L!Renewed(s), s.user, clock)
  <2>1. s.iat \in Nat /\ s.user \in Accounts
    BY <1>2 DEF L!Session
  <2>2. clock - s.iat < RenewAfter <=> clock < s.iat + RenewAfter
    BY <1>1, <2>1
  <2>3. ~(clock < s.iat + RenewAfter) => L!Renewed(s) = [s EXCEPT !.iat = clock, !.exp = clock + SessionTtl]
    BY <2>2 DEF L!Renewed
  <2>4. clock + SessionTtl \in Nat
    BY <1>1
  <2>5. Issued([s EXCEPT !.iat = clock, !.exp = clock + SessionTtl], s.user, clock)
    BY <1>1, <1>2, <2>4 DEF Issued, L!Session
  <2> QED BY <2>2, <2>3, <2>5 DEF L!Renewed
<1>3. ASSUME NEW a \in Accounts PROVE Issued(L!NewSession(a), a, clock)
  BY <1>1, <1>3 DEF L!Session, L!NewSession, Issued
<1>4. ASSUME NEW w \in Windows PROVE L!NewLoginIntent(w) \in L!Intent /\ L!NewLoginIntent(w).returnTo = w
  BY <1>1, <1>4 DEF L!Intent, L!NewLoginIntent
<1> QED BY <1>2, <1>3, <1>4

\* An answer to a request, field by field.
LEMMA AnswerTyped ==
  ASSUME NEW e \in L!Request, NEW status \in {"ok", "unauthorised", "refused"},
         NEW s \in L!Session \cup {NoCookie, Keep}, NEW i \in L!Intent \cup {NoCookie, Keep},
         clock \in Nat
  PROVE  LET a == L!Answered(e, status, s, i)
         IN /\ a \in L!Answer /\ a # L!Idle /\ a.stage = "answered"
            /\ a.route = e.route /\ a.since = e.since /\ a.session = e.session /\ a.intent = e.intent
            /\ a.account = e.account /\ a.status = status /\ a.handled = clock
            /\ a.setSession = s /\ a.setIntent = i
BY DEF L!Answered, L!Answer, L!Request, L!Idle

----------------------------------------------------------------------------
\* The steps, each by the exchange it leaves.
LEMMA AskSends ==
  ASSUME Basics, NEW w \in Windows, L!PageAsks(w) \/ L!SignOut(w) \/ L!ProviderReturns(w)
  PROVE  \E route \in {"me", "judge", "logout", "callback"}, a \in Accounts \cup {Nobody} :
           /\ exchange[w] = L!Idle
           /\ route = "callback" <=> window[w].place = "provider"
           /\ exchange' = [exchange EXCEPT ![w] = L!RequestOf(route, a)]
           /\ Fits(w, L!RequestOf(route, a), window[w])
<1>1. CASE L!PageAsks(w) \/ L!SignOut(w)
  <2>1. PICK route \in {"me", "judge", "logout"} :
          exchange' = [exchange EXCEPT ![w] = L!RequestOf(route, Nobody)]
    BY <1>1 DEF L!PageAsks, L!SignOut
  <2>2. Fits(w, L!RequestOf(route, Nobody), window[w])
    BY <1>1, RequestTyped, Stages DEF L!PageAsks, L!SignOut, L!Routes
  <2> QED BY <1>1, <2>1, <2>2 DEF L!PageAsks, L!SignOut
<1>2. CASE L!ProviderReturns(w)
  <2>1. PICK a \in Accounts \cup {Nobody} :
          exchange' = [exchange EXCEPT ![w] = L!RequestOf("callback", a)]
    BY <1>2 DEF L!ProviderReturns
  <2>2. Fits(w, L!RequestOf("callback", a), window[w])
    BY <1>2, RequestTyped, Stages DEF L!ProviderReturns, L!Routes
  <2> QED BY <1>2, <2>1, <2>2 DEF L!ProviderReturns
<1> QED BY <1>1, <1>2

\* What the server answers fits, and it leaves the browser alone.
LEMMA ServeFits ==
  ASSUME Basics, NEW w \in Windows, L!Serve(w)
  PROVE  /\ exchange[w] \in L!Request /\ exchange[w] # L!Idle
         /\ exchange' = [exchange EXCEPT ![w] = exchange'[w]]
         /\ Fits(w, exchange'[w], window[w])
         /\ UNCHANGED <<clock, session, intent, window, who, mixed, lastUse, alone>>
<1>0. /\ Fits(w, exchange[w], window[w]) /\ clock \in Nat
      /\ window[w] \in L!Window /\ exchange = [v \in Windows |-> exchange[v]]
  BY DEF Basics
<1>1. exchange[w] \in L!Request /\ exchange[w] # L!Idle
  BY Stages DEF L!Serve, L!ServeMe, L!ServeJudge, L!ServeLogout, L!LoginUnavailable, L!ServeLogin,
                L!CallbackBegins, L!CallbackEnds
<1>2. UNCHANGED <<clock, session, intent, window, who, mixed, lastUse, alone>>
  BY DEF L!Serve, L!ServeMe, L!ServeJudge, L!ServeLogout, L!LoginUnavailable, L!ServeLogin,
         L!CallbackBegins, L!CallbackEnds
<1>3. exchange' = [exchange EXCEPT ![w] = exchange'[w]]
  BY <1>0 DEF L!Serve, L!ServeMe, L!ServeJudge, L!ServeLogout, L!LoginUnavailable, L!ServeLogin,
              L!CallbackBegins, L!CallbackEnds
<1>4. CASE L!ServeMe(w) \/ L!ServeJudge(w)
  <2>0. /\ exchange[w].route = IF L!ServeMe(w) THEN "me" ELSE "judge"
        /\ exchange'[w] = L!IdentityFromRequest(exchange[w],
             IF exchange[w].route = "me" THEN Keep ELSE L!Renewed(exchange[w].session))
    BY <1>0, <1>4 DEF L!ServeMe, L!ServeJudge
  <2>1. ASSUME L!IsLive(exchange[w].session)
       PROVE  Fits(w, exchange'[w], window[w])
    <3>1. exchange[w].session \in L!Session
      BY <1>1, <2>1 DEF L!IsLive, L!Request
    <3>2. L!Renewed(exchange[w].session) = Keep \/ Issued(L!Renewed(exchange[w].session), exchange[w].session.user, clock)
      BY <3>1, CookiesTyped
    <3>3. L!Renewed(exchange[w].session) = Keep => clock < exchange[w].session.iat + RenewAfter
      BY <3>1, CookiesTyped, Names DEF Issued
    <3>4. exchange'[w] = L!Answered(exchange[w], "ok",
            IF exchange[w].route = "me" THEN Keep ELSE L!Renewed(exchange[w].session), Keep)
      BY <2>0, <2>1 DEF L!IdentityFromRequest
    <3>5. exchange[w].session # NoCookie /\ exchange[w].route \in {"me", "judge"}
      BY <2>0, <2>1 DEF L!IsLive
    <3> HIDE DEF L!Renewed
    <3> QED BY <1>0, <1>1, <3>2, <3>3, <3>4, <3>5, Names, AnswerTyped DEF Fits, Issued
  <2>2. ASSUME ~L!IsLive(exchange[w].session)
       PROVE  Fits(w, exchange'[w], window[w])
    <3>4. exchange'[w] = L!Answered(exchange[w], "unauthorised", Keep, Keep) /\ exchange[w].route \in {"me", "judge"}
      BY <2>0, <2>2 DEF L!IdentityFromRequest, L!NoSession
    <3> QED BY <1>0, <1>1, <3>4, Names, AnswerTyped DEF Fits
  <2> QED BY <1>1, <1>2, <1>3, <2>1, <2>2
<1>5. CASE L!ServeLogout(w)
  <2>1. exchange'[w] = L!Answered(exchange[w], "ok", NoCookie, Keep) /\ exchange[w].route = "logout"
    BY <1>0, <1>5 DEF L!ServeLogout
  <2>2. Fits(w, exchange'[w], window[w])
    BY <1>0, <1>1, <2>1, Names, AnswerTyped DEF Fits
  <2> QED BY <1>1, <1>2, <1>3, <2>2
<1>6. CASE L!LoginUnavailable(w)
  <2>1. exchange'[w] = L!Answered(exchange[w], "refused", Keep, Keep) /\ exchange[w].route = "login"
    BY <1>0, <1>6 DEF L!LoginUnavailable
  <2>2. Fits(w, exchange'[w], window[w])
    BY <1>0, <1>1, <2>1, Names, AnswerTyped DEF Fits
  <2> QED BY <1>1, <1>2, <1>3, <2>2
<1>7. CASE L!ServeLogin(w)
  <2> DEFINE i == L!NewLoginIntent(w)
  <2>1. exchange'[w] = L!Answered(exchange[w], "ok", Keep, i) /\ exchange[w].route = "login"
    BY <1>0, <1>7 DEF L!ServeLogin
  <2>2. i \in L!Intent /\ i.returnTo = w
    BY CookiesTyped
  <2> HIDE DEF i
  <2>3. Fits(w, exchange'[w], window[w])
    BY <1>0, <1>1, <2>1, <2>2, Names, AnswerTyped DEF Fits
  <2> QED BY <1>1, <1>2, <1>3, <2>3
<1>8. CASE L!CallbackBegins(w)
  <2>1. ASSUME L!IsLive(exchange[w].intent)
       PROVE  Fits(w, exchange'[w], window[w])
    <3> DEFINE e == [exchange[w] EXCEPT !.stage = "redeeming"]
    <3>1. exchange'[w] = e /\ exchange[w].route = "callback" /\ exchange[w].intent # NoCookie
      BY <1>0, <1>8, <2>1 DEF L!CallbackBegins, L!IsLive
    <3>2. /\ e \in L!Request /\ e.stage = "redeeming" /\ e # L!Idle
          /\ e.route = exchange[w].route /\ e.session = exchange[w].session /\ e.intent = exchange[w].intent
      BY <1>1 DEF L!Request, L!Idle
    <3> HIDE DEF e
    <3> QED BY <1>0, <1>1, <3>1, <3>2 DEF Fits
  <2>2. ASSUME ~L!IsLive(exchange[w].intent)
       PROVE  Fits(w, exchange'[w], window[w])
    <3>1. exchange'[w] = L!Answered(exchange[w], "refused", Keep, Keep) /\ exchange[w].route = "callback"
      BY <1>0, <1>8, <2>2 DEF L!CallbackBegins
    <3> QED BY <1>0, <1>1, <3>1, Names, AnswerTyped DEF Fits
  <2>3. Fits(w, exchange'[w], window[w])
    BY <2>1, <2>2
  <2> QED BY <1>1, <1>2, <1>3, <2>3
<1>9. CASE L!CallbackEnds(w)
  <2>0. exchange[w].route = "callback" /\ exchange[w].intent # NoCookie
    BY <1>0, <1>9 DEF L!CallbackEnds, Fits
  <2>1. ASSUME exchange[w].intent.state = window[w].state /\ exchange[w].account # Nobody
       PROVE  Fits(w, exchange'[w], window[w])
    <3> DEFINE s == L!NewSession(exchange[w].account)
    <3>1. exchange'[w] = L!Answered(exchange[w], "ok", s, NoCookie)
      BY <1>0, <1>9, <2>1 DEF L!CallbackEnds
    <3>2. exchange[w].account \in Accounts /\ Issued(s, exchange[w].account, clock)
      BY <1>1, <2>1, CookiesTyped DEF L!Request
    <3> HIDE DEF s
    <3> QED BY <1>0, <1>1, <2>0, <2>1, <3>1, <3>2, Names, AnswerTyped DEF Fits, Issued
  <2>2. ASSUME ~(exchange[w].intent.state = window[w].state /\ exchange[w].account # Nobody)
       PROVE  Fits(w, exchange'[w], window[w])
    <3>1. exchange'[w] = L!Answered(exchange[w], "refused", Keep, NoCookie)
      BY <1>0, <1>9, <2>2 DEF L!CallbackEnds
    <3> QED BY <1>0, <1>1, <2>0, <3>1, Names, AnswerTyped DEF Fits
  <2>3. Fits(w, exchange'[w], window[w])
    BY <2>1, <2>2
  <2> QED BY <1>1, <1>2, <1>3, <2>3
<1> QED BY <1>4, <1>5, <1>6, <1>7, <1>8, <1>9 DEF L!Serve

\* The cookies an answer sets are sound.
LEMMA SetBasics ==
  ASSUME Basics, NEW w \in Windows, NEW u \in Accounts \cup {Nobody},
         exchange[w].stage = "answered", L!SetCookies(w, u)
  PROVE  /\ session' \in L!Session \cup {NoCookie} /\ intent' \in L!Intent \cup {NoCookie}
         /\ session' # NoCookie => session'.exp = session'.iat + SessionTtl
         /\ who' = u /\ mixed' \in BOOLEAN /\ alone' \subseteq Windows
<1> DEFINE e == exchange[w]
<1>1. Fits(w, e, window[w]) /\ e \in L!Answer /\ e # L!Idle
  BY Stages
<1>2. e.setSession \in L!Session \cup {NoCookie, Keep} /\ e.setIntent \in L!Intent \cup {NoCookie, Keep}
      /\ e.route \in L!Routes
  BY <1>1 DEF L!Answer
<1>3. e.setSession \in L!Session => e.setSession.exp = e.setSession.iat + SessionTtl
  BY <1>1, <1>2, Names DEF Fits, Issued, L!Routes
<1>4. session' = IF e.setSession = Keep THEN session ELSE e.setSession
  BY DEF L!SetCookies, L!OrKept
<1>5. intent' = IF e.setIntent = Keep THEN intent ELSE e.setIntent
  BY DEF L!SetCookies, L!OrKept
<1>6. /\ session \in L!Session \cup {NoCookie} /\ intent \in L!Intent \cup {NoCookie}
      /\ session # NoCookie => session.exp = session.iat + SessionTtl
      /\ mixed \in BOOLEAN /\ alone \subseteq Windows
  BY DEF Basics
<1>7. who' = u /\ mixed' \in BOOLEAN /\ alone' \subseteq Windows
  BY <1>6 DEF L!SetCookies
<1> HIDE DEF e
<1> QED BY <1>2, <1>3, <1>4, <1>5, <1>6, <1>7

\* Where an answer, a loss or a reload leaves its window.
LEMMA BrowseFits ==
  ASSUME Basics, NEW w \in Windows,
         L!AskArrives(w) \/ L!LogoutArrives(w) \/ L!LoginArrives(w) \/ L!CallbackArrives(w)
           \/ L!Reload(w) \/ L!Lost(w)
  PROVE  \E e \in {L!Idle, L!RequestOf("login", Nobody)}, x \in {window[w], L!AtPage, L!Refused,
              [place |-> "provider", state |-> exchange[w].setIntent.state, exp |-> exchange[w].setIntent.exp]} :
           /\ exchange' = [exchange EXCEPT ![w] = e]
           /\ window' = [window EXCEPT ![w] = x] \/ (window' = window /\ x = window[w])
           /\ Fits(w, e, x) /\ x \in L!Window
           /\ e # L!Idle => exchange[w].status # "ok" /\ exchange[w].route \in {"me", "judge"}
<1>1. /\ Fits(w, exchange[w], window[w]) /\ window[w] \in L!Window
      /\ exchange[w].stage # "idle" => exchange[w] # L!Idle
  BY Stages
<1>2. L!AtPage \in L!Window /\ L!Refused \in L!Window
  BY DEF L!AtPage, L!Refused, L!Window
<1>3. CASE L!AskArrives(w)
  <2>1. exchange[w].route \in {"me", "judge"} /\ exchange[w].stage = "answered" /\ window' = window
        /\ exchange[w] \in L!Answer
    BY <1>3, Stages DEF L!AskArrives
  <2>2. window[w].place = "page" /\ exchange[w].status \in {"ok", "unauthorised", "refused"}
    BY <1>1, <2>1 DEF Fits, L!Answer
  <2>3. Fits(w, L!RequestOf("login", Nobody), window[w])
    BY <1>1, <2>2, RequestTyped DEF L!Routes
  <2> QED BY <1>1, <1>3, <2>1, <2>2, <2>3, IdleFits DEF L!AskArrives
<1>4. CASE L!LogoutArrives(w) \/ L!Lost(w)
  BY <1>1, <1>2, <1>4, IdleFits DEF L!LogoutArrives, L!Lost
<1>7. CASE L!Reload(w)
  <2>1. exchange' = [exchange EXCEPT ![w] = L!Idle] /\ window' = [window EXCEPT ![w] = L!AtPage]
    BY <1>7 DEF L!Reload, Basics
  <2> QED BY <1>2, <2>1, IdleFits
<1>5. CASE L!CallbackArrives(w)
  BY <1>1, <1>2, <1>5, IdleFits DEF L!CallbackArrives
<1>6. CASE L!LoginArrives(w)
  <2> DEFINE x == [place |-> "provider", state |-> exchange[w].setIntent.state, exp |-> exchange[w].setIntent.exp]
  <2>1. exchange[w].route = "login" /\ exchange[w].stage = "answered"
    BY <1>6 DEF L!LoginArrives
  <2>2. exchange[w].status = "ok" => x \in L!Window
    BY <1>1, <2>1 DEF Fits, L!Intent, L!Window
  <2>3. exchange' = [exchange EXCEPT ![w] = L!Idle]
        /\ window' = [window EXCEPT ![w] = IF exchange[w].status = "ok" THEN x ELSE L!Refused]
    BY <1>6 DEF L!LoginArrives
  <2> HIDE DEF x
  <2> QED BY <1>2, <2>2, <2>3, IdleFits DEF x
<1> QED BY <1>3, <1>4, <1>5, <1>6, <1>7

LEMMA BasicsStep == Basics /\ [L!Next]_L!vars => Basics'
<1> SUFFICES ASSUME Basics, [L!Next]_L!vars PROVE Basics'
  OBVIOUS
<1>1. CASE UNCHANGED L!vars
  BY <1>1 DEF Basics, L!vars
<1>2. CASE L!Tick
  BY <1>2 DEF Basics, L!Tick
<1>3. ASSUME NEW w \in Windows, L!Serve(w) PROVE Basics'
  <2>1. Fits(w, exchange'[w], window[w]) /\ window[w] \in L!Window
        /\ exchange' = [exchange EXCEPT ![w] = exchange'[w]]
        /\ UNCHANGED <<clock, session, intent, window, who, mixed, lastUse, alone>>
    BY <1>3, ServeFits, Stages
  <2>2. logins' \in Nat
    BY <1>3 DEF L!Serve, L!ServeMe, L!ServeJudge, L!ServeLogout, L!LoginUnavailable, L!ServeLogin,
                L!CallbackBegins, L!CallbackEnds, Basics
  <2>3. /\ window' \in [Windows -> L!Window]
        /\ DOMAIN exchange' = Windows /\ exchange' = [v \in Windows |-> exchange'[v]]
        /\ \A v \in Windows : Fits(v, exchange'[v], window'[v])
    BY <2>1, OthersFit
  <2> QED BY <2>1, <2>2, <2>3 DEF Basics
<1>4. ASSUME NEW w \in Windows, L!PageAsks(w) \/ L!SignOut(w) \/ L!ProviderReturns(w) PROVE Basics'
  <2>1. PICK e : exchange' = [exchange EXCEPT ![w] = e] /\ Fits(w, e, window[w])
    BY <1>4, AskSends
  <2>2. window[w] \in L!Window /\ UNCHANGED <<clock, session, intent, window, logins, who, mixed, lastUse, alone>>
    BY <1>4, Stages DEF L!PageAsks, L!SignOut, L!ProviderReturns
  <2>3. /\ window' \in [Windows -> L!Window]
        /\ DOMAIN exchange' = Windows /\ exchange' = [v \in Windows |-> exchange'[v]]
        /\ \A v \in Windows : Fits(v, exchange'[v], window'[v])
    BY <2>1, <2>2, OthersFit
  <2> QED BY <2>2, <2>3 DEF Basics
<1>5. ASSUME NEW w \in Windows,
             L!AskArrives(w) \/ L!LogoutArrives(w) \/ L!LoginArrives(w) \/ L!CallbackArrives(w)
               \/ L!Reload(w) \/ L!Lost(w)
      PROVE  Basics'
  <2>1. PICK e, x : /\ exchange' = [exchange EXCEPT ![w] = e] /\ x \in L!Window
                    /\ window' = [window EXCEPT ![w] = x] \/ (window' = window /\ x = window[w])
                    /\ Fits(w, e, x)
    BY <1>5, BrowseFits
  <2>2. /\ window' \in [Windows -> L!Window]
        /\ DOMAIN exchange' = Windows /\ exchange' = [v \in Windows |-> exchange'[v]]
        /\ \A v \in Windows : Fits(v, exchange'[v], window'[v])
    BY <2>1, OthersFit
  <2>3. clock' = clock /\ logins' = logins
    BY <1>5 DEF L!AskArrives, L!LogoutArrives, L!LoginArrives, L!CallbackArrives, L!Reload, L!Lost
  <2>4. exchange[w].stage = "answered" => exchange[w] \in L!Answer /\ Fits(w, exchange[w], window[w])
    BY Stages
  <2>5. CASE L!Reload(w) \/ L!Lost(w)
    <3>1. UNCHANGED <<session, intent, who, mixed, lastUse, alone>>
      BY <2>5 DEF L!Reload, L!Lost
    <3> QED BY <2>2, <2>3, <3>1 DEF Basics
  <2>6. CASE ~(L!Reload(w) \/ L!Lost(w))
    <3>1. exchange[w].stage = "answered"
      BY <1>5, <2>6 DEF L!AskArrives, L!LogoutArrives, L!LoginArrives, L!CallbackArrives
    <3>2. PICK u \in Accounts \cup {Nobody} : L!SetCookies(w, u)
      <4>1. exchange[w].route = "callback" /\ exchange[w].status = "ok" => exchange[w].account \in Accounts
        BY <2>4, <3>1 DEF Fits
      <4>2. who \in Accounts \cup {Nobody}
        BY DEF Basics
      <4> QED BY <1>5, <2>6, <4>1, <4>2 DEF L!AskArrives, L!LogoutArrives, L!LoginArrives, L!CallbackArrives
    <3>3. lastUse' \in Nat
      <4>1. exchange[w].handled \in Nat /\ lastUse \in Nat
        BY <2>4, <3>1 DEF L!Answer, Basics
      <4> QED BY <1>5, <2>6, <4>1 DEF L!AskArrives, L!LogoutArrives, L!LoginArrives, L!CallbackArrives
    <3>4. /\ session' \in L!Session \cup {NoCookie} /\ intent' \in L!Intent \cup {NoCookie}
          /\ session' # NoCookie => session'.exp = session'.iat + SessionTtl
          /\ who' \in Accounts \cup {Nobody} /\ mixed' \in BOOLEAN /\ alone' \subseteq Windows
      BY <3>1, <3>2, SetBasics
    <3> QED BY <2>2, <2>3, <3>3, <3>4 DEF Basics
  <2> QED BY <2>5, <2>6
<1> QED BY <1>1, <1>2, <1>3, <1>4, <1>5 DEF L!Next, L!Browse

LEMMA BasicsInit == L!Init => Basics
<1>1. L!AtPage \in L!Window
  BY DEF L!AtPage, L!Window
<1> SUFFICES ASSUME L!Init PROVE Basics
  OBVIOUS
<1>2. \A w \in Windows : exchange[w] = L!Idle /\ window[w] = L!AtPage
  BY DEF L!Init
<1>3. \A w \in Windows : Fits(w, exchange[w], window[w])
  BY <1>1, <1>2, IdleFits
<1>4. window \in [Windows -> L!Window] /\ DOMAIN exchange = Windows /\ exchange = [w \in Windows |-> exchange[w]]
  BY <1>1 DEF L!Init
<1> QED BY <1>3, <1>4 DEF L!Init, Basics

\* What the server keeps of a request it serves.
LEMMA ServeKeeps ==
  ASSUME Basics, NEW w \in Windows, L!Serve(w)
  PROVE  LET e == exchange[w]
             a == exchange'[w]
         IN /\ e # L!Idle /\ a # L!Idle /\ e.stage \in {"sent", "redeeming"} /\ a.stage \in {"redeeming", "answered"}
            /\ a.route = e.route /\ a.since = e.since /\ a.session = e.session
            /\ a.intent = e.intent /\ a.account = e.account
            /\ a.stage = "answered" => a.handled = clock
            /\ a.stage = "answered" /\ a.setIntent \in L!Intent =>
                 L!ServeLogin(w) /\ a.setIntent = L!NewLoginIntent(w)
            /\ a.stage = "answered" /\ a.route = "callback" /\ a.status # "ok" =>
                 ~L!IsLive(e.intent) \/ e.intent.state # window[w].state \/ e.account = Nobody
            /\ logins' = logins \/ L!ServeLogin(w)
<1> DEFINE e == exchange[w]
           a == exchange'[w]
<1>1. e \in L!Request /\ e # L!Idle /\ clock \in Nat
  BY ServeFits DEF Basics
<1>2. e.stage \in {"sent", "redeeming"}
  BY DEF L!Serve, L!ServeMe, L!ServeJudge, L!ServeLogout, L!LoginUnavailable, L!ServeLogin,
         L!CallbackBegins, L!CallbackEnds
<1>3. exchange = [v \in Windows |-> exchange[v]]
  BY DEF Basics
<1>4. ASSUME NEW status, NEW s, NEW i, a = L!Answered(e, status, s, i)
      PROVE  /\ a # L!Idle /\ a.stage = "answered" /\ a.route = e.route /\ a.since = e.since
             /\ a.session = e.session /\ a.intent = e.intent /\ a.account = e.account
             /\ a.handled = clock /\ a.setIntent = i /\ a.status = status
  BY <1>4 DEF L!Answered, L!Idle
<1>5. CASE L!ServeMe(w) \/ L!ServeJudge(w)
  <2>1. PICK status, s : a = L!Answered(e, status, s, Keep)
    BY <1>3, <1>5 DEF L!ServeMe, L!ServeJudge, L!IdentityFromRequest, L!NoSession
  <2>2. e.route \in {"me", "judge"} /\ logins' = logins
    BY <1>5 DEF L!ServeMe, L!ServeJudge
  <2> HIDE DEF a
  <2> QED BY <1>1, <1>2, <1>4, <2>1, <2>2, Names DEF a
<1>6. CASE L!ServeLogout(w)
  <2>1. a = L!Answered(e, "ok", NoCookie, Keep) /\ e.route = "logout" /\ logins' = logins
    BY <1>3, <1>6 DEF L!ServeLogout
  <2> QED BY <1>1, <1>2, <1>4, <2>1, Names
<1>7. CASE L!LoginUnavailable(w)
  <2>1. a = L!Answered(e, "refused", Keep, Keep) /\ e.route = "login" /\ logins' = logins
    BY <1>3, <1>7 DEF L!LoginUnavailable
  <2> QED BY <1>1, <1>2, <1>4, <2>1, Names
<1>8. CASE L!ServeLogin(w)
  <2>1. a = L!Answered(e, "ok", Keep, L!NewLoginIntent(w)) /\ e.route = "login"
    BY <1>3, <1>8 DEF L!ServeLogin
  <2> QED BY <1>1, <1>2, <1>4, <1>8, <2>1
<1>9. CASE L!CallbackBegins(w)
  <2>1. CASE L!IsLive(e.intent)
    <3>1. a = [e EXCEPT !.stage = "redeeming"] /\ logins' = logins
      BY <1>3, <1>9, <2>1 DEF L!CallbackBegins
    <3>2. /\ a.stage = "redeeming" /\ a.route = e.route /\ a.since = e.since
          /\ a.session = e.session /\ a.intent = e.intent /\ a.account = e.account /\ a # L!Idle
      BY <1>1, <3>1 DEF L!Request, L!Idle
    <3> HIDE DEF a
    <3> QED BY <1>1, <1>2, <3>1, <3>2 DEF a
  <2>2. CASE ~L!IsLive(e.intent)
    <3>1. a = L!Answered(e, "refused", Keep, Keep) /\ logins' = logins
      BY <1>3, <1>9, <2>2 DEF L!CallbackBegins
    <3> QED BY <1>1, <1>2, <1>4, <2>2, <3>1, Names
  <2> QED BY <2>1, <2>2
<1>10. CASE L!CallbackEnds(w)
  <2>0. logins' = logins
    BY <1>10 DEF L!CallbackEnds
  <2>1. CASE e.intent.state = window[w].state /\ e.account # Nobody
    <3>1. a = L!Answered(e, "ok", L!NewSession(e.account), NoCookie)
      BY <1>3, <1>10, <2>1 DEF L!CallbackEnds
    <3> QED BY <1>1, <1>2, <1>4, <2>0, <3>1, Names
  <2>2. CASE ~(e.intent.state = window[w].state /\ e.account # Nobody)
    <3>1. a = L!Answered(e, "refused", Keep, NoCookie)
      BY <1>3, <1>10, <2>2 DEF L!CallbackEnds
    <3> QED BY <1>1, <1>2, <1>4, <2>0, <2>2, <3>1, Names
  <2> QED BY <2>1, <2>2
<1> QED BY <1>5, <1>6, <1>7, <1>8, <1>9, <1>10 DEF L!Serve
----------------------------------------------------------------------------
\* Whose session it is.
OthersKeepIt == ~mixed => \A w \in Windows : ~L!MayBringAnother(exchange[w], who)

WhoInv == BrowserIsWhoSignedIn /\ OthersKeepIt

LEMMA IdleBringsNothing == \A u : ~L!MayBringAnother(L!Idle, u)
BY DEF L!MayBringAnother, L!Idle

\* An answer leaves the browser whose it was, or makes it who signs in or out.
LEMMA WhoArrives ==
  ASSUME Basics, WhoInv, NEW w \in Windows,
         L!AskArrives(w) \/ L!LogoutArrives(w) \/ L!LoginArrives(w) \/ L!CallbackArrives(w)
  PROVE  WhoInv'
<1> DEFINE e == exchange[w]
<1>1. /\ Fits(w, e, window[w]) /\ e \in L!Answer /\ e.stage = "answered" /\ e.route \in L!Routes
  BY Stages DEF L!AskArrives, L!LogoutArrives, L!LoginArrives, L!CallbackArrives, L!Answer
<1>2. /\ session \in L!Session \cup {NoCookie} /\ who \in Accounts \cup {Nobody} /\ mixed \in BOOLEAN
      /\ DOMAIN exchange = Windows
  BY DEF Basics
<1> DEFINE u == IF e.route = "logout" THEN Nobody
                ELSE IF e.route = "callback" /\ e.status = "ok" THEN e.account ELSE who
<1>3. L!SetCookies(w, u)
  BY DEF L!AskArrives, L!LogoutArrives, L!LoginArrives, L!CallbackArrives
<1>4. /\ session' = IF e.setSession = Keep THEN session ELSE e.setSession
      /\ who' = u
      /\ mixed' = IF u = who THEN mixed ELSE \E v \in Windows \ {w} : L!MayBringAnother(exchange[v], u)
  BY <1>3 DEF L!SetCookies, L!OrKept
<1>5. e.setSession \in L!Session \cup {NoCookie, Keep}
  BY <1>1 DEF L!Answer
<1>6. e.route = "judge" /\ e.setSession # Keep =>
        /\ e.setSession \in L!Session
        /\ e.setSession.user # who => L!MayBringAnother(e, who)
  BY <1>1 DEF Fits, Issued, L!MayBringAnother
<1>7. /\ e.route \in {"me", "login"} => e.setSession = Keep
      /\ e.route = "logout" => e.setSession = NoCookie
      /\ e.route = "callback" => IF e.status = "ok" THEN /\ e.setSession \in L!Session
                                                        /\ e.setSession.user = e.account
                                                        /\ e.account \in Accounts
                                                   ELSE e.setSession = Keep
  BY <1>1 DEF Fits, Issued
<1>8. PICK f : /\ exchange' = [exchange EXCEPT ![w] = f]
               /\ f \in {L!Idle, L!RequestOf("login", Nobody)}
  BY BrowseFits
<1>9. \A x : ~L!MayBringAnother(f, x)
  BY <1>8, IdleBringsNothing DEF L!MayBringAnother, L!RequestOf
<1>10. \A s \in L!Session : s.user \in Accounts /\ s # NoCookie /\ s # Keep
  BY Names DEF L!Session
<1>11. \A v \in Windows \ {w} : exchange'[v] = exchange[v]
  BY <1>2, <1>8
<1>12. exchange'[w] = f
  BY <1>2, <1>8
<1>13. ASSUME ~mixed' PROVE \A v \in Windows : ~L!MayBringAnother(exchange'[v], who')
  <2>1. ASSUME NEW v \in Windows \ {w} PROVE ~L!MayBringAnother(exchange[v], u)
    <3>1. CASE u = who
      BY <1>4, <1>13, <3>1 DEF WhoInv, OthersKeepIt
    <3>2. CASE u # who
      BY <1>4, <1>13, <3>2
    <3> QED BY <3>1, <3>2
  <2> HIDE DEF u
  <2> QED BY <1>4, <1>9, <1>11, <1>12, <2>1
<1>14. ASSUME ~mixed' PROVE BrowserIsWhoSignedIn'
  <2>1. CASE e.route = "logout"
    BY <1>4, <1>7, <2>1, Names DEF BrowserIsWhoSignedIn
  <2>2. CASE e.route = "callback" /\ e.status = "ok"
    BY <1>4, <1>7, <1>10, <2>2, Names DEF BrowserIsWhoSignedIn
  <2>3. CASE e.route # "logout" /\ ~(e.route = "callback" /\ e.status = "ok")
    <3>1. who' = who /\ ~mixed
      BY <1>4, <1>14, <2>3
    <3>2. CASE e.setSession = Keep
      BY <1>4, <3>1, <3>2 DEF BrowserIsWhoSignedIn, WhoInv
    <3>3. CASE e.setSession # Keep
      <4>1. e.route = "judge"
        BY <1>1, <1>7, <2>3, <3>3 DEF L!Routes
      <4>2. e.setSession \in L!Session /\ e.setSession.user = who
        BY <1>6, <3>1, <3>3, <4>1 DEF WhoInv, OthersKeepIt
      <4>3. session' = e.setSession
        BY <1>4, <3>3
      <4> QED BY <1>10, <3>1, <4>2, <4>3, Names DEF BrowserIsWhoSignedIn
    <3> QED BY <3>2, <3>3
  <2> QED BY <2>1, <2>2, <2>3
<1> QED BY <1>13, <1>14 DEF WhoInv, OthersKeepIt, BrowserIsWhoSignedIn

LEMMA WhoStep == Basics /\ WhoInv /\ [L!Next]_L!vars => WhoInv'
<1> SUFFICES ASSUME Basics, WhoInv, [L!Next]_L!vars PROVE WhoInv'
  OBVIOUS
<1>0. DOMAIN exchange = Windows
  BY DEF Basics
<1>1. CASE UNCHANGED L!vars \/ L!Tick
  <2>1. UNCHANGED <<session, who, mixed, exchange>>
    BY <1>1 DEF L!vars, L!Tick
  <2> QED BY <2>1 DEF WhoInv, OthersKeepIt, BrowserIsWhoSignedIn, L!MayBringAnother
<1>2. ASSUME NEW w \in Windows, L!Serve(w) PROVE WhoInv'
  <2>1. UNCHANGED <<session, who, mixed>> /\ exchange' = [exchange EXCEPT ![w] = exchange'[w]]
        /\ Fits(w, exchange'[w], window[w])
    BY <1>2, ServeFits
  <2>2. L!MayBringAnother(exchange'[w], who) => L!MayBringAnother(exchange[w], who)
    <3>1. Fits(w, exchange[w], window[w])
      BY Stages
    <3> QED BY <1>2, <2>1, <3>1, ServeKeeps DEF L!MayBringAnother, Fits, Issued
  <2>3. \A v \in Windows \ {w} : exchange'[v] = exchange[v]
    BY <1>0, <2>1
  <2>4. ~mixed => \A v \in Windows : ~L!MayBringAnother(exchange'[v], who)
    BY <2>2, <2>3 DEF WhoInv, OthersKeepIt
  <2> QED BY <2>1, <2>4 DEF WhoInv, OthersKeepIt, BrowserIsWhoSignedIn
<1>3. ASSUME NEW w \in Windows, L!PageAsks(w) \/ L!SignOut(w) \/ L!ProviderReturns(w) PROVE WhoInv'
  <2>1. PICK route, a : exchange' = [exchange EXCEPT ![w] = L!RequestOf(route, a)]
    BY <1>3, AskSends
  <2>2. UNCHANGED <<session, who, mixed>>
    BY <1>3 DEF L!PageAsks, L!SignOut, L!ProviderReturns
  <2>3. \A v \in Windows \ {w} : exchange'[v] = exchange[v]
    BY <1>0, <2>1
  <2>4. exchange'[w] = L!RequestOf(route, a)
    BY <1>0, <2>1
  <2>5. ~mixed => ~L!MayBringAnother(L!RequestOf(route, a), who)
    BY DEF WhoInv, BrowserIsWhoSignedIn, L!MayBringAnother, L!RequestOf
  <2> QED BY <2>2, <2>3, <2>4, <2>5 DEF WhoInv, OthersKeepIt, BrowserIsWhoSignedIn
<1>4. ASSUME NEW w \in Windows, L!Reload(w) \/ L!Lost(w) PROVE WhoInv'
  <2>1. UNCHANGED <<session, who, mixed>> /\ (exchange' = exchange \/ exchange' = [exchange EXCEPT ![w] = L!Idle])
    BY <1>4 DEF L!Reload, L!Lost
  <2>2. \A v \in Windows : exchange'[v] \in {exchange[v], L!Idle}
    BY <1>0, <2>1
  <2> QED BY <2>1, <2>2, IdleBringsNothing DEF WhoInv, OthersKeepIt, BrowserIsWhoSignedIn
<1> QED BY <1>1, <1>2, <1>3, <1>4, WhoArrives DEF L!Next, L!Browse

LEMMA WhoInit == L!Init => WhoInv
BY DEF L!Init, WhoInv, OthersKeepIt, BrowserIsWhoSignedIn, L!MayBringAnother, L!Idle

\* A judge who signs in is who the browser is, and one who signs out leaves nobody
\* in it, however the requests of the windows cross (session.ts, routes/auth.ts).
THEOREM SignedIn == L!Spec => []BrowserIsWhoSignedIn
<1>1. L!Init => Basics /\ WhoInv
  BY BasicsInit, WhoInit
<1>2. Basics /\ WhoInv /\ [L!Next]_L!vars => (Basics /\ WhoInv)'
  BY BasicsStep, WhoStep
<1>3. Basics /\ WhoInv => BrowserIsWhoSignedIn
  BY DEF WhoInv
<1> QED BY <1>1, <1>2, <1>3, PTL DEF L!Spec

\* The types of Login hold, for any windows, accounts, times and bounds.
THEOREM LoginTypeCorrect == L!Spec => []L!TypeOK
<1>1. Basics => L!TypeOK
  BY DEF Basics, Fits, L!TypeOK
<1> QED BY <1>1, BasicsInit, BasicsStep, PTL DEF L!Spec
----------------------------------------------------------------------------
\* When things are: what is under way, and how old a renewal leaves the session.
Timely ==
  \A w \in Windows : exchange[w] # L!Idle =>
    /\ exchange[w].since \in Nat /\ exchange[w].since <= clock /\ clock <= exchange[w].since + MaxDelay
    /\ exchange[w].stage = "answered" =>
         exchange[w].handled \in Nat /\ exchange[w].since <= exchange[w].handled /\ exchange[w].handled <= clock

\* No session that a request carries is newer than the browser's, but by as much as
\* an answer may be overtaken.
Recent ==
  /\ lastUse <= clock
  /\ session # NoCookie => lastUse <= session.iat + RenewAfter
  /\ \A w \in Windows :
       exchange[w] # L!Idle /\ exchange[w].session # NoCookie /\ session # NoCookie =>
         exchange[w].session.iat <= session.iat \/ exchange[w].since <= session.iat + MaxDelay

\* What an answer brings to the browser; the other windows are left alone.
LEMMA Arrival ==
  ASSUME Basics, NEW w \in Windows,
         L!AskArrives(w) \/ L!LogoutArrives(w) \/ L!LoginArrives(w) \/ L!CallbackArrives(w)
  PROVE  /\ exchange[w] \in L!Answer /\ exchange[w] # L!Idle /\ exchange[w].stage = "answered"
         /\ Fits(w, exchange[w], window[w])
         /\ session' = IF exchange[w].setSession = Keep THEN session ELSE exchange[w].setSession
         /\ intent' = IF exchange[w].setIntent = Keep THEN intent ELSE exchange[w].setIntent
         /\ UNCHANGED <<clock, logins>>
         /\ \A v \in Windows \ {w} : exchange'[v] = exchange[v] /\ window'[v] = window[v]
         /\ \/ exchange'[w] = L!Idle
            \/ /\ exchange'[w] = L!RequestOf("login", Nobody)
               /\ exchange[w].status # "ok" /\ exchange[w].route \in {"me", "judge"}
<1>1. /\ Fits(w, exchange[w], window[w]) /\ exchange[w] \in L!Answer /\ exchange[w] # L!Idle
      /\ exchange[w].stage = "answered"
  BY Stages DEF L!AskArrives, L!LogoutArrives, L!LoginArrives, L!CallbackArrives
<1>2. \E u : L!SetCookies(w, u)
  BY DEF L!AskArrives, L!LogoutArrives, L!LoginArrives, L!CallbackArrives
<1>3. PICK e \in {L!Idle, L!RequestOf("login", Nobody)},
           x \in {window[w], L!AtPage, L!Refused,
                  [place |-> "provider", state |-> exchange[w].setIntent.state,
                   exp |-> exchange[w].setIntent.exp]} :
        /\ exchange' = [exchange EXCEPT ![w] = e] /\ x \in L!Window
        /\ window' = [window EXCEPT ![w] = x] \/ (window' = window /\ x = window[w])
        /\ Fits(w, e, x)
        /\ e # L!Idle => exchange[w].status # "ok" /\ exchange[w].route \in {"me", "judge"}
  BY BrowseFits
<1>4. exchange'[w] = e /\ \A v \in Windows \ {w} : exchange'[v] = exchange[v] /\ window'[v] = window[v]
  BY <1>3, OthersFit
<1>5. UNCHANGED <<clock, logins>>
  BY DEF L!AskArrives, L!LogoutArrives, L!LoginArrives, L!CallbackArrives
<1> QED BY <1>1, <1>2, <1>3, <1>4, <1>5 DEF L!SetCookies, L!OrKept

\* A request, field by field.
LEMMA RequestIs ==
  ASSUME NEW route, NEW a
  PROVE  LET r == L!RequestOf(route, a)
         IN /\ r # L!Idle /\ r.stage = "sent" /\ r.route = route /\ r.since = clock /\ r.session = session
            /\ r.intent = intent /\ r.account = a
BY DEF L!RequestOf, L!Idle

LEMMA TimelyStep == Basics /\ Timely /\ [L!Next]_L!vars => Timely'
<1> SUFFICES ASSUME Basics, Timely, [L!Next]_L!vars PROVE Timely'
  OBVIOUS
<1>0. clock \in Nat /\ MaxDelay \in Nat /\ DOMAIN exchange = Windows
  BY LoginTimes DEF Basics
<1> DEFINE Fine(e) == e # L!Idle =>
             /\ e.since \in Nat /\ e.since <= clock /\ clock <= e.since + MaxDelay
             /\ e.stage = "answered" => e.handled \in Nat /\ e.since <= e.handled /\ e.handled <= clock
<1>a. \A v \in Windows : Fine(exchange[v])
  BY DEF Timely
<1>b. \A route, a : Fine(L!RequestOf(route, a))
  BY <1>0, RequestIs
<1>c. ASSUME clock' = clock, \A v \in Windows : Fine(exchange'[v]) PROVE Timely'
  BY <1>c DEF Timely
<1>1. CASE UNCHANGED L!vars
  BY <1>1 DEF L!vars, Timely
<1>2. CASE L!Tick
  <2>1. /\ clock' = clock + 1 /\ exchange' = exchange
        /\ \A v \in Windows : exchange[v] # L!Idle => clock < exchange[v].since + MaxDelay
    BY <1>2 DEF L!Tick
  <2>2. ASSUME NEW v \in Windows, exchange[v] # L!Idle
        PROVE  /\ exchange[v].since \in Nat /\ exchange[v].since <= clock' /\ clock' <= exchange[v].since + MaxDelay
               /\ exchange[v].stage = "answered" =>
                    exchange[v].handled \in Nat /\ exchange[v].since <= exchange[v].handled /\ exchange[v].handled <= clock'
    BY <1>0, <1>a, <2>1, <2>2
  <2> QED BY <2>1, <2>2 DEF Timely
<1>3. ASSUME NEW w \in Windows, L!Serve(w) PROVE Timely'
  <2>1. clock' = clock /\ exchange' = [exchange EXCEPT ![w] = exchange'[w]]
    BY <1>3, ServeFits
  <2>2. Fine(exchange'[w])
    BY <1>0, <1>a, <1>3, ServeKeeps
  <2>3. \A v \in Windows \ {w} : exchange'[v] = exchange[v]
    BY <1>0, <2>1
  <2> HIDE DEF Fine
  <2> QED BY <1>a, <1>c, <2>1, <2>2, <2>3
<1>4. ASSUME NEW w \in Windows, L!PageAsks(w) \/ L!SignOut(w) \/ L!ProviderReturns(w) PROVE Timely'
  <2>1. PICK route, a : exchange' = [exchange EXCEPT ![w] = L!RequestOf(route, a)]
    BY <1>4, AskSends
  <2>2. clock' = clock
    BY <1>4 DEF L!PageAsks, L!SignOut, L!ProviderReturns
  <2>3. exchange'[w] = L!RequestOf(route, a) /\ \A v \in Windows \ {w} : exchange'[v] = exchange[v]
    BY <1>0, <2>1
  <2> HIDE DEF Fine
  <2> QED BY <1>a, <1>b, <1>c, <2>2, <2>3
<1>5. ASSUME NEW w \in Windows, L!Reload(w) \/ L!Lost(w) PROVE Timely'
  <2>1. clock' = clock /\ (exchange' = exchange \/ exchange' = [exchange EXCEPT ![w] = L!Idle])
    BY <1>5 DEF L!Reload, L!Lost
  <2>2. \A v \in Windows : exchange'[v] \in {exchange[v], L!Idle}
    BY <1>0, <2>1
  <2> QED BY <1>a, <1>c, <2>1, <2>2
<1>6. ASSUME NEW w \in Windows,
             L!AskArrives(w) \/ L!LogoutArrives(w) \/ L!LoginArrives(w) \/ L!CallbackArrives(w)
      PROVE  Timely'
  <2>1. /\ clock' = clock /\ \A v \in Windows \ {w} : exchange'[v] = exchange[v]
        /\ exchange'[w] = L!Idle \/ exchange'[w] = L!RequestOf("login", Nobody)
    BY <1>6, Arrival
  <2>2. Fine(L!Idle)
    OBVIOUS
  <2> HIDE DEF Fine
  <2> QED BY <1>a, <1>b, <1>c, <2>1, <2>2
<1> QED BY <1>1, <1>2, <1>3, <1>4, <1>5, <1>6 DEF L!Next, L!Browse

\* The times, as the provers read them.
LEMMA Delays == MaxDelay \in Nat /\ RenewAfter \in Nat /\ SessionTtl \in Nat
                /\ MaxDelay + MaxDelay <= RenewAfter /\ RenewAfter <= SessionTtl
BY LoginTimes, AnswersAreSoon

\* What the server sends back keeps the session recent.
LEMMA RecentArrives ==
  ASSUME Basics, Timely, Recent, NEW w \in Windows,
         L!AskArrives(w) \/ L!LogoutArrives(w) \/ L!LoginArrives(w) \/ L!CallbackArrives(w)
  PROVE  Recent'
<1> DEFINE e == exchange[w]
<1>1. /\ e \in L!Answer /\ e # L!Idle /\ e.stage = "answered" /\ Fits(w, e, window[w])
      /\ session' = IF e.setSession = Keep THEN session ELSE e.setSession
      /\ clock' = clock
      /\ \A v \in Windows \ {w} : exchange'[v] = exchange[v]
      /\ \/ exchange'[w] = L!Idle
         \/ exchange'[w] = L!RequestOf("login", Nobody) /\ e.status # "ok" /\ e.route \in {"me", "judge"}
  BY Arrival
<1>2. /\ e.since \in Nat /\ e.since <= clock /\ clock <= e.since + MaxDelay
      /\ e.handled \in Nat /\ e.since <= e.handled /\ e.handled <= clock
  BY <1>1 DEF Timely
<1>3. /\ clock \in Nat /\ lastUse \in Nat /\ lastUse <= clock
      /\ session \in L!Session \cup {NoCookie}
      /\ session # NoCookie => session.iat \in Nat /\ lastUse <= session.iat + RenewAfter
  BY DEF Basics, Recent, L!Session
<1>4. /\ e.session # NoCookie => e.session.iat \in Nat
      /\ e.setSession \in L!Session \cup {NoCookie, Keep} /\ e.route \in L!Routes
  BY <1>1 DEF L!Answer, L!Session
<1>5. e.setSession = Keep \/ e.setSession = NoCookie \/ (e.setSession \in L!Session /\ e.setSession.iat = e.handled)
  BY <1>1, <1>4, Names DEF Fits, Issued, L!Routes
<1>6. /\ lastUse' \in {lastUse, e.handled}
      /\ lastUse' # lastUse => e.status = "ok" /\ e.route \in {"judge", "callback"}
  BY DEF L!AskArrives, L!LogoutArrives, L!LoginArrives, L!CallbackArrives
<1>7. lastUse' <= clock' /\ lastUse' \in Nat
  BY <1>1, <1>2, <1>3, <1>6
<1>8. CASE e.setSession = NoCookie
  BY <1>1, <1>7, <1>8, Names DEF Recent
<1>9. CASE e.setSession \in L!Session /\ e.setSession.iat = e.handled
  <2>1. session' = e.setSession /\ session'.iat = e.handled
    BY <1>1, <1>9, Names
  <2>2. lastUse' <= session'.iat + RenewAfter
    BY <1>1, <1>2, <1>3, <1>7, <2>1, Delays
  <2>3. exchange'[w] = L!Idle
    BY <1>1, <1>9, Names DEF Fits
  <2>4. ASSUME NEW v \in Windows \ {w}, exchange[v] # L!Idle PROVE exchange[v].since <= session'.iat + MaxDelay
    <3>1. exchange[v].since \in Nat /\ exchange[v].since <= clock
      BY <2>4 DEF Timely
    <3> QED BY <1>2, <1>3, <2>1, <3>1, Delays
  <2>5. ASSUME NEW v \in Windows, exchange'[v] # L!Idle PROVE exchange'[v].since <= session'.iat + MaxDelay
    BY <1>1, <2>3, <2>4, <2>5
  <2> QED BY <1>7, <2>2, <2>5 DEF Recent
<1>10. CASE e.setSession = Keep
  <2>1. session' = session
    BY <1>1, <1>10
  <2>2. ASSUME session # NoCookie PROVE lastUse' <= session'.iat + RenewAfter
    <3>1. CASE lastUse' = lastUse
      BY <1>3, <2>1, <2>2, <3>1
    <3>2. CASE lastUse' # lastUse
      <4>1. lastUse' = e.handled /\ e.route = "judge" /\ e.session # NoCookie
            /\ e.handled < e.session.iat + RenewAfter
        BY <1>1, <1>6, <1>10, <3>2, Names DEF Fits, Issued
      <4>2. e.session.iat <= session.iat \/ e.since <= session.iat + MaxDelay
        BY <1>1, <2>2, <4>1 DEF Recent
      <4> QED BY <1>2, <1>3, <1>4, <2>1, <2>2, <4>1, <4>2, Delays
    <3> QED BY <3>1, <3>2
  <2>3. ASSUME NEW v \in Windows, exchange'[v] # L!Idle, exchange'[v].session # NoCookie, session # NoCookie
        PROVE  exchange'[v].session.iat <= session.iat \/ exchange'[v].since <= session.iat + MaxDelay
    <3>1. CASE v # w
      BY <1>1, <2>3, <3>1 DEF Recent
    <3>2. CASE v = w
      <4>1. exchange'[v].session = session
        BY <1>1, <2>3, <3>2, RequestIs
      <4> QED BY <1>3, <2>3, <4>1
    <3> QED BY <3>1, <3>2
  <2> QED BY <1>7, <2>1, <2>2, <2>3 DEF Recent
<1> QED BY <1>5, <1>8, <1>9, <1>10

LEMMA RecentStep == Basics /\ Timely /\ Recent /\ [L!Next]_L!vars => Recent'
<1> SUFFICES ASSUME Basics, Timely, Recent, [L!Next]_L!vars PROVE Recent'
  OBVIOUS
<1>0. /\ clock \in Nat /\ lastUse \in Nat /\ DOMAIN exchange = Windows
      /\ session # NoCookie => session.iat \in Nat
  BY DEF Basics, L!Session
<1> DEFINE Fine(e) == e # L!Idle /\ e.session # NoCookie /\ session # NoCookie =>
             e.session.iat <= session.iat \/ e.since <= session.iat + MaxDelay
<1>a. \A v \in Windows : Fine(exchange[v])
  BY DEF Recent
<1>b. \A route, a : Fine(L!RequestOf(route, a))
  BY <1>0, RequestIs
<1>c. ASSUME UNCHANGED <<clock, session, lastUse>>, \A v \in Windows : Fine(exchange'[v]) PROVE Recent'
  BY <1>c DEF Recent
<1>1. CASE UNCHANGED L!vars
  BY <1>1 DEF L!vars, Recent
<1>2. CASE L!Tick
  <2>1. clock' = clock + 1 /\ UNCHANGED <<session, exchange, lastUse>>
    BY <1>2 DEF L!Tick
  <2> QED BY <1>0, <2>1 DEF Recent
<1>3. ASSUME NEW w \in Windows, L!Serve(w) PROVE Recent'
  <2>1. UNCHANGED <<clock, session, lastUse>> /\ exchange' = [exchange EXCEPT ![w] = exchange'[w]]
    BY <1>3, ServeFits
  <2>2. Fine(exchange'[w])
    BY <1>a, <1>3, ServeKeeps
  <2>3. \A v \in Windows \ {w} : exchange'[v] = exchange[v]
    BY <1>0, <2>1
  <2> HIDE DEF Fine
  <2> QED BY <1>a, <1>c, <2>1, <2>2, <2>3
<1>4. ASSUME NEW w \in Windows, L!PageAsks(w) \/ L!SignOut(w) \/ L!ProviderReturns(w) PROVE Recent'
  <2>1. PICK route, a : exchange' = [exchange EXCEPT ![w] = L!RequestOf(route, a)]
    BY <1>4, AskSends
  <2>2. UNCHANGED <<clock, session, lastUse>>
    BY <1>4 DEF L!PageAsks, L!SignOut, L!ProviderReturns
  <2>3. exchange'[w] = L!RequestOf(route, a) /\ \A v \in Windows \ {w} : exchange'[v] = exchange[v]
    BY <1>0, <2>1
  <2> HIDE DEF Fine
  <2> QED BY <1>a, <1>b, <1>c, <2>2, <2>3
<1>5. ASSUME NEW w \in Windows, L!Reload(w) \/ L!Lost(w) PROVE Recent'
  <2>1. UNCHANGED <<clock, session, lastUse>> /\ (exchange' = exchange \/ exchange' = [exchange EXCEPT ![w] = L!Idle])
    BY <1>5 DEF L!Reload, L!Lost
  <2>2. \A v \in Windows : exchange'[v] \in {exchange[v], L!Idle}
    BY <1>0, <2>1
  <2> QED BY <1>a, <1>c, <2>1, <2>2
<1> QED BY <1>1, <1>2, <1>3, <1>4, <1>5, RecentArrives DEF L!Next, L!Browse

LEMMA TimesInit == L!Init => Timely /\ Recent
BY DEF L!Init, Timely, Recent

\* A judge who keeps using the pages stays signed in, renewals and late answers
\* notwithstanding (session.ts): the session is never issued more than RenewAfter
\* before the last use.
THEOREM ActiveJudgeStaysIn == L!Spec => []ActiveStaysIn
<1>1. L!Init => Basics /\ Timely /\ Recent
  BY BasicsInit, TimesInit
<1>2. Basics /\ Timely /\ Recent /\ [L!Next]_L!vars => (Basics /\ Timely /\ Recent)'
  BY BasicsStep, TimelyStep, RecentStep
<1>3. Basics /\ Timely /\ Recent => ActiveStaysIn
  <2> SUFFICES ASSUME Basics, Recent, session # NoCookie, clock <= lastUse + SessionTtl - RenewAfter
               PROVE  session.exp >= clock
    BY DEF ActiveStaysIn
  <2>1. /\ clock \in Nat /\ lastUse \in Nat /\ session.iat \in Nat /\ session.exp = session.iat + SessionTtl
        /\ lastUse <= session.iat + RenewAfter
    BY DEF Basics, Recent, L!Session
  <2> QED BY <2>1, Delays
<1> QED BY <1>1, <1>2, <1>3, PTL DEF L!Spec
----------------------------------------------------------------------------
\* A login's state is of one window, wherever it occurs.
IntentNames(i, s, v) == i \in L!Intent /\ i.state = s /\ i.returnTo = v

ExchangeNames(e, s, v) ==
  e # L!Idle /\ (IntentNames(e.intent, s, v) \/ (e.stage = "answered" /\ IntentNames(e.setIntent, s, v)))

StateNames(s, v) ==
  \/ IntentNames(intent, s, v)
  \/ \E w \in Windows : ExchangeNames(exchange[w], s, v)
  \/ window[v].place = "provider" /\ window[v].state = s

StatesName ==
  \A s \in Nat, u, v \in Windows : StateNames(s, u) => s <= logins /\ (StateNames(s, v) => u = v)

OwnIntent(w, x) == [state |-> x.state, returnTo |-> w, exp |-> x.exp]

\* A window that is alone has its own login-intent cookie in the browser while it is at
\* the provider, and carries it when it comes back.
AloneFine(w, e, x, i) ==
  /\ x.place = "provider" /\ e = L!Idle => i = OwnIntent(w, x)
  /\ e # L!Idle /\ e.route = "callback" =>
       /\ e.intent = OwnIntent(w, x)
       /\ e.stage = "answered" /\ e.status # "ok" => e.account = Nobody \/ x.exp < e.handled

AloneKeepTheirs == \A w \in alone : AloneFine(w, exchange[w], window[w], intent)

\* Steps that only forget states.
LEMMA NoNewNames ==
  ASSUME Basics, StatesName, logins' = logins,
         \A s \in Nat, v \in Windows : StateNames(s, v)' => StateNames(s, v)
  PROVE  StatesName'
BY DEF StatesName

LEMMA StatesNameStep == Basics /\ StatesName /\ [L!Next]_L!vars => StatesName'
<1> SUFFICES ASSUME Basics, StatesName, [L!Next]_L!vars PROVE StatesName'
  OBVIOUS
<1>0. DOMAIN exchange = Windows /\ logins \in Nat /\ window \in [Windows -> L!Window]
  BY DEF Basics
<1>1. CASE UNCHANGED L!vars \/ L!Tick
  <2>1. UNCHANGED <<intent, exchange, window, logins>>
    BY <1>1 DEF L!vars, L!Tick
  <2> QED BY <2>1, NoNewNames DEF StateNames, IntentNames, ExchangeNames
<1>2. ASSUME NEW w \in Windows, L!Serve(w) PROVE StatesName'
  <2>1. /\ intent' = intent /\ window' = window
        /\ exchange' = [exchange EXCEPT ![w] = exchange'[w]]
    BY <1>2, ServeFits
  <2>2. \A v \in Windows \ {w} : exchange'[v] = exchange[v]
    BY <1>0, <2>1
  <2>3. \A s \in Nat, v \in Windows : ExchangeNames(exchange'[w], s, v) =>
          \/ ExchangeNames(exchange[w], s, v)
          \/ L!ServeLogin(w) /\ s = logins + 1 /\ v = w
    <3>1. L!NewLoginIntent(w).state = logins + 1 /\ L!NewLoginIntent(w).returnTo = w
      BY DEF L!NewLoginIntent
    <3> HIDE DEF L!NewLoginIntent
    <3> QED BY <1>2, <3>1, ServeKeeps DEF ExchangeNames, IntentNames
  <2>4. \A s \in Nat, v \in Windows : StateNames(s, v)' =>
          StateNames(s, v) \/ (L!ServeLogin(w) /\ s = logins + 1 /\ v = w)
    BY <2>1, <2>2, <2>3 DEF StateNames, IntentNames, ExchangeNames
  <2>5. CASE ~L!ServeLogin(w)
    <3>1. logins' = logins
      BY <1>2, <2>5, ServeKeeps
    <3>2. \A s \in Nat, v \in Windows : StateNames(s, v)' => StateNames(s, v)
      BY <2>4, <2>5
    <3> HIDE DEF StateNames
    <3> QED BY <3>1, <3>2, NoNewNames
  <2>6. CASE L!ServeLogin(w)
    <3>1. logins' = logins + 1
      BY <2>6 DEF L!ServeLogin
    <3>2. \A s \in Nat, v \in Windows : StateNames(s, v) => s # logins + 1 /\ s <= logins + 1
      BY <1>0 DEF StatesName
    <3>3. ASSUME NEW s \in Nat, NEW u \in Windows, NEW v \in Windows, StateNames(s, u)'
          PROVE  s <= logins' /\ (StateNames(s, v)' => u = v)
      BY <1>0, <2>4, <3>1, <3>2, <3>3 DEF StatesName
    <3> QED BY <3>3 DEF StatesName
  <2> QED BY <2>5, <2>6
<1>3. ASSUME NEW w \in Windows, L!PageAsks(w) \/ L!SignOut(w) \/ L!ProviderReturns(w) PROVE StatesName'
  <2>1. PICK route, a : exchange' = [exchange EXCEPT ![w] = L!RequestOf(route, a)]
    BY <1>3, AskSends
  <2>2. UNCHANGED <<intent, window, logins>>
    BY <1>3 DEF L!PageAsks, L!SignOut, L!ProviderReturns
  <2>3. exchange'[w] = L!RequestOf(route, a) /\ \A v \in Windows \ {w} : exchange'[v] = exchange[v]
    BY <1>0, <2>1
  <2>4. \A s, v : ExchangeNames(L!RequestOf(route, a), s, v) => IntentNames(intent, s, v)
    BY RequestIs DEF ExchangeNames
  <2>5. \A s \in Nat, v \in Windows : StateNames(s, v)' => StateNames(s, v)
    <3> SUFFICES ASSUME NEW s \in Nat, NEW v \in Windows, StateNames(s, v)' PROVE StateNames(s, v)
      OBVIOUS
    <3>1. CASE \E x \in Windows : ExchangeNames(exchange'[x], s, v)
      BY <2>3, <2>4, <3>1 DEF StateNames
    <3>2. CASE IntentNames(intent', s, v) \/ (window'[v].place = "provider" /\ window'[v].state = s)
      BY <2>2, <3>2 DEF StateNames
    <3> QED BY <3>1, <3>2 DEF StateNames, IntentNames, ExchangeNames
  <2> HIDE DEF StateNames
  <2> QED BY <2>2, <2>5, NoNewNames
<1>4. ASSUME NEW w \in Windows, L!Reload(w) \/ L!Lost(w) PROVE StatesName'
  <2>1. /\ UNCHANGED <<intent, logins>> /\ (exchange' = exchange \/ exchange' = [exchange EXCEPT ![w] = L!Idle])
        /\ window' \in {window, [window EXCEPT ![w] = L!AtPage], [window EXCEPT ![w] = L!Refused]}
    BY <1>0, <1>4 DEF L!Reload, L!Lost
  <2>2. \A v \in Windows : exchange'[v] \in {exchange[v], L!Idle}
    BY <1>0, <2>1
  <2>3. \A v \in Windows : window'[v].place = "provider" => window'[v] = window[v]
    BY <1>0, <2>1 DEF L!AtPage, L!Refused
  <2>4. \A s \in Nat, v \in Windows : StateNames(s, v)' => StateNames(s, v)
    BY <2>1, <2>2, <2>3 DEF StateNames, IntentNames, ExchangeNames
  <2> HIDE DEF StateNames
  <2> QED BY <2>1, <2>4, NoNewNames
<1>5. ASSUME NEW w \in Windows,
             L!AskArrives(w) \/ L!LogoutArrives(w) \/ L!LoginArrives(w) \/ L!CallbackArrives(w)
      PROVE  StatesName'
  <2> DEFINE e == exchange[w]
  <2>1. /\ e \in L!Answer /\ e # L!Idle /\ e.stage = "answered" /\ Fits(w, e, window[w])
        /\ intent' = IF e.setIntent = Keep THEN intent ELSE e.setIntent
        /\ logins' = logins
        /\ \A v \in Windows \ {w} : exchange'[v] = exchange[v] /\ window'[v] = window[v]
        /\ \/ exchange'[w] = L!Idle
           \/ exchange'[w] = L!RequestOf("login", Nobody)
              /\ e.status # "ok" /\ e.route \in {"me", "judge"}
    BY <1>5, Arrival
  <2>2. e.setIntent = Keep \/ ~(e.route \in {"me", "judge"})
    BY <2>1 DEF Fits
  <2>3. \A s, v : IntentNames(intent', s, v) => IntentNames(intent, s, v) \/ ExchangeNames(e, s, v)
    BY <2>1 DEF ExchangeNames
  <2>4. \A s, v : ExchangeNames(exchange'[w], s, v) => IntentNames(intent, s, v)
    BY <2>1, RequestIs DEF ExchangeNames
  <2>5. ASSUME window'[w].place = "provider"
        PROVE  e.route = "login" /\ e.setIntent \in L!Intent /\ e.setIntent.returnTo = w
               /\ window'[w].state = e.setIntent.state
    <3>1. L!LoginArrives(w)
      BY <1>0, <1>5, <2>1, <2>5 DEF L!AskArrives, L!LogoutArrives, L!CallbackArrives, Fits, L!AtPage, L!Refused
    <3>2. e.route = "login" /\ e.status = "ok"
      BY <1>0, <2>5, <3>1 DEF L!LoginArrives, L!Refused
    <3>3. window'[w].state = e.setIntent.state
      BY <1>0, <3>1, <3>2 DEF L!LoginArrives
    <3> QED BY <2>1, <3>2, <3>3 DEF Fits
  <2>6. \A s, v : v = w /\ window'[w].place = "provider" /\ window'[w].state = s => ExchangeNames(e, s, v)
    BY <2>1, <2>5 DEF ExchangeNames, IntentNames
  <2>7. \A s \in Nat, v \in Windows : StateNames(s, v)' => StateNames(s, v)
    <3> SUFFICES ASSUME NEW s \in Nat, NEW v \in Windows, StateNames(s, v)' PROVE StateNames(s, v)
      OBVIOUS
    <3>1. CASE IntentNames(intent', s, v)
      BY <2>3, <3>1 DEF StateNames
    <3>2. CASE \E x \in Windows : ExchangeNames(exchange'[x], s, v)
      BY <2>1, <2>4, <3>2 DEF StateNames
    <3>3. CASE window'[v].place = "provider" /\ window'[v].state = s
      BY <2>1, <2>6, <3>3 DEF StateNames
    <3> QED BY <3>1, <3>2, <3>3 DEF StateNames, IntentNames, ExchangeNames
  <2> HIDE DEF StateNames
  <2> QED BY <2>1, <2>7, NoNewNames
<1> QED BY <1>1, <1>2, <1>3, <1>4, <1>5 DEF L!Next, L!Browse

LEMMA AloneStep == Basics /\ AloneKeepTheirs /\ [L!Next]_L!vars => AloneKeepTheirs'
<1> SUFFICES ASSUME Basics, AloneKeepTheirs, [L!Next]_L!vars PROVE AloneKeepTheirs'
  OBVIOUS
<1>0. DOMAIN exchange = Windows /\ window \in [Windows -> L!Window] /\ alone \subseteq Windows
  BY DEF Basics
<1>a. ASSUME UNCHANGED <<alone, intent>>,
             \A v \in Windows :
               AloneFine(v, exchange[v], window[v], intent) => AloneFine(v, exchange'[v], window'[v], intent)
      PROVE  AloneKeepTheirs'
  BY <1>0, <1>a DEF AloneKeepTheirs, AloneFine, OwnIntent
<1>1. CASE UNCHANGED L!vars \/ L!Tick
  <2>1. UNCHANGED <<intent, exchange, window, alone>>
    BY <1>1 DEF L!vars, L!Tick
  <2> QED BY <1>a, <2>1
<1>2. ASSUME NEW w \in Windows, L!Serve(w) PROVE AloneKeepTheirs'
  <2>1. /\ UNCHANGED <<intent, window, alone>>
        /\ exchange' = [exchange EXCEPT ![w] = exchange'[w]]
    BY <1>2, ServeFits
  <2>2. \A v \in Windows \ {w} : exchange'[v] = exchange[v]
    BY <1>0, <2>1
  <2>3. ASSUME AloneFine(w, exchange[w], window[w], intent)
        PROVE  AloneFine(w, exchange'[w], window[w], intent)
    <3>1. clock \in Nat /\ window[w].exp \in Nat /\ window[w].state \in Nat
      BY <1>0, <1>2 DEF Basics, L!Window
    <3>2. OwnIntent(w, window[w]) # NoCookie
      BY <1>2, <3>1, Names DEF OwnIntent, L!Intent
    <3>3. OwnIntent(w, window[w]).state = window[w].state /\ OwnIntent(w, window[w]).exp = window[w].exp
      BY DEF OwnIntent
    <3> HIDE DEF OwnIntent
    <3> QED BY <1>2, <2>3, <3>1, <3>2, <3>3, ServeKeeps DEF AloneFine, L!IsLive
  <2> QED BY <1>a, <2>1, <2>2, <2>3
<1>3. ASSUME NEW w \in Windows, L!PageAsks(w) \/ L!SignOut(w) \/ L!ProviderReturns(w) PROVE AloneKeepTheirs'
  <2>1. PICK route \in {"me", "judge", "logout", "callback"}, a \in Accounts \cup {Nobody} :
          /\ exchange[w] = L!Idle
          /\ route = "callback" <=> window[w].place = "provider"
          /\ exchange' = [exchange EXCEPT ![w] = L!RequestOf(route, a)]
    BY <1>3, AskSends
  <2>2. UNCHANGED <<intent, window, alone>>
    BY <1>3 DEF L!PageAsks, L!SignOut, L!ProviderReturns
  <2>3. exchange'[w] = L!RequestOf(route, a) /\ \A v \in Windows \ {w} : exchange'[v] = exchange[v]
    BY <1>0, <2>1
  <2>4. AloneFine(w, exchange[w], window[w], intent) => AloneFine(w, L!RequestOf(route, a), window[w], intent)
    BY <2>1, RequestIs DEF AloneFine
  <2> QED BY <1>a, <2>2, <2>3, <2>4
<1>4. ASSUME NEW w \in Windows, L!Reload(w) \/ L!Lost(w) PROVE AloneKeepTheirs'
  <2>1. /\ UNCHANGED <<intent, alone>>
        /\ \A v \in Windows \ {w} : exchange'[v] = exchange[v] /\ window'[v] = window[v]
        /\ exchange'[w] = L!Idle
    BY <1>0, <1>4 DEF L!Reload, L!Lost
  <2>2. window'[w].place # "provider"
    <3>1. exchange[w] # L!Idle => window[w].place = IF exchange[w].route = "callback" THEN "provider" ELSE "page"
      BY <1>4, Stages DEF Fits
    <3> QED BY <1>0, <1>4, <3>1 DEF L!Reload, L!Lost, L!AtPage, L!Refused
  <2> QED BY <1>a, <2>1, <2>2 DEF AloneFine
<1>5. ASSUME NEW w \in Windows,
             L!AskArrives(w) \/ L!LogoutArrives(w) \/ L!LoginArrives(w) \/ L!CallbackArrives(w)
      PROVE  AloneKeepTheirs'
  <2> DEFINE e == exchange[w]
  <2>1. /\ e \in L!Answer /\ e # L!Idle /\ e.stage = "answered" /\ Fits(w, e, window[w])
        /\ intent' = IF e.setIntent = Keep THEN intent ELSE e.setIntent
        /\ \A v \in Windows \ {w} : exchange'[v] = exchange[v] /\ window'[v] = window[v]
        /\ \/ exchange'[w] = L!Idle
           \/ exchange'[w] = L!RequestOf("login", Nobody)
              /\ e.status # "ok" /\ e.route \in {"me", "judge"}
    BY <1>5, Arrival
  <2>2. alone' = IF e.setIntent = Keep THEN alone
                 ELSE {v \in alone \ {w} : exchange[v] # L!Idle /\ exchange[v].route = "callback"}
                      \cup IF e.route = "login" THEN {w} ELSE {}
    BY <1>5 DEF L!AskArrives, L!LogoutArrives, L!LoginArrives, L!CallbackArrives, L!SetCookies
  <2>3. ASSUME window'[w].place = "provider"
        PROVE  /\ e.route = "login" /\ e.setIntent \in L!Intent /\ e.setIntent.returnTo = w
               /\ window'[w].state = e.setIntent.state /\ window'[w].exp = e.setIntent.exp
    <3>1. L!LoginArrives(w)
      BY <1>0, <1>5, <2>1, <2>3 DEF L!AskArrives, L!LogoutArrives, L!CallbackArrives, Fits, L!AtPage, L!Refused
    <3>2. e.route = "login" /\ e.status = "ok"
      BY <1>0, <2>3, <3>1 DEF L!LoginArrives, L!Refused
    <3>3. window'[w].state = e.setIntent.state /\ window'[w].exp = e.setIntent.exp
      BY <1>0, <3>1, <3>2 DEF L!LoginArrives
    <3> QED BY <2>1, <3>2, <3>3 DEF Fits
  <2>4. ~(exchange'[w] # L!Idle /\ exchange'[w].route = "callback")
    BY <2>1, RequestIs
  <2>5. AloneFine(w, exchange'[w], window'[w], intent')
    <3>1. CASE window'[w].place # "provider"
      BY <2>4, <3>1 DEF AloneFine
    <3>2. CASE window'[w].place = "provider"
      <4>1. intent' = e.setIntent
        BY <2>1, <2>3, <3>2, Names
      <4>2. e.setIntent = OwnIntent(w, window'[w])
        BY <2>3, <3>2 DEF OwnIntent, L!Intent
      <4> QED BY <2>4, <4>1, <4>2 DEF AloneFine
    <3> QED BY <3>1, <3>2
  <2>6. ASSUME NEW v \in alone', v # w PROVE AloneFine(v, exchange'[v], window'[v], intent')
    <3>1. v \in alone /\ v \in Windows \ {w} /\ AloneFine(v, exchange[v], window[v], intent)
      BY <1>0, <2>2, <2>6 DEF AloneKeepTheirs
    <3>2. exchange'[v] = exchange[v] /\ window'[v] = window[v]
      BY <2>1, <3>1
    <3>3. intent' = intent \/ exchange[v] # L!Idle
      BY <2>1, <2>2, <2>6
    <3> QED BY <3>1, <3>2, <3>3 DEF AloneFine
  <2> QED BY <2>5, <2>6 DEF AloneKeepTheirs, AloneFine, OwnIntent
<1> QED BY <1>1, <1>2, <1>3, <1>4, <1>5 DEF L!Next, L!Browse

LEMMA LoginsInit == L!Init => StatesName /\ AloneKeepTheirs
<1> SUFFICES ASSUME L!Init PROVE StatesName /\ AloneKeepTheirs
  OBVIOUS
<1>1. \A w \in Windows : exchange[w] = L!Idle /\ window[w].place # "provider"
  BY DEF L!Init, L!AtPage
<1>2. ASSUME NEW s, NEW v \in Windows PROVE ~StateNames(s, v)
  BY <1>1, <1>2, Names DEF StateNames, ExchangeNames, IntentNames, L!Init
<1> QED BY <1>2 DEF StatesName, AloneKeepTheirs, L!Init

\* A login that no other window disturbed signs its judge in, and whoever is signed in
\* returns to the page the login was begun on (routes/auth.ts, oidc.ts): one state
\* belongs to one window, and a window that is alone still has its own intent.
THEOREM UndisturbedLoginsComplete == L!Spec => []LoginsComplete
<1>1. L!Init => Basics /\ StatesName /\ AloneKeepTheirs
  BY BasicsInit, LoginsInit
<1>2. Basics /\ StatesName /\ AloneKeepTheirs /\ [L!Next]_L!vars => (Basics /\ StatesName /\ AloneKeepTheirs)'
  BY BasicsStep, StatesNameStep, AloneStep
<1>3. Basics /\ StatesName /\ AloneKeepTheirs => LoginsComplete
  <2> SUFFICES ASSUME Basics, StatesName, AloneKeepTheirs, NEW w \in Windows,
                      exchange[w].stage = "answered", exchange[w].route = "callback"
               PROVE  /\ exchange[w].status = "ok" => exchange[w].intent.returnTo = w
                      /\ w \in alone /\ exchange[w].account # Nobody /\ exchange[w].handled <= window[w].exp =>
                           exchange[w].status = "ok"
    BY DEF LoginsComplete
  <2>1. /\ Fits(w, exchange[w], window[w]) /\ exchange[w] \in L!Answer /\ exchange[w] # L!Idle
        /\ window[w] \in L!Window
    BY Stages
  <2>2. ASSUME exchange[w].status = "ok" PROVE exchange[w].intent.returnTo = w
    <3> DEFINE i == exchange[w].intent
    <3>1. i \in L!Intent /\ i.state = window[w].state /\ window[w].place = "provider"
      BY <2>1, <2>2 DEF Fits, L!Answer
    <3>2. i.state \in Nat /\ i.returnTo \in Windows
      BY <3>1 DEF L!Intent
    <3>3. StateNames(i.state, i.returnTo)
      BY <2>1, <3>1 DEF StateNames, ExchangeNames, IntentNames
    <3>4. StateNames(i.state, w)
      BY <3>1 DEF StateNames
    <3> QED BY <3>2, <3>3, <3>4 DEF StatesName
  <2>3. ASSUME w \in alone, exchange[w].account # Nobody, exchange[w].handled <= window[w].exp
        PROVE  exchange[w].status = "ok"
    <3>1. exchange[w].handled \in Nat /\ window[w].exp \in Nat
      BY <2>1 DEF L!Answer, L!Window
    <3> QED BY <2>1, <2>3, <3>1 DEF AloneKeepTheirs, AloneFine
  <2> QED BY <2>2, <2>3
<1> QED BY <1>1, <1>2, <1>3, PTL DEF L!Spec
============================================================================
