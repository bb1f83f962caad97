----------------------------- MODULE JudgePrefs -----------------------------
(***************************************************************************)
(* Judges' notification preferences: the settings page                     *)
(* (spa/src/pages/Settings.tsx), the preference and verification routes    *)
(* (server/src/routes/judge.ts), the opt-out webhooks                      *)
(* (server/src/routes/webhooks.ts), the rows (server/src/db/dal.ts) and    *)
(* the dispatcher's choice of whom to notify.                              *)
(*                                                                         *)
(* A contact is a phone number or an e-mail address: the two have the same *)
(* columns, branches and routes, line for line, and never meet, so one of  *)
(* them is modelled.  Every route reads the judge's row, awaits, decides   *)
(* on what it read, and writes: the two halves are two actions, between    *)
(* which other tabs, other judges and webhooks act.                        *)
(*                                                                         *)
(* A page may be older than the row and its draft edited to anything, so a *)
(* save carries any contact.  A code is the number of its message and only *)
(* ever right for the row that holds it (six digits do not collide).       *)
(* Refused requests (no pending code, expired, wrong, badly formed) change *)
(* nothing and are left out.                                               *)
(***************************************************************************)
EXTENDS QuietHours, Sequences

CONSTANTS Judges, Contacts,
          Tabs,             \* settings pages
          Owner,            \* the judge of each page
          Choices,          \* what the other fields of a page may hold
          MaxCodes,         \* bound: verification messages
          MaxOptOuts        \* bound: STOP messages, bounces and complaints

Fields == [roomEnabled : BOOLEAN, quiet : QuietSpec]

ASSUME OwnerAssumption == Owner \in [Tabs -> Judges]
ASSUME ChoiceAssumption == Choices \subseteq Fields
ASSUME NoneAssumption == None \notin Contacts
ASSUME PrefsBoundAssumption == MaxCodes \in Nat /\ MaxOptOuts \in Nat

VARIABLES
  row,          \* judge_prefs: one row per judge
  request,      \* per tab: the request the server is in the middle of
  messages,     \* verification messages sent: code -> [judge, contact]
  expired,      \* codes older than ten minutes
  optOuts,      \* webhooks between looking the judge up and writing
  nOptOuts,     \* history: opt-outs received
  confirmed,    \* history: [judge, contact] whose code was entered, and that
                \* has not been opted out since
  optedOut,     \* history: contacts that opted out
  crossed       \* history: judges whose contact or status changed between the
                \* halves of a verification or an opt-out

prefVars == <<row, confirmed, optedOut, crossed>>
vars == <<row, request, messages, expired, optOuts, nOptOuts, confirmed,
          optedOut, crossed>>

NoCode == 0
Codes == 1..MaxCodes
ContactOrNone == Contacts \cup {None}
Status == {"none", "pending", "verified", "opted_out"}
Row == [contact : ContactOrNone, status : Status, code : Codes \cup {NoCode},
        fields : Fields]
JudgeContact == [judge : Judges, contact : Contacts]
NoQuiet == [start |-> None, end |-> None, weekdays |-> {}]

Idle == [op |-> "idle"]
Put == [op : {"put"}, seen : ContactOrNone, body : ContactOrNone, fields : Fields,
        code : Codes \cup {NoCode}]
Verify == [op : {"verify"}, contact : ContactOrNone, code : Codes]

TypeOK ==
  /\ row \in [Judges -> Row]
  /\ \A t \in Tabs : request[t] \in {Idle} \cup Put \cup Verify
  /\ messages \in Seq(JudgeContact) /\ Len(messages) <= MaxCodes
  /\ expired \in SUBSET Codes
  /\ optOuts \in SUBSET JudgeContact
  /\ nOptOuts \in 0..MaxOptOuts
  /\ confirmed \in SUBSET JudgeContact
  /\ optedOut \in SUBSET Contacts
  /\ crossed \in SUBSET Judges

\* What prefsToWire answers for a judge without a row.
NewRow == [contact |-> None, status |-> "none", code |-> NoCode,
           fields |-> [roomEnabled |-> FALSE, quiet |-> NoQuiet]]

Init ==
  /\ row = [j \in Judges |-> NewRow]
  /\ request = [t \in Tabs |-> Idle]
  /\ messages = <<>>
  /\ expired = {}
  /\ optOuts = {}
  /\ nOptOuts = 0
  /\ confirmed = {}
  /\ optedOut = {}
  /\ crossed = {}
----------------------------------------------------------------------------
(* PUT /api/judge/prefs *)

OrElse(value, old) == IF value = None THEN old ELSE value

\* Null quiet hours of the body mean the old ones.
Merged(fields, old) ==
  [fields EXCEPT !.quiet.start = OrElse(@, old.quiet.start),
                 !.quiet.end = OrElse(@, old.quiet.end)]

\* The first half, after the row was read: a new contact gets a code, which is
\* sent whether or not the write succeeds.
SaveBegins(t, body, fields) ==
  LET seen == row[Owner[t]]
      fresh == body # None /\ body # seen.contact
      code == Len(messages) + 1
  IN /\ request[t] = Idle
     /\ fresh => code \in Codes
     /\ messages' = IF fresh
                    THEN Append(messages, [judge |-> Owner[t], contact |-> body])
                    ELSE messages
     /\ request' = [request EXCEPT ![t] =
          [op |-> "put", seen |-> seen.contact, body |-> body,
           fields |-> Merged(fields, seen.fields),
           code |-> IF fresh THEN code ELSE NoCode]]
     /\ UNCHANGED <<prefVars, expired, optOuts, nOptOuts>>

\* Seeded fault: a new contact keeps the status of the old one, if there was one.
PatchedStatusKept(old, r) ==
  IF r.body = r.seen THEN old
  ELSE [old EXCEPT !.contact = r.body, !.code = r.code,
                   !.status = IF @ = "none" THEN "pending" ELSE @]

\* Seeded fault: the code of a cleared contact is left behind.
PatchedCodeKept(old, r) ==
  IF r.body = r.seen THEN old
  ELSE [old EXCEPT !.contact = r.body,
                   !.status = IF r.body = None THEN "none" ELSE "pending",
                   !.code = IF r.body = None THEN @ ELSE r.code]

\* The contact's columns after the upsert: left alone when the contact is the
\* one that was read, otherwise set together.
Patched(old, r) ==
  IF r.body = r.seen THEN old
  ELSE [old EXCEPT !.contact = r.body, !.code = r.code,
                   !.status = IF r.body = None THEN "none" ELSE "pending"]

SaveEnds(t) ==
  LET r == request[t]
  IN /\ r.op = "put"
     /\ row' = [row EXCEPT ![Owner[t]] = [Patched(@, r) EXCEPT !.fields = r.fields]]
     /\ request' = [request EXCEPT ![t] = Idle]
     /\ UNCHANGED <<messages, expired, optOuts, nOptOuts, confirmed, optedOut, crossed>>
----------------------------------------------------------------------------
(* POST /api/judge/prefs/verify-phone, verify-email *)

\* The judge enters the code of the row, in time: the checks pass.
VerifyBegins(t) ==
  LET seen == row[Owner[t]]
  IN /\ request[t] = Idle
     /\ seen.code # NoCode
     /\ seen.code \notin expired
     /\ request' = [request EXCEPT ![t] = 
          [op |-> "verify", contact |-> seen.contact, code |-> seen.code]]
     /\ UNCHANGED <<prefVars, messages, expired, optOuts, nOptOuts>>

\* setPhoneStatus, setEmailStatus.
WithStatus(old, status) == [old EXCEPT !.status = status, !.code = NoCode]

\* History: what is written to j was decided on a row with that contact and
\* status, and the row has others by now.
Crossing(j, contact, status) ==
  crossed' = IF row[j].contact = contact /\ row[j].status = status
             THEN crossed ELSE crossed \cup {j}

VerifyEnds(t) ==
  LET j == Owner[t]
      r == request[t]
  IN /\ r.op = "verify"
     /\ row' = [row EXCEPT ![j] = WithStatus(@, "verified")]
     /\ request' = [request EXCEPT ![t] = Idle]
     /\ confirmed' = confirmed \cup {messages[r.code]}
     /\ Crossing(j, r.contact, "pending")
     /\ UNCHANGED <<messages, expired, optOuts, nOptOuts, optedOut>>

\* The database refuses the second half.
RequestFails(t) ==
  /\ request[t] # Idle
  /\ request' = [request EXCEPT ![t] = Idle]
  /\ UNCHANGED <<prefVars, messages, expired, optOuts, nOptOuts>>

CodeExpires(c) ==
  /\ c \in DOMAIN messages
  /\ expired' = expired \cup {c}
  /\ UNCHANGED <<prefVars, request, messages, optOuts, nOptOuts>>
----------------------------------------------------------------------------
(* POST /api/webhooks/twilio, ses *)

\* findJudgeByPhone, findJudgeByEmail: LIMIT 1, so any one of the judges.
OptOutBegins(j, contact) ==
  /\ row[j].contact = contact
  /\ nOptOuts < MaxOptOuts
  /\ nOptOuts' = nOptOuts + 1
  /\ optOuts' = optOuts \cup {[judge |-> j, contact |-> contact]}
  /\ UNCHANGED <<prefVars, request, messages, expired>>

OptOutEnds(o) ==
  /\ row' = [row EXCEPT ![o.judge] = WithStatus(@, "opted_out")]
  /\ optOuts' = optOuts \ {o}
  /\ confirmed' = confirmed \ {o}
  /\ optedOut' = optedOut \cup {o.contact}
  /\ Crossing(o.judge, o.contact, row[o.judge].status)
  /\ UNCHANGED <<request, messages, expired, nOptOuts>>
----------------------------------------------------------------------------
Next ==
  \/ \E t \in Tabs :
       \/ \E body \in ContactOrNone, fields \in Choices : SaveBegins(t, body, fields)
       \/ SaveEnds(t)
       \/ VerifyBegins(t)
       \/ VerifyEnds(t)
       \/ RequestFails(t)
  \/ \E c \in Codes : CodeExpires(c)
  \/ \E j \in Judges, contact \in Contacts : OptOutBegins(j, contact)
  \/ \E o \in optOuts : OptOutEnds(o)

Spec == Init /\ [][Next]_vars
----------------------------------------------------------------------------
(* Whom the dispatcher notifies *)

\* findJudgesForRoom and qualifies, at a moment; the debounce is in HelpRoom.
Reachable(j, weekday, minute) ==
  /\ row[j].fields.roomEnabled
  /\ row[j].status = "verified"
  /\ row[j].contact # None
  /\ ~InQuietHours(row[j].fields.quiet, weekday, minute)

ContactOf(j) == [judge |-> j, contact |-> row[j].contact]

(* Properties *)

\* Nobody is notified at a contact whose owner has not entered the code sent
\* to it, or who has opted out since, however saves, verifications and opt-outs
\* interleave; except a judge for whom a verification or an opt-out wrote over
\* a contact it had not looked at (routes/judge.ts, webhooks.ts).
ReachableIsConfirmed ==
  \A j \in Judges \ crossed, weekday \in Weekdays, minute \in MinutesOfDay :
    Reachable(j, weekday, minute) => ContactOf(j) \in confirmed

\* A contact is marked as opted out only if it did opt out, with the same
\* exception: a contact the judge has just entered is not silenced by the
\* bounce of the old one.
OptedOutHasAsked ==
  \A j \in Judges \ crossed : row[j].status = "opted_out" => row[j].contact \in optedOut

\* A contact awaits verification exactly while the row holds the code sent to
\* it: no order of saves, verifications and opt-outs leaves a judge with a
\* pending contact that no code can confirm, or a code that outlived its contact.
PendingHasItsCode ==
  \A j \in Judges :
    /\ row[j].status = "pending" <=> row[j].code # NoCode
    /\ row[j].code # NoCode => messages[row[j].code] = ContactOf(j)

\* Both evaluators of quiet hours say what the windows say, for every window
\* that saves from several tabs can leave in a row, overnight windows and
\* windows mixed from two saves included.
QuietHoursAreWindows ==
  \A j \in Judges, weekday \in Weekdays, minute \in MinutesOfDay :
    LET spec == row[j].fields.quiet
        quiet == weekday * Minutes + minute \in QuietMinutes(spec)
    IN InQuietHours(spec, weekday, minute) = quiet /\ PageInQuietHours(spec, weekday, minute) = quiet
=============================================================================
