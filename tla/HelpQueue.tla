----------------------------- MODULE HelpQueue -----------------------------
(***************************************************************************)
(* The help queue as server/src/help-queue.ts keeps it: a version and an   *)
(* array of entries.  A new entry is appended and the array is sorted by   *)
(* requestedAtServerMs with JavaScript's stable sort; entries leave by     *)
(* filter; the station lookup replaces one entry in place.  The host clock *)
(* may be stepped back between two requests, so `at' is any instant.       *)
(*                                                                         *)
(* ImplementsDesk relates the arrays to the sets of HelpEntries, on which  *)
(* HelpRoom is built.                                                      *)
(***************************************************************************)
EXTENDS HelpArray, SequencesExt

CONSTANT MaxVersion   \* bound: changes of the queue

TypeOK == version \in Nat /\ entries \in Seq(Entry) /\ accepted \in 0..MaxRequests

Has(c) == \E i \in DOMAIN entries : entries[i].contestant = c

\* filter keeps the others; a contestant is listed once.
Without(c) ==
  IF Has(c) THEN RemoveAt(entries, CHOOSE i \in DOMAIN entries : entries[i].contestant = c)
  ELSE entries

\* Where a stable sort puts an entry that was appended to a sorted array: behind
\* every entry that is not younger.
PlaceOf(new) ==
  CHOOSE p \in 1..(Len(entries) + 1) :
    /\ \A i \in 1..(p - 1) : entries[i].at <= new.at
    /\ \A i \in p..Len(entries) : entries[i].at > new.at

\* Seeded fault: a sort that puts the newest of a tie first.
InsertedBeforeTies(new) ==
  InsertAt(entries, CHOOSE p \in 1..(Len(entries) + 1) :
                      /\ \A i \in 1..(p - 1) : entries[i].at < new.at
                      /\ \A i \in p..Len(entries) : entries[i].at >= new.at, new)

InsertedByTime(new) == InsertAt(entries, PlaceOf(new), new)

Init == version = 0 /\ entries = <<>> /\ accepted = 0

Changed == version < MaxVersion /\ version' = version + 1

Request(c, at) ==
  /\ ~Has(c) /\ accepted < MaxRequests
  /\ Changed
  /\ accepted' = accepted + 1
  /\ entries' = InsertedByTime([contestant |-> c, station |-> NoStation,
                                at |-> at, req |-> accepted'])

Cancel(c) ==
  /\ Len(Without(c)) # Len(entries)
  /\ Changed
  /\ entries' = Without(c) /\ accepted' = accepted

Ack(c, expectedVersion) ==
  /\ expectedVersion = version /\ Has(c)
  /\ Changed
  /\ entries' = Without(c) /\ accepted' = accepted

\* Seeded fault: the station is filled in without a new version.
StationFilledInPlace(c, station) ==
  /\ \E i \in DOMAIN entries :
       entries[i].contestant = c /\ entries' = [entries EXCEPT ![i].station = station]
  /\ UNCHANGED <<version, accepted>>

\* findIndex, then a copy of the array with that element replaced.
StationFilled(c, station) ==
  /\ \E i \in DOMAIN entries :
       /\ entries[i].contestant = c
       /\ \A k \in 1..(i - 1) : entries[k].contestant # c
       /\ entries[i].station # station
       /\ entries' = [entries EXCEPT ![i].station = station]
  /\ Changed
  /\ accepted' = accepted

Next == \E c \in Contestants :
          \/ \E at \in Instants : Request(c, at)
          \/ Cancel(c)
          \/ \E v \in 0..MaxVersion : Ack(c, v)
          \/ \E s \in Stations : StationFilled(c, s)

Spec == Init /\ [][Next]_arrayVars
============================================================================
