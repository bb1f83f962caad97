----------------------------- MODULE RingState -----------------------------
(***************************************************************************)
(* The ring of failed database writes between two of its steps, and what   *)
(* those who hand it a write may rely on.  RetryRing has the steps.        *)
(***************************************************************************)
EXTENDS Integers, Sequences

CONSTANTS NoEntry,       \* no entry under way
          MaxRing        \* MAX_RING: 1000 in the code

VARIABLES
  ring,         \* the entries waiting
  trying,       \* the entry the pass awaits, or NoEntry: no pass runs
  left,         \* entries the pass has still to take after that
  recent,       \* degradedUntil > now
  failed,       \* history: jobs enqueued so far
  done,         \* history: jobs retried with success
  overflowed,   \* history: jobs a full ring gave up
  dead          \* history: jobs dead-lettered

ringVars == <<ring, trying, left, recent, failed, done, overflowed, dead>>

Waiting == {ring[i].job : i \in DOMAIN ring}
UnderWay == IF trying = NoEntry THEN {} ELSE {trying.job}

\* The ring can outgrow MAX_RING, because a failed retry is put back without
\* looking at the capacity, but never by more than the one entry under way.
RingBounded == Len(ring) + (IF trying = NoEntry THEN 0 ELSE 1) <= MaxRing + 1

\* No failed write is forgotten: each waits, is under way, or was settled by
\* success, by overflow or as a dead letter.
NothingForgotten ==
  failed = Waiting \cup UnderWay \cup done \cup overflowed \cup dead

\* No failed write is in two places: a retry cannot run a write again that
\* already succeeded or was given up.
NothingTwice ==
  /\ \A i, k \in DOMAIN ring : ring[i].job = ring[k].job => i = k
  /\ Waiting \cap UnderWay = {}
  /\ (Waiting \cup UnderWay) \cap (done \cup overflowed \cup dead) = {}
  /\ done \cap dead = {} /\ done \cap overflowed = {} /\ dead \cap overflowed = {}
============================================================================
