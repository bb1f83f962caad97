----------------------------- MODULE RetryRing -----------------------------
(***************************************************************************)
(* The in-process ring of failed database writes and its drain             *)
(* (server/src/db/dal.ts, server/src/db/retry-drain.ts).                   *)
(*                                                                         *)
(* A write that fails is enqueued; a full ring gives up its oldest entry.  *)
(* Every five seconds, unless a pass is still running, flushRetries takes  *)
(* as many entries as the ring held when it began, one after the other,    *)
(* awaiting each: what fails goes back to the tail with one more attempt,  *)
(* or is dead-lettered at MaxAttempts.  Writes that fail meanwhile are     *)
(* enqueued between two of its steps.                                      *)
(*                                                                         *)
(* TimerStore composes the ring with the writes of a room: which fail, and *)
(* whether the database accepts or refuses an attempt, is decided there.   *)
(***************************************************************************)
EXTENDS RingState

CONSTANTS Jobs,          \* the writes
          MaxAttempts    \* MAX_ATTEMPTS: 5 in the code

Entry == [job : Jobs, attempts : 0..(MaxAttempts - 1)]

TypeOK ==
  /\ ring \in Seq(Entry)
  /\ trying \in Entry \cup {NoEntry}
  /\ left \in Nat
  /\ recent \in BOOLEAN
  /\ failed \in SUBSET Jobs
  /\ done \in SUBSET Jobs
  /\ overflowed \in SUBSET Jobs
  /\ dead \in SUBSET Jobs

Init ==
  /\ ring = <<>>
  /\ trying = NoEntry
  /\ left = 0
  /\ recent = FALSE
  /\ failed = {} /\ done = {} /\ overflowed = {} /\ dead = {}

IsDbDegraded == recent \/ ring # <<>>

\* Seeded fault: the capacity is not looked at.
EnqueueUnbounded(job) ==
  /\ ring' = Append(ring, [job |-> job, attempts |-> 0])
  /\ recent' = TRUE
  /\ failed' = failed \cup {job}
  /\ UNCHANGED <<overflowed, trying, left, done, dead>>

\* enqueueRetry
Enqueue(job) ==
  /\ LET full == Len(ring) >= MaxRing
     IN /\ ring' = Append(IF full THEN Tail(ring) ELSE ring, [job |-> job, attempts |-> 0])
        /\ overflowed' = overflowed \cup (IF full THEN {Head(ring).job} ELSE {})
  /\ recent' = TRUE
  /\ failed' = failed \cup {job}
  /\ UNCHANGED <<trying, left, done, dead>>

\* Seeded fault: the entry is read but not shifted off the ring.
TakeNextPeek(r, n) ==
  IF n = 0 \/ r = <<>>
  THEN /\ trying' = NoEntry /\ left' = 0 /\ ring' = r
       /\ recent' = (recent /\ r # <<>>)
  ELSE /\ trying' = Head(r) /\ left' = n - 1 /\ ring' = r
       /\ recent' = recent

\* The loop of flushRetries up to its next await, or its end, with the ring
\* now r and n entries still to take.
TakeNext(r, n) ==
  IF n = 0 \/ r = <<>>
  THEN /\ trying' = NoEntry /\ left' = 0 /\ ring' = r
       /\ recent' = (recent /\ r # <<>>)
  ELSE /\ trying' = Head(r) /\ left' = n - 1 /\ ring' = Tail(r)
       /\ recent' = recent

\* The interval ticks and no pass runs (single flight).
DrainTick ==
  /\ trying = NoEntry /\ IsDbDegraded
  /\ TakeNext(ring, Len(ring))
  /\ UNCHANGED <<failed, done, overflowed, dead>>

\* The awaited job succeeded.
AttemptOk ==
  /\ trying # NoEntry
  /\ done' = done \cup {trying.job}
  /\ TakeNext(ring, left)
  /\ UNCHANGED <<failed, overflowed, dead>>

\* Seeded fault: an entry that failed again is not put back.
AttemptFailsDropped ==
  /\ trying # NoEntry
  /\ TakeNext(ring, left)
  /\ UNCHANGED <<failed, done, overflowed, dead>>

\* Seeded fault: attempts are not counted.
AttemptFailsUncounted ==
  /\ trying # NoEntry
  /\ TakeNext(Append(ring, trying), left)
  /\ UNCHANGED <<failed, done, overflowed, dead>>

\* The awaited job failed.
AttemptFails ==
  /\ trying # NoEntry
  /\ IF trying.attempts + 1 >= MaxAttempts
     THEN /\ dead' = dead \cup {trying.job}
          /\ TakeNext(ring, left)
     ELSE /\ TakeNext(Append(ring, [trying EXCEPT !.attempts = @ + 1]), left)
          /\ dead' = dead
  /\ UNCHANGED <<failed, done, overflowed>>

\* Thirty seconds pass without a failed first write.
WindowEnds ==
  /\ recent
  /\ recent' = FALSE
  /\ UNCHANGED <<ring, trying, left, failed, done, overflowed, dead>>
----------------------------------------------------------------------------
(* Properties *)

\* A pass never has more to take than the ring holds: the early break of its
\* loop is not what ends it.
PassWithinRing == left <= Len(ring)

\* Jobs that always fail do not keep the others, or the degraded flag, from
\* settling (the comment above MAX_RING): with finitely many failed writes the
\* flag clears for good.
DegradedClears == <>[](~IsDbDegraded /\ trying = NoEntry)

============================================================================
