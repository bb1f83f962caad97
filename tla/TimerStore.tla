----------------------------- MODULE TimerStore -----------------------------
(***************************************************************************)
(* How one room's timer is kept in Postgres.  A judge's command changes    *)
(* the timer in memory and starts two writes nobody awaits: the upsert of  *)
(* the timer_state row (persistTimer in server/src/rooms.ts) and the audit *)
(* row (writeAudit).  The writes run on a pool of connections, so they     *)
(* finish in any order; one that fails goes to the ring of RetryRing,      *)
(* whose drain tries it again.  The upsert carries a version but does not  *)
(* compare it.  On a restart everything in memory is gone and the timer is *)
(* loaded from the row (rehydrateFromDb), or starts afresh when the load   *)
(* fails or the room is archived and so not among the rooms loaded.        *)
(*                                                                         *)
(* An error reported to the server does not tell whether the row was       *)
(* written: the connection may have died after the commit.                 *)
(*                                                                         *)
(* No write reads the clock, so it moves here only while the server is     *)
(* down: a timer that is loaded may have ended meanwhile.                  *)
(***************************************************************************)
EXTENDS RoomTimer, RingState, FiniteSets

CONSTANTS MaxAttempts,   \* as in RetryRing
          EarlierRows,   \* the rows, or NULL, an earlier process may have left
          MaxWrites,     \* bound: upserts started
          MaxAudits,     \* bound: audit rows that fail
          MaxRestarts    \* bound: restarts

ASSUME StoreRows ==
  \A r \in EarlierRows : r = NULL \/ (r \in TimerState /\ FieldsMatchStatus(r))
ASSUME StoreBounds == {MaxWrites, MaxAudits, MaxRestarts} \subseteq Nat

\* A write: its number, and the row it upserts or NULL for an audit row, whose
\* number is that of the audit row that failed.
Job == [no : Nat, row : TimerState \cup {NULL}]

VARIABLES
  row,            \* the timer_state row, or NULL
  inflight,       \* upserts whose first attempt is not answered yet
  nwrites,        \* history: upserts started so far
  naudits,        \* history: audit rows that failed so far
  latest,         \* history: the number of the last upsert since the restart, or 0
  rivals,         \* history: its row, and those of the upserts unsettled when it began
  before,         \* history: the row as it was then
  restarts        \* history: restarts so far

storeVars == <<row, inflight, nwrites, naudits, latest, rivals, before, restarts>>
vars == <<roomVars, ringVars, storeVars>>

Room == INSTANCE TimerRoom
Ring == INSTANCE RetryRing WITH Jobs <- Job

ASSUME StoreRing ==
  /\ MaxRing \in Nat \ {0} /\ MaxAttempts \in Nat \ {0}
  /\ NoEntry \notin Ring!Entry /\ NULL \notin TimerState

TypeOK ==
  /\ Room!TypeOK
  /\ Ring!TypeOK
  /\ row \in TimerState \cup {NULL}
  /\ inflight \in SUBSET Job
  /\ nwrites \in 0..MaxWrites /\ naudits \in 0..MaxAudits /\ latest \in 0..nwrites
  /\ rivals \subseteq TimerState /\ before \in TimerState \cup {NULL}
  /\ restarts \in 0..MaxRestarts

\* The timer made of a row, or of its absence.
TimerOf(r) == IF r = NULL THEN InitialTimerState ELSE r

\* The server comes up on an empty database or on what an earlier one left.
Init ==
  /\ row \in EarlierRows
  /\ timer = TimerOf(row) /\ now = 0 /\ Ring!Init
  /\ inflight = {}
  /\ nwrites = 0 /\ naudits = 0 /\ latest = 0 /\ rivals = {} /\ before = NULL
  /\ restarts = 0

\* The writes of the room that may still reach the database.
Unsettled ==
  inflight \cup {ring[i].job : i \in DOMAIN ring}
           \cup (IF trying = NoEntry THEN {} ELSE {trying.job})

UnsettledUpserts == {job \in Unsettled : job.row # NULL}

\* The timer in memory changed: persistTimer(next) starts an upsert.  The audit
\* row started next (writeAudit) does not touch the timer's row, so only its
\* failure is a step: AuditFails.
Persist ==
  /\ nwrites < MaxWrites
  /\ inflight' = inflight \cup {[no |-> nwrites + 1, row |-> timer']}
  /\ nwrites' = nwrites + 1 /\ latest' = nwrites + 1
  /\ rivals' = {timer'} \cup {job.row : job \in UnsettledUpserts} /\ before' = row
  /\ UNCHANGED <<ringVars, row, naudits, restarts>>

TimerSet    == Room!TimerSet /\ Persist
TimerPause  == Room!TimerPause /\ Persist
TimerResume == Room!TimerResume /\ Persist
TimerAdjust == Room!TimerAdjust /\ Persist
TimerReset  == Room!TimerReset /\ Persist
MessageSet  == Room!MessageSet /\ Persist

----------------------------------------------------------------------------
(* The database *)

\* _upsertTimerState: INSERT ... ON CONFLICT DO UPDATE, whatever the row holds.
Applied(job) == IF job.row = NULL THEN row ELSE job.row

WriteOk(job) ==
  /\ inflight' = inflight \ {job}
  /\ row' = Applied(job)
  /\ UNCHANGED <<roomVars, ringVars, nwrites, naudits, latest, rivals, before, restarts>>

\* Seeded fault: the error is swallowed, nothing is enqueued.
WriteFailsForgotten(job) ==
  /\ inflight' = inflight \ {job}
  /\ row' \in {row, Applied(job)}
  /\ UNCHANGED <<roomVars, ringVars, nwrites, naudits, latest, rivals, before, restarts>>

WriteFails(job) ==
  /\ inflight' = inflight \ {job}
  /\ row' \in {row, Applied(job)}
  /\ Ring!Enqueue(job)
  /\ UNCHANGED <<roomVars, nwrites, naudits, latest, rivals, before, restarts>>

\* The insert of an audit row fails and is enqueued behind, or pushes out, the
\* upserts that failed.
AuditFails ==
  /\ naudits < MaxAudits /\ nwrites > 0
  /\ naudits' = naudits + 1
  /\ Ring!Enqueue([no |-> naudits + 1, row |-> NULL])
  /\ UNCHANGED <<roomVars, row, inflight, nwrites, latest, rivals, before, restarts>>

DrainTick ==
  /\ Ring!DrainTick
  /\ UNCHANGED <<roomVars, storeVars>>

RetryOk ==
  /\ Ring!AttemptOk
  /\ row' = Applied(trying.job)
  /\ UNCHANGED <<roomVars, inflight, nwrites, naudits, latest, rivals, before, restarts>>

RetryFails ==
  /\ Ring!AttemptFails
  /\ row' \in {row, Applied(trying.job)}
  /\ UNCHANGED <<roomVars, inflight, nwrites, naudits, latest, rivals, before, restarts>>

WindowEnds == Ring!WindowEnds /\ UNCHANGED <<roomVars, storeVars>>
----------------------------------------------------------------------------
(* Restart *)

\* The process dies; a query it had sent may or may not have taken effect.
\* The writes under way are lost, and so is the ring.
Die ==
  /\ restarts < MaxRestarts
  /\ restarts' = restarts + 1
  /\ row' \in {row} \cup {Applied(job) : job \in inflight}
                    \cup (IF trying = NoEntry THEN {} ELSE {Applied(trying.job)})
  /\ inflight' = {}
  /\ ring' = <<>> /\ trying' = NoEntry /\ left' = 0 /\ recent' = FALSE
  /\ failed' = {} /\ done' = {} /\ overflowed' = {} /\ dead' = {}
  /\ latest' = 0 /\ rivals' = {} /\ before' = NULL
  /\ now' = now + 1
  /\ UNCHANGED <<nwrites, naudits>>

\* Seeded fault: the row is not loaded.
RehydrateNothing == Die /\ timer' = InitialTimerState

\* The row is loaded; without a row the room starts afresh.
Rehydrate == Die /\ timer' = TimerOf(row')

\* The load fails, or the room was archived when the server came up.
StartAfresh == Die /\ timer' = InitialTimerState

Next ==
  \/ TimerSet \/ TimerPause \/ TimerResume \/ TimerAdjust \/ TimerReset \/ MessageSet
  \/ \E job \in inflight : WriteOk(job) \/ WriteFails(job)
  \/ AuditFails
  \/ DrainTick \/ RetryOk \/ RetryFails \/ WindowEnds
  \/ Rehydrate \/ StartAfresh

Spec == Init /\ [][Next]_vars

(* The interval keeps ticking, the database answers every attempt one way or *)
(* the other, and time passes.  It may refuse a write for ever.              *)
Fairness == WF_vars(DrainTick) /\ WF_vars(RetryOk \/ RetryFails) /\ WF_vars(WindowEnds)

FairSpec == Spec /\ Fairness
----------------------------------------------------------------------------
(* Properties *)

Lost(no) == \E job \in overflowed \cup dead : job.row # NULL /\ job.no = no

\* However upserts overtake each other, fail, are retried or take effect twice:
\* once all are settled the row is the timer's, or at worst that of an upsert that
\* was unsettled when the last one began.  So it is the timer's if judges leave
\* each command time to settle.  Excepted is a last upsert that was given up.
SettledRowIsRecent ==
  UnsettledUpserts = {} /\ latest # 0 /\ ~Lost(latest) => row \in rivals

\* A restart at any moment, with whatever is in flight, waiting in the ring or
\* given up, forgets nothing that had settled when the last upsert began; and not
\* that one either if all have settled and it was not given up.
RestartKeepsTheSettled ==
  [][ Rehydrate /\ latest # 0 =>
        /\ timer' \in rivals \cup {TimerOf(before)}
        /\ UnsettledUpserts = {} /\ ~Lost(latest) => timer' \in rivals ]_vars

============================================================================
