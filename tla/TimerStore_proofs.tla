-------------------------- MODULE TimerStore_proofs --------------------------
(***************************************************************************)
(* A room's timer, the ring of failed writes, the row the timer is kept in *)
(* and the alarm at its end: TimerRoom is a stopwatch, the ring holds      *)
(* every failed write exactly once until it is settled, the row and what a *)
(* restart loads of it are no older than what had settled when the last    *)
(* write began, and a client rings exactly once for an end it was counting *)
(* down to, with a clock whose offset is sound.  For any durations,        *)
(* writes, capacities, number of attempts, restarts, skews, and delays     *)
(* shorter than the alarm's quiet time.                                    *)
(*                                                                         *)
(* The argument.  A timer: each command leaves a state whose fields match  *)
(* its status, and what remains moves as the stopwatch's does.  The ring:  *)
(* its steps shift entries off the front and push them at the back, so     *)
(* what Tail and Append do to its length, to the writes it holds and to    *)
(* their distinctness is all there is to know; a write that fails for the  *)
(* first time is new to them, because writes are numbered.  The store:     *)
(* until the next command only the last upsert and those that were         *)
(* unsettled when it began may still reach the row, wherever they wait;    *)
(* one that leaves the ring was applied or given up, and an audit row      *)
(* leaves the row alone.  The alarm: the reading it compares with was from *)
(* the timer it shows, at most one step of the clock ago, and a version    *)
(* names one timer; what was rung for was over by some offset when the     *)
(* client last rang, so that a time read before it again and the quiet     *)
(* time cannot both be.  The offset: ranks by round trip are all different *)
(* (two sets of predecessors are one inside the other), so by the pigeon   *)
(* hole each place is taken, the median is half the sum of two offsets     *)
(* that are kept, and as many slow samples as are trimmed rank last.       *)
(***************************************************************************)
EXTENDS TimerStore, AlarmState, SequenceTheorems, FiniteSetTheorems, TLAPS

\* The alarm of a client, with any window of offsets.
VARIABLES kind, seen, enabled, prev, baseline, lastRing, due, ahead, disturbed
Bell == INSTANCE Alarm
----------------------------------------------------------------------------
\* One room's timer.

RoomInv == Room!TypeOK /\ Room!WellFormed

LEMMA RoomInit == Room!Init => RoomInv
BY NullAssumption, MessageAssumption
   DEF Room!Init, RoomInv, Room!TypeOK, Room!WellFormed, Room!FieldsMatchStatus,
       Room!InitialTimerState, Room!TimerState, Room!Status

\* The fields a command may read are numbers: an end time while running, a
\* remainder while paused.
LEMMA ReadableFields ==
  ASSUME RoomInv
  PROVE  /\ timer.status = "running" => timer.endsAtServerMs \in Int
         /\ timer.status = "paused" => timer.remainingMs \in Nat
         /\ timer.status \in Room!Status
         /\ timer.version \in Nat
         /\ timer.message \in Messages
         /\ now \in Nat
BY DEF RoomInv, Room!TypeOK, Room!WellFormed, Room!FieldsMatchStatus, Room!TimerState

\* Every state built by Running or Paused is a well-formed TimerState.
LEMMA RunningState ==
  ASSUME NEW s \in Room!TimerState, NEW e \in Int
  PROVE  /\ Room!Running(s, e) \in Room!TimerState
         /\ Room!FieldsMatchStatus(Room!Running(s, e))
         /\ Room!Running(s, e).status = "running"
         /\ Room!Running(s, e).endsAtServerMs = e
BY NullAssumption
   DEF Room!Running, Room!Moved, Room!TimerState, Room!Status, Room!FieldsMatchStatus

LEMMA PausedState ==
  ASSUME NEW s \in Room!TimerState, NEW r \in Nat
  PROVE  /\ Room!Paused(s, r) \in Room!TimerState
         /\ Room!FieldsMatchStatus(Room!Paused(s, r))
         /\ Room!Paused(s, r).status = "paused"
         /\ Room!Paused(s, r).remainingMs = r
BY NullAssumption
   DEF Room!Paused, Room!Moved, Room!TimerState, Room!Status, Room!FieldsMatchStatus


\* Changing the banner touches no other field a command reads.
LEMMA MessageState ==
  ASSUME NEW s \in Room!TimerState, NEW m \in Messages
  PROVE  /\ Room!SetMessage(s, m) \in Room!TimerState
         /\ Room!SetMessage(s, m).status = s.status
         /\ Room!SetMessage(s, m).endsAtServerMs = s.endsAtServerMs
         /\ Room!SetMessage(s, m).remainingMs = s.remainingMs
<1>1. s.version + 1 \in Nat BY DEF Room!TimerState
<1> QED BY <1>1 DEF Room!SetMessage, Room!TimerState

\* Each step keeps the invariant and is a step of the stopwatch, or a stutter.
LEMMA RoomStep ==
  RoomInv /\ [Room!Next]_Room!roomVars
    => RoomInv' /\ [Stopwatch!Next]_(Stopwatch!cvars)
<1> SUFFICES ASSUME RoomInv, [Room!Next]_Room!roomVars
             PROVE  RoomInv' /\ [Stopwatch!Next]_(Stopwatch!cvars)
  OBVIOUS
<1> USE ReadableFields, NullAssumption
<1>1. timer \in Room!TimerState /\ now \in Nat BY DEF RoomInv, Room!TypeOK
<1>2. CASE Room!TimerSet
  <2>1. PICK d \in Durations, m \in Messages \cup {NULL} : timer' = Room!SetTimer(timer, d, m, now)
    BY <1>2 DEF Room!TimerSet
  <2>2. d \in Nat /\ now + d \in Int BY RoomDurations, RoomDeltas
  <2>3. now' = now BY <1>2 DEF Room!TimerSet, Room!Command
  <2>4. /\ timer' \in Room!TimerState /\ Room!FieldsMatchStatus(timer')
        /\ timer'.status = "running" /\ timer'.endsAtServerMs = now + d
    BY <1>1, <2>1, <2>2, RunningState
       DEF Room!SetTimer, Room!TimerState, Room!FieldsMatchStatus
  <2>5. RoomInv' BY <1>1, <2>3, <2>4 DEF RoomInv, Room!TypeOK, Room!WellFormed
  <2>6. TimeLeft' = d BY <2>2, <2>3, <2>4 DEF TimeLeft
  <2>7. Stopwatch!Set BY <2>4, <2>6 DEF Stopwatch!Set
  <2> QED BY <2>5, <2>7 DEF Stopwatch!Next
<1>3. CASE Room!TimerPause
  <2>1. timer.status = "running" /\ now' = now /\ timer' = Room!PauseTimer(timer, now)
    BY <1>3 DEF Room!TimerPause, Room!Command, Room!CanPause
  <2>2. Room!AtLeastZero(timer.endsAtServerMs - now) \in Nat
    BY <2>1 DEF Room!AtLeastZero
  <2>3. /\ timer' \in Room!TimerState /\ Room!FieldsMatchStatus(timer')
        /\ timer'.status = "paused"
        /\ timer'.remainingMs = Room!AtLeastZero(timer.endsAtServerMs - now)
    BY <1>1, <2>1, <2>2, PausedState DEF Room!PauseTimer
  <2>4. RoomInv' BY <1>1, <2>1, <2>3 DEF RoomInv, Room!TypeOK, Room!WellFormed
  <2>5. TimeLeft' = Stopwatch!Floor(TimeLeft)
    BY <2>1, <2>3 DEF TimeLeft, Room!AtLeastZero, Stopwatch!Floor
  <2>6. Stopwatch!Pause BY <2>1, <2>3, <2>5 DEF Stopwatch!Pause
  <2> QED BY <2>4, <2>6 DEF Stopwatch!Next
<1>4. CASE Room!TimerResume
  <2>1. timer.status = "paused" /\ now' = now /\ timer' = Room!ResumeTimer(timer, now)
    BY <1>4 DEF Room!TimerResume, Room!Command, Room!CanResume
  <2>2. timer.remainingMs \in Nat /\ now + timer.remainingMs \in Int BY <2>1
  <2>3. /\ timer' \in Room!TimerState /\ Room!FieldsMatchStatus(timer')
        /\ timer'.status = "running" /\ timer'.endsAtServerMs = now + timer.remainingMs
    BY <1>1, <2>1, <2>2, RunningState DEF Room!ResumeTimer
  <2>4. RoomInv' BY <1>1, <2>1, <2>3 DEF RoomInv, Room!TypeOK, Room!WellFormed
  <2>5. TimeLeft' = TimeLeft BY <2>1, <2>2, <2>3 DEF TimeLeft
  <2>6. Stopwatch!Resume BY <2>1, <2>3, <2>5 DEF Stopwatch!Resume
  <2> QED BY <2>4, <2>6 DEF Stopwatch!Next
<1>5. CASE Room!TimerAdjust
  <2>1. PICK d \in Deltas : timer' = Room!AdjustTimer(timer, d, now)
    BY <1>5 DEF Room!TimerAdjust
  <2>2. d \in Int /\ now' = now /\ timer.status # "idle"
    BY <1>5, RoomDurations, RoomDeltas DEF Room!TimerAdjust, Room!Command, Room!CanAdjust
  <2>3. CASE timer.status = "running"
    <3>1. Room!Later(now, timer.endsAtServerMs + d) \in Int
      BY <2>2, <2>3 DEF Room!Later
    <3>2. /\ timer' \in Room!TimerState /\ Room!FieldsMatchStatus(timer')
          /\ timer'.status = "running"
          /\ timer'.endsAtServerMs = Room!Later(now, timer.endsAtServerMs + d)
      BY <1>1, <2>1, <2>3, <3>1, RunningState DEF Room!AdjustTimer
    <3>3. TimeLeft' = Stopwatch!Floor(TimeLeft + d)
      BY <2>2, <2>3, <3>2 DEF TimeLeft, Room!Later, Stopwatch!Floor
    <3>4. Stopwatch!Adjust BY <2>2, <2>3, <3>2, <3>3 DEF Stopwatch!Adjust
    <3> QED
      BY <1>1, <2>2, <3>2, <3>4
         DEF RoomInv, Room!TypeOK, Room!WellFormed, Stopwatch!Next
  <2>4. CASE timer.status = "paused"
    <3>1. Room!AtLeastZero(timer.remainingMs + d) \in Nat
      BY <2>2, <2>4 DEF Room!AtLeastZero
    <3>2. /\ timer' \in Room!TimerState /\ Room!FieldsMatchStatus(timer')
          /\ timer'.status = "paused"
          /\ timer'.remainingMs = Room!AtLeastZero(timer.remainingMs + d)
      BY <1>1, <2>1, <2>4, <3>1, PausedState DEF Room!AdjustTimer
    <3>3. TimeLeft' = Stopwatch!Floor(TimeLeft + d)
      BY <2>2, <2>4, <3>2 DEF TimeLeft, Room!AtLeastZero, Stopwatch!Floor
    <3>4. Stopwatch!Adjust BY <2>2, <2>4, <3>2, <3>3 DEF Stopwatch!Adjust
    <3> QED
      BY <1>1, <2>2, <3>2, <3>4
         DEF RoomInv, Room!TypeOK, Room!WellFormed, Stopwatch!Next
  <2> QED BY <2>2, <2>3, <2>4 DEF Room!Status
<1>6. CASE Room!TimerReset
  <2>1. now' = now /\ timer' = Room!ResetTimer(timer)
    BY <1>6 DEF Room!TimerReset, Room!Command
  <2>2. /\ timer' \in Room!TimerState /\ Room!FieldsMatchStatus(timer') /\ timer'.status = "idle"
    BY <1>1, <2>1
       DEF Room!ResetTimer, Room!Moved, Room!TimerState, Room!Status,
           Room!FieldsMatchStatus
  <2>3. TimeLeft' = 0 BY <2>2 DEF TimeLeft
  <2>4. Stopwatch!Reset BY <2>2, <2>3 DEF Stopwatch!Reset
  <2> QED
    BY <1>1, <2>1, <2>2, <2>4
       DEF RoomInv, Room!TypeOK, Room!WellFormed, Stopwatch!Next
<1>7. CASE Room!MessageSet
  <2>1. PICK m \in Messages : timer' = Room!SetMessage(timer, m)
    BY <1>7 DEF Room!MessageSet
  <2>2. now' = now BY <1>7 DEF Room!MessageSet, Room!Command
  <2>3. /\ timer' \in Room!TimerState
        /\ timer'.status = timer.status
        /\ timer'.endsAtServerMs = timer.endsAtServerMs
        /\ timer'.remainingMs = timer.remainingMs
    BY <1>1, <2>1, MessageState
  <2>4. RoomInv'
    BY <1>1, <2>2, <2>3
       DEF RoomInv, Room!TypeOK, Room!WellFormed, Room!FieldsMatchStatus
  <2>5. TimeLeft' = TimeLeft BY <2>2, <2>3 DEF TimeLeft
  <2> QED BY <2>3, <2>4, <2>5 DEF Stopwatch!cvars
<1>8. CASE Room!Tick
  <2>1. now' = now + 1 /\ timer' = timer BY <1>8 DEF Room!Tick
  <2>2. RoomInv' BY <1>1, <2>1 DEF RoomInv, Room!TypeOK, Room!WellFormed
  <2>3. CASE timer.status = "running"
    <3>1. TimeLeft' = TimeLeft - 1 BY <2>1, <2>3 DEF TimeLeft
    <3>2. Stopwatch!Tick BY <2>1, <2>3, <3>1 DEF Stopwatch!Tick
    <3> QED BY <2>2, <3>2 DEF Stopwatch!Next
  <2>4. CASE timer.status # "running"
    <3>1. TimeLeft' = TimeLeft BY <2>1, <2>4 DEF TimeLeft
    <3> QED BY <2>1, <2>2, <3>1 DEF Stopwatch!cvars
  <2> QED BY <2>3, <2>4
<1>9. CASE UNCHANGED Room!roomVars
  BY <1>9
     DEF Room!roomVars, RoomInv, Room!TypeOK, Room!WellFormed, Room!FieldsMatchStatus,
         TimeLeft, Stopwatch!cvars
<1> QED BY <1>2, <1>3, <1>4, <1>5, <1>6, <1>7, <1>8, <1>9 DEF Room!Next

\* The timer always has its type, and its end time and its remainder are set
\* exactly in the states that use them (server/src/timer.ts, section 6.5).
THEOREM TimerWellFormed == Room!Spec => [](Room!TypeOK /\ WellFormed)
<1>1. Room!Init => RoomInv BY RoomInit
<1>2. RoomInv /\ [Room!Next]_Room!roomVars => RoomInv' BY RoomStep
<1>3. RoomInv => Room!TypeOK /\ WellFormed
  BY DEF RoomInv, Room!WellFormed, WellFormed, Room!FieldsMatchStatus, FieldsMatchStatus
<1> QED BY <1>1, <1>2, <1>3, PTL DEF Room!Spec

\* Whatever the judges send and however time passes, the timer broadcast to
\* the clients is a stopwatch that loses and gains no time.
THEOREM TimerIsStopwatch == Room!Spec => ImplementsCountdown
<1>1. Room!Init => RoomInv BY RoomInit
<1>2. RoomInv /\ [Room!Next]_Room!roomVars => RoomInv' /\ [Stopwatch!Next]_(Stopwatch!cvars)
  BY RoomStep
<1>3. Room!Init => Stopwatch!Init
  BY DEF Room!Init, Room!InitialTimerState, TimeLeft, Stopwatch!Init
<1> QED
  BY <1>1, <1>2, <1>3, PTL
     DEF Room!Spec, ImplementsCountdown, Stopwatch!Spec

----------------------------------------------------------------------------
\* The ring.

JobsIn(r) == {r[i].job : i \in DOMAIN r}

Distinct(r) == \A i, k \in DOMAIN r : r[i].job = r[k].job => i = k

\* Pushing an entry at the back.
LEMMA PushFacts ==
  ASSUME NEW S, NEW r \in Seq(S), NEW e \in S
  PROVE  /\ Append(r, e) \in Seq(S) /\ Append(r, e) # <<>>
         /\ Len(Append(r, e)) = Len(r) + 1
         /\ JobsIn(Append(r, e)) = JobsIn(r) \cup {e.job}
         /\ Distinct(r) /\ e.job \notin JobsIn(r) => Distinct(Append(r, e))
<1> DEFINE s == Append(r, e)
<1>1. /\ s \in Seq(S) /\ s # <<>> /\ Len(s) = Len(r) + 1
      /\ \A i \in 1..Len(r) : s[i] = r[i]
      /\ s[Len(r) + 1] = e
  BY AppendProperties
<1>2. /\ DOMAIN r = 1..Len(r) /\ Len(r) \in Nat
      /\ DOMAIN s = 1..(Len(r) + 1)
  BY <1>1, LenProperties
<1> HIDE DEF s
<1>3. JobsIn(s) = JobsIn(r) \cup {e.job}
  BY <1>1, <1>2 DEF JobsIn
<1>4. ASSUME Distinct(r), e.job \notin JobsIn(r)
      PROVE  Distinct(s)
  BY <1>1, <1>2, <1>4 DEF Distinct, JobsIn
<1> QED
  BY <1>1, <1>3, <1>4 DEF s

\* Shifting the entry at the front.
LEMMA ShiftFacts ==
  ASSUME NEW S, NEW r \in Seq(S), r # <<>>
  PROVE  /\ Head(r) \in S /\ Tail(r) \in Seq(S)
         /\ Len(r) \in Nat \ {0} /\ Len(Tail(r)) = Len(r) - 1
         /\ JobsIn(r) = JobsIn(Tail(r)) \cup {Head(r).job}
         /\ Distinct(r) => Distinct(Tail(r)) /\ Head(r).job \notin JobsIn(Tail(r))
<1> DEFINE s == Tail(r)
<1>1. /\ Head(r) \in S /\ s \in Seq(S)
      /\ Len(s) = Len(r) - 1
      /\ \A i \in 1..Len(s) : s[i] = r[i + 1]
  BY HeadTailProperties
<1>2. Len(r) \in Nat \ {0} /\ Head(r) = r[1]
  BY EmptySeq
<1>3. DOMAIN r = 1..Len(r) /\ DOMAIN s = 1..(Len(r) - 1)
  BY <1>1, LenProperties
<1> HIDE DEF s
<1>4. JobsIn(r) = JobsIn(s) \cup {Head(r).job}
  <2>1. ASSUME NEW i \in DOMAIN r
        PROVE  r[i].job \in JobsIn(s) \cup {Head(r).job}
    <3>1. CASE i = 1
      BY <3>1, <1>2
    <3>2. CASE i # 1
      <4>1. i - 1 \in DOMAIN s /\ s[i - 1] = r[i]
        BY <3>2, <1>1, <1>2, <1>3
      <4> QED BY <4>1 DEF JobsIn
    <3> QED BY <3>1, <3>2
  <2>2. ASSUME NEW i \in DOMAIN s
        PROVE  s[i].job \in JobsIn(r)
    <3>1. i + 1 \in DOMAIN r /\ r[i + 1] = s[i]
      BY <1>1, <1>2, <1>3
    <3> QED BY <3>1 DEF JobsIn
  <2>3. Head(r).job \in JobsIn(r)
    BY <1>2, <1>3 DEF JobsIn
  <2> QED BY <2>1, <2>2, <2>3 DEF JobsIn
<1>5. ASSUME Distinct(r)
      PROVE  Distinct(s) /\ Head(r).job \notin JobsIn(s)
  <2>1. \A i \in DOMAIN s : i + 1 \in DOMAIN r /\ r[i + 1] = s[i] /\ i \in Nat /\ i # 0
    BY <1>1, <1>2, <1>3
  <2>2. Distinct(s)
    BY <1>5, <2>1 DEF Distinct
  <2>3. Head(r).job \notin JobsIn(s)
    BY <1>5, <1>2, <1>3, <2>1 DEF Distinct, JobsIn
  <2> QED BY <2>2, <2>3
<1> QED
  BY <1>1, <1>2, <1>4, <1>5 DEF s

LEMMA RingEntryFields ==
  \A e \in Ring!Entry : e.job \in Job /\ e.attempts \in 0..(MaxAttempts - 1)
BY DEF Ring!Entry

Fits ==
  /\ Len(ring) <= MaxRing + 1
  /\ trying # NoEntry => Len(ring) <= MaxRing
  /\ left <= Len(ring)

\* NothingTwice is inductive only with NothingForgotten: a write that fails for
\* the first time is new to every one of the sets.
RingInv == Ring!TypeOK /\ Fits /\ Ring!NothingForgotten /\ Ring!NothingTwice

LEMMA HeldOnce ==
  Ring!NothingTwice <=>
    /\ Distinct(ring)
    /\ JobsIn(ring) \cap Ring!UnderWay = {}
    /\ (JobsIn(ring) \cup Ring!UnderWay) \cap (done \cup overflowed \cup dead) = {}
    /\ done \cap dead = {} /\ done \cap overflowed = {} /\ dead \cap overflowed = {}
BY DEF Ring!NothingTwice, Distinct, Ring!Waiting, JobsIn

\* The loop of flushRetries, entered with the ring r and at most its length to
\* take: the jobs of r are those that wait or are under way afterwards.
LEMMA LoopKeeps ==
  ASSUME NEW r \in Seq(Ring!Entry), NEW n \in Nat, n <= Len(r), Distinct(r),
         recent \in BOOLEAN, Ring!TakeNext(r, n)
  PROVE  /\ ring' \in Seq(Ring!Entry) /\ trying' \in Ring!Entry \cup {NoEntry}
         /\ left' \in Nat /\ recent' \in BOOLEAN
         /\ Distinct(ring') /\ JobsIn(ring') \cap Ring!UnderWay' = {}
         /\ JobsIn(r) = JobsIn(ring') \cup Ring!UnderWay'
         /\ left' <= Len(ring') /\ Len(ring') <= Len(r)
         /\ trying' # NoEntry => Len(ring') < Len(r)
<1>1. CASE n = 0 \/ r = <<>>
  <2>1. /\ trying' = NoEntry /\ left' = 0 /\ ring' = r
        /\ recent' = (recent /\ r # <<>>)
    BY <1>1 DEF Ring!TakeNext
  <2>2. Ring!UnderWay' = {} /\ recent' \in BOOLEAN
    BY <2>1 DEF Ring!UnderWay
  <2>3. Len(r) \in Nat
    BY LenProperties
  <2> QED BY <2>1, <2>2, <2>3
<1>2. CASE n # 0 /\ r # <<>>
  <2>1. /\ trying' = Head(r) /\ left' = n - 1 /\ ring' = Tail(r)
        /\ recent' = recent
    BY <1>2 DEF Ring!TakeNext
  <2>2. Ring!UnderWay' = {Head(r).job}
    BY <2>1, <1>2, ShiftFacts, StoreRing DEF Ring!UnderWay
  <2> QED
    BY <2>1, <2>2, <1>2, ShiftFacts
<1> QED BY <1>1, <1>2

\* At the start, and once the process has died.
LEMMA EmptyRing ==
  ASSUME NEW r, r = <<>>, NEW t, t = NoEntry
  PROVE  /\ r \in Seq(Ring!Entry) /\ Len(r) = 0 /\ DOMAIN r = {}
         /\ t \in Ring!Entry \cup {NoEntry}
BY EmptySeq, LenProperties

LEMMA RingInit == Ring!Init => RingInv
<1> SUFFICES ASSUME Ring!Init PROVE RingInv
  OBVIOUS
<1>1. ring \in Seq(Ring!Entry) /\ Len(ring) = 0 /\ DOMAIN ring = {}
  BY EmptyRing DEF Ring!Init
<1>2. Ring!TypeOK
  BY <1>1 DEF Ring!Init, Ring!TypeOK
<1>3. Fits
  BY <1>1, StoreRing DEF Ring!Init, Fits
<1>4. Ring!NothingForgotten /\ Ring!NothingTwice
  BY <1>1 DEF Ring!Init, Ring!NothingForgotten, Ring!NothingTwice, Ring!Waiting, Ring!UnderWay
<1> QED BY <1>2, <1>3, <1>4 DEF RingInv

LEMMA RingInitAgain == (Ring!Init)' => RingInv'
<1>1. Ring!Init => RingInv
  BY RingInit
<1> QED BY <1>1, PTL

\* A write that fails for the first time.
LEMMA FirstFailureHolds ==
  ASSUME RingInv, NEW job \in Job, job \notin failed, Ring!Enqueue(job)
  PROVE  RingInv'
<1> DEFINE e == [job |-> job, attempts |-> 0]
           kept == IF Len(ring) >= MaxRing THEN Tail(ring) ELSE ring
           out == IF Len(ring) >= MaxRing THEN {Head(ring).job} ELSE {}
<1>1. /\ ring' = Append(kept, e) /\ overflowed' = overflowed \cup out
      /\ recent' = TRUE /\ failed' = failed \cup {job} /\ job \notin failed
      /\ UNCHANGED <<trying, left, done, dead>>
  BY DEF Ring!Enqueue
<1>2. e \in Ring!Entry /\ e.job = job
  BY StoreRing DEF Ring!Entry
<1>3. ring \in Seq(Ring!Entry) /\ Len(ring) \in Nat
  BY LenProperties DEF RingInv, Ring!TypeOK
<1>4. /\ kept \in Seq(Ring!Entry) /\ Len(kept) \in Nat
      /\ Len(kept) + 1 = IF Len(ring) >= MaxRing THEN Len(ring) ELSE Len(ring) + 1
      /\ Distinct(ring) => Distinct(kept) /\ JobsIn(kept) \cap out = {}
      /\ JobsIn(ring) = JobsIn(kept) \cup out /\ out \subseteq Job
  <2>1. CASE Len(ring) >= MaxRing
    <3>1. ring # <<>>
      BY <2>1, StoreRing, EmptySeq
    <3> QED BY <2>1, <3>1, <1>3, ShiftFacts, RingEntryFields
  <2>2. CASE ~(Len(ring) >= MaxRing)
    BY <2>2, <1>3
  <2> QED BY <2>1, <2>2
<1> HIDE DEF e, kept, out
<1>5. /\ ring' \in Seq(Ring!Entry) /\ Len(ring') = Len(kept) + 1
      /\ JobsIn(ring') = JobsIn(kept) \cup {job}
      /\ Distinct(kept) /\ job \notin JobsIn(kept) => Distinct(ring')
  BY <1>1, <1>2, <1>4, PushFacts
<1>6. Ring!TypeOK'
  BY <1>1, <1>4, <1>5 DEF RingInv, Ring!TypeOK
<1>7. Fits'
  BY <1>1, <1>3, <1>4, <1>5, StoreRing DEF RingInv, Fits, Ring!TypeOK
<1>8. failed = JobsIn(ring) \cup Ring!UnderWay \cup done \cup overflowed \cup dead
  BY DEF RingInv, Ring!NothingForgotten, Ring!Waiting, JobsIn
<1>9. Ring!UnderWay' = Ring!UnderWay
  BY <1>1 DEF Ring!UnderWay
<1>10. failed' = JobsIn(ring') \cup Ring!UnderWay' \cup done' \cup overflowed' \cup dead'
  BY <1>1, <1>4, <1>5, <1>8, <1>9
<1>11. Ring!NothingForgotten'
  BY <1>10 DEF Ring!NothingForgotten, Ring!Waiting, JobsIn
<1>12. Ring!NothingTwice'
  <2>1. /\ Distinct(ring) /\ JobsIn(ring) \cap Ring!UnderWay = {}
        /\ (JobsIn(ring) \cup Ring!UnderWay) \cap (done \cup overflowed \cup dead) = {}
        /\ done \cap dead = {} /\ done \cap overflowed = {} /\ dead \cap overflowed = {}
    BY HeldOnce DEF RingInv
  <2>2. Distinct(ring')
    BY <2>1, <1>1, <1>4, <1>5, <1>8
  <2>3. JobsIn(ring') \cap Ring!UnderWay' = {}
    BY <2>1, <1>1, <1>4, <1>5, <1>8, <1>9
  <2>4. (JobsIn(ring') \cup Ring!UnderWay') \cap (done' \cup overflowed' \cup dead') = {}
    BY <2>1, <1>1, <1>4, <1>5, <1>8, <1>9
  <2>5. done' \cap dead' = {} /\ done' \cap overflowed' = {} /\ dead' \cap overflowed' = {}
    BY <2>1, <1>1, <1>4
  <2> QED BY <2>2, <2>3, <2>4, <2>5 DEF Ring!NothingTwice, Distinct, Ring!Waiting, JobsIn
<1> QED BY <1>6, <1>7, <1>11, <1>12 DEF RingInv

\* A step of the pass: the writes not settled by it are exactly those of the
\* ring r its loop goes on with.
LEMMA PassHolds ==
  ASSUME Ring!TypeOK, UNCHANGED <<failed, overflowed>>,
         done' \in SUBSET Job, dead' \in SUBSET Job,
         NEW r \in Seq(Ring!Entry), Len(r) <= MaxRing + 1, Distinct(r),
         NEW n \in Nat, n <= Len(r), Ring!TakeNext(r, n),
         failed = JobsIn(r) \cup done' \cup overflowed \cup dead',
         JobsIn(r) \cap (done' \cup overflowed \cup dead') = {},
         done' \cap dead' = {}, done' \cap overflowed = {}, dead' \cap overflowed = {}
  PROVE  RingInv'
<1>1. /\ ring' \in Seq(Ring!Entry) /\ trying' \in Ring!Entry \cup {NoEntry}
      /\ left' \in Nat /\ recent' \in BOOLEAN
      /\ Distinct(ring') /\ JobsIn(ring') \cap Ring!UnderWay' = {}
      /\ JobsIn(r) = JobsIn(ring') \cup Ring!UnderWay'
      /\ left' <= Len(ring') /\ Len(ring') <= Len(r)
      /\ trying' # NoEntry => Len(ring') < Len(r)
  BY LoopKeeps DEF Ring!TypeOK
<1>2. Ring!TypeOK'
  BY <1>1 DEF Ring!TypeOK
<1>3. Fits'
  <2>1. Len(r) \in Nat /\ Len(ring') \in Nat
    BY <1>1, LenProperties
  <2> QED BY <1>1, <2>1, StoreRing DEF Fits
<1>4. failed' = JobsIn(ring') \cup Ring!UnderWay' \cup done' \cup overflowed' \cup dead'
  BY <1>1
<1>5. Ring!NothingForgotten'
  BY <1>4 DEF Ring!NothingForgotten, Ring!Waiting, JobsIn
<1>6. (JobsIn(ring') \cup Ring!UnderWay') \cap (done' \cup overflowed' \cup dead') = {}
  BY <1>1
<1>7. Ring!NothingTwice'
  BY <1>1, <1>6 DEF Ring!NothingTwice, Distinct, Ring!Waiting, JobsIn
<1> QED BY <1>2, <1>3, <1>5, <1>7 DEF RingInv

\* The steps of the pass and the end of the window.
LEMMA PassStepHolds ==
  ASSUME RingInv,
         \/ Ring!DrainTick \/ Ring!AttemptOk \/ Ring!AttemptFails \/ Ring!WindowEnds
         \/ UNCHANGED Ring!ringVars
  PROVE  RingInv'
<1>1. /\ ring \in Seq(Ring!Entry) /\ Len(ring) \in Nat /\ Len(ring) <= MaxRing + 1
      /\ left \in Nat /\ left <= Len(ring)
      /\ trying \in Ring!Entry \cup {NoEntry}
      /\ done \in SUBSET Job /\ dead \in SUBSET Job
  BY LenProperties DEF RingInv, Ring!TypeOK, Fits
<1>2. /\ Distinct(ring) /\ JobsIn(ring) \cap Ring!UnderWay = {}
      /\ (JobsIn(ring) \cup Ring!UnderWay) \cap (done \cup overflowed \cup dead) = {}
      /\ done \cap dead = {} /\ done \cap overflowed = {} /\ dead \cap overflowed = {}
      /\ failed = JobsIn(ring) \cup Ring!UnderWay \cup done \cup overflowed \cup dead
  BY HeldOnce DEF RingInv, Ring!NothingForgotten, Ring!Waiting, JobsIn
<1>3. trying # NoEntry =>
        /\ trying \in Ring!Entry /\ Ring!UnderWay = {trying.job}
        /\ done \cup {trying.job} \in SUBSET Job
        /\ dead \cup {trying.job} \in SUBSET Job
  BY <1>1, RingEntryFields DEF Ring!UnderWay
<1>4. CASE Ring!DrainTick
  <2>1. Ring!UnderWay = {}
    BY <1>4 DEF Ring!DrainTick, Ring!UnderWay
  <2> QED BY <1>1, <1>2, <1>4, <2>1, PassHolds DEF Ring!DrainTick, RingInv
<1>5. CASE Ring!AttemptOk
  <2>1. /\ done' = done \cup {trying.job} /\ dead' = dead /\ trying # NoEntry
        /\ UNCHANGED <<failed, overflowed>>
        /\ Ring!TakeNext(ring, left)
    BY <1>5 DEF Ring!AttemptOk
  <2>2. /\ failed = JobsIn(ring) \cup done' \cup overflowed \cup dead'
        /\ JobsIn(ring) \cap (done' \cup overflowed \cup dead') = {}
        /\ done' \cap dead' = {} /\ done' \cap overflowed = {} /\ dead' \cap overflowed = {}
    BY <1>2, <1>3, <2>1
  <2> QED BY <1>1, <1>2, <1>3, <2>1, <2>2, PassHolds DEF RingInv
<1>6. CASE Ring!AttemptFails
  <2> DEFINE again == [trying EXCEPT !.attempts = @ + 1]
             pushed == Append(ring, again)
  <2>1. CASE trying.attempts + 1 >= MaxAttempts
    <3>1. /\ dead' = dead \cup {trying.job} /\ done' = done /\ trying # NoEntry
          /\ UNCHANGED <<failed, overflowed>>
          /\ Ring!TakeNext(ring, left)
      BY <1>6, <2>1 DEF Ring!AttemptFails
    <3>2. /\ failed = JobsIn(ring) \cup done' \cup overflowed \cup dead'
          /\ JobsIn(ring) \cap (done' \cup overflowed \cup dead') = {}
          /\ done' \cap dead' = {} /\ done' \cap overflowed = {}
          /\ dead' \cap overflowed = {}
      BY <1>2, <1>3, <3>1
    <3> QED BY <1>1, <1>2, <1>3, <3>1, <3>2, PassHolds DEF RingInv
  <2>2. CASE ~(trying.attempts + 1 >= MaxAttempts)
    <3>1. /\ dead' = dead /\ done' = done /\ trying # NoEntry
          /\ UNCHANGED <<failed, overflowed>>
          /\ Ring!TakeNext(pushed, left)
      BY <1>6, <2>2 DEF Ring!AttemptFails
    <3>2. again \in Ring!Entry /\ again.job = trying.job
      BY <1>3, <2>2, <3>1, StoreRing DEF Ring!Entry
    <3>3. Len(ring) <= MaxRing
      BY <3>1 DEF RingInv, Fits
    <3> HIDE DEF again
    <3>4. /\ pushed \in Seq(Ring!Entry) /\ Len(pushed) = Len(ring) + 1
          /\ JobsIn(pushed) = JobsIn(ring) \cup {trying.job}
          /\ trying.job \notin JobsIn(ring) /\ Distinct(pushed)
      BY <1>1, <1>2, <1>3, <3>1, <3>2, PushFacts
    <3> HIDE DEF pushed
    <3>5. Len(pushed) <= MaxRing + 1 /\ left <= Len(pushed)
      BY <1>1, <3>3, <3>4, StoreRing
    <3>6. /\ failed = JobsIn(pushed) \cup done' \cup overflowed \cup dead'
          /\ JobsIn(pushed) \cap (done' \cup overflowed \cup dead') = {}
          /\ done' \cap dead' = {} /\ done' \cap overflowed = {}
          /\ dead' \cap overflowed = {}
      BY <1>2, <1>3, <3>1, <3>4
    <3> QED BY <1>1, <1>3, <3>1, <3>4, <3>5, <3>6, PassHolds DEF RingInv
  <2> QED BY <2>1, <2>2
<1>7. CASE Ring!WindowEnds
  <2>1. /\ recent' = FALSE
        /\ UNCHANGED <<ring, trying, left, failed, done, overflowed, dead>>
    BY <1>7 DEF Ring!WindowEnds
  <2>2. Ring!TypeOK' /\ Fits' /\ Ring!Waiting' = Ring!Waiting /\ Ring!UnderWay' = Ring!UnderWay
    BY <2>1 DEF RingInv, Ring!TypeOK, Fits, Ring!Waiting, Ring!UnderWay
  <2>3. Ring!NothingForgotten' /\ Ring!NothingTwice'
    BY <2>1, <2>2 DEF RingInv, Ring!NothingForgotten, Ring!NothingTwice
  <2> QED BY <2>2, <2>3 DEF RingInv
<1>8. CASE UNCHANGED Ring!ringVars
  <2>1. UNCHANGED <<recent, ring, trying, left, failed, done, overflowed, dead>>
    BY <1>8 DEF Ring!ringVars
  <2>2. Ring!TypeOK' /\ Fits' /\ Ring!Waiting' = Ring!Waiting /\ Ring!UnderWay' = Ring!UnderWay
    BY <2>1 DEF RingInv, Ring!TypeOK, Fits, Ring!Waiting, Ring!UnderWay
  <2>3. Ring!NothingForgotten' /\ Ring!NothingTwice'
    BY <2>1, <2>2 DEF RingInv, Ring!NothingForgotten, Ring!NothingTwice
  <2> QED BY <2>2, <2>3 DEF RingInv
<1> QED
  BY <1>4, <1>5, <1>6, <1>7, <1>8

LEMMA SameRing ==
  /\ Ring!NothingForgotten <=> NothingForgotten
  /\ Ring!NothingTwice <=> NothingTwice
BY DEF Ring!NothingForgotten, NothingForgotten, Ring!NothingTwice, NothingTwice,
       Ring!Waiting, Waiting, Ring!UnderWay, UnderWay
----------------------------------------------------------------------------
\* The store.

\* A row the timer can be made of, or none.
GoodRow(r) == r = NULL \/ (r \in TimerState /\ FieldsMatchStatus(r))
GoodJob == {job \in Job : GoodRow(job.row)}
GoodEntry == [job : GoodJob, attempts : 0..(MaxAttempts - 1)]

LEMMA SameTimer ==
  /\ Room!TimerState = TimerState /\ Room!InitialTimerState = InitialTimerState
  /\ \A s : Room!FieldsMatchStatus(s) <=> FieldsMatchStatus(s)
BY DEF Room!TimerState, TimerState, Room!Status, Status, Room!InitialTimerState,
   InitialTimerState,
       Room!FieldsMatchStatus, FieldsMatchStatus

LEMMA GoodEntryFacts ==
  /\ GoodEntry \subseteq Ring!Entry
  /\ \A e \in GoodEntry : e.job \in GoodJob /\ e.attempts \in Nat /\ e # NoEntry
  /\ \A job \in GoodJob : [job |-> job, attempts |-> 0] \in GoodEntry
<1>1. MaxAttempts \in Nat \ {0} /\ NoEntry \notin Ring!Entry
  BY StoreRing
<1>2. GoodEntry \subseteq Ring!Entry
  BY DEF GoodEntry, GoodJob, Ring!Entry
<1>3. \A e \in GoodEntry : e.job \in GoodJob /\ e.attempts \in Nat
  BY <1>1 DEF GoodEntry
<1>4. \A job \in GoodJob : [job |-> job, attempts |-> 0] \in GoodEntry
  BY <1>1 DEF GoodEntry
<1> QED BY <1>1, <1>2, <1>3, <1>4

\* The writes the ring and its pass hold.
Held == JobsIn(ring) \cup UnderWay

\* The loop of flushRetries, entered with the ring r.
LEMMA LoopHolds ==
  ASSUME NEW r \in Seq(GoodEntry), NEW n, Ring!TakeNext(r, n)
  PROVE  /\ ring' \in Seq(GoodEntry) /\ trying' \in GoodEntry \cup {NoEntry}
         /\ Held' = JobsIn(r)
<1>1. CASE n = 0 \/ r = <<>>
  <2>1. trying' = NoEntry /\ ring' = r
    BY <1>1 DEF Ring!TakeNext
  <2>2. UnderWay' = {}
    BY <2>1 DEF UnderWay
  <2> QED BY <2>1, <2>2 DEF Held
<1>2. CASE ~(n = 0 \/ r = <<>>)
  <2>1. trying' = Head(r) /\ ring' = Tail(r)
    BY <1>2 DEF Ring!TakeNext
  <2>2. /\ Head(r) \in GoodEntry /\ Tail(r) \in Seq(GoodEntry)
        /\ JobsIn(r) = JobsIn(Tail(r)) \cup {Head(r).job}
    BY <1>2, ShiftFacts
  <2>3. UnderWay' = {Head(r).job}
    BY <2>1, <2>2, GoodEntryFacts DEF UnderWay
  <2> QED BY <2>1, <2>2, <2>3 DEF Held
<1> QED BY <1>1, <1>2

\* Whatever may still reach the database.
LEMMA UnsettledIs == Unsettled = inflight \cup Held /\ Unsettled' = inflight' \cup Held'
BY DEF Unsettled, Held, UnderWay, JobsIn

\* What the store keeps well typed.
StoreTypes ==
  /\ RoomInv
  /\ GoodRow(row)
  /\ inflight \subseteq {job \in GoodJob : job.row # NULL}
  /\ ring \in Seq(GoodEntry) /\ trying \in GoodEntry \cup {NoEntry}
  /\ nwrites \in Nat /\ naudits \in Nat /\ NULL \notin rivals

\* Only rivals may still reach the row.  Until one has, the row is what it was
\* when the last upsert began, and that upsert is unsettled or was given up.
LastWriteRules ==
  latest # 0 =>
    /\ \A job \in UnsettledUpserts : job.row \in rivals
    /\ row \in rivals \cup {before}
    /\ row \notin rivals => Lost(latest) \/ \E job \in UnsettledUpserts : job.no = latest

StoreInv == StoreTypes /\ LastWriteRules

LEMMA StoreInit == Init => StoreInv
<1> SUFFICES ASSUME Init PROVE StoreInv
  OBVIOUS
<1>1. InitialTimerState \in TimerState /\ FieldsMatchStatus(InitialTimerState)
  BY NullAssumption, MessageAssumption
     DEF InitialTimerState, TimerState, Status, FieldsMatchStatus
<1>2. GoodRow(row)
  BY StoreRows DEF Init, GoodRow
<1>3. timer \in TimerState /\ FieldsMatchStatus(timer) /\ now = 0
  BY <1>1, <1>2 DEF Init, TimerOf, GoodRow
<1>4. RoomInv
  BY <1>3, SameTimer DEF RoomInv, Room!TypeOK, Room!WellFormed
<1>5. ring = <<>> /\ trying = NoEntry /\ inflight = {} /\ nwrites = 0 /\ naudits = 0
      /\ latest = 0 /\ rivals = {}
  BY DEF Init, Ring!Init
<1> QED BY <1>2, <1>4, <1>5 DEF StoreInv, StoreTypes, LastWriteRules

\* A command: the timer changes and its upsert starts.
LEMMA CommandHolds ==
  ASSUME StoreInv, [Room!Next]_Room!roomVars, Persist
  PROVE  StoreInv'
<1> DEFINE new == [no |-> nwrites + 1, row |-> timer']
<1>1. RoomInv'
  BY RoomStep DEF StoreInv, StoreTypes
<1>2. timer' \in TimerState /\ FieldsMatchStatus(timer') /\ timer' # NULL
  BY <1>1, SameTimer, StoreRing DEF RoomInv, Room!TypeOK, Room!WellFormed
<1>3. nwrites \in Nat /\ nwrites + 1 \in Nat
  BY DEF StoreInv, StoreTypes
<1>4. new \in GoodJob /\ new.row # NULL /\ new.no = nwrites + 1 /\ new.row = timer'
  BY <1>2, <1>3 DEF GoodJob, Job, GoodRow
<1>5. /\ inflight' = inflight \cup {new} /\ nwrites' = nwrites + 1 /\ latest' = nwrites + 1
      /\ rivals' = {timer'} \cup {job.row : job \in UnsettledUpserts} /\ before' = row
      /\ UNCHANGED <<ring, trying, row, naudits>>
  BY DEF Persist, ringVars
<1> HIDE DEF new
<1>6. StoreTypes'
  BY <1>1, <1>2, <1>3, <1>4, <1>5 DEF StoreInv, StoreTypes, UnsettledUpserts
<1>7. Held' = Held
  BY <1>5 DEF Held, UnderWay
<1>8. UnsettledUpserts' = UnsettledUpserts \cup {new}
  BY <1>4, <1>5, <1>7, UnsettledIs DEF UnsettledUpserts
<1>9. LastWriteRules'
  BY <1>4, <1>5, <1>8 DEF LastWriteRules
<1> QED BY <1>6, <1>9 DEF StoreInv

\* A write fails for the first time: it is behind the others, or one of them
\* is given up for it.
LEMMA EnqueueHolds ==
  ASSUME StoreTypes, NEW job \in GoodJob, Ring!Enqueue(job)
  PROVE  /\ ring' \in Seq(GoodEntry) /\ trying' = trying /\ dead' = dead
         /\ overflowed \subseteq overflowed' /\ job \in Held'
         /\ Held' \subseteq Held \cup {job}
         /\ \A other \in Held : other \in Held' \/ other \in overflowed'
<1> DEFINE e == [job |-> job, attempts |-> 0]
           full == Len(ring) >= MaxRing
           kept == IF full THEN Tail(ring) ELSE ring
<1>1. /\ ring' = Append(kept, e) /\ trying' = trying /\ dead' = dead
      /\ overflowed' = overflowed \cup (IF full THEN {Head(ring).job} ELSE {})
  BY DEF Ring!Enqueue
<1>2. e \in GoodEntry /\ e.job = job /\ ring \in Seq(GoodEntry) /\ UnderWay' = UnderWay
  BY <1>1, GoodEntryFacts DEF StoreTypes, UnderWay
<1>3. /\ kept \in Seq(GoodEntry) /\ JobsIn(kept) \subseteq JobsIn(ring)
      /\ \A other \in JobsIn(ring) : other \in JobsIn(kept) \/ other \in overflowed'
  <2>1. CASE full
    <3>1. ring # <<>>
      BY <2>1, StoreRing
    <3>2. kept = Tail(ring) /\ overflowed' = overflowed \cup {Head(ring).job}
      BY <1>1, <2>1
    <3>3. Tail(ring) \in Seq(GoodEntry) /\ JobsIn(ring) = JobsIn(Tail(ring)) \cup {Head(ring).job}
      BY <1>2, <3>1, ShiftFacts
    <3> QED BY <3>2, <3>3
  <2>2. CASE ~full
    BY <1>2, <2>2
  <2> QED BY <2>1, <2>2
<1> HIDE DEF e, full, kept
<1>4. ring' \in Seq(GoodEntry) /\ JobsIn(ring') = JobsIn(kept) \cup {job}
  BY <1>1, <1>2, <1>3, PushFacts
<1> QED BY <1>1, <1>2, <1>3, <1>4 DEF Held

\* An audit row changes nothing about the row, an upsert makes it its own.
LEMMA AppliedFacts ==
  ASSUME StoreTypes, NEW job \in GoodJob
  PROVE  /\ GoodRow(Applied(job))
         /\ job.row = NULL => Applied(job) = row
         /\ job.row # NULL => Applied(job) = job.row
BY DEF StoreTypes, GoodJob, Applied

\* A write is answered, retried or given up: whatever may still reach the row
\* afterwards could before, what no longer can did or was given up, and nothing
\* else changed the row.
LEMMA RulesKept ==
  ASSUME LastWriteRules, UNCHANGED <<latest, rivals, before>>,
         overflowed \subseteq overflowed', dead \subseteq dead',
         UnsettledUpserts' \subseteq UnsettledUpserts,
         row' = row \/ \E job \in UnsettledUpserts : row' = job.row,
         \A job \in UnsettledUpserts :
           job \in UnsettledUpserts' \/ row' = job.row \/ job \in overflowed' \cup dead'
  PROVE  LastWriteRules'
<1> SUFFICES ASSUME (latest # 0)'
             PROVE  (/\ \A job \in UnsettledUpserts : job.row \in rivals
                     /\ row \in rivals \cup {before}
                     /\ row \notin rivals =>
                          Lost(latest) \/ \E job \in UnsettledUpserts : job.no = latest)'
  BY DEF LastWriteRules
<1>1. /\ \A job \in UnsettledUpserts : job.row \in rivals
      /\ row \in rivals \cup {before}
      /\ row \notin rivals => Lost(latest) \/ \E job \in UnsettledUpserts : job.no = latest
  BY DEF LastWriteRules
<1>2. row' \in rivals \cup {before} /\ (row' \notin rivals => row' = row)
  BY <1>1
<1>3. ASSUME row' \notin rivals
      PROVE  Lost(latest)' \/ \E job \in UnsettledUpserts' : job.no = latest
  <2>1. CASE Lost(latest)
    BY <2>1 DEF Lost
  <2>2. CASE \E job \in UnsettledUpserts : job.no = latest
    <3>1. PICK job \in UnsettledUpserts : job.no = latest
      BY <2>2
    <3>2. job \in UnsettledUpserts' \/ job \in overflowed' \cup dead'
      BY <1>1, <1>3
    <3>3. job.row # NULL
      BY DEF UnsettledUpserts
    <3> QED BY <3>1, <3>2, <3>3 DEF Lost
  <2> QED BY <1>1, <1>2, <1>3, <2>1, <2>2
<1> QED BY <1>1, <1>2, <1>3

LEMMA WriteHolds ==
  ASSUME StoreInv, NEW job \in inflight, WriteOk(job) \/ WriteFails(job)
  PROVE  StoreInv'
<1>0. job \in GoodJob /\ job.row # NULL /\ StoreTypes /\ LastWriteRules
  BY DEF StoreInv, StoreTypes
<1>1. /\ inflight' = inflight \ {job}
      /\ UNCHANGED <<timer, now, nwrites, naudits, latest, rivals, before>>
  BY DEF WriteOk, WriteFails, roomVars
<1>2. RoomInv'
  BY <1>0, <1>1 DEF StoreTypes, RoomInv, Room!TypeOK, Room!WellFormed
<1>3. row' \in {row, job.row} /\ GoodRow(row')
  BY <1>0, AppliedFacts DEF WriteOk, WriteFails, StoreTypes
<1>4. CASE WriteOk(job)
  <2>1. UNCHANGED <<ring, trying, overflowed, dead>> /\ row' = job.row
    BY <1>0, <1>4, AppliedFacts DEF WriteOk, ringVars
  <2>2. StoreTypes'
    BY <1>0, <1>1, <1>2, <1>3, <2>1 DEF StoreTypes
  <2>3. Held' = Held
    BY <2>1 DEF Held, UnderWay
  <2>4. /\ UnsettledUpserts' \subseteq UnsettledUpserts /\ job \in UnsettledUpserts
        /\ UnsettledUpserts \subseteq UnsettledUpserts' \cup {job}
    BY <1>0, <1>1, <2>3, UnsettledIs DEF UnsettledUpserts
  <2>5. LastWriteRules'
    BY <1>0, <1>1, <2>1, <2>4, RulesKept
  <2> QED BY <2>2, <2>5 DEF StoreInv
<1>5. CASE WriteFails(job)
  <2>1. /\ ring' \in Seq(GoodEntry) /\ trying' = trying /\ dead' = dead
        /\ overflowed \subseteq overflowed' /\ job \in Held'
        /\ Held' \subseteq Held \cup {job}
        /\ \A other \in Held : other \in Held' \/ other \in overflowed'
    BY <1>0, <1>5, EnqueueHolds DEF WriteFails
  <2>2. StoreTypes'
    BY <1>0, <1>1, <1>2, <1>3, <2>1 DEF StoreTypes
  <2>3. /\ UnsettledUpserts' \subseteq UnsettledUpserts /\ job \in UnsettledUpserts
        /\ \A other \in UnsettledUpserts : other \in UnsettledUpserts' \/ other \in overflowed'
    BY <1>0, <1>1, <2>1, UnsettledIs DEF UnsettledUpserts
  <2>4. LastWriteRules'
    BY <1>0, <1>1, <1>3, <2>1, <2>3, RulesKept
  <2> QED BY <2>2, <2>4 DEF StoreInv
<1> QED BY <1>4, <1>5

LEMMA AuditHolds ==
  ASSUME StoreInv, AuditFails
  PROVE  StoreInv'
<1> DEFINE audit == [no |-> naudits + 1, row |-> NULL]
<1>0. StoreTypes /\ LastWriteRules /\ naudits \in Nat /\ naudits + 1 \in Nat
  BY DEF StoreInv, StoreTypes
<1>1. audit \in GoodJob /\ audit.row = NULL
  BY <1>0 DEF GoodJob, Job, GoodRow
<1>2. /\ naudits' = naudits + 1 /\ Ring!Enqueue(audit)
      /\ UNCHANGED <<timer, now, row, inflight, nwrites, latest, rivals, before>>
  BY DEF AuditFails, roomVars
<1> HIDE DEF audit
<1>3. /\ ring' \in Seq(GoodEntry) /\ trying' = trying /\ dead' = dead
      /\ overflowed \subseteq overflowed'
      /\ Held' \subseteq Held \cup {audit}
      /\ \A other \in Held : other \in Held' \/ other \in overflowed'
  BY <1>0, <1>1, <1>2, EnqueueHolds
<1>4. RoomInv'
  BY <1>0, <1>2 DEF StoreTypes, RoomInv, Room!TypeOK, Room!WellFormed
<1>5. StoreTypes'
  BY <1>0, <1>2, <1>3, <1>4 DEF StoreTypes
<1>6. UnsettledUpserts' \subseteq UnsettledUpserts
  BY <1>1, <1>2, <1>3, UnsettledIs DEF UnsettledUpserts
<1>7. \A job \in UnsettledUpserts : job \in UnsettledUpserts' \/ job \in overflowed'
  BY <1>2, <1>3, UnsettledIs DEF UnsettledUpserts
<1>8. LastWriteRules'
  BY <1>0, <1>2, <1>3, <1>6, <1>7, RulesKept
<1> QED BY <1>5, <1>8 DEF StoreInv

\* The pass tries a write and its loop goes on with r: the write succeeded, is
\* given up, or waits again.
LEMMA TriedHolds ==
  ASSUME StoreInv, NEW r \in Seq(GoodEntry), NEW n, Ring!TakeNext(r, n),
         UNCHANGED <<timer, now, inflight, nwrites, naudits, latest, rivals, before,
                     overflowed>>,
         NEW job \in GoodJob, job \in Held,
         JobsIn(r) \subseteq Held, Held \subseteq JobsIn(r) \cup {job},
         dead \subseteq dead', row' \in {row, Applied(job)},
         row' = Applied(job) \/ job \in dead' \/ job \in JobsIn(r)
  PROVE  StoreInv'
<1>0. StoreTypes /\ LastWriteRules
  BY DEF StoreInv
<1>1. /\ ring' \in Seq(GoodEntry) /\ trying' \in GoodEntry \cup {NoEntry}
      /\ Held' = JobsIn(r)
  BY LoopHolds
<1>2. RoomInv'
  BY <1>0 DEF StoreTypes, RoomInv, Room!TypeOK, Room!WellFormed
<1>3. /\ GoodRow(Applied(job)) /\ (job.row = NULL => Applied(job) = row)
      /\ (job.row # NULL => Applied(job) = job.row)
  BY <1>0, AppliedFacts
<1>4. GoodRow(row')
  BY <1>0, <1>3 DEF StoreTypes
<1>5. StoreTypes'
  BY <1>0, <1>1, <1>2, <1>4 DEF StoreTypes
<1>6. UnsettledUpserts' \subseteq UnsettledUpserts
  BY <1>1, UnsettledIs DEF UnsettledUpserts
<1>7. row' = row \/ \E other \in UnsettledUpserts : row' = other.row
  BY <1>3, UnsettledIs DEF UnsettledUpserts
<1>8. \A other \in UnsettledUpserts :
        other \in UnsettledUpserts' \/ row' = other.row \/ other \in overflowed' \cup dead'
  <2> SUFFICES ASSUME NEW other \in UnsettledUpserts, other \notin UnsettledUpserts'
               PROVE  row' = other.row \/ other \in dead'
    OBVIOUS
  <2>1. other = job /\ job \notin JobsIn(r) /\ job.row # NULL
    BY <1>1, UnsettledIs DEF UnsettledUpserts
  <2> QED BY <1>3, <2>1
<1>9. LastWriteRules'
  BY <1>0, <1>6, <1>7, <1>8, RulesKept
<1> QED BY <1>5, <1>9 DEF StoreInv

LEMMA RetryHolds ==
  ASSUME StoreInv, RetryOk \/ RetryFails
  PROVE  StoreInv'
<1> DEFINE job == trying.job
<1>0. StoreTypes /\ trying # NoEntry
  BY DEF StoreInv, RetryOk, RetryFails, Ring!AttemptOk, Ring!AttemptFails
<1>1. /\ trying \in GoodEntry /\ job \in GoodJob /\ ring \in Seq(GoodEntry) /\ UnderWay = {job}
      /\ trying.attempts \in 0..(MaxAttempts - 1) /\ MaxAttempts \in Nat \ {0}
  BY <1>0, StoreRing DEF StoreTypes, GoodEntry, UnderWay
<1>2. Held = JobsIn(ring) \cup {job}
  BY <1>1 DEF Held
<1>3. UNCHANGED <<timer, now, inflight, nwrites, naudits, latest, rivals, before,
                     overflowed>>
  BY DEF RetryOk, RetryFails, roomVars, Ring!AttemptOk, Ring!AttemptFails
<1>4. CASE RetryOk
  <2>1. /\ Ring!TakeNext(ring, left) /\ dead' = dead /\ row' = Applied(job)
    BY <1>4 DEF RetryOk, Ring!AttemptOk
  <2> HIDE DEF job
  <2> QED BY <1>1, <1>2, <1>3, <2>1, TriedHolds
<1>5. CASE RetryFails
  <2>0. row' \in {row, Applied(job)}
    BY <1>5 DEF RetryFails
  <2>1. CASE trying.attempts + 1 >= MaxAttempts
    <3>1. Ring!TakeNext(ring, left) /\ dead' = dead \cup {job}
      BY <1>5, <2>1 DEF RetryFails, Ring!AttemptFails
    <3> HIDE DEF job
    <3> QED BY <1>1, <1>2, <1>3, <2>0, <3>1, TriedHolds
  <2>2. CASE ~(trying.attempts + 1 >= MaxAttempts)
    <3> DEFINE again == [trying EXCEPT !.attempts = @ + 1]
               r == Append(ring, again)
    <3>1. Ring!TakeNext(r, left) /\ dead' = dead
      BY <1>5, <2>2 DEF RetryFails, Ring!AttemptFails
    <3>2. again \in GoodEntry /\ again.job = job
      BY <1>1, <2>2 DEF GoodEntry
    <3> HIDE DEF again, job
    <3>3. r \in Seq(GoodEntry) /\ JobsIn(r) = JobsIn(ring) \cup {job}
      BY <1>1, <3>2, PushFacts
    <3> HIDE DEF r
    <3> QED BY <1>1, <1>2, <1>3, <2>0, <3>1, <3>3, TriedHolds
  <2> QED BY <2>1, <2>2
<1> QED BY <1>4, <1>5

LEMMA QuietHolds ==
  ASSUME StoreInv, DrainTick \/ WindowEnds \/ UNCHANGED vars
  PROVE  StoreInv'
<1>0. StoreTypes /\ LastWriteRules /\ ring \in Seq(GoodEntry)
  BY DEF StoreInv, StoreTypes
<1>1. /\ UNCHANGED <<timer, row, inflight, nwrites, naudits, latest, rivals, before, overflowed, dead>>
      /\ now' = now
  BY DEF DrainTick, WindowEnds, vars, roomVars, storeVars, ringVars,
     Ring!DrainTick, Ring!WindowEnds
<1>2. RoomInv'
  BY <1>0, <1>1 DEF StoreTypes, RoomInv, Room!TypeOK, Room!WellFormed
<1>3. ring' \in Seq(GoodEntry) /\ trying' \in GoodEntry \cup {NoEntry} /\ Held' = Held
  <2>1. CASE DrainTick
    <3>1. trying = NoEntry /\ Ring!TakeNext(ring, Len(ring))
      BY <2>1 DEF DrainTick, Ring!DrainTick
    <3>2. Held = JobsIn(ring)
      BY <3>1 DEF Held, UnderWay
    <3> QED BY <1>0, <3>1, <3>2, LoopHolds
  <2>2. CASE WindowEnds \/ UNCHANGED vars
    <3>1. ring' = ring /\ trying' = trying
      BY <2>2
         DEF WindowEnds, vars, roomVars, storeVars, ringVars, Ring!WindowEnds
    <3> QED BY <1>0, <3>1 DEF StoreTypes, Held, UnderWay
  <2> QED BY <2>1, <2>2
<1>4. StoreTypes'
  BY <1>0, <1>1, <1>2, <1>3 DEF StoreTypes
<1>5. UnsettledUpserts' = UnsettledUpserts
  BY <1>1, <1>3, UnsettledIs DEF UnsettledUpserts
<1>6. LastWriteRules'
  BY <1>0, <1>1, <1>5, RulesKept
<1> QED BY <1>4, <1>6 DEF StoreInv

\* What a restart loads.
LEMMA DieHolds ==
  ASSUME StoreInv, Rehydrate \/ StartAfresh
  PROVE  StoreInv'
<1>0. StoreTypes /\ Die /\ timer' \in {TimerOf(row'), InitialTimerState}
  BY DEF StoreInv, Rehydrate, StartAfresh
<1>1. GoodRow(row')
  <2>1. inflight \subseteq GoodJob /\ (trying # NoEntry => trying.job \in GoodJob) /\ GoodRow(row)
    BY <1>0, GoodEntryFacts DEF StoreTypes
  <2>2. row' = row \/ \E job \in GoodJob : row' = Applied(job)
    BY <1>0, <2>1 DEF Die
  <2>3. \A job \in GoodJob : GoodRow(Applied(job))
    BY <1>0, AppliedFacts
  <2>4. CASE row' = row
    BY <2>1, <2>4 DEF GoodRow
  <2>5. CASE row' # row
    BY <2>2, <2>3, <2>5
  <2> QED BY <2>4, <2>5
<1>2. InitialTimerState \in TimerState /\ FieldsMatchStatus(InitialTimerState)
  BY NullAssumption, MessageAssumption
     DEF InitialTimerState, TimerState, Status, FieldsMatchStatus
<1>3. timer' \in TimerState /\ FieldsMatchStatus(timer')
  BY <1>0, <1>1, <1>2 DEF TimerOf, GoodRow
<1>4. RoomInv'
  BY <1>0, <1>3, SameTimer DEF Die, StoreTypes, RoomInv, Room!TypeOK, Room!WellFormed
<1>5. StoreTypes'
  BY <1>0, <1>1, <1>4 DEF Die, StoreTypes
<1>6. LastWriteRules'
  BY <1>0 DEF Die, LastWriteRules
<1> QED BY <1>5, <1>6 DEF StoreInv

\* Writes are numbered: one that fails for the first time is not in the ring's
\* books, and a later one will not be either.
JobNumbers ==
  /\ inflight \cap failed = {}
  /\ \A job \in inflight \cup failed :
       job.no <= (IF job.row = NULL THEN naudits ELSE nwrites)

Inv == StoreInv /\ RingInv /\ JobNumbers

LEMMA InvInit == Init => Inv
<1> SUFFICES ASSUME Init PROVE Inv
  OBVIOUS
<1>1. Ring!Init /\ inflight = {} /\ failed = {}
  BY DEF Init, Ring!Init
<1> QED BY <1>1, StoreInit, RingInit DEF Inv, JobNumbers

\* The numbers and the ring's books, step by step.
LEMMA FirstFailureCounts ==
  ASSUME Inv, NEW job \in inflight, WriteFails(job)
  PROVE  RingInv' /\ JobNumbers'
<1>1. /\ job \in Job /\ Ring!Enqueue(job) /\ inflight' = inflight \ {job}
      /\ UNCHANGED <<nwrites, naudits>>
  BY DEF Inv, StoreInv, StoreTypes, GoodJob, WriteFails
<1>2. job \notin failed /\ failed' = failed \cup {job}
  BY <1>1 DEF Inv, JobNumbers, Ring!Enqueue
<1>3. RingInv'
  BY <1>1, <1>2, FirstFailureHolds DEF Inv
<1>4. JobNumbers'
  BY <1>1, <1>2 DEF Inv, JobNumbers
<1> QED BY <1>3, <1>4

LEMMA AuditCounts ==
  ASSUME Inv, AuditFails
  PROVE  RingInv' /\ JobNumbers'
<1> DEFINE audit == [no |-> naudits + 1, row |-> NULL]
<1>1. naudits \in Nat /\ nwrites \in Nat /\ \A job \in inflight : job.row # NULL
  BY DEF Inv, StoreInv, StoreTypes
<1>2. audit \in Job /\ audit.no = naudits + 1 /\ audit.row = NULL
  BY <1>1 DEF Job
<1>3. /\ Ring!Enqueue(audit) /\ failed' = failed \cup {audit}
      /\ naudits' = naudits + 1 /\ UNCHANGED <<inflight, nwrites>>
  BY DEF AuditFails, Ring!Enqueue
<1> HIDE DEF audit
<1>4. audit \notin failed /\ audit \notin inflight
  BY <1>1, <1>2 DEF Inv, JobNumbers
<1>5. RingInv'
  BY <1>2, <1>3, <1>4, FirstFailureHolds DEF Inv
<1>6. \A job \in inflight \cup failed : job \in Job
  BY DEF Inv, StoreInv, StoreTypes, GoodJob, RingInv, Ring!TypeOK
<1>7. \A job \in inflight \cup failed' :
        job.no <= (IF job.row = NULL THEN naudits' ELSE nwrites)
  BY <1>1, <1>2, <1>3, <1>6 DEF Inv, JobNumbers, Job
<1>8. JobNumbers'
  BY <1>3, <1>4, <1>7 DEF Inv, JobNumbers
<1> QED BY <1>5, <1>8

LEMMA CommandCounts ==
  ASSUME Inv, Persist, timer' # NULL
  PROVE  RingInv' /\ JobNumbers'
<1> DEFINE new == [no |-> nwrites + 1, row |-> timer']
<1>1. nwrites \in Nat /\ naudits \in Nat /\ \A job \in inflight : job.row # NULL
  BY DEF Inv, StoreInv, StoreTypes
<1>2. /\ inflight' = inflight \cup {new} /\ nwrites' = nwrites + 1
      /\ UNCHANGED <<ringVars, naudits>>
  BY DEF Persist
<1>3. UNCHANGED Ring!ringVars /\ failed' = failed
  BY <1>2 DEF ringVars, Ring!ringVars
<1>4. RingInv'
  BY <1>3, PassStepHolds DEF Inv
<1>5. \A job \in inflight \cup failed : job \in Job
  BY DEF Inv, StoreInv, StoreTypes, GoodJob, RingInv, Ring!TypeOK
<1>6. new.no = nwrites + 1 /\ new.row = timer'
  OBVIOUS
<1> HIDE DEF new
<1>7. new \notin failed /\ new.row # NULL
  BY <1>1, <1>6 DEF Inv, JobNumbers
<1>8. \A job \in inflight' \cup failed' :
        job.no <= (IF job.row = NULL THEN naudits' ELSE nwrites')
  <2> SUFFICES ASSUME NEW job \in inflight \cup failed \cup {new}
               PROVE  job.no <= (IF job.row = NULL THEN naudits ELSE nwrites + 1)
    BY <1>2, <1>3
  <2>1. CASE job = new
    BY <1>1, <1>6, <1>7, <2>1
  <2>2. CASE job \in inflight \cup failed
    <3>1. job.no \in Nat /\ job.no <= (IF job.row = NULL THEN naudits ELSE nwrites)
      BY <1>5, <2>2 DEF Inv, JobNumbers, Job
    <3> QED BY <1>1, <3>1
  <2> QED BY <2>1, <2>2
<1>9. JobNumbers'
  BY <1>2, <1>3, <1>7, <1>8 DEF Inv, JobNumbers
<1> QED BY <1>4, <1>9

LEMMA StoreStep == StoreInv /\ [Next]_vars => StoreInv'
<1> SUFFICES ASSUME StoreInv, [Next]_vars PROVE StoreInv'
  OBVIOUS
<1>1. CASE TimerSet \/ TimerPause \/ TimerResume \/ TimerAdjust \/ TimerReset \/ MessageSet
  <2>1. Room!Next /\ Persist
    BY <1>1
       DEF TimerSet, TimerPause, TimerResume, TimerAdjust, TimerReset, MessageSet,
           Room!Next
  <2> QED BY <2>1, CommandHolds
<1>2. CASE \E job \in inflight : WriteOk(job) \/ WriteFails(job)
  BY <1>2, WriteHolds
<1>3. CASE AuditFails
  BY <1>3, AuditHolds
<1>4. CASE RetryOk \/ RetryFails
  BY <1>4, RetryHolds
<1>5. CASE DrainTick \/ WindowEnds \/ UNCHANGED vars
  BY <1>5, QuietHolds
<1>6. CASE Rehydrate \/ StartAfresh
  BY <1>6, DieHolds
<1> QED BY <1>1, <1>2, <1>3, <1>4, <1>5, <1>6 DEF Next

LEMMA InvStep == Inv /\ [Next]_vars => Inv'
<1> SUFFICES ASSUME Inv, [Next]_vars PROVE Inv'
  OBVIOUS
<1>1. StoreInv'
  BY StoreStep DEF Inv
<1>2. CASE TimerSet \/ TimerPause \/ TimerResume \/ TimerAdjust \/ TimerReset \/ MessageSet
  <2>1. Persist
    BY <1>2 DEF TimerSet, TimerPause, TimerResume, TimerAdjust, TimerReset, MessageSet
  <2>2. timer' # NULL
    BY <1>1, SameTimer, StoreRing DEF StoreInv, StoreTypes, RoomInv, Room!TypeOK
  <2> QED BY <1>1, <2>1, <2>2, CommandCounts DEF Inv
<1>3. CASE \E job \in inflight : WriteOk(job)
  <2>1. /\ UNCHANGED <<ringVars, nwrites, naudits>> /\ inflight' \subseteq inflight
    BY <1>3 DEF WriteOk
  <2>2. UNCHANGED Ring!ringVars /\ failed' = failed
    BY <2>1 DEF ringVars, Ring!ringVars
  <2>3. RingInv'
    BY <2>2, PassStepHolds DEF Inv
  <2>4. JobNumbers'
    BY <2>1, <2>2 DEF Inv, JobNumbers
  <2> QED BY <1>1, <2>3, <2>4 DEF Inv
<1>4. CASE \E job \in inflight : WriteFails(job)
  BY <1>1, <1>4, FirstFailureCounts DEF Inv
<1>5. CASE AuditFails
  BY <1>1, <1>5, AuditCounts DEF Inv
<1>6. CASE DrainTick \/ RetryOk \/ RetryFails \/ WindowEnds \/ UNCHANGED vars
  <2>1. /\ \/ Ring!DrainTick \/ Ring!AttemptOk \/ Ring!AttemptFails \/ Ring!WindowEnds
           \/ UNCHANGED Ring!ringVars
        /\ UNCHANGED <<inflight, failed, nwrites, naudits>>
    BY <1>6
       DEF DrainTick, RetryOk, RetryFails, WindowEnds, vars, storeVars, ringVars,
           Ring!ringVars, Ring!DrainTick, Ring!AttemptOk, Ring!AttemptFails,
           Ring!WindowEnds
  <2>2. RingInv'
    BY <2>1, PassStepHolds DEF Inv
  <2>3. JobNumbers'
    BY <2>1 DEF Inv, JobNumbers
  <2> QED BY <1>1, <2>2, <2>3 DEF Inv
<1>7. CASE Rehydrate \/ StartAfresh
  <2>1. /\ inflight' = {} /\ failed' = {} /\ ring' = <<>> /\ trying' = NoEntry
        /\ left' = 0 /\ recent' = FALSE /\ done' = {} /\ overflowed' = {} /\ dead' = {}
    BY <1>7 DEF Rehydrate, StartAfresh, Die
  <2>2. RingInv'
    BY <2>1, RingInitAgain DEF Ring!Init
  <2> QED BY <1>1, <2>1, <2>2 DEF Inv, JobNumbers
<1> QED BY <1>2, <1>3, <1>4, <1>5, <1>6, <1>7 DEF Next

LEMMA StoreInductive == Spec => []Inv
BY InvInit, InvStep, PTL DEF Spec

\* Whatever fails and when: every failed write waits, is under way, succeeded
\* or was given up (flushRetries loses none between shift and push).
THEOREM NoWriteForgotten == Spec => []NothingForgotten
<1>1. Inv => NothingForgotten
  BY SameRing DEF Inv, RingInv
<1> QED BY <1>1, StoreInductive, PTL

\* No failed write is in two of those places: none can be run again after it
\* succeeded or was given up.
THEOREM NoWriteTwice == Spec => []NothingTwice
<1>1. Inv => NothingTwice
  BY SameRing DEF Inv, RingInv
<1> QED BY <1>1, StoreInductive, PTL

\* The ring outgrows MAX_RING by no more than the entry under way.
THEOREM RingIsBounded == Spec => []RingBounded
<1>1. Inv => RingBounded
  <2> SUFFICES ASSUME RingInv PROVE RingBounded
    BY DEF Inv
  <2>1. Len(ring) \in Nat
    BY LenProperties DEF RingInv, Ring!TypeOK
  <2> QED BY <2>1, StoreRing DEF RingInv, Fits, RingBounded
<1> QED BY <1>1, StoreInductive, PTL

\* A pass never takes more entries than the ring holds.
THEOREM PassEndsByCount == Spec => []Ring!PassWithinRing
<1>1. Inv => Ring!PassWithinRing
  BY DEF Inv, RingInv, Fits, Ring!PassWithinRing
<1> QED BY <1>1, StoreInductive, PTL

\* In whatever order the upserts finish, overtake each other, fail and are
\* retried, and whatever was restarted before: once none is unsettled, the row
\* is that of the last upsert or of one unsettled when it began, unless the last
\* was given up (persistTimer, _upsertTimerState).
THEOREM RowIsRecent == Spec => []SettledRowIsRecent
<1>1. Inv => SettledRowIsRecent
  BY DEF Inv, StoreInv, LastWriteRules, SettledRowIsRecent
<1> QED BY <1>1, StoreInductive, PTL

\* A restart at any moment, whatever is in flight or in the ring and whether or
\* not the query the process died in took effect, loads no row older than the
\* one that stood when the last upsert began (rehydrateFromDb).
THEOREM RestartIsRecent == Spec => RestartKeepsTheSettled
<1>1. Inv /\ [Next]_vars =>
        [ Rehydrate /\ latest # 0 =>
            /\ timer' \in rivals \cup {TimerOf(before)}
            /\ UnsettledUpserts = {} /\ ~Lost(latest) => timer' \in rivals ]_vars
  <2> SUFFICES ASSUME Inv, Rehydrate, latest # 0
               PROVE  /\ timer' \in rivals \cup {TimerOf(before)}
                      /\ UnsettledUpserts = {} /\ ~Lost(latest) => timer' \in rivals
    OBVIOUS
  <2>1. /\ \A job \in UnsettledUpserts : job.row \in rivals
        /\ row \in rivals \cup {before} /\ NULL \notin rivals
        /\ UnsettledUpserts = {} /\ ~Lost(latest) => row \in rivals
    BY DEF Inv, StoreInv, StoreTypes, LastWriteRules
  <2>2. row' = row \/ \E job \in UnsettledUpserts : row' = job.row
    BY DEF Rehydrate, Die, Applied, UnsettledUpserts, Unsettled
  <2>3. timer' = TimerOf(row')
    BY DEF Rehydrate
  <2> QED BY <2>1, <2>2, <2>3 DEF TimerOf
<1> QED BY <1>1, StoreInductive, PTL DEF Spec, RestartKeepsTheSettled

----------------------------------------------------------------------------
\* The offset of a client's clock.

\* The members of I in front of i when v orders them, ties in order of arrival.
InFront(I, v, i) == {j \in I : v[j] < v[i] \/ (~(v[i] < v[j]) /\ j < i)}

LEMMA RanksDiffer ==
  ASSUME NEW I \in SUBSET Nat, IsFiniteSet(I), NEW v, \A i \in I : v[i] \in Int,
         NEW i \in I, NEW j \in I,
         v[i] < v[j] \/ (~(v[j] < v[i]) /\ i < j)
  PROVE  Cardinality(InFront(I, v, i)) < Cardinality(InFront(I, v, j))
<1>1. /\ IsFiniteSet(InFront(I, v, i)) /\ IsFiniteSet(InFront(I, v, j))
      /\ Cardinality(InFront(I, v, i)) \in Nat /\ Cardinality(InFront(I, v, j)) \in Nat
  BY FS_Subset, FS_CardinalityType DEF InFront
<1>2. ASSUME NEW k \in InFront(I, v, i) PROVE k \in InFront(I, v, j)
  <2>1. /\ k \in I /\ k \in Nat /\ i \in Nat /\ j \in Nat
        /\ v[k] \in Int /\ v[i] \in Int /\ v[j] \in Int
        /\ v[k] < v[i] \/ (~(v[i] < v[k]) /\ k < i)
    BY <1>2 DEF InFront
  <2>2. v[k] < v[j] \/ (~(v[j] < v[k]) /\ k < j)
    BY <2>1
  <2> QED BY <2>1, <2>2 DEF InFront
<1>3. i \in InFront(I, v, j) /\ i \notin InFront(I, v, i)
  BY DEF InFront
<1>4. InFront(I, v, i) \in SUBSET InFront(I, v, j) /\ InFront(I, v, i) # InFront(I, v, j)
  BY <1>2, <1>3
<1>5. /\ Cardinality(InFront(I, v, i)) <= Cardinality(InFront(I, v, j))
      /\ Cardinality(InFront(I, v, i)) # Cardinality(InFront(I, v, j))
  BY <1>1, <1>4, FS_Subset
<1> QED BY <1>1, <1>5

\* Ordered by v, there is one member of I at each place.
LEMMA RanksAreAll ==
  ASSUME NEW I \in SUBSET Nat, IsFiniteSet(I), NEW v, \A i \in I : v[i] \in Int
  PROVE  /\ \A i \in I : Cardinality(InFront(I, v, i)) \in 0..(Cardinality(I) - 1)
         /\ \A k \in 0..(Cardinality(I) - 1) :
              \E i \in I : Cardinality(InFront(I, v, i)) = k
<1> DEFINE f == [i \in I |-> Cardinality(InFront(I, v, i))]
           n == Cardinality(I)
           T == 0..(n - 1)
<1>1. n \in Nat
  BY FS_CardinalityType
<1>2. ASSUME NEW i \in I PROVE Cardinality(InFront(I, v, i)) \in T
  <2>1. InFront(I, v, i) \subseteq I /\ i \in I /\ i \notin InFront(I, v, i)
    BY DEF InFront
  <2>2. /\ IsFiniteSet(InFront(I, v, i)) /\ Cardinality(InFront(I, v, i)) \in Nat
        /\ Cardinality(InFront(I, v, i)) <= n /\ Cardinality(InFront(I, v, i)) # n
    BY <2>1, FS_Subset, FS_CardinalityType
  <2> QED BY <1>1, <2>2
<1>3. ASSUME NEW i \in I, NEW j \in I, f[i] = f[j] PROVE i = j
  <2>1. i # j => \/ v[i] < v[j] \/ (~(v[j] < v[i]) /\ i < j)
                 \/ v[j] < v[i] \/ (~(v[i] < v[j]) /\ j < i)
    OBVIOUS
  <2>2. f[i] \in Nat /\ f[j] \in Nat
    BY <1>1, <1>2
  <2> QED BY <1>3, <2>1, <2>2, RanksDiffer
<1>4. f \in Injection(I, T)
  BY <1>2, <1>3 DEF Injection, IsInjective
<1>5. IsFiniteSet(T) /\ Cardinality(T) = n
  <2>1. 0 \in Int /\ n - 1 \in Int
    BY <1>1
  <2>2. /\ IsFiniteSet(0..(n - 1))
        /\ Cardinality(0..(n - 1)) = IF 0 > n - 1 THEN 0 ELSE (n - 1) - 0 + 1
    BY <2>1, FS_Interval
  <2> QED BY <1>1, <2>2
<1>6. f \in Surjection(I, T)
  BY <1>4, <1>5, FS_Injection
<1>7. \A k \in T : \E i \in I : f[i] = k
  BY <1>6 DEF Surjection
<1> QED BY <1>2, <1>7

\* The median of a set of samples is a sample's offset, or half the sum of two.
LEMMA MedianIs ==
  ASSUME NEW w, NEW I \in SUBSET Nat, IsFiniteSet(I), I # {},
         \A i \in I : w[i].offset \in Int
  PROVE  \E i, j \in I : Median(w, I) = (w[i].offset + w[j].offset) \div 2
<1> DEFINE v == [i \in I |-> w[i].offset]
           n == Cardinality(I)
           rank(i) == Cardinality({j \in I : w[j].offset < w[i].offset
                                                 \/ (~(w[i].offset < w[j].offset) /\ j < i)})
           At(k) == w[CHOOSE i \in I : rank(i) = k].offset
<1>1. n \in Nat /\ n # 0
  BY FS_CardinalityType, FS_EmptySet
<1>2. \A k \in 0..(n - 1) : \E i \in I : rank(i) = k
  <2>1. \A k \in 0..(n - 1) : \E i \in I : Cardinality(InFront(I, v, i)) = k
    BY RanksAreAll
  <2>2. \A i \in I : InFront(I, v, i) =
          {j \in I : w[j].offset < w[i].offset \/ (~(w[i].offset < w[j].offset) /\ j < i)}
    BY DEF InFront
  <2>3. \A i \in I : rank(i) = Cardinality(InFront(I, v, i))
    BY <2>2
  <2> QED BY <2>1, <2>3
<1>3. Median(w, I) = IF n % 2 = 1 THEN At(n \div 2)
                          ELSE (At(n \div 2 - 1) + At(n \div 2)) \div 2
  BY DEF Median, Rank
<1> HIDE DEF rank
<1>4. \A k \in 0..(n - 1) : \E i \in I : At(k) = w[i].offset
  BY <1>2
<1> HIDE DEF At
<1>6. CASE n % 2 = 1
  <2>1. n \div 2 \in 0..(n - 1)
    BY <1>1, <1>6
  <2>2. PICK i \in I : At(n \div 2) = w[i].offset
    BY <1>4, <2>1
  <2>3. (w[i].offset + w[i].offset) \div 2 = w[i].offset
    OBVIOUS
  <2> QED BY <1>3, <1>6, <2>2, <2>3
<1>7. CASE n % 2 # 1
  <2>1. n \div 2 \in 0..(n - 1) /\ n \div 2 - 1 \in 0..(n - 1)
    BY <1>1, <1>7
  <2>2. PICK j \in I : At(n \div 2) = w[j].offset
    BY <1>4, <2>1
  <2>3. PICK i \in I : At(n \div 2 - 1) = w[i].offset
    BY <1>4, <2>1
  <2> QED BY <1>3, <1>7, <2>2, <2>3
<1> QED BY <1>6, <1>7

\* What an exchange measures, with delays of 4 * a and 4 * b.
Measures(s, skew, a, b) ==
  s.offset = skew + 2 * (a - b) /\ s.roundTrip = 4 * a + 4 * b

LEMMA SampleIs ==
  ASSUME NEW skew \in Skews, NEW s \in Samples(skew)
  PROVE  /\ s.offset \in Int /\ s.roundTrip \in Int /\ skew \in Int
         /\ \E a, b \in Nat : 4 * a \in Delays /\ 4 * b \in Delays /\ Measures(s, skew, a, b)
<1>1. PICK up \in Delays, down \in Delays : s = Exchanged(up, down, skew)
  BY DEF Samples
<1>2. PICK a \in 0..100, b \in 0..100 : up = 4 * a /\ down = 4 * b
  BY DelayAssumption
<1>3. skew \in Int
  BY DelayAssumption
<1>4. s = [roundTrip |-> ((up + 1 + down) - 0) - ((up + skew + 1) - (up + skew)),
           offset |-> (((up + skew) - 0) + ((up + skew + 1) - (up + 1 + down))) \div 2]
  BY <1>1 DEF Exchanged, ComputeSample
<1>5. s.roundTrip = 4 * a + 4 * b
  BY <1>2, <1>3, <1>4
<1>6. s.offset = skew + 2 * (a - b)
  <2>1. s.offset = (2 * (skew + 2 * (a - b))) \div 2
    BY <1>2, <1>3, <1>4
  <2>2. \A x \in Int : (2 * x) \div 2 = x
    OBVIOUS
  <2> QED BY <1>3, <2>1, <2>2
<1> QED BY <1>2, <1>3, <1>5, <1>6 DEF Measures

LEMMA WindowIs ==
  ASSUME NEW skew \in Skews, NEW w \in Windows(skew)
  PROVE  /\ Len(w) \in Nat \ {0} /\ DOMAIN w = 1..Len(w)
         /\ IsFiniteSet(DOMAIN w) /\ Cardinality(DOMAIN w) = Len(w)
         /\ \A i \in DOMAIN w : w[i] \in Samples(skew)
<1>1. PICK n \in 1..Capacity : w \in [1..n -> Samples(skew)]
  BY DEF Windows
<1>2. n \in Nat \ {0}
  BY TrackerAssumption
<1>3. w \in Seq(Samples(skew)) /\ Len(w) = n /\ DOMAIN w = 1..n
  BY <1>1, <1>2
<1> QED BY <1>1, <1>2, <1>3, FS_Interval

\* Kept are some of the samples, and none that takes as long as TrimWorst do or
\* more, if so many are left in front of it.
LEMMA KeptAre ==
  ASSUME NEW skew \in Skews, NEW w \in Windows(skew)
  PROVE  /\ Kept(w) \subseteq DOMAIN w /\ Kept(w) # {}
         /\ Len(w) > TrimWorst =>
              \A i \in Kept(w) :
                Cardinality({j \in DOMAIN w : w[j].roundTrip < w[i].roundTrip})
                  < Len(w) - TrimWorst
<1> DEFINE I == DOMAIN w
           v == [i \in I |-> w[i].roundTrip]
<1>1. /\ Len(w) \in Nat \ {0} /\ I = 1..Len(w) /\ IsFiniteSet(I) /\ Cardinality(I) = Len(w)
      /\ \A i \in I : w[i] \in Samples(skew)
  BY WindowIs
<1>2. \A i \in I : w[i].roundTrip \in Int
  BY <1>1, SampleIs
<1>3. TrimWorst \in Nat
  BY TrackerAssumption
<1>4. CASE Len(w) <= TrimWorst
  BY <1>1, <1>3, <1>4 DEF Kept
<1>5. CASE ~(Len(w) <= TrimWorst)
  <2>1. \A i \in I : InFront(I, v, i) =
          {j \in I : w[j].roundTrip < w[i].roundTrip \/ (~(w[i].roundTrip < w[j].roundTrip) /\ j < i)}
    BY DEF InFront
  <2>2. Kept(w) = {i \in I : Cardinality(InFront(I, v, i)) < Len(w) - TrimWorst}
    BY <1>5, <2>1 DEF Kept, Rank
  <2>3. \A k \in 0..(Len(w) - 1) : \E i \in I : Cardinality(InFront(I, v, i)) = k
    <3>1. I \in SUBSET Nat /\ \A i \in I : v[i] \in Int
      BY <1>1, <1>2
    <3>2. \A k \in 0..(Cardinality(I) - 1) : \E i \in I : Cardinality(InFront(I, v, i)) = k
      <4> HIDE DEF I, v
      <4> QED BY <1>1, <3>1, RanksAreAll
    <3> QED BY <1>1, <3>2
  <2>4. \E i \in I : Cardinality(InFront(I, v, i)) = 0
    BY <1>1, <2>3
  <2>5. ASSUME NEW i \in Kept(w)
        PROVE  Cardinality({j \in I : w[j].roundTrip < w[i].roundTrip}) < Len(w) - TrimWorst
    <3> DEFINE F == {j \in I : w[j].roundTrip < w[i].roundTrip}
    <3>1. F \subseteq InFront(I, v, i) /\ InFront(I, v, i) \subseteq I
      BY <2>2 DEF InFront
    <3>2. IsFiniteSet(InFront(I, v, i)) /\ Cardinality(InFront(I, v, i)) \in Nat
      BY <1>1, <3>1, FS_Subset, FS_CardinalityType
    <3>3. Cardinality(F) <= Cardinality(InFront(I, v, i)) /\ Cardinality(F) \in Nat
      BY <3>1, <3>2, FS_Subset, FS_CardinalityType
    <3> QED BY <1>1, <1>3, <2>2, <3>2, <3>3
  <2> QED BY <1>1, <1>3, <1>5, <2>2, <2>4, <2>5
<1> QED BY <1>4, <1>5

\* What the offset of a window is off by: half the sum of the asymmetries of two
\* of the exchanges that are kept.
HalfSum(w, skew, error) ==
  \E i, j \in Kept(w), a, b, c, d \in Nat :
    /\ {4 * a, 4 * b, 4 * c, 4 * d} \subseteq Delays
    /\ Measures(w[i], skew, a, b) /\ Measures(w[j], skew, c, d)
    /\ error = (a - b) + (c - d)

LEMMA OffsetIs ==
  ASSUME NEW skew \in Skews, NEW w \in Windows(skew)
  PROVE  HalfSum(w, skew, ActiveOffset(w) - skew)
<1> DEFINE K == Kept(w)
<1>1. K \subseteq DOMAIN w /\ K # {}
  BY KeptAre
<1>2. /\ DOMAIN w = 1..Len(w) /\ IsFiniteSet(DOMAIN w)
      /\ \A i \in DOMAIN w : w[i] \in Samples(skew)
  BY WindowIs
<1>3. K \in SUBSET Nat /\ IsFiniteSet(K)
  BY <1>1, <1>2, FS_Subset
<1>4. \A i \in K : w[i].offset \in Int
  BY <1>1, <1>2, SampleIs
<1> HIDE DEF K
<1>5. PICK i \in K, j \in K : Median(w, K) = (w[i].offset + w[j].offset) \div 2
  BY <1>1, <1>3, <1>4, MedianIs
<1>6. w[i] \in Samples(skew) /\ w[j] \in Samples(skew)
  BY <1>1, <1>2
<1>7. PICK a \in Nat, b \in Nat :
        4 * a \in Delays /\ 4 * b \in Delays /\ Measures(w[i], skew, a, b)
  BY <1>6, SampleIs
<1>8. PICK c \in Nat, d \in Nat :
        4 * c \in Delays /\ 4 * d \in Delays /\ Measures(w[j], skew, c, d)
  BY <1>6, SampleIs
<1>9. skew \in Int
  BY DelayAssumption
<1>10. ActiveOffset(w) - skew = (a - b) + (c - d)
  <2>1. w[i].offset + w[j].offset = 2 * (skew + (a - b) + (c - d))
    BY <1>7, <1>8, <1>9 DEF Measures
  <2>2. \A x \in Int : (2 * x) \div 2 = x
    OBVIOUS
  <2>3. ActiveOffset(w) = skew + (a - b) + (c - d)
    BY <1>5, <1>9, <2>1, <2>2 DEF ActiveOffset, K
  <2> QED BY <1>9, <2>3
<1>11. {4 * a, 4 * b, 4 * c, 4 * d} \subseteq Delays
  BY <1>7, <1>8
<1> QED BY <1>7, <1>8, <1>10, <1>11 DEF K, HalfSum

\* Samples that are slower than all the others, and no more than TrimWorst, are
\* not kept.
LEMMA SlowAreTrimmed ==
  ASSUME NEW skew \in Skews, NEW w \in Windows(skew),
         NEW slow \in SUBSET DOMAIN w,
         Cardinality(slow) <= TrimWorst, Len(w) > TrimWorst,
         \A i \in slow, j \in DOMAIN w \ slow : w[j].roundTrip < w[i].roundTrip
  PROVE  Kept(w) \cap slow = {}
<1> SUFFICES ASSUME NEW i \in Kept(w), i \in slow PROVE FALSE
  OBVIOUS
<1> DEFINE F == {j \in DOMAIN w : w[j].roundTrip < w[i].roundTrip}
<1>1. Cardinality(F) < Len(w) - TrimWorst
  BY KeptAre
<1>2. /\ Len(w) \in Nat /\ IsFiniteSet(DOMAIN w) /\ Cardinality(DOMAIN w) = Len(w)
  BY WindowIs
<1>3. DOMAIN w \ slow \in SUBSET F /\ F \in SUBSET DOMAIN w
  OBVIOUS
<1> HIDE DEF F
<1>4. IsFiniteSet(F) /\ Cardinality(F) \in Nat
  BY <1>2, <1>3, FS_Subset, FS_CardinalityType
<1>5. Cardinality(DOMAIN w \ slow) = Len(w) - Cardinality(slow)
  <2>1. DOMAIN w \cap slow = slow
    OBVIOUS
  <2>2. Cardinality(DOMAIN w \ slow) = Cardinality(DOMAIN w) - Cardinality(DOMAIN w \cap slow)
    BY <1>2, FS_Difference
  <2> QED BY <1>2, <2>1, <2>2
<1>6. Cardinality(DOMAIN w \ slow) <= Cardinality(F)
  BY <1>3, <1>4, FS_Subset
<1>7. Cardinality(slow) \in Nat /\ TrimWorst \in Nat
  BY <1>2, FS_Subset, FS_CardinalityType, TrackerAssumption
<1> QED BY <1>1, <1>2, <1>4, <1>5, <1>6, <1>7

\* The offset is off by at most half a round trip that was measured, and not at
\* all for slow replies that are no more than are trimmed: for every window.
THEOREM WindowsAreSound ==
  ASSUME NEW skew \in Skews, NEW w \in Windows(skew)
  PROVE  SoundWindow(w, skew)
<1> DEFINE error == ActiveOffset(w) - skew
           slow == {k \in DOMAIN w : w[k].offset # skew}
<1>0. HalfSum(w, skew, error)
  BY OffsetIs
<1> HIDE DEF error
<1>1. PICK i \in Kept(w), j \in Kept(w), a \in Nat, b \in Nat, c \in Nat, d \in Nat :
        /\ Measures(w[i], skew, a, b) /\ Measures(w[j], skew, c, d)
        /\ error = (a - b) + (c - d)
  BY <1>0 DEF HalfSum
<1>2. skew \in Int
  BY DelayAssumption
<1>3. \E k \in Kept(w) : 2 * error <= w[k].roundTrip /\ -2 * error <= w[k].roundTrip
  <2>1. CASE a + b >= c + d
    BY <1>1, <2>1 DEF Measures
  <2>2. CASE ~(a + b >= c + d)
    BY <1>1, <2>2 DEF Measures
  <2> QED BY <2>1, <2>2
<1>4. ASSUME Cardinality(slow) <= TrimWorst, Len(w) > TrimWorst,
             \A k \in slow, l \in DOMAIN w \ slow : w[l].roundTrip < w[k].roundTrip
      PROVE  error = 0
  <2>1. Kept(w) \cap slow = {} /\ Kept(w) \subseteq DOMAIN w
    BY <1>4, SlowAreTrimmed, KeptAre
  <2>2. w[i].offset = skew /\ w[j].offset = skew
    BY <2>1
  <2> QED BY <1>1, <1>2, <2>2 DEF Measures
<1> QED BY <1>3, <1>4 DEF SoundWindow, error

LEMMA BellErrors == Bell!Errors = Errors
BY DEF Bell!Errors, Errors, Bell!Windows, Windows, Bell!Samples, Samples,
       Bell!Exchanged, Exchanged, Bell!ComputeSample, ComputeSample,
       Bell!ActiveOffset, ActiveOffset, Bell!Kept, Kept, Bell!Median, Median,
       Bell!Rank, Rank, Bell!Cardinality, Cardinality

LEMMA ErrorsAreSound == Errors = SoundErrors
BY WindowsAreSound DEF SoundErrors

\* Two readings of one instant are apart by less than the quiet time, however wrong
\* the offsets are.
OffsetsAreClose == Errors \subseteq Int /\ \A e, f \in Errors : e - f < Quiet

LEMMA ErrorsAreClose == OffsetsAreClose
<1>1. ASSUME NEW e \in Errors PROVE e \in Int /\ 2 * e < Quiet /\ -(2 * e) < Quiet
  <2>1. PICK skew \in Skews : \E w \in Windows(skew) : e = ActiveOffset(w) - skew
    BY DEF Errors
  <2>1a. PICK w \in Windows(skew) : HalfSum(w, skew, e)
    BY <2>1, OffsetIs
  <2>2. PICK a \in Nat, b \in Nat, c \in Nat, d \in Nat :
          {4 * a, 4 * b, 4 * c, 4 * d} \subseteq Delays /\ e = (a - b) + (c - d)
    BY <2>1a DEF HalfSum
  <2>3. 4 * a < Quiet /\ 4 * b < Quiet /\ 4 * c < Quiet /\ 4 * d < Quiet
    BY <2>2, DelaysAreShort
  <2> QED BY <2>2, <2>3, QuietAssumption
<1> QED BY <1>1, QuietAssumption DEF OffsetsAreClose

----------------------------------------------------------------------------
\* The alarm of a client that shows the timer.

LEMMA BellTimer ==
  /\ Bell!TimerState = Room!TimerState
  /\ \A s : Bell!FieldsMatchStatus(s) <=> Room!FieldsMatchStatus(s)
  /\ Bell!InitialTimerState = Room!InitialTimerState
  /\ Bell!Room!Init <=> Room!Init
BY DEF Bell!TimerState, Room!TimerState, Bell!Status, Room!Status,
   Bell!FieldsMatchStatus,
       Room!FieldsMatchStatus, Bell!InitialTimerState, Room!InitialTimerState,
       Bell!Room!Init, Room!Init, Bell!Room!InitialTimerState

LEMMA BellCommands ==
  /\ Bell!Room!TimerSet <=> Room!TimerSet
  /\ Bell!Room!TimerPause <=> Room!TimerPause
  /\ Bell!Room!TimerResume <=> Room!TimerResume
  /\ Bell!Room!TimerAdjust <=> Room!TimerAdjust
  /\ Bell!Room!TimerReset <=> Room!TimerReset
  /\ Bell!Room!MessageSet <=> Room!MessageSet
  /\ Bell!Room!Tick <=> Room!Tick
<1> USE DEF Bell!Room!Command, Room!Command, Bell!Room!Running, Room!Running,
            Bell!Room!Moved, Room!Moved, Bell!Room!Paused, Room!Paused,
            Bell!Room!AtLeastZero, Room!AtLeastZero
<1>1. Bell!Room!TimerSet <=> Room!TimerSet
  BY DEF Bell!Room!TimerSet, Room!TimerSet, Bell!Room!SetTimer, Room!SetTimer
<1>2. Bell!Room!TimerPause <=> Room!TimerPause
  BY DEF Bell!Room!TimerPause, Room!TimerPause, Bell!Room!PauseTimer, Room!PauseTimer,
         Bell!Room!CanPause, Room!CanPause
<1>3. Bell!Room!TimerResume <=> Room!TimerResume
  BY DEF Bell!Room!TimerResume, Room!TimerResume, Bell!Room!ResumeTimer,
     Room!ResumeTimer,
         Bell!Room!CanResume, Room!CanResume
<1>4. Bell!Room!TimerAdjust <=> Room!TimerAdjust
  BY DEF Bell!Room!TimerAdjust, Room!TimerAdjust, Bell!Room!AdjustTimer,
     Room!AdjustTimer,
         Bell!Room!CanAdjust, Room!CanAdjust, Bell!Room!Later, Room!Later
<1>5. Bell!Room!TimerReset <=> Room!TimerReset
  BY DEF Bell!Room!TimerReset, Room!TimerReset, Bell!Room!ResetTimer, Room!ResetTimer
<1>6. Bell!Room!MessageSet <=> Room!MessageSet
  BY DEF Bell!Room!MessageSet, Room!MessageSet, Bell!Room!SetMessage, Room!SetMessage
<1>7. Bell!Room!Tick <=> Room!Tick
  BY DEF Bell!Room!Tick, Room!Tick
<1> QED BY <1>1, <1>2, <1>3, <1>4, <1>5, <1>6, <1>7

\* Every command makes the version greater (applyTimerCommand's base).
LEMMA CommandBumps ==
  ASSUME RoomInv, Bell!ServerCommand
  PROVE  RoomInv' /\ now' = now /\ timer'.version = timer.version + 1
<1>1. \/ Room!TimerSet \/ Room!TimerPause \/ Room!TimerResume
      \/ Room!TimerAdjust \/ Room!TimerReset \/ Room!MessageSet
  BY BellCommands DEF Bell!ServerCommand
<1>2. RoomInv' /\ now' = now
  BY <1>1, RoomStep DEF Room!Next, Room!TimerSet, Room!TimerPause, Room!TimerResume,
     Room!TimerAdjust, Room!TimerReset, Room!MessageSet, Room!Command
<1>3. timer \in Room!TimerState /\ timer.version \in Nat
  BY DEF RoomInv, Room!TypeOK, Room!TimerState
<1> USE <1>3 DEF Room!Running, Room!Paused, Room!Moved
<1>4. CASE Room!TimerSet
  BY <1>2, <1>4 DEF Room!TimerSet, Room!SetTimer
<1>5. CASE Room!TimerPause \/ Room!TimerResume \/ Room!TimerReset
  BY <1>2, <1>5 DEF Room!TimerPause, Room!TimerResume, Room!TimerReset,
     Room!PauseTimer, Room!ResumeTimer, Room!ResetTimer
<1>6. CASE Room!TimerAdjust
  BY <1>2, <1>6 DEF Room!TimerAdjust, Room!AdjustTimer
<1>7. CASE Room!MessageSet
  BY <1>2, <1>7 DEF Room!MessageSet, Room!SetMessage, Room!TimerState
<1> QED BY <1>1, <1>4, <1>5, <1>6, <1>7

\* A timer a client was sent, or none; and one it was sent no later than t.
Sent(s) == s = NULL \/ (s \in Room!TimerState /\ Room!FieldsMatchStatus(s))
NotNewer(s, t) ==
  s # NULL => t # NULL /\ s.version <= t.version /\ (s.version = t.version => s = t)

\* The timer prev was read from, and how long ago at most.
ReadFrom == IF kind = "overlay" THEN seen ELSE baseline
SinceRead == IF due THEN 1 ELSE 0

BellTypes ==
  /\ RoomInv
  /\ kind \in {"overlay", "page"} /\ lastRing \in Nat \cup {NULL}
  /\ Sent(seen) /\ Sent(baseline) /\ (kind = "overlay" => seen # NULL)
  /\ err \in Errors /\ prev \in Nat
  /\ NotNewer(seen, timer) /\ NotNewer(baseline, seen)

\* A time that was read before an end: the end is awaited, and it was ahead.
ReadingIsAhead ==
  prev > 0 /\ ReadFrom # NULL /\ ReadFrom.status = "running" =>
    /\ ReadFrom.endsAtServerMs \in awaited
    /\ \E f \in Errors : now - SinceRead + f < ReadFrom.endsAtServerMs

\* What was rung for was over, by some offset, when the client last rang.
RungIsOver ==
  \A end \in rung :
    /\ end \in awaited /\ end \in Int /\ lastRing \in 0..now
    /\ \E e \in Errors : end <= lastRing + e

UndisturbedIsRead ==
  ahead # NULL /\ ~disturbed => prev > 0 /\ seen # NULL /\ (kind = "page" => baseline = seen)

BellInv ==
  /\ BellTypes /\ ReadingIsAhead /\ RungIsOver /\ UndisturbedIsRead
  /\ ~repeated /\ ~missed

LEMMA ReadingOf ==
  ASSUME NEW s \in Room!TimerState, Room!FieldsMatchStatus(s),
         NEW e \in Int, now \in Nat
  PROVE  /\ Bell!Reading(s, e) \in Nat
         /\ s.status = "running" =>
              /\ s.endsAtServerMs \in Int
              /\ Bell!Reading(s, e) > 0 <=> now + e < s.endsAtServerMs
         /\ s.version \in Nat
<1>1. /\ s.status \in Room!Status /\ s.version \in Nat
      /\ s.status = "running" => s.endsAtServerMs \in Int
      /\ s.status = "paused" => s.remainingMs \in Nat
  BY NullAssumption DEF Room!TimerState, Room!FieldsMatchStatus
<1>2. CASE s.status = "running"
  BY <1>1, <1>2 DEF Bell!Reading, Bell!ComputeRemainingMs, Bell!AtLeastZero
<1>3. CASE s.status = "paused"
  BY <1>1, <1>3 DEF Bell!Reading, Bell!ComputeRemainingMs
<1>4. CASE s.status = "idle"
  BY <1>1, <1>4 DEF Bell!Reading, Bell!ComputeRemainingMs
<1> QED BY <1>1, <1>2, <1>3, <1>4 DEF Room!Status

\* A client that rings for an end it awaits rings for it the first time.
LEMMA RingsAnew ==
  ASSUME OffsetsAreClose, BellInv,
         NEW end \in Int, NEW f \in Errors, now - 1 + f < end,
         lastRing # NULL => now - lastRing >= Quiet
  PROVE  end \notin rung
<1> SUFFICES ASSUME end \in rung PROVE FALSE
  OBVIOUS
<1>1. lastRing \in Nat /\ lastRing # NULL
  BY NullAssumption DEF BellInv, RungIsOver
<1>2. PICK e \in Errors : end <= lastRing + e
  BY DEF BellInv, RungIsOver
<1>3. e \in Int /\ f \in Int /\ e - f < Quiet /\ Quiet \in Nat /\ now \in Nat
  BY QuietAssumption DEF OffsetsAreClose, BellInv, BellTypes, RoomInv,
     Room!TypeOK
<1> QED BY <1>1, <1>2, <1>3

LEMMA BellInit == Bell!Init => BellInv
<1> SUFFICES ASSUME Bell!Init PROVE BellInv
  OBVIOUS
<1>1. RoomInv /\ timer = Room!InitialTimerState
  BY BellTimer, RoomInit DEF Bell!Init, Room!Init
<1>2. timer \in Room!TimerState /\ Room!FieldsMatchStatus(timer) /\ timer # NULL
  BY <1>1, StoreRing, SameTimer DEF RoomInv, Room!TypeOK, Room!WellFormed
<1>2a. Sent(timer) /\ NotNewer(timer, timer)
  BY <1>2 DEF Sent, NotNewer, Room!TimerState
<1>3. /\ kind \in {"overlay", "page"}
      /\ seen = (IF kind = "overlay" THEN timer ELSE NULL) /\ baseline = NULL
      /\ err \in Errors /\ prev = 0 /\ rung = {} /\ ahead = NULL /\ lastRing = NULL
  BY <1>1, BellTimer, BellErrors DEF Bell!Init
<1>4. BellTypes
  BY <1>1, <1>2, <1>2a, <1>3 DEF BellTypes, Sent, NotNewer
<1>5. ReadingIsAhead /\ RungIsOver /\ UndisturbedIsRead
  BY <1>3 DEF ReadingIsAhead, RungIsOver, UndisturbedIsRead
<1>6. ~repeated /\ ~missed
  BY DEF Bell!Init
<1> QED BY <1>4, <1>5, <1>6 DEF BellInv

\* What steps that read nothing, ring for nothing and leave the clock alone keep.
LEMMA BellQuiet ==
  ASSUME BellInv, RoomInv', UNCHANGED <<kind, seen, err, prev, baseline, lastRing, due, now>>,
         UNCHANGED <<ahead, disturbed, awaited, rung, repeated, missed>>,
         NotNewer(seen, timer)'
  PROVE  BellInv'
<1>1. BellTypes'
  BY DEF BellInv, BellTypes, NotNewer
<1>2. ReadingIsAhead' /\ RungIsOver' /\ UndisturbedIsRead'
  BY DEF BellInv, ReadingIsAhead, RungIsOver, UndisturbedIsRead, ReadFrom, SinceRead
<1> QED BY <1>1, <1>2 DEF BellInv

LEMMA ServerHolds ==
  ASSUME BellInv, Bell!ServerCommand
  PROVE  BellInv'
<1>0. RoomInv /\ NotNewer(seen, timer) /\ Sent(seen) /\ timer \in Room!TimerState
  BY DEF BellInv, BellTypes, RoomInv, Room!TypeOK
<1>1. RoomInv' /\ now' = now /\ timer'.version = timer.version + 1
  BY <1>0, CommandBumps
<1>2. UNCHANGED <<kind, seen, err, prev, baseline, lastRing, due>>
      /\ UNCHANGED <<ahead, disturbed, awaited, rung, repeated, missed>>
  BY DEF Bell!ServerCommand, Bell!historyVars
<1>3. timer' # NULL /\ timer.version \in Nat
  BY <1>0, <1>1, StoreRing, SameTimer DEF RoomInv, Room!TypeOK, Room!TimerState
<1>4. NotNewer(seen, timer)'
  <2> SUFFICES ASSUME seen # NULL
               PROVE  seen.version <= timer'.version /\ seen.version # timer'.version
    BY <1>2, <1>3 DEF NotNewer
  <2>1. seen.version <= timer.version /\ seen.version \in Nat
    BY <1>0 DEF NotNewer, Sent, Room!TimerState
  <2> QED BY <1>1, <1>3, <2>1
<1> QED BY <1>1, <1>2, <1>4, BellQuiet

LEMMA ToggleHolds ==
  ASSUME BellInv, Bell!ToggleAlarm
  PROVE  BellInv'
<1>1. UNCHANGED <<timer, now>> /\ UNCHANGED <<kind, seen, err, prev, baseline, lastRing, due>>
      /\ UNCHANGED <<ahead, disturbed, awaited, rung, repeated, missed>>
  BY DEF Bell!ToggleAlarm, Bell!historyVars
<1>2. RoomInv' /\ NotNewer(seen, timer)'
  BY <1>1 DEF BellInv, BellTypes, RoomInv, Room!TypeOK, Room!WellFormed, NotNewer
<1> QED BY <1>1, <1>2, BellQuiet

LEMMA ClockHolds ==
  ASSUME BellInv, Bell!Clock
  PROVE  BellInv'
<1>1. /\ due = FALSE /\ due' = TRUE /\ now' = now + 1 /\ timer' = timer
      /\ UNCHANGED <<kind, seen, err, prev, baseline, lastRing>>
      /\ UNCHANGED <<ahead, disturbed, awaited, rung, repeated, missed>>
  BY BellCommands DEF Bell!Clock, Bell!historyVars, Room!Tick
<1>2. now \in Nat /\ now' - SinceRead' = now - SinceRead
  BY <1>1 DEF BellInv, BellTypes, RoomInv, Room!TypeOK, SinceRead
<1>3. BellTypes'
  BY <1>1, <1>2
     DEF BellInv, BellTypes, RoomInv, Room!TypeOK, Room!WellFormed, NotNewer
<1>4. ReadingIsAhead'
  BY <1>1, <1>2 DEF BellInv, ReadingIsAhead, ReadFrom
<1>5. RungIsOver'
  BY <1>1, <1>2 DEF BellInv, RungIsOver
<1>6. UndisturbedIsRead'
  BY <1>1 DEF BellInv, UndisturbedIsRead
<1> QED BY <1>1, <1>3, <1>4, <1>5, <1>6 DEF BellInv

\* A reading of the timer s by the offset e: if it finds time left the end is
\* awaited and ahead.
LEMMA ReadAnew ==
  ASSUME OffsetsAreClose, BellInv, NEW s \in Room!TimerState, Room!FieldsMatchStatus(s),
         NEW e \in Errors, Bell!Await(s, e)
  PROVE  /\ Bell!Reading(s, e) \in Nat
         /\ awaited \subseteq awaited'
         /\ s.status = "running" /\ Bell!Reading(s, e) > 0 =>
              /\ s.endsAtServerMs \in awaited' /\ s.endsAtServerMs \in Int
              /\ now + e < s.endsAtServerMs
<1>1. e \in Int /\ now \in Nat
  BY DEF OffsetsAreClose, BellInv, BellTypes, RoomInv, Room!TypeOK
<1>2. /\ Bell!Reading(s, e) \in Nat
      /\ s.status = "running" =>
           /\ s.endsAtServerMs \in Int
           /\ Bell!Reading(s, e) > 0 <=> now + e < s.endsAtServerMs
  BY <1>1, ReadingOf
<1>3. awaited' = IF s.status = "running" /\ Bell!Reading(s, e) > 0
                 THEN awaited \cup {s.endsAtServerMs} ELSE awaited
  BY DEF Bell!Await
<1> QED BY <1>2, <1>3

LEMMA ReceivedHolds ==
  ASSUME OffsetsAreClose, BellInv, Bell!StateReceived
  PROVE  BellInv'
<1>1. /\ seen' = timer /\ disturbed' = TRUE
      /\ UNCHANGED <<timer, now, kind, err, baseline, lastRing, due, ahead, rung, repeated, missed>>
  BY DEF Bell!StateReceived
<1>2. /\ RoomInv /\ timer \in Room!TimerState /\ Room!FieldsMatchStatus(timer)
      /\ timer # NULL /\ timer.version \in Nat /\ err \in Errors
  BY StoreRing, SameTimer
     DEF BellInv, BellTypes, RoomInv, Room!TypeOK, Room!WellFormed,
     Room!TimerState
<1>3. NotNewer(timer, timer) /\ NotNewer(baseline, timer)
  <2>1. NotNewer(baseline, seen) /\ NotNewer(seen, timer)
    BY DEF BellInv, BellTypes
  <2>2. baseline # NULL => baseline.version \in Nat /\ seen.version \in Nat
    BY <2>1 DEF BellInv, BellTypes, Sent, Room!TimerState, NotNewer
  <2> QED BY <1>2, <2>1, <2>2 DEF NotNewer
<1>4. /\ prev' \in Nat /\ awaited \subseteq awaited'
      /\ ReadingIsAhead'
  <2>1. CASE kind = "overlay"
    <3>1. prev' = Bell!Reading(timer, err) /\ Bell!Await(timer, err)
      BY <2>1 DEF Bell!StateReceived
    <3>2. /\ prev' \in Nat /\ awaited \subseteq awaited'
          /\ timer.status = "running" /\ prev' > 0 =>
               /\ timer.endsAtServerMs \in awaited' /\ timer.endsAtServerMs \in Int
               /\ now + err < timer.endsAtServerMs
      BY <1>2, <3>1, ReadAnew
    <3>3. timer.status = "running" /\ prev' > 0 => now - SinceRead' + err < timer.endsAtServerMs
      BY <1>2, <3>2 DEF SinceRead, RoomInv, Room!TypeOK, OffsetsAreClose
    <3>4. ReadFrom' = timer
      BY <1>1, <2>1 DEF ReadFrom
    <3> QED BY <1>1, <1>2, <3>2, <3>3, <3>4 DEF ReadingIsAhead
  <2>2. CASE kind # "overlay"
    <3>1. prev' = prev /\ awaited' = awaited
      BY <2>2 DEF Bell!StateReceived
    <3> QED
      BY <1>1, <2>2, <3>1 DEF BellInv, BellTypes, ReadingIsAhead, ReadFrom, SinceRead
  <2> QED BY <2>1, <2>2
<1>5. BellTypes'
  BY <1>1, <1>2, <1>3, <1>4
     DEF BellInv, BellTypes, Sent, RoomInv, Room!TypeOK, Room!WellFormed,
     NotNewer
<1>6. RungIsOver' /\ UndisturbedIsRead'
  BY <1>1, <1>4 DEF BellInv, RungIsOver, UndisturbedIsRead
<1> QED BY <1>1, <1>4, <1>5, <1>6 DEF BellInv

LEMMA OffsetHolds ==
  ASSUME OffsetsAreClose, BellInv, Bell!OffsetMoves
  PROVE  BellInv'
<1>1. /\ err' \in Errors
      /\ UNCHANGED <<timer, now, kind, seen, baseline, lastRing, due, ahead, rung, repeated, missed>>
  BY BellErrors DEF Bell!OffsetMoves
<1>2. /\ prev' \in Nat /\ awaited \subseteq awaited'
      /\ ReadingIsAhead' /\ UndisturbedIsRead'
  <2>1. CASE kind = "overlay"
    <3>1. prev' = Bell!Reading(seen, err') /\ Bell!Await(seen, err') /\ disturbed' = TRUE
      BY <2>1 DEF Bell!OffsetMoves
    <3>2. seen \in Room!TimerState /\ Room!FieldsMatchStatus(seen)
      BY <2>1 DEF BellInv, BellTypes, Sent
    <3>3. /\ prev' \in Nat /\ awaited \subseteq awaited'
          /\ seen.status = "running" /\ prev' > 0 =>
               /\ seen.endsAtServerMs \in awaited' /\ seen.endsAtServerMs \in Int
               /\ now + err' < seen.endsAtServerMs
      BY <1>1, <3>1, <3>2, ReadAnew
    <3>4. seen.status = "running" /\ prev' > 0 => now - SinceRead' + err' < seen.endsAtServerMs
      BY <1>1, <3>3
         DEF SinceRead, BellInv, BellTypes, RoomInv, Room!TypeOK, OffsetsAreClose
    <3>5. ReadFrom' = seen
      BY <1>1, <2>1 DEF ReadFrom
    <3>6. UndisturbedIsRead'
      BY <3>1 DEF UndisturbedIsRead
    <3> QED BY <1>1, <3>3, <3>4, <3>5, <3>6 DEF ReadingIsAhead
  <2>2. CASE kind # "overlay"
    <3>1. prev' = prev /\ awaited' = awaited /\ disturbed' = disturbed
      BY <2>2 DEF Bell!OffsetMoves
    <3> QED BY <1>1, <2>2, <3>1
        DEF BellInv, BellTypes, ReadingIsAhead, ReadFrom, SinceRead, UndisturbedIsRead
  <2> QED BY <2>1, <2>2
<1>3. BellTypes'
  BY <1>1, <1>2
     DEF BellInv, BellTypes, RoomInv, Room!TypeOK, Room!WellFormed, NotNewer
<1>4. RungIsOver'
  BY <1>1, <1>2 DEF BellInv, RungIsOver
<1> QED BY <1>1, <1>2, <1>3, <1>4 DEF BellInv

LEMMA ReadNothingHolds ==
  ASSUME BellInv, Bell!ReadNothing
  PROVE  BellInv'
<1>1. /\ seen = NULL /\ due' = FALSE
      /\ UNCHANGED <<timer, now, kind, seen, err, prev, baseline, lastRing>>
      /\ UNCHANGED <<ahead, disturbed, awaited, rung, repeated, missed>>
  BY DEF Bell!ReadNothing, Bell!historyVars
<1>2. baseline = NULL /\ kind # "overlay"
  BY <1>1 DEF BellInv, BellTypes, NotNewer
<1>3. BellTypes'
  BY <1>1 DEF BellInv, BellTypes, RoomInv, Room!TypeOK, Room!WellFormed, NotNewer
<1>4. ReadingIsAhead' /\ RungIsOver' /\ UndisturbedIsRead'
  BY <1>1, <1>2 DEF BellInv, ReadingIsAhead, ReadFrom, RungIsOver, UndisturbedIsRead
<1> QED BY <1>1, <1>3, <1>4 DEF BellInv

\* One turn of the interval.
LEMMA ReadHolds ==
  ASSUME OffsetsAreClose, BellInv, Bell!Read
  PROVE  BellInv'
<1> DEFINE remaining == Bell!Reading(seen, err)
           end == seen.endsAtServerMs
           previous == Bell!Baseline(prev, remaining)
           fires == Bell!ShouldFireAlarm(seen, remaining, previous)
<1>1. /\ due' = FALSE /\ prev' = remaining /\ disturbed' = FALSE
      /\ baseline' = IF kind = "page" THEN seen ELSE baseline
      /\ Bell!Await(seen, err)
      /\ UNCHANGED <<timer, now, kind, seen, err>>
      /\ due /\ seen # NULL
  BY DEF Bell!Read
<1>2. /\ lastRing' = IF fires THEN now ELSE lastRing
      /\ rung' = IF fires THEN rung \cup {end} ELSE rung
  BY DEF Bell!Read
<1>3. ahead' = IF seen.status = "running" /\ remaining > 0 THEN end ELSE NULL
  BY DEF Bell!Read
<1>4. repeated' = (repeated \/ (fires /\ end \in rung))
  BY DEF Bell!Read
<1>5. missed' = \/ missed
                \/ /\ ahead = end /\ seen.status = "running" /\ remaining = 0
                   /\ ~fires /\ enabled /\ ~disturbed /\ ~Bell!Suppressed
  BY DEF Bell!Read
<1>6. /\ fires <=> /\ enabled /\ seen.status = "running" /\ remaining <= 0
                   /\ previous > 0 /\ ~Bell!Suppressed
      /\ previous = IF kind = "page" /\ ~Bell!SameSession(seen, baseline) THEN remaining ELSE prev
  BY DEF Bell!ShouldFireAlarm, Bell!Baseline
<1>7. /\ seen \in Room!TimerState /\ Room!FieldsMatchStatus(seen) /\ seen.version \in Nat
      /\ err \in Errors /\ err \in Int /\ now \in Nat /\ prev \in Nat
      /\ Sent(baseline) /\ NotNewer(baseline, seen) /\ NotNewer(seen, timer)
      /\ kind \in {"overlay", "page"} /\ lastRing \in Nat \cup {NULL}
  BY <1>1 DEF BellInv, BellTypes, Sent, OffsetsAreClose, RoomInv, Room!TypeOK,
     Room!TimerState
<1>8. /\ remaining \in Nat /\ awaited \subseteq awaited'
      /\ seen.status = "running" =>
           /\ end \in Int /\ (remaining > 0 <=> now + err < end)
      /\ seen.status = "running" /\ remaining > 0 => end \in awaited' /\ now + err < end
  <2>1. /\ Bell!Reading(seen, err) \in Nat
        /\ awaited \subseteq awaited'
        /\ seen.status = "running" /\ Bell!Reading(seen, err) > 0 =>
             seen.endsAtServerMs \in awaited' /\ now + err < seen.endsAtServerMs
    BY <1>1, <1>7, ReadAnew
  <2>2. seen.status = "running" =>
          /\ seen.endsAtServerMs \in Int
          /\ Bell!Reading(seen, err) > 0 <=> now + err < seen.endsAtServerMs
    BY <1>7, ReadingOf
  <2> QED BY <2>1, <2>2
<1> HIDE DEF remaining, previous, fires
\* The alarm compares with a reading of the same timer.
<1>9. fires => /\ end \in Int /\ end \in awaited /\ now + err >= end
               /\ \E f \in Errors : now - 1 + f < end
  <2> SUFFICES ASSUME fires PROVE /\ end \in Int /\ end \in awaited /\ now + err >= end
                                  /\ \E f \in Errors : now - 1 + f < end
    OBVIOUS
  <2>1. seen.status = "running" /\ remaining = 0 /\ previous > 0
    BY <1>6, <1>8
  <2>2. prev > 0 /\ (kind = "page" => Bell!SameSession(seen, baseline))
    BY <1>6, <2>1
  <2>3. kind = "page" => baseline = seen
    <3> SUFFICES ASSUME kind = "page" PROVE baseline = seen
      OBVIOUS
    <3>1. baseline # NULL /\ baseline.version = seen.version
      BY <2>2 DEF Bell!SameSession
    <3> QED BY <1>7, <3>1 DEF NotNewer
  <2>4. ReadFrom = seen
    BY <1>7, <2>3 DEF ReadFrom
  <2>5. end \in awaited /\ \E f \in Errors : now - SinceRead + f < end
    BY <1>1, <2>1, <2>2, <2>4 DEF BellInv, ReadingIsAhead
  <2>6. SinceRead = 1
    BY <1>1 DEF SinceRead
  <2> QED BY <1>7, <1>8, <2>1, <2>5, <2>6
<1>10. ~repeated'
  <2> SUFFICES ASSUME fires PROVE end \notin rung
    BY <1>4 DEF BellInv
  <2>1. PICK f \in Errors : now - 1 + f < end
    BY <1>9
  <2>2. ~(lastRing # NULL /\ now - lastRing < Quiet)
    BY <1>6 DEF Bell!Suppressed
  <2>3. lastRing # NULL => now - lastRing >= Quiet
    BY <1>7, <2>2, QuietAssumption
  <2> QED BY <1>9, <2>1, <2>3, RingsAnew
\* Undisturbed, it compares with the reading that was ahead of the same end.
<1>11. ~missed'
  <2> SUFFICES ASSUME ahead = end, seen.status = "running", remaining = 0,
                      enabled, ~disturbed, ~Bell!Suppressed
               PROVE  fires
    BY <1>5 DEF BellInv
  <2>1. ahead # NULL
    BY <1>8, NullAssumption
  <2>2. prev > 0 /\ (kind = "page" => baseline = seen)
    BY <2>1 DEF BellInv, UndisturbedIsRead
  <2>3. previous = prev
    BY <1>1, <1>6, <2>2 DEF Bell!SameSession
  <2>4. remaining <= 0 /\ previous > 0
    BY <2>2, <2>3
  <2> QED BY <1>6, <2>4
<1>12. RungIsOver'
  <2>1. CASE fires
    <3>1. lastRing' = now /\ rung' = rung \cup {end}
      BY <1>2, <2>1
    <3>2. end \in Int /\ end \in awaited' /\ end <= now + err
      BY <1>7, <1>8, <1>9, <2>1
    <3>3. ASSUME NEW other \in rung
          PROVE  other \in Int /\ other \in awaited' /\ \E e \in Errors : other <= now + e
      <4>1. PICK e \in Errors : other \in Int /\ other \in awaited /\ other <= lastRing + e
        BY DEF BellInv, RungIsOver
      <4>2. lastRing \in 0..now
        BY DEF BellInv, RungIsOver
      <4>3. e \in Int
        BY DEF OffsetsAreClose
      <4>4. other <= now + e
        BY <1>7, <4>1, <4>2, <4>3
      <4> QED BY <1>8, <4>1, <4>4
    <3> QED BY <1>1, <1>7, <3>1, <3>2, <3>3 DEF RungIsOver
  <2>2. CASE ~fires
    BY <1>1, <1>2, <1>8, <2>2 DEF BellInv, RungIsOver
  <2> QED BY <2>1, <2>2
<1>13. ReadingIsAhead'
  <2>1. ReadFrom' = seen
    BY <1>1, <1>7 DEF ReadFrom
  <2>2. seen.status = "running" /\ remaining > 0 => now - SinceRead' + err < end
    BY <1>1, <1>7, <1>8 DEF SinceRead
  <2> QED BY <1>1, <1>7, <1>8, <2>1, <2>2 DEF ReadingIsAhead
<1>14. UndisturbedIsRead'
  BY <1>1, <1>3, <1>8 DEF UndisturbedIsRead
<1>15. BellTypes'
  <2>1. lastRing' \in Nat \cup {NULL}
    BY <1>2, <1>7
  <2>2. NotNewer(seen, seen)
    BY <1>1, <1>7 DEF NotNewer
  <2> QED BY <1>1, <1>7, <1>8, <2>1, <2>2
      DEF BellInv, BellTypes, RoomInv, Room!TypeOK, Room!WellFormed, NotNewer, Sent
<1> QED BY <1>10, <1>11, <1>12, <1>13, <1>14, <1>15 DEF BellInv

LEMMA BellStep ==
  ASSUME OffsetsAreClose, BellInv, [Bell!Next]_Bell!vars
  PROVE  BellInv'
<1>1. CASE UNCHANGED Bell!vars
  <2>1. UNCHANGED <<timer, now>> /\ UNCHANGED <<kind, seen, err, prev, baseline, lastRing, due>>
        /\ UNCHANGED <<ahead, disturbed, awaited, rung, repeated, missed>>
    BY <1>1 DEF Bell!vars, Bell!roomVars, Bell!historyVars
  <2>2. RoomInv' /\ NotNewer(seen, timer)'
    BY <2>1 DEF BellInv, BellTypes, RoomInv, Room!TypeOK, Room!WellFormed, NotNewer
  <2> QED BY <2>1, <2>2, BellQuiet
<1> QED BY <1>1, ServerHolds, ClockHolds, ReceivedHolds, OffsetHolds, ToggleHolds,
        ReadNothingHolds, ReadHolds DEF Bell!Next

LEMMA BellInductive ==
  Bell!Spec => []BellInv
<1>1. BellInv /\ [Bell!Next]_Bell!vars => BellInv'
  BY BellStep, ErrorsAreClose
<1> QED BY BellInit, <1>1, PTL DEF Bell!Spec

\* Whatever frames, offsets and readings interleave: a client rings only for an
\* end it read a time before (alarmBaselineKey).
THEOREM AlarmWasAwaited ==
  Bell!Spec => []RingsOnlyWhatItAwaited
<1>1. BellInv => RingsOnlyWhatItAwaited
  BY DEF BellInv, RungIsOver, RingsOnlyWhatItAwaited
<1> QED BY <1>1, BellInductive, PTL

\* It rings once for an end, on whatever timers the end is.
THEOREM AlarmRingsOnce ==
  Bell!Spec => []RingsOnce
<1>1. BellInv => RingsOnce
  BY DEF BellInv, RingsOnce
<1> QED BY <1>1, BellInductive, PTL

\* And it does ring, undisturbed, for an end it was counting down to.
THEOREM AlarmNotMissed ==
  Bell!Spec => []NotMissed
<1>1. BellInv => NotMissed
  BY DEF BellInv, NotMissed
<1> QED BY <1>1, BellInductive, PTL

\* Whatever window of samples its offset is the median of is a sound one.
THEOREM OffsetAlwaysSound ==
  Bell!Spec => []OffsetIsSound
<1>1. Bell!Init => err \in Errors
  BY BellErrors DEF Bell!Init
<1>2. err \in Errors /\ [Bell!Next]_Bell!vars => (err \in Errors)'
  BY BellErrors DEF Bell!Next, Bell!vars, Bell!ServerCommand, Bell!Clock, Bell!StateReceived,
         Bell!OffsetMoves, Bell!ToggleAlarm, Bell!ReadNothing, Bell!Read
<1>3. err \in Errors => OffsetIsSound
  BY ErrorsAreSound DEF OffsetIsSound
<1> QED BY <1>1, <1>2, <1>3, PTL DEF Bell!Spec
============================================================================
