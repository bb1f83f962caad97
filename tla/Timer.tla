------------------------------- MODULE Timer -------------------------------
(***************************************************************************)
(* The timer state machine of server/src/timer.ts: a TimerState record and *)
(* one operator per command of applyTimerCommand.  Every accepted command  *)
(* bumps the version.  `CanX' is the condition under which the code does   *)
(* not throw; `X' is the state it then returns.                            *)
(*                                                                         *)
(* Abstracted: the identity of the writer (setBySub, setByEmail,           *)
(* setAtServerMs), which no command reads, and the room id.  Instants and  *)
(* durations are integers (Date.now() and millisecond counts).             *)
(***************************************************************************)
EXTENDS Integers

CONSTANTS NULL,       \* the JavaScript null of an unset field
          Messages,   \* the banner messages judges use
          NoMessage   \* the empty banner

ASSUME NullAssumption == NULL \notin Int
ASSUME MessageAssumption == NoMessage \in Messages

Status == {"idle", "running", "paused"}

TimerState ==
  [ version        : Nat,
    status         : Status,
    endsAtServerMs : Int \cup {NULL},
    remainingMs    : Nat \cup {NULL},
    message        : Messages ]

\* "set iff status === 'running'" and "set iff status === 'paused'".
FieldsMatchStatus(s) ==
  /\ (s.endsAtServerMs # NULL) <=> (s.status = "running")
  /\ (s.remainingMs # NULL) <=> (s.status = "paused")

AtLeastZero(n) == IF n < 0 THEN 0 ELSE n
Later(a, b) == IF a < b THEN b ELSE a

InitialTimerState ==
  [ version        |-> 0,
    status         |-> "idle",
    endsAtServerMs |-> NULL,
    remainingMs    |-> NULL,
    message        |-> NoMessage ]

\* `base' of applyTimerCommand with the fields that every case but MESSAGE_SET
\* overrides.
Moved(s, status, endsAt, remaining) ==
  [ version        |-> s.version + 1,
    status         |-> status,
    endsAtServerMs |-> endsAt,
    remainingMs    |-> remaining,
    message        |-> s.message ]

Running(s, endsAt) == Moved(s, "running", endsAt, NULL)
Paused(s, remaining) == Moved(s, "paused", NULL, remaining)

\* TIMER_SET carries an optional message; NULL keeps the current one.
SetTimer(s, durationMs, message, now) ==
  [Running(s, now + durationMs) EXCEPT !.message = IF message = NULL THEN @ ELSE message]

CanPause(s) == s.status = "running"
PauseTimer(s, now) == Paused(s, AtLeastZero(s.endsAtServerMs - now))

CanResume(s) == s.status = "paused"
ResumeTimer(s, now) == Running(s, now + s.remainingMs)

\* Seeded fault: no Math.max for a running timer.
AdjustTimerUnclamped(s, deltaMs, now) ==
  IF s.status = "running" THEN Running(s, s.endsAtServerMs + deltaMs)
  ELSE Paused(s, AtLeastZero(s.remainingMs + deltaMs))

CanAdjust(s) == s.status # "idle"
AdjustTimer(s, deltaMs, now) ==
  IF s.status = "running"
  THEN Running(s, Later(now, s.endsAtServerMs + deltaMs))
  ELSE Paused(s, AtLeastZero(s.remainingMs + deltaMs))

\* Seeded fault: TIMER_RESET leaves the old fields.
ResetTimerStatusOnly(s) == [s EXCEPT !.version = @ + 1, !.status = "idle"]

ResetTimer(s) == Moved(s, "idle", NULL, NULL)

SetMessage(s, message) == [s EXCEPT !.version = @ + 1, !.message = message]

\* shared/src/compute.ts: what every client shows at server time `now'.
ComputeRemainingMs(s, now) ==
  CASE s.status = "running" -> AtLeastZero(s.endsAtServerMs - now)
    [] s.status = "paused"  -> s.remainingMs
    [] OTHER                -> 0
============================================================================
