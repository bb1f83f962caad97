----------------------------- MODULE RoomTimer -----------------------------
(***************************************************************************)
(* The timer of one room beside the clock, and what every user of it may   *)
(* rely on: TimerRoom says how judges and time move the two, TimerStore    *)
(* keeps the timer in Postgres, Alarm rings when it ends.                  *)
(***************************************************************************)
EXTENDS Timer

CONSTANTS Durations,     \* durations of TIMER_SET
          Deltas,        \* corrections of TIMER_ADJUST
          MaxVersion,    \* bound: commands applied
          MaxNow         \* bound: instants

ASSUME RoomDurations == Durations \subseteq Nat
ASSUME RoomDeltas == Deltas \subseteq Int

VARIABLES timer,   \* RoomState.timer
          now      \* Date.now() of the server, in steps

roomVars == <<timer, now>>

\* An end time exists exactly while the timer runs and a remainder exactly
\* while it is paused (the comment on TimerState in section 6.5): no sequence
\* of commands leaves a stale endsAtServerMs or remainingMs behind.
WellFormed == FieldsMatchStatus(timer)

TimeLeft ==
  IF timer.status = "running" THEN timer.endsAtServerMs - now
  ELSE IF timer.status = "paused" THEN timer.remainingMs ELSE 0

Stopwatch == INSTANCE Countdown WITH mode <- timer.status, left <- TimeLeft

\* endsAtServerMs and remainingMs together behave as one stopwatch: however
\* the commands are interleaved with the clock, no time is lost or gained.
ImplementsCountdown == Stopwatch!Spec
============================================================================
