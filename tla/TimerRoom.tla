----------------------------- MODULE TimerRoom -----------------------------
(***************************************************************************)
(* The timer of one room while the server is up: judges' commands are      *)
(* applied one at a time (the TIMER_* and MESSAGE_SET branch of            *)
(* handleJudgeFrame in server/src/ws/judge.ts) while the clock runs.  A    *)
(* command the state machine refuses is answered with an ERROR frame and   *)
(* changes nothing, so it is no step here.                                 *)
(*                                                                         *)
(* Clients are sent endsAtServerMs once and subtract the time themselves;  *)
(* ImplementsCountdown says that this amounts to a running stopwatch.      *)
(***************************************************************************)
EXTENDS RoomTimer

TypeOK == timer \in TimerState /\ now \in Nat

Init == timer = InitialTimerState /\ now = 0

Command == timer.version < MaxVersion /\ now' = now

TimerSet ==
  /\ Command
  /\ \E d \in Durations, m \in Messages \cup {NULL} : timer' = SetTimer(timer, d, m, now)

TimerPause == Command /\ CanPause(timer) /\ timer' = PauseTimer(timer, now)

TimerResume == Command /\ CanResume(timer) /\ timer' = ResumeTimer(timer, now)

TimerAdjust ==
  /\ Command /\ CanAdjust(timer)
  /\ \E d \in Deltas : timer' = AdjustTimer(timer, d, now)

TimerReset == Command /\ timer' = ResetTimer(timer)

MessageSet == Command /\ \E m \in Messages : timer' = SetMessage(timer, m)

Tick == now < MaxNow /\ now' = now + 1 /\ timer' = timer

Next == \/ TimerSet \/ TimerPause \/ TimerResume \/ TimerAdjust \/ TimerReset
        \/ MessageSet \/ Tick

Spec == Init /\ [][Next]_roomVars
============================================================================
