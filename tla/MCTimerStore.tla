---------------------------- MODULE MCTimerStore ----------------------------
(* Instances of TimerStore: two commands, so that an upsert can overtake,  *)
(* fail and be retried around another, as many failing audit rows, and a   *)
(* ring of two: it overflows before, during and after a pass.              *)
EXTENDS TimerStore

MCMessages == {NoMessage}
MCDurations == {2}
MCDeltas == {-1}

\* What an earlier process left: a timer set to 2, then paused.
PausedTimer == PauseTimer(SetTimer(InitialTimerState, 2, NULL, 0), 0)
MCEarlierRows == {PausedTimer}

DegradedClears == Ring!DegradedClears
=============================================================================
