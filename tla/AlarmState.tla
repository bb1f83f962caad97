---------------------------- MODULE AlarmState ----------------------------
(***************************************************************************)
(* What a client makes of its clock and of the end of the timer, and what  *)
(* is promised of it.  Alarm has the steps.                                *)
(***************************************************************************)
EXTENDS TimeSync

CONSTANT Quiet   \* the thirty seconds in which it does not ring again

ASSUME QuietAssumption == Quiet \in Nat

\* No message takes the quiet time, thirty seconds, or longer.
ASSUME DelaysAreShort == \A d \in Delays : d < Quiet

VARIABLES
  err,          \* what the client adds to its clock, minus what it should add
  awaited,      \* history: ends before which the client ever read a time
  rung,         \* history: ends it rang for
  repeated,     \* history: it rang twice for one
  missed        \* history: it read zero for the end ahead and did not ring,
                \* undisturbed, enabled and not within Quiet of another ring

\* Whatever samples the client's offset is the median of, in whatever order, with
\* whatever skew of the clocks and from the first PONG of a connection on, they are
\* a sound window: slow replies are outvoted or trimmed (activeOffsetMs of
\* timesync.ts), and what error is left is half a round trip that was measured.
OffsetIsSound == err \in SoundErrors

\* A client rings only for an end it saw coming: not for a timer that had ended
\* when the client first heard of it, and not for the time left on another one,
\* however frames, offsets and readings interleave (alarmBaselineKey).
RingsOnlyWhatItAwaited == rung \subseteq awaited

\* It rings once for an end, although corrections of the offset take the reading
\* back and forth across zero (the specification's test plan: the alarm plays
\* exactly once).
RingsOnce == ~repeated

\* It does ring for an end it was counting down to, unless between its last two
\* readings a frame of a new version came or, on the overlay, the offset moved:
\* those set the previous reading to zero and the crossing goes unnoticed.
NotMissed == ~missed
===========================================================================
