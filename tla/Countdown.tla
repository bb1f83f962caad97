----------------------------- MODULE Countdown -----------------------------
(***************************************************************************)
(* What the timer promises, with no absolute instants: a stopwatch that    *)
(* counts down while it runs.  `left' goes below zero when a running timer *)
(* overruns; pausing or adjusting brings it back to at least zero.         *)
(***************************************************************************)
EXTENDS Integers

CONSTANTS Durations,   \* durations a judge may set
          Deltas       \* corrections a judge may apply

VARIABLES mode,   \* "idle", "running" or "paused"
          left    \* time left; negative is overrun

cvars == <<mode, left>>

Floor(n) == IF n < 0 THEN 0 ELSE n

Init == mode = "idle" /\ left = 0

Set    == mode' = "running" /\ left' \in Durations
Pause  == mode = "running" /\ mode' = "paused" /\ left' = Floor(left)
Resume == mode = "paused" /\ mode' = "running" /\ left' = left
Adjust == /\ mode # "idle" /\ mode' = mode
          /\ \E d \in Deltas : left' = Floor(left + d)
Reset  == mode' = "idle" /\ left' = 0
Tick   == mode = "running" /\ mode' = mode /\ left' = left - 1

Next == Set \/ Pause \/ Resume \/ Adjust \/ Reset \/ Tick

Spec == Init /\ [][Next]_cvars
============================================================================
