------------------------------- MODULE Alarm --------------------------------
(***************************************************************************)
(* The alarm at the end of the timer (shared/src/alarm.ts), as the overlay *)
(* (desktop/src/Overlay.tsx) and the judges' pages (spa/src/lib/           *)
(* endTimerAlarm.ts) run it, beside the room's timer and the clock.        *)
(*                                                                         *)
(* A client reads the remaining time four times a second and rings when it *)
(* reaches zero; between two readings the timer it shows, its clock offset *)
(* and the overlay's preferences may change.  The clock steps only after a *)
(* reading: computers that sleep are left out.  Frames are received at any *)
(* later time or never; of several in a row only the last is read.  The    *)
(* first PONG has come: the zero offset a client starts with, which is off *)
(* by the whole skew, is left out, and so is setting a clock.              *)
(***************************************************************************)
EXTENDS RoomTimer, AlarmState

VARIABLES
  kind,         \* "overlay" or "page"
  seen,         \* the timer the client shows; a page has none at first
  enabled,      \* the overlay's alarm preference
  prev,         \* prevRemRef
  baseline,     \* of the page: the timer of its last reading
  lastRing,     \* lastAlarmRef
  due,          \* the clock has stepped and the client has not read it
  ahead,        \* history: the end before which the last turn read a time
  disturbed     \* history: since then a frame came, or the overlay's offset moved

Room == INSTANCE TimerRoom

historyVars == <<ahead, disturbed, awaited, rung, repeated, missed>>
vars == <<roomVars, kind, seen, err, enabled, prev, baseline, lastRing, due,
          historyVars>>

TypeOK ==
  /\ Room!TypeOK
  /\ kind \in {"overlay", "page"}
  /\ seen \in TimerState \cup {NULL} /\ baseline \in TimerState \cup {NULL}
  /\ err \in Errors /\ enabled \in BOOLEAN
  /\ prev \in Nat /\ lastRing \in Nat \cup {NULL}
  /\ {due, disturbed, repeated, missed} \subseteq BOOLEAN
  /\ ahead \in Int \cup {NULL} /\ awaited \subseteq Int /\ rung \subseteq Int

Init ==
  /\ Room!Init
  /\ kind \in {"overlay", "page"}
  /\ seen = IF kind = "overlay" THEN InitialTimerState ELSE NULL
  /\ err \in Errors
  /\ enabled = TRUE
  /\ prev = 0 /\ baseline = NULL /\ lastRing = NULL
  /\ due = FALSE
  /\ ahead = NULL /\ disturbed = FALSE /\ awaited = {} /\ rung = {} /\ repeated = FALSE /\ missed = FALSE

Reading(s, e) == ComputeRemainingMs(s, now + e)

\* alarmBaselineKey leaves out the banner, but a new banner has a new version.
SameSession(s, t) == NULL \notin {s, t} /\ s.version = t.version

\* An end is awaited once the client has read a remaining time before it.
Await(s, e) ==
  awaited' = IF s.status = "running" /\ Reading(s, e) > 0
             THEN awaited \cup {s.endsAtServerMs} ELSE awaited
----------------------------------------------------------------------------
ServerCommand ==
  /\ \/ Room!TimerSet \/ Room!TimerPause \/ Room!TimerResume
     \/ Room!TimerAdjust \/ Room!TimerReset \/ Room!MessageSet
  /\ UNCHANGED <<kind, seen, err, enabled, prev, baseline, lastRing, due, historyVars>>

Clock ==
  /\ ~due
  /\ due' = TRUE
  /\ Room!Tick
  /\ UNCHANGED <<kind, seen, err, enabled, prev, baseline, lastRing, historyVars>>

\* Seeded fault: the overlay keeps the previous reading of another timer.
StateReceivedKept ==
  /\ seen # timer
  /\ seen' = timer
  /\ UNCHANGED <<timer, now, kind, err, enabled, prev, baseline, lastRing, due, historyVars>>

\* A STATE frame: the overlay's effect reads the remaining time of a new session
\* at once, the page's at its next reading.
StateReceived ==
  /\ seen # timer
  /\ seen' = timer
  /\ IF kind = "overlay"
     THEN prev' = Reading(timer, err) /\ Await(timer, err)
     ELSE UNCHANGED <<prev, awaited>>
  /\ disturbed' = TRUE
  /\ UNCHANGED <<timer, now, kind, err, enabled, baseline, lastRing, due, ahead,
                 rung, repeated, missed>>

\* A PONG that moves the active offset; the overlay reads anew, the page does not.
OffsetMoves ==
  /\ \E e \in Errors \ {err} :
       /\ err' = e
       /\ IF kind = "overlay"
          THEN prev' = Reading(seen, e) /\ disturbed' = TRUE /\ Await(seen, e)
          ELSE UNCHANGED <<prev, disturbed, awaited>>
  /\ UNCHANGED <<timer, now, kind, seen, enabled, baseline, lastRing, due, ahead,
                 rung, repeated, missed>>

\* The overlay's preference is changed from the tray.
ToggleAlarm ==
  /\ kind = "overlay"
  /\ enabled' = ~enabled
  /\ UNCHANGED <<timer, now, kind, seen, err, prev, baseline, lastRing, due, historyVars>>

\* The page has no timer yet: nothing is read.
ReadNothing ==
  /\ due /\ seen = NULL
  /\ due' = FALSE
  /\ UNCHANGED <<timer, now, kind, seen, err, enabled, prev, baseline, lastRing, historyVars>>

Suppressed == lastRing # NULL /\ now - lastRing < Quiet

\* Seeded fault: no thirty seconds.
ShouldFireAlarmAgain(s, remaining, previous) ==
  enabled /\ s.status = "running" /\ remaining <= 0 /\ previous > 0

ShouldFireAlarm(s, remaining, previous) ==
  enabled /\ s.status = "running" /\ remaining <= 0 /\ previous > 0 /\ ~Suppressed

\* Seeded fault: the page compares with the reading before the last.
BaselineAlways(previous, remaining) == remaining

\* The page's previous reading, which a new session begins anew.
Baseline(previous, remaining) ==
  IF kind = "page" /\ ~SameSession(seen, baseline) THEN remaining ELSE previous

\* One turn of the interval.
Read ==
  LET remaining == Reading(seen, err)
      end == seen.endsAtServerMs
      running == seen.status = "running"
      fires == ShouldFireAlarm(seen, remaining, Baseline(prev, remaining))
  IN /\ due /\ seen # NULL
     /\ due' = FALSE
     /\ prev' = remaining
     /\ baseline' = IF kind = "page" THEN seen ELSE baseline
     /\ lastRing' = IF fires THEN now ELSE lastRing
     /\ rung' = IF fires THEN rung \cup {end} ELSE rung
     /\ repeated' = (repeated \/ (fires /\ end \in rung))
     /\ ahead' = IF running /\ remaining > 0 THEN end ELSE NULL
     /\ missed' = \/ missed
                  \/ /\ ahead = end /\ running /\ remaining = 0
                     /\ ~fires /\ enabled /\ ~disturbed /\ ~Suppressed
     /\ Await(seen, err)
     /\ disturbed' = FALSE
     /\ UNCHANGED <<timer, now, kind, seen, err, enabled>>

Next == \/ ServerCommand \/ Clock \/ StateReceived \/ OffsetMoves \/ ToggleAlarm
        \/ ReadNothing \/ Read

Spec == Init /\ [][Next]_vars
============================================================================
