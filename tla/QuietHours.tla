----------------------------- MODULE QuietHours -----------------------------
(***************************************************************************)
(* Quiet hours: the evaluator the dispatcher uses                          *)
(* (server/src/notify/quiet-hours.ts), the one of the judges' pages        *)
(* (spa/src/lib/quietHours.ts), and what both are meant to say: a set of   *)
(* windows, each of which belongs to the day it starts on.                 *)
(*                                                                         *)
(* A moment is a weekday and a minute of that day, in the judge's own time *)
(* zone; the conversion to it is the Intl library's.                       *)
(***************************************************************************)
EXTENDS Integers

CONSTANTS Days,       \* days of a week: 7
          Minutes,    \* minutes of a day: 24 * 60
          None        \* null

ASSUME CalendarAssumption == Days \in Nat \ {0} /\ Minutes \in Nat \ {0}

Weekdays == 0..(Days - 1)
MinutesOfDay == 0..(Minutes - 1)

QuietSpec == [start : MinutesOfDay \cup {None}, end : MinutesOfDay \cup {None},
              weekdays : SUBSET Weekdays]

Yesterday(weekday) == (weekday + Days - 1) % Days

\* Seeded fault: the morning of an overnight window is judged by its own day.
InQuietHoursToday(spec, weekday, minute) ==
  /\ None \notin {spec.start, spec.end}
  /\ weekday \in spec.weekdays
  /\ IF spec.start <= spec.end
     THEN spec.start <= minute /\ minute < spec.end
     ELSE spec.start <= minute \/ minute < spec.end

\* isInQuietHours of the server.
InQuietHours(spec, weekday, minute) ==
  /\ None \notin {spec.start, spec.end}
  /\ IF spec.start <= spec.end
     THEN weekday \in spec.weekdays /\ spec.start <= minute /\ minute < spec.end
     ELSE \/ weekday \in spec.weekdays /\ spec.start <= minute
          \/ Yesterday(weekday) \in spec.weekdays /\ minute < spec.end

\* isInQuietHours of the judges' pages.
PageInQuietHours(spec, weekday, minute) ==
  /\ None \notin {spec.start, spec.end}
  /\ spec.weekdays # {}
  /\ IF spec.end >= spec.start
     THEN weekday \in spec.weekdays /\ minute >= spec.start /\ minute < spec.end
     ELSE IF minute >= spec.start
          THEN weekday \in spec.weekdays
          ELSE minute < spec.end /\ Yesterday(weekday) \in spec.weekdays

\* The reference: the minutes of the week covered by a window that starts on a
\* chosen day and lasts until the end time comes round.
QuietMinutes(spec) ==
  IF None \in {spec.start, spec.end} THEN {}
  ELSE LET length == (spec.end - spec.start + Minutes) % Minutes
       IN {(day * Minutes + spec.start + k) % (Days * Minutes) :
              day \in spec.weekdays, k \in 0..(length - 1)}
=============================================================================
