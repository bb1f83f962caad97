------------------------------ MODULE MCAlarm ------------------------------
(* Instance of Alarm: one client, an overlay or a page, offsets that are wrong
   by up to two steps, and timers short enough to end and be set again. *)
EXTENDS Alarm

MCMessages == {NoMessage}
MCDurations == {0, 3}
MCDeltas == {-3, 2}
MCDelays == {0, 4}
MCSkews == {0, 3}
============================================================================
