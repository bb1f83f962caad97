-------------------------- MODULE MCOffsetTracker --------------------------
(* Instance of OffsetTracker with the code's own window of eight and two.  *)
EXTENDS OffsetTracker

MCDelays == {0, 4, 8}
MCSkews == {0}
============================================================================
