---------------------------- MODULE MCHelpQueue ----------------------------
(* Instance of HelpQueue: three contestants, so that a removal can happen  *)
(* in the middle; two instants, so that requests tie and the clock steps   *)
(* back; more requests than contestants, so that one returns.              *)
EXTENDS HelpQueue

CONSTANTS ann, bob, cyd

MCContestants == {ann, bob, cyd}
MCStations == {7}
MCInstants == {1, 2}
============================================================================
