----------------------------- MODULE MCHelpRoom -----------------------------
(* Instances of HelpRoom: three requests of three contestants, so that one *)
(* can leave from the middle, or return while two others wait.             *)
EXTENDS HelpRoom

CONSTANTS ann, bob, cyd, jim

TwoContestants == {ann, bob}
ThreeContestants == {ann, bob, cyd}
OneJudge == {jim}
NoStations == {}
OneInstant == {1}
============================================================================
