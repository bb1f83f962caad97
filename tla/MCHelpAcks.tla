----------------------------- MODULE MCHelpAcks -----------------------------
(* Instances of HelpAcks: one contestant, who can ask twice, and two       *)
(* judges who race for each request.                                       *)
EXTENDS HelpAcks

CONSTANTS ann, jim, kay

OneContestant == {ann}
TwoJudges == {jim, kay}
MCStations == {7}
NoStations == {}
MCInstants == {1}
============================================================================
