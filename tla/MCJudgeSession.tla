--------------------------- MODULE MCJudgeSession ---------------------------
(* One page that moves between two rooms, and connections enough for a ghost
   and a leak beside the one in use. *)
EXTENDS JudgeSession

CONSTANTS p1, r1, r2, c1, c2, c3

OnePage == {p1}
TwoRooms == {r1, r2}
ThreeConns == {c1, c2, c3}
=============================================================================
