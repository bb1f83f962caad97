---------------------------- MODULE MCPlacement ----------------------------
(* Two of the four corners, two of the three text sizes. *)
EXTENDS Placement

TwoCorners == {"topLeft", "bottomRight"}
TwoSizes == {"medium", "large"}
=============================================================================
