----------------------------- MODULE MCDesktop -----------------------------
(* One machine, two of the four corners. *)
EXTENDS Desktop

TwoCorners == {"topLeft", "bottomRight"}
(* An installation upgraded from an older version, left hidden in a corner. *)
UpgradedFile ==
    {[kind |-> "older", prefs |-> [hidden |-> TRUE, corner |-> "topLeft", loud |-> TRUE]]}
=============================================================================
