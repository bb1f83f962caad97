--------------------------- MODULE PlacementState ---------------------------
(***************************************************************************)
(* The corner of the overlay window, as its threads share it, and where it   *)
(* has to be when they are done.  Placement has the steps.                   *)
(***************************************************************************)
EXTENDS Naturals

CONSTANT Nothing   \* what a free thread does

VARIABLES
    corner,    \* CurrentCorner
    saved,     \* prefs.position.corner
    at,        \* where the window is: for which corner, monitors and insets
    doing,     \* what each thread is doing
    left,      \* startup reassertions to come
    stale      \* history: what the last placement went by was out of date when it
               \* moved the window, or it gave up with the window elsewhere

IsFree(t) == doing[t].do = Nothing

(* Between two events of the main thread the corner the contestant chose     *)
(* last is the saved one and CurrentCorner; and once the startup             *)
(* reassertions are done the window stands in it, although two more threads  *)
(* place it with a corner they read earlier -- unless one of those moved it  *)
(* after the corner it had read was replaced.  CurrentCorner, "so            *)
(* multi-monitor / DPI-change events re-pin to the user's latest choice".    *)
CornerAgrees ==
    IsFree("menu") =>
        /\ corner = saved
        /\ left = 0 /\ IsFree("start") /\ ~stale => at.corner = corner
=============================================================================
