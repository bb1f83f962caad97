--------------------------- MODULE OffsetTracker ---------------------------
(***************************************************************************)
(* The window of a client's OffsetTracker over its connections: emptied    *)
(* when one opens, filled by the replies to the PINGs of the warm-up and   *)
(* then to one every thirty seconds.                                       *)
(***************************************************************************)
EXTENDS TimeSync

VARIABLE window

TypeOK == window \in Seq(UNION {Samples(skew) : skew \in Skews}) /\ Len(window) <= Capacity

Init == window = <<>>

\* onopen
Open == window # <<>> /\ window' = <<>>

\* A PONG; either computer's clock may have been set since the one before.
Pong == \E skew \in Skews : \E sample \in Samples(skew) : window' = Pushed(window, sample)

Next == Open \/ Pong

Spec == Init /\ [][Next]_window
----------------------------------------------------------------------------
\* "Until the window has filled, the plain median of what is available is
\* returned" (the comment on the class OffsetTracker).
PlainUntilFull ==
  0 < Len(window) /\ Len(window) < Capacity =>
    ActiveOffset(window) = Median(window, DOMAIN window)
============================================================================
