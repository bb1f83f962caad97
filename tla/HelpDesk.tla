------------------------------ MODULE HelpDesk ------------------------------
(***************************************************************************)
(* What the help queue promises: contestants ask for help, and leave the   *)
(* queue by cancelling or when a judge who names the current version       *)
(* acknowledges them.  A refused operation is a stutter.                   *)
(***************************************************************************)
EXTENDS HelpEntries

VARIABLES desk,    \* the queue
          nreq     \* number of requests accepted so far

dvars == <<desk, nreq>>

Init == desk = InitialHelpQueue /\ nreq = 0

Request(c) ==
  /\ ~IsInQueue(desk, c) /\ nreq < MaxRequests
  /\ nreq' = nreq + 1
  /\ \E at \in Instants : desk' = HelpRequest(desk, c, at, nreq')

Leave(c) == desk' = HelpCancel(desk, c) /\ nreq' = nreq

Acknowledge(c) == desk' = HelpAck(desk, c, desk.version) /\ nreq' = nreq

Place(c, s) == desk' = StationFound(desk, c, s) /\ nreq' = nreq

Next == \E c \in Contestants :
          Request(c) \/ Leave(c) \/ Acknowledge(c) \/ \E s \in Stations : Place(c, s)

Spec == Init /\ [][Next]_dvars
============================================================================
