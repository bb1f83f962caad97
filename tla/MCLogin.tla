------------------------------ MODULE MCLogin ------------------------------
(* Instance of Login: two windows of one browser that two judges use, with *)
(* times that leave room for a renewal and for an expiry.                  *)
EXTENDS Login, TLC

CONSTANTS w1, w2, Ada, Ben

TwoWindows == {w1, w2}
TwoAccounts == {Ada, Ben}

\* Nothing tells the windows apart, nor the accounts.
Exchanged == Permutations(TwoWindows) \cup Permutations(TwoAccounts)
============================================================================
