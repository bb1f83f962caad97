--------------------------- MODULE MCHelpProtocol ---------------------------
(* A small instance of HelpProtocol for TLC. *)
EXTENDS HelpProtocol
=============================================================================
