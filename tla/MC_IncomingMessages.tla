------------------------- MODULE MC_IncomingMessages -------------------------
(***************************************************************************)
(* Instances of IncomingMessages for TLC.                                  *)
(***************************************************************************)
EXTENDS IncomingMessages
=============================================================================
