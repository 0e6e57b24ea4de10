------------------------ MODULE MC_RequestProcessor ------------------------
(* Instances of RequestProcessor for TLC: the constants are numbers, given *)
(* by the configurations.                                                  *)
EXTENDS RequestProcessor
=============================================================================
