--------------------------- MODULE MC_EchoSession ---------------------------
(* Instances of EchoSession for TLC. *)
EXTENDS EchoSession
=============================================================================
