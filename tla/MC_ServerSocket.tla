-------------------------- MODULE MC_ServerSocket --------------------------
(* Instances of ServerSocket for TLC. *)
EXTENDS ServerSocket
=============================================================================
