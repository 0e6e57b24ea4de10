--------------------------- MODULE MC_HttpServer ---------------------------
(* Instances of HttpServer for TLC. *)
EXTENDS HttpServer

CONSTANTS h, c, o  \* descriptors of the socket and of two connections
=============================================================================
