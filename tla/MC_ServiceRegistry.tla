------------------------- MODULE MC_ServiceRegistry -------------------------
(* Instances of ServiceRegistry for TLC. *)
EXTENDS ServiceRegistry

CONSTANTS h, a, s, c1, c2  \* descriptors of two sockets, a source, two others

(* The descriptors that are not enrolled are interchangeable. *)
ConnectionSymmetry == Permutations({c1, c2})
=============================================================================
