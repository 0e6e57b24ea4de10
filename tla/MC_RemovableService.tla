------------------------ MODULE MC_RemovableService ------------------------
(* Instances of RemovableService for TLC. *)
EXTENDS RemovableService

CONSTANTS h, c1, c2  \* descriptors of a socket and two others

(* The descriptors that are not enrolled are interchangeable. *)
ConnectionSymmetry == Permutations({c1, c2})
=============================================================================
