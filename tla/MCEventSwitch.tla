--------------------------- MODULE MCEventSwitch ---------------------------
(* EventSwitch for model checking.                                          *)
EXTENDS EventSwitch, TLC

(* Connections are interchangeable, and so are topics. *)
EventSymmetry == Permutations(Conns) \cup Permutations(Topics)
=============================================================================
