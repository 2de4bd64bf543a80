---------------------------- MODULE MCReplayGuard ----------------------------
(* Instances of ReplayGuard for TLC.  Copies of a request are               *)
(* interchangeable, and so are nonces.                                      *)
EXTENDS ReplayGuard, TLC

Symmetry == Permutations(Nonces) \cup Permutations(Deliveries)
=============================================================================
