----------------------------- MODULE MCEliteAuth -----------------------------
(* Instances of EliteAuth for TLC.  Activations, checks, links and devices  *)
(* are interchangeable.                                                     *)
EXTENDS EliteAuth, TLC

CONSTANTS a1, a2, l1, l2, v1

Symmetry == Permutations(Activations) \cup Permutations(Checks)
            \cup Permutations(Links) \cup Permutations(Devices)

AllOfA1 == [l \in Licenses |-> a1]
OneEach == [l \in Licenses |-> IF l = l1 THEN a1 ELSE a2]
OneVersion == [a \in Apps |-> v1]
NoVersion == [a \in Apps |-> None]
Timed == [l \in Licenses |-> 2]
Lifetime == [l \in Licenses |-> 0]
=============================================================================
