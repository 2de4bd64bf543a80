----------------------------- MODULE DeviceBinding -----------------------------
(***************************************************************************)
(* What EliteAuth promises about devices, without requests, sessions or     *)
(* tables: a license is bound to one device at a time, only an approved     *)
(* reset releases it, and only a device it was bound to is entitled to      *)
(* sessions.                                                                *)
(***************************************************************************)
EXTENDS Naturals, FiniteSets

CONSTANTS Licenses, Devices, None

VARIABLES
  bound,      \* bound[l]: the device l is bound to, or None
  resets,     \* resets[l]: approved resets of l
  entitled,   \* entitled[l]: devices that have, or may still open, a session
  deleted     \* licenses that are gone

vars == <<bound, resets, entitled, deleted>>

Init ==
  /\ bound = [l \in Licenses |-> None]
  /\ resets = [l \in Licenses |-> 0]
  /\ entitled = [l \in Licenses |-> {}]
  /\ deleted = {}

(* The first activation since the license was created or released.          *)
Bind(l, d) ==
  /\ l \notin deleted /\ bound[l] = None
  /\ bound' = [bound EXCEPT ![l] = d]
  /\ entitled' = [entitled EXCEPT ![l] = @ \cup {d}]
  /\ UNCHANGED <<resets, deleted>>

(* An approved reset.  A device with no session under way loses its title.  *)
Release(l) ==
  /\ l \notin deleted
  /\ bound' = [bound EXCEPT ![l] = None]
  /\ resets' = [resets EXCEPT ![l] = @ + 1]
  /\ \E E \in SUBSET entitled[l] : entitled' = [entitled EXCEPT ![l] = E]
  /\ UNCHANGED deleted

(* A request of a device that is no longer bound gives up.                  *)
Forget(l) ==
  /\ \E E \in SUBSET entitled[l] :
       /\ l \in deleted \/ bound[l] \in E \cup {None}
       /\ entitled' = [entitled EXCEPT ![l] = E]
  /\ UNCHANGED <<bound, resets, deleted>>

(* An application is deleted with its licenses.                             *)
Delete(gone) ==
  /\ bound' = [l \in Licenses |-> IF l \in gone THEN None ELSE bound[l]]
  /\ resets' = [l \in Licenses |-> IF l \in gone THEN 0 ELSE resets[l]]
  /\ \A l \in Licenses \ gone : entitled'[l] = entitled[l]
  /\ \A l \in gone : entitled'[l] \subseteq entitled[l]
  /\ DOMAIN entitled' = Licenses
  /\ deleted' = deleted \cup gone

Next ==
  \/ \E l \in Licenses, d \in Devices : Bind(l, d)
  \/ \E l \in Licenses : Release(l) \/ Forget(l)
  \/ \E gone \in SUBSET Licenses : Delete(gone)

Spec == Init /\ [][Next]_vars

-----------------------------------------------------------------------------
(* Every entitled device but the bound one cost a reset.                    *)
EntitledBounded ==
  \A l \in Licenses \ deleted :
    Cardinality(entitled[l]) <= resets[l] + (IF bound[l] = None THEN 0 ELSE 1)
=============================================================================
