-------------------------- MODULE DeviceBindingProofs --------------------------
(***************************************************************************)
(* DeviceBinding never entitles more devices to a license than one for the  *)
(* present binding and one for each approved reset.                         *)
(***************************************************************************)
EXTENDS DeviceBinding, FiniteSetTheorems, TLAPS

(* EntitledBounded is inductive with the types: a release trades the bound  *)
(* device for a reset, and a bind adds one device to a license without one. *)
BindingInv ==
  /\ bound \in [Licenses -> Devices \cup {None}]
  /\ resets \in [Licenses -> Nat]
  /\ DOMAIN entitled = Licenses
  /\ \A l \in Licenses : IsFiniteSet(entitled[l])
  /\ EntitledBounded

(* Fewer devices than before are entitled, and finitely many.               *)
LEMMA SmallerSet ==
  ASSUME NEW S, IsFiniteSet(S), NEW E \in SUBSET S
  PROVE  /\ IsFiniteSet(E)
         /\ Cardinality(E) <= Cardinality(S)
         /\ Cardinality(E) \in Nat /\ Cardinality(S) \in Nat
  BY FS_Subset, FS_CardinalityType

(* A device joins them.                                                     *)
LEMMA OneMore ==
  ASSUME NEW S, IsFiniteSet(S), NEW d
  PROVE  /\ IsFiniteSet(S \cup {d})
         /\ Cardinality(S \cup {d}) <= Cardinality(S) + 1
         /\ Cardinality(S \cup {d}) \in Nat /\ Cardinality(S) \in Nat
<1>1. /\ IsFiniteSet(S \cup {d})
      /\ Cardinality(S \cup {d}) =
           IF d \in S THEN Cardinality(S) ELSE Cardinality(S) + 1
  BY FS_AddElement
<1>2. Cardinality(S \cup {d}) \in Nat /\ Cardinality(S) \in Nat
  BY <1>1, FS_CardinalityType
<1> QED
  BY <1>1, <1>2

LEMMA BindingInvInit == Init => BindingInv
<1> SUFFICES ASSUME Init PROVE BindingInv
  OBVIOUS
<1>1. IsFiniteSet({}) /\ Cardinality({}) = 0
  BY FS_EmptySet
<1> QED
  BY <1>1 DEF Init, BindingInv, EntitledBounded

LEMMA BindingInvNext ==
  ASSUME None \notin Devices, BindingInv, [Next]_vars PROVE BindingInv'
<1> USE DEF BindingInv, EntitledBounded
<1>1. ASSUME NEW l \in Licenses, NEW d \in Devices, Bind(l, d) PROVE BindingInv'
  <2>1. /\ IsFiniteSet(entitled[l] \cup {d})
        /\ Cardinality(entitled[l] \cup {d}) <= Cardinality(entitled[l]) + 1
        /\ Cardinality(entitled[l] \cup {d}) \in Nat
        /\ Cardinality(entitled[l]) \in Nat
    BY OneMore
  <2> QED
    BY <1>1, <2>1 DEF Bind
<1>2. ASSUME NEW l \in Licenses, Release(l) PROVE BindingInv'
  <2>1. PICK E \in SUBSET entitled[l] : entitled' = [entitled EXCEPT ![l] = E]
    BY <1>2 DEF Release
  <2>2. /\ IsFiniteSet(E) /\ Cardinality(E) <= Cardinality(entitled[l])
        /\ Cardinality(E) \in Nat /\ Cardinality(entitled[l]) \in Nat
    BY SmallerSet
  <2> QED
    BY <1>2, <2>1, <2>2 DEF Release
<1>3. ASSUME NEW l \in Licenses, Forget(l) PROVE BindingInv'
  <2>1. PICK E \in SUBSET entitled[l] : entitled' = [entitled EXCEPT ![l] = E]
    BY <1>3 DEF Forget
  <2>2. /\ IsFiniteSet(E) /\ Cardinality(E) <= Cardinality(entitled[l])
        /\ Cardinality(E) \in Nat /\ Cardinality(entitled[l]) \in Nat
    BY SmallerSet
  <2> QED
    BY <1>3, <2>1, <2>2 DEF Forget
<1>4. ASSUME NEW gone \in SUBSET Licenses, Delete(gone) PROVE BindingInv'
  <2>1. ASSUME NEW l \in Licenses PROVE IsFiniteSet(entitled'[l])
    BY <1>4, SmallerSet DEF Delete
  <2> QED
    BY <1>4, <2>1 DEF Delete
<1>5. CASE UNCHANGED vars
  BY <1>5 DEF vars
<1> QED
  BY <1>1, <1>2, <1>3, <1>4, <1>5 DEF Next

(* For any licenses and devices, every device that is entitled to sessions  *)
(* of a license, but the bound one, was paid for with an approved reset.    *)
THEOREM Bounded == None \notin Devices => (Spec => []EntitledBounded)
<1> SUFFICES ASSUME None \notin Devices PROVE Spec => []EntitledBounded
  OBVIOUS
<1>1. Init => BindingInv
  BY BindingInvInit
<1>2. BindingInv /\ [Next]_vars => BindingInv'
  BY BindingInvNext
<1>3. BindingInv => EntitledBounded
  BY DEF BindingInv
<1> QED
  BY <1>1, <1>2, <1>3, PTL DEF Spec
=============================================================================
