-------------------------- MODULE ReplayGuardProofs --------------------------
(***************************************************************************)
(* Proofs about ReplayGuard: its type invariant, that a replay alarm always *)
(* has an accepted copy behind it, and, when the clocks are close, that a   *)
(* nonce is accepted at most once and a prompt request is never stale.      *)
(*                                                                         *)
(* The argument for acceptance: the row of an accepted nonce n lives until    *)
(* LastUse(n), after which no copy that passes the window check can still   *)
(* reach the reservation; until then the row makes every copy a replay.     *)
(***************************************************************************)
EXTENDS ReplayGuard, TLAPS

(* A remainder is below its modulus: flooring to a second loses less than   *)
(* one (validateRequestWindow's Math.floor).                                *)
LEMMA WholeSecondBounds ==
  ASSUME NEW t \in Int
  PROVE  /\ WholeSecond(t) \in Int
         /\ WholeSecond(t) <= t
         /\ t < WholeSecond(t) + Second
  BY ConstantsAssumption DEF WholeSecond

(* The type invariant holds of every behaviour: in particular a row's       *)
(* expiry is never before time 0, whatever clock the Worker computed it on. *)
THEOREM TypeCorrect == Spec => []TypeOK
<1>1. Init => TypeOK
  BY ConstantsAssumption DEF Init, TypeOK, Delivery
<1>2. TypeOK /\ [Next]_vars => TypeOK'
  <2> SUFFICES ASSUME TypeOK, [Next]_vars PROVE TypeOK'
    OBVIOUS
  <2> USE ConstantsAssumption DEF TypeOK
  <2>1. ASSUME NEW n \in Nonces, NEW stamp \in 0 .. MaxTime + ClientLead,
               Send(n, stamp)
        PROVE  TypeOK'
    BY <2>1 DEF Send
  <2>2. ASSUME NEW d \in Deliveries, NEW n \in Nonces, NEW e \in -Skew .. Skew,
               CheckWindow(d, n, e)
        PROVE  TypeOK'
    <3>1. Checked(n, e) \in Delivery
      BY DEF Checked, Delivery
    <3> QED
      BY <2>2, <3>1 DEF CheckWindow
  <2>3. ASSUME NEW d \in Deliveries, NEW t \in 0 .. MaxTime, Reserve(d, t)
        PROVE  TypeOK'
    <3>1. Later(t + delivery[d].skew + NonceTTL, now + MinTTL) \in Nat
      BY DEF Later, NonceTTL, Delivery
    <3>2. api_nonces' \in [Nonces -> Nat \cup {None}]
      BY <2>3, <3>1 DEF Reserve
    <3>3. delivery' \in [Deliveries -> Delivery]
      BY <2>3 DEF Reserve, Delivery
    <3> QED
      BY <2>3, <3>2, <3>3 DEF Reserve
  <2>4. CASE Tick
    BY <2>4 DEF Tick
  <2>5. CASE UNCHANGED vars
    BY <2>5 DEF vars
  <2> QED
    BY <2>1, <2>2, <2>3, <2>4, <2>5 DEF Next
<1> QED
  BY <1>1, <1>2, PTL DEF Spec

-----------------------------------------------------------------------------
(* A delivery that is past the window check carries a request that was sent. *)
SentFirst ==
  \A d \in Deliveries :
    delivery[d].pc # "idle" =>
      delivery[d].nonce \in Nonces /\ sent[delivery[d].nonce] # None

(* Every row of the table, and every alarm, was left by an accepted copy.   *)
RowsHaveOwners ==
  \A n \in Nonces :
    api_nonces[n] # None =>
      \E c \in Deliveries : delivery[c].pc = "accepted" /\ delivery[c].nonce = n

AlarmInv == TypeOK /\ SentFirst /\ RowsHaveOwners /\ ReplayOnlyOfAccepted

(* A replay alarm always has an accepted copy of the same request behind    *)
(* it: neither pruning nor other requests ever turn a first copy away.      *)
THEOREM AlarmsAreReal == Spec => []ReplayOnlyOfAccepted
<1>1. Init => AlarmInv
  BY ConstantsAssumption
     DEF Init, AlarmInv, TypeOK, Delivery, SentFirst, RowsHaveOwners,
         ReplayOnlyOfAccepted
<1>2. AlarmInv /\ TypeOK' /\ [Next]_vars => AlarmInv'
  <2> SUFFICES ASSUME AlarmInv, TypeOK', [Next]_vars PROVE AlarmInv'
    OBVIOUS
  <2> USE ConstantsAssumption
      DEF AlarmInv, TypeOK, SentFirst, RowsHaveOwners, ReplayOnlyOfAccepted
  <2>1. ASSUME NEW n \in Nonces, NEW stamp \in 0 .. MaxTime + ClientLead,
               Send(n, stamp)
        PROVE  AlarmInv'
    BY <2>1 DEF Send
  <2>2. ASSUME NEW d \in Deliveries, NEW n \in Nonces, NEW e \in -Skew .. Skew,
               CheckWindow(d, n, e)
        PROVE  AlarmInv'
    <3>1. /\ delivery[d].pc = "idle"
          /\ delivery' = [delivery EXCEPT ![d] = Checked(n, e)]
          /\ UNCHANGED <<now, sent, api_nonces>>
          /\ sent[n] # None
      BY <2>2 DEF CheckWindow
    <3>2. /\ Checked(n, e).nonce = n
          /\ Checked(n, e).pc \in {"checked", "stale"}
      BY DEF Checked
    <3> QED
      BY <3>1, <3>2
  <2>3. ASSUME NEW d \in Deliveries, NEW t \in 0 .. MaxTime, Reserve(d, t)
        PROVE  AlarmInv'
    <3> DEFINE n == delivery[d].nonce
               fresh == n \notin Unexpired
    <3>1. /\ delivery[d].pc = "checked"
          /\ n \in Nonces
          /\ UNCHANGED <<now, sent>>
      BY <2>3 DEF Reserve
    <3>2. \A c \in Deliveries : c # d => delivery'[c] = delivery[c]
      BY <2>3 DEF Reserve
    <3>3. /\ delivery'[d].nonce = n
          /\ delivery'[d].pc = IF fresh THEN "accepted" ELSE "replay"
      BY <2>3 DEF Reserve, Delivery
    <3>4. \A c \in Deliveries :
            delivery[c].pc = "accepted" =>
              /\ delivery'[c].pc = "accepted"
              /\ delivery'[c].nonce = delivery[c].nonce
      BY <3>1, <3>2
    <3>5. \A m \in Nonces :
            api_nonces'[m] # None => api_nonces[m] # None \/ (m = n /\ fresh)
      BY <2>3 DEF Reserve, Unexpired
    <3>6. RowsHaveOwners'
      BY <3>3, <3>4, <3>5
    <3>7. SentFirst'
      BY <3>1, <3>2, <3>3
    <3>8. ReplayOnlyOfAccepted'
      <4>1. ASSUME ~fresh
            PROVE  \E c \in Deliveries : /\ delivery[c].pc = "accepted"
                                         /\ delivery[c].nonce = n
        BY <4>1, <3>1 DEF Unexpired
      <4> QED
        BY <4>1, <3>1, <3>2, <3>3, <3>4
    <3> QED
      BY <3>6, <3>7, <3>8
  <2>4. CASE Tick
    BY <2>4 DEF Tick
  <2>5. CASE UNCHANGED vars
    BY <2>5 DEF vars
  <2> QED
    BY <2>1, <2>2, <2>3, <2>4, <2>5 DEF Next
<1>3. AlarmInv => ReplayOnlyOfAccepted
  BY DEF AlarmInv
<1> QED
  BY <1>1, <1>2, <1>3, TypeCorrect, PTL DEF Spec

-----------------------------------------------------------------------------
(* After this time no copy of n can reach the reservation any more.         *)
LastUse(n) == sent[n] + Window + Second + MaxDelay + Skew

(* What the window check established of a delivery that awaits its          *)
(* reservation, and how long it may still wait.                             *)
CheckedInTime ==
  \A d \in Deliveries :
    delivery[d].pc = "checked" =>
      /\ InWindow(sent[delivery[d].nonce], delivery[d].at + delivery[d].skew)
      /\ sent[delivery[d].nonce] <= delivery[d].at + ClientLead
      /\ delivery[d].at <= now /\ now <= delivery[d].at + MaxDelay

(* Clients stamp at most ClientLead ahead.                                  *)
StampsNotAhead == \A n \in Nonces : sent[n] # None => sent[n] <= now + ClientLead

(* An accepted nonce has a row until its last use is past.                  *)
Covered(n) ==
  \/ LastUse(n) <= now
  \/ api_nonces[n] # None /\ LastUse(n) <= api_nonces[n]

RowOutlivesUse ==
  \A d \in Deliveries :
    delivery[d].pc = "accepted" => Covered(delivery[d].nonce)

OnceInv ==
  /\ TypeOK /\ SentFirst
  /\ CheckedInTime /\ StampsNotAhead /\ RowOutlivesUse
  /\ NonceAcceptedOnce

(* When lead, rounding, delay and skew together fit into one request        *)
(* window, no request is let through twice (reserve_api_nonce).             *)
THEOREM AcceptedOnce == ClocksClose => (Spec => []NonceAcceptedOnce)
<1> SUFFICES ASSUME ClocksClose PROVE Spec => []NonceAcceptedOnce
  OBVIOUS
<1>1. Init => OnceInv
  BY ConstantsAssumption
     DEF Init, OnceInv, TypeOK, Delivery, SentFirst, CheckedInTime,
         StampsNotAhead, RowOutlivesUse, NonceAcceptedOnce
<1>2. OnceInv /\ TypeOK' /\ [Next]_vars => OnceInv'
  <2> SUFFICES ASSUME OnceInv, TypeOK', [Next]_vars PROVE OnceInv'
    OBVIOUS
  <2> USE ConstantsAssumption, ClocksClose DEF OnceInv, TypeOK, ClocksClose
  <2>1. ASSUME NEW n \in Nonces, NEW stamp \in 0 .. MaxTime + ClientLead,
               Send(n, stamp)
        PROVE  OnceInv'
    <3>1. /\ sent[n] = None /\ stamp <= now + ClientLead
          /\ sent' = [sent EXCEPT ![n] = stamp]
          /\ UNCHANGED <<now, delivery, api_nonces>>
      BY <2>1 DEF Send
    <3>2. \A d \in Deliveries :
            delivery[d].pc # "idle" =>
              sent'[delivery[d].nonce] = sent[delivery[d].nonce]
      BY <3>1 DEF SentFirst
    <3>3. SentFirst' /\ NonceAcceptedOnce' /\ StampsNotAhead'
      BY <3>1, <3>2 DEF SentFirst, NonceAcceptedOnce, StampsNotAhead
    <3>4. CheckedInTime'
      BY <3>1, <3>2 DEF CheckedInTime, InWindow, WholeSecond
    <3>5. RowOutlivesUse'
      BY <3>1, <3>2 DEF RowOutlivesUse, Covered, LastUse
    <3> QED
      BY <3>3, <3>4, <3>5
  <2>2. ASSUME NEW d \in Deliveries, NEW n \in Nonces, NEW e \in -Skew .. Skew,
               CheckWindow(d, n, e)
        PROVE  OnceInv'
    <3>1. /\ delivery[d].pc = "idle" /\ sent[n] # None
          /\ delivery'[d] = Checked(n, e)
          /\ \A c \in Deliveries \ {d} : delivery'[c] = delivery[c]
          /\ UNCHANGED <<now, sent, api_nonces>>
      BY <2>2 DEF CheckWindow
    <3>2. /\ delivery'[d].nonce = n
          /\ delivery'[d].skew = e /\ delivery'[d].at = now
          /\ delivery'[d].pc \in {"checked", "stale"}
          /\ delivery'[d].pc = "checked" => InWindow(sent[n], now + e)
      BY <3>1 DEF Checked
    <3>3. SentFirst' /\ NonceAcceptedOnce' /\ StampsNotAhead'
      BY <3>1, <3>2 DEF SentFirst, NonceAcceptedOnce, StampsNotAhead
    <3>4. CheckedInTime'
      BY <3>1, <3>2
         DEF CheckedInTime, StampsNotAhead, InWindow, WholeSecond
    <3>5. RowOutlivesUse'
      BY <3>1, <3>2 DEF RowOutlivesUse, Covered, LastUse
    <3> QED
      BY <3>3, <3>4, <3>5
  <2>3. ASSUME NEW d \in Deliveries, NEW t \in 0 .. MaxTime, Reserve(d, t)
        PROVE  OnceInv'
    <3> DEFINE n == delivery[d].nonce
               e == delivery[d].skew
               fresh == n \notin Unexpired
    <3>1. /\ delivery[d].pc = "checked"
          /\ delivery[d].at <= t /\ t <= now
          /\ UNCHANGED <<now, sent>>
      BY <2>3 DEF Reserve
    <3>2. /\ n \in Nonces /\ sent[n] \in Int /\ e \in -Skew .. Skew
          /\ delivery[d].at \in Nat /\ now \in Nat
      BY <3>1 DEF SentFirst, Delivery
    <3>3. \A c \in Deliveries \ {d} : delivery'[c] = delivery[c]
      BY <2>3 DEF Reserve
    <3>4. /\ delivery'[d].nonce = n
          /\ delivery'[d].pc = IF fresh THEN "accepted" ELSE "replay"
      BY <2>3 DEF Reserve, Delivery
    \* The check's window and the bounded delay leave n's last use ahead.
    <3>5. now < LastUse(n)
      <4>1. /\ delivery[d].at + e < WholeSecond(delivery[d].at + e) + Second
            /\ WholeSecond(delivery[d].at + e) \in Int
        BY <3>2, WholeSecondBounds
      <4>2. /\ WholeSecond(delivery[d].at + e) - sent[n] <= Window
            /\ now <= delivery[d].at + MaxDelay
        BY <3>1 DEF CheckedInTime, InWindow
      <4> QED
        BY <4>1, <4>2, <3>2 DEF LastUse
    \* So, if n was accepted before, its row is still there.
    <3>6. ASSUME NEW c \in Deliveries, delivery[c].pc = "accepted",
                 delivery[c].nonce = n
          PROVE  ~fresh
      BY <3>5, <3>6, <3>2 DEF RowOutlivesUse, Covered, LastUse, Unexpired
    <3>7. NonceAcceptedOnce'
      BY <3>1, <3>3, <3>4, <3>6 DEF NonceAcceptedOnce
    <3>8. ASSUME NEW m \in Nonces, m = n, fresh PROVE Covered(m)'
      <4> DEFINE x == Later(t + e + NonceTTL, now + MinTTL)
      <4>1. api_nonces'[m] = x
        BY <2>3, <3>2, <3>8 DEF Reserve
      <4>2. x \in Int /\ t + e + 2 * Window <= x
        BY <3>2, <3>1 DEF Later, NonceTTL
      <4>3. sent[m] <= delivery[d].at + ClientLead
        BY <3>1, <3>8 DEF CheckedInTime
      <4> HIDE DEF x
      <4> QED
        BY <4>1, <4>2, <4>3, <3>1, <3>2, <3>8 DEF Covered, LastUse
    <3>9. ASSUME NEW m \in Nonces, sent[m] \in Int, Covered(m)
          PROVE  Covered(m)'
      <4>1. CASE m = n /\ fresh
        BY <4>1, <3>8
      <4>2. CASE ~(m = n /\ fresh) /\ m \in Unexpired
        <5>1. api_nonces'[m] = api_nonces[m]
          BY <2>3, <4>2 DEF Reserve
        <5> QED
          BY <5>1, <3>9, <3>1 DEF Covered, LastUse
      <4>3. CASE m \notin Unexpired
        <5>1. LastUse(m) <= now
          BY <3>9, <4>3, <3>2 DEF Covered, Unexpired, LastUse
        <5> QED
          BY <5>1, <3>1 DEF Covered, LastUse
      <4> QED
        BY <4>1, <4>2, <4>3
    <3>10. RowOutlivesUse'
      <4> SUFFICES ASSUME NEW c \in Deliveries, delivery'[c].pc = "accepted",
                          NEW m \in Nonces, delivery'[c].nonce = m
                   PROVE  Covered(m)'
        BY <3>1, <3>2, <3>3, <3>4
           DEF RowOutlivesUse, SentFirst, Covered, LastUse
      <4>1. CASE c = d
        BY <4>1, <3>4, <3>8
      <4>2. CASE c # d
        BY <4>2, <3>1, <3>3, <3>9 DEF RowOutlivesUse, SentFirst
      <4> QED
        BY <4>1, <4>2
    <3>11. SentFirst' /\ StampsNotAhead' /\ CheckedInTime'
      BY <3>1, <3>3, <3>4, <2>3
         DEF SentFirst, StampsNotAhead, CheckedInTime, InWindow, WholeSecond
    <3> QED
      BY <3>7, <3>10, <3>11
  <2>4. CASE Tick
    <3>1. /\ now' = now + 1 /\ UNCHANGED <<sent, delivery, api_nonces>>
          /\ \A d \in Deliveries :
               delivery[d].pc = "checked" => now < delivery[d].at + MaxDelay
      BY <2>4 DEF Tick
    <3>2. SentFirst' /\ NonceAcceptedOnce' /\ StampsNotAhead'
      BY <3>1 DEF SentFirst, NonceAcceptedOnce, StampsNotAhead
    <3>3. CheckedInTime'
      BY <3>1 DEF CheckedInTime, InWindow, WholeSecond, Delivery
    <3>4. RowOutlivesUse'
      BY <3>1 DEF RowOutlivesUse, Covered, LastUse, SentFirst
    <3> QED
      BY <3>2, <3>3, <3>4
  <2>5. CASE UNCHANGED vars
    BY <2>5 DEF vars, SentFirst, NonceAcceptedOnce, StampsNotAhead,
                CheckedInTime, InWindow, WholeSecond, RowOutlivesUse, Covered, LastUse
  <2> QED
    BY <2>1, <2>2, <2>3, <2>4, <2>5 DEF Next
<1>3. OnceInv => NonceAcceptedOnce
  BY DEF OnceInv
<1> QED
  BY <1>1, <1>2, <1>3, TypeCorrect, PTL DEF Spec

-----------------------------------------------------------------------------
PromptInv == TypeOK /\ SentFirst /\ StampsNotAhead /\ PromptNeverStale

(* When lead, rounding and skew fit into one request window, the window     *)
(* check refuses no request that reaches a Worker while its stamp is less   *)
(* than a window, less the skew, in the past (validateRequestWindow).       *)
THEOREM PromptIsServed == ClocksClose => (Spec => []PromptNeverStale)
<1> SUFFICES ASSUME ClocksClose PROVE Spec => []PromptNeverStale
  OBVIOUS
<1>1. Init => PromptInv
  BY ConstantsAssumption
     DEF Init, PromptInv, TypeOK, Delivery, SentFirst, StampsNotAhead,
         PromptNeverStale
<1>2. PromptInv /\ TypeOK' /\ [Next]_vars => PromptInv'
  <2> SUFFICES ASSUME PromptInv, TypeOK', [Next]_vars PROVE PromptInv'
    OBVIOUS
  <2> USE ConstantsAssumption, ClocksClose DEF PromptInv, TypeOK, ClocksClose
  <2>1. ASSUME NEW n \in Nonces, NEW stamp \in 0 .. MaxTime + ClientLead,
               Send(n, stamp)
        PROVE  PromptInv'
    <3>1. /\ sent[n] = None /\ stamp <= now + ClientLead
          /\ sent' = [sent EXCEPT ![n] = stamp]
          /\ UNCHANGED <<now, delivery, api_nonces>>
      BY <2>1 DEF Send
    <3>2. \A d \in Deliveries :
            delivery[d].pc # "idle" =>
              sent'[delivery[d].nonce] = sent[delivery[d].nonce]
      BY <3>1 DEF SentFirst
    <3> QED
      BY <3>1, <3>2 DEF SentFirst, StampsNotAhead, PromptNeverStale
  <2>2. ASSUME NEW d \in Deliveries, NEW n \in Nonces, NEW e \in -Skew .. Skew,
               CheckWindow(d, n, e)
        PROVE  PromptInv'
    <3>1. /\ delivery[d].pc = "idle" /\ sent[n] # None
          /\ delivery'[d] = Checked(n, e)
          /\ \A c \in Deliveries \ {d} : delivery'[c] = delivery[c]
          /\ UNCHANGED <<now, sent, api_nonces>>
      BY <2>2 DEF CheckWindow
    <3>2. /\ delivery'[d].nonce = n /\ delivery'[d].at = now
          /\ delivery'[d].pc = "stale" => ~InWindow(sent[n], now + e)
          /\ delivery'[d].pc # "idle"
      BY <3>1 DEF Checked
    <3>3. /\ WholeSecond(now + e) \in Int /\ WholeSecond(now + e) <= now + e
          /\ now + e < WholeSecond(now + e) + Second
      BY WholeSecondBounds
    <3>4. sent[n] \in Int /\ sent[n] <= now + ClientLead
      BY <3>1 DEF StampsNotAhead
    \* A stamp ahead of the clock is still within the window,
    <3>5. sent[n] - WholeSecond(now + e) <= Window
      BY <3>3, <3>4
    \* so a refusal means that it is far behind.
    <3>6. delivery'[d].pc = "stale" => now > sent[n] + Window - Skew
      BY <3>2, <3>3, <3>4, <3>5 DEF InWindow
    <3> QED
      BY <3>1, <3>2, <3>6 DEF SentFirst, StampsNotAhead, PromptNeverStale
  <2>3. ASSUME NEW d \in Deliveries, NEW t \in 0 .. MaxTime, Reserve(d, t)
        PROVE  PromptInv'
    <3>1. /\ delivery[d].pc = "checked"
          /\ UNCHANGED <<now, sent>>
          /\ \A c \in Deliveries \ {d} : delivery'[c] = delivery[c]
          /\ delivery'[d].nonce = delivery[d].nonce
          /\ delivery'[d].pc \in {"accepted", "replay"}
      BY <2>3 DEF Reserve, Delivery
    <3> QED
      BY <3>1 DEF SentFirst, StampsNotAhead, PromptNeverStale
  <2>4. CASE Tick
    BY <2>4 DEF Tick, SentFirst, StampsNotAhead, PromptNeverStale
  <2>5. CASE UNCHANGED vars
    BY <2>5 DEF vars, SentFirst, StampsNotAhead, PromptNeverStale
  <2> QED
    BY <2>1, <2>2, <2>3, <2>4, <2>5 DEF Next
<1>3. PromptInv => PromptNeverStale
  BY DEF PromptInv
<1> QED
  BY <1>1, <1>2, <1>3, TypeCorrect, PTL DEF Spec
=============================================================================
