----------------------------- MODULE ReplayGuard -----------------------------
(***************************************************************************)
(* Replay protection of the Worker API for one application: the request    *)
(* window of worker.js (validateRequestWindow) and the nonce table of the  *)
(* database (reserve_api_nonce).                                           *)
(*                                                                         *)
(* An SDK stamps a request with whole seconds and a random nonce and sends *)
(* it once; the network may deliver it late, and more than once.  Each     *)
(* delivery is handled by some Worker isolate: it checks the window        *)
(* against its own clock, then awaits the application row, then calls the  *)
(* reservation procedure, which runs against the database clock.  The      *)
(* clock read by the window check is stale when the reservation runs.      *)
(*                                                                         *)
(* now is database time in ticks.  A second is Second ticks, and the code  *)
(* floors the Worker's clock to it before it compares.                     *)
(***************************************************************************)
EXTENDS Integers

CONSTANTS
  Nonces,       \* the nonces the SDKs draw, one for each request
  Deliveries,   \* the copies of requests that reach a Worker
  Second,       \* ticks in a second
  Window,       \* REQUEST_WINDOW_SECONDS, in ticks
  MinTTL,       \* the minute reserve_api_nonce keeps a nonce at least
  ClientLead,   \* how far ahead of now a client may stamp its request
  Skew,         \* a Worker's clock is within Skew of the database's
  MaxDelay,     \* ticks from the window check to the reservation, at most
  MaxTime,      \* bound of the clock in the runs
  None

ASSUME ConstantsAssumption ==
  /\ Second \in Nat \ {0}
  /\ Window \in Nat /\ MinTTL \in Nat
  /\ ClientLead \in Nat /\ Skew \in Nat /\ MaxDelay \in Nat
  /\ MaxTime \in Nat
  /\ None \notin Int

VARIABLES
  now,          \* the database clock
  sent,         \* sent[n]: timestamp of the request that carries nonce n
  delivery,     \* the deliveries, and what became of each
  api_nonces    \* api_nonces[n]: expires_at of the row of nonce n

vars == <<now, sent, delivery, api_nonces>>

Delivery ==
  [pc : {"idle", "checked", "stale", "accepted", "replay"},
   nonce : Nonces \cup {None},
   skew : -Skew .. Skew,
   at : Nat]

(* Type invariant.  The Worker asks for an expiry by its own clock; the      *)
(* procedure's minimum of one minute is what keeps it a time after 0.       *)
TypeOK ==
  /\ now \in Nat
  /\ sent \in [Nonces -> Int \cup {None}]
  /\ delivery \in [Deliveries -> Delivery]
  /\ api_nonces \in [Nonces -> Nat \cup {None}]

Init ==
  /\ now = 0
  /\ sent = [n \in Nonces |-> None]
  /\ delivery = [d \in Deliveries |->
                   [pc |-> "idle", nonce |-> None, skew |-> 0, at |-> 0]]
  /\ api_nonces = [n \in Nonces |-> None]

-----------------------------------------------------------------------------
(* The lifetime the Worker asks for: Date.now() + REQUEST_WINDOW * 2000 ms. *)
NonceTTLOneWindow == Window   \* mutant: a nonce kept for a single window
NonceTTL == 2 * Window

(* Math.floor(Date.now() / 1000), in ticks. *)
WholeSecond(t) == t - (t % Second)

(* Mutant: a difference of exactly the window is refused.                   *)
InWindowStrict(stamp, t) ==
  /\ WholeSecond(t) - stamp < Window
  /\ stamp - WholeSecond(t) < Window

(* validateRequestWindow, with the Worker's clock at t: the stamp and the   *)
(* clock differ by at most the window.  The nonce's form is not modelled.   *)
InWindow(stamp, t) ==
  /\ WholeSecond(t) - stamp <= Window
  /\ stamp - WholeSecond(t) <= Window

Later(s, t) == IF s > t THEN s ELSE t

(* Mutant: the insert is refused while any row of the application is live.  *)
UnexpiredAny ==
  IF \E n \in Nonces : api_nonces[n] # None /\ api_nonces[n] > now
  THEN Nonces ELSE {}

(* Rows left when reserve_api_nonce has deleted those with                  *)
(* expires_at <= now().                                                     *)
Unexpired == {n \in Nonces : api_nonces[n] # None /\ api_nonces[n] > now}

-----------------------------------------------------------------------------
(* An SDK call: a fresh nonce and the client's clock in whole seconds.      *)
Send(n, stamp) ==
  /\ sent[n] = None
  /\ stamp % Second = 0
  /\ stamp <= now + ClientLead
  /\ sent' = [sent EXCEPT ![n] = stamp]
  /\ UNCHANGED <<now, delivery, api_nonces>>

(* A copy of the request reaches a Worker whose clock is off by e.  The     *)
(* time of the check is noted for what is stated below, not by the code.    *)
Checked(n, e) ==
  [pc |-> IF InWindow(sent[n], now + e) THEN "checked" ELSE "stale",
   nonce |-> n, skew |-> e, at |-> now]

CheckWindow(d, n, e) ==
  /\ delivery[d].pc = "idle"
  /\ sent[n] # None
  /\ delivery' = [delivery EXCEPT ![d] = Checked(n, e)]
  /\ UNCHANGED <<now, sent, api_nonces>>

(* reserveNonce: the Worker reads Date.now() again at some time t between   *)
(* its check and now, and the procedure prunes the table, inserts the row   *)
(* and reports whether the insert met a row of the same nonce.              *)
Reserve(d, t) ==
  LET n == delivery[d].nonce
      fresh == n \notin Unexpired
      expires == Later(t + delivery[d].skew + NonceTTL, now + MinTTL)
  IN /\ delivery[d].pc = "checked"
     /\ delivery[d].at <= t /\ t <= now
     /\ api_nonces' = [m \in Nonces |->
                         IF m = n /\ fresh THEN expires
                         ELSE IF m \in Unexpired THEN api_nonces[m] ELSE None]
     /\ delivery' = [delivery EXCEPT ![d].pc =
                       IF fresh THEN "accepted" ELSE "replay"]
     /\ UNCHANGED <<now, sent>>

(* A checked delivery reaches the database within MaxDelay.                 *)
Tick ==
  /\ now < MaxTime
  /\ \A d \in Deliveries :
       delivery[d].pc = "checked" => now < delivery[d].at + MaxDelay
  /\ now' = now + 1
  /\ UNCHANGED <<sent, delivery, api_nonces>>

Next ==
  \/ \E n \in Nonces, stamp \in 0 .. MaxTime + ClientLead : Send(n, stamp)
  \/ \E d \in Deliveries, n \in Nonces, e \in -Skew .. Skew :
       CheckWindow(d, n, e)
  \/ \E d \in Deliveries, t \in 0 .. MaxTime : Reserve(d, t)
  \/ Tick

Spec == Init /\ [][Next]_vars

-----------------------------------------------------------------------------
(* A request is let through once: of all the copies of it that reach a      *)
(* Worker, at whatever time, at most one passes both the window check and   *)
(* the reservation.                                                         *)
NonceAcceptedOnce ==
  \A d1, d2 \in Deliveries :
    /\ delivery[d1].pc = "accepted" /\ delivery[d2].pc = "accepted"
    /\ delivery[d1].nonce = delivery[d2].nonce
    => d1 = d2

(* No request is called a replay unless another copy of it was let through: *)
(* pruning and requests of other nonces never make the first copy fail.     *)
ReplayOnlyOfAccepted ==
  \A d \in Deliveries :
    delivery[d].pc = "replay" =>
      \E c \in Deliveries : /\ delivery[c].pc = "accepted"
                            /\ delivery[c].nonce = delivery[d].nonce

(* An honest request that reaches a Worker within the window, less what the *)
(* Worker's clock may be off, is not called stale: neither the rounding to  *)
(* whole seconds nor a client that stamps ahead ever costs it any of this   *)
(* time (validateRequestWindow).                                            *)
PromptNeverStale ==
  \A d \in Deliveries :
    delivery[d].pc = "stale" =>
      delivery[d].at > sent[delivery[d].nonce] + Window - Skew

(* What the code's constants need of its clocks: a client's lead, the       *)
(* rounding to a second, the delay of one call and two Workers' skew fit    *)
(* together into one window.                                                *)
ClocksClose == ClientLead + Second + MaxDelay + 2 * Skew <= Window
=============================================================================
