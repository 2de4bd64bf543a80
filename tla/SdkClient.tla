------------------------------ MODULE SdkClient ------------------------------
(***************************************************************************)
(* The client object of the JavaScript and TypeScript SDKs, the application *)
(* that calls it, and the dispatch of the Worker that answers it.  The two  *)
(* SDKs have the same control: activate stores a token and a challenge,     *)
(* checkSession redeems the challenge for the next one, and a reply counts  *)
(* only if its envelope is signed and carries the nonce of the call.        *)
(*                                                                         *)
(* A call is asynchronous and has no timeout.  An application that stops    *)
(* waiting for one (or never awaited it) makes the next while the first is  *)
(* still in flight, and its reply is still applied when it comes.           *)
(*                                                                         *)
(* A call stands for its nonce, for the session it opens and for the        *)
(* challenge its reply carries.  What happens inside a handler is the       *)
(* subject of Activation and SessionCheck; here it is one step.             *)
(***************************************************************************)
EXTENDS Naturals, FiniteSets

CONSTANTS
  Calls,          \* names of calls; one that nothing refers to is used again
  MaxAbandoned,   \* bound: calls the application stops waiting for
  MaxLate,        \* bound: calls that failed whose request is on the way
  None

VARIABLES
  token,       \* sessionToken of the client
  challenge,   \* challenge of the client
  calls,       \* the calls, their requests and their replies
  awaiting,    \* the call the application awaits
  last,        \* how the call it awaited last ended, when it awaits none
  abandoned,   \* how many calls it stopped waiting for
  held,        \* held[s]: the challenge that the row of session s holds
  entitled     \* whether the license entitles the device

vars == <<token, challenge, calls, awaiting, last, abandoned, held, entitled>>
client == <<token, challenge>>
application == <<awaiting, last, abandoned>>
worker == <<held, entitled>>

Kinds == {"activate", "check"}

(* A response: a success, signed under the nonce of a call, or any other.   *)
(* None to the client are a refusal signed under its nonce, a failure the   *)
(* Worker signs under no nonce, and the error page of the platform.         *)
Envelope == [kind : Kinds, nonce : Calls \cup {None}]

ASSUME ClientAssumption ==
  /\ None \notin Calls \cup Kinds \cup Envelope \cup {"activated", "valid", "failed"}
  /\ {MaxAbandoned, MaxLate} \subseteq Nat

Call ==
  [kind : Kinds \cup {None},
   waiting : BOOLEAN,                \* the client has a fetch for it
   request : BOOLEAN,                \* its request is on the way
   reply : Envelope \cup {None},     \* its reply is on the way
   token : Calls \cup {None},
   challenge : Calls \cup {None},
   seen : BOOLEAN]                   \* entitled at some time since it was made

(* Type invariant; a request or a reply on the way belongs to a call made.  *)
TypeOK ==
  /\ {token, challenge, awaiting} \subseteq Calls \cup {None}
  /\ calls \in [Calls -> Call]
  /\ last \in {None, "activated", "valid", "failed"}
  /\ abandoned \in 0 .. MaxAbandoned
  /\ held \in [Calls -> Calls \cup {None}]
  /\ entitled \in BOOLEAN
  /\ \A c \in Calls : calls[c].kind = None => ~calls[c].waiting /\ ~calls[c].request

NotMade == [kind |-> None, waiting |-> FALSE, request |-> FALSE, reply |-> None,
            token |-> None, challenge |-> None, seen |-> FALSE]

ClientInit == token = None /\ challenge = None

Init ==
  /\ ClientInit
  /\ calls = [c \in Calls |-> NotMade]
  /\ awaiting = None /\ last = None /\ abandoned = 0
  /\ held = [s \in Calls |-> None]
  /\ entitled \in BOOLEAN

-----------------------------------------------------------------------------
(* A call is given a fresh name.  Names in use are those the client and the *)
(* calls refer to, and the challenges held by the sessions among them.      *)
Made == {c \in Calls : calls[c].kind # None}
Live == {token} \cup Made \cup {calls[c].token : c \in Made}
InUse == Live \cup {challenge} \cup {calls[c].challenge : c \in Made}
              \cup {held[s] : s \in Live \ {None}}
Fresh == CHOOSE c \in Calls : c \notin InUse

(* The application makes a call, and the client posts its request.  The     *)
(* client looks at no call in flight.                                       *)
Post(c, kind, t, x) ==
  /\ awaiting = None
  /\ ~(Calls \subseteq InUse) /\ c = Fresh
  /\ calls' = [calls EXCEPT ![c] = [kind |-> kind, waiting |-> TRUE, request |-> TRUE,
       reply |-> None, token |-> t, challenge |-> x, seen |-> entitled]]
  /\ awaiting' = c /\ last' = None
  /\ held' = [s \in Calls |-> IF s \in Live THEN held[s] ELSE None]
  /\ UNCHANGED <<client, abandoned, entitled>>

Activate(c) == Post(c, "activate", None, None)

CheckSession(c) ==
  /\ None \notin {token, challenge}
  /\ Post(c, "check", token, challenge)

(* Without a session checkSession throws before it posts anything.          *)
CheckWithoutSession ==
  /\ awaiting = None
  /\ None \in {token, challenge}
  /\ last' = "failed"
  /\ UNCHANGED <<client, calls, awaiting, abandoned, worker>>

ClearSession ==
  /\ awaiting = None
  /\ token' = None /\ challenge' = None
  /\ last' = None
  /\ UNCHANGED <<calls, awaiting, abandoned, worker>>

(* The application makes its next call without waiting any longer.          *)
Abandon ==
  /\ awaiting # None /\ abandoned < MaxAbandoned
  /\ abandoned' = abandoned + 1
  /\ awaiting' = None /\ last' = "failed"
  /\ UNCHANGED <<client, calls, worker>>

-----------------------------------------------------------------------------
(* The dispatch answers what a handler signs under the nonce of the call.   *)
(* A body or an environment that is no good is answered under no nonce, and *)
(* a handler that throws does so outside of the try block: no success.      *)
Failure(kind) == [kind |-> kind, nonce |-> None]
Success(c) == [kind |-> calls[c].kind, nonce |-> c]

(* A response leaves; it is of no use if the client's fetch has ended.      *)
Respond(c, e) ==
  /\ calls' = [calls EXCEPT ![c] =
       IF calls[c].waiting THEN [@ EXCEPT !.request = FALSE, !.reply = e] ELSE NotMade]
  /\ UNCHANGED <<client, application, entitled>>

Serve(c, kind) == calls[c].request /\ calls[c].kind = kind

(* An activation that opens a session, and whether its answer is signed.    *)
ServeActivate(c, e) ==
  /\ Serve(c, "activate")
  /\ entitled
  /\ e \in {Success(c), Failure("activate")}
  /\ held' = [held EXCEPT ![c] = c]
  /\ Respond(c, e)

HoldsAnything(s, x) == held[s] # None   \* mutant: any challenge redeems
Holds(s, x) == held[s] = x /\ x # None

(* A check that rotates, whatever it then says of the license.              *)
ServeCheck(c, e) ==
  /\ Serve(c, "check")
  /\ Holds(calls[c].token, calls[c].challenge)
  /\ e \in (IF entitled THEN {Success(c)} ELSE {}) \cup {Failure("check")}
  /\ held' = [held EXCEPT ![calls[c].token] = c]
  /\ Respond(c, e)

(* A request that changes nothing: it is refused, or fails before it could. *)
ServeInVain(c) ==
  /\ calls[c].request
  /\ Respond(c, Failure(calls[c].kind))
  /\ UNCHANGED held

(* Time and the owner: the license is suspended, reset, or given back, and  *)
(* the session is revoked or expires.  While the license entitles, half an  *)
(* hour is enough for a session to be redeemed once before it ends.         *)
EndSession(s) ==
  /\ held[s] # None
  /\ entitled => held[s] # s
  /\ held' = [held EXCEPT ![s] = None]
  /\ UNCHANGED <<client, calls, application, entitled>>

OwnerDecides ==
  /\ entitled' = ~entitled
  /\ calls' = [c \in Calls |-> IF calls[c].waiting /\ entitled'
                               THEN [calls[c] EXCEPT !.seen = TRUE] ELSE calls[c]]
  /\ UNCHANGED <<client, application, held>>

-----------------------------------------------------------------------------
(* verifyEnvelope: the pinned key signed it, under the nonce of the call.   *)
SignedOnly(c, e) == e.nonce # None   \* mutant: under any nonce
Verified(c, e) == e.nonce = c

(* The call c ends for the client; the application hears of it if it still  *)
(* awaits it.                                                               *)
Ends(c, outcome, late) ==
  /\ calls' = [calls EXCEPT ![c] =
       IF late THEN [@ EXCEPT !.waiting = FALSE, !.seen = FALSE] ELSE NotMade]
  /\ IF awaiting = c
     THEN awaiting' = None /\ last' = outcome
     ELSE UNCHANGED <<awaiting, last>>
  /\ UNCHANGED <<abandoned, worker>>

(* What the network hands to the fetch of a call: its reply, or that of     *)
(* another call of the same route.                                          *)
Arrives(c, e) ==
  /\ calls[c].waiting
  /\ \E d \in Calls : calls[d].kind = calls[c].kind /\ calls[d].reply = e

(* activate stores the token and the challenge of the session it opened.    *)
StoreFirstChallenge(e) ==   \* mutant: only where there is none yet
  token' = e.nonce /\ challenge' = IF challenge = None THEN e.nonce ELSE challenge
StoreSession(e) == token' = e.nonce /\ challenge' = e.nonce

TakeActivation(c, e) ==
  /\ Arrives(c, e) /\ e.kind = "activate"
  /\ Verified(c, e)
  /\ StoreSession(e)
  /\ Ends(c, "activated", FALSE)

(* checkSession stores the next challenge, beside whatever token the client *)
(* has by then.                                                             *)
StoreObject(e) == challenge' = e /\ UNCHANGED token   \* mutant: session, not session.challenge
StoreChallenge(e) == challenge' = e.nonce /\ UNCHANGED token

TakeCheck(c, e) ==
  /\ Arrives(c, e) /\ e.kind = "check"
  /\ Verified(c, e)
  /\ StoreChallenge(e)
  /\ Ends(c, "valid", FALSE)

(* A verified refusal, a response that does not verify (or is too old for   *)
(* the client's clock), or a fetch that rejects: nothing is stored.         *)
TakeRefusal(c, e) ==
  /\ Arrives(c, e)
  /\ ~Verified(c, e)
  /\ Ends(c, "failed", FALSE) /\ UNCHANGED client

Fail(c) ==
  /\ calls[c].waiting
  /\ Ends(c, "failed", FALSE) /\ UNCHANGED client

(* The fetch rejects, and the request reaches the Worker all the same.      *)
FailEarly(c) ==
  /\ calls[c].waiting /\ calls[c].request
  /\ Cardinality({d \in Calls : calls[d].request /\ ~calls[d].waiting}) < MaxLate
  /\ Ends(c, "failed", TRUE) /\ UNCHANGED client

Next ==
  \/ \E c \in Calls :
       \/ Activate(c) \/ CheckSession(c) \/ ServeInVain(c)
       \/ Fail(c) \/ FailEarly(c)
       \/ \E e \in Envelope :
            \/ ServeActivate(c, e) \/ ServeCheck(c, e)
            \/ TakeActivation(c, e) \/ TakeCheck(c, e) \/ TakeRefusal(c, e)
  \/ \E s \in Calls : EndSession(s)
  \/ CheckWithoutSession \/ ClearSession \/ Abandon \/ OwnerDecides

Spec == Init /\ [][Next]_vars

(* Fairness.  Of the application, which is not part of the repository: it   *)
(* activates after a call that failed, and checks after one that did not.   *)
(* Of the network and the Worker: calls are answered now and then.          *)
Reactivates == last \in {None, "failed"} /\ \E c \in Calls : Activate(c)
Revalidate == last \in {"activated", "valid"} /\ \E c \in Calls : CheckSession(c)
Succeeds(c) ==
  \/ ServeActivate(c, Success(c)) \/ ServeCheck(c, Success(c))
TakesSuccess(c) ==
  \/ TakeActivation(c, Success(c)) \/ TakeCheck(c, Success(c))
Fairness ==
  /\ \A c \in Calls : WF_vars(Fail(c)) /\ WF_vars(ServeInVain(c))
  /\ SF_vars(Reactivates) /\ SF_vars(Revalidate)
  /\ SF_vars(\E c \in Calls : c = awaiting /\ calls[c].kind = "activate" /\ Succeeds(c))
  /\ SF_vars(\E c \in Calls : c = awaiting /\ calls[c].kind = "check" /\ Succeeds(c))
  /\ SF_vars(\E c \in Calls : c = awaiting /\ calls[c].kind = "activate" /\ TakesSuccess(c))
  /\ SF_vars(\E c \in Calls : c = awaiting /\ calls[c].kind = "check" /\ TakesSuccess(c))
FairSpec == Spec /\ Fairness

-----------------------------------------------------------------------------
(* In a client whose calls never overlapped, the challenge stored after a   *)
(* successful call is the one the Worker's row holds (unless the session    *)
(* has ended): requests of calls that failed may be served late, and none   *)
(* of them leaves the client with a challenge it cannot redeem.             *)
InSync ==
  (abandoned = 0 /\ awaiting = None /\ last \in {"activated", "valid"}) =>
    /\ token # None
    /\ held[token] \in {challenge, None}

(* The SDK fails closed: a success is reported to the application only if   *)
(* the license did entitle the device at some time since the call was made, *)
(* whatever response arrives for it.                                        *)
VerdictIsFresh ==
  [][\A c \in Calls :
       (awaiting = c /\ last' \in {"activated", "valid"} /\ awaiting' = None)
         => calls[c].seen]_vars

(* Whatever was lost, served late, answered unsigned or left out of step by *)
(* calls that overlapped, an entitled application that activates after a    *)
(* failure gets its session validated again and again.                      *)
Revalidates == <>[]entitled => []<>(last = "valid")
=============================================================================
