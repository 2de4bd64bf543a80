------------------------------ MODULE Activation ------------------------------
(***************************************************************************)
(* activateLicense of worker.js: one request that binds a license to the    *)
(* device it is sent from, unless it is bound already, and opens a session. *)
(*                                                                         *)
(* pc names the statement the handler awaits next.  A step runs that        *)
(* statement on the database and then the code up to the next await; the    *)
(* code that reads the clock (decide, mint) is a step of its own, so that   *)
(* time may pass between a reply of the database and its use.  Requests     *)
(* outside the time window are turned away before this handler has any      *)
(* effect: ReplayGuard models that.  A handler that awaits                  *)
(* recordSecurityEvent has the type of the event as its pc.                 *)
(***************************************************************************)
EXTENDS Schema

VARIABLE act   \* act[r]: the activation requests

ActivationPC == {"idle", "select_app", "reserve", "select_license", "decide",
                 "bind", "reread", "mint", "insert", "reply", "done"}
                \cup {"replay_detected", "integrity_mismatch"}

ActivationRow ==
  [pc : ActivationPC,
   app : Apps \cup {None}, license : Licenses \cup {None},
   hwid : Devices \cup {None}, build : Builds \cup {None},
   version : Versions \cup {None}, nonce : Activations \cup {None},
   application : AppRow \cup {None},   \* the application row it read
   row : LicenseRow \cup {None},       \* the license row it read
   expiry : Nat \cup {None},           \* effectiveExpiry
   sessionExpiry : Nat \cup {None},    \* expiresAt
   outcome : {None, "ok", "rejected", "threw"}]

(* A request carries its fields from the start, and has what the statement  *)
(* it awaits was computed from.                                             *)
HasRead(q) ==
  /\ q.pc = "idle" => q.nonce = None
  /\ q.pc # "idle" => None \notin {q.app, q.license, q.hwid, q.nonce}
  /\ q.pc = "reserve" => q.application # None
  /\ q.pc \in {"decide", "bind", "reread"} => q.row # None
  /\ q.pc = "insert" => q.sessionExpiry # None

ActivationTypeOK ==
  /\ act \in [Activations -> ActivationRow]
  /\ \A r \in Activations : HasRead(act[r])

Unsent ==
  [pc |-> "idle", app |-> None, license |-> None, hwid |-> None, build |-> None,
   version |-> None, nonce |-> None, application |-> None, row |-> None,
   expiry |-> None, sessionExpiry |-> None, outcome |-> None]

ActivationInit == act = [r \in Activations |-> Unsent]

-----------------------------------------------------------------------------
(* The handler ends without a session and forgets what it read.             *)
End(r, outcome) ==
  act' = [act EXCEPT ![r] = [@ EXCEPT !.pc = "done", !.outcome = outcome,
                                      !.application = None, !.row = None,
                                      !.expiry = None, !.sessionExpiry = None]]

(* The handler goes on to record a security event before it ends.           *)
Report(r, type) ==
  act' = [act EXCEPT ![r].pc = type, ![r].application = None]

(* validateIntegrity, on the application row the request read.              *)
BuildAllowed(application, build) == application.build \in {None, build}

(* An empty version, in the request or in the row, is not compared.         *)
VersionAllowed(a, version) ==
  version = None \/ AppVersion[a] \in {None, version}

(* reserve_api_nonce, called with the id of an application: a row of a      *)
(* deleted one breaks the foreign key and the call fails.                   *)
IsFreshInEmpty(a, n) == nonces = {}   \* mutant: any row collides
IsFresh(a, n) == <<a, n>> \notin nonces
ReserveUnreferenced(a, n) ==          \* mutant: without the foreign key
  nonces' = nonces \cup {<<a, n>>}
ReserveNonce(a, n) == AppExists(a) /\ nonces' = nonces \cup {<<a, n>>}

-----------------------------------------------------------------------------
(* An SDK sends a request.  The nonce is its own, or, when the network      *)
(* delivers an earlier request again, the nonce of that one.                *)
Activate(r, a, l, d, b, v) ==
  /\ act[r].pc = "idle"
  /\ act' = [act EXCEPT ![r] = [Unsent EXCEPT !.pc = "select_app", !.app = a,
       !.license = l, !.hwid = d, !.build = b, !.version = v, !.nonce = r]]
  /\ UNCHANGED db

ActivateAgain(r, first) ==
  /\ act[r].pc = "idle"
  /\ act[first].nonce = first
  /\ act' = [act EXCEPT ![r] = [Unsent EXCEPT !.pc = "select_app",
       !.app = act[first].app, !.license = act[first].license,
       !.hwid = act[first].hwid, !.build = act[first].build,
       !.version = act[first].version, !.nonce = first]]
  /\ UNCHANGED db

SelectApplication(r) ==
  LET a == act[r].app
  IN /\ act[r].pc = "select_app"
     /\ IF AppExists(a) /\ apps[a].enabled
        THEN act' = [act EXCEPT ![r].pc = "reserve", ![r].application = apps[a]]
        ELSE End(r, "rejected")
     /\ UNCHANGED db

(* The reservation, and the checks that need no further statement: the      *)
(* build and the version, against the application row read before it.       *)
Reserve(r) ==
  LET q == act[r]
  IN /\ q.pc = "reserve"
     /\ ReserveNonce(q.app, q.nonce)
     /\ \/ ~IsFresh(q.app, q.nonce) /\ Report(r, "replay_detected")
        \/ /\ IsFresh(q.app, q.nonce)
           /\ ~BuildAllowed(q.application, q.build)
           /\ Report(r, "integrity_mismatch")
        \/ /\ IsFresh(q.app, q.nonce)
           /\ BuildAllowed(q.application, q.build)
           /\ IF VersionAllowed(q.app, q.version)
              THEN act' = [act EXCEPT ![r].pc = "select_license",
                                      ![r].application = None]
              ELSE End(r, "rejected")
     /\ UNCHANGED <<apps, licenses, sessions, resets, events, now>>

(* The event is recorded of whatever the application is by now, and the     *)
(* request is answered with the rejection, if the answer can be signed.     *)
RecordEvent(r) ==
  /\ act[r].pc \in EventTypes
  /\ Record(act[r].pc, act[r].app)
  /\ \E outcome \in {"rejected", "threw"} : End(r, outcome)
  /\ UNCHANGED <<apps, licenses, sessions, resets, nonces, now>>

(* The key is looked up among the licenses of the request's application.    *)
FindsLicenseAnywhere(a, l) == LicenseExists(l)   \* mutant: no such filter
FindsLicense(a, l) == LicenseExists(l) /\ AppOf[l] = a

SelectLicense(r) ==
  LET l == act[r].license
  IN /\ act[r].pc = "select_license"
     /\ IF FindsLicense(act[r].app, l) /\ licenses[l].status = "active"
        THEN act' = [act EXCEPT ![r].pc = "decide", ![r].row = licenses[l]]
        ELSE End(r, "rejected")
     /\ UNCHANGED db

(* The expiry a first bind would give the license, from the row as read.    *)
EffectiveExpiry(l, row) ==
  IF row.expires = None /\ row.hwid = None /\ Duration[l] > 0
  THEN now + Duration[l]
  ELSE row.expires

Decide(r) ==
  LET q == act[r]
      expiry == EffectiveExpiry(q.license, q.row)
  IN /\ q.pc = "decide"
     /\ IF IsExpired(expiry) \/ q.row.hwid \notin {None, q.hwid}
        THEN End(r, "rejected")
        ELSE act' = [act EXCEPT ![r].pc = IF q.row.hwid = None THEN "bind" ELSE "mint",
                                ![r].expiry = expiry]
     /\ UNCHANGED db

BoundWithoutExpiry(l, q) ==   \* mutant: the expiry is not written
  [licenses EXCEPT ![l].hwid = q.hwid]

(* The conditional update: it binds a license that is still unbound, and    *)
(* starts the clock of a timed one unless the row, as read, had an expiry.  *)
Bound(l, q) ==
  [licenses EXCEPT ![l].hwid = q.hwid,
     ![l].expires = IF q.expiry # None /\ q.row.expires = None THEN q.expiry ELSE @]

StillExists(l) == LicenseExists(l)   \* mutant: without hwid=is.null
StillUnbound(l) == LicenseExists(l) /\ licenses[l].hwid = None

Bind(r) ==
  LET l == act[r].license
  IN /\ act[r].pc = "bind"
     /\ IF StillUnbound(l)
        THEN licenses' = Bound(l, act[r]) /\ act' = [act EXCEPT ![r].pc = "mint"]
        ELSE act' = [act EXCEPT ![r].pc = "reread"] /\ UNCHANGED licenses
     /\ UNCHANGED <<apps, sessions, resets, logs, now>>

(* The update met no unbound row: go on only if this device is the one that *)
(* was bound meanwhile, with the expiry that bind gave the license.         *)
RereadKeepsExpiry(r) ==   \* mutant: effectiveExpiry is not read again
  LET l == act[r].license
  IN /\ act[r].pc = "reread"
     /\ IF LicenseExists(l) /\ licenses[l].hwid = act[r].hwid
        THEN act' = [act EXCEPT ![r].pc = "mint"]
        ELSE End(r, "rejected")
     /\ UNCHANGED db

Reread(r) ==
  LET l == act[r].license
  IN /\ act[r].pc = "reread"
     /\ IF LicenseExists(l) /\ licenses[l].hwid = act[r].hwid
        THEN act' = [act EXCEPT ![r].pc = "mint", ![r].expiry = licenses[l].expires]
        ELSE End(r, "rejected")
     /\ UNCHANGED db

-----------------------------------------------------------------------------
(* The token and the first challenge are drawn, and the expiry computed.    *)
MintWithoutExpiry(r) ==   \* mutant: the session gets no expiry
  /\ act[r].pc = "mint"
  /\ act' = [act EXCEPT ![r].pc = "insert", ![r].row = None]
  /\ UNCHANGED db

Mint(r) ==
  /\ act[r].pc = "mint"
  /\ act' = [act EXCEPT ![r].pc = "insert", ![r].row = None,
                        ![r].sessionExpiry = now + SessionTTL]
  /\ UNCHANGED db

(* The row refers to its application and its license: without them the      *)
(* insert fails, and the handler with it.                                   *)
InsertSession(r) ==
  LET q == act[r]
  IN /\ q.pc = "insert"
     /\ AppExists(q.app) /\ LicenseExists(q.license)
     /\ sessions' = [sessions EXCEPT ![r] =
          [app |-> q.app, license |-> q.license, hwid |-> q.hwid,
           expires |-> q.sessionExpiry, challenge |-> r, revoked |-> FALSE]]
     /\ act' = [act EXCEPT ![r].pc = "reply", ![r].sessionExpiry = None]
     /\ UNCHANGED <<apps, licenses, resets, logs, now>>

(* The signed reply carries the token, the challenge and effectiveExpiry.   *)
Reply(r) ==
  /\ act[r].pc = "reply"
  /\ act' = [act EXCEPT ![r].pc = "done", ![r].outcome = "ok"]
  /\ UNCHANGED db

(* Any statement may fail before it is executed or after it was, and so may *)
(* the signature of the reply: the handler throws, and what it has written  *)
(* stays.                                                                   *)
Throw(r) ==
  /\ act[r].pc \notin {"idle", "done"}
  /\ End(r, "threw")
  /\ UNCHANGED db

ActivationStep(r) ==
  \/ SelectApplication(r) \/ Reserve(r) \/ RecordEvent(r)
  \/ SelectLicense(r) \/ Decide(r)
  \/ Bind(r) \/ Reread(r) \/ Mint(r) \/ InsertSession(r) \/ Reply(r) \/ Throw(r)

ActivationNext ==
  \E r \in Activations :
    \/ \E a \in Apps, l \in Licenses, d \in Devices,
          b \in Builds \cup {None}, v \in Versions \cup {None} :
         Activate(r, a, l, d, b, v)
    \/ \E first \in Activations : ActivateAgain(r, first)
    \/ ActivationStep(r)

(* What the client has in hand: tokens come with the replies.               *)
Returned(r) == act[r].outcome = "ok"
=============================================================================
