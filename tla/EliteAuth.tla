------------------------------ MODULE EliteAuth ------------------------------
(***************************************************************************)
(* The licensing backend as a whole: concurrent requests of the Worker, the *)
(* HWID reset workflow and the owner's updates over one database.           *)
(***************************************************************************)
EXTENDS HwidReset, SessionCheck

vars == <<db, act, chk>>

Init == SchemaInit /\ ActivationInit /\ CheckInit

Next ==
  \/ ActivationNext /\ UNCHANGED chk
  \/ CheckNext
  \/ ResetNext /\ UNCHANGED <<act, chk>>
  \/ OwnerNext /\ UNCHANGED <<act, chk>>
  \/ Tick /\ UNCHANGED <<act, chk>>

Spec == Init /\ [][Next]_vars

-----------------------------------------------------------------------------
(* Type invariant of the tables and of the requests in flight.              *)
TypeOK == SchemaTypeOK /\ ActivationTypeOK /\ CheckTypeOK

(* Devices that ever opened a session under l, as far as the table tells.   *)
SessionDevices(l) ==
  {sessions[s].hwid : s \in {x \in Activations : /\ sessions[x] # None
                                                 /\ sessions[x].license = l}}

(* A license is used from one device, and from one more for each reset its  *)
(* owner approved: activations that race each other, a reset or a second    *)
(* click on Approve never add another (the bind's hwid=is.null, the reread, *)
(* the status check of approve_hwid_reset_request).                         *)
DevicesBoundedByResets ==
  \A l \in Licenses :
    LicenseExists(l) =>
      Cardinality(SessionDevices(l)) <= 1 + Cardinality(Approved(l))

(* A timed license that is bound, or was ever used, has an expiry: no order *)
(* of racing binds and resets leaves one running forever (activateLicense). *)
TimedLicenseExpires ==
  \A l \in Licenses :
    /\ LicenseExists(l) /\ Duration[l] > 0
    /\ licenses[l].hwid # None \/ SessionDevices(l) # {}
    => licenses[l].expires # None

(* While no reset is approved, an activation reports to its client the      *)
(* expiry the license really has, the loser of a race to bind included.     *)
ReportedExpiryIsStored ==
  \A r \in Activations :
    LET l == act[r].license
    IN  /\ Returned(r) /\ LicenseExists(l) /\ Approved(l) = {}
        => act[r].expiry = licenses[l].expires

(* No two checks redeem the same challenge of a session, however they       *)
(* overlap, and none that was redeemed can be redeemed again: the session   *)
(* row no longer holds it (checkSession's conditional update).              *)
ChallengeConsumedOnce ==
  \A c \in Checks :
    chk[c].rotated =>
      /\ \A other \in Checks \ {c} :
           chk[other].rotated /\ chk[other].token = chk[c].token
           => chk[other].challenge # chk[c].challenge
      /\ sessions[chk[c].token] # None =>
           sessions[chk[c].token].challenge # chk[c].challenge

(* From the moment a session is revoked no check rotates its challenge, not *)
(* even one that read the row before and found it good.                     *)
RevokedNeverRotates ==
  [][\A s \in Activations :
       /\ sessions[s] # None /\ sessions[s].revoked
       /\ sessions'[s] # None
       => /\ sessions'[s].challenge = sessions[s].challenge
          /\ sessions'[s].revoked]_vars

(* A session authenticates a license of the application it belongs to, and  *)
(* its challenge is redeemed only by checks that name this application: the *)
(* lookups of activateLicense and checkSession stay within the application  *)
(* whose nonce was reserved.                                                *)
SessionIsolation ==
  /\ \A s \in Activations :
       sessions[s] # None => sessions[s].app = AppOf[sessions[s].license]
  /\ \A c \in Checks :
       LET s == chk[c].token
       IN chk[c].rotated /\ sessions[s] # None => sessions[s].app = chk[c].app

(* Nothing outlives what it refers to: a request in flight while its        *)
(* application is deleted leaves no session, nonce or event behind.         *)
NoOrphans ==
  /\ \A s \in Activations :
       sessions[s] # None => /\ AppExists(sessions[s].app)
                             /\ LicenseExists(sessions[s].license)
  /\ \A k \in Links :
       /\ resetLinks[k] # None => LicenseExists(resetLinks[k].license)
       /\ resetRequests[k] # "none" => resetLinks[k] # None /\ resetLinks[k].used
  /\ \A x \in nonces : AppExists(x[1])
  /\ \A x \in events : AppExists(x[2])

(* A replay alarm has a cause: a request that was delivered twice, or a     *)
(* challenge that was redeemed by another check or whose session was        *)
(* revoked or deleted.  Concurrency among honest requests of different      *)
(* sessions raises none (checkSession, reserveNonce).                       *)
DeliveredTwice(a) ==
  \/ \E r1, r2 \in Activations :
       r1 # r2 /\ act[r1].nonce # None /\ act[r1].nonce = act[r2].nonce /\ act[r1].app = a
  \/ \E c1, c2 \in Checks :
       c1 # c2 /\ chk[c1].nonce # None /\ chk[c1].nonce = chk[c2].nonce /\ chk[c1].app = a
LostToAnother(c) ==
  \/ \E other \in Checks \ {c} : /\ chk[other].rotated
                                 /\ chk[other].token = chk[c].token
                                 /\ chk[other].challenge = chk[c].challenge
  \/ /\ chk[c].token # None
     /\ sessions[chk[c].token] # None => sessions[chk[c].token].revoked

AlarmsHaveCause ==
  \A a \in Apps :
    /\ <<"replay_detected", a>> \in events => DeliveredTwice(a)
    /\ <<"challenge_replay", a>> \in events =>
         \E c \in Checks : chk[c].app = a /\ LostToAnother(c)

-----------------------------------------------------------------------------
(* Devices that are bound to l, have a session, or have a request that will  *)
(* open one unless it fails or its rows are deleted: whatever happens to    *)
(* the binding meanwhile, the handler does not look at it again.            *)
PastBinding(r) ==
  \/ act[r].pc \in {"mint", "insert"}
  \/ act[r].pc = "decide" /\ act[r].row.hwid = act[r].hwid

Entitled(l) ==
  SessionDevices(l)
  \cup {act[r].hwid : r \in {x \in Activations : act[x].license = l /\ PastBinding(x)}}
  \cup (IF LicenseExists(l) THEN {licenses[l].hwid} \ {None} ELSE {})

(* What DeviceBinding sees of the tables and the requests.                  *)
boundBar == [l \in Licenses |-> IF LicenseExists(l) THEN licenses[l].hwid ELSE None]
resetsBar == [l \in Licenses |-> Cardinality(Approved(l))]
entitledBar == [l \in Licenses |-> Entitled(l)]
deletedBar == {l \in Licenses : ~LicenseExists(l)}

Binding == INSTANCE DeviceBinding WITH
  bound <- boundBar, resets <- resetsBar,
  entitled <- entitledBar, deleted <- deletedBar

(* The requests and procedures implement DeviceBinding: a license moves to  *)
(* another device only through an approved reset, and no interleaving of    *)
(* activations, resets, failures and deletions gives a session to a device  *)
(* it was not bound to.                                                     *)
ImplementsDeviceBinding == Binding!Spec

-----------------------------------------------------------------------------
(* What the documents say and the code does not do.                         *)

(* "Timed licenses begin on first successful device bind": so all           *)
(* activations of a timed license report the same end.                      *)
OneExpiryPerLicense ==
  \A r1, r2 \in Activations :
    /\ Returned(r1) /\ Returned(r2)
    /\ act[r1].license = act[r2].license
    => act[r1].expiry = act[r2].expiry

(* "Each check consumes the previous challenge and returns a newly signed   *)
(* challenge": a check that is answered and took the old one returns one.   *)
ConsumedMeansReturned ==
  \A c \in Checks :
    chk[c].outcome = "rejected" => ~chk[c].rotated
=============================================================================
