----------------------------- MODULE BindingProofs -----------------------------
(***************************************************************************)
(* Proofs about the binding of licenses to devices: the requests and the    *)
(* reset workflow implement DeviceBinding, so devices are bounded by        *)
(* approved resets; and the expiry of a timed license is set and reported.  *)
(***************************************************************************)
EXTENDS EliteAuthProofs, FiniteSetTheorems

(* What the owner's updates do to licenses: some are deleted with all that  *)
(* refers to them, the others keep their device, their expiry, their resets *)
(* and their sessions.                                                      *)
SameLicense(l) ==
  /\ LicenseExists(l)' <=> LicenseExists(l)
  /\ licenses'[l].hwid = licenses[l].hwid
  /\ licenses'[l].expires = licenses[l].expires
  /\ Approved(l)' = Approved(l)

OwnerEffect(gone) ==
  /\ \A l \in Licenses \ gone : SameLicense(l)
  /\ \A l \in gone : ~LicenseExists(l)' /\ Approved(l)' = {}
  /\ \A s \in Activations :
       sessions[s] # None /\ sessions[s].license \notin gone
       => sessions'[s] # None /\ SameSession(s)
  /\ \A k \in Links : resetRequests'[k] = "approved" => resetRequests[k] = "approved"

LEMMA CascadeEffect ==
  ASSUME TypeOK, NEW gone \in SUBSET Licenses, Cascade(gone)
  PROVE  /\ \A l \in Licenses \ gone : SameLicense(l)
         /\ \A l \in gone : ~LicenseExists(l)' /\ Approved(l)' = {}
         /\ \A k \in Links :
              resetRequests'[k] = "approved" => resetRequests[k] = "approved"
<1> DEFINE links == UNION {LinksOf(l) : l \in gone}
<1>1. /\ licenses' = [l \in Licenses |-> IF l \in gone THEN None ELSE licenses[l]]
      /\ resetLinks' = [k \in Links |-> IF k \in links THEN None ELSE resetLinks[k]]
      /\ resetRequests' = [k \in Links |->
                             IF k \in links THEN "none" ELSE resetRequests[k]]
  BY DEF Cascade
<1>2. \A k \in Links :
        k \in links <=> resetLinks[k] # None /\ resetLinks[k].license \in gone
  BY DEF LinksOf
<1> HIDE DEF links
<1>3. ASSUME NEW l \in Licenses \ gone PROVE Approved(l)' = Approved(l)
  BY <1>1, <1>2 DEF Approved, LinksOf
<1>4. ASSUME NEW l \in gone PROVE Approved(l)' = {}
  BY <1>1, <1>2 DEF Approved, LinksOf
<1>5. \A l \in Licenses \ gone : SameLicense(l)
  BY <1>1, <1>3 DEF SameLicense, LicenseExists
<1>6. \A l \in gone : ~LicenseExists(l)'
  BY <1>1 DEF LicenseExists
<1> QED
  BY <1>1, <1>4, <1>5, <1>6

LEMMA OwnerSteps ==
  ASSUME TypeOK, OpenInv, OwnerNext
  PROVE  \E gone \in SUBSET Licenses : OwnerEffect(gone)
<1> DEFINE Good == \E gone \in SUBSET Licenses : OwnerEffect(gone)
<1>0. /\ licenses \in [Licenses -> LicenseRow \cup {None}]
      /\ sessions \in [Activations -> SessionRow \cup {None}]
  BY DEF TypeOK, SchemaTypeOK
<1>1. ASSUME UNCHANGED resets, NoNewSession,
             \A l \in Licenses : /\ LicenseExists(l)' <=> LicenseExists(l)
                                 /\ licenses'[l].hwid = licenses[l].hwid
                                 /\ licenses'[l].expires = licenses[l].expires,
             \A s \in Activations : sessions[s] # None => sessions'[s] # None
      PROVE  Good
  <2>1. \A l \in Licenses : Approved(l)' = Approved(l)
    BY <1>1 DEF Approved, LinksOf, resets
  <2>2. OwnerEffect({})
    BY <1>1, <2>1 DEF OwnerEffect, SameLicense, NoNewSession, resets
  <2> QED
    BY <2>2
<1>2. ASSUME UNCHANGED <<licenses, sessions, resets>> PROVE Good
  BY <1>1, <1>2 DEF NoNewSession, SameSession, LicenseExists
<1>3. ASSUME NEW l \in Licenses, NEW status \in {"active", "disabled"},
             SetStatus(l, status)
      PROVE  Good
  <2>1. /\ licenses' = [licenses EXCEPT ![l] = [licenses[l] EXCEPT !.status = status]]
        /\ licenses[l] \in LicenseRow /\ UNCHANGED <<sessions, resets>>
    BY <1>0, <1>3 DEF SetStatus, LicenseExists
  <2>2. /\ licenses'[l] \in LicenseRow
        /\ licenses'[l].hwid = licenses[l].hwid
        /\ licenses'[l].expires = licenses[l].expires
        /\ \A m \in Licenses \ {l} : licenses'[m] = licenses[m]
    BY <1>0, <2>1 DEF LicenseRow
  <2>3. licenses'[l] # None /\ licenses[l] # None
    BY <2>1, <2>2, NoneIsNoValue
  <2> QED
    BY <1>1, <2>1, <2>2, <2>3 DEF NoNewSession, SameSession, LicenseExists
<1>4. ASSUME NEW a \in Apps, NEW enabled \in BOOLEAN, SetEnabled(a, enabled)
      PROVE  Good
  BY <1>2, <1>4 DEF SetEnabled
<1>5. ASSUME NEW a \in Apps, NEW build \in Builds \cup {None},
             UpdateIntegrity(a, build)
      PROVE  Good
  BY <1>2, <1>5 DEF UpdateIntegrity
<1>6. ASSUME NEW l \in Licenses, DeleteLicense(l) PROVE Good
  <2>1. /\ Cascade({l})
        /\ \A s \in Activations : sessions[s] # None /\ sessions[s].license # l
                                  => sessions'[s] = sessions[s]
    BY <1>6 DEF DeleteLicense
  <2>2. OwnerEffect({l})
    BY <2>1, CascadeEffect DEF OwnerEffect, SameSession
  <2> QED
    BY <2>2
<1>7. ASSUME NEW a \in Apps, DeleteApplication(a) PROVE Good
  <2> DEFINE gone == {l \in Licenses : AppOf[l] = a}
  <2>1. /\ Cascade(gone)
        /\ \A s \in Activations :
             sessions[s] # None /\ sessions[s].app # a /\ sessions[s].license \notin gone
             => sessions'[s] = sessions[s]
    BY <1>7 DEF DeleteApplication
  <2>2. \A s \in Activations :
          sessions[s] # None /\ sessions[s].license \notin gone => sessions[s].app # a
    BY <1>0 DEF OpenInv, Opens, SessionRow
  <2>3. OwnerEffect(gone)
    BY <2>1, <2>2, CascadeEffect DEF OwnerEffect, SameSession
  <2> QED
    BY <2>3
<1>8. ASSUME NEW s \in Activations, RevokeSession(s) PROVE Good
  <2>1. /\ sessions' = [sessions EXCEPT ![s] = [sessions[s] EXCEPT !.revoked = TRUE]]
        /\ sessions[s] \in SessionRow /\ UNCHANGED <<licenses, resets>>
    BY <1>0, <1>8 DEF RevokeSession
  <2>2. sessions'[s] \in SessionRow
    BY <1>0, <2>1 DEF SessionRow
  <2>3. \A x \in Activations : sessions[x] # None => sessions'[x] # None
    BY <1>0, <2>1, <2>2, NoneIsNoValue
  <2>4. NoNewSession
    BY <1>8, OwnerSessions DEF OwnerNext
  <2> QED
    BY <1>1, <2>1, <2>3, <2>4 DEF LicenseExists
<1> QED
  BY <1>3, <1>4, <1>5, <1>6, <1>7, <1>8 DEF OwnerNext

(* What the reset workflow does to licenses: an approval unbinds one and    *)
(* adds to its approved resets, and nothing else has an effect on them.     *)
Approves(k, l) ==
  /\ LicenseExists(l) /\ k \notin Approved(l)
  /\ licenses' = [licenses EXCEPT ![l].hwid = None]
  /\ Approved(l)' = Approved(l) \cup {k}
  /\ \A m \in Licenses \ {l} : Approved(m)' = Approved(m)
  /\ \A j \in Links \ {k} : resetRequests'[j] = resetRequests[j]

NoneApproved ==
  /\ UNCHANGED licenses
  /\ \A l \in Licenses : Approved(l)' = Approved(l)
  /\ \A k \in Links : resetRequests'[k] = "approved" <=> resetRequests[k] = "approved"

LEMMA ResetSteps ==
  ASSUME TypeOK, NoOrphans, ResetNext
  PROVE  NoneApproved \/ \E k \in Links, l \in Licenses : Approves(k, l)
<1>0. /\ resetLinks \in [Links -> LinkRow \cup {None}]
      /\ resetRequests \in [Links -> Status]
      /\ \A k \in Links :
           /\ resetLinks[k] # None => LicenseExists(resetLinks[k].license)
           /\ resetRequests[k] # "none" => resetLinks[k] # None /\ resetLinks[k].used
  BY DEF TypeOK, SchemaTypeOK, NoOrphans
<1>1. ASSUME NEW k \in Links, NEW l \in Licenses, CreateHwidResetLink(k, l)
      PROVE  NoneApproved
  <2>1. /\ resetLinks[k] = None /\ resetRequests[k] = "none"
        /\ \A j \in Links \ {k} : resetLinks'[j] = resetLinks[j]
        /\ UNCHANGED <<licenses, resetRequests>>
    BY <1>0, <1>1 DEF CreateHwidResetLink
  <2>2. \A m \in Licenses : Approved(m)' = Approved(m)
    BY <2>1 DEF Approved, LinksOf
  <2> QED
    BY <2>1, <2>2 DEF NoneApproved
<1>2. ASSUME NEW k \in Links, SubmitHwidResetRequest(k) PROVE NoneApproved
  <2>1. /\ resetLinks[k] \in LinkRow /\ resetRequests[k] = "none"
        /\ resetRequests' = [resetRequests EXCEPT ![k] = "pending"]
        /\ resetLinks' = [resetLinks EXCEPT ![k] = [resetLinks[k] EXCEPT !.used = TRUE]]
        /\ UNCHANGED licenses
    BY <1>0, <1>2 DEF SubmitHwidResetRequest
  <2>2. /\ \A j \in Links : resetRequests'[j] = "approved" <=> resetRequests[j] = "approved"
        /\ \A j \in Links : resetRequests[j] = "approved" => resetLinks'[j] = resetLinks[j]
    BY <1>0, <2>1
  <2>3. \A m \in Licenses : Approved(m)' = Approved(m)
    BY <2>2 DEF Approved, LinksOf
  <2> QED
    BY <2>1, <2>2, <2>3 DEF NoneApproved
<1>3. ASSUME NEW k \in Links, ApproveHwidResetRequest(k)
      PROVE  \E l \in Licenses : Approves(k, l)
  <2> DEFINE l == resetLinks[k].license
  <2>1. /\ resetRequests[k] = "pending" /\ resetLinks[k] # None
        /\ LicenseExists(l) /\ l \in Licenses
    BY <1>0, <1>3 DEF ApproveHwidResetRequest, LinkRow
  <2>2. /\ resetRequests' = [resetRequests EXCEPT ![k] = "approved"]
        /\ UNCHANGED resetLinks
        /\ licenses' = [licenses EXCEPT ![l].hwid = None]
    BY <1>3 DEF ApproveHwidResetRequest, Unbind
  <2>3. /\ resetRequests'[k] = "approved"
        /\ \A j \in Links \ {k} : resetRequests'[j] = resetRequests[j]
    BY <1>0, <2>2
  <2>4. k \notin Approved(l) /\ Approved(l)' = Approved(l) \cup {k}
    BY <2>1, <2>2, <2>3 DEF Approved, LinksOf
  <2>5. \A m \in Licenses \ {l} : Approved(m)' = Approved(m)
    BY <2>1, <2>2, <2>3 DEF Approved, LinksOf
  <2> QED
    BY <2>1, <2>2, <2>3, <2>4, <2>5 DEF Approves
<1>4. ASSUME NEW k \in Links, RejectHwidResetRequest(k) PROVE NoneApproved
  <2>1. /\ UNCHANGED <<licenses, resetLinks>>
        /\ \A j \in Links : resetRequests'[j] = "approved" <=> resetRequests[j] = "approved"
    BY <1>0, <1>4 DEF RejectHwidResetRequest
  <2>2. \A m \in Licenses : Approved(m)' = Approved(m)
    BY <2>1 DEF Approved, LinksOf
  <2> QED
    BY <2>1, <2>2 DEF NoneApproved
<1> QED
  BY <1>1, <1>2, <1>3, <1>4 DEF ResetNext

LEMMA CheckTables == ASSUME CheckNext PROVE UNCHANGED <<licenses, resets, act>>
  BY DEF CheckNext, CheckStep, CheckSession, CheckSessionAgain,
         CheckSelectApplication, CheckReserve, CheckRecordEvent, SelectSession,
         Verify, Rotate, CheckSelectLicense, Judge, CheckThrow, db, resets

-----------------------------------------------------------------------------
(* A license has rows of sessions.                                          *)
Used(l) == \E s \in Activations : sessions[s] # None /\ sessions[s].license = l

(* Why a timed license always has its expiry: a request that saw it without *)
(* one brings one along, and a request that saw one, or saw the license     *)
(* bound, tells that it has one for good.                                   *)
TimedRequest(l, q) ==
  /\ q.pc \in {"decide", "bind"} /\ q.row.expires # None => licenses[l].expires # None
  /\ q.pc = "decide" /\ q.row.hwid # None => q.row.expires # None
  /\ q.pc = "bind" => q.row.expires # None \/ q.expiry # None
  /\ q.pc \in {"mint", "insert"} => licenses[l].expires # None

Timed(l) == LicenseExists(l) /\ Duration[l] > 0

TimedInv ==
  \A l \in Licenses :
    Timed(l) =>
      /\ licenses[l].hwid # None \/ Used(l) => licenses[l].expires # None
      /\ \A r \in Activations : act[r].license = l => TimedRequest(l, act[r])

(* Why clients are told the stored expiry as long as no reset is approved:  *)
(* the license is bound once, so whoever saw it bound saw the final expiry, *)
(* and whoever did not either binds it or reads it again.                   *)
ReportRequest(l, q) ==
  /\ q.pc \in {"decide", "bind"} =>
       IF q.row.hwid = None THEN q.row.expires = None
       ELSE licenses[l].hwid # None /\ licenses[l].expires = q.row.expires
  /\ q.pc = "bind" => q.row.hwid = None
  /\ q.pc \in {"mint", "insert", "reply"} \/ q.outcome = "ok" =>
       licenses[l].hwid # None /\ licenses[l].expires = q.expiry

NeverReset(l) == LicenseExists(l) /\ Approved(l) = {}

ReportInv ==
  \A l \in Licenses :
    NeverReset(l) =>
      /\ licenses[l].hwid = None => licenses[l].expires = None
      /\ \A r \in Activations : act[r].license = l => ReportRequest(l, act[r])

ExpiryInv == TimedInv /\ ReportInv

(* No step but a bind changes the expiry of a license, and only an approved *)
(* reset unbinds one.                                                       *)
Elsewhere ==
  /\ UNCHANGED act
  /\ \A l \in Licenses :
       LicenseExists(l)' =>
         /\ LicenseExists(l) /\ licenses'[l].expires = licenses[l].expires
         /\ \/ licenses'[l].hwid = licenses[l].hwid /\ Approved(l)' = Approved(l)
            \/ licenses'[l].hwid = None /\ Approved(l)' # {}
  /\ \A s \in Activations :
       sessions'[s] # None =>
         sessions[s] # None /\ sessions'[s].license = sessions[s].license

LEMMA ElsewhereExpiry == ASSUME ExpiryInv, Elsewhere PROVE ExpiryInv'
<1>1. \A l \in Licenses : Used(l)' => Used(l)
  BY DEF Elsewhere, Used
<1>2. ASSUME NEW l \in Licenses, Timed(l)'
      PROVE  /\ licenses'[l].hwid # None \/ Used(l)' => licenses'[l].expires # None
             /\ \A r \in Activations :
                  act'[r].license = l => TimedRequest(l, act[r])'
  <2>1. /\ Timed(l) /\ licenses'[l].expires = licenses[l].expires
        /\ licenses'[l].hwid # None => licenses[l].hwid # None
    BY <1>2 DEF Timed, Elsewhere
  <2>2. \A r \in Activations : act'[r].license = l => TimedRequest(l, act[r])
    BY <2>1 DEF ExpiryInv, TimedInv, Elsewhere
  <2>3. \A r \in Activations : TimedRequest(l, act[r]) => TimedRequest(l, act[r])'
    BY <2>1 DEF TimedRequest, Elsewhere
  <2> QED
    BY <1>1, <2>1, <2>2, <2>3 DEF ExpiryInv, TimedInv
<1>3. ASSUME NEW l \in Licenses, NeverReset(l)'
      PROVE  /\ licenses'[l].hwid = None => licenses'[l].expires = None
             /\ \A r \in Activations :
                  act'[r].license = l => ReportRequest(l, act[r])'
  <2>1. /\ NeverReset(l) /\ licenses'[l].expires = licenses[l].expires
        /\ licenses'[l].hwid = licenses[l].hwid
    BY <1>3 DEF NeverReset, Elsewhere
  <2>2. \A r \in Activations : act'[r].license = l => ReportRequest(l, act[r])
    BY <2>1 DEF ExpiryInv, ReportInv, Elsewhere
  <2>3. \A r \in Activations : ReportRequest(l, act[r]) => ReportRequest(l, act[r])'
    BY <2>1 DEF ReportRequest, Elsewhere
  <2> QED
    BY <2>1, <2>2, <2>3 DEF ExpiryInv, ReportInv
<1>4. TimedInv'
  BY <1>2 DEF TimedInv
<1>5. ReportInv'
  BY <1>3 DEF ReportInv
<1> QED
  BY <1>4, <1>5 DEF ExpiryInv

(* A step of an activation that leaves the licenses alone has only to       *)
(* answer for its own request, and for the session it may open.             *)
LEMMA QuietExpiry ==
  ASSUME ExpiryInv, NEW r \in Activations,
         \A x \in Activations \ {r} : act'[x] = act[x] /\ sessions'[x] = sessions[x],
         UNCHANGED <<licenses, resets>>,
         NEW l, l = act'[r].license,
         \/ sessions'[r] = sessions[r]
         \/ sessions'[r].license = l /\ (Timed(l) => licenses[l].expires # None),
         l \in Licenses /\ Timed(l) => TimedRequest(l, act'[r]),
         l \in Licenses /\ NeverReset(l) => ReportRequest(l, act'[r])
  PROVE  ExpiryInv'
<1>1. /\ \A m \in Licenses : Timed(m)' <=> Timed(m)
      /\ \A m \in Licenses : NeverReset(m)' <=> NeverReset(m)
  BY DEF Timed, NeverReset, LicenseExists, Approved, LinksOf, resets
<1>2. \A m \in Licenses : Used(m)' => Used(m) \/ (m = l /\ sessions'[r] # sessions[r])
  BY DEF Used
<1>3. ASSUME NEW m \in Licenses, Timed(m)
      PROVE  /\ licenses'[m].hwid # None \/ Used(m)' => licenses'[m].expires # None
             /\ \A x \in Activations :
                  act'[x].license = m => TimedRequest(m, act[x])'
  BY <1>2, <1>3 DEF ExpiryInv, TimedInv, TimedRequest
<1>4. ASSUME NEW m \in Licenses, NeverReset(m)
      PROVE  /\ licenses'[m].hwid = None => licenses'[m].expires = None
             /\ \A x \in Activations :
                  act'[x].license = m => ReportRequest(m, act[x])'
  BY <1>4 DEF ExpiryInv, ReportInv, ReportRequest
<1> QED
  BY <1>1, <1>3, <1>4 DEF ExpiryInv, TimedInv, ReportInv

(* The bind: the license had no device, so no request relied on one, and it *)
(* leaves with the expiry that is reported.                                 *)
LEMMA BindExpiry ==
  ASSUME TypeOK, OpenInv, ExpiryInv, NEW r \in Activations,
         \A x \in Activations \ {r} : act'[x] = act[x],
         UNCHANGED resets, SameRequest(r), act'[r].outcome = act[r].outcome,
         Binds(r), NEW l, l = act[r].license
  PROVE  ExpiryInv'
<1> DEFINE q == act[r]
<1>1. /\ l \in Licenses /\ q.hwid \in Devices /\ q.hwid # None
      /\ licenses[l] \in LicenseRow /\ licenses[l].hwid = None
      /\ DOMAIN licenses = Licenses
  <2>1. q \in ActivationRow /\ q.pc = "bind" /\ HasRead(q)
    BY DEF TypeOK, ActivationTypeOK, Binds, Advances
  <2>2. l \in Licenses /\ q.hwid \in Devices /\ q.hwid # None
    BY <2>1 DEF ActivationRow, HasRead
  <2>3. licenses[l] # None /\ licenses[l].hwid = None
    BY DEF Binds, StillUnbound, LicenseExists
  <2> QED
    BY <2>2, <2>3 DEF TypeOK, SchemaTypeOK
<1>2. /\ licenses'[l] \in LicenseRow
      /\ licenses'[l].hwid = q.hwid
      /\ licenses'[l].expires =
           IF q.expiry # None /\ q.row.expires = None
           THEN q.expiry ELSE licenses[l].expires
      /\ \A m \in Licenses \ {l} : licenses'[m] = licenses[m]
  <2>1. licenses' = Bound(l, q)
    BY DEF Binds
  <2>2. q.expiry \in Nat \cup {None}
    BY DEF TypeOK, ActivationTypeOK, ActivationRow
  <2> QED
    BY <1>1, <2>1, <2>2 DEF Bound, LicenseRow
<1>3. LicenseExists(l)' /\ LicenseExists(l)
  BY <1>1, <1>2, NoneIsNoValue DEF LicenseExists
<1>4. /\ \A m \in Licenses : Timed(m)' <=> Timed(m)
      /\ \A m \in Licenses : NeverReset(m)' <=> NeverReset(m)
      /\ \A m \in Licenses : Used(m)' <=> Used(m)
  <2>1. ASSUME NEW m \in Licenses PROVE LicenseExists(m)' <=> LicenseExists(m)
    <3>1. CASE m = l
      BY <1>3, <3>1
    <3>2. CASE m # l
      BY <1>2, <3>2 DEF LicenseExists
    <3> QED
      BY <3>1, <3>2
  <2>2. \A m : Approved(m)' = Approved(m)
    BY DEF Approved, LinksOf, resets
  <2>3. \A m : Used(m)' <=> Used(m)
    BY DEF Used, Binds
  <2> QED
    BY <2>1, <2>2, <2>3 DEF Timed, NeverReset
<1>5. /\ q.pc = "bind" /\ act'[r].pc = "mint" /\ act'[r].license = l
      /\ act'[r].expiry = q.expiry /\ act'[r].outcome = q.outcome
      /\ q.outcome # "ok"
  BY DEF Binds, Advances, SameRequest, OpenInv, Opens, Returned
<1> HIDE DEF q
<1>6. ASSUME NEW m \in Licenses, Timed(m)
      PROVE  /\ licenses'[m].hwid # None \/ Used(m)' => licenses'[m].expires # None
             /\ \A x \in Activations :
                  act'[x].license = m => TimedRequest(m, act[x])'
  <2>1. /\ licenses[m].hwid # None \/ Used(m) => licenses[m].expires # None
        /\ \A x \in Activations : act[x].license = m => TimedRequest(m, act[x])
    BY <1>6 DEF ExpiryInv, TimedInv
  <2>2. CASE m = l
    <3>1. licenses'[m].expires # None
      BY <1>1, <1>2, <1>5, <2>1, <2>2 DEF TimedRequest, q
    <3> QED
      BY <1>5, <2>1, <2>2, <3>1 DEF TimedRequest
  <2>3. CASE m # l
    BY <1>2, <1>4, <1>5, <2>1, <2>3 DEF TimedRequest
  <2> QED
    BY <2>2, <2>3
<1>7. ASSUME NEW m \in Licenses, NeverReset(m)
      PROVE  /\ licenses'[m].hwid = None => licenses'[m].expires = None
             /\ \A x \in Activations :
                  act'[x].license = m => ReportRequest(m, act[x])'
  <2>1. /\ licenses[m].hwid = None => licenses[m].expires = None
        /\ \A x \in Activations : act[x].license = m => ReportRequest(m, act[x])
    BY <1>7 DEF ExpiryInv, ReportInv
  <2>2. CASE m = l
    <3>1. /\ licenses'[m].hwid # None /\ licenses'[m].expires = q.expiry
          /\ licenses[m].hwid = None
      BY <1>1, <1>2, <1>5, <2>1, <2>2 DEF ReportRequest, q
    <3> QED
      BY <1>5, <2>1, <2>2, <3>1 DEF ReportRequest
  <2>3. CASE m # l
    BY <1>2, <1>5, <2>1, <2>3 DEF ReportRequest
  <2> QED
    BY <2>2, <2>3
<1> QED
  BY <1>4, <1>6, <1>7 DEF ExpiryInv, TimedInv, ReportInv

LEMMA ActivationExpiry ==
  ASSUME TypeOK, OpenInv, ExpiryInv, ActivationNext PROVE ExpiryInv'
<1>1. PICK r \in Activations : Step(r)
  BY ActivationSteps
<1>2. PICK l : l = act'[r].license
  OBVIOUS
<1>3. /\ \A x \in Activations \ {r} : act'[x] = act[x] /\ sessions'[x] = sessions[x]
      /\ UNCHANGED <<resets, now>>
      /\ ~Binds(r) => UNCHANGED licenses
      /\ ~Inserts(r) => sessions'[r] = sessions[r]
  BY <1>1 DEF Step, Sends, Ends, Looks, Decides, Binds, LosesRace, Inserts,
              Answers, db
<1>4. /\ Returned(r) => act[r].pc = "done"
      /\ act[r].pc = "decide" => act[r].hwid \in Devices /\ act[r].hwid # None
      /\ l \in Licenses /\ LicenseExists(l) => licenses[l] \in LicenseRow
      /\ act[r].pc = "reread" => act[r].hwid \in Devices /\ act[r].hwid # None
  <2>1. act[r] \in ActivationRow /\ HasRead(act[r])
    BY DEF TypeOK, ActivationTypeOK
  <2>2. act[r].pc # "idle" => act[r].hwid \in Devices /\ act[r].hwid # None
    BY <2>1 DEF ActivationRow, HasRead
  <2> QED
    BY <2>2 DEF OpenInv, Opens, TypeOK, SchemaTypeOK, LicenseExists
<1>5. CASE Binds(r)
  <2>1. SameRequest(r) /\ act'[r].outcome = act[r].outcome
    BY <1>1, <1>5 DEF Step, Sends, Ends, Answers, Binds, Advances
  <2> QED
    BY <1>2, <1>3, <1>5, <2>1, BindExpiry DEF SameRequest
<1>6. CASE ~Binds(r)
  <2> USE DEF Advances
  <2> DEFINE TimedGoal == l \in Licenses /\ Timed(l) => TimedRequest(l, act'[r])
             ReportGoal ==
               l \in Licenses /\ NeverReset(l) => ReportRequest(l, act'[r])
             UsedGoal == \/ sessions'[r] = sessions[r]
                         \/ /\ sessions'[r].license = l
                            /\ l \in Licenses /\ Timed(l) => licenses[l].expires # None
  <2>1. l \in Licenses /\ Timed(l) /\ act[r].license = l =>
          /\ TimedRequest(l, act[r])
          /\ licenses[l].hwid # None => licenses[l].expires # None
    BY DEF ExpiryInv, TimedInv
  <2>2. l \in Licenses /\ NeverReset(l) /\ act[r].license = l =>
          /\ ReportRequest(l, act[r])
          /\ licenses[l].hwid = None => licenses[l].expires = None
    BY DEF ExpiryInv, ReportInv
  <2>3. CASE Sends(r)
    <3>1. /\ act'[r].pc = "select_app" /\ act'[r].outcome # "ok"
          /\ sessions'[r] = sessions[r]
      BY <2>3 DEF Sends, db
    <3> QED
      BY <1>2, <1>3, <1>6, <3>1, QuietExpiry DEF TimedRequest, ReportRequest
  <2>4. CASE Ends(r)
    <3>1. /\ act'[r].pc = "done" /\ act'[r].outcome # "ok"
          /\ sessions'[r] = sessions[r]
      BY <2>4 DEF Ends
    <3> QED
      BY <1>2, <1>3, <1>6, <3>1, QuietExpiry DEF TimedRequest, ReportRequest
  <2>5. CASE SameRequest(r) /\ act'[r].outcome = act[r].outcome /\ Looks(r)
    <3>1. /\ act[r].license = l /\ sessions'[r] = sessions[r]
          /\ act'[r].outcome # "ok"
      BY <1>2, <1>4, <2>5 DEF SameRequest, Looks, Returned
    <3>2. TimedGoal
      BY <1>2, <2>1, <2>5, <3>1 DEF Looks, TimedRequest
    <3>3. ReportGoal
      BY <1>2, <2>2, <2>5, <3>1 DEF Looks, ReportRequest
    <3> QED
      BY <1>2, <1>3, <1>6, <3>1, <3>2, <3>3, QuietExpiry
  <2>6. CASE SameRequest(r) /\ act'[r].outcome = act[r].outcome /\ Decides(r)
    <3>1. /\ act[r].license = l /\ sessions'[r] = sessions[r]
          /\ act'[r].outcome # "ok"
          /\ act'[r].row = act[r].row /\ act[r].pc = "decide"
          /\ \/ act'[r].pc = "bind" /\ act[r].row.hwid = None
             \/ act'[r].pc = "mint" /\ act[r].row.hwid # None
          /\ act'[r].expiry = EffectiveExpiry(l, act[r].row)
      BY <1>2, <1>4, <2>6 DEF SameRequest, Decides, Returned
    <3>2. Timed(l) => now + Duration[l] # None
      <4>1. l \in Licenses => now + Duration[l] \in Nat
        BY SchemaAssumption DEF TypeOK, SchemaTypeOK
      <4>2. act[r].pc = "decide" => l \in Licenses
        BY <3>1 DEF TypeOK, ActivationTypeOK, ActivationRow, HasRead
      <4> QED
        BY <3>1, <4>1, <4>2, NoneIsNoValue
    <3>3. TimedGoal
      BY <2>1, <3>1, <3>2 DEF TimedRequest, EffectiveExpiry, Timed
    <3>4. ReportGoal
      BY <2>2, <3>1 DEF ReportRequest, EffectiveExpiry
    <3> QED
      BY <1>2, <1>3, <1>6, <3>1, <3>3, <3>4, QuietExpiry
  <2>7. CASE SameRequest(r) /\ act'[r].outcome = act[r].outcome /\ LosesRace(r)
    <3>1. /\ act[r].license = l /\ sessions'[r] = sessions[r]
          /\ act'[r].outcome # "ok"
          /\ \/ act'[r].pc = "reread"
             \/ /\ act'[r].pc = "mint" /\ licenses[l].hwid # None
                /\ act'[r].expiry = licenses[l].expires
      BY <1>2, <1>4, <2>7 DEF SameRequest, LosesRace, Returned
    <3>2. TimedGoal
      BY <2>1, <3>1 DEF TimedRequest
    <3>3. ReportGoal
      BY <2>2, <3>1 DEF ReportRequest
    <3> QED
      BY <1>2, <1>3, <1>6, <3>1, <3>2, <3>3, QuietExpiry
  <2>8. CASE SameRequest(r) /\ act'[r].outcome = act[r].outcome /\ Inserts(r)
    <3>1. /\ act[r].license = l /\ sessions'[r].license = l
          /\ act'[r].outcome # "ok" /\ act[r].pc = "insert"
          /\ act'[r].pc = "reply" /\ act'[r].expiry = act[r].expiry
      BY <1>2, <1>4, <2>8 DEF SameRequest, Inserts, Returned
    <3>2. TimedGoal /\ (l \in Licenses /\ Timed(l) => licenses[l].expires # None)
      BY <2>1, <3>1 DEF TimedRequest
    <3>3. ReportGoal
      BY <2>2, <3>1 DEF ReportRequest
    <3>4. l \in Licenses
      BY <3>1 DEF TypeOK, ActivationTypeOK, ActivationRow, HasRead
    <3> QED
      BY <1>2, <1>3, <1>6, <3>1, <3>2, <3>3, <3>4, QuietExpiry
  <2>9. CASE SameRequest(r) /\ Answers(r)
    <3>1. /\ act[r].license = l /\ sessions'[r] = sessions[r]
          /\ \/ act[r].pc = "mint" /\ act'[r].pc = "insert"
             \/ act[r].pc = "reply" /\ act'[r].pc = "done"
          /\ act'[r].expiry = act[r].expiry
      BY <1>2, <2>9 DEF SameRequest, Answers
    <3>2. TimedGoal
      BY <2>1, <3>1 DEF TimedRequest
    <3>3. ReportGoal
      BY <2>2, <3>1 DEF ReportRequest
    <3> QED
      BY <1>2, <1>3, <1>6, <3>1, <3>2, <3>3, QuietExpiry
  <2> QED
    BY <1>1, <1>6, <2>3, <2>4, <2>5, <2>6, <2>7, <2>8, <2>9 DEF Step
<1> QED
  BY <1>5, <1>6

LEMMA ExpiryInit == Init => ExpiryInv
<1> SUFFICES ASSUME Init PROVE ExpiryInv
  OBVIOUS
<1>1. /\ \A l \in Licenses : licenses[l].hwid = None /\ licenses[l].expires = None
      /\ \A s \in Activations : sessions[s] = None
      /\ \A r \in Activations : act[r].pc = "idle" /\ act[r].outcome # "ok"
  BY SchemaAssumption DEF Init, SchemaInit, ActivationInit, NewLicense, Unsent
<1> QED
  BY <1>1 DEF ExpiryInv, TimedInv, ReportInv, Used, TimedRequest, ReportRequest

LEMMA ExpiryNext ==
  ASSUME TypeOK, NoOrphans, OpenInv, ConsumeInv, ExpiryInv, [Next]_vars
  PROVE  ExpiryInv'
<1>1. CASE ActivationNext /\ UNCHANGED chk
  BY <1>1, ActivationExpiry
<1>2. CASE CheckNext
  <2>1. UNCHANGED <<licenses, resets, act>> /\ CheckEffect
    BY <1>2, CheckTables, CheckConsumes
  <2> QED
    BY <2>1, ElsewhereExpiry
       DEF Elsewhere, CheckEffect, LicenseExists, Approved, LinksOf, resets
<1>3. CASE ResetNext /\ UNCHANGED <<act, chk>>
  <2>1. UNCHANGED sessions
    BY <1>3, ResetSessions
  <2>2. CASE NoneApproved
    BY <1>3, <2>1, <2>2, ElsewhereExpiry DEF Elsewhere, NoneApproved, LicenseExists
  <2>3. ASSUME NEW k \in Links, NEW l \in Licenses, Approves(k, l)
        PROVE  ExpiryInv'
    <3>1. /\ licenses'[l].hwid = None /\ licenses'[l].expires = licenses[l].expires
          /\ \A m \in Licenses \ {l} : licenses'[m] = licenses[m]
          /\ LicenseExists(l) /\ k \in Approved(l)'
      <4>1. licenses[l] \in LicenseRow /\ DOMAIN licenses = Licenses
        BY <2>3 DEF Approves, TypeOK, SchemaTypeOK, LicenseExists
      <4> QED
        BY <2>3, <4>1 DEF Approves, LicenseRow
    <3>2. Elsewhere
      BY <1>3, <2>1, <2>3, <3>1 DEF Elsewhere, Approves, LicenseExists
    <3> QED
      BY <3>2, ElsewhereExpiry
  <2> QED
    BY <1>3, <2>2, <2>3, ResetSteps
<1>4. CASE OwnerNext /\ UNCHANGED <<act, chk>>
  <2>1. PICK gone \in SUBSET Licenses : OwnerEffect(gone)
    BY <1>4, OwnerSteps
  <2>2. NoNewSession
    BY <1>4, OwnerSessions
  <2> QED
    BY <1>4, <2>1, <2>2, ElsewhereExpiry
       DEF Elsewhere, OwnerEffect, SameLicense, NoNewSession, SameSession
<1>5. CASE UNCHANGED <<licenses, sessions, resets, act>>
  BY <1>5, ElsewhereExpiry
     DEF Elsewhere, LicenseExists, Approved, LinksOf, resets
<1>6. CASE Tick /\ UNCHANGED <<act, chk>>
  BY <1>5, <1>6 DEF Tick, tables, resets
<1>7. CASE UNCHANGED vars
  BY <1>5, <1>7 DEF vars, db, resets
<1> QED
  BY <1>1, <1>2, <1>3, <1>4, <1>6, <1>7 DEF Next

(* The invariant of the expiries, given that rows and requests are well     *)
(* formed and that a session belongs to one activation.                     *)
THEOREM ExpirySound == Spec => []ExpiryInv
<1>1. Init => ExpiryInv
  BY ExpiryInit
<1>2. SessionInv /\ NoOrphans /\ ExpiryInv /\ [Next]_vars => ExpiryInv'
  BY ExpiryNext DEF SessionInv
<1> QED
  BY <1>1, <1>2, SessionsSound, ReferencesHold, PTL DEF Spec

(* A timed license that is bound, or was ever used, has an expiry, for any  *)
(* number of racing activations and resets (activateLicense).               *)
THEOREM TimedLicensesExpire == Spec => []TimedLicenseExpires
<1>1. ExpiryInv => TimedLicenseExpires
  BY DEF ExpiryInv, TimedInv, Timed, Used, TimedLicenseExpires, SessionDevices
<1> QED
  BY <1>1, ExpirySound, PTL

(* Without an approved reset clients are told the expiry that is stored     *)
(* (activateLicense reads it again when it loses the race to bind).         *)
THEOREM ReportsHold == Spec => []ReportedExpiryIsStored
<1>1. SessionInv /\ ExpiryInv => ReportedExpiryIsStored
  <2> SUFFICES ASSUME SessionInv, ExpiryInv, NEW r \in Activations, Returned(r),
                      LicenseExists(act[r].license), Approved(act[r].license) = {}
               PROVE  act[r].expiry = licenses[act[r].license].expires
    BY DEF ReportedExpiryIsStored
  <2>1. act[r].pc # "idle" /\ act[r] \in ActivationRow /\ HasRead(act[r])
    BY DEF SessionInv, OpenInv, Opens, TypeOK, ActivationTypeOK
  <2>2. act[r].license \in Licenses
    BY <2>1 DEF ActivationRow, HasRead
  <2> QED
    BY <2>2 DEF ExpiryInv, ReportInv, NeverReset, ReportRequest, Returned
<1> QED
  BY <1>1, ExpirySound, SessionsSound, PTL

-----------------------------------------------------------------------------
(* Activation s gives device d a title to sessions of license l.            *)
Holds(s, l, d) ==
  \/ sessions[s] # None /\ sessions[s].license = l /\ sessions[s].hwid = d
  \/ act[s].license = l /\ act[s].hwid = d /\ PastBinding(s)

BoundTo(l, d) == LicenseExists(l) /\ licenses[l].hwid = d /\ d # None

LEMMA EntitledMember ==
  ASSUME NEW l, NEW d
  PROVE  /\ d \in Entitled(l) <=> BoundTo(l, d) \/ \E s \in Activations : Holds(s, l, d)
         /\ (d \in Entitled(l) <=>
              BoundTo(l, d) \/ \E s \in Activations : Holds(s, l, d))'
<1>1. d \in Entitled(l) <=> BoundTo(l, d) \/ \E s \in Activations : Holds(s, l, d)
  BY DEF Entitled, SessionDevices, BoundTo, Holds
<1>2. (d \in Entitled(l) <=>
        BoundTo(l, d) \/ \E s \in Activations : Holds(s, l, d))'
  BY DEF Entitled, SessionDevices, BoundTo, Holds
<1> QED
  BY <1>1, <1>2

(* The tables as DeviceBinding sees them stay as they are.                  *)
SameBinding(l) ==
  /\ LicenseExists(l)' <=> LicenseExists(l)
  /\ LicenseExists(l) => licenses'[l].hwid = licenses[l].hwid
  /\ Approved(l)' = Approved(l)

LEMMA Stutters ==
  ASSUME \A l \in Licenses : SameBinding(l) /\ Entitled(l)' = Entitled(l)
  PROVE  UNCHANGED Binding!vars
<1>1. UNCHANGED boundBar
  BY DEF SameBinding, boundBar
<1>2. UNCHANGED resetsBar
  BY DEF SameBinding, resetsBar
<1>3. UNCHANGED entitledBar
  BY DEF entitledBar
<1>4. UNCHANGED deletedBar
  BY DEF SameBinding, deletedBar
<1> QED
  BY <1>1, <1>2, <1>3, <1>4 DEF Binding!vars

LEMMA Forgets ==
  ASSUME NEW l \in Licenses, \A m \in Licenses : SameBinding(m),
         \A m \in Licenses \ {l} : Entitled(m)' = Entitled(m),
         Entitled(l)' \subseteq Entitled(l)
  PROVE  Binding!Forget(l)
<1>1. UNCHANGED boundBar
  BY DEF SameBinding, boundBar
<1>2. UNCHANGED resetsBar
  BY DEF SameBinding, resetsBar
<1>3. UNCHANGED deletedBar
  BY DEF SameBinding, deletedBar
<1>4. /\ Entitled(l)' \in SUBSET entitledBar[l]
      /\ entitledBar' = [entitledBar EXCEPT ![l] = Entitled(l)']
  BY DEF entitledBar
<1>5. l \in deletedBar \/ boundBar[l] \in Entitled(l)' \cup {None}
  <2>1. CASE LicenseExists(l) /\ licenses[l].hwid # None
    <3>1. BoundTo(l, boundBar[l])'
      BY <1>1, <2>1 DEF BoundTo, SameBinding, boundBar
    <3> QED
      BY <1>1, <3>1, EntitledMember
  <2> QED
    BY <2>1 DEF boundBar, deletedBar
<1> QED
  BY <1>1, <1>2, <1>3, <1>4, <1>5 DEF Binding!Forget

-----------------------------------------------------------------------------
(* A step of an activation that does not bind: what it adds to the titles   *)
(* the license already gave, and what it ends is given up by its license.   *)
LEMMA QuietBinding ==
  ASSUME NEW r \in Activations,
         \A x \in Activations \ {r} : act'[x] = act[x] /\ sessions'[x] = sessions[x],
         UNCHANGED <<licenses, resets>>
  PROVE  /\ \A l \in Licenses : SameBinding(l)
         /\ \A l, d : BoundTo(l, d)' <=> BoundTo(l, d)
         /\ \A l, d : \A s \in Activations \ {r} : Holds(s, l, d)' <=> Holds(s, l, d)
<1>1. \A l \in Licenses : SameBinding(l)
  BY DEF SameBinding, LicenseExists, Approved, LinksOf, resets
<1>2. \A l, d : BoundTo(l, d)' <=> BoundTo(l, d)
  BY DEF BoundTo, LicenseExists
<1>3. \A l, d : \A s \in Activations \ {r} : Holds(s, l, d)' <=> Holds(s, l, d)
  BY DEF Holds, PastBinding
<1> QED
  BY <1>1, <1>2, <1>3

LEMMA QuietStutters ==
  ASSUME NEW r \in Activations,
         \A x \in Activations \ {r} : act'[x] = act[x] /\ sessions'[x] = sessions[x],
         UNCHANGED <<licenses, resets>>,
         \A l \in Licenses : \A d :
           Holds(r, l, d)' \/ BoundTo(l, d) <=> Holds(r, l, d) \/ BoundTo(l, d)
  PROVE  UNCHANGED Binding!vars
<1>1. ASSUME NEW l \in Licenses, NEW d PROVE d \in Entitled(l)' <=> d \in Entitled(l)
  BY EntitledMember, QuietBinding
<1>2. \A l \in Licenses : Entitled(l)' = Entitled(l)
  BY <1>1
<1> QED
  BY <1>2, QuietBinding, Stutters

LEMMA QuietForgets ==
  ASSUME NEW r \in Activations,
         \A x \in Activations \ {r} : act'[x] = act[x] /\ sessions'[x] = sessions[x],
         UNCHANGED <<licenses, resets>>, UNCHANGED sessions,
         NEW l \in Licenses, l = act[r].license, ~PastBinding(r)'
  PROVE  Binding!Forget(l)
<1>1. ASSUME NEW m \in Licenses, NEW d
      PROVE  /\ d \in Entitled(m)' => d \in Entitled(m)
             /\ m # l => (d \in Entitled(m)' <=> d \in Entitled(m))
  <2>1. /\ Holds(r, m, d)' => Holds(r, m, d)
        /\ m # l => (Holds(r, m, d)' <=> Holds(r, m, d))
    BY DEF Holds
  <2> QED
    BY <2>1, EntitledMember, QuietBinding
<1>2. \A m \in Licenses \ {l} : Entitled(m)' = Entitled(m)
  BY <1>1
<1>3. Entitled(l)' \subseteq Entitled(l)
  BY <1>1
<1> QED
  BY <1>2, <1>3, QuietBinding, Forgets

LEMMA BindStep ==
  ASSUME TypeOK, NEW r \in Activations,
         \A x \in Activations \ {r} : act'[x] = act[x],
         UNCHANGED resets, SameRequest(r), Binds(r),
         NEW l, l = act[r].license, NEW e, e = act[r].hwid
  PROVE  l \in Licenses /\ e \in Devices /\ Binding!Bind(l, e)
<1>1. /\ l \in Licenses /\ e \in Devices /\ e # None
  <2>1. act[r] \in ActivationRow /\ act[r].pc = "bind" /\ HasRead(act[r])
    BY DEF TypeOK, ActivationTypeOK, Binds, Advances
  <2> QED
    BY <2>1 DEF ActivationRow, HasRead
<1>2. /\ licenses[l] \in LicenseRow /\ licenses[l].hwid = None
      /\ DOMAIN licenses = Licenses /\ LicenseExists(l)
  <2>1. licenses[l] # None /\ licenses[l].hwid = None
    BY DEF Binds, StillUnbound, LicenseExists
  <2> QED
    BY <1>1, <2>1 DEF TypeOK, SchemaTypeOK, LicenseExists
<1>3. /\ licenses'[l] \in LicenseRow /\ licenses'[l].hwid = e
      /\ \A m \in Licenses \ {l} : licenses'[m] = licenses[m]
  <2>1. licenses' = Bound(l, act[r])
    BY DEF Binds
  <2>2. act[r].expiry \in Nat \cup {None}
    BY DEF TypeOK, ActivationTypeOK, ActivationRow
  <2> QED
    BY <1>1, <1>2, <2>1, <2>2 DEF Bound, LicenseRow
<1>4. LicenseExists(l)'
  BY <1>3, NoneIsNoValue DEF LicenseExists
<1>5. /\ l \notin deletedBar /\ boundBar[l] = None
      /\ boundBar' = [boundBar EXCEPT ![l] = e]
  BY <1>1, <1>2, <1>3, <1>4 DEF deletedBar, boundBar, LicenseExists
<1>6. UNCHANGED resetsBar
  <2>1. \A m \in Licenses : Approved(m)' = Approved(m)
    BY DEF Approved, LinksOf, resets
  <2> QED
    BY <2>1 DEF resetsBar
<1>7. UNCHANGED deletedBar
  BY <1>2, <1>3, <1>4 DEF deletedBar, LicenseExists
<1>8. ASSUME NEW m \in Licenses, NEW d
      PROVE  d \in Entitled(m)' <=> d \in Entitled(m) \/ (m = l /\ d = e)
  <2>1. \A s \in Activations \ {r} : Holds(s, m, d)' <=> Holds(s, m, d)
    BY DEF Holds, PastBinding, Binds
  <2>2. Holds(r, m, d)' <=> Holds(r, m, d) \/ (m = l /\ d = e)
    BY DEF Holds, PastBinding, Binds, Advances, SameRequest
  <2>3. BoundTo(m, d)' <=> BoundTo(m, d) \/ (m = l /\ d = e)
    BY <1>1, <1>2, <1>3, <1>4 DEF BoundTo, LicenseExists
  <2> QED
    BY <2>1, <2>2, <2>3, EntitledMember
<1>9. /\ Entitled(l)' = Entitled(l) \cup {e}
      /\ \A m \in Licenses \ {l} : Entitled(m)' = Entitled(m)
  BY <1>1, <1>8
<1>10. entitledBar' = [entitledBar EXCEPT ![l] = @ \cup {e}]
  BY <1>1, <1>9 DEF entitledBar
<1> QED
  BY <1>1, <1>5, <1>6, <1>7, <1>10 DEF Binding!Bind

BindingStep == Binding!Next \/ UNCHANGED Binding!vars

LEMMA ActivationBinding ==
  ASSUME TypeOK, OpenInv, ActivationNext PROVE BindingStep
<1>1. PICK r \in Activations : Step(r)
  BY ActivationSteps
<1>2. /\ act[r] \in ActivationRow /\ HasRead(act[r])
      /\ act[r].pc # "idle" =>
           /\ act[r].license \in Licenses
           /\ act[r].hwid \in Devices /\ act[r].hwid # None
  <2>1. act[r] \in ActivationRow /\ HasRead(act[r])
    BY DEF TypeOK, ActivationTypeOK
  <2> QED
    BY <2>1 DEF ActivationRow, HasRead
<1>3. /\ \A x \in Activations \ {r} : act'[x] = act[x] /\ sessions'[x] = sessions[x]
      /\ UNCHANGED resets
      /\ ~Binds(r) => UNCHANGED licenses
      /\ ~Inserts(r) => UNCHANGED sessions
  BY <1>1 DEF Step, Sends, Ends, Looks, Decides, Binds, LosesRace, Inserts,
              Answers, db
<1>4. CASE Binds(r)
  <2>1. SameRequest(r)
    BY <1>1, <1>4 DEF Step, Sends, Binds, Advances
  <2>2. PICK l, e : l = act[r].license /\ e = act[r].hwid
    OBVIOUS
  <2>3. l \in Licenses /\ e \in Devices /\ Binding!Bind(l, e)
    BY <1>3, <1>4, <2>1, <2>2, BindStep
  <2> QED
    BY <2>3 DEF BindingStep, Binding!Next
<1>5. CASE Ends(r)
  <2>1. PICK l : l = act[r].license
    OBVIOUS
  <2>2. l \in Licenses /\ ~PastBinding(r)' /\ UNCHANGED <<licenses, sessions>>
    BY <1>2, <1>5, <2>1 DEF Ends, PastBinding
  <2>3. Binding!Forget(l)
    BY <1>3, <2>1, <2>2, QuietForgets
  <2> QED
    BY <2>2, <2>3 DEF BindingStep, Binding!Next
<1>6. CASE ~Binds(r) /\ ~Ends(r)
  <2>1. UNCHANGED licenses
    BY <1>3, <1>6
  <2>2. ASSUME NEW l \in Licenses, NEW d
        PROVE  Holds(r, l, d)' \/ BoundTo(l, d) <=> Holds(r, l, d) \/ BoundTo(l, d)
    <3>1. CASE Inserts(r)
      <4>1. sessions[r] = None /\ act[r].pc = "insert" /\ act'[r].pc = "reply"
        BY <3>1 DEF Inserts, Advances, OpenInv, Opens
      <4>2. /\ sessions'[r] # None /\ sessions'[r].license = act[r].license
            /\ sessions'[r].hwid = act[r].hwid
        BY <3>1 DEF Inserts
      <4>3. Holds(r, l, d) <=> act[r].license = l /\ act[r].hwid = d
        BY <4>1 DEF Holds, PastBinding
      <4>4. Holds(r, l, d)' <=> act[r].license = l /\ act[r].hwid = d
        BY <4>1, <4>2 DEF Holds, PastBinding
      <4> QED
        BY <4>3, <4>4
    <3>2. CASE ~Inserts(r)
      <4> DEFINE Mine == act[r].license = l /\ act[r].hwid = d
                 Mine2 == act'[r].license = l /\ act'[r].hwid = d
      <4>1. /\ Holds(r, l, d)' <=>
                  \/ sessions[r] # None /\ sessions[r].license = l /\ sessions[r].hwid = d
                  \/ Mine2 /\ PastBinding(r)'
            /\ Holds(r, l, d) <=>
                  \/ sessions[r] # None /\ sessions[r].license = l /\ sessions[r].hwid = d
                  \/ Mine /\ PastBinding(r)
        BY <1>3, <3>2 DEF Holds, PastBinding
      <4>2. CASE Sends(r)
        <5>1. ~PastBinding(r) /\ ~PastBinding(r)'
          BY <4>2 DEF Sends, Advances, PastBinding
        <5> QED
          BY <4>1, <5>1
      <4>3. CASE SameRequest(r) /\ Answers(r)
        <5>1. CASE Advances(r, "mint", "insert")
          BY <4>1, <4>3, <5>1 DEF SameRequest, Advances, PastBinding
        <5>2. CASE Advances(r, "reply", "done")
          BY <4>1, <5>2 DEF Advances, PastBinding
        <5> QED
          BY <4>3, <5>1, <5>2 DEF Answers
      <4>4. CASE SameRequest(r) /\ Looks(r)
        <5>1. ~PastBinding(r)
          BY <4>4 DEF Looks, Advances, PastBinding
        <5>2. Mine2 /\ PastBinding(r)' => BoundTo(l, d)
          BY <1>2, <4>4
             DEF Looks, Advances, SameRequest, PastBinding, BoundTo, FindsLicense
        <5> QED
          BY <4>1, <5>1, <5>2
      <4>5. CASE SameRequest(r) /\ Decides(r)
        <5>1. PastBinding(r)' <=> PastBinding(r)
          BY <1>2, <4>5 DEF Decides, Advances, PastBinding
        <5> QED
          BY <4>1, <4>5, <5>1 DEF SameRequest
      <4>6. CASE SameRequest(r) /\ LosesRace(r)
        <5>1. ~PastBinding(r)
          BY <4>6 DEF LosesRace, Advances, PastBinding
        <5>2. Mine2 /\ PastBinding(r)' => BoundTo(l, d)
          BY <1>2, <4>6 DEF LosesRace, Advances, SameRequest, PastBinding, BoundTo
        <5> QED
          BY <4>1, <5>1, <5>2
      <4> QED
        BY <1>1, <1>6, <3>2, <4>2, <4>3, <4>4, <4>5, <4>6 DEF Step
    <3> QED
      BY <3>1, <3>2
  <2>3. UNCHANGED Binding!vars
    BY <1>3, <2>1, <2>2, QuietStutters
  <2> QED
    BY <2>3 DEF BindingStep
<1> QED
  BY <1>4, <1>5, <1>6

-----------------------------------------------------------------------------
(* Finitely many resets are approved at any time, however many links exist. *)
ApprovedLinks == {k \in Links : resetRequests[k] = "approved"}

FewResets == IsFiniteSet(ApprovedLinks)

(* An approved reset releases the license.                                  *)
LEMMA ApprovalBinding ==
  ASSUME TypeOK, FewResets, UNCHANGED <<act, sessions>>,
         NEW k \in Links, NEW l \in Licenses, Approves(k, l)
  PROVE  Binding!Release(l)
<1>1. /\ licenses[l] \in LicenseRow /\ licenses[l] # None
      /\ DOMAIN licenses = Licenses
  BY DEF TypeOK, SchemaTypeOK, Approves, LicenseExists
<1>2. /\ licenses'[l] \in LicenseRow /\ licenses'[l].hwid = None
      /\ \A m \in Licenses \ {l} : licenses'[m] = licenses[m]
  BY <1>1 DEF Approves, LicenseRow
<1>3. LicenseExists(l)' /\ LicenseExists(l)
  BY <1>1, <1>2, NoneIsNoValue DEF LicenseExists
<1>4. boundBar' = [boundBar EXCEPT ![l] = None]
  BY <1>2, <1>3 DEF boundBar, LicenseExists
<1>5. l \notin deletedBar /\ UNCHANGED deletedBar
  BY <1>2, <1>3 DEF deletedBar, LicenseExists
<1>6. Cardinality(Approved(l)') = Cardinality(Approved(l)) + 1
  <2>1. Approved(l) \subseteq ApprovedLinks
    BY DEF Approved, ApprovedLinks, LinksOf
  <2>2. IsFiniteSet(Approved(l))
    BY <2>1, FS_Subset DEF FewResets
  <2>3. Approved(l)' = Approved(l) \cup {k} /\ k \notin Approved(l)
    BY DEF Approves
  <2> QED
    BY <2>2, <2>3, FS_AddElement
<1>7. resetsBar' = [resetsBar EXCEPT ![l] = @ + 1]
  BY <1>6 DEF resetsBar, Approves
<1>8. ASSUME NEW m \in Licenses, NEW d
      PROVE  /\ d \in Entitled(m)' => d \in Entitled(m)
             /\ m # l => (d \in Entitled(m)' <=> d \in Entitled(m))
  <2>1. \A s \in Activations : Holds(s, m, d)' <=> Holds(s, m, d)
    BY DEF Holds, PastBinding
  <2>2. /\ BoundTo(m, d)' => BoundTo(m, d)
        /\ m # l => (BoundTo(m, d)' <=> BoundTo(m, d))
    BY <1>2, <1>3 DEF BoundTo, LicenseExists
  <2> QED
    BY <2>1, <2>2, EntitledMember
<1>9. /\ Entitled(l)' \in SUBSET entitledBar[l]
      /\ entitledBar' = [entitledBar EXCEPT ![l] = Entitled(l)']
  <2>1. /\ Entitled(l)' \subseteq Entitled(l)
        /\ \A m \in Licenses \ {l} : Entitled(m)' = Entitled(m)
    BY <1>8
  <2> QED
    BY <2>1 DEF entitledBar
<1> QED
  BY <1>4, <1>5, <1>7, <1>9 DEF Binding!Release

(* The licenses the owner deletes are gone, the others do not notice.       *)
LEMMA OwnerBinding ==
  ASSUME TypeOK, UNCHANGED act, NoNewSession,
         NEW gone \in SUBSET Licenses, OwnerEffect(gone)
  PROVE  Binding!Delete(gone)
<1>1. boundBar' = [l \in Licenses |-> IF l \in gone THEN None ELSE boundBar[l]]
  BY DEF OwnerEffect, SameLicense, boundBar
<1>2. deletedBar' = deletedBar \cup gone
  BY DEF OwnerEffect, SameLicense, deletedBar
<1>3. resetsBar' = [l \in Licenses |-> IF l \in gone THEN 0 ELSE resetsBar[l]]
  <2>1. Cardinality({}) = 0
    BY FS_EmptySet
  <2> QED
    BY <2>1 DEF OwnerEffect, SameLicense, resetsBar
<1>4. ASSUME NEW l \in Licenses, NEW d
      PROVE  /\ d \in Entitled(l)' => d \in Entitled(l)
             /\ l \notin gone => (d \in Entitled(l)' <=> d \in Entitled(l))
  <2>1. ASSUME NEW s \in Activations
        PROVE  /\ Holds(s, l, d)' => Holds(s, l, d)
               /\ l \notin gone => (Holds(s, l, d)' <=> Holds(s, l, d))
    BY DEF OwnerEffect, NoNewSession, SameSession, Holds, PastBinding
  <2>2. /\ BoundTo(l, d)' => BoundTo(l, d)
        /\ l \notin gone => (BoundTo(l, d)' <=> BoundTo(l, d))
    BY DEF OwnerEffect, SameLicense, BoundTo, LicenseExists
  <2> QED
    BY <2>1, <2>2, EntitledMember
<1>5. /\ \A l \in Licenses \ gone : entitledBar'[l] = entitledBar[l]
      /\ \A l \in gone : entitledBar'[l] \subseteq entitledBar[l]
      /\ DOMAIN entitledBar' = Licenses
  <2>1. /\ \A l \in Licenses \ gone : Entitled(l)' = Entitled(l)
        /\ \A l \in Licenses : Entitled(l)' \subseteq Entitled(l)
    BY <1>4
  <2> QED
    BY <2>1 DEF entitledBar
<1> QED
  BY <1>1, <1>2, <1>3, <1>5 DEF Binding!Delete

(* A check at most rotates the challenge of a session.                      *)
LEMMA CheckBinding ==
  ASSUME UNCHANGED <<licenses, resets, act>>, CheckEffect
  PROVE  UNCHANGED Binding!vars
<1>1. \A l \in Licenses : SameBinding(l)
  BY DEF SameBinding, LicenseExists, Approved, LinksOf, resets
<1>2. ASSUME NEW l \in Licenses, NEW d PROVE d \in Entitled(l)' <=> d \in Entitled(l)
  <2>1. \A s \in Activations : Holds(s, l, d)' <=> Holds(s, l, d)
    BY DEF Holds, PastBinding, CheckEffect
  <2>2. BoundTo(l, d)' <=> BoundTo(l, d)
    BY DEF BoundTo, LicenseExists
  <2> QED
    BY <2>1, <2>2, EntitledMember
<1>3. \A l \in Licenses : Entitled(l)' = Entitled(l)
  BY <1>2
<1> QED
  BY <1>1, <1>3, Stutters

LEMMA BindingInit == Init => Binding!Init
<1> SUFFICES ASSUME Init PROVE Binding!Init
  OBVIOUS
<1>1. /\ \A l \in Licenses : licenses[l].hwid = None /\ LicenseExists(l)
      /\ \A s \in Activations : sessions[s] = None /\ act[s].pc = "idle"
      /\ \A k \in Links : resetLinks[k] = None
  <2>1. NewLicense \in LicenseRow
    BY DEF NewLicense, LicenseRow
  <2> QED
    BY <2>1, NoneIsNoValue
       DEF Init, SchemaInit, ActivationInit, NewLicense, Unsent, LicenseExists
<1>2. \A l \in Licenses : Approved(l) = {}
  BY <1>1 DEF Approved, LinksOf
<1>3. ASSUME NEW l \in Licenses PROVE Entitled(l) = {}
  <2>1. ASSUME NEW d PROVE d \notin Entitled(l)
    BY <1>1, EntitledMember DEF BoundTo, Holds, PastBinding
  <2> QED
    BY <2>1
<1>4. Cardinality({}) = 0
  BY FS_EmptySet
<1> QED
  BY <1>1, <1>2, <1>3, <1>4
     DEF Binding!Init, boundBar, resetsBar, entitledBar, deletedBar

LEMMA FewResetsInit == Init => FewResets
<1> SUFFICES ASSUME Init PROVE FewResets
  OBVIOUS
<1>1. ApprovedLinks = {}
  BY DEF Init, SchemaInit, ApprovedLinks
<1> QED
  BY <1>1, FS_EmptySet DEF FewResets

(* Every step of the requests, the reset workflow and the owner is a step   *)
(* of DeviceBinding or leaves it as it is.                                  *)
LEMMA BindingNext ==
  ASSUME TypeOK, NoOrphans, OpenInv, ConsumeInv, FewResets, [Next]_vars
  PROVE  BindingStep /\ FewResets'
<1>1. CASE ActivationNext /\ UNCHANGED chk
  <2>1. UNCHANGED resetRequests
    <3>1. PICK r \in Activations : Step(r)
      BY <1>1, ActivationSteps
    <3> QED
      BY <3>1 DEF Step, resets
  <2> QED
    BY <1>1, <2>1, ActivationBinding DEF FewResets, ApprovedLinks
<1>2. CASE CheckNext
  <2>1. UNCHANGED <<licenses, resets, act>> /\ CheckEffect
    BY <1>2, CheckTables, CheckConsumes
  <2> QED
    BY <2>1, CheckBinding DEF BindingStep, FewResets, ApprovedLinks, resets
<1>3. CASE ResetNext /\ UNCHANGED <<act, chk>>
  <2>1. UNCHANGED sessions
    BY <1>3, ResetSessions
  <2>2. CASE NoneApproved
    <3>1. \A l \in Licenses : SameBinding(l)
      BY <2>2 DEF SameBinding, NoneApproved, LicenseExists
    <3>2. \A l \in Licenses : Entitled(l)' = Entitled(l)
      BY <1>3, <2>1, <2>2
         DEF Entitled, SessionDevices, PastBinding, NoneApproved, LicenseExists
    <3>3. ApprovedLinks' = ApprovedLinks
      BY <2>2 DEF NoneApproved, ApprovedLinks
    <3> QED
      BY <3>1, <3>2, <3>3, Stutters DEF BindingStep, FewResets
  <2>3. ASSUME NEW k \in Links, NEW l \in Licenses, Approves(k, l)
        PROVE  BindingStep /\ FewResets'
    <3>1. Binding!Release(l)
      BY <1>3, <2>1, <2>3, ApprovalBinding
    <3>2. ApprovedLinks' \subseteq ApprovedLinks \cup {k}
      BY <2>3 DEF Approves, ApprovedLinks
    <3>3. IsFiniteSet(ApprovedLinks \cup {k})
      BY FS_AddElement DEF FewResets
    <3>4. FewResets'
      BY <3>2, <3>3, FS_Subset DEF FewResets
    <3> QED
      BY <3>1, <3>4 DEF BindingStep, Binding!Next
  <2> QED
    BY <1>3, <2>2, <2>3, ResetSteps
<1>4. CASE OwnerNext /\ UNCHANGED <<act, chk>>
  <2>1. PICK gone \in SUBSET Licenses : OwnerEffect(gone)
    BY <1>4, OwnerSteps
  <2>2. Binding!Delete(gone)
    BY <1>4, <2>1, OwnerSessions, OwnerBinding
  <2>3. ApprovedLinks' \subseteq ApprovedLinks
    BY <2>1 DEF OwnerEffect, ApprovedLinks
  <2>4. FewResets'
    BY <2>3, FS_Subset DEF FewResets
  <2> QED
    BY <2>2, <2>4 DEF BindingStep, Binding!Next
<1>5. CASE UNCHANGED <<licenses, sessions, resets, act>>
  <2>1. CheckEffect
    BY <1>5 DEF CheckEffect
  <2> QED
    BY <1>5, <2>1, CheckBinding DEF BindingStep, FewResets, ApprovedLinks, resets
<1>6. CASE Tick /\ UNCHANGED <<act, chk>>
  BY <1>5, <1>6 DEF Tick, tables, resets
<1>7. CASE UNCHANGED vars
  BY <1>5, <1>7 DEF vars, db, resets
<1> QED
  BY <1>1, <1>2, <1>3, <1>4, <1>6, <1>7 DEF Next

(* Finitely many resets are approved at any time: each approval adds one    *)
(* (approve_hwid_reset_request), so the count of them is a number.          *)
THEOREM FewResetsHold == Spec => []FewResets
<1>1. SessionInv /\ NoOrphans /\ FewResets /\ [Next]_vars => FewResets'
  BY BindingNext DEF SessionInv
<1> QED
  BY <1>1, FewResetsInit, SessionsSound, ReferencesHold, PTL DEF Spec

(* The licensing backend implements DeviceBinding, for any licenses,        *)
(* devices and requests: a license moves to another device only through an  *)
(* approved reset (activateLicense, approve_hwid_reset_request).            *)
THEOREM BindingImplemented == Spec => ImplementsDeviceBinding
<1>1. SessionInv /\ NoOrphans /\ FewResets /\ [Next]_vars
      => [Binding!Next]_(Binding!vars)
  BY BindingNext DEF SessionInv, BindingStep
<1> QED
  BY <1>1, BindingInit, FewResetsHold, SessionsSound, ReferencesHold, PTL
     DEF Spec, ImplementsDeviceBinding, Binding!Spec

-----------------------------------------------------------------------------
(* What is proved of DeviceBinding holds of the implementation.             *)
Abstract == INSTANCE DeviceBindingProofs WITH
  bound <- boundBar, resets <- resetsBar,
  entitled <- entitledBar, deleted <- deletedBar

(* A license is used from one device and from one more for each approved    *)
(* reset: its sessions are among the entitled devices, which DeviceBinding  *)
(* bounds.                                                                  *)
THEOREM DevicesBounded == Spec => []DevicesBoundedByResets
<1>1. Binding!Init => Abstract!BindingInv
  BY Abstract!BindingInvInit DEF Binding!Init, Abstract!Init
<1>2. Abstract!BindingInv /\ [Binding!Next]_(Binding!vars) => Abstract!BindingInv'
  <2> SUFFICES ASSUME Abstract!BindingInv, [Binding!Next]_(Binding!vars)
               PROVE  Abstract!BindingInv'
    OBVIOUS
  <2>1. None \notin Devices
    BY SchemaAssumption
  <2>2. [Abstract!Next]_(Abstract!vars)
    BY DEF Binding!Next, Binding!vars, Binding!Bind, Binding!Release,
           Binding!Forget, Binding!Delete, Abstract!Next, Abstract!vars,
           Abstract!Bind, Abstract!Release, Abstract!Forget, Abstract!Delete
  <2> QED
    BY <2>1, <2>2, Abstract!BindingInvNext
<1>3. Abstract!BindingInv => DevicesBoundedByResets
  <2> SUFFICES ASSUME Abstract!BindingInv, NEW l \in Licenses, LicenseExists(l)
               PROVE  Cardinality(SessionDevices(l)) <= 1 + Cardinality(Approved(l))
    BY DEF DevicesBoundedByResets
  \* The abstract module's copies of the operators on finite sets are the
  \* library's: they are defined by the same text.
  <2>0. ASSUME NEW S PROVE /\ Abstract!IsFiniteSet(S) <=> IsFiniteSet(S)
                           /\ Abstract!Cardinality(S) = Cardinality(S)
    <3>1. Abstract!IsFiniteSet(S) <=> IsFiniteSet(S)
      BY DEF Abstract!IsFiniteSet, IsFiniteSet
    <3>2. Abstract!Cardinality(S) = Cardinality(S)
      BY <3>1 DEF Abstract!Cardinality, Cardinality
    <3> QED
      BY <3>1, <3>2
  <2>1. /\ IsFiniteSet(entitledBar[l])
        /\ resetsBar[l] \in Nat
        /\ Cardinality(entitledBar[l]) <=
             resetsBar[l] + (IF boundBar[l] = None THEN 0 ELSE 1)
    BY <2>0 DEF Abstract!BindingInv, Abstract!EntitledBounded, deletedBar
  <2>2. SessionDevices(l) \in SUBSET entitledBar[l]
    BY DEF entitledBar, Entitled
  <2>3. /\ Cardinality(SessionDevices(l)) <= Cardinality(entitledBar[l])
        /\ Cardinality(SessionDevices(l)) \in Nat
        /\ Cardinality(entitledBar[l]) \in Nat
    BY <2>0, <2>1, <2>2, Abstract!SmallerSet
  <2>4. resetsBar[l] = Cardinality(Approved(l))
    BY DEF resetsBar
  <2> QED
    BY <2>1, <2>3, <2>4
<1> QED
  BY <1>1, <1>2, <1>3, BindingImplemented, PTL
     DEF ImplementsDeviceBinding, Binding!Spec
=============================================================================
