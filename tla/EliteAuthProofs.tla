--------------------------- MODULE EliteAuthProofs ---------------------------
(***************************************************************************)
(* Proofs about EliteAuth: the tables and every request in flight are       *)
(* well-typed and refer to what is there; and a session belongs to the      *)
(* application of its license, stops when it is revoked, and redeems each   *)
(* of its challenges once.                                                  *)
(***************************************************************************)
EXTENDS EliteAuth, TLAPS

(* None stands for an absent value and is none of them.                     *)
LEMMA NoneIsNoValue ==
  /\ \A x \in Apps : x # None
  /\ \A x \in Licenses : x # None
  /\ \A x \in Devices : x # None
  /\ \A x \in Requests : x # None
  /\ \A x \in Activations : x # None
  /\ \A x \in Checks : x # None
  /\ \A x \in Nat : x # None
  /\ \A x \in AppRow : x # None
  /\ \A x \in LicenseRow : x # None
  /\ \A x \in SessionRow : x # None
  BY SchemaAssumption DEF Requests

LEMMA ActivationPCs ==
  \A pc \in {"select_app", "reserve", "select_license", "decide", "bind", "reread",
             "mint", "insert", "reply", "done", "replay_detected",
             "integrity_mismatch"} : pc \in ActivationPC
BY DEF ActivationPC

(* Replacing one request's record by a well-formed one.                     *)
LEMMA ActivationUpdate ==
  ASSUME ActivationTypeOK, NEW r \in Activations, NEW q \in ActivationRow,
         HasRead(q), act' = [act EXCEPT ![r] = q]
  PROVE  ActivationTypeOK'
<1>1. act' \in [Activations -> ActivationRow]
  BY DEF ActivationTypeOK
<1>2. \A x \in Activations : HasRead(act[x])'
  BY DEF ActivationTypeOK, HasRead
<1> QED
  BY <1>1, <1>2 DEF ActivationTypeOK

LEMMA CheckUpdate ==
  ASSUME CheckTypeOK, NEW c \in Checks, NEW q \in CheckRow,
         CheckHasRead(q), chk' = [chk EXCEPT ![c] = q]
  PROVE  CheckTypeOK'
<1>1. chk' \in [Checks -> CheckRow]
  BY DEF CheckTypeOK
<1>2. \A x \in Checks : CheckHasRead(chk[x])'
  BY DEF CheckTypeOK, CheckHasRead
<1> QED
  BY <1>1, <1>2 DEF CheckTypeOK

(* A handler that ends, with whatever outcome, leaves a well-formed record. *)
LEMMA EndTypes ==
  ASSUME ActivationTypeOK, NEW r \in Activations,
         NEW outcome \in {"ok", "rejected", "threw"},
         act[r].pc # "idle", End(r, outcome)
  PROVE  ActivationTypeOK'
<1> DEFINE q == [act[r] EXCEPT !.pc = "done", !.outcome = outcome,
                               !.application = None, !.row = None,
                               !.expiry = None, !.sessionExpiry = None]
<1>1. act' = [act EXCEPT ![r] = q]
  BY DEF End
<1>2. act[r] \in ActivationRow /\ HasRead(act[r])
  BY DEF ActivationTypeOK
<1>3. q \in ActivationRow
  BY <1>2, ActivationPCs DEF ActivationRow
<1>4. HasRead(q)
  BY <1>2 DEF ActivationRow, HasRead
<1> HIDE DEF q
<1> QED
  BY <1>1, <1>3, <1>4, ActivationUpdate

LEMMA EndCheckTypes ==
  ASSUME CheckTypeOK, NEW c \in Checks,
         NEW outcome \in {"valid", "rejected", "threw"},
         chk[c].pc # "idle", EndCheck(c, outcome)
  PROVE  CheckTypeOK'
<1> DEFINE q == [chk[c] EXCEPT !.pc = "done", !.outcome = outcome,
                               !.application = None, !.session = None,
                               !.license = None]
<1>1. chk' = [chk EXCEPT ![c] = q]
  BY DEF EndCheck
<1>2. chk[c] \in CheckRow /\ CheckHasRead(chk[c])
  BY DEF CheckTypeOK
<1>3. q \in CheckRow
  BY <1>2 DEF CheckRow, CheckPC
<1>4. CheckHasRead(q)
  BY <1>2 DEF CheckRow, CheckHasRead
<1> HIDE DEF q
<1> QED
  BY <1>1, <1>3, <1>4, CheckUpdate

LEMMA ReportCheckTypes ==
  ASSUME CheckTypeOK, NEW c \in Checks, NEW type \in EventTypes,
         chk[c].pc # "idle", ReportCheck(c, type)
  PROVE  CheckTypeOK'
<1> DEFINE q == [chk[c] EXCEPT !.pc = type, !.application = None, !.session = None]
<1>1. chk[c] \in CheckRow /\ CheckHasRead(chk[c]) /\ DOMAIN chk = Checks
  BY DEF CheckTypeOK
<1>2. chk' = [chk EXCEPT ![c] = q]
  BY <1>1 DEF ReportCheck
<1>3. q \in CheckRow
  BY <1>1 DEF CheckRow, CheckPC
<1>4. CheckHasRead(q)
  BY <1>1 DEF CheckRow, CheckHasRead, EventTypes
<1> HIDE DEF q
<1> QED
  BY <1>2, <1>3, <1>4, CheckUpdate

-----------------------------------------------------------------------------
(* The owner's updates, the reset workflow and the clock keep the tables    *)
(* well-formed.                                                             *)
LEMMA OwnerTypes == ASSUME SchemaTypeOK, OwnerNext PROVE SchemaTypeOK'
<1> USE SchemaAssumption DEF SchemaTypeOK, resets, logs
<1>1. ASSUME NEW l \in Licenses, NEW status \in {"active", "disabled"},
             SetStatus(l, status)
      PROVE  SchemaTypeOK'
  BY <1>1 DEF SetStatus, LicenseExists, LicenseRow
<1>2. ASSUME NEW a \in Apps, NEW enabled \in BOOLEAN, SetEnabled(a, enabled)
      PROVE  SchemaTypeOK'
  BY <1>2 DEF SetEnabled, AppExists, AppRow
<1>3. ASSUME NEW a \in Apps, NEW build \in Builds \cup {None},
             UpdateIntegrity(a, build)
      PROVE  SchemaTypeOK'
  BY <1>3 DEF UpdateIntegrity, AppExists, AppRow
<1>4. ASSUME NEW a \in Apps, DeleteApplication(a) PROVE SchemaTypeOK'
  BY <1>4 DEF DeleteApplication, Cascade, Status
<1>5. ASSUME NEW s \in Activations, RevokeSession(s) PROVE SchemaTypeOK'
  BY <1>5 DEF RevokeSession, SessionRow
<1>6. ASSUME NEW l \in Licenses, DeleteLicense(l) PROVE SchemaTypeOK'
  BY <1>6 DEF DeleteLicense, Cascade, Status
<1> QED
  BY <1>1, <1>2, <1>3, <1>4, <1>5, <1>6 DEF OwnerNext

LEMMA ResetTypes == ASSUME SchemaTypeOK, NoOrphans, ResetNext PROVE SchemaTypeOK'
<1> USE SchemaAssumption DEF SchemaTypeOK, resets, logs
<1>1. ASSUME NEW k \in Links, NEW l \in Licenses, CreateHwidResetLink(k, l)
      PROVE  SchemaTypeOK'
  BY <1>1 DEF CreateHwidResetLink, LinkRow
<1>2. ASSUME NEW k \in Links, SubmitHwidResetRequest(k) PROVE SchemaTypeOK'
  BY <1>2 DEF SubmitHwidResetRequest, LinkRow, Status
<1>3. ASSUME NEW k \in Links, ApproveHwidResetRequest(k) PROVE SchemaTypeOK'
  <2>1. resetLinks[k] # None /\ LicenseExists(resetLinks[k].license)
    BY <1>3 DEF ApproveHwidResetRequest, NoOrphans
  <2> QED
    BY <1>3, <2>1
       DEF ApproveHwidResetRequest, Unbind, LinkRow, LicenseRow, Status, LicenseExists
<1>4. ASSUME NEW k \in Links, RejectHwidResetRequest(k) PROVE SchemaTypeOK'
  BY <1>4 DEF RejectHwidResetRequest, Status
<1> QED
  BY <1>1, <1>2, <1>3, <1>4 DEF ResetNext

(* A cascade leaves no link of a license that is gone, and no request        *)
(* without its link.                                                        *)
LEMMA CascadeReferences ==
  ASSUME SchemaTypeOK, NoOrphans, NEW gone \in SUBSET Licenses, Cascade(gone),
         NEW k \in Links
  PROVE  /\ resetLinks'[k] # None => LicenseExists(resetLinks[k].license)'
         /\ resetRequests'[k] # "none" => resetLinks'[k] # None /\ resetLinks'[k].used
<1> USE SchemaAssumption DEF SchemaTypeOK, NoOrphans, LicenseExists, Cascade
<1>1. CASE resetLinks[k] # None /\ resetLinks[k].license \in gone
  <2>1. k \in UNION {LinksOf(l) : l \in gone}
    BY <1>1 DEF LinksOf
  <2> QED
    BY <2>1
<1>2. CASE ~(resetLinks[k] # None /\ resetLinks[k].license \in gone)
  <2>1. k \notin UNION {LinksOf(l) : l \in gone}
    BY <1>2 DEF LinksOf
  <2>2. resetLinks'[k] = resetLinks[k] /\ resetRequests'[k] = resetRequests[k]
    BY <2>1
  <2> QED
    BY <1>2, <2>2 DEF LinkRow
<1> QED
  BY <1>1, <1>2

LEMMA OwnerReferences ==
  ASSUME SchemaTypeOK, NoOrphans, OwnerNext PROVE NoOrphans'
<1> USE SchemaAssumption
    DEF SchemaTypeOK, NoOrphans, AppExists, LicenseExists, resets, logs
<1>1. ASSUME NEW l \in Licenses, NEW status \in {"active", "disabled"},
             SetStatus(l, status)
      PROVE  NoOrphans'
  BY <1>1 DEF SetStatus, LicenseRow
<1>2. ASSUME NEW a \in Apps, NEW enabled \in BOOLEAN, SetEnabled(a, enabled)
      PROVE  NoOrphans'
  BY <1>2 DEF SetEnabled, AppRow
<1>3. ASSUME NEW a \in Apps, NEW build \in Builds \cup {None},
             UpdateIntegrity(a, build)
      PROVE  NoOrphans'
  BY <1>3 DEF UpdateIntegrity, AppRow
<1>4. ASSUME NEW a \in Apps, DeleteApplication(a) PROVE NoOrphans'
  <2> DEFINE gone == {l \in Licenses : AppOf[l] = a}
  <2>1. ASSUME NEW s \in Activations, sessions'[s] # None
        PROVE  AppExists(sessions[s].app)' /\ LicenseExists(sessions[s].license)'
    <3>1. /\ sessions'[s] = sessions[s] /\ sessions[s] # None
          /\ sessions[s].app # a /\ sessions[s].license \notin gone
      BY <1>4, <2>1 DEF DeleteApplication
    <3> QED
      BY <1>4, <3>1 DEF DeleteApplication, Cascade, SessionRow
  <2>2. ASSUME NEW k \in Links
        PROVE  /\ resetLinks'[k] # None => LicenseExists(resetLinks[k].license)'
               /\ resetRequests'[k] # "none" =>
                    resetLinks'[k] # None /\ resetLinks'[k].used
    BY <1>4, CascadeReferences DEF DeleteApplication
  <2>3. \A x \in nonces' : AppExists(x[1])'
    BY <1>4 DEF DeleteApplication
  <2>4. \A x \in events' : AppExists(x[2])'
    BY <1>4 DEF DeleteApplication
  <2> QED
    BY <2>1, <2>2, <2>3, <2>4
<1>5. ASSUME NEW s \in Activations, RevokeSession(s) PROVE NoOrphans'
  BY <1>5 DEF RevokeSession, SessionRow
<1>6. ASSUME NEW l \in Licenses, DeleteLicense(l) PROVE NoOrphans'
  <2>1. ASSUME NEW s \in Activations, sessions'[s] # None
        PROVE  AppExists(sessions[s].app)' /\ LicenseExists(sessions[s].license)'
    <3>1. /\ sessions'[s] = sessions[s] /\ sessions[s] # None
          /\ sessions[s].license # l
      BY <1>6, <2>1 DEF DeleteLicense
    <3> QED
      BY <1>6, <3>1 DEF DeleteLicense, Cascade, SessionRow
  <2>2. ASSUME NEW k \in Links
        PROVE  /\ resetLinks'[k] # None => LicenseExists(resetLinks[k].license)'
               /\ resetRequests'[k] # "none" =>
                    resetLinks'[k] # None /\ resetLinks'[k].used
    BY <1>6, CascadeReferences DEF DeleteLicense
  <2> QED
    BY <1>6, <2>1, <2>2 DEF DeleteLicense
<1> QED
  BY <1>1, <1>2, <1>3, <1>4, <1>5, <1>6 DEF OwnerNext

LEMMA ResetReferences ==
  ASSUME SchemaTypeOK, NoOrphans, ResetNext PROVE NoOrphans'
<1> USE SchemaAssumption
    DEF SchemaTypeOK, NoOrphans, AppExists, LicenseExists, resets, logs
<1>1. ASSUME NEW k \in Links, NEW l \in Licenses, CreateHwidResetLink(k, l)
      PROVE  NoOrphans'
  BY <1>1 DEF CreateHwidResetLink, LinkRow
<1>2. ASSUME NEW k \in Links, SubmitHwidResetRequest(k) PROVE NoOrphans'
  BY <1>2 DEF SubmitHwidResetRequest, LinkRow
<1>3. ASSUME NEW k \in Links, ApproveHwidResetRequest(k) PROVE NoOrphans'
  BY <1>3 DEF ApproveHwidResetRequest, Unbind, LicenseRow
<1>4. ASSUME NEW k \in Links, RejectHwidResetRequest(k) PROVE NoOrphans'
  BY <1>4 DEF RejectHwidResetRequest
<1> QED
  BY <1>1, <1>2, <1>3, <1>4 DEF ResetNext

-----------------------------------------------------------------------------
(* What the two handlers write to the tables.                               *)
Kept == SchemaTypeOK /\ NoOrphans

LEMMA KeptByReading == ASSUME Kept, UNCHANGED db PROVE Kept'
  BY DEF Kept, db, SchemaTypeOK, NoOrphans, AppExists, LicenseExists

LEMMA KeptByLogging ==
  ASSUME Kept, NEW a \in Apps, NEW n \in Requests, NEW type \in EventTypes,
         ReserveNonce(a, n) \/ UNCHANGED nonces,
         Record(type, a) \/ UNCHANGED events,
         UNCHANGED <<apps, licenses, sessions, resets, now>>
  PROVE  Kept'
<1>1. nonces' \subseteq Apps \X Requests /\ \A x \in nonces' : AppExists(x[1])
  BY DEF Kept, SchemaTypeOK, NoOrphans, ReserveNonce
<1>2. events' \subseteq EventTypes \X Apps /\ \A x \in events' : AppExists(x[2])
  BY DEF Kept, SchemaTypeOK, NoOrphans, Record
<1> QED
  BY <1>1, <1>2
     DEF Kept, SchemaTypeOK, NoOrphans, AppExists, LicenseExists, resets

LEMMA KeptByBind ==
  ASSUME Kept, NEW l \in Licenses, LicenseExists(l),
         NEW d \in Devices, NEW x \in Nat \cup {None},
         licenses' = [licenses EXCEPT ![l].hwid = d, ![l].expires = x],
         UNCHANGED <<apps, sessions, resets, logs, now>>
  PROVE  Kept'
<1>1. licenses'[l] \in LicenseRow
  BY DEF Kept, SchemaTypeOK, LicenseExists, LicenseRow
<1>2. licenses' \in [Licenses -> LicenseRow \cup {None}]
  BY <1>1 DEF Kept, SchemaTypeOK
<1>3. \A m \in Licenses : LicenseExists(m) => LicenseExists(m)'
  BY <1>1, SchemaAssumption DEF Kept, SchemaTypeOK, LicenseExists
<1> QED
  BY <1>2, <1>3
     DEF Kept, SchemaTypeOK, NoOrphans, AppExists, resets, logs, SessionRow, LinkRow

LEMMA KeptByInsert ==
  ASSUME Kept, NEW s \in Activations, NEW row \in SessionRow,
         AppExists(row.app), LicenseExists(row.license),
         sessions' = [sessions EXCEPT ![s] = row],
         UNCHANGED <<apps, licenses, resets, logs, now>>
  PROVE  Kept'
  BY DEF Kept, SchemaTypeOK, NoOrphans, AppExists, LicenseExists, resets, logs

-----------------------------------------------------------------------------
(* The activation handler.                                                  *)
LEMMA ActivationKeeps ==
  ASSUME Kept, ActivationTypeOK, ActivationNext
  PROVE  Kept' /\ ActivationTypeOK'
<1> DEFINE Good == Kept' /\ ActivationTypeOK'
<1>0. \A r \in Activations : act[r] \in ActivationRow /\ HasRead(act[r])
  BY DEF ActivationTypeOK
<1>1. ASSUME NEW r \in Activations, NEW a \in Apps, NEW l \in Licenses,
             NEW d \in Devices, NEW b \in Builds \cup {None},
             NEW v \in Versions \cup {None}, Activate(r, a, l, d, b, v)
      PROVE  Good
  <2> DEFINE q == [Unsent EXCEPT !.pc = "select_app", !.app = a, !.license = l,
                     !.hwid = d, !.build = b, !.version = v, !.nonce = r]
  <2>1. q \in ActivationRow
    BY ActivationPCs DEF Unsent, ActivationRow
  <2>3. q.pc = "select_app" /\ q.app = a /\ q.license = l /\ q.hwid = d /\ q.nonce = r
    BY DEF Unsent
  <2>4. HasRead(q)
    BY <2>3, NoneIsNoValue DEF HasRead
  <2>2. act' = [act EXCEPT ![r] = q] /\ UNCHANGED db
    BY <1>1 DEF Activate
  <2> HIDE DEF q
  <2> QED
    BY <2>1, <2>2, <2>4, ActivationUpdate, KeptByReading
<1>2. ASSUME NEW r \in Activations, NEW first \in Activations,
             ActivateAgain(r, first)
      PROVE  Good
  <2> DEFINE q == [Unsent EXCEPT !.pc = "select_app", !.app = act[first].app,
                     !.license = act[first].license, !.hwid = act[first].hwid,
                     !.build = act[first].build, !.version = act[first].version,
                     !.nonce = first]
  <2>0. act[first].pc # "idle" /\ act[first].nonce = first
    BY <1>0, <1>2, NoneIsNoValue DEF ActivateAgain, HasRead
  <2>1. q \in ActivationRow
    BY <1>0, ActivationPCs DEF Unsent, ActivationRow
  <2>3. /\ q.pc = "select_app" /\ q.app = act[first].app
        /\ q.license = act[first].license /\ q.hwid = act[first].hwid
        /\ q.nonce = first
    BY DEF Unsent
  <2>4. HasRead(q)
    BY <1>0, <2>0, <2>3 DEF HasRead
  <2>2. act' = [act EXCEPT ![r] = q] /\ UNCHANGED db
    BY <1>2 DEF ActivateAgain
  <2> HIDE DEF q
  <2> QED
    BY <2>1, <2>2, <2>4, ActivationUpdate, KeptByReading
<1>3. ASSUME NEW r \in Activations, SelectApplication(r) PROVE Good
  <2> DEFINE a == act[r].app
             q == [act[r] EXCEPT !.pc = "reserve", !.application = apps[a]]
  <2>1. CASE AppExists(a) /\ apps[a].enabled
    <3>1. act' = [act EXCEPT ![r] = q] /\ act[r].pc = "select_app" /\ UNCHANGED db
      BY <1>3, <2>1, <1>0 DEF SelectApplication, ActivationTypeOK
    <3>2. apps[a] \in AppRow /\ apps[a] # None
      BY <2>1, <3>1, <1>0 DEF AppExists, HasRead, ActivationRow, Kept, SchemaTypeOK
    <3>3. q \in ActivationRow /\ HasRead(q)
      <4>1. q \in ActivationRow
        BY <1>0, <3>1, <3>2, ActivationPCs DEF ActivationRow
      <4>2. HasRead(q)
        BY <1>0, <3>1, <3>2 DEF ActivationRow, HasRead
      <4> QED
        BY <4>1, <4>2
    <3> HIDE DEF q
    <3> QED
      BY <3>1, <3>3, ActivationUpdate, KeptByReading
  <2>2. CASE ~(AppExists(a) /\ apps[a].enabled)
    BY <1>3, <2>2, EndTypes, KeptByReading DEF SelectApplication
  <2> QED
    BY <2>1, <2>2
<1>4. ASSUME NEW r \in Activations, Reserve(r) PROVE Good
  <2> DEFINE Goes == {"select_license", "replay_detected", "integrity_mismatch"}
             q(pc) == [act[r] EXCEPT !.pc = pc, !.application = None]
  <2>1. /\ act[r].pc = "reserve" /\ act[r].app \in Apps /\ act[r].nonce \in Requests
        /\ ReserveNonce(act[r].app, act[r].nonce)
        /\ UNCHANGED <<apps, licenses, sessions, resets, events, now>>
        /\ End(r, "rejected") \/ \E pc \in Goes : act' = [act EXCEPT ![r] = q(pc)]
    BY <1>4, <1>0
       DEF Reserve, Report, HasRead, ActivationRow, Requests, ActivationTypeOK
  <2>2. Kept'
    BY <2>1, KeptByLogging DEF EventTypes
  <2>3. ASSUME NEW pc \in Goes PROVE q(pc) \in ActivationRow /\ HasRead(q(pc))
    <3>1. q(pc) \in ActivationRow
      BY <1>0, <2>1, ActivationPCs DEF ActivationRow
    <3>2. HasRead(q(pc))
      BY <1>0, <2>1 DEF ActivationRow, HasRead
    <3> QED
      BY <3>1, <3>2
  <2> HIDE DEF q
  <2> QED
    BY <2>1, <2>2, <2>3, EndTypes, ActivationUpdate
<1>5. ASSUME NEW r \in Activations, SelectLicense(r) PROVE Good
  <2> DEFINE l == act[r].license
             q == [act[r] EXCEPT !.pc = "decide", !.row = licenses[l]]
  <2>1. CASE FindsLicense(act[r].app, l) /\ licenses[l].status = "active"
    <3>1. /\ act' = [act EXCEPT ![r] = q] /\ act[r].pc = "select_license"
          /\ UNCHANGED db
      BY <1>5, <2>1, <1>0 DEF SelectLicense, ActivationTypeOK
    <3>2. licenses[l] \in LicenseRow /\ licenses[l] # None
      BY <2>1, <3>1, <1>0
         DEF FindsLicense, LicenseExists, HasRead, ActivationRow, Kept, SchemaTypeOK
    <3>3. q \in ActivationRow /\ HasRead(q)
      <4>1. q \in ActivationRow
        BY <1>0, <3>1, <3>2, ActivationPCs DEF ActivationRow
      <4>2. HasRead(q)
        BY <1>0, <3>1, <3>2 DEF ActivationRow, HasRead
      <4> QED
        BY <4>1, <4>2
    <3> HIDE DEF q
    <3> QED
      BY <3>1, <3>3, ActivationUpdate, KeptByReading
  <2>2. CASE ~(FindsLicense(act[r].app, l) /\ licenses[l].status = "active")
    BY <1>5, <2>2, EndTypes, KeptByReading DEF SelectLicense
  <2> QED
    BY <2>1, <2>2
<1>6. ASSUME NEW r \in Activations, Decide(r) PROVE Good
  <2> DEFINE x == EffectiveExpiry(act[r].license, act[r].row)
             p == IF act[r].row.hwid = None THEN "bind" ELSE "mint"
             q == [act[r] EXCEPT !.pc = p, !.expiry = x]
  <2>1. /\ act[r].pc = "decide" /\ UNCHANGED db
        /\ End(r, "rejected") \/ act' = [act EXCEPT ![r] = q]
    BY <1>6, <1>0 DEF Decide, ActivationTypeOK
  <2>2. act[r].row \in LicenseRow /\ act[r].license \in Licenses
    BY <2>1, <1>0 DEF HasRead, ActivationRow
  <2>3. x \in Nat \cup {None}
    BY <2>2, SchemaAssumption DEF EffectiveExpiry, LicenseRow, Kept, SchemaTypeOK
  <2>4. q \in ActivationRow /\ HasRead(q)
    <3>1. q \in ActivationRow
      <4>1. p \in ActivationPC
        BY ActivationPCs
      <4> HIDE DEF p, x
      <4> QED
        BY <1>0, <2>3, <4>1 DEF ActivationRow
    <3>2. HasRead(q)
      BY <1>0, <2>1, <2>3 DEF ActivationRow, HasRead
    <3> QED
      BY <3>1, <3>2
  <2> HIDE DEF q
  <2> QED
    BY <2>1, <2>4, EndTypes, ActivationUpdate, KeptByReading
<1>7. ASSUME NEW r \in Activations, Bind(r) PROVE Good
  <2> DEFINE l == act[r].license
             q(p) == [act[r] EXCEPT !.pc = p]
  <2>1. /\ act[r].pc = "bind" /\ l \in Licenses /\ act[r].hwid \in Devices
        /\ UNCHANGED <<apps, sessions, resets, logs, now>>
    BY <1>7, <1>0 DEF Bind, HasRead, ActivationRow
  <2>2. ASSUME NEW p \in {"mint", "reread"}, act' = [act EXCEPT ![r] = q(p)]
        PROVE  ActivationTypeOK'
    <3>1. q(p) \in ActivationRow /\ HasRead(q(p))
      <4>1. q(p) \in ActivationRow
        BY <1>0, <2>1, ActivationPCs DEF ActivationRow
      <4>2. HasRead(q(p))
        BY <1>0, <2>1 DEF ActivationRow, HasRead
      <4> QED
        BY <4>1, <4>2
    <3> HIDE DEF q
    <3> QED
      BY <2>2, <3>1, ActivationUpdate
  <2>3. CASE StillUnbound(l)
    <3> DEFINE x == IF act[r].expiry # None /\ act[r].row.expires = None
                    THEN act[r].expiry ELSE licenses[l].expires
    <3>1. licenses[l] \in LicenseRow /\ LicenseExists(l)
      BY <2>1, <2>3 DEF StillUnbound, LicenseExists, Kept, SchemaTypeOK
    <3>2. licenses' = [licenses EXCEPT ![l].hwid = act[r].hwid, ![l].expires = x]
      BY <1>7, <2>3, <3>1 DEF Bind, Bound, Kept, SchemaTypeOK, LicenseRow
    <3>3. x \in Nat \cup {None}
      BY <1>0, <3>1 DEF ActivationRow, LicenseRow
    <3>4. act' = [act EXCEPT ![r] = q("mint")]
      BY <1>7, <2>3 DEF Bind
    <3> HIDE DEF x
    <3> QED
      BY <2>1, <2>2, <3>1, <3>2, <3>3, <3>4, KeptByBind
  <2>4. CASE ~StillUnbound(l)
    <3>1. UNCHANGED db /\ act' = [act EXCEPT ![r] = q("reread")]
      BY <1>7, <2>1, <2>4 DEF Bind, db, resets, logs
    <3> QED
      BY <3>1, <2>2, KeptByReading
  <2> QED
    BY <2>3, <2>4
<1>8. ASSUME NEW r \in Activations, Reread(r) PROVE Good
  <2> DEFINE l == act[r].license
             q == [act[r] EXCEPT !.pc = "mint", !.expiry = licenses[l].expires]
  <2>1. act[r].pc = "reread" /\ UNCHANGED db
    BY <1>8 DEF Reread
  <2>2. CASE LicenseExists(l) /\ licenses[l].hwid = act[r].hwid
    <3>1. act' = [act EXCEPT ![r] = q]
      BY <1>8, <2>2 DEF Reread, ActivationTypeOK
    <3>2. licenses[l].expires \in Nat \cup {None}
      BY <2>1, <2>2, <1>0
         DEF HasRead, ActivationRow, LicenseExists, LicenseRow, Kept, SchemaTypeOK
    <3>3. q \in ActivationRow /\ HasRead(q)
      <4>1. q \in ActivationRow
        BY <1>0, <2>1, <3>2, ActivationPCs DEF ActivationRow
      <4>2. HasRead(q)
        BY <1>0, <2>1, <3>2 DEF ActivationRow, HasRead
      <4> QED
        BY <4>1, <4>2
    <3> HIDE DEF q
    <3> QED
      BY <2>1, <3>1, <3>3, ActivationUpdate, KeptByReading
  <2>3. CASE ~(LicenseExists(l) /\ licenses[l].hwid = act[r].hwid)
    BY <1>8, <2>1, <2>3, EndTypes, KeptByReading DEF Reread
  <2> QED
    BY <2>2, <2>3
<1>9. ASSUME NEW r \in Activations, Mint(r) PROVE Good
  <2> DEFINE q == [act[r] EXCEPT !.pc = "insert", !.row = None,
                                 !.sessionExpiry = now + SessionTTL]
  <2>1. act[r].pc = "mint" /\ act' = [act EXCEPT ![r] = q] /\ UNCHANGED db
    BY <1>9, <1>0 DEF Mint, ActivationTypeOK
  <2>2. now + SessionTTL \in Nat /\ now + SessionTTL # None
    BY NoneIsNoValue, SchemaAssumption DEF Kept, SchemaTypeOK
  <2>3. q \in ActivationRow /\ HasRead(q)
    <3>1. q \in ActivationRow
      BY <1>0, <2>1, <2>2, ActivationPCs DEF ActivationRow
    <3>2. HasRead(q)
      BY <1>0, <2>1, <2>2 DEF ActivationRow, HasRead
    <3> QED
      BY <3>1, <3>2
  <2> HIDE DEF q
  <2> QED
    BY <2>1, <2>3, ActivationUpdate, KeptByReading
<1>10. ASSUME NEW r \in Activations, InsertSession(r) PROVE Good
  <2> DEFINE q == [act[r] EXCEPT !.pc = "reply", !.sessionExpiry = None]
             row == [app |-> act[r].app, license |-> act[r].license,
                     hwid |-> act[r].hwid, expires |-> act[r].sessionExpiry,
                     challenge |-> r, revoked |-> FALSE]
  <2>1. /\ act[r].pc = "insert" /\ act' = [act EXCEPT ![r] = q]
        /\ AppExists(act[r].app) /\ LicenseExists(act[r].license)
        /\ sessions' = [sessions EXCEPT ![r] = row]
        /\ UNCHANGED <<apps, licenses, resets, logs, now>>
    BY <1>10, <1>0 DEF InsertSession, ActivationTypeOK
  <2>2. row \in SessionRow
    BY <2>1, <1>0 DEF HasRead, ActivationRow, SessionRow, Requests
  <2>3. q \in ActivationRow /\ HasRead(q)
    <3>1. q \in ActivationRow
      BY <1>0, <2>1, ActivationPCs DEF ActivationRow
    <3>2. HasRead(q)
      BY <1>0, <2>1 DEF ActivationRow, HasRead
    <3> QED
      BY <3>1, <3>2
  <2>4. row.app = act[r].app /\ row.license = act[r].license
    OBVIOUS
  <2> HIDE DEF q, row
  <2> QED
    BY <2>1, <2>2, <2>3, <2>4, ActivationUpdate, KeptByInsert
<1>11. ASSUME NEW r \in Activations, Reply(r) PROVE Good
  <2> DEFINE q == [act[r] EXCEPT !.pc = "done", !.outcome = "ok"]
  <2>1. act[r].pc = "reply" /\ act' = [act EXCEPT ![r] = q] /\ UNCHANGED db
    BY <1>11, <1>0 DEF Reply, ActivationTypeOK
  <2>2. q \in ActivationRow /\ HasRead(q)
    <3>1. q \in ActivationRow
      BY <1>0, <2>1, ActivationPCs DEF ActivationRow
    <3>2. HasRead(q)
      BY <1>0, <2>1 DEF ActivationRow, HasRead
    <3> QED
      BY <3>1, <3>2
  <2> HIDE DEF q
  <2> QED
    BY <2>1, <2>2, ActivationUpdate, KeptByReading
<1>12. ASSUME NEW r \in Activations, Throw(r) PROVE Good
  BY <1>12, EndTypes, KeptByReading DEF Throw
<1>13. ASSUME NEW r \in Activations, RecordEvent(r) PROVE Good
  <2>1. act[r].pc \in EventTypes /\ act[r].pc \notin {"idle", "done"}
    BY <1>13 DEF RecordEvent, EventTypes
  <2>2. act[r].app \in Apps /\ act[r].nonce \in Requests
    BY <1>0, <2>1 DEF HasRead, ActivationRow, Requests
  <2>3. Kept'
    BY <1>13, <2>1, <2>2, KeptByLogging DEF RecordEvent
  <2> QED
    BY <1>13, <2>1, <2>3, EndTypes DEF RecordEvent
<1> QED
  BY <1>1, <1>2, <1>3, <1>4, <1>5, <1>6, <1>7, <1>8, <1>9, <1>10, <1>11, <1>12, <1>13
     DEF ActivationNext, ActivationStep

-----------------------------------------------------------------------------
(* The session-check handler.                                               *)
LEMMA CheckKeeps ==
  ASSUME Kept, ActivationTypeOK, CheckTypeOK, CheckNext
  PROVE  Kept' /\ ActivationTypeOK' /\ CheckTypeOK'
<1> DEFINE Good == Kept' /\ CheckTypeOK'
<1>0. \A c \in Checks : chk[c] \in CheckRow /\ CheckHasRead(chk[c])
  BY DEF CheckTypeOK
<1>1. ASSUME NEW c \in Checks, NEW a \in Apps, NEW s \in Activations,
             NEW x \in Requests, NEW d \in Devices, NEW b \in Builds \cup {None},
             CheckSession(c, a, s, x, d, b)
      PROVE  Good
  <2> DEFINE q == [Unchecked EXCEPT !.pc = "select_app", !.app = a, !.token = s,
                     !.challenge = x, !.hwid = d, !.build = b, !.nonce = c]
  <2>1. q \in CheckRow
    BY DEF Unchecked, CheckRow, CheckPC
  <2>2. /\ q.pc = "select_app" /\ q.app = a /\ q.token = s /\ q.challenge = x
        /\ q.hwid = d /\ q.nonce = c
    BY DEF Unchecked
  <2>3. CheckHasRead(q)
    BY <2>2, NoneIsNoValue DEF CheckHasRead
  <2>4. chk' = [chk EXCEPT ![c] = q] /\ UNCHANGED db
    BY <1>1 DEF CheckSession
  <2> HIDE DEF q
  <2> QED
    BY <2>1, <2>3, <2>4, CheckUpdate, KeptByReading
<1>2. ASSUME NEW c \in Checks, NEW first \in Checks, CheckSessionAgain(c, first)
      PROVE  Good
  <2> DEFINE q == [Unchecked EXCEPT !.pc = "select_app", !.app = chk[first].app,
                     !.token = chk[first].token, !.challenge = chk[first].challenge,
                     !.hwid = chk[first].hwid, !.build = chk[first].build,
                     !.nonce = first]
  <2>0. chk[first].pc # "idle" /\ chk[first].nonce = first
    <3>1. chk[first].nonce = first
      BY <1>2 DEF CheckSessionAgain
    <3>3. first # None
      BY SchemaAssumption DEF Requests
    <3>2. chk[first].pc = "idle" => chk[first].nonce = None
      BY <1>0 DEF CheckHasRead
    <3> QED
      BY <3>1, <3>2, <3>3
  <2>1. q \in CheckRow
    BY <1>0 DEF Unchecked, CheckRow, CheckPC
  <2>2. /\ q.pc = "select_app" /\ q.app = chk[first].app
        /\ q.token = chk[first].token /\ q.challenge = chk[first].challenge
        /\ q.hwid = chk[first].hwid /\ q.nonce = first
    BY DEF Unchecked
  <2>3. CheckHasRead(q)
    BY <1>0, <2>0, <2>2 DEF CheckHasRead
  <2>4. chk' = [chk EXCEPT ![c] = q] /\ UNCHANGED db
    BY <1>2 DEF CheckSessionAgain
  <2> HIDE DEF q
  <2> QED
    BY <2>1, <2>3, <2>4, CheckUpdate, KeptByReading
<1>3. ASSUME NEW c \in Checks, CheckSelectApplication(c) PROVE Good
  <2> DEFINE a == chk[c].app
             q == [chk[c] EXCEPT !.pc = "reserve", !.application = apps[a]]
  <2>1. CASE AppExists(a) /\ apps[a].enabled
    <3>1. chk' = [chk EXCEPT ![c] = q] /\ chk[c].pc = "select_app" /\ UNCHANGED db
      BY <1>3, <2>1, <1>0 DEF CheckSelectApplication, CheckTypeOK
    <3>2. apps[a] \in AppRow /\ apps[a] # None
      BY <2>1, <3>1, <1>0 DEF AppExists, CheckHasRead, CheckRow, Kept, SchemaTypeOK
    <3>3. q \in CheckRow /\ CheckHasRead(q)
      <4>1. q \in CheckRow
        BY <1>0, <3>1, <3>2 DEF CheckRow, CheckPC
      <4>2. CheckHasRead(q)
        BY <1>0, <3>1, <3>2 DEF CheckRow, CheckHasRead
      <4> QED
        BY <4>1, <4>2
    <3> HIDE DEF q
    <3> QED
      BY <3>1, <3>3, CheckUpdate, KeptByReading
  <2>2. CASE ~(AppExists(a) /\ apps[a].enabled)
    BY <1>3, <2>2, EndCheckTypes, KeptByReading DEF CheckSelectApplication
  <2> QED
    BY <2>1, <2>2
<1>4. ASSUME NEW c \in Checks, CheckReserve(c) PROVE Good
  <2> DEFINE q == [chk[c] EXCEPT !.pc = "select_session", !.application = None]
  <2>1. /\ chk[c].pc = "reserve" /\ chk[c].app \in Apps /\ chk[c].nonce \in Requests
        /\ ReserveNonce(chk[c].app, chk[c].nonce)
        /\ UNCHANGED <<apps, licenses, sessions, resets, events, now>>
        /\ \/ chk' = [chk EXCEPT ![c] = q]
           \/ \E type \in EventTypes : ReportCheck(c, type)
    BY <1>4, <1>0
       DEF CheckReserve, CheckHasRead, CheckRow, Requests, CheckTypeOK, EventTypes
  <2>2. Kept'
    BY <2>1, KeptByLogging DEF EventTypes
  <2>3. q \in CheckRow /\ CheckHasRead(q)
    <3>1. q \in CheckRow
      BY <1>0, <2>1 DEF CheckRow, CheckPC
    <3>2. CheckHasRead(q)
      BY <1>0, <2>1 DEF CheckRow, CheckHasRead
    <3> QED
      BY <3>1, <3>2
  <2> HIDE DEF q
  <2> QED
    BY <2>1, <2>2, <2>3, ReportCheckTypes, CheckUpdate
<1>5. ASSUME NEW c \in Checks, SelectSession(c) PROVE Good
  <2> DEFINE s == chk[c].token
             q == [chk[c] EXCEPT !.pc = "verify", !.session = sessions[s]]
  <2>1. CASE FindsSession(chk[c].app, s)
    <3>1. /\ chk' = [chk EXCEPT ![c] = q] /\ chk[c].pc = "select_session"
          /\ UNCHANGED db
      BY <1>5, <2>1, <1>0 DEF SelectSession, CheckTypeOK
    <3>2. sessions[s] \in SessionRow /\ sessions[s] # None
      BY <2>1, <3>1, <1>0
         DEF FindsSession, CheckHasRead, CheckRow, Kept, SchemaTypeOK
    <3>3. q \in CheckRow /\ CheckHasRead(q)
      <4>1. q \in CheckRow
        BY <1>0, <3>1, <3>2 DEF CheckRow, CheckPC
      <4>2. CheckHasRead(q)
        BY <1>0, <3>1, <3>2 DEF CheckRow, CheckHasRead
      <4> QED
        BY <4>1, <4>2
    <3> HIDE DEF q
    <3> QED
      BY <3>1, <3>3, CheckUpdate, KeptByReading
  <2>2. CASE ~FindsSession(chk[c].app, s)
    BY <1>5, <2>2, EndCheckTypes, KeptByReading DEF SelectSession
  <2> QED
    BY <2>1, <2>2
<1>6. ASSUME NEW c \in Checks, Verify(c) PROVE Good
  <2> DEFINE q == [chk[c] EXCEPT !.pc = "rotate"]
  <2>1. /\ chk[c].pc = "verify" /\ UNCHANGED db
        /\ \/ EndCheck(c, "rejected")
           \/ ReportCheck(c, "challenge_mismatch")
           \/ chk' = [chk EXCEPT ![c] = q]
    BY <1>6, <1>0 DEF Verify, CheckTypeOK
  <2>2. "challenge_mismatch" \in EventTypes
    BY DEF EventTypes
  <2>3. q \in CheckRow /\ CheckHasRead(q)
    <3>1. q \in CheckRow
      BY <1>0, <2>1 DEF CheckRow, CheckPC
    <3>2. CheckHasRead(q)
      BY <1>0, <2>1 DEF CheckRow, CheckHasRead
    <3> QED
      BY <3>1, <3>2
  <2> HIDE DEF q
  <2> QED
    BY <2>1, <2>2, <2>3, EndCheckTypes, ReportCheckTypes, CheckUpdate, KeptByReading
<1>7. ASSUME NEW c \in Checks, Rotate(c) PROVE Good
  <2> DEFINE s == chk[c].token
             q == [chk[c] EXCEPT !.pc = "select_license", !.rotated = TRUE]
             row == [sessions[s] EXCEPT !.challenge = c]
  <2>1. /\ chk[c].pc = "rotate" /\ s \in Activations
        /\ UNCHANGED <<apps, licenses, resets, logs, now>>
    BY <1>7, <1>0 DEF Rotate, CheckHasRead, CheckRow
  <2>2. CASE StillHolds(s, chk[c].challenge)
    <3>1. /\ sessions[s] \in SessionRow /\ AppExists(sessions[s].app)
          /\ LicenseExists(sessions[s].license)
      BY <2>1, <2>2 DEF StillHolds, Kept, SchemaTypeOK, NoOrphans
    <3>2. /\ row \in SessionRow
          /\ row.app = sessions[s].app /\ row.license = sessions[s].license
      BY <3>1 DEF SessionRow, Requests
    <3>3. /\ sessions' = [sessions EXCEPT ![s] = row]
          /\ chk' = [chk EXCEPT ![c] = q]
      BY <1>7, <2>1, <2>2, <1>0 DEF Rotate, Kept, SchemaTypeOK, CheckTypeOK
    <3>4. q \in CheckRow /\ CheckHasRead(q)
      <4>1. q \in CheckRow
        BY <1>0, <2>1 DEF CheckRow, CheckPC
      <4>2. CheckHasRead(q)
        BY <1>0, <2>1 DEF CheckRow, CheckHasRead
      <4> QED
        BY <4>1, <4>2
    <3> HIDE DEF q, row
    <3> QED
      BY <2>1, <3>1, <3>2, <3>3, <3>4, CheckUpdate, KeptByInsert
  <2>3. CASE ~StillHolds(s, chk[c].challenge)
    <3>1. ReportCheck(c, "challenge_replay") /\ UNCHANGED sessions
      BY <1>7, <2>3 DEF Rotate
    <3>2. UNCHANGED db /\ "challenge_replay" \in EventTypes
      BY <2>1, <3>1 DEF db, resets, logs, EventTypes
    <3> QED
      BY <2>1, <3>1, <3>2, KeptByReading, ReportCheckTypes
  <2> QED
    BY <2>2, <2>3
<1>8. ASSUME NEW c \in Checks, CheckSelectLicense(c) PROVE Good
  <2> DEFINE l == chk[c].session.license
             q == [chk[c] EXCEPT !.pc = "judge", !.license = licenses[l]]
  <2>1. CASE FindsLicense(chk[c].app, l)
    <3>1. /\ chk' = [chk EXCEPT ![c] = q] /\ chk[c].pc = "select_license"
          /\ UNCHANGED db
      BY <1>8, <2>1, <1>0 DEF CheckSelectLicense, CheckTypeOK
    <3>2. chk[c].session \in SessionRow
      BY <1>0, <3>1 DEF CheckHasRead, CheckRow
    <3>3. licenses[l] \in LicenseRow /\ licenses[l] # None
      BY <2>1, <3>2 DEF SessionRow, FindsLicense, LicenseExists, Kept, SchemaTypeOK
    <3>4. q \in CheckRow /\ CheckHasRead(q)
      <4>1. q \in CheckRow
        BY <1>0, <3>1, <3>3 DEF CheckRow, CheckPC
      <4>2. CheckHasRead(q)
        BY <1>0, <3>1, <3>3 DEF CheckRow, CheckHasRead
      <4> QED
        BY <4>1, <4>2
    <3> HIDE DEF q
    <3> QED
      BY <3>1, <3>4, CheckUpdate, KeptByReading
  <2>2. CASE ~FindsLicense(chk[c].app, l)
    BY <1>8, <2>2, EndCheckTypes, KeptByReading DEF CheckSelectLicense
  <2> QED
    BY <2>1, <2>2
<1>9. ASSUME NEW c \in Checks, Judge(c) PROVE Good
  BY <1>9, EndCheckTypes, KeptByReading DEF Judge
<1>10. ASSUME NEW c \in Checks, CheckThrow(c) PROVE Good
  BY <1>10, EndCheckTypes, KeptByReading DEF CheckThrow
<1>11. UNCHANGED act
  BY DEF CheckNext, CheckStep, CheckSession, CheckSessionAgain,
         CheckSelectApplication, CheckReserve, CheckRecordEvent, SelectSession,
         Verify, Rotate, CheckSelectLicense, Judge, CheckThrow
<1>13. ASSUME NEW c \in Checks, CheckRecordEvent(c) PROVE Good
  <2>1. chk[c].pc \in EventTypes /\ chk[c].pc \notin {"idle", "done"}
    BY <1>13 DEF CheckRecordEvent, EventTypes
  <2>2. chk[c].app \in Apps /\ chk[c].nonce \in Requests
    BY <1>0, <2>1 DEF CheckHasRead, CheckRow, Requests
  <2>3. Kept'
    BY <1>13, <2>1, <2>2, KeptByLogging DEF CheckRecordEvent
  <2> QED
    BY <1>13, <2>1, <2>3, EndCheckTypes DEF CheckRecordEvent
<1>12. Good
  BY <1>1, <1>2, <1>3, <1>4, <1>5, <1>6, <1>7, <1>8, <1>9, <1>10, <1>13
     DEF CheckNext, CheckStep
<1> QED
  BY <1>11, <1>12 DEF ActivationTypeOK

-----------------------------------------------------------------------------
(* Every reachable state of the backend is well-formed, and nothing in it   *)
(* refers to a row that was deleted.  The two are inductive together: an    *)
(* approval updates the license its request refers to.                      *)
THEOREM WellFormed == Spec => [](TypeOK /\ NoOrphans)
<1>1. Init => TypeOK /\ NoOrphans
  <2> SUFFICES ASSUME Init PROVE TypeOK /\ NoOrphans
    OBVIOUS
  <2>1. SchemaTypeOK /\ NoOrphans
    BY DEF Init, SchemaInit, SchemaTypeOK, NoOrphans, AppRow, LicenseRow,
           NewLicense, Status
  <2>2. ActivationTypeOK
    BY DEF Init, ActivationInit, ActivationTypeOK, ActivationRow, ActivationPC,
           Unsent, HasRead
  <2>3. CheckTypeOK
    BY DEF Init, CheckInit, CheckTypeOK, CheckRow, CheckPC, Unchecked, CheckHasRead
  <2> QED
    BY <2>1, <2>2, <2>3 DEF TypeOK
<1>2. TypeOK /\ NoOrphans /\ [Next]_vars => TypeOK' /\ NoOrphans'
  <2> SUFFICES ASSUME TypeOK, NoOrphans, [Next]_vars PROVE TypeOK' /\ NoOrphans'
    OBVIOUS
  <2> USE DEF TypeOK, Kept
  <2>1. CASE ActivationNext /\ UNCHANGED chk
    BY <2>1, ActivationKeeps DEF CheckTypeOK
  <2>2. CASE CheckNext
    BY <2>2, CheckKeeps
  <2>3. CASE ResetNext /\ UNCHANGED <<act, chk>>
    BY <2>3, ResetTypes, ResetReferences DEF ActivationTypeOK, CheckTypeOK
  <2>4. CASE OwnerNext /\ UNCHANGED <<act, chk>>
    BY <2>4, OwnerTypes, OwnerReferences DEF ActivationTypeOK, CheckTypeOK
  <2>5. CASE Tick /\ UNCHANGED <<act, chk>>
    BY <2>5 DEF Tick, tables, SchemaTypeOK, NoOrphans, AppExists, LicenseExists,
                ActivationTypeOK, CheckTypeOK
  <2>6. CASE UNCHANGED vars
    BY <2>6, KeptByReading DEF vars, ActivationTypeOK, CheckTypeOK
  <2> QED
    BY <2>1, <2>2, <2>3, <2>4, <2>5, <2>6 DEF Next
<1> QED
  BY <1>1, <1>2, PTL DEF Spec

(* Type invariant of the tables and of every request in flight.             *)
THEOREM TypeCorrect == Spec => []TypeOK
  BY WellFormed, PTL

(* Referential integrity: requests that race the deletion of their          *)
(* application leave nothing behind.                                        *)
THEOREM ReferencesHold == Spec => []NoOrphans
  BY WellFormed, PTL

-----------------------------------------------------------------------------
(* Sessions: who opens them, who ends them, and who redeems a challenge.     *)
(* An activation past its lookup goes on with a license of its application. *)
LicenseFound(q) ==
  q.pc \in {"decide", "bind", "reread", "mint", "insert"} => AppOf[q.license] = q.app

(* An activation opens its session in its last statement, once.             *)
Opens(r) ==
  /\ Returned(r) => act[r].pc = "done"
  /\ LicenseFound(act[r])
  /\ sessions[r] # None => /\ act[r].pc \in {"reply", "done"}
                           /\ sessions[r].app = AppOf[sessions[r].license]
OpenInv == \A r \in Activations : Opens(r)

(* The challenge of a session is its first one, or was drawn by a check of  *)
(* it; and only such a challenge was ever consumed.                         *)
Drawn(x, s) == x = s \/ (x \in Checks /\ chk[x].rotated /\ chk[x].token = s)

Checked(c) ==
  /\ chk[c].token # None => Returned(chk[c].token)
  /\ chk[c].pc \notin {"select_license", "judge", "done"} => ~chk[c].rotated
  /\ chk[c].rotated => /\ chk[c].token \in Activations
                       /\ Drawn(chk[c].challenge, chk[c].token)
ConsumeInv ==
  /\ \A c \in Checks : Checked(c)
  /\ \A s \in Activations : sessions[s] # None => Drawn(sessions[s].challenge, s)
  /\ ChallengeConsumedOnce

SessionInv == TypeOK /\ OpenInv /\ ConsumeInv

-----------------------------------------------------------------------------
(* What one step of activation r does, told by the statement it awaited and *)
(* the one it awaits next: what it keeps of the request and what it takes   *)
(* from, or writes to, the tables.                                          *)
Advances(r, from, to) == act[r].pc = from /\ act'[r].pc = to

SameRequest(r) ==
  /\ act'[r].app = act[r].app /\ act'[r].license = act[r].license
  /\ act'[r].hwid = act[r].hwid /\ act'[r].nonce = act[r].nonce

Sends(r) ==
  /\ Advances(r, "idle", "select_app") /\ act'[r].outcome # "ok"
  /\ \/ act'[r].nonce = r
     \/ \E first \in Activations :
          act[first].nonce = first /\ act'[r].nonce = first
          /\ act'[r].app = act[first].app
  /\ UNCHANGED db

Ends(r) ==
  /\ act[r].pc \notin {"idle", "done"} /\ act'[r].pc = "done"
  /\ act'[r].outcome \in {"rejected", "threw"}
  /\ UNCHANGED <<licenses, sessions>>

Looks(r) ==
  /\ \/ Advances(r, "select_app", "reserve")
     \/ Advances(r, "reserve", "select_license")
     \/ Advances(r, "reserve", "integrity_mismatch")
     \/ /\ Advances(r, "reserve", "replay_detected")
        /\ <<act[r].app, act[r].nonce>> \in nonces
     \/ /\ Advances(r, "select_license", "decide")
        /\ FindsLicense(act[r].app, act[r].license)
        /\ act'[r].row = licenses[act[r].license]
  /\ UNCHANGED <<licenses, sessions>>

Decides(r) ==
  /\ \/ Advances(r, "decide", "bind") /\ act[r].row.hwid = None
     \/ Advances(r, "decide", "mint") /\ act[r].row.hwid = act[r].hwid
  /\ act'[r].row = act[r].row
  /\ act'[r].expiry = EffectiveExpiry(act[r].license, act[r].row)
  /\ UNCHANGED <<licenses, sessions>>

Binds(r) ==
  /\ Advances(r, "bind", "mint")
  /\ StillUnbound(act[r].license)
  /\ licenses' = Bound(act[r].license, act[r])
  /\ act'[r].expiry = act[r].expiry
  /\ UNCHANGED sessions

LosesRace(r) ==
  /\ \/ Advances(r, "bind", "reread")
     \/ /\ Advances(r, "reread", "mint")
        /\ LicenseExists(act[r].license)
        /\ licenses[act[r].license].hwid = act[r].hwid
        /\ act'[r].expiry = licenses[act[r].license].expires
  /\ UNCHANGED <<licenses, sessions>>

Inserts(r) ==
  /\ Advances(r, "insert", "reply")
  /\ AppExists(act[r].app) /\ LicenseExists(act[r].license)
  /\ \A s \in Activations \ {r} : sessions'[s] = sessions[s]
  /\ sessions'[r] # None
  /\ sessions'[r].app = act[r].app /\ sessions'[r].license = act[r].license
  /\ sessions'[r].hwid = act[r].hwid /\ sessions'[r].challenge = r
  /\ act'[r].expiry = act[r].expiry
  /\ UNCHANGED licenses

Answers(r) ==
  /\ \/ Advances(r, "mint", "insert") /\ act'[r].outcome = act[r].outcome
     \/ Advances(r, "reply", "done") /\ act'[r].outcome = "ok"
  /\ act'[r].expiry = act[r].expiry
  /\ UNCHANGED <<licenses, sessions>>

(* The reservation inserts the nonce, and a request that reports an event   *)
(* the event: nothing else writes to the logs.                              *)
Logs(r) ==
  \/ UNCHANGED logs
  \/ /\ act[r].pc = "reserve"
     /\ act'[r].pc \in {"select_license", "replay_detected", "integrity_mismatch", "done"}
     /\ nonces' = nonces \cup {<<act[r].app, act[r].nonce>>} /\ UNCHANGED events
  \/ /\ act[r].pc \in EventTypes /\ UNCHANGED nonces
     /\ events' = events \cup {<<act[r].pc, act[r].app>>}

Step(r) ==
  /\ \A x \in Activations \ {r} : act'[x] = act[x]
  /\ UNCHANGED <<apps, resets, now>>
  /\ Logs(r)
  /\ \/ Sends(r)
     \/ SameRequest(r) /\ Ends(r)
     \/ SameRequest(r) /\ Answers(r)
     \/ /\ SameRequest(r) /\ act'[r].outcome = act[r].outcome
        /\ \/ Looks(r) \/ Decides(r) \/ Binds(r) \/ LosesRace(r) \/ Inserts(r)

LEMMA EndMoves ==
  ASSUME TypeOK, NEW r \in Activations,
         NEW outcome \in {"rejected", "threw"}, End(r, outcome)
  PROVE  /\ \A x \in Activations \ {r} : act'[x] = act[x]
         /\ SameRequest(r) /\ act'[r].pc = "done"
         /\ act'[r].outcome = outcome
<1> DEFINE q == [act[r] EXCEPT !.pc = "done", !.outcome = outcome,
                   !.application = None, !.row = None, !.expiry = None,
                   !.sessionExpiry = None]
<1>1. act[r] \in ActivationRow /\ DOMAIN act = Activations
  BY DEF TypeOK, ActivationTypeOK
<1>2. act' = [act EXCEPT ![r] = q]
  BY <1>1 DEF End
<1>3. /\ q.pc = "done" /\ q.outcome = outcome /\ q.app = act[r].app
      /\ q.license = act[r].license /\ q.hwid = act[r].hwid
      /\ q.nonce = act[r].nonce
  BY <1>1 DEF ActivationRow
<1> HIDE DEF q
<1> QED
  BY <1>1, <1>2, <1>3 DEF SameRequest

(* Every step of an activation is one of these.                             *)
LEMMA ActivationSteps ==
  ASSUME TypeOK, ActivationNext PROVE \E r \in Activations : Step(r)
<1> USE DEF Advances
<1>0. /\ DOMAIN act = Activations /\ DOMAIN sessions = Activations
      /\ \A r \in Activations : act[r] \in ActivationRow
  BY DEF TypeOK, ActivationTypeOK, SchemaTypeOK
<1>1. ASSUME NEW r \in Activations, NEW q, act' = [act EXCEPT ![r] = q]
      PROVE  /\ act'[r] = q
             /\ \A x \in Activations \ {r} : act'[x] = act[x]
  BY <1>0, <1>1
<1>2. ASSUME NEW r \in Activations, NEW outcome \in {"rejected", "threw"},
             End(r, outcome), act[r].pc \notin {"idle", "done"},
             UNCHANGED <<apps, licenses, sessions, resets, now>>, Logs(r)
      PROVE  Step(r)
  BY <1>2, EndMoves DEF Step, Ends
<1>4. ASSUME NEW r \in Activations, NEW a \in Apps, NEW l \in Licenses,
             NEW d \in Devices, NEW b \in Builds \cup {None},
             NEW v \in Versions \cup {None}, Activate(r, a, l, d, b, v)
      PROVE  Step(r)
  <2> DEFINE q == [Unsent EXCEPT !.pc = "select_app", !.app = a, !.license = l,
                     !.hwid = d, !.build = b, !.version = v, !.nonce = r]
  <2>1. act' = [act EXCEPT ![r] = q] /\ UNCHANGED db /\ act[r].pc = "idle"
    BY <1>4 DEF Activate
  <2>2. q.pc = "select_app" /\ q.nonce = r /\ q.outcome # "ok"
    BY SchemaAssumption DEF Unsent
  <2> HIDE DEF q
  <2> QED
    BY <1>1, <2>1, <2>2 DEF Step, Sends, Logs, db, resets, logs
<1>5. ASSUME NEW r \in Activations, NEW first \in Activations,
             ActivateAgain(r, first)
      PROVE  Step(r)
  <2> DEFINE q == [Unsent EXCEPT !.pc = "select_app", !.app = act[first].app,
                     !.license = act[first].license, !.hwid = act[first].hwid,
                     !.build = act[first].build, !.version = act[first].version,
                     !.nonce = first]
  <2>1. /\ act' = [act EXCEPT ![r] = q] /\ UNCHANGED db /\ act[r].pc = "idle"
        /\ act[first].nonce = first
    BY <1>5 DEF ActivateAgain
  <2>2. /\ q.pc = "select_app" /\ q.nonce = first /\ q.app = act[first].app
        /\ q.outcome # "ok"
    BY SchemaAssumption DEF Unsent
  <2> HIDE DEF q
  <2> QED
    BY <1>1, <2>1, <2>2 DEF Step, Sends, Logs, db, resets, logs
<1>6. ASSUME NEW r \in Activations, SelectApplication(r) PROVE Step(r)
  <2> DEFINE q == [act[r] EXCEPT !.pc = "reserve", !.application = apps[act[r].app]]
  <2>1. /\ UNCHANGED db /\ act[r].pc = "select_app"
        /\ End(r, "rejected") \/ act' = [act EXCEPT ![r] = q]
    BY <1>0, <1>6 DEF SelectApplication
  <2>2. /\ q.pc = "reserve" /\ q.outcome = act[r].outcome /\ q.app = act[r].app
        /\ q.license = act[r].license /\ q.hwid = act[r].hwid
        /\ q.nonce = act[r].nonce
    BY <1>0 DEF ActivationRow
  <2>3. UNCHANGED <<apps, licenses, sessions, resets, now>> /\ Logs(r)
    BY <2>1 DEF db, resets, logs, Logs
  <2> HIDE DEF q
  <2> QED
    BY <1>1, <1>2, <2>1, <2>2, <2>3 DEF Step, SameRequest, Looks
<1>7. ASSUME NEW r \in Activations, Reserve(r) PROVE Step(r)
  <2> DEFINE q(pc) == [act[r] EXCEPT !.pc = pc, !.application = None]
  <2>1. /\ UNCHANGED <<apps, licenses, sessions, resets, events, now>>
        /\ act[r].pc = "reserve"
        /\ nonces' = nonces \cup {<<act[r].app, act[r].nonce>>}
        /\ \/ End(r, "rejected")
           \/ \E pc \in {"select_license", "replay_detected", "integrity_mismatch"} :
                /\ act' = [act EXCEPT ![r] = q(pc)]
                /\ pc = "replay_detected" => <<act[r].app, act[r].nonce>> \in nonces
    BY <1>0, <1>7 DEF Reserve, Report, ReserveNonce, IsFresh
  <2>2. \A pc : /\ q(pc).pc = pc /\ q(pc).outcome = act[r].outcome
                /\ q(pc).app = act[r].app /\ q(pc).license = act[r].license
                /\ q(pc).hwid = act[r].hwid /\ q(pc).nonce = act[r].nonce
    BY <1>0 DEF ActivationRow
  <2> HIDE DEF q
  <2>3. CASE End(r, "rejected")
    BY <1>2, <2>1, <2>3, EndMoves DEF Logs
  <2>4. ASSUME NEW pc \in {"select_license", "replay_detected", "integrity_mismatch"},
               act' = [act EXCEPT ![r] = q(pc)],
               pc = "replay_detected" => <<act[r].app, act[r].nonce>> \in nonces
        PROVE  Step(r)
    <3>1. /\ act'[r] = q(pc)
          /\ \A x \in Activations \ {r} : act'[x] = act[x]
      BY <1>0, <2>4
    <3>3. act'[r].pc = pc /\ act'[r].outcome = act[r].outcome /\ SameRequest(r)
      BY <2>2, <3>1 DEF SameRequest
    <3>2. Looks(r) /\ Logs(r)
      BY <2>1, <2>4, <3>3 DEF Looks, Logs
    <3> QED
      BY <2>1, <3>1, <3>2, <3>3 DEF Step
  <2> QED
    BY <2>1, <2>3, <2>4
<1>8. ASSUME NEW r \in Activations, SelectLicense(r) PROVE Step(r)
  <2> DEFINE q == [act[r] EXCEPT !.pc = "decide", !.row = licenses[act[r].license]]
  <2>1. /\ UNCHANGED db /\ act[r].pc = "select_license"
        /\ \/ End(r, "rejected")
           \/ /\ act' = [act EXCEPT ![r] = q]
              /\ FindsLicense(act[r].app, act[r].license)
    BY <1>0, <1>8 DEF SelectLicense
  <2>2. /\ q.pc = "decide" /\ q.outcome = act[r].outcome
        /\ q.app = act[r].app /\ q.license = act[r].license
        /\ q.hwid = act[r].hwid /\ q.nonce = act[r].nonce
        /\ q.row = licenses[act[r].license]
    BY <1>0 DEF ActivationRow
  <2>3. UNCHANGED <<apps, licenses, sessions, resets, now>> /\ Logs(r)
    BY <2>1 DEF db, resets, logs, Logs
  <2> HIDE DEF q
  <2> QED
    BY <1>1, <1>2, <2>1, <2>2, <2>3 DEF Step, SameRequest, Looks
<1>9. ASSUME NEW r \in Activations, Decide(r) PROVE Step(r)
  <2> DEFINE p == IF act[r].row.hwid = None THEN "bind" ELSE "mint"
             x == EffectiveExpiry(act[r].license, act[r].row)
             q == [act[r] EXCEPT !.pc = p, !.expiry = x]
  <2>1. /\ UNCHANGED db /\ act[r].pc = "decide"
        /\ \/ End(r, "rejected")
           \/ /\ act' = [act EXCEPT ![r] = q]
              /\ act[r].row.hwid \in {None, act[r].hwid}
    BY <1>0, <1>9 DEF Decide
  <2>2. /\ q.pc = p /\ q.expiry = x /\ q.outcome = act[r].outcome
        /\ q.app = act[r].app /\ q.license = act[r].license
        /\ q.hwid = act[r].hwid /\ q.nonce = act[r].nonce /\ q.row = act[r].row
    BY <1>0 DEF ActivationRow
  <2>3. UNCHANGED <<apps, licenses, sessions, resets, now>> /\ Logs(r)
    BY <2>1 DEF db, resets, logs, Logs
  <2> HIDE DEF q
  <2> QED
    BY <1>1, <1>2, <2>1, <2>2, <2>3 DEF Step, SameRequest, Decides
<1>10. ASSUME NEW r \in Activations, Bind(r) PROVE Step(r)
  <2> DEFINE p == IF StillUnbound(act[r].license) THEN "mint" ELSE "reread"
             q == [act[r] EXCEPT !.pc = p]
  <2>1. /\ UNCHANGED <<apps, sessions, resets, logs, now>> /\ act[r].pc = "bind"
        /\ act' = [act EXCEPT ![r] = q]
        /\ IF StillUnbound(act[r].license)
           THEN licenses' = Bound(act[r].license, act[r])
           ELSE UNCHANGED licenses
    BY <1>0, <1>10 DEF Bind
  <2>2. /\ q.pc = p /\ q.expiry = act[r].expiry /\ q.outcome = act[r].outcome
        /\ q.app = act[r].app /\ q.license = act[r].license
        /\ q.hwid = act[r].hwid /\ q.nonce = act[r].nonce
    BY <1>0 DEF ActivationRow
  <2>3. Logs(r)
    BY <2>1 DEF Logs
  <2> HIDE DEF q
  <2> QED
    BY <1>1, <2>1, <2>2, <2>3 DEF Step, SameRequest, Binds, LosesRace
<1>11. ASSUME NEW r \in Activations, Reread(r) PROVE Step(r)
  <2> DEFINE q == [act[r] EXCEPT !.pc = "mint",
                                 !.expiry = licenses[act[r].license].expires]
  <2>1. /\ UNCHANGED db /\ act[r].pc = "reread"
        /\ \/ End(r, "rejected")
           \/ /\ act' = [act EXCEPT ![r] = q]
              /\ LicenseExists(act[r].license)
              /\ licenses[act[r].license].hwid = act[r].hwid
    BY <1>0, <1>11 DEF Reread
  <2>2. /\ q.pc = "mint" /\ q.expiry = licenses[act[r].license].expires
        /\ q.outcome = act[r].outcome
        /\ q.app = act[r].app /\ q.license = act[r].license
        /\ q.hwid = act[r].hwid /\ q.nonce = act[r].nonce
    BY <1>0 DEF ActivationRow
  <2>3. UNCHANGED <<apps, licenses, sessions, resets, now>> /\ Logs(r)
    BY <2>1 DEF db, resets, logs, Logs
  <2> HIDE DEF q
  <2> QED
    BY <1>1, <1>2, <2>1, <2>2, <2>3 DEF Step, SameRequest, LosesRace
<1>12. ASSUME NEW r \in Activations, Mint(r) PROVE Step(r)
  <2> DEFINE q == [act[r] EXCEPT !.pc = "insert", !.row = None,
                                 !.sessionExpiry = now + SessionTTL]
  <2>1. /\ UNCHANGED db /\ act[r].pc = "mint" /\ act' = [act EXCEPT ![r] = q]
    BY <1>0, <1>12 DEF Mint
  <2>2. /\ q.pc = "insert" /\ q.expiry = act[r].expiry
        /\ q.outcome = act[r].outcome
        /\ q.app = act[r].app /\ q.license = act[r].license
        /\ q.hwid = act[r].hwid /\ q.nonce = act[r].nonce
    BY <1>0 DEF ActivationRow
  <2>3. UNCHANGED <<apps, licenses, sessions, resets, now>> /\ Logs(r)
    BY <2>1 DEF db, resets, logs, Logs
  <2> HIDE DEF q
  <2> QED
    BY <1>1, <2>1, <2>2, <2>3 DEF Step, SameRequest, Answers
<1>13. ASSUME NEW r \in Activations, InsertSession(r) PROVE Step(r)
  <2> DEFINE q == [act[r] EXCEPT !.pc = "reply", !.sessionExpiry = None]
  <2>1. /\ UNCHANGED <<apps, licenses, resets, logs, now>>
        /\ act[r].pc = "insert" /\ act' = [act EXCEPT ![r] = q]
        /\ AppExists(act[r].app) /\ LicenseExists(act[r].license)
        /\ \A s \in Activations \ {r} : sessions'[s] = sessions[s]
        /\ sessions'[r].app = act[r].app /\ sessions'[r].license = act[r].license
        /\ sessions'[r].hwid = act[r].hwid /\ sessions'[r].challenge = r
    BY <1>0, <1>13 DEF InsertSession
  <2>4. sessions'[r] # None
    <3>1. /\ act[r].app \in Apps /\ act[r].license \in Licenses
          /\ act[r].hwid \in Devices /\ act[r].sessionExpiry \in Nat
      <4>1. act[r] \in ActivationRow /\ HasRead(act[r])
        BY DEF TypeOK, ActivationTypeOK
      <4> QED
        BY <2>1, <4>1 DEF ActivationRow, HasRead
    <3>2. sessions'[r] \in SessionRow
      BY <1>0, <1>13, <3>1 DEF InsertSession, SessionRow, Requests
    <3> QED
      BY <3>2, NoneIsNoValue
  <2>2. /\ q.pc = "reply" /\ q.expiry = act[r].expiry
        /\ q.outcome = act[r].outcome
        /\ q.app = act[r].app /\ q.license = act[r].license
        /\ q.hwid = act[r].hwid /\ q.nonce = act[r].nonce
    BY <1>0 DEF ActivationRow
  <2>3. Logs(r)
    BY <2>1 DEF Logs
  <2> HIDE DEF q
  <2> QED
    BY <1>1, <2>1, <2>2, <2>3, <2>4 DEF Step, SameRequest, Inserts
<1>14. ASSUME NEW r \in Activations, Reply(r) PROVE Step(r)
  <2> DEFINE q == [act[r] EXCEPT !.pc = "done", !.outcome = "ok"]
  <2>1. /\ UNCHANGED db /\ act[r].pc = "reply" /\ act' = [act EXCEPT ![r] = q]
    BY <1>0, <1>14 DEF Reply
  <2>2. /\ q.pc = "done" /\ q.expiry = act[r].expiry /\ q.outcome = "ok"
        /\ q.app = act[r].app /\ q.license = act[r].license
        /\ q.hwid = act[r].hwid /\ q.nonce = act[r].nonce
    BY <1>0 DEF ActivationRow
  <2>3. UNCHANGED <<apps, licenses, sessions, resets, now>> /\ Logs(r)
    BY <2>1 DEF db, resets, logs, Logs
  <2> HIDE DEF q
  <2> QED
    BY <1>1, <2>1, <2>2, <2>3 DEF Step, SameRequest, Answers
<1>15. ASSUME NEW r \in Activations, Throw(r) PROVE Step(r)
  <2>1. /\ UNCHANGED <<apps, licenses, sessions, resets, now>> /\ Logs(r)
        /\ End(r, "threw") /\ act[r].pc \notin {"idle", "done"}
    BY <1>15 DEF Throw, db, resets, logs, Logs
  <2> QED
    BY <1>2, <2>1
<1>16. ASSUME NEW r \in Activations, RecordEvent(r) PROVE Step(r)
  <2>1. /\ UNCHANGED <<apps, licenses, sessions, resets, nonces, now>>
        /\ act[r].pc \in EventTypes
        /\ \/ UNCHANGED events
           \/ events' = events \cup {<<act[r].pc, act[r].app>>}
        /\ \E outcome \in {"rejected", "threw"} : End(r, outcome)
    BY <1>16 DEF RecordEvent, Record
  <2>2. Logs(r) /\ act[r].pc \notin {"idle", "done"}
    BY <2>1 DEF Logs, logs, EventTypes
  <2> QED
    BY <1>2, <2>1, <2>2
<1> QED
  BY <1>4, <1>5, <1>6, <1>7, <1>8, <1>9, <1>10, <1>11, <1>12, <1>13, <1>14, <1>15, <1>16
     DEF ActivationNext, ActivationStep

-----------------------------------------------------------------------------
(* An activation that has returned stays so, and the session an activation  *)
(* opens is new and holds that activation's challenge.                      *)
ActivationEffect ==
  /\ \A x \in Activations : Returned(x) => Returned(x)'
  /\ \A s \in Activations :
       \/ sessions'[s] = sessions[s]
       \/ sessions[s] = None /\ sessions'[s].challenge = s /\ ~Returned(s)

LEMMA ActivationOpens ==
  ASSUME TypeOK, OpenInv, ActivationNext PROVE OpenInv' /\ ActivationEffect
<1>1. PICK r \in Activations : Step(r)
  BY ActivationSteps
<1>2. /\ \A x \in Activations \ {r} : act'[x] = act[x] /\ sessions'[x] = sessions[x]
      /\ sessions'[r] = sessions[r] \/ Inserts(r)
  BY <1>1 DEF Step, Sends, Ends, Looks, Decides, Binds, LosesRace, Inserts,
              Answers, db
<1>3. \A x \in Activations : Opens(x)
  BY DEF OpenInv
<1>4. LicenseFound(act'[r])
  BY <1>1, <1>3 DEF Step, Sends, Ends, Looks, Decides, Binds, LosesRace, Inserts,
                    Answers, Advances, SameRequest, Opens, LicenseFound, FindsLicense
<1>5. /\ Returned(r) => Returned(r)'
      /\ Returned(r)' => act'[r].pc = "done"
  BY <1>1, <1>3 DEF Step, Sends, Ends, Looks, Decides, Binds, LosesRace, Inserts,
                    Answers, Advances, Opens, Returned
<1>6. act[r].pc \in {"reply", "done"} => act'[r].pc \in {"reply", "done"}
  BY <1>1 DEF Step, Sends, Ends, Looks, Decides, Binds, LosesRace, Inserts,
              Answers, Advances
<1>7. Inserts(r) => /\ sessions[r] = None /\ ~Returned(r)
                    /\ act'[r].pc = "reply" /\ sessions'[r].challenge = r
                    /\ sessions'[r].app = AppOf[sessions'[r].license]
  BY <1>3 DEF Inserts, Advances, Opens, LicenseFound
<1>8. Opens(r)'
  BY <1>2, <1>3, <1>4, <1>5, <1>6, <1>7 DEF Opens, Returned, LicenseFound
<1>9. \A x \in Activations \ {r} : Opens(x)'
  BY <1>2, <1>3 DEF Opens, Returned, LicenseFound
<1> QED
  BY <1>2, <1>5, <1>7, <1>8, <1>9 DEF OpenInv, ActivationEffect, Returned

-----------------------------------------------------------------------------
(* The owner and the reset workflow only delete sessions or revoke them.    *)
SameSession(s) ==
  /\ sessions'[s].app = sessions[s].app
  /\ sessions'[s].license = sessions[s].license
  /\ sessions'[s].hwid = sessions[s].hwid
  /\ sessions'[s].challenge = sessions[s].challenge

NoNewSession ==
  \A s \in Activations :
    sessions'[s] # None =>
      /\ sessions[s] # None /\ SameSession(s)
      /\ sessions[s].revoked => sessions'[s].revoked

LEMMA OwnerSessions == ASSUME TypeOK, OwnerNext PROVE NoNewSession
<1> USE DEF NoNewSession, SameSession
<1>0. sessions \in [Activations -> SessionRow \cup {None}]
  BY DEF TypeOK, SchemaTypeOK
<1>1. ASSUME NEW l \in Licenses, NEW status \in {"active", "disabled"},
             SetStatus(l, status)
      PROVE  NoNewSession
  BY <1>1 DEF SetStatus
<1>2. ASSUME NEW a \in Apps, NEW enabled \in BOOLEAN, SetEnabled(a, enabled)
      PROVE  NoNewSession
  BY <1>2 DEF SetEnabled
<1>3. ASSUME NEW a \in Apps, NEW build \in Builds \cup {None},
             UpdateIntegrity(a, build)
      PROVE  NoNewSession
  BY <1>3 DEF UpdateIntegrity
<1>4. ASSUME NEW l \in Licenses, DeleteLicense(l) PROVE NoNewSession
  BY <1>4 DEF DeleteLicense
<1>5. ASSUME NEW a \in Apps, DeleteApplication(a) PROVE NoNewSession
  BY <1>5 DEF DeleteApplication
<1>6. ASSUME NEW s \in Activations, RevokeSession(s) PROVE NoNewSession
  <2>1. sessions' = [sessions EXCEPT ![s] = [sessions[s] EXCEPT !.revoked = TRUE]]
    BY <1>0, <1>6 DEF RevokeSession
  <2>2. sessions[s] \in SessionRow
    BY <1>0, <1>6 DEF RevokeSession
  <2> QED
    BY <1>0, <1>6, <2>1, <2>2 DEF SessionRow, RevokeSession
<1> QED
  BY <1>1, <1>2, <1>3, <1>4, <1>5, <1>6 DEF OwnerNext

LEMMA ResetSessions == ASSUME ResetNext PROVE UNCHANGED sessions
  BY DEF ResetNext, CreateHwidResetLink, SubmitHwidResetRequest,
         ApproveHwidResetRequest, RejectHwidResetRequest

LEMMA ElsewhereKeeps ==
  ASSUME OpenInv, ConsumeInv, NoNewSession, UNCHANGED <<act, chk>>
  PROVE  OpenInv' /\ ConsumeInv'
<1>1. OpenInv'
  BY DEF OpenInv, Opens, NoNewSession, SameSession, Returned, LicenseFound
<1>2. \A c \in Checks : Checked(c)'
  BY DEF ConsumeInv, Checked, Drawn, Returned
<1>3. \A s \in Activations : sessions'[s] # None => Drawn(sessions[s].challenge, s)'
  BY DEF ConsumeInv, NoNewSession, SameSession, Drawn
<1>4. ChallengeConsumedOnce'
  BY DEF ConsumeInv, ChallengeConsumedOnce, Checked, NoNewSession, SameSession
<1> QED
  BY <1>1, <1>2, <1>3, <1>4 DEF ConsumeInv

(* An activation never touches a session that a check has used.             *)
LEMMA ActivationConsumes ==
  ASSUME TypeOK, OpenInv, ConsumeInv, ActivationEffect, UNCHANGED chk
  PROVE  ConsumeInv'
<1>1. ASSUME NEW c \in Checks PROVE Checked(c)'
  <2>1. chk[c].token \in Activations \cup {None}
    BY DEF TypeOK, CheckTypeOK, CheckRow
  <2>2. Checked(c)
    BY DEF ConsumeInv
  <2>3. \A x \in Activations : Returned(x) => Returned(x)'
    BY DEF ActivationEffect
  <2>4. \A s : Drawn(chk[c].challenge, s) => Drawn(chk[c].challenge, s)'
    BY DEF Drawn
  <2>5. chk[c].token # None => Returned(chk[c].token)'
    BY <2>1, <2>2, <2>3 DEF Checked
  <2> QED
    BY <2>2, <2>4, <2>5 DEF Checked, Drawn, Returned
<1>2. \A s \in Activations : sessions'[s] # None => Drawn(sessions[s].challenge, s)'
  BY DEF ConsumeInv, ActivationEffect, Drawn
<1>3. ASSUME NEW c \in Checks, chk[c].rotated
      PROVE  sessions'[chk[c].token] = sessions[chk[c].token]
  <2>1. chk[c].token \in Activations /\ chk[c].token # None
    BY <1>3, NoneIsNoValue DEF ConsumeInv, Checked
  <2>2. Returned(chk[c].token)
    BY <2>1 DEF ConsumeInv, Checked
  <2> QED
    BY <2>1, <2>2 DEF ActivationEffect
<1>4. ChallengeConsumedOnce'
  BY <1>3 DEF ConsumeInv, ChallengeConsumedOnce
<1> QED
  BY <1>1, <1>2, <1>4 DEF ConsumeInv

-----------------------------------------------------------------------------
(* What one step of check c does, as for activations.                       *)
CheckAdvances(c, from, to) == chk[c].pc = from /\ chk'[c].pc = to

SameCheck(c) ==
  /\ chk'[c].app = chk[c].app /\ chk'[c].token = chk[c].token
  /\ chk'[c].challenge = chk[c].challenge /\ chk'[c].nonce = chk[c].nonce

CheckSends(c) ==
  /\ CheckAdvances(c, "idle", "select_app") /\ ~chk'[c].rotated
  /\ \/ chk'[c].nonce = c /\ Returned(chk'[c].token)
     \/ \E first \in Checks :
          /\ chk[first].nonce = first /\ chk'[c].nonce = first
          /\ chk'[c].app = chk[first].app /\ chk'[c].token = chk[first].token
  /\ UNCHANGED sessions

CheckEnds(c) ==
  /\ chk[c].pc \notin {"idle", "done"} /\ chk'[c].pc = "done"
  /\ chk'[c].rotated = chk[c].rotated
  /\ UNCHANGED sessions

CheckReads(c) ==
  /\ \/ CheckAdvances(c, "select_app", "reserve")
     \/ CheckAdvances(c, "reserve", "select_session")
     \/ CheckAdvances(c, "reserve", "integrity_mismatch")
     \/ /\ CheckAdvances(c, "reserve", "replay_detected")
        /\ <<chk[c].app, chk[c].nonce>> \in nonces
     \/ CheckAdvances(c, "verify", "challenge_mismatch")
     \/ /\ CheckAdvances(c, "rotate", "challenge_replay")
        /\ ~StillHolds(chk[c].token, chk[c].challenge)
     \/ /\ CheckAdvances(c, "select_session", "verify")
        /\ FindsSession(chk[c].app, chk[c].token)
        /\ chk'[c].session = sessions[chk[c].token]
     \/ /\ CheckAdvances(c, "verify", "rotate")
        /\ chk[c].challenge = chk[c].session.challenge
        /\ chk'[c].session = chk[c].session
     \/ CheckAdvances(c, "select_license", "judge")
  /\ chk'[c].rotated = chk[c].rotated
  /\ UNCHANGED sessions

CheckRotates(c) ==
  /\ CheckAdvances(c, "rotate", "select_license")
  /\ StillHolds(chk[c].token, chk[c].challenge)
  /\ sessions' = [sessions EXCEPT ![chk[c].token].challenge = c]
  /\ chk'[c].rotated

CheckLogs(c) ==
  \/ UNCHANGED logs
  \/ /\ chk[c].pc = "reserve"
     /\ chk'[c].pc \in {"select_session", "replay_detected", "integrity_mismatch"}
     /\ nonces' = nonces \cup {<<chk[c].app, chk[c].nonce>>} /\ UNCHANGED events
  \/ /\ chk[c].pc \in EventTypes /\ UNCHANGED nonces
     /\ events' = events \cup {<<chk[c].pc, chk[c].app>>}

CheckStepShape(c) ==
  /\ \A x \in Checks \ {c} : chk'[x] = chk[x]
  /\ UNCHANGED <<apps, licenses, resets, now, act>>
  /\ CheckLogs(c)
  /\ \/ CheckSends(c)
     \/ SameCheck(c) /\ (CheckEnds(c) \/ CheckReads(c) \/ CheckRotates(c))

LEMMA CheckEndMoves ==
  ASSUME TypeOK, NEW c \in Checks, NEW outcome, EndCheck(c, outcome)
  PROVE  /\ \A x \in Checks \ {c} : chk'[x] = chk[x]
         /\ SameCheck(c) /\ chk'[c].pc = "done"
         /\ chk'[c].rotated = chk[c].rotated
<1> DEFINE q == [chk[c] EXCEPT !.pc = "done", !.outcome = outcome,
                   !.application = None, !.session = None, !.license = None]
<1>1. chk[c] \in CheckRow /\ DOMAIN chk = Checks
  BY DEF TypeOK, CheckTypeOK
<1>2. chk' = [chk EXCEPT ![c] = q]
  BY <1>1 DEF EndCheck
<1>3. /\ q.pc = "done" /\ q.app = chk[c].app /\ q.token = chk[c].token
      /\ q.challenge = chk[c].challenge /\ q.nonce = chk[c].nonce
      /\ q.rotated = chk[c].rotated
  BY <1>1 DEF CheckRow
<1> HIDE DEF q
<1> QED
  BY <1>1, <1>2, <1>3 DEF SameCheck

(* Every step of a check is one of these.                                   *)
LEMMA CheckSteps ==
  ASSUME TypeOK, CheckNext PROVE \E c \in Checks : CheckStepShape(c)
<1> USE DEF CheckAdvances
<1>0. /\ DOMAIN chk = Checks
      /\ \A c \in Checks : chk[c] \in CheckRow
  BY DEF TypeOK, CheckTypeOK
<1>1. ASSUME NEW c \in Checks, NEW q, chk' = [chk EXCEPT ![c] = q]
      PROVE  /\ chk'[c] = q
             /\ \A x \in Checks \ {c} : chk'[x] = chk[x]
  BY <1>0, <1>1
<1>2. ASSUME NEW c \in Checks, NEW outcome, EndCheck(c, outcome),
             chk[c].pc \notin {"idle", "done"}, CheckLogs(c),
             UNCHANGED <<apps, licenses, sessions, resets, now, act>>
      PROVE  CheckStepShape(c)
  BY <1>2, CheckEndMoves DEF CheckStepShape, CheckEnds
<1>14. ASSUME NEW c \in Checks, NEW type, ReportCheck(c, type)
       PROVE  /\ \A x \in Checks \ {c} : chk'[x] = chk[x]
              /\ SameCheck(c) /\ chk'[c].pc = type
              /\ chk'[c].rotated = chk[c].rotated
  <2> DEFINE q == [chk[c] EXCEPT !.pc = type, !.application = None, !.session = None]
  <2>1. chk' = [chk EXCEPT ![c] = q]
    BY <1>0, <1>14 DEF ReportCheck
  <2>2. /\ q.pc = type /\ q.rotated = chk[c].rotated /\ q.app = chk[c].app
        /\ q.token = chk[c].token /\ q.challenge = chk[c].challenge
        /\ q.nonce = chk[c].nonce
    BY <1>0 DEF CheckRow
  <2> HIDE DEF q
  <2> QED
    BY <1>1, <2>1, <2>2 DEF SameCheck
<1>3. ASSUME NEW c \in Checks, NEW a \in Apps, NEW s \in Activations,
             NEW x \in Requests, NEW d \in Devices, NEW b \in Builds \cup {None},
             CheckSession(c, a, s, x, d, b)
      PROVE  CheckStepShape(c)
  <2> DEFINE q == [Unchecked EXCEPT !.pc = "select_app", !.app = a,
                     !.token = s, !.challenge = x, !.hwid = d, !.build = b, !.nonce = c]
  <2>1. /\ chk' = [chk EXCEPT ![c] = q] /\ UNCHANGED <<db, act>>
        /\ chk[c].pc = "idle" /\ Returned(s)
    BY <1>3 DEF CheckSession
  <2>2. q.pc = "select_app" /\ q.token = s /\ q.rotated = FALSE /\ q.nonce = c
    BY DEF Unchecked
  <2> HIDE DEF q
  <2> QED
    BY <1>1, <2>1, <2>2
       DEF CheckStepShape, CheckSends, CheckLogs, db, resets, logs
<1>4. ASSUME NEW c \in Checks, NEW first \in Checks, CheckSessionAgain(c, first)
      PROVE  CheckStepShape(c)
  <2> DEFINE q == [Unchecked EXCEPT !.pc = "select_app",
                     !.app = chk[first].app, !.token = chk[first].token,
                     !.challenge = chk[first].challenge, !.hwid = chk[first].hwid,
                     !.build = chk[first].build, !.nonce = first]
  <2>1. /\ chk' = [chk EXCEPT ![c] = q] /\ UNCHANGED <<db, act>>
        /\ chk[c].pc = "idle" /\ chk[first].nonce = first
    BY <1>4 DEF CheckSessionAgain
  <2>2. /\ q.pc = "select_app" /\ q.token = chk[first].token /\ q.rotated = FALSE
        /\ q.nonce = first /\ q.app = chk[first].app
    BY DEF Unchecked
  <2> HIDE DEF q
  <2> QED
    BY <1>1, <2>1, <2>2
       DEF CheckStepShape, CheckSends, CheckLogs, db, resets, logs
<1>5. ASSUME NEW c \in Checks, CheckSelectApplication(c) PROVE CheckStepShape(c)
  <2> DEFINE q == [chk[c] EXCEPT !.pc = "reserve", !.application = apps[chk[c].app]]
  <2>1. /\ UNCHANGED <<db, act>> /\ chk[c].pc = "select_app"
        /\ EndCheck(c, "rejected") \/ chk' = [chk EXCEPT ![c] = q]
    BY <1>0, <1>5 DEF CheckSelectApplication
  <2>2. /\ q.pc = "reserve" /\ q.rotated = chk[c].rotated /\ q.app = chk[c].app
        /\ q.token = chk[c].token /\ q.challenge = chk[c].challenge
        /\ q.nonce = chk[c].nonce
    BY <1>0 DEF CheckRow
  <2>3. UNCHANGED <<apps, licenses, sessions, resets, now, act>> /\ CheckLogs(c)
    BY <2>1 DEF db, resets, logs, CheckLogs
  <2> HIDE DEF q
  <2> QED
    BY <1>1, <1>2, <2>1, <2>2, <2>3 DEF CheckStepShape, SameCheck, CheckReads
<1>6. ASSUME NEW c \in Checks, CheckReserve(c) PROVE CheckStepShape(c)
  <2> DEFINE q == [chk[c] EXCEPT !.pc = "select_session", !.application = None]
  <2>1. /\ UNCHANGED <<apps, licenses, sessions, resets, events, now, act>>
        /\ chk[c].pc = "reserve"
        /\ nonces' = nonces \cup {<<chk[c].app, chk[c].nonce>>}
        /\ \/ chk' = [chk EXCEPT ![c] = q]
           \/ ReportCheck(c, "integrity_mismatch")
           \/ /\ ReportCheck(c, "replay_detected")
              /\ <<chk[c].app, chk[c].nonce>> \in nonces
    BY <1>0, <1>6 DEF CheckReserve, ReserveNonce, IsFresh
  <2>2. /\ q.pc = "select_session" /\ q.rotated = chk[c].rotated
        /\ q.app = chk[c].app /\ q.token = chk[c].token
        /\ q.challenge = chk[c].challenge /\ q.nonce = chk[c].nonce
    BY <1>0 DEF CheckRow
  <2> HIDE DEF q
  <2>3. CASE chk' = [chk EXCEPT ![c] = q]
    BY <1>1, <2>1, <2>2, <2>3 DEF CheckStepShape, SameCheck, CheckReads, CheckLogs
  <2>4. CASE ReportCheck(c, "integrity_mismatch")
    BY <1>14, <2>1, <2>4 DEF CheckStepShape, CheckReads, CheckLogs
  <2>5. CASE /\ ReportCheck(c, "replay_detected")
             /\ <<chk[c].app, chk[c].nonce>> \in nonces
    BY <1>14, <2>1, <2>5 DEF CheckStepShape, CheckReads, CheckLogs
  <2> QED
    BY <2>1, <2>3, <2>4, <2>5
<1>7. ASSUME NEW c \in Checks, SelectSession(c) PROVE CheckStepShape(c)
  <2> DEFINE q == [chk[c] EXCEPT !.pc = "verify", !.session = sessions[chk[c].token]]
  <2>1. /\ UNCHANGED <<db, act>> /\ chk[c].pc = "select_session"
        /\ \/ EndCheck(c, "rejected")
           \/ /\ chk' = [chk EXCEPT ![c] = q]
              /\ FindsSession(chk[c].app, chk[c].token)
    BY <1>0, <1>7 DEF SelectSession
  <2>2. /\ q.pc = "verify" /\ q.rotated = chk[c].rotated /\ q.app = chk[c].app
        /\ q.token = chk[c].token /\ q.challenge = chk[c].challenge
        /\ q.nonce = chk[c].nonce /\ q.session = sessions[chk[c].token]
    BY <1>0 DEF CheckRow
  <2>3. UNCHANGED <<apps, licenses, sessions, resets, now, act>> /\ CheckLogs(c)
    BY <2>1 DEF db, resets, logs, CheckLogs
  <2> HIDE DEF q
  <2> QED
    BY <1>1, <1>2, <2>1, <2>2, <2>3 DEF CheckStepShape, SameCheck, CheckReads
<1>8. ASSUME NEW c \in Checks, Verify(c) PROVE CheckStepShape(c)
  <2> DEFINE q == [chk[c] EXCEPT !.pc = "rotate"]
  <2>1. /\ UNCHANGED <<db, act>> /\ chk[c].pc = "verify"
        /\ \/ EndCheck(c, "rejected")
           \/ ReportCheck(c, "challenge_mismatch")
           \/ /\ chk' = [chk EXCEPT ![c] = q]
              /\ chk[c].challenge = chk[c].session.challenge
    BY <1>0, <1>8 DEF Verify
  <2>2. /\ q.pc = "rotate" /\ q.rotated = chk[c].rotated /\ q.app = chk[c].app
        /\ q.token = chk[c].token /\ q.challenge = chk[c].challenge
        /\ q.nonce = chk[c].nonce /\ q.session = chk[c].session
    BY <1>0 DEF CheckRow
  <2>3. UNCHANGED <<apps, licenses, sessions, resets, now, act>> /\ CheckLogs(c)
    BY <2>1 DEF db, resets, logs, CheckLogs
  <2> HIDE DEF q
  <2>4. CASE ReportCheck(c, "challenge_mismatch")
    BY <1>14, <2>1, <2>3, <2>4 DEF CheckStepShape, CheckReads
  <2> QED
    BY <1>1, <1>2, <2>1, <2>2, <2>3, <2>4 DEF CheckStepShape, SameCheck, CheckReads
<1>9. ASSUME NEW c \in Checks, Rotate(c) PROVE CheckStepShape(c)
  <2> DEFINE q == [chk[c] EXCEPT !.pc = "select_license", !.rotated = TRUE]
  <2>1. /\ UNCHANGED <<apps, licenses, resets, logs, now, act>>
        /\ chk[c].pc = "rotate"
        /\ \/ /\ StillHolds(chk[c].token, chk[c].challenge)
              /\ sessions' = [sessions EXCEPT ![chk[c].token].challenge = c]
              /\ chk' = [chk EXCEPT ![c] = q]
           \/ /\ ~StillHolds(chk[c].token, chk[c].challenge)
              /\ ReportCheck(c, "challenge_replay") /\ UNCHANGED sessions
    BY <1>0, <1>9 DEF Rotate
  <2>2. /\ q.pc = "select_license" /\ q.rotated /\ q.app = chk[c].app
        /\ q.token = chk[c].token /\ q.challenge = chk[c].challenge
        /\ q.nonce = chk[c].nonce
    BY <1>0 DEF CheckRow
  <2>3. CheckLogs(c)
    BY <2>1 DEF CheckLogs
  <2> HIDE DEF q
  <2>4. CASE /\ ~StillHolds(chk[c].token, chk[c].challenge)
             /\ ReportCheck(c, "challenge_replay") /\ UNCHANGED sessions
    BY <1>14, <2>1, <2>3, <2>4 DEF CheckStepShape, CheckReads
  <2> QED
    BY <1>1, <2>1, <2>2, <2>3, <2>4 DEF CheckStepShape, SameCheck, CheckRotates
<1>10. ASSUME NEW c \in Checks, CheckSelectLicense(c) PROVE CheckStepShape(c)
  <2> DEFINE q == [chk[c] EXCEPT !.pc = "judge",
                                 !.license = licenses[chk[c].session.license]]
  <2>1. /\ UNCHANGED <<db, act>> /\ chk[c].pc = "select_license"
        /\ EndCheck(c, "rejected") \/ chk' = [chk EXCEPT ![c] = q]
    BY <1>0, <1>10 DEF CheckSelectLicense
  <2>2. /\ q.pc = "judge" /\ q.rotated = chk[c].rotated /\ q.app = chk[c].app
        /\ q.token = chk[c].token /\ q.challenge = chk[c].challenge
        /\ q.nonce = chk[c].nonce
    BY <1>0 DEF CheckRow
  <2>3. UNCHANGED <<apps, licenses, sessions, resets, now, act>> /\ CheckLogs(c)
    BY <2>1 DEF db, resets, logs, CheckLogs
  <2> HIDE DEF q
  <2> QED
    BY <1>1, <1>2, <2>1, <2>2, <2>3 DEF CheckStepShape, SameCheck, CheckReads
<1>11. ASSUME NEW c \in Checks, NEW outcome, EndCheck(c, outcome),
              chk[c].pc \notin {"idle", "done"}, UNCHANGED <<db, act>>
       PROVE  CheckStepShape(c)
  <2>1. UNCHANGED <<apps, licenses, sessions, resets, now, act>> /\ CheckLogs(c)
    BY <1>11 DEF db, resets, logs, CheckLogs
  <2> QED
    BY <1>2, <1>11, <2>1
<1>12. ASSUME NEW c \in Checks, Judge(c) PROVE CheckStepShape(c)
  BY <1>11, <1>12 DEF Judge
<1>13. ASSUME NEW c \in Checks, CheckThrow(c) PROVE CheckStepShape(c)
  BY <1>11, <1>13 DEF CheckThrow
<1>15. ASSUME NEW c \in Checks, CheckRecordEvent(c) PROVE CheckStepShape(c)
  <2>1. /\ UNCHANGED <<apps, licenses, sessions, resets, nonces, now, act>>
        /\ chk[c].pc \in EventTypes
        /\ \/ UNCHANGED events
           \/ events' = events \cup {<<chk[c].pc, chk[c].app>>}
        /\ \E outcome \in {"rejected", "threw"} : EndCheck(c, outcome)
    BY <1>15 DEF CheckRecordEvent, Record
  <2>2. CheckLogs(c) /\ chk[c].pc \notin {"idle", "done"}
    BY <2>1 DEF CheckLogs, logs, EventTypes
  <2> QED
    BY <1>2, <2>1, <2>2
<1> QED
  BY <1>3, <1>4, <1>5, <1>6, <1>7, <1>8, <1>9, <1>10, <1>12, <1>13, <1>15
     DEF CheckNext, CheckStep

-----------------------------------------------------------------------------
(* A check changes at most the challenge of one session that is not revoked. *)
CheckEffect ==
  \A s \in Activations :
    \/ sessions'[s] = sessions[s]
    \/ /\ sessions[s] # None /\ ~sessions[s].revoked /\ sessions'[s] # None
       /\ sessions'[s].app = sessions[s].app
       /\ sessions'[s].license = sessions[s].license
       /\ sessions'[s].hwid = sessions[s].hwid
       /\ ~sessions'[s].revoked

(* A check moves on, and the sessions stay.                                 *)
LEMMA CheckMoves ==
  ASSUME TypeOK, ConsumeInv, NEW c \in Checks,
         \A x \in Checks \ {c} : chk'[x] = chk[x], UNCHANGED <<sessions, act>>,
         chk'[c].rotated => /\ chk[c].rotated /\ chk'[c].token = chk[c].token
                            /\ chk'[c].challenge = chk[c].challenge,
         chk[c].rotated => chk'[c].rotated,
         chk'[c].token # None => Returned(chk'[c].token),
         chk'[c].pc \notin {"select_license", "judge", "done"} => ~chk'[c].rotated
  PROVE  ConsumeInv'
<1>2. \A x, s : Drawn(x, s) => Drawn(x, s)'
  BY DEF Drawn
<1>3. ASSUME NEW x \in Checks PROVE Checked(x)'
  <2>1. CASE x = c
    <3>1. Checked(c)
      BY DEF ConsumeInv
    <3>2. ASSUME chk'[x].rotated
          PROVE  /\ chk'[x].token \in Activations
                 /\ Drawn(chk[x].challenge, chk[x].token)'
      <4>1. /\ Drawn(chk[c].challenge, chk[c].token) /\ chk[c].token \in Activations
            /\ chk'[x].token = chk[c].token /\ chk'[x].challenge = chk[c].challenge
        BY <2>1, <3>1, <3>2 DEF Checked
      <4>2. PICK y, s : /\ y = chk[c].challenge /\ s = chk[c].token
        OBVIOUS
      <4>3. Drawn(y, s)'
        BY <1>2, <4>1, <4>2
      <4> QED
        BY <4>1, <4>2, <4>3 DEF Drawn
    <3>3. /\ chk'[x].token # None => Returned(chk[x].token)'
          /\ chk'[x].pc \notin {"select_license", "judge", "done"} => ~chk'[x].rotated
      BY <2>1 DEF Returned
    <3> QED
      BY <3>2, <3>3 DEF Checked
  <2>2. CASE x # c
    <3>1. Checked(x) /\ chk'[x] = chk[x]
      BY <2>2 DEF ConsumeInv
    <3>2. chk[x].rotated => Drawn(chk[x].challenge, chk[x].token)'
      BY <1>2, <3>1 DEF Checked, Drawn
    <3> QED
      BY <3>1, <3>2 DEF Checked, Returned, Drawn
  <2> QED
    BY <2>1, <2>2
<1>4. ASSUME NEW s \in Activations, sessions'[s] # None
      PROVE  Drawn(sessions[s].challenge, s)'
  <2>1. Drawn(sessions[s].challenge, s) /\ sessions'[s] = sessions[s]
    BY <1>4 DEF ConsumeInv
  <2> QED
    BY <2>1 DEF Drawn
<1>5. ChallengeConsumedOnce'
  BY DEF ConsumeInv, ChallengeConsumedOnce
<1> QED
  BY <1>3, <1>4, <1>5 DEF ConsumeInv

(* The conditional update takes the challenge that the session holds, which *)
(* no check has consumed, and puts a new one in its place.                  *)
LEMMA RotateConsumes ==
  ASSUME TypeOK, OpenInv, ConsumeInv, NEW c \in Checks,
         \A x \in Checks \ {c} : chk'[x] = chk[x],
         SameCheck(c), CheckRotates(c), UNCHANGED act
  PROVE  ConsumeInv' /\ CheckEffect
<1> DEFINE t == chk[c].token
           row == [sessions[t] EXCEPT !.challenge = c]
<1>1. t \in Activations /\ t # None
  <2>1. chk[c] \in CheckRow /\ chk[c].pc = "rotate" /\ CheckHasRead(chk[c])
    BY DEF TypeOK, CheckTypeOK, CheckRotates, CheckAdvances
  <2> QED
    BY <2>1 DEF CheckRow, CheckHasRead
<1>3. /\ \A x \in Checks \ {c} : chk'[x] = chk[x]
      /\ chk'[c].pc = "select_license" /\ chk'[c].rotated
      /\ chk'[c].token = t /\ chk'[c].challenge = chk[c].challenge
  BY DEF CheckRotates, CheckAdvances, SameCheck
<1>4. /\ sessions[t] # None /\ ~sessions[t].revoked
      /\ sessions[t].challenge = chk[c].challenge
  BY DEF CheckRotates, StillHolds
<1>5. sessions[t] \in SessionRow
  BY <1>1, <1>4 DEF TypeOK, SchemaTypeOK
<1>6. /\ sessions'[t] = row
      /\ \A s \in Activations \ {t} : sessions'[s] = sessions[s]
  BY <1>1 DEF TypeOK, SchemaTypeOK, CheckRotates
<1>7. /\ row.challenge = c /\ row.app = sessions[t].app
      /\ row.license = sessions[t].license /\ row.hwid = sessions[t].hwid
      /\ row \in SessionRow /\ ~row.revoked
  BY <1>4, <1>5 DEF SessionRow, Requests
<1>8. row # None
  BY <1>7, NoneIsNoValue
<1>9. ~chk[c].rotated /\ Returned(t)
  BY <1>1 DEF ConsumeInv, Checked, CheckRotates, CheckAdvances
<1> HIDE DEF row
<1>10. ASSUME NEW x, NEW s, Drawn(x, s)
       PROVE  x # c \/ s \notin Activations
  BY <1>9, <1>10, SchemaAssumption DEF Drawn
<1>11. \A x, s : Drawn(x, s) => Drawn(x, s)'
  BY <1>3, <1>9 DEF Drawn
<1>12. Drawn(chk[c].challenge, t)
  BY <1>1, <1>4 DEF ConsumeInv
<1>13. ASSUME NEW x \in Checks PROVE Checked(x)'
  <2>1. CASE x = c
    <3>1. /\ chk'[x].token = t /\ chk'[x].challenge = chk[c].challenge
          /\ chk'[x].pc = "select_license" /\ Returned(t)'
      BY <1>3, <1>9, <2>1 DEF Returned
    <3>2. Drawn(chk[x].challenge, chk[x].token)'
      BY <1>3, <1>9, <1>12, <2>1, <3>1 DEF Drawn
    <3> QED
      BY <1>1, <1>9, <3>1, <3>2 DEF Checked, Returned
  <2>2. CASE x # c
    <3>1. Checked(x) /\ chk'[x] = chk[x]
      BY <1>3, <2>2 DEF ConsumeInv
    <3>2. chk[x].rotated => Drawn(chk[x].challenge, chk[x].token)'
      BY <1>11, <3>1 DEF Checked
    <3> QED
      BY <3>1, <3>2 DEF Checked, Returned, Drawn
  <2> QED
    BY <2>1, <2>2
<1>14. ASSUME NEW s \in Activations, sessions'[s] # None
       PROVE  Drawn(sessions[s].challenge, s)'
  <2>1. CASE s = t
    BY <1>3, <1>6, <1>7, <2>1 DEF Drawn
  <2>2. CASE s # t
    <3>1. Drawn(sessions[s].challenge, s) /\ sessions'[s] = sessions[s]
      BY <1>6, <1>14, <2>2 DEF ConsumeInv
    <3> QED
      BY <1>3, <1>9, <3>1 DEF Drawn
  <2> QED
    BY <2>1, <2>2
<1>15. ChallengeConsumedOnce'
  <2>1. \A x \in Checks \ {c} :
          chk[x].rotated /\ chk[x].token = t => chk[x].challenge # chk[c].challenge
    BY <1>4 DEF ConsumeInv, ChallengeConsumedOnce
  <2>2. chk[c].challenge # c
    BY <1>1, <1>10, <1>12
  <2>3. \A x \in Checks : chk[x].rotated => chk[x].challenge # c
    BY <1>10 DEF ConsumeInv, Checked
  <2>4. ASSUME NEW x \in Checks \ {c}, chk[x].rotated
        PROVE  sessions'[chk[x].token] # None =>
                 sessions'[chk[x].token].challenge # chk[x].challenge
    <3>1. chk[x].token \in Activations
      BY <2>4 DEF ConsumeInv, Checked
    <3> QED
      BY <1>6, <1>7, <2>3, <2>4, <3>1 DEF ConsumeInv, ChallengeConsumedOnce
  <2>5. sessions'[t] # None => sessions'[t].challenge # chk[c].challenge
    BY <1>6, <1>7, <2>2
  <2>6. \A x, y \in Checks \ {c} :
          chk[x].rotated /\ chk[y].rotated /\ x # y /\ chk[x].token = chk[y].token
          => chk[x].challenge # chk[y].challenge
    BY DEF ConsumeInv, ChallengeConsumedOnce
  <2>7. chk'[c].token = t /\ chk'[c].challenge = chk[c].challenge
    BY <1>3
  <2>8. ASSUME NEW x \in Checks, chk'[x].rotated
        PROVE  /\ \A other \in Checks \ {x} :
                    chk'[other].rotated /\ chk'[other].token = chk'[x].token
                    => chk'[other].challenge # chk'[x].challenge
               /\ sessions'[chk'[x].token] # None =>
                    sessions'[chk'[x].token].challenge # chk'[x].challenge
    <3>1. CASE x = c
      BY <1>3, <2>1, <2>5, <2>7, <3>1
    <3>2. CASE x # c
      <4>1. chk'[x] = chk[x] /\ chk[x].rotated
        BY <1>3, <2>8, <3>2
      <4>2. ASSUME NEW other \in Checks \ {x}, chk'[other].rotated,
                   chk'[other].token = chk'[x].token
            PROVE  chk'[other].challenge # chk'[x].challenge
        <5>1. CASE other = c
          BY <2>1, <2>7, <3>2, <4>1, <4>2, <5>1
        <5>2. CASE other # c
          <6>1. chk'[other] = chk[other]
            BY <1>3, <5>2
          <6>2. /\ chk[other].rotated /\ chk[other].token = chk[x].token
                /\ other \in Checks \ {c} /\ x \in Checks \ {c} /\ x # other
            BY <3>2, <4>1, <4>2, <5>2, <6>1
          <6>3. chk[x].challenge # chk[other].challenge
            BY <2>6, <4>1, <6>2
          <6> QED
            BY <4>1, <6>1, <6>3
        <5> QED
          BY <5>1, <5>2
      <4>3. sessions'[chk[x].token] # None =>
              sessions'[chk[x].token].challenge # chk[x].challenge
        BY <2>4, <3>2, <4>1
      <4> QED
        BY <4>1, <4>2, <4>3
    <3> QED
      BY <3>1, <3>2
  <2> HIDE DEF t
  <2> QED
    BY <2>8 DEF ChallengeConsumedOnce
<1>16. CheckEffect
  BY <1>4, <1>6, <1>7, <1>8 DEF CheckEffect
<1> QED
  BY <1>13, <1>14, <1>15, <1>16 DEF ConsumeInv

LEMMA CheckConsumes ==
  ASSUME TypeOK, OpenInv, ConsumeInv, CheckNext
  PROVE  OpenInv' /\ ConsumeInv' /\ CheckEffect
<1>1. PICK c \in Checks : CheckStepShape(c)
  BY CheckSteps
<1>2. /\ \A x \in Checks \ {c} : chk'[x] = chk[x]
      /\ UNCHANGED act
      /\ Checked(c) /\ chk[c].rotated \in BOOLEAN
  BY <1>1 DEF CheckStepShape, ConsumeInv, TypeOK, CheckTypeOK, CheckRow
<1>3. CASE SameCheck(c) /\ CheckRotates(c)
  BY <1>2, <1>3, RotateConsumes DEF OpenInv, Opens, CheckEffect, Returned, LicenseFound
<1>4. CASE CheckSends(c)
  <2>1. /\ ~chk[c].rotated /\ ~chk'[c].rotated /\ UNCHANGED sessions
        /\ chk'[c].token # None => Returned(chk'[c].token)
    BY <1>2, <1>4 DEF CheckSends, CheckAdvances, Checked, ConsumeInv
  <2>2. ConsumeInv'
    BY <1>2, <2>1, CheckMoves
  <2> QED
    BY <1>2, <2>1, <2>2 DEF OpenInv, Opens, CheckEffect, Returned, LicenseFound
<1>5. CASE SameCheck(c) /\ (CheckEnds(c) \/ CheckReads(c))
  <2>1. /\ UNCHANGED sessions /\ chk'[c].rotated = chk[c].rotated
        /\ chk'[c].token = chk[c].token /\ chk'[c].challenge = chk[c].challenge
        /\ \/ chk'[c].pc \in {"select_license", "judge", "done"}
           \/ chk[c].pc \notin {"select_license", "judge", "done"}
    BY <1>5 DEF CheckEnds, CheckReads, CheckAdvances, SameCheck
  <2>2. ConsumeInv'
    BY <1>2, <2>1, CheckMoves DEF Checked
  <2> QED
    BY <1>2, <2>1, <2>2 DEF OpenInv, Opens, CheckEffect, Returned, LicenseFound
<1> QED
  BY <1>1, <1>3, <1>4, <1>5 DEF CheckStepShape

-----------------------------------------------------------------------------
LEMMA SessionInvInit == Init => OpenInv /\ ConsumeInv
<1> SUFFICES ASSUME Init PROVE OpenInv /\ ConsumeInv
  OBVIOUS
<1>1. OpenInv
  BY SchemaAssumption
     DEF Init, SchemaInit, ActivationInit, Unsent, OpenInv, Opens, Returned, LicenseFound
<1>2. ConsumeInv
  BY DEF Init, SchemaInit, CheckInit, Unchecked, ConsumeInv, Checked,
         ChallengeConsumedOnce
<1> QED
  BY <1>1, <1>2

LEMMA SessionInvNext ==
  ASSUME SessionInv, [Next]_vars PROVE OpenInv' /\ ConsumeInv'
<1>1. TypeOK /\ OpenInv /\ ConsumeInv
  BY DEF SessionInv
<1>2. CASE ActivationNext /\ UNCHANGED chk
  BY <1>1, <1>2, ActivationOpens, ActivationConsumes
<1>3. CASE CheckNext
  BY <1>1, <1>3, CheckConsumes
<1>4. CASE ResetNext /\ UNCHANGED <<act, chk>>
  BY <1>1, <1>4, ResetSessions, ElsewhereKeeps DEF NoNewSession, SameSession
<1>5. CASE OwnerNext /\ UNCHANGED <<act, chk>>
  BY <1>1, <1>5, OwnerSessions, ElsewhereKeeps
<1>6. CASE Tick /\ UNCHANGED <<act, chk>>
  BY <1>1, <1>6, ElsewhereKeeps DEF Tick, tables, NoNewSession, SameSession
<1>7. CASE UNCHANGED vars
  BY <1>1, <1>7, ElsewhereKeeps DEF vars, db, NoNewSession, SameSession
<1> QED
  BY <1>2, <1>3, <1>4, <1>5, <1>6, <1>7 DEF Next

(* The invariant of the sessions: it is inductive given that the rows and   *)
(* requests are well formed.                                                *)
THEOREM SessionsSound == Spec => []SessionInv
<1>1. Init => OpenInv /\ ConsumeInv
  BY SessionInvInit
<1>2. TypeOK /\ (OpenInv /\ ConsumeInv) /\ [Next]_vars => (OpenInv /\ ConsumeInv)'
  BY SessionInvNext DEF SessionInv
<1>3. TypeOK /\ (OpenInv /\ ConsumeInv) => SessionInv
  BY DEF SessionInv
<1> QED
  BY <1>1, <1>2, <1>3, TypeCorrect, PTL DEF Spec

(* A check that has found its session named the application of it.          *)
InTenant(c) ==
  /\ chk[c].pc \in {"verify", "rotate"} \/ chk[c].rotated
  /\ sessions[chk[c].token] # None
  => sessions[chk[c].token].app = chk[c].app
TenantInv == \A c \in Checks : InTenant(c)

(* No step gives a session that was returned to another application.        *)
SessionsKeepApp ==
  \A s \in Activations :
    Returned(s) /\ sessions'[s] # None =>
      sessions[s] # None /\ sessions'[s].app = sessions[s].app

LEMMA TenantKept ==
  ASSUME TypeOK, ConsumeInv, TenantInv, SessionsKeepApp,
         NEW c \in Checks, chk'[c] = chk[c]
  PROVE  InTenant(c)'
<1>1. InTenant(c) /\ Checked(c) /\ chk[c] \in CheckRow /\ CheckHasRead(chk[c])
  BY DEF TenantInv, ConsumeInv, TypeOK, CheckTypeOK
<1>2. ASSUME chk[c].pc \in {"verify", "rotate"} \/ chk[c].rotated
      PROVE  chk[c].token \in Activations /\ Returned(chk[c].token)
  BY <1>1, <1>2, NoneIsNoValue DEF CheckRow, CheckHasRead, Checked
<1> QED
  BY <1>1, <1>2 DEF InTenant, SessionsKeepApp

LEMMA CheckStaysInTenant ==
  ASSUME TypeOK, OpenInv, ConsumeInv, TenantInv, CheckNext PROVE TenantInv'
<1>1. PICK c \in Checks : CheckStepShape(c)
  BY CheckSteps
<1>2. SessionsKeepApp
  BY CheckConsumes DEF CheckEffect, SessionsKeepApp
<1>3. \A x \in Checks \ {c} : InTenant(x)'
  BY <1>1, <1>2, TenantKept DEF CheckStepShape
<1>4. InTenant(c) /\ Checked(c) /\ chk[c] \in CheckRow /\ CheckHasRead(chk[c])
  BY DEF TenantInv, ConsumeInv, TypeOK, CheckTypeOK
<1>5. ASSUME CheckSends(c) PROVE InTenant(c)'
  BY <1>5 DEF CheckSends, CheckAdvances, InTenant
<1>6. ASSUME SameCheck(c), CheckEnds(c) \/ CheckReads(c) PROVE InTenant(c)'
  BY <1>4, <1>6
     DEF CheckEnds, CheckReads, CheckAdvances, SameCheck, InTenant, FindsSession
<1>7. ASSUME SameCheck(c), CheckRotates(c) PROVE InTenant(c)'
  <2>1. /\ chk[c].token \in Activations /\ Returned(chk[c].token)
        /\ chk[c].pc = "rotate"
    BY <1>4, <1>7 DEF CheckRotates, CheckAdvances, CheckRow, CheckHasRead, Checked
  <2> QED
    BY <1>2, <1>4, <1>7, <2>1 DEF SessionsKeepApp, SameCheck, InTenant
<1>8. InTenant(c)'
  BY <1>1, <1>5, <1>6, <1>7 DEF CheckStepShape
<1> QED
  BY <1>3, <1>8 DEF TenantInv

(* A session belongs to the application of its license, with which          *)
(* activateLicense looked it up, and is redeemed under this application,    *)
(* with which checkSession looked it up.                                    *)
THEOREM TenantsApart == Spec => []SessionIsolation
<1>1. Init => TenantInv
  BY DEF Init, CheckInit, Unchecked, TenantInv, InTenant
<1>2. SessionInv /\ TenantInv /\ [Next]_vars => TenantInv'
  <2> SUFFICES ASSUME SessionInv, TenantInv, [Next]_vars PROVE TenantInv'
    OBVIOUS
  <2>1. TypeOK /\ OpenInv /\ ConsumeInv
    BY DEF SessionInv
  <2>2. ASSUME SessionsKeepApp, UNCHANGED chk PROVE TenantInv'
    BY <2>1, <2>2, TenantKept DEF TenantInv
  <2>3. CASE ActivationNext /\ UNCHANGED chk
    BY <2>1, <2>2, <2>3, ActivationOpens DEF ActivationEffect, SessionsKeepApp
  <2>4. CASE CheckNext
    BY <2>1, <2>4, CheckStaysInTenant
  <2>5. CASE ResetNext /\ UNCHANGED <<act, chk>>
    BY <2>2, <2>5, ResetSessions DEF SessionsKeepApp
  <2>6. CASE OwnerNext /\ UNCHANGED <<act, chk>>
    BY <2>1, <2>2, <2>6, OwnerSessions DEF NoNewSession, SameSession, SessionsKeepApp
  <2>7. CASE Tick /\ UNCHANGED <<act, chk>>
    BY <2>2, <2>7 DEF Tick, tables, SessionsKeepApp
  <2>8. CASE UNCHANGED vars
    BY <2>2, <2>8 DEF vars, db, SessionsKeepApp
  <2> QED
    BY <2>3, <2>4, <2>5, <2>6, <2>7, <2>8 DEF Next
<1>3. SessionInv /\ TenantInv => SessionIsolation
  BY DEF SessionInv, OpenInv, Opens, TenantInv, InTenant, SessionIsolation
<1> QED
  BY <1>1, <1>2, <1>3, SessionsSound, PTL DEF Spec

(* No two checks redeem the same challenge (the conditional update of       *)
(* checkSession is enough, whatever was read before it).                    *)
THEOREM RedeemedOnce == Spec => []ChallengeConsumedOnce
<1>1. SessionInv => ChallengeConsumedOnce
  BY DEF SessionInv, ConsumeInv
<1> QED
  BY <1>1, SessionsSound, PTL

(* A revoked session stays revoked and keeps its challenge (the update of   *)
(* checkSession tests revoked_at again).                                    *)
THEOREM RevocationHolds == Spec => RevokedNeverRotates
<1> DEFINE Frozen ==
      \A s \in Activations :
        /\ sessions[s] # None /\ sessions[s].revoked
        /\ sessions'[s] # None
        => /\ sessions'[s].challenge = sessions[s].challenge
           /\ sessions'[s].revoked
<1>1. SessionInv /\ [Next]_vars => Frozen
  <2> SUFFICES ASSUME SessionInv, [Next]_vars PROVE Frozen
    OBVIOUS
  <2>1. TypeOK /\ OpenInv /\ ConsumeInv
    BY DEF SessionInv
  <2>2. CASE ActivationNext /\ UNCHANGED chk
    BY <2>1, <2>2, ActivationOpens DEF ActivationEffect
  <2>3. CASE CheckNext
    BY <2>1, <2>3, CheckConsumes DEF CheckEffect
  <2>4. CASE ResetNext /\ UNCHANGED <<act, chk>>
    BY <2>4, ResetSessions
  <2>5. CASE OwnerNext /\ UNCHANGED <<act, chk>>
    BY <2>1, <2>5, OwnerSessions DEF NoNewSession, SameSession
  <2>6. CASE Tick /\ UNCHANGED <<act, chk>>
    BY <2>6 DEF Tick, tables
  <2>7. CASE UNCHANGED vars
    BY <2>7 DEF vars, db
  <2> QED
    BY <2>2, <2>3, <2>4, <2>5, <2>6, <2>7 DEF Next
<1> QED
  BY <1>1, SessionsSound, PTL DEF Spec, RevokedNeverRotates

-----------------------------------------------------------------------------
(* Alarms.  A nonce in the table was put there by a request that is past    *)
(* its reservation; when the challenge a check was compared with is no      *)
(* longer the session's, another check has redeemed it, or the session is   *)
(* revoked or deleted; and an event about to be recorded has its cause.     *)
Past(q) == q.pc \notin {"idle", "select_app", "reserve"}

Reserved(a, n) ==
  \/ \E r \in Activations : act[r].nonce = n /\ act[r].app = a /\ Past(act[r])
  \/ \E c \in Checks : chk[c].nonce = n /\ chk[c].app = a /\ Past(chk[c])

Gone(s) == sessions[s] # None => sessions[s].revoked

Taken(c, x) ==
  \E other \in Checks \ {c} : /\ chk[other].rotated
                              /\ chk[other].token = chk[c].token
                              /\ chk[other].challenge = x
Compared(c) ==
  /\ chk[c].pc = "idle" => chk[c].token = None
  /\ chk[c].pc \in {"verify", "rotate"} =>
       \/ Gone(chk[c].token)
       \/ sessions[chk[c].token].challenge = chk[c].session.challenge
       \/ Taken(c, chk[c].session.challenge)
  /\ chk[c].pc = "rotate" => chk[c].challenge = chk[c].session.challenge

Reports(r) == act[r].pc = "replay_detected" => DeliveredTwice(act[r].app)
CheckReports(c) ==
  /\ chk[c].pc = "replay_detected" => DeliveredTwice(chk[c].app)
  /\ chk[c].pc = "challenge_replay" => LostToAnother(c)

CauseInv ==
  /\ \A a \in Apps, n \in Requests : <<a, n>> \in nonces => Reserved(a, n)
  /\ \A c \in Checks : Compared(c) /\ CheckReports(c)
  /\ \A r \in Activations : Reports(r)
  /\ AlarmsHaveCause

(* What no step undoes.                                                     *)
RequestsKeep ==
  /\ \A r \in Activations : /\ act[r].pc # "idle" => SameRequest(r)
                            /\ Past(act[r]) => Past(act'[r])
  /\ \A c \in Checks : /\ chk[c].pc # "idle" => SameCheck(c)
                       /\ Past(chk[c]) => Past(chk'[c])
                       /\ chk[c].rotated => chk'[c].rotated
  /\ \A s \in Activations : Gone(s) /\ Returned(s) => Gone(s)'

LEMMA CausesStay ==
  ASSUME TypeOK, ConsumeInv, RequestsKeep, \A c \in Checks : Compared(c)
  PROVE  /\ \A a, n : Reserved(a, n) => Reserved(a, n)'
         /\ \A a : DeliveredTwice(a) => DeliveredTwice(a)'
         /\ \A x : \A c \in Checks :
              chk[c].pc # "idle" /\ Taken(c, x) => Taken(c, x)'
         /\ \A c \in Checks :
              LostToAnother(c) => LostToAnother(c)' /\ chk'[c].app = chk[c].app
<1>1. /\ \A r \in Activations : act[r].nonce # None => act[r].pc # "idle"
      /\ \A c \in Checks :
           /\ chk[c].nonce # None \/ chk[c].rotated => chk[c].pc # "idle"
           /\ chk[c].token # None => chk[c].token \in Activations
                                     /\ Returned(chk[c].token)
  BY DEF TypeOK, ActivationTypeOK, CheckTypeOK, HasRead, CheckHasRead, CheckRow,
         ConsumeInv, Checked
<1>2. \A a, n : Reserved(a, n) => Reserved(a, n)'
  BY DEF RequestsKeep, Reserved, Past, SameRequest, SameCheck
<1>3. \A a : DeliveredTwice(a) => DeliveredTwice(a)'
  BY <1>1 DEF RequestsKeep, DeliveredTwice, SameRequest, SameCheck
<1>4. \A x : \A c \in Checks : chk[c].pc # "idle" /\ Taken(c, x) => Taken(c, x)'
  BY <1>1 DEF RequestsKeep, Taken, SameCheck
<1>5. ASSUME NEW c \in Checks, chk[c].pc # "idle", LostToAnother(c)
      PROVE  LostToAnother(c)'
  <2>1. SameCheck(c)
    BY <1>5 DEF RequestsKeep
  <2>2. CASE Taken(c, chk[c].challenge)
    BY <1>1, <2>1, <2>2 DEF RequestsKeep, Taken, LostToAnother, SameCheck
  <2>3. CASE /\ chk[c].token # None
             /\ sessions[chk[c].token] # None => sessions[chk[c].token].revoked
    <3>1. PICK t \in Activations : t = chk[c].token /\ Gone(t) /\ Returned(t)
      BY <1>1, <2>3 DEF Gone
    <3>2. Gone(t)' /\ chk'[c].token = t /\ t # None
      BY <2>1, <2>3, <3>1 DEF RequestsKeep, SameCheck
    <3> QED
      BY <3>2 DEF LostToAnother, Gone
  <2> QED
    BY <1>5, <2>2, <2>3 DEF LostToAnother, Taken
<1>6. ASSUME NEW c \in Checks, LostToAnother(c) PROVE chk[c].pc # "idle"
  <2>1. chk[c].pc = "idle" => chk[c].token = None
    BY DEF Compared
  <2>2. \A x \in Checks : chk[x].rotated => chk[x].token # None
    BY NoneIsNoValue DEF ConsumeInv, Checked
  <2> QED
    BY <1>6, <2>1, <2>2 DEF LostToAnother
<1> QED
  BY <1>2, <1>3, <1>4, <1>5, <1>6 DEF RequestsKeep, SameCheck

(* A request whose nonce was found in the table was delivered twice.        *)
LEMMA ReplayCaused ==
  ASSUME TypeOK, CauseInv
  PROVE  /\ \A r \in Activations :
              act[r].pc = "reserve" /\ <<act[r].app, act[r].nonce>> \in nonces
              => DeliveredTwice(act[r].app)
         /\ \A c \in Checks :
              chk[c].pc = "reserve" /\ <<chk[c].app, chk[c].nonce>> \in nonces
              => DeliveredTwice(chk[c].app)
<1>1. /\ \A r \in Activations :
           /\ act[r].nonce \in Activations \cup {None}
           /\ act[r].pc = "reserve" => act[r].nonce # None /\ act[r].app \in Apps
      /\ \A c \in Checks :
           /\ chk[c].nonce \in Checks \cup {None}
           /\ chk[c].pc = "reserve" => chk[c].nonce # None /\ chk[c].app \in Apps
  BY DEF TypeOK, ActivationTypeOK, CheckTypeOK, HasRead, CheckHasRead,
         ActivationRow, CheckRow
<1>2. \A a \in Apps, n \in Requests : <<a, n>> \in nonces => Reserved(a, n)
  BY DEF CauseInv
<1>3. ASSUME NEW r \in Activations, act[r].pc = "reserve",
             <<act[r].app, act[r].nonce>> \in nonces
      PROVE  DeliveredTwice(act[r].app)
  <2>1. act[r].nonce \in Activations /\ act[r].app \in Apps
    BY <1>1, <1>3
  <2>2. Reserved(act[r].app, act[r].nonce)
    BY <1>2, <1>3, <2>1 DEF Requests
  <2>3. \A c \in Checks : chk[c].nonce # act[r].nonce
    BY <1>1, <2>1, NoneIsNoValue, SchemaAssumption
  <2>4. PICK x \in Activations : /\ act[x].nonce = act[r].nonce
                                 /\ act[x].app = act[r].app /\ Past(act[x])
    BY <2>2, <2>3 DEF Reserved
  <2> QED
    BY <1>1, <1>3, <2>4 DEF Past, DeliveredTwice
<1>4. ASSUME NEW c \in Checks, chk[c].pc = "reserve",
             <<chk[c].app, chk[c].nonce>> \in nonces
      PROVE  DeliveredTwice(chk[c].app)
  <2>1. chk[c].nonce \in Checks /\ chk[c].app \in Apps
    BY <1>1, <1>4
  <2>2. Reserved(chk[c].app, chk[c].nonce)
    BY <1>2, <1>4, <2>1 DEF Requests
  <2>3. \A r \in Activations : act[r].nonce # chk[c].nonce
    BY <1>1, <2>1, NoneIsNoValue, SchemaAssumption
  <2>4. PICK x \in Checks : /\ chk[x].nonce = chk[c].nonce
                            /\ chk[x].app = chk[c].app /\ Past(chk[x])
    BY <2>2, <2>3 DEF Reserved
  <2> QED
    BY <1>1, <1>4, <2>4 DEF Past, DeliveredTwice
<1> QED
  BY <1>3, <1>4

(* A request that was about to report keeps its cause.                      *)
LEMMA ReportsStay ==
  ASSUME TypeOK, ConsumeInv, RequestsKeep, CauseInv
  PROVE  /\ \A r \in Activations : act'[r] = act[r] => Reports(r)'
         /\ \A c \in Checks : chk'[c] = chk[c] => CheckReports(c)'
<1>1. /\ \A a : DeliveredTwice(a) => DeliveredTwice(a)'
      /\ \A c \in Checks : LostToAnother(c) => LostToAnother(c)'
  BY CausesStay DEF CauseInv
<1>2. ASSUME NEW r \in Activations, act'[r] = act[r] PROVE Reports(r)'
  <2>1. PICK a : a = act[r].app
    OBVIOUS
  <2>2. act[r].pc = "replay_detected" => DeliveredTwice(a)'
    BY <1>1, <2>1 DEF CauseInv, Reports
  <2> QED
    BY <1>2, <2>1, <2>2 DEF Reports, DeliveredTwice
<1>3. ASSUME NEW c \in Checks, chk'[c] = chk[c] PROVE CheckReports(c)'
  <2>1. PICK a : a = chk[c].app
    OBVIOUS
  <2>2. chk[c].pc = "replay_detected" => DeliveredTwice(a)'
    BY <1>1, <2>1 DEF CauseInv, CheckReports
  <2>3. chk[c].pc = "challenge_replay" => LostToAnother(c)'
    BY <1>1 DEF CauseInv, CheckReports
  <2> QED
    BY <1>3, <2>1, <2>2, <2>3 DEF CheckReports, DeliveredTwice
<1> QED
  BY <1>2, <1>3

LEMMA ActivationCauses ==
  ASSUME TypeOK, OpenInv, ConsumeInv, CauseInv, ActivationNext, UNCHANGED chk
  PROVE  CauseInv'
<1>1. PICK r \in Activations : Step(r)
  BY ActivationSteps
<1>2. /\ act[r].pc # "idle" => SameRequest(r)
      /\ Past(act[r]) => Past(act'[r])
  BY <1>1 DEF Step, Sends, Ends, Looks, Decides, Binds, LosesRace, Inserts,
              Answers, Advances, Past
<1>3. ActivationEffect
  BY ActivationOpens
<1>4. RequestsKeep
  BY <1>1, <1>2, <1>3
     DEF Step, RequestsKeep, ActivationEffect, SameRequest, SameCheck, Gone
<1>5. /\ \A a, n : Reserved(a, n) => Reserved(a, n)'
      /\ \A a : DeliveredTwice(a) => DeliveredTwice(a)'
      /\ \A c \in Checks : LostToAnother(c) => LostToAnother(c)'
  BY <1>4, CausesStay DEF CauseInv
<1>6. ASSUME NEW a \in Apps, NEW n \in Requests, <<a, n>> \in nonces'
      PROVE  Reserved(a, n)'
  <2>1. CASE <<a, n>> \in nonces
    BY <1>5, <2>1 DEF CauseInv
  <2>2. CASE <<a, n>> \notin nonces
    <3>1. /\ act[r].pc = "reserve"
          /\ act'[r].pc \notin {"idle", "select_app", "reserve"}
          /\ a = act[r].app /\ n = act[r].nonce
      BY <1>1, <1>6, <2>2 DEF Step, Logs, logs
    <3>2. act'[r].app = a /\ act'[r].nonce = n /\ Past(act'[r])
      BY <1>2, <3>1 DEF SameRequest, Past
    <3> QED
      BY <3>2 DEF Reserved
  <2> QED
    BY <2>1, <2>2
<1>7. ASSUME NEW c \in Checks PROVE Compared(c)'
  <2>1. Compared(c) /\ Checked(c) /\ chk[c] \in CheckRow /\ CheckHasRead(chk[c])
    BY DEF CauseInv, ConsumeInv, TypeOK, CheckTypeOK
  <2>2. ASSUME chk[c].pc \in {"verify", "rotate"}
        PROVE  sessions'[chk[c].token] = sessions[chk[c].token]
    <3>1. chk[c].token \in Activations /\ Returned(chk[c].token)
      BY <2>1, <2>2 DEF CheckRow, CheckHasRead, Checked
    <3> QED
      BY <1>3, <3>1 DEF ActivationEffect
  <2> QED
    BY <2>1, <2>2 DEF Compared, Gone, Taken
<1>8. ASSUME NEW a \in Apps, <<"replay_detected", a>> \in events'
      PROVE  DeliveredTwice(a)'
  <2>1. CASE <<"replay_detected", a>> \in events
    BY <1>5, <2>1 DEF CauseInv, AlarmsHaveCause
  <2>2. CASE <<"replay_detected", a>> \notin events
    <3>1. act[r].pc = "replay_detected" /\ a = act[r].app
      BY <1>1, <1>8, <2>2 DEF Step, Logs, logs
    <3>2. DeliveredTwice(a)
      BY <3>1 DEF CauseInv, Reports
    <3> QED
      BY <1>5, <3>2
  <2> QED
    BY <2>1, <2>2
<1>9. ASSUME NEW a \in Apps, <<"challenge_replay", a>> \in events'
      PROVE  \E c \in Checks : chk'[c].app = a /\ LostToAnother(c)'
  <2>1. <<"challenge_replay", a>> \in events
    <3>1. act[r].pc # "challenge_replay"
      BY DEF TypeOK, ActivationTypeOK, ActivationRow, ActivationPC
    <3> QED
      BY <1>1, <1>9, <3>1 DEF Step, Logs, logs
  <2> QED
    BY <1>5, <2>1 DEF CauseInv, AlarmsHaveCause
<1>10. AlarmsHaveCause'
  BY <1>8, <1>9 DEF AlarmsHaveCause
<1>11. Reports(r)'
  <2> SUFFICES ASSUME act'[r].pc = "replay_detected"
               PROVE  DeliveredTwice(act[r].app)'
    BY DEF Reports
  <2>1. /\ act[r].pc = "reserve" /\ SameRequest(r)
        /\ <<act[r].app, act[r].nonce>> \in nonces
    BY <1>1 DEF Step, Sends, Ends, Looks, Decides, Binds, LosesRace, Inserts,
                Answers, Advances
  <2>2. PICK a : a = act[r].app
    OBVIOUS
  <2>3. DeliveredTwice(a)
    BY <2>1, <2>2, ReplayCaused
  <2>4. DeliveredTwice(a)' /\ act'[r].app = a
    BY <1>5, <2>1, <2>2, <2>3 DEF SameRequest
  <2> QED
    BY <2>4 DEF DeliveredTwice
<1>12. /\ \A x \in Activations \ {r} : Reports(x)'
       /\ \A c \in Checks : CheckReports(c)'
  BY <1>1, <1>4, ReportsStay DEF Step
<1> QED
  BY <1>6, <1>7, <1>10, <1>11, <1>12 DEF CauseInv

(* The reset workflow, the owner and the clock write no log, and delete     *)
(* from the logs with the application.                                      *)
LEMMA OwnerLogs ==
  ASSUME OwnerNext PROVE nonces' \subseteq nonces /\ events' \subseteq events
BY DEF OwnerNext, SetStatus, SetEnabled, UpdateIntegrity, DeleteLicense,
       DeleteApplication, RevokeSession, logs

LEMMA ElsewhereCauses ==
  ASSUME TypeOK, ConsumeInv, CauseInv, NoNewSession, UNCHANGED <<act, chk>>,
         nonces' \subseteq nonces, events' \subseteq events
  PROVE  CauseInv'
<1>1. RequestsKeep
  BY DEF RequestsKeep, SameRequest, SameCheck, NoNewSession, Gone
<1>2. /\ \A a, n : Reserved(a, n) => Reserved(a, n)'
      /\ \A a : DeliveredTwice(a) => DeliveredTwice(a)'
      /\ \A c \in Checks : LostToAnother(c) => LostToAnother(c)'
  BY <1>1, CausesStay DEF CauseInv
<1>3. ASSUME NEW c \in Checks PROVE Compared(c)'
  <2>1. Compared(c) /\ Checked(c) /\ chk[c] \in CheckRow /\ CheckHasRead(chk[c])
    BY DEF CauseInv, ConsumeInv, TypeOK, CheckTypeOK
  <2>2. ASSUME chk[c].pc \in {"verify", "rotate"}
        PROVE  \/ Gone(chk[c].token)'
               \/ sessions'[chk[c].token].challenge = chk[c].session.challenge
               \/ Taken(c, chk[c].session.challenge)'
    <3>1. chk[c].token \in Activations
      BY <2>1, <2>2 DEF CheckRow, CheckHasRead
    <3> QED
      BY <2>1, <2>2, <3>1 DEF Compared, NoNewSession, SameSession, Gone, Taken
  <2> QED
    BY <2>1, <2>2 DEF Compared, Gone, Taken
<1>4. AlarmsHaveCause'
  BY <1>2 DEF CauseInv, AlarmsHaveCause
<1>5. /\ \A r \in Activations : Reports(r)'
      /\ \A c \in Checks : CheckReports(c)'
  BY <1>1, ReportsStay
<1> QED
  BY <1>2, <1>3, <1>4, <1>5 DEF CauseInv

LEMMA CheckCauses ==
  ASSUME TypeOK, OpenInv, ConsumeInv, CauseInv, CheckNext PROVE CauseInv'
<1>1. PICK c \in Checks : CheckStepShape(c)
  BY CheckSteps
<1>2. /\ \A x \in Checks \ {c} : chk'[x] = chk[x]
      /\ UNCHANGED act /\ Checked(c) /\ Compared(c)
      /\ chk[c] \in CheckRow /\ CheckHasRead(chk[c])
  BY <1>1 DEF CheckStepShape, ConsumeInv, CauseInv, TypeOK, CheckTypeOK
<1>3. /\ chk[c].pc # "idle" => SameCheck(c)
      /\ chk'[c].pc # "idle"
      /\ Past(chk[c]) => Past(chk'[c])
      /\ chk[c].rotated => chk'[c].rotated
  BY <1>1, <1>2 DEF CheckStepShape, CheckSends, CheckEnds, CheckReads, CheckRotates,
              CheckAdvances, Past, Checked
<1>4. CheckEffect
  BY CheckConsumes
<1>5. RequestsKeep
  BY <1>2, <1>3, <1>4 DEF RequestsKeep, CheckEffect, SameRequest, SameCheck, Gone
<1>6. /\ \A a, n : Reserved(a, n) => Reserved(a, n)'
      /\ \A a : DeliveredTwice(a) => DeliveredTwice(a)'
      /\ \A y : \A x \in Checks : chk[x].pc # "idle" /\ Taken(x, y) => Taken(x, y)'
      /\ \A x \in Checks :
           LostToAnother(x) => LostToAnother(x)' /\ chk'[x].app = chk[x].app
  BY <1>5, CausesStay DEF CauseInv
<1>7. ASSUME NEW a \in Apps, NEW n \in Requests, <<a, n>> \in nonces'
      PROVE  Reserved(a, n)'
  <2>1. CASE <<a, n>> \in nonces
    BY <1>6, <2>1 DEF CauseInv
  <2>2. CASE <<a, n>> \notin nonces
    <3>1. /\ chk[c].pc = "reserve"
          /\ chk'[c].pc \notin {"idle", "select_app", "reserve"}
          /\ a = chk[c].app /\ n = chk[c].nonce
      BY <1>1, <1>7, <2>2 DEF CheckStepShape, CheckLogs, logs
    <3>2. chk'[c].app = a /\ chk'[c].nonce = n /\ Past(chk'[c])
      BY <1>3, <3>1 DEF SameCheck, Past
    <3> QED
      BY <3>2 DEF Reserved
  <2> QED
    BY <2>1, <2>2
<1>8. Compared(c)'
  <2>1. CASE CheckAdvances(c, "select_session", "verify") /\ CheckReads(c) /\ SameCheck(c)
    BY <2>1 DEF CheckReads, CheckAdvances, SameCheck, Compared
  <2>2. CASE CheckAdvances(c, "verify", "rotate") /\ CheckReads(c) /\ SameCheck(c)
    <3>1. /\ UNCHANGED sessions /\ chk'[c].token = chk[c].token
          /\ chk[c].challenge = chk[c].session.challenge
          /\ chk'[c].challenge = chk[c].challenge /\ chk'[c].session = chk[c].session
          /\ chk[c].pc = "verify" /\ chk'[c].pc = "rotate"
      BY <2>2 DEF CheckReads, CheckAdvances, SameCheck
    <3>2. PICK y : y = chk[c].session.challenge
      OBVIOUS
    <3>3. Taken(c, y) => Taken(c, y)'
      BY <1>6, <3>1
    <3> QED
      BY <1>2, <3>1, <3>2, <3>3 DEF Compared, Gone, Taken
  <2>3. CASE chk'[c].pc \notin {"verify", "rotate"}
    BY <1>3, <2>3 DEF Compared
  <2> QED
    BY <1>1, <2>1, <2>2, <2>3 DEF CheckStepShape, CheckSends, CheckEnds, CheckReads,
                                  CheckRotates, CheckAdvances
<1>9. ASSUME NEW x \in Checks \ {c} PROVE Compared(x)'
  <2>1. Compared(x) /\ Checked(x) /\ chk[x] \in CheckRow /\ CheckHasRead(chk[x])
        /\ chk'[x] = chk[x]
    BY <1>2 DEF CauseInv, ConsumeInv, TypeOK, CheckTypeOK
  <2>2. ASSUME chk[x].pc \in {"verify", "rotate"}
        PROVE  \/ Gone(chk[x].token)'
               \/ sessions'[chk[x].token].challenge = chk[x].session.challenge
               \/ Taken(x, chk[x].session.challenge)'
    <3>1. PICK t, y :
            /\ t \in Activations /\ t = chk[x].token /\ Returned(t)
            /\ y = chk[x].session.challenge
      BY <2>1, <2>2 DEF CheckRow, CheckHasRead, Checked
    <3>2. /\ Gone(t) => Gone(t)'
          /\ Taken(x, y) => Taken(x, y)'
      BY <1>5, <1>6, <2>2, <3>1 DEF RequestsKeep
    <3>3. Gone(t) \/ sessions[t].challenge = y \/ Taken(x, y)
      BY <2>1, <2>2, <3>1 DEF Compared
    <3>4. CASE sessions'[t] = sessions[t]
      BY <2>1, <3>1, <3>2, <3>3, <3>4 DEF Gone, Taken
    <3>5. CASE sessions'[t] # sessions[t] /\ sessions[t].challenge = y
      <4>1. /\ CheckRotates(c) /\ SameCheck(c) /\ chk[c].token \in Activations
        BY <1>1, <1>2, <3>5 DEF CheckStepShape, CheckSends, CheckEnds, CheckReads,
              CheckRotates, CheckRow, CheckHasRead, CheckAdvances
      <4>2. chk[c].token = t
        BY <3>5, <4>1 DEF CheckRotates, TypeOK, SchemaTypeOK
      <4>3. sessions[t].challenge = chk[c].challenge /\ chk'[c].rotated
        BY <4>1, <4>2 DEF CheckRotates, StillHolds
      <4>4. /\ chk'[c].rotated /\ chk'[c].token = chk[x].token
            /\ chk'[c].challenge = y /\ chk'[x].token = chk[x].token
        BY <2>1, <3>1, <3>5, <4>1, <4>2, <4>3 DEF SameCheck
      <4>5. Taken(x, y)'
        BY <4>4 DEF Taken
      <4> QED
        BY <2>1, <3>1, <4>5 DEF Taken
    <3> QED
      BY <2>1, <3>1, <3>2, <3>3, <3>4, <3>5 DEF Gone, Taken
  <2> QED
    BY <2>1, <2>2 DEF Compared, Gone, Taken
<1>10. ASSUME NEW a \in Apps, <<"replay_detected", a>> \in events'
       PROVE  DeliveredTwice(a)'
  <2>1. CASE <<"replay_detected", a>> \in events
    BY <1>6, <2>1 DEF CauseInv, AlarmsHaveCause
  <2>2. CASE <<"replay_detected", a>> \notin events
    <3>1. chk[c].pc = "replay_detected" /\ a = chk[c].app
      BY <1>1, <1>10, <2>2 DEF CheckStepShape, CheckLogs, logs
    <3>2. DeliveredTwice(a)
      BY <3>1 DEF CauseInv, CheckReports
    <3> QED
      BY <1>6, <3>2
  <2> QED
    BY <2>1, <2>2
<1>11. ASSUME NEW a \in Apps, <<"challenge_replay", a>> \in events'
       PROVE  \E x \in Checks : chk'[x].app = a /\ LostToAnother(x)'
  <2>1. CASE <<"challenge_replay", a>> \in events
    BY <1>6, <2>1 DEF CauseInv, AlarmsHaveCause
  <2>2. CASE <<"challenge_replay", a>> \notin events
    <3>1. chk[c].pc = "challenge_replay" /\ a = chk[c].app
      BY <1>1, <1>11, <2>2 DEF CheckStepShape, CheckLogs, logs
    <3>2. LostToAnother(c)
      BY <3>1 DEF CauseInv, CheckReports
    <3>3. LostToAnother(c)' /\ chk'[c].app = a
      BY <1>6, <3>1, <3>2
    <3> QED
      BY <3>3
  <2> QED
    BY <2>1, <2>2
<1>12. AlarmsHaveCause'
  BY <1>10, <1>11 DEF AlarmsHaveCause
<1>13. chk'[c].pc = "replay_detected" => DeliveredTwice(chk[c].app)'
  <2> SUFFICES ASSUME chk'[c].pc = "replay_detected"
               PROVE  DeliveredTwice(chk[c].app)'
    OBVIOUS
  <2>1. /\ chk[c].pc = "reserve" /\ SameCheck(c)
        /\ <<chk[c].app, chk[c].nonce>> \in nonces
    BY <1>1 DEF CheckStepShape, CheckSends, CheckEnds, CheckReads, CheckRotates,
                CheckAdvances
  <2>2. PICK a : a = chk[c].app
    OBVIOUS
  <2>3. DeliveredTwice(a)
    BY <2>1, <2>2, ReplayCaused
  <2>4. DeliveredTwice(a)' /\ chk'[c].app = a
    BY <1>6, <2>1, <2>2, <2>3 DEF SameCheck
  <2> QED
    BY <2>4 DEF DeliveredTwice
<1>14. chk'[c].pc = "challenge_replay" => LostToAnother(c)'
  <2> SUFFICES ASSUME chk'[c].pc = "challenge_replay" PROVE LostToAnother(c)'
    OBVIOUS
  <2>1. chk[c].pc = "rotate" /\ ~StillHolds(chk[c].token, chk[c].challenge)
    BY <1>1 DEF CheckStepShape, CheckSends, CheckEnds, CheckReads, CheckRotates,
                CheckAdvances
  <2>2. /\ chk[c].token # None /\ chk[c].challenge = chk[c].session.challenge
        /\ \/ Gone(chk[c].token)
           \/ sessions[chk[c].token].challenge = chk[c].challenge
           \/ Taken(c, chk[c].challenge)
    BY <1>2, <2>1 DEF CheckHasRead, Compared
  <2>3. LostToAnother(c)
    BY <2>1, <2>2 DEF LostToAnother, Gone, Taken, StillHolds
  <2> QED
    BY <1>6, <2>3
<1>15. CheckReports(c)'
  BY <1>13, <1>14 DEF CheckReports
<1>16. /\ \A x \in Checks \ {c} : CheckReports(x)'
       /\ \A r \in Activations : Reports(r)'
  BY <1>2, <1>5, ReportsStay
<1> QED
  BY <1>7, <1>8, <1>9, <1>12, <1>15, <1>16 DEF CauseInv

(* Every alarm has a cause, however the requests, the owner's updates and   *)
(* the deletions interleave (checkSession, reserveNonce).                   *)
THEOREM AlarmsCaused == Spec => []AlarmsHaveCause
<1>1. Init => CauseInv
  BY SchemaAssumption
     DEF Init, SchemaInit, ActivationInit, Unsent, CheckInit, Unchecked, CauseInv,
         Compared, Reports, CheckReports, AlarmsHaveCause
<1>2. SessionInv /\ CauseInv /\ [Next]_vars => CauseInv'
  <2> SUFFICES ASSUME SessionInv, CauseInv, [Next]_vars PROVE CauseInv'
    OBVIOUS
  <2>1. TypeOK /\ OpenInv /\ ConsumeInv
    BY DEF SessionInv
  <2>2. CASE ActivationNext /\ UNCHANGED chk
    BY <2>1, <2>2, ActivationCauses
  <2>3. CASE CheckNext
    BY <2>1, <2>3, CheckCauses
  <2>4. CASE ResetNext /\ UNCHANGED <<act, chk>>
    <3>1. UNCHANGED <<sessions, logs>>
      BY <2>4 DEF ResetNext, CreateHwidResetLink, SubmitHwidResetRequest,
                  ApproveHwidResetRequest, RejectHwidResetRequest
    <3> QED
      BY <2>1, <2>4, <3>1, ElsewhereCauses DEF logs, NoNewSession, SameSession
  <2>5. CASE OwnerNext /\ UNCHANGED <<act, chk>>
    BY <2>1, <2>5, OwnerSessions, OwnerLogs, ElsewhereCauses
  <2>6. CASE Tick /\ UNCHANGED <<act, chk>>
    BY <2>1, <2>6, ElsewhereCauses DEF Tick, tables, NoNewSession, SameSession
  <2>7. CASE UNCHANGED vars
    BY <2>1, <2>7, ElsewhereCauses DEF vars, db, NoNewSession, SameSession
  <2> QED
    BY <2>2, <2>3, <2>4, <2>5, <2>6, <2>7 DEF Next
<1>3. CauseInv => AlarmsHaveCause
  BY DEF CauseInv
<1> QED
  BY <1>1, <1>2, <1>3, SessionsSound, PTL DEF Spec
=============================================================================
