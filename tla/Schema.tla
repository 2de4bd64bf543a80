-------------------------------- MODULE Schema --------------------------------
(***************************************************************************)
(* The database of EliteAuth: the tables of supabase/migrations that the    *)
(* Worker and the reset workflow share, what the application's owner does   *)
(* to them from the dashboard, and the database clock.                      *)
(*                                                                         *)
(* A row that was deleted, or not yet inserted, is None.  Every statement   *)
(* of the Worker is one transaction, so each reads or writes these          *)
(* variables in one step; what happens between two statements of a request  *)
(* is any number of steps of others.                                        *)
(***************************************************************************)
EXTENDS Integers, FiniteSets

CONSTANTS
  Apps, Licenses, Devices, Builds, Versions,
  Links,        \* reset links; each yields at most one reset request
  Activations,  \* POST /v1/license/activate requests
  Checks,       \* POST /v1/session/check requests
  AppOf,        \* AppOf[l]: the application license l was created for
  AppVersion,   \* the version an application was created with, None if empty
  Duration,     \* duration_seconds of a license; 0 for a lifetime license
  SessionTTL,   \* SESSION_DURATION_MS
  LinkTTL,      \* the seven days a reset link is open
  MaxTime,      \* bound of the clock in the runs
  None

Requests == Activations \cup Checks

(* Rows.  build is the approved hash, None when it is not enforced.  A      *)
(* token is named by the activation that drew it, a challenge by the        *)
(* request that drew it, a nonce by the request that first carried it:      *)
(* all three are random and never drawn twice.                              *)
AppRow     == [enabled : BOOLEAN, build : Builds \cup {None}]
LicenseRow == [status : {"active", "disabled"}, hwid : Devices \cup {None},
               expires : Nat \cup {None}]
SessionRow == [app : Apps, license : Licenses, hwid : Devices, expires : Nat,
               challenge : Requests, revoked : BOOLEAN]
LinkRow    == [license : Licenses, expires : Nat, used : BOOLEAN]

ASSUME SchemaAssumption ==
  /\ AppOf \in [Licenses -> Apps]
  /\ AppVersion \in [Apps -> Versions \cup {None}]
  /\ Duration \in [Licenses -> Nat]
  /\ SessionTTL \in Nat /\ LinkTTL \in Nat /\ MaxTime \in Nat
  /\ Activations \cap Checks = {}
  /\ None \notin Apps \cup Licenses \cup Devices \cup Builds \cup Versions
                 \cup Links \cup Requests \cup Nat
  /\ None \notin AppRow \cup LicenseRow \cup SessionRow \cup LinkRow
  /\ None \notin {"ok", "valid", "rejected", "threw"}

VARIABLES
  apps,           \* applications
  licenses,       \* licenses
  sessions,       \* license_sessions, each under the activation that made it
  resetLinks,     \* hwid_reset_links
  resetRequests,  \* status of the hwid_reset_requests row of each link
  nonces,         \* api_nonces: pairs of application and nonce
  events,         \* security_events: pairs of event_type and application
  now             \* the clock

resets == <<resetLinks, resetRequests>>
logs   == <<nonces, events>>
tables == <<apps, licenses, sessions, resetLinks, resetRequests, nonces, events>>
db     == <<apps, licenses, sessions, resetLinks, resetRequests, nonces, events, now>>

-----------------------------------------------------------------------------
Status == {"none", "pending", "approved", "rejected"}
EventTypes == {"replay_detected", "integrity_mismatch",
               "challenge_mismatch", "challenge_replay"}

SchemaTypeOK ==
  /\ apps \in [Apps -> AppRow \cup {None}]
  /\ licenses \in [Licenses -> LicenseRow \cup {None}]
  /\ sessions \in [Activations -> SessionRow \cup {None}]
  /\ resetLinks \in [Links -> LinkRow \cup {None}]
  /\ resetRequests \in [Links -> Status]
  /\ nonces \subseteq Apps \X Requests
  /\ events \subseteq EventTypes \X Apps
  /\ now \in Nat

NewLicense == [status |-> "active", hwid |-> None, expires |-> None]

SchemaInit ==
  /\ apps \in [Apps -> [enabled : {TRUE}, build : Builds \cup {None}]]
  /\ licenses = [l \in Licenses |-> NewLicense]
  /\ sessions = [s \in Activations |-> None]
  /\ resetLinks = [k \in Links |-> None]
  /\ resetRequests = [k \in Links |-> "none"]
  /\ nonces = {} /\ events = {}
  /\ now = 0

-----------------------------------------------------------------------------
AppExists(a) == apps[a] # None
LicenseExists(l) == licenses[l] # None

(* isExpired, read at the clock: no expiry never expires.                   *)
IsExpired(t) == t # None /\ t <= now

(* The rows that make up l's reset history.                                 *)
LinksOf(l) == {k \in Links : resetLinks[k] # None /\ resetLinks[k].license = l}
Approved(l) == {k \in LinksOf(l) : resetRequests[k] = "approved"}

(* recordSecurityEvent: the insert may fail, and no failure is reported.    *)
Record(type, a) ==
  \/ AppExists(a) /\ events' = events \cup {<<type, a>>}
  \/ UNCHANGED events

-----------------------------------------------------------------------------
(* What the owner may do to the rows of an application: the row-level       *)
(* policies allow it at any time, in the middle of any request.             *)
SetStatus(l, status) ==
  /\ LicenseExists(l) /\ licenses[l].status # status
  /\ licenses' = [licenses EXCEPT ![l].status = status]
  /\ UNCHANGED <<apps, sessions, resets, logs, now>>

SetEnabled(a, enabled) ==
  /\ AppExists(a) /\ apps[a].enabled # enabled
  /\ apps' = [apps EXCEPT ![a].enabled = enabled]
  /\ UNCHANGED <<licenses, sessions, resets, logs, now>>

UpdateIntegrity(a, build) ==
  /\ AppExists(a) /\ apps[a].build # build
  /\ apps' = [apps EXCEPT ![a].build = build]
  /\ UNCHANGED <<licenses, sessions, resets, logs, now>>

(* The deletion of licenses takes their reset links with it, and those      *)
(* their requests.                                                          *)
Cascade(gone) ==
  LET links == UNION {LinksOf(l) : l \in gone}
  IN /\ licenses' = [l \in Licenses |-> IF l \in gone THEN None ELSE licenses[l]]
     /\ resetLinks' = [k \in Links |-> IF k \in links THEN None ELSE resetLinks[k]]
     /\ resetRequests' = [k \in Links |->
                            IF k \in links THEN "none" ELSE resetRequests[k]]

DeleteLicense(l) ==
  /\ LicenseExists(l)
  /\ Cascade({l})
  /\ sessions' = [s \in Activations |->
       IF sessions[s] # None /\ sessions[s].license = l THEN None ELSE sessions[s]]
  /\ UNCHANGED <<apps, logs, now>>

(* Every table refers to its application on delete cascade.                 *)
DeleteApplication(a) ==
  LET gone == {l \in Licenses : AppOf[l] = a}
  IN /\ AppExists(a)
     /\ apps' = [apps EXCEPT ![a] = None]
     /\ Cascade(gone)
     /\ sessions' = [s \in Activations |->
          IF sessions[s] # None /\ (sessions[s].app = a \/ sessions[s].license \in gone)
          THEN None ELSE sessions[s]]
     /\ nonces' = {x \in nonces : x[1] # a}
     /\ events' = {x \in events : x[2] # a}
     /\ UNCHANGED now

(* revoked_at is read by the Worker and written by an operator only.        *)
RevokeSession(s) ==
  /\ sessions[s] # None /\ ~sessions[s].revoked
  /\ sessions' = [sessions EXCEPT ![s].revoked = TRUE]
  /\ UNCHANGED <<apps, licenses, resets, logs, now>>

Tick ==
  /\ now < MaxTime
  /\ now' = now + 1
  /\ UNCHANGED tables

OwnerNext ==
  \/ \E l \in Licenses, status \in {"active", "disabled"} : SetStatus(l, status)
  \/ \E a \in Apps, enabled \in BOOLEAN : SetEnabled(a, enabled)
  \/ \E a \in Apps, build \in Builds \cup {None} : UpdateIntegrity(a, build)
  \/ \E l \in Licenses : DeleteLicense(l)
  \/ \E a \in Apps : DeleteApplication(a)
  \/ \E s \in Activations : RevokeSession(s)
=============================================================================
