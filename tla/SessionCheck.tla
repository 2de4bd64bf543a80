----------------------------- MODULE SessionCheck -----------------------------
(***************************************************************************)
(* checkSession of worker.js: one request that redeems the challenge of a   *)
(* session for the next one, and says whether the session's license still   *)
(* entitles its device.  The challenge is rotated before the license is     *)
(* looked at.  Steps and pc as in Activation.                               *)
(***************************************************************************)
EXTENDS Activation

VARIABLE chk   \* chk[c]: the session-check requests

CheckPC == {"idle", "select_app", "reserve", "select_session", "verify", "rotate",
            "select_license", "judge", "done"} \cup EventTypes

CheckRow ==
  [pc : CheckPC,
   app : Apps \cup {None}, token : Activations \cup {None},
   challenge : Requests \cup {None}, hwid : Devices \cup {None},
   build : Builds \cup {None}, nonce : Checks \cup {None},
   application : AppRow \cup {None},   \* the application row it read
   session : SessionRow \cup {None},   \* the session row it read
   license : LicenseRow \cup {None},   \* the license row it read
   rotated : BOOLEAN,                  \* whether its update consumed the challenge
   outcome : {None, "valid", "rejected", "threw"}]

CheckHasRead(q) ==
  /\ q.pc = "idle" => q.nonce = None
  /\ q.pc # "idle" => None \notin {q.app, q.token, q.challenge, q.hwid, q.nonce}
  /\ q.pc = "reserve" => q.application # None
  /\ q.pc \in {"verify", "rotate", "select_license", "judge"} => q.session # None
  /\ q.pc = "judge" => q.license # None

CheckTypeOK ==
  /\ chk \in [Checks -> CheckRow]
  /\ \A c \in Checks : CheckHasRead(chk[c])

Unchecked ==
  [pc |-> "idle", app |-> None, token |-> None, challenge |-> None, hwid |-> None,
   build |-> None, nonce |-> None, application |-> None, session |-> None,
   license |-> None, rotated |-> FALSE, outcome |-> None]

CheckInit == chk = [c \in Checks |-> Unchecked]

-----------------------------------------------------------------------------
EndCheck(c, outcome) ==
  chk' = [chk EXCEPT ![c] = [@ EXCEPT !.pc = "done", !.outcome = outcome,
                                      !.application = None, !.session = None,
                                      !.license = None]]

(* The check goes on to record a security event before it ends.             *)
ReportCheck(c, type) ==
  chk' = [chk EXCEPT ![c].pc = type, ![c].application = None, ![c].session = None]

(* Challenges that replies have carried to clients.                         *)
KnownChallenges ==
  {r \in Activations : Returned(r)} \cup {c \in Checks : chk[c].outcome = "valid"}

(* An SDK sends a check, or the network delivers one again.  A client       *)
(* whose calls overlap may pair a token with another session's challenge.   *)
CheckSession(c, a, s, x, d, b) ==
  /\ chk[c].pc = "idle"
  /\ Returned(s) /\ x \in KnownChallenges
  /\ chk' = [chk EXCEPT ![c] = [Unchecked EXCEPT !.pc = "select_app", !.app = a,
       !.token = s, !.challenge = x, !.hwid = d, !.build = b, !.nonce = c]]
  /\ UNCHANGED <<db, act>>

CheckSessionAgain(c, first) ==
  /\ chk[c].pc = "idle"
  /\ chk[first].nonce = first
  /\ chk' = [chk EXCEPT ![c] = [Unchecked EXCEPT !.pc = "select_app",
       !.app = chk[first].app, !.token = chk[first].token,
       !.challenge = chk[first].challenge, !.hwid = chk[first].hwid,
       !.build = chk[first].build, !.nonce = first]]
  /\ UNCHANGED <<db, act>>

CheckSelectApplication(c) ==
  LET a == chk[c].app
  IN /\ chk[c].pc = "select_app"
     /\ IF AppExists(a) /\ apps[a].enabled
        THEN chk' = [chk EXCEPT ![c].pc = "reserve", ![c].application = apps[a]]
        ELSE EndCheck(c, "rejected")
     /\ UNCHANGED <<db, act>>

CheckReserve(c) ==
  LET q == chk[c]
  IN /\ q.pc = "reserve"
     /\ ReserveNonce(q.app, q.nonce)
     /\ \/ ~IsFresh(q.app, q.nonce) /\ ReportCheck(c, "replay_detected")
        \/ /\ IsFresh(q.app, q.nonce)
           /\ ~BuildAllowed(q.application, q.build)
           /\ ReportCheck(c, "integrity_mismatch")
        \/ /\ IsFresh(q.app, q.nonce)
           /\ BuildAllowed(q.application, q.build)
           /\ chk' = [chk EXCEPT ![c].pc = "select_session", ![c].application = None]
     /\ UNCHANGED <<apps, licenses, sessions, resets, events, now, act>>

CheckRecordEvent(c) ==
  /\ chk[c].pc \in EventTypes
  /\ Record(chk[c].pc, chk[c].app)
  /\ \E outcome \in {"rejected", "threw"} : EndCheck(c, outcome)
  /\ UNCHANGED <<apps, licenses, sessions, resets, nonces, now, act>>

(* The row is looked up by the token among the application's sessions.      *)
FindsSessionAnywhere(a, s) == sessions[s] # None   \* mutant: no such filter
FindsSession(a, s) == sessions[s] # None /\ sessions[s].app = a

SelectSession(c) ==
  LET s == chk[c].token
  IN /\ chk[c].pc = "select_session"
     /\ IF FindsSession(chk[c].app, s)
        THEN chk' = [chk EXCEPT ![c].pc = "verify", ![c].session = sessions[s]]
        ELSE EndCheck(c, "rejected")
     /\ UNCHANGED <<db, act>>

(* The checks on the session row, as read, in their order.                  *)
SessionUsable(row, d) == ~row.revoked /\ ~IsExpired(row.expires) /\ row.hwid = d

Verify(c) ==
  LET q == chk[c]
      usable == SessionUsable(q.session, q.hwid)
  IN /\ q.pc = "verify"
     /\ \/ ~usable /\ EndCheck(c, "rejected")
        \/ /\ usable /\ q.challenge # q.session.challenge
           /\ ReportCheck(c, "challenge_mismatch")
        \/ /\ usable /\ q.challenge = q.session.challenge
           /\ chk' = [chk EXCEPT ![c].pc = "rotate"]
     /\ UNCHANGED <<db, act>>

-----------------------------------------------------------------------------
(* The conditional update: the row still holds the challenge presented, and *)
(* is not revoked.                                                          *)
UnrevokedOnly(s, x) ==   \* mutant: without challenge_hash=eq
  sessions[s] # None /\ ~sessions[s].revoked
HoldsChallengeOnly(s, x) ==   \* mutant: without revoked_at=is.null
  sessions[s] # None /\ sessions[s].challenge = x
StillHolds(s, x) ==
  sessions[s] # None /\ sessions[s].challenge = x /\ ~sessions[s].revoked

Rotate(c) ==
  LET q == chk[c]
  IN /\ q.pc = "rotate"
     /\ \/ /\ StillHolds(q.token, q.challenge)
           /\ sessions' = [sessions EXCEPT ![q.token].challenge = c]
           /\ chk' = [chk EXCEPT ![c].pc = "select_license", ![c].rotated = TRUE]
        \/ /\ ~StillHolds(q.token, q.challenge)
           /\ ReportCheck(c, "challenge_replay")
           /\ UNCHANGED sessions
     /\ UNCHANGED <<apps, licenses, resets, logs, now, act>>

CheckSelectLicense(c) ==
  LET l == chk[c].session.license
  IN /\ chk[c].pc = "select_license"
     /\ IF FindsLicense(chk[c].app, l)
        THEN chk' = [chk EXCEPT ![c].pc = "judge", ![c].license = licenses[l]]
        ELSE EndCheck(c, "rejected")
     /\ UNCHANGED <<db, act>>

(* A license that was reset since and is not bound again passes.            *)
Entitles(row, d) ==
  row.status = "active" /\ ~IsExpired(row.expires) /\ row.hwid \in {None, d}

Judge(c) ==
  /\ chk[c].pc = "judge"
  /\ EndCheck(c, IF Entitles(chk[c].license, chk[c].hwid) THEN "valid" ELSE "rejected")
  /\ UNCHANGED <<db, act>>

CheckThrow(c) ==
  /\ chk[c].pc \notin {"idle", "done"}
  /\ EndCheck(c, "threw")
  /\ UNCHANGED <<db, act>>

CheckStep(c) ==
  \/ CheckSelectApplication(c) \/ CheckReserve(c) \/ CheckRecordEvent(c)
  \/ SelectSession(c) \/ Verify(c)
  \/ Rotate(c) \/ CheckSelectLicense(c) \/ Judge(c) \/ CheckThrow(c)

CheckNext ==
  \E c \in Checks :
    \/ \E a \in Apps, s \in Activations, x \in Requests, d \in Devices,
          b \in Builds \cup {None} : CheckSession(c, a, s, x, d, b)
    \/ \E first \in Checks : CheckSessionAgain(c, first)
    \/ CheckStep(c)
=============================================================================
