------------------------------ MODULE HwidReset ------------------------------
(***************************************************************************)
(* The HWID reset workflow: the owner makes a one-time link for a license,  *)
(* its user submits a request through it, and the owner approves or rejects *)
(* the request.  Approval unbinds the license, whatever device it is bound  *)
(* to by then.  The procedures lock the row they decide on, so each is one  *)
(* step; a call they refuse raises and changes nothing.                     *)
(***************************************************************************)
EXTENDS Schema

CreateHwidResetLink(k, l) ==
  /\ resetLinks[k] = None
  /\ LicenseExists(l)
  /\ resetLinks' = [resetLinks EXCEPT ![k] =
       [license |-> l, expires |-> now + LinkTTL, used |-> FALSE]]
  /\ UNCHANGED <<apps, licenses, sessions, resetRequests, logs, now>>

SubmitHwidResetRequest(k) ==
  /\ resetLinks[k] # None
  /\ ~resetLinks[k].used
  /\ ~IsExpired(resetLinks[k].expires)
  /\ resetRequests' = [resetRequests EXCEPT ![k] = "pending"]
  /\ resetLinks' = [resetLinks EXCEPT ![k].used = TRUE]
  /\ UNCHANGED <<apps, licenses, sessions, logs, now>>

Unbind(l) == licenses' = [licenses EXCEPT ![l].hwid = None]

ApproveAnyRequest(k) ==   \* mutant: without the check of its status
  /\ resetRequests[k] \in {"pending", "approved"}
  /\ Unbind(resetLinks[k].license)
  /\ resetRequests' = [resetRequests EXCEPT ![k] = "approved"]
  /\ UNCHANGED <<apps, sessions, resetLinks, logs, now>>

ApproveHwidResetRequest(k) ==
  /\ resetRequests[k] = "pending"
  /\ Unbind(resetLinks[k].license)
  /\ resetRequests' = [resetRequests EXCEPT ![k] = "approved"]
  /\ UNCHANGED <<apps, sessions, resetLinks, logs, now>>

RejectHwidResetRequest(k) ==
  /\ resetRequests[k] = "pending"
  /\ resetRequests' = [resetRequests EXCEPT ![k] = "rejected"]
  /\ UNCHANGED <<apps, licenses, sessions, resetLinks, logs, now>>

ResetNext ==
  \E k \in Links :
    \/ \E l \in Licenses : CreateHwidResetLink(k, l)
    \/ SubmitHwidResetRequest(k)
    \/ ApproveHwidResetRequest(k)
    \/ RejectHwidResetRequest(k)
=============================================================================
