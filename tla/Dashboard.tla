------------------------------ MODULE Dashboard ------------------------------
(***************************************************************************)
(* The owner's dashboard (website/app.js) as it decides HWID reset          *)
(* requests: what a refresh reads and renders, the buttons of the list it   *)
(* renders, and the calls a click makes.  What the procedures they call do  *)
(* to the licenses is the subject of HwidReset.                             *)
(*                                                                         *)
(* Two things make this hard.  A button of the list has two handlers, one   *)
(* from addEventListener and one from onclick, so a click makes its call    *)
(* twice.  And a refresh awaits one query after the other and renders at    *)
(* the end: refreshes that overlap may render in any order.                 *)
(***************************************************************************)
EXTENDS Integers, FiniteSets, Sequences, SequencesExt

CONSTANTS
  NRequests,      \* how many HWID reset requests are made
  Limit,          \* how many requests loadHwidRequests lists
  MaxCalls,       \* bound: calls of one decision that are under way
  MaxBusy,        \* bound: decisions with calls under way at a click
  MaxRefreshes    \* bound: refreshes that are under way

ASSUME DashboardAssumption ==
  /\ {NRequests, MaxCalls, MaxBusy} \subseteq Nat
  /\ Limit \in Nat \ {0} /\ MaxRefreshes \in Nat \ {0}

VARIABLES
  status,      \* status[r]: the row of request r
  calls,       \* calls[r][d]: calls of decision d on r that are under way
  accepted,    \* the decisions made whose replies are under way
  decided,     \* the decisions made here whose replies came
  refreshes,   \* the refreshes under way, in the order they began
  shown,       \* shown[r]: the status of r in the list
  behind       \* whether the list may show less than the newest refresh read

page == <<decided, refreshes, shown, behind>>
vars == <<status, calls, accepted, page>>

Requests == 1 .. NRequests   \* in the order of requested_at
Statuses == {"none", "pending", "approved", "rejected"}
Decisions == {"approved", "rejected"}
Refresh == [pc : {"load", "render"}, list : [Requests -> Statuses], overtaken : BOOLEAN]

(* Type invariant.  Only a request that was submitted is ever listed.       *)
TypeOK ==
  /\ status \in [Requests -> Statuses]
  /\ calls \in [Requests -> [Decisions -> 0 .. MaxCalls]]
  /\ accepted \subseteq Requests /\ decided \subseteq Requests
  /\ refreshes \in Seq(Refresh) /\ Len(refreshes) <= MaxRefreshes
  /\ shown \in [Requests -> Statuses] /\ behind \in BOOLEAN
  /\ \A r \in Requests : status[r] = "none" => shown[r] = "none"

Init ==
  /\ status = [r \in Requests |-> "none"]
  /\ calls = [r \in Requests |-> [d \in Decisions |-> 0]]
  /\ accepted = {} /\ decided = {}
  /\ refreshes = <<>> /\ shown = [r \in Requests |-> "none"] /\ behind = FALSE

-----------------------------------------------------------------------------
(* The customer makes a request through a link of its own.  Submitted again *)
(* (the reply was lost), the procedure refuses it.                          *)
SubmitPublicHwidRequest(r) ==
  /\ status[r] = "none" /\ \A q \in 1 .. (r - 1) : status[q] # "none"
  /\ status' = [status EXCEPT ![r] = "pending"]
  /\ UNCHANGED <<calls, accepted, page>>

(* The procedures decide a request that is pending, and raise for another.  *)
Decide(r, d) ==
  /\ status[r] = "pending"
  /\ status' = [status EXCEPT ![r] = d]

(* The owner decides in another tab.                                        *)
DecideElsewhere(r, d) ==
  /\ Decide(r, d)
  /\ UNCHANGED <<calls, accepted, page>>

-----------------------------------------------------------------------------
Busy == {x \in Requests \X Decisions : calls[x[1]][x[2]] > 0}

(* The buttons are there for a request shown as pending.                    *)
OfferedWhenResolved(r) == shown[r] \in Decisions   \* mutant: !== "pending"
Offered(r) == shown[r] = "pending"

(* Both handlers call approveHwidRequest, or rejectHwidRequest.             *)
HandlersAfterTwoRenders == 4   \* mutant: each refresh binds all buttons anew
Handlers == 2

Click(r, d) ==
  /\ Offered(r)
  /\ Cardinality(Busy) <= MaxBusy
  /\ \A q \in Requests, e \in Decisions : calls[q][e] + 2 <= MaxCalls
  /\ calls' = [calls EXCEPT ![r][d] = @ + Handlers]
  /\ UNCHANGED <<status, accepted, page>>

CallEnds(r, d) == calls[r][d] > 0 /\ calls' = [calls EXCEPT ![r][d] = @ - 1]

(* The call reaches the procedure, which decides; the reply is on its way.  *)
CallDecides(r, d) ==
  /\ CallEnds(r, d)
  /\ Decide(r, d)
  /\ accepted' = accepted \cup {r}
  /\ UNCHANGED page

(* The call is lost, the procedure raises, or it decides and its reply is   *)
(* lost: an alert, and no refresh.                                          *)
CallFails(r, d) ==
  /\ CallEnds(r, d)
  /\ UNCHANGED status \/ Decide(r, d)
  /\ UNCHANGED <<accepted, page>>

StartRefresh ==
  /\ Len(refreshes) < MaxRefreshes
  /\ refreshes' = Append(refreshes,
       [pc |-> "load", list |-> [r \in Requests |-> "none"], overtaken |-> FALSE])
  /\ behind' = FALSE

NoRefresh == UNCHANGED <<refreshes, behind>>   \* mutant: the list is not refreshed
RefreshAfterDecision == StartRefresh

(* The reply comes: the list is refreshed.                                  *)
ReplyArrives(r) ==
  /\ r \in accepted
  /\ accepted' = accepted \ {r} /\ decided' = decided \cup {r}
  /\ RefreshAfterDecision
  /\ UNCHANGED <<status, calls, shown>>

(* Another operation of the page ends, or the page is opened.               *)
OtherRefresh == StartRefresh /\ UNCHANGED <<status, calls, accepted, decided, shown>>

-----------------------------------------------------------------------------
(* loadHwidRequests: the newest requests, whatever their status.            *)
Listed(r) ==
  status[r] # "none" /\ Cardinality({q \in Requests : q > r /\ status[q] # "none"}) < Limit
Loaded == [r \in Requests |-> IF Listed(r) THEN status[r] ELSE "none"]

LoadHwidRequests(i) ==
  /\ refreshes[i].pc = "load"
  /\ refreshes' = [refreshes EXCEPT ![i].pc = "render", ![i].list = Loaded]
  /\ UNCHANGED <<status, calls, accepted, decided, shown, behind>>

(* The refresh i is over: those that began before it show less than it did. *)
Over(i) ==
  refreshes' = RemoveAt([j \in DOMAIN refreshes |->
    IF j < i THEN [refreshes[j] EXCEPT !.overtaken = TRUE] ELSE refreshes[j]], i)

(* Mutant: rows that are there stay, and the others are added.              *)
Appended(i) ==
  [r \in Requests |-> IF shown[r] # "none" THEN shown[r] ELSE refreshes[i].list[r]]

(* The list is written anew from what the refresh has read.                 *)
Rendered(i) == refreshes[i].list

Render(i) ==
  /\ refreshes[i].pc = "render"
  /\ shown' = Rendered(i)
  /\ behind' = refreshes[i].overtaken
  /\ Over(i)
  /\ UNCHANGED <<status, calls, accepted, decided>>

(* A query fails: the page reports it, and keeps the list it has.           *)
RefreshFails(i) ==
  /\ Over(i)
  /\ behind' = (behind \/ (i = Len(refreshes) /\ ~refreshes[i].overtaken))
  /\ UNCHANGED <<status, calls, accepted, decided, shown>>

Next ==
  \/ \E r \in Requests :
       \/ SubmitPublicHwidRequest(r) \/ ReplyArrives(r)
       \/ \E d \in Decisions :
            DecideElsewhere(r, d) \/ Click(r, d) \/ CallDecides(r, d) \/ CallFails(r, d)
  \/ \E i \in DOMAIN refreshes : LoadHwidRequests(i) \/ Render(i) \/ RefreshFails(i)
  \/ OtherRefresh

(* Fairness.  The owner opens the page now and then, and decides what the   *)
(* list keeps offering (not part of the repository); queries and calls fail *)
(* at times, not always.                                                    *)
Fairness ==
  /\ WF_vars(OtherRefresh)
  /\ SF_vars(\E i \in DOMAIN refreshes : LoadHwidRequests(i))
  /\ SF_vars(\E i \in DOMAIN refreshes : Render(i))
  /\ SF_vars(\E r \in Requests, d \in Decisions : Click(r, d))
  /\ SF_vars(\E r \in Requests, d \in Decisions : CallDecides(r, d))
  /\ WF_vars(\E r \in Requests, d \in Decisions : CallFails(r, d))
  /\ WF_vars(\E r \in Requests : ReplyArrives(r))

Spec == Init /\ [][Next]_vars /\ Fairness

-----------------------------------------------------------------------------
(* When all is at rest, every decision this page heard of is what its list  *)
(* shows, unless an older refresh rendered last or the newest one failed.   *)
StaleOnlyIfBehind ==
  (accepted = {} /\ refreshes = <<>> /\ ~behind) =>
    \A r \in decided : shown[r] \in {status[r], "none"}

(* Every request that the list goes on offering is decided: what is lost,   *)
(* refused or shown late only delays it.  A pending request behind Limit    *)
(* newer ones is not listed, and no page can decide it (loadHwidRequests).  *)
PendingIsDecided ==
  \A r \in Requests :
    (status[r] = "pending") ~> (status[r] # "pending" \/ ~Listed(r))

(* A decision, made here or in another tab, whether its reply came or was   *)
(* lost, is withdrawn from what the list offers in the end: no older        *)
(* refresh brings the buttons back for good (refreshDashboard).             *)
DecidedIsWithdrawn ==
  \A r \in Requests : (status[r] \in Decisions) ~> (shown[r] # "pending")
=============================================================================
