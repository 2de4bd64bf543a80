# EliteAuth: TLA+ models and proofs

EliteAuth is a licensing service. A Cloudflare Worker (`worker/worker.js`)
activates licenses and checks sessions, a Supabase PostgreSQL database
(`supabase/migrations`) keeps the rows and a few procedures, a static website
(`website/app.js`) is the dashboard of an application's owner, and eight SDKs
(`sdk/`) are the clients. Nothing in the Worker is kept between requests and no
request holds a lock from one statement to the next, so what makes the system
correct is what its conditional updates, unique indexes, references and
procedures guarantee about requests that interleave. The clients and the
dashboard hold state across awaited calls, and must cope with replies that are
lost, late or out of order. This directory states that
and checks it.

## 1. Inventory

| Component | State | Operations | Talks to |
|---|---|---|---|
| Replay protection (`worker.js` 327-360, `reserve_api_nonce`) | `api_nonces` | window check, reservation with pruning | clients' clocks, Workers' clocks, database clock |
| Activation (`worker.js` 93-219) | locals of one request | read application, reserve nonce, check build and version, read license, bind, reread, insert session, reply | `applications`, `api_nonces`, `licenses`, `license_sessions`, `security_events` |
| Session check (`worker.js` 221-325) | locals of one request | read application, reserve nonce, read session, rotate challenge, read license, reply | the same tables |
| HWID reset (`001_initial_schema.sql` 174-363, `app.js` 889-968) | `hwid_reset_links`, `hwid_reset_requests` | create link, submit, approve, reject | `licenses.hwid` |
| Schema and owner (`001_initial_schema.sql`, `app.js` 504-723) | all tables | create licenses, change status, enable or disable an application, approve a build, delete | cascades to every table |
| Dispatch and signing (`worker.js` 15-91, 375-414) | none | route, catch errors, sign | the handlers |
| SDKs (`sdk/*`) | session token, current challenge | activate, checkSession, clearSession | the Worker |
| Dashboard (`app.js` 313-337, 753-846) | lists last loaded, DOM handlers | refresh, dispatch of buttons | the owner's operations |
| License batches (`app.js` 217-246) | offset, rows so far | load 1000 rows at a time | `licenses` |
| Key generation (`app.js` 148-183, 543-544) | set of keys | draw until enough distinct keys | - |
| Donation estimates (`app.js` 978-1082) | cached prices, a shared promise, an estimate, a message | load prices, prepare, copy | an exchange-rate service |
| Account pages (`app.js` 53-147) | none of their own | sign up, sign in, redirect | hosted authentication |

What is hard about each, and what makes it correct:

- **Replay protection.** Three clocks (client, Worker, database), late and
  repeated deliveries, rows that expire and are pruned at the instant of expiry.
  Correct: a request is let through at most once, and its first copy is not
  called a replay.
- **Activation.** Six statements, any other request between any two, each may
  fail before or after it took effect. Correct: a license is used from one
  device, plus one for each approved reset; a timed license that is used has an
  expiry; the client is told the expiry that is stored.
- **Session check.** The same, and the challenge is rotated before the license
  is read. Correct: a challenge is redeemed once; a revoked session never moves
  on; a replay alarm has a cause.
- **HWID reset.** Approval unbinds whatever is bound when it runs, in the middle
  of activations. Correct: each approval frees the license for one device.
- **Schema.** Deletions cascade under requests in flight. Correct: nothing
  outlives what it refers to; applications are isolated from each other.
- **Dispatch.** Rejections of a promise returned without `await` escape the
  `catch`, so a handler that fails half-way is not answered by the signed 500.
  Correct: the client takes no such answer for a success, and recovers from it.
- **SDKs.** Overlapping calls, lost replies, no timeout. Correct: a success is
  reported only if the license entitled the device during the call; a client
  whose calls do not overlap holds a challenge it can redeem; whatever happened,
  a client can get back to a valid session.
- **Dashboard.** Two handlers on one button, refreshes answered out of order,
  lost replies, a list of the 50 newest requests. Correct: the list catches up
  with the decisions; requests that stay listed are decided; the buttons of
  decided ones are withdrawn.
- **License list.** Batches of a table that changes under them, rows with equal
  sort keys, a page and a filter older than the list. Correct: what can be
  listed once is; the page shown is not beyond the list.
- **Key generation.** A loop over a finite set of keys. Correct: it ends when
  the format has enough keys.
- **Donation estimates.** Calls that share a request, and two places where they
  answer. Correct: the estimate beside the address is of the fields as they are,
  the message of the form says the same as long as they stay so, and an answer is
  always given.

`PROJECT.json` lists every hazard at its line with the properties that cover it.

## 2. Modules

```
ReplayGuard                      Schema
   |  \                          /     \
   |   ReplayGuardProofs  HwidReset   Activation
   |                         |            |
MCReplayGuard                |       SessionCheck
                              \       /
                              EliteAuth ---- INSTANCE ----> DeviceBinding
                              /      \                           |
                    MCEliteAuth    EliteAuthProofs       DeviceBindingProofs
                                        |                    |
                                   BindingProofs -- INSTANCE-+

SdkClient         LicenseList            Dashboard         Donation
    |              |       |                 |                 |
SdkClientProofs    |  MCLicenseList    DashboardProofs   DonationProofs
           LicenseListProofs
```

The upper modules are the backend, the lower ones its callers. A caller's module
reduces what the backend does to what the caller can tell of it: SdkClient takes
a handler as one step, with the failures Activation and SessionCheck have at
each statement reduced to whether the session was opened or the challenge
rotated, and whether the answer was signed; Dashboard keeps of the
procedures of HwidReset that they decide a request once.

**ReplayGuard** models one application's requests as the replay protection sees
them. `now` is database time in ticks, a second is `Second` ticks. `Send` is an
SDK call (a fresh nonce, a stamp of whole seconds at most `ClientLead` ahead),
`CheckWindow` is `validateRequestWindow` on a Worker whose clock is off by up to
`Skew`, `Reserve` is `reserveNonce` together with `reserve_api_nonce`: it prunes
what expired, inserts unless the nonce is there, and reports which. Between the
two at most `MaxDelay` passes. A delivery that never gets to `Reserve` is one
that failed.

**Schema** holds the tables the others share, the owner's operations and the
clock. A row that is deleted or not yet inserted is `None`. What the code draws
at random is named by the request that drew it, so it is never drawn twice: a
session token by its activation, a challenge and a nonce by their request.
`nonces` has no expiry here; ReplayGuard is about that. The owner changes
the columns that are the owner's (license status, `enabled`, the approved
build); the policies of the database would also let an owner write `hwid` or
`expires_at`, or delete reset links, with tools of their own, but no code of the
repository does and the model does not. `banned` is a status the Worker treats
as it treats `disabled`.

**Activation** and **SessionCheck** are the two handlers. `act[r]` and `chk[c]`
hold the locals of each request and `pc`, the statement it awaits. One action
runs that statement on the tables and the code up to the next `await`; where the
code reads the clock between two statements (`Decide`, `Mint`, `Verify`,
`Judge`) it is a step of its own, so that time may pass. `Throw` and
`CheckThrow` end a request at any point: the statement awaited failed before it
was executed, or the one before it was executed and its reply was lost, or the
reply could not be signed. A request that goes on to report a security event has
the type of the event as its `pc`: `RecordEvent` is a statement of its own, which
comes after the reservation or the rotation that failed, with any other step
between. `Record` may or may not insert the row, because `recordSecurityEvent`
swallows failures. `ActivateAgain` and
`CheckSessionAgain` are the network delivering an earlier request again.
Requests outside the time window end before they touch anything and are left to
ReplayGuard.

**HwidReset** has one action for each procedure: PostgreSQL runs it as one
transaction, under a lock on the row it decides on. A call it refuses changes
nothing and is no step. A link yields at most one request, so the request is
kept under its link.

**EliteAuth** composes the four over one database. Its properties are in the
module, each with the code it is about.

**DeviceBinding** is the abstract promise: `Bind`, `Release` (an approved
reset), `Forget` (a request gives up, a session ends), `Delete`. It knows
nothing of requests, nonces or sessions, only of the devices that are entitled
to a session of a license. `EliteAuth` implements it under the refinement
mapping `Binding`, where a device is entitled when it is bound, has a session,
or has a request that is past the last look at the binding.

**MCEliteAuth** and **MCReplayGuard** give the constants values for TLC and
declare the symmetry. Activations, checks, links, devices, nonces and deliveries
are interchangeable: no definition tells one of them from another, and no run
that declares the symmetry checks liveness.

**SdkClient** is one client object (`sdk/javascript/eliteauth.js` and
`sdk/typescript/eliteauth.ts`, whose control is the same), the application that
uses it, and the Worker's rows and dispatch. `token` and `challenge` are the two
fields; `calls` are the calls made, with the request and the reply of each while
they are on the way. `Post` is the call up to its `await fetch`, the `Take...`
actions are what `postSigned`, `verifyEnvelope` and the caller do with a
response. A response may be handed to the fetch of another call of its route
(`Arrives`), fetches may reject before or after the request was served (`Fail`,
`FailEarly`), and the application may stop waiting for a call (`Abandon`), which
is how calls come to overlap. `held` is the challenge in the row of each session,
`entitled` whether the license, the device and the application are in order. The
names of calls are used again once nothing refers to them, so that a behavior
has no end. An answer that is refused, unsigned, or signed under no nonce has the
same effect on the client, so the model has one of them.

**LicenseList** is the list of licenses (`website/app.js` 148-245, 397-584,
712-722, 753-807). `rows[k]` is the license with key `k`, whose `at` is its
`created_at`, shared by the rows of one insert. A load (`load`) reads the
applications, then ranges of the ordered rows, and keeps each row with the range
it was read in; `Ranges` are the answers the database may give, where equal sort
keys may come in any order in each query. `shown[f]` is how many rows of the list
match the filter `f`, which is all that paging depends on.
`RenderLicensePage` is what every handler of the list ends in. `SubmitForm`,
`DrawKey`, `InsertLicenses` are `createLicense`; while it draws, the page does
nothing else (`Responsive`). `due`, `deleted` and `inserted` of `load` record
what the properties speak of.

**Dashboard** is the decision of HWID reset requests. A refresh is an entry of
`refreshes` from `StartRefresh` to `Render` or `RefreshFails`; `Click` makes a
call for each of its two `Handlers`; a call decides in the database
(`CallDecides`) before its reply starts a refresh (`ReplyArrives`), or it fails,
with or without the decision (`CallFails`). What an approval does to the
license, and that a repeated one unbinds no device bound since, is the business
of HwidReset and EliteAuth. `behind` is set while the list may be
older than the newest refresh: an overtaken one rendered last, or the newest
failed.

**Donation** is `prepareDonation` and `loadDonationUsdPrices`. `waiting` are the
calls that await the shared promise, each with the coin and amount it read and
whether it was a click of the button (`showMessage`). When it settles they resume
one after the other before any event of the user, so `Resume` is one step: the
last call decides what stands beside the address (`output`, `wallet`), and the
last click among them what the message of the form says (`message`). `priced` are
the coins that have a price: a reply may lack any, USDT counts as one dollar, and
a failed request leaves USDT only. `prepared` is a history variable: no field has
changed since the last click.

## 3. Runs

| Run | Instance | Checks | Result |
|---|---|---|---|
| ReplayGuard | 2 nonces, 2 deliveries, `Window` 6 ticks, lead, skew and delay 1, second 2, 18 ticks | `NonceAcceptedOnce`, `ReplayOnlyOfAccepted`, `PromptNeverStale` | holds |
| ReplayEdge | 1 nonce, 2 deliveries, `Window` 4, lead 4, no skew, no delay | `NonceAcceptedOnce` | violated |
| Binding | 1 timed license, 2 activations, 2 devices, 1 link, 2 ticks | `TypeOK`, `TimedLicenseExpires`, `ReportedExpiryIsStored` | holds |
| Resets | 1 lifetime license, 3 activations, 3 devices, 1 link | `DevicesBoundedByResets`, `ImplementsDeviceBinding` | holds |
| Sessions | 1 activation, 3 checks, 2 versions, session of 1 tick, 1 tick | `ChallengeConsumedOnce`, `AlarmsHaveCause`, `RevokedNeverRotates` | holds |
| Tenants | 2 applications with a license each, 1 activation, 1 check, 1 link, 1 build | `SessionIsolation`, `NoOrphans` | holds |
| Expiry | as Binding | `OneExpiryPerLicense` | violated |
| Consumed | 1 activation, 1 check | `ConsumedMeansReturned` | violated |
| Client | 4 names of calls, 1 abandoned call, 1 late request | `TypeOK`, `InSync`, `VerdictIsFresh`, `Revalidates` | holds |
| Licenses | 2 applications, 3 keys (one shared), batches of 2, pages of 1 or 2, 3 inserts | `TypeOK`, `NothingMissed`, `LoadedOnce`, `PageNotEmpty`, `DrawingEnds` | holds |
| Decisions | 2 requests, 1 listed, 2 refreshes, up to 3 calls of a decision, 1 decision with calls under way at a click | `TypeOK`, `StaleOnlyIfBehind`, `PendingIsDecided`, `DecidedIsWithdrawn` | holds |
| Donation | 3 coins, 3 amounts, 4 waiting calls | `TypeOK`, `EstimateIsCurrent`, `MessageAgrees`, `EstimateComes` | holds |

The bounds. Two deliveries of one nonce are all `NonceAcceptedOnce` is about,
and a second nonce makes their reservations prune and insert in between; 18
ticks is the latest stamp a run sends plus both windows. Every race on a license
is between two requests and one approval: Binding has the two with the clock,
Resets a third device so that the one that lost its binding, the one that has it
and the one that waits are all there. A session's challenge is contended by two
checks, and the third is the repeated delivery or the one that comes after.
Isolation needs two applications, and a request that names one with a license or
a session of the other. Clocks are bounded by `MaxTime`, with lifetimes
short enough to pass within it; runs where time plays no part keep it at 0.
The runs of the backend say `CHECK_DEADLOCK FALSE`: each request is sent once
and the clock stops, so a run comes to an end.

Client has a name for the session, one for its challenge, one for the call under
way and one for a call abandoned or late, which is what overlaps in pairs; a
second abandoned call adds no new pair of token and challenge. Licenses has two
batches and a third that is empty, an insert that fits within one batch and one
that shares its `created_at`, a deletion that empties the page shown, and an
application with fewer keys than may be asked for. There the loop never ends,
which stops the page: `CHECK_DEADLOCK FALSE`. Decisions has the smallest list
that hides a request. A click may come while one of the two calls of an earlier
click on the same button is under way (`MaxCalls`), or while the calls of one
other button are (`MaxBusy`): the calls of two buttons, or of two clicks, meet.
In Donation two calls that wait can disagree, two clicks can, and the calls of
the fields come between and after them: four wait at once. The coins are USDT
and two others, of which one may have a price and the other none. Client,
Decisions and Donation check for deadlock.

What the three violated runs show, each a sentence of the website that the code
does not keep:

- **ReplayEdge.** "Reusing an old nonce or challenge is rejected." A nonce is
  kept two windows from its reservation. A request stamped one window ahead is in
  the window for exactly that long, both ends included, and its row is deleted at
  `expires_at <= now()`: at that instant a second copy passes both checks. Half a
  window less of lead and the promise holds; the proof says how much (below).
- **Expiry.** "Timed licenses begin on first successful device bind." A slow
  activation that read the license unbound and without expiry binds it after
  another bind and a reset, and moves the expiry. `TimedLicenseExpires` still
  holds: some expiry is always there.
- **Consumed.** "Each check consumes the previous challenge and returns a newly
  signed challenge." A check that consumed it and then finds the license
  disabled, expired or bound elsewhere returns none, and the session cannot be
  checked again even after the owner enables the license.

Other disagreements met while modelling, which no run needs to show:

- `website/app.js` 221-223 says the batches fetch "every license". They do not
  when rows are inserted or deleted between two batches, or share a
  `created_at`; `NothingMissed` and `LoadedOnce` say what remains true.
- `website/dashboard.html` 158 offers "up to 1,000 licenses at once", for every
  format. A format of one group of two digits without the ambiguous ones has 64
  keys: asked for 65, the loop of `createLicense` does not end and the page
  hangs.
- "Please try again shortly" (`app.js` 1050) does not help: the fallback is taken
  for the prices and no later call asks for them.
- The status buttons of licenses call `toggleLicense` (`app.js` 315, 828), which
  is not defined; a click throws and the license keeps its status.
- One click on a reset link of the overview creates two links.
- When the amount is cleared while prices are awaited, the call that waits still
  writes its estimate afterwards: `EstimateIsCurrent` is about valid amounts.
- The message of the form (`app.js` 1068-1070) is written by clicks only and is
  never taken back: after a click, and a change of the coin before or after the
  prices come, it goes on naming the old coin and amount while the address is
  the new coin's. No document says otherwise (`donate.html` 46 promises only that
  the estimate is calculated automatically), so `EstimateIsCurrent` says nothing of
  the message, and `MessageAgrees` says when it can be relied on.
- A click on "Approve & reset" makes two calls. The procedure refuses the second,
  so the page shows an alert although the decision was made (`app.js` 923-928).
- A pending request behind the 50 newest is not listed by any page, and stays
  pending: `PendingIsDecided` excepts it.

Fairness is assumed where something must come about, and only there.

- **Client** (`Revalidates`): once the license entitles the device for good, the
  client gets a valid session again and again. Assumed of the application: it
  activates after a failure and checks after a success. Assumed of the network
  and the Worker: strong fairness for success, because a call that is tried for
  ever is not lost for ever, while any single call may be; a fetch ends in the
  end, as the browser's or the system's does without the SDK's help. Nothing is
  assumed of `clearSession`, of abandoning, or of the owner's other actions. The
  session may be revoked again and again, but not before its first check.
- **Licenses** (`DrawingEnds`): weak fairness of drawing a key not yet drawn.
  The draws are independent and uniform over the blocks of the format.
- **Decisions** (`PendingIsDecided`, `DecidedIsWithdrawn`): the owner opens the
  page now and then and decides what is offered; of the queries, the renderings
  and the calls that are made again and again, some succeed. Any of them may
  fail any number of times.
- **Donation** (`EstimateComes`): a request for prices succeeds or fails in the
  end, and the handler of the failure runs.

## 4. Proofs

**ReplayGuardProofs** proves type correctness and `ReplayOnlyOfAccepted` for all
constants, and `NonceAcceptedOnce` and `PromptNeverStale` from `ClocksClose`:
client lead, rounding, delay and twice the skew fit into one window. The
invariant is that a nonce that was accepted keeps a row that outlives the window
of its request on every clock: as long as any Worker could find the stamp in its
window, or a delivery it found so is still under way, the row is there and
unexpired, so the second reservation meets it. ReplayEdge shows that the
assumption cannot simply be dropped.

**EliteAuthProofs** proves `TypeOK` and `NoOrphans` for any numbers of
applications, licenses, devices, links and requests. Neither is inductive alone:
an approval unbinds `resetLinks[k].license`, which is a license row only because
the link of a pending request is there and its license is; and a request carries
the identifiers a row needs only if it got past `idle`. The invariant is their
conjunction, with what each request has read at each `pc` (`HasRead`,
`CheckHasRead`) part of `TypeOK`. `CascadeReferences` is the lemma about
deletion.

Its second part proves `ChallengeConsumedOnce`, `SessionIsolation`,
`RevokedNeverRotates` and `AlarmsHaveCause` from four more invariants.
`OpenInv`: an activation that got past its license lookup holds a license of the
application it names, and a session exists only of an activation that is past
its insert, so an insert never overwrites a session. `ConsumeInv`: the challenge
of a session is its first one or was drawn by a check that rotated it, and only
such challenges were ever consumed. So a session holds a challenge nobody has
redeemed: the one a check puts in is its own and new. `ChallengeConsumedOnce`
alone is not inductive, because it does not say why a new challenge differs from
all old ones. `TenantInv`: a check that has found its session named the
application of it, and no step gives a session to another. `CauseInv`: a nonce
in the table was reserved by a request that is past its reservation
(`Reserved`), and a check that has read its session either still finds the
challenge it was compared with there, or another check has redeemed it, or the
session is gone (`Compared`). An alarm is raised from a request's locals, read
statements ago, and these two say what has happened since that explains it;
between the statement that failed and the one that records the event, the
request keeps the cause (`Reports`, `CheckReports`), because no step undoes one
(`CausesStay`). The proof first reduces the handlers to a few shapes
(`ActivationSteps`, `CheckSteps`): a step of a request either moves only its own
`pc` and locals, or is one of the statements that write a table. Every invariant
is then preserved shape by shape instead of action by action.

**BindingProofs** is about licenses and devices. Its first half proves
`TimedLicenseExpires` and `ReportedExpiryIsStored` from `ExpiryInv`, which says
for each `pc` what the row an activation holds still tells of the license.
`TimedInv`: whatever a request will write or insert next, the license has an
expiry by then. `ReportInv`: while no reset of the license is approved, it is
bound once, so whoever saw it bound saw its final expiry, and whoever saw it
unbound either binds it or reads it again. The two differ in what may intervene,
as the Expiry run shows: after an approval the second one is false.

Its second half proves that the backend implements DeviceBinding
(`BindingImplemented`), under the mapping of EliteAuth. Each shape is mapped to
a step or a stutter: a successful conditional update to `Bind`, an approval to
`Release`, a request that ends or a session that goes to `Forget`, a cascade to
`Delete`. That a bound license has its device entitled, and that an insert adds
a session of a device entitled already, is in the mapping; that a row which is
deleted takes its sessions with it is `NoOrphans`. `FewResets`, that finitely
many resets are approved, makes the counter of the mapping a number when the set
of links is infinite. `DevicesBounded` then is the abstract theorem
`EntitledBounded`, instantiated by the mapping (`Abstract`), and the fact that
devices with a session are entitled.

**DeviceBindingProofs** proves `EntitledBounded` of the abstract specification:
the number of entitled devices is at most the approved resets, plus one while
the license is bound. With the types and the finiteness of the entitled sets it
is inductive: a release trades the bound device for a reset, and a bind adds one
device to a license that has none.

**SdkClientProofs** proves `TypeOK`, `InSync` and `VerdictIsFresh` of the client,
with any number of calls overlapping, lost, abandoned or late. `NamesInv`: the
name of a call under way is used by nothing else, which is what a fresh nonce is
for. `RepliesInv`: a signed reply is on its way only to the call it answers, and
a success only if the license entitled the device since the call was made; hence
`VerdictIsFresh`, although responses reach the fetch of other calls. `SyncInv`:
while nothing was abandoned, the client waits for one call at a time, a success
on its way carries the challenge the row holds, and after a success no late
request bears the client's challenge. The last part is why `InSync` survives a
late request: what could redeem the challenge is gone. The run Client was used
to find the invariant and checks what it implies.

**DashboardProofs** proves `TypeOK` and `StaleOnlyIfBehind`. An answer that
arrives late may overwrite a newer one. `Remedied` says of each decided request
that what is shown, and what each refresh has read, is what the row says, or is
put right by the newest refresh, or is marked as overtaken, which `behind`
remembers when it renders. It needs `Final`, that a decided request never
changes, and `Lists`, that no list names a request that is not there.
`OverProperties` is the lemma about the sequence of refreshes when one is
removed from it.

**LicenseListProofs** proves `TypeOK`, `NothingMissed`, `LoadedOnce` and
`PageNotEmpty`. The rank of a license is the number of wanted ones that are
newer (`Rank`). `PlaceInOrder`: in every order the database may choose, a license
with a `created_at` of its own is found at its rank, whatever it does with the
others; so a range holds exactly the licenses with a place whose ranks are in it
(`RangeIs`). `BetweenBatches` is what the offset then relies on. Insertions come
with a newer `created_at` and never lower the rank of what is there
(`RankGrows`): without a deletion, a license not yet read is at or beyond the
next offset (`Ahead`), so no batch skips it, and a batch that is not full is the
last. Deletions never raise it (`RankShrinks`): without an insertion, a license
that was read is before the next offset (`Behind`), so it is not read again. When
both happen neither holds, and each property excludes the one that would break
it. Rows of one insert share their `created_at`, which is why the properties
speak of licenses with a place. `PageNotEmpty` rests on `Fitted`, the arithmetic
of `Math.ceil` and the clamp. The invariant `ListInv` was checked on the instance
of the run Licenses before it was proved. `DrawingGoesOn` is what
`DrawingEnds` needs besides fairness: while keys are drawn there is another to
draw, if the format has as many as were asked for; and the form inserts exactly
that many (`Counted`).

**DonationProofs** proves `TypeOK`, `EstimateIsCurrent` and `MessageAgrees`. The
call that waits last has read the fields that are in the form (`LastIsCurrent`),
and it is the one that resumes last. If no field changed since the last click,
that call is the click, or the click did not have to wait: so the message and the
line beside the address get the same answer.

The assumptions, which TLC evaluates in every run of the module concerned:
`SchemaAssumption` (the mapping constants are functions, activations and checks
are different requests, `None` is none of the values), `ConstantsAssumption` of
ReplayGuard (clock bounds are numbers, a second is a positive one),
`ClientAssumption` (`None` is none of the names, kinds, envelopes and
verdicts), `DashboardAssumption` (the page lists at least one request, and there
may be a refresh), `ListAssumption` (a format yields finitely many keys, batches
and pages are not empty, `None` is no application and no row),
`DonationAssumption` (the fixed coin is one of the coins,
and the amounts are numbers with 0, the invalid one, among them).

What is only model-checked:

- The liveness properties (`Revalidates`, `DrawingEnds`, `PendingIsDecided`,
  `DecidedIsWithdrawn`, `EstimateComes`): the prover does not treat fairness. Of
  `DrawingEnds` the part that is a safety property is proved (`DrawingGoesOn`).
- The three violated runs, which refute what they check.

## 5. Not modelled

- Cryptography: a signature is taken to be unforgeable and random values to be
  distinct. The forms of hashes, keys and nonces.
- Locks inside the database: a statement or procedure is one step. A conditional
  update rechecks its condition when it waited for a row, which is what makes it
  one.
- Account pages, static pages, deployment files, the key script: no state that
  interleaves.
- The GET routes of the Worker, which answer constants, and the clock of the
  client in `verifyEnvelope`: a reply it finds too old or too new is refused like
  any other it cannot verify.
- The SDKs in Python, Go, Rust, Java, C# and C++: the same two fields and the
  same order of steps; what a language adds (a thread that shares the object with
  another) is not modelled.
- In the dashboard: the tables of users, sessions and events and the audit list,
  which are rendered from one load and never acted upon; the pages of newly
  generated licenses, which are a list that does not change; modals, copying and
  downloads; `updateApplicationIntegrity`, but for its effect in Schema. Two loads
  of licenses at once: Dashboard is about refreshes that overlap, LicenseList
  follows one.

## 6. Plan

1. ReplayGuard, Schema, HwidReset, Activation, SessionCheck, EliteAuth,
   DeviceBinding, with the proofs above: done.
2. SdkClient with the dispatch, LicenseList with key generation and batches,
   Dashboard, Donation, and the liveness properties: done.
3. Proofs of the backend: its invariants, `Spec => Binding!Spec`, and from it,
   with `EntitledBounded`, `DevicesBoundedByResets`: done.
4. Proofs of the callers: SdkClient, Dashboard, Donation: done.
5. Proofs of LicenseList: done. What is left to the model checker is liveness.
