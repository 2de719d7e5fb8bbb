# TLA+ verification of the INEC platform

This directory holds TLA+ models of the election backend, of the campaign
platform's server, of the mobile apps' offline queues and session, and of the
screens of the three clients; the TLC configurations that check them on small
instances; and TLAPS proofs of the main properties for every value of the
constants. Paths are relative to the repository's root; bare Go files are in
`inec-go-backend/`, `db.ts`, `routers.ts` and `_core/` in
`campaign-platform/server/`, and `auth-refresh.ts` in `inec-mobile/src/lib/`.

    tlc -config AuditChain_append.cfg MCAuditChain   # model-check
    tlapm AuditChainProofs.tla                       # check the proofs

## 1. Inventory

The platform has three programs of its own and several services around them.

* `inec-go-backend`: the election backend. One Go package, PostgreSQL as the
  only durable store, several replicas of one process. It owns elections,
  results, disputes, evidence and the audit chain.
* `campaign-platform`: a Node server (tRPC over PostgreSQL, no transactions)
  and a React client for candidates: team, budget, donations, voter data, war
  room, petitions, scheduled alerts.
* `inec-frontend` and `inec-mobile`: the web client and the phone app of
  officers, observers and canvassers. The phone app keeps work in SQLite while
  it is offline.

| Part | State it keeps | Operations | Module |
|---|---|---|---|
| Audit chain (`handlers.go`, `logAuditCtx`) | `audit_log`, `auditChainMu` | append a hash-chained block | `AuditChain` |
| Result pipeline, disputes, corrections (`handlers.go`, `ingestion.go`, `dispute_resolution.go`, `election_lifecycle.go`) | `results`, `disputes`, evidence status, blocking cases | capture, validate, finalize, dispute, resolve, correct | `ResultPipeline` |
| Election lifecycle (`election_fsm.go`, `election_lifecycle.go`) | `elections.status`, declaration | FSM transitions, declaration | `ElectionLifecycle` |
| Ingestion queue (`ingestion.go`) | `ingestion_jobs`, `dead_letter_queue`, `offline_sync_queue`, memory queue | enqueue, run, retry, bury, reprocess, recover | `Ingestion` |
| Campaign money (`server/db.ts`) | budget items, ledger, caps, donations | create, change, delete, set cap, give | `Budget` |
| Voter data (`server/db.ts`) | voter rows, consent, provenance, subject requests, panel | import, withdraw, erase, enrol, answer | `VoterData` |
| War room (`server/db.ts`, `_core/sse.ts`) | incidents, audit rows, open streams | report, assign, escalate, resolve, stream, broadcast | `WarRoom` |
| Scheduled work (`_core/index.ts`) | alert stamps, heartbeat jobs, agents | check deadlines, scan agents, switch on and off | `Scheduled` |
| Admission (`_core/rateLimit.ts`, `localAuth.ts`, `routers.ts`, `llm.ts`) | counters, signatures | log in, sign, verify, ask the model | `Admission` |
| Team (`server/db.ts`, `_core/trpc.ts`) | profiles, members, invites, events | invite, accept, change role, remove | `Team` |
| Tenant tables (`server/db.ts`, `routers.ts`) | rows of some forty tables | save, change, remove under a role | `TenantRows` |
| Mobile outbox (`inec-mobile/src/lib/offline.ts`, `outbox.ts`) | queued results, check-ins, reports, conflict log | queue, drain, park | `Outbox` |
| Canvass sync (`inec-mobile/lib/sync.ts`, `storage.ts`) | door knocks, pledges, locations | save, sync, retry | `CanvassSync` |
| Mobile session (`inec-mobile/src/lib/api.ts`, `app/_layout.tsx`) | tokens, auth mode, route | call, refresh, log in and out, redirect | `MobileSession` |
| Screens (the pages of the three clients) | loads and writes under way, what is shown | open, select, refresh, submit, leave | `Screens` with `MobileScreens`, `CampaignPages`, `InecPages` |
| Everything else | | | see section 6 |

**How the parts interact.** Go handlers run in goroutines of several replicas
and share only the database. A result enters through `handleSubmitResult`, the
ingestion queue or the device gateway, and all three call `applyResultTx`; the
phone's outbox uses the first two. The lifecycle reads results and disputes in
its guards. Every handler ends with an append to the audit chain, and
`handleFinalizeResult` reads that chain to learn who validated. The campaign
server is an event loop: a request runs from one `await` to the next, and its
statements commit one by one. The clients talk to the servers over HTTP and
event streams; an answer may be late, lost, or overtaken by a newer one.

**What is hard.** In the backend: transactions at READ COMMITTED that lock some
rows and not others and continue outside themselves; several disputes about
one result; a process that dies between persisting a job, running it and
recording its end. In the campaign server: a check and the statement that
relies on it are apart, and so are a change and its ledger, audit, consent or
membership row. On the phone: drains and runs that overlap, an app that is
killed between two statements, an answer that is lost after the server did its
work, a refresh token that works once. On the screens: answers out of order,
buttons that stay live, spinners, polling. `PROJECT.json` lists the hazards at
their lines; section 6 adds those that no model covers.

**What makes the parts correct.**

* Audit chain: no dangling link, one successor per block of a replica, appends
  return.
* Results: one result that counts per polling unit; annulled and superseded
  results never return; a dismissal restores exactly what was there; the
  correction trail is one to one; evidence and row agree; separate officers.
* Lifecycle: whoever races, the election moves along FSM edges from the state
  it is in; a declaration is final and backed by finalized results.
* Ingestion: no crash strands a job; completed or synced means that the unit
  has a canonical row.
* Campaign: caps are passed only by what was checked at the same time; ledger,
  trail, audit and membership rows account for what happened up to recorded
  losses; an erasure of a row that was found is real; limits cannot be reset
  by good logins; silence is noticed; only members write a campaign's rows.
* Phone: a row is called synced only when the server has it, none is dropped
  but an old location for a newer one, no row waits for ever under an officer
  who goes on syncing; overlapping calls do not end a session; every call ends.
* Screens: at rest they show the last selection and the acknowledged changes,
  a form adds one row, a spinner ends, a page that was left sends no more than
  the reload of a write under way, and a page of authoritative data says when
  its newest load failed.

## 2. Modules

### AuditChain

`logAuditCtx`, statement by statement. `Lock` takes the replica's
`auditChainMu`; `ReadTail` fixes the snapshot of the tail query; `LockTail` is
the grant of the row lock (an empty table has no row to lock); `Insert` and
`Commit` follow; `Fail` is any of the error returns; `Crash` kills a replica
and PostgreSQL rolls its sessions back. A block's hash is its row id (SHA-256
is taken to be injective and the preimage binds the whole row); 0 is the
genesis hash. `rows` holds the table with the rows of open and aborted
transactions too. `audit_log` is append-only, so a lock wait ends with the row
as the snapshot saw it; that is what PostgreSQL does at READ COMMITTED when
the locked row itself was not updated.

### ResultPipeline

One election's results, disputes, blocking cases and the evidence status. All
handlers but the capture are one transaction that holds the result row from
its checks to its commit, hence one action each. Two things are split because
the code splits them: the capture (`BeginCapture` reads the election's status
without a lock, `CommitCapture` inserts and commits, `EndCapture` is a
duplicate, a conflict or an error) and the audit row of a validation (`Validate`
commits, `AuditValidation` or `LoseAudit` comes later). `attested` is the
status the newest lifecycle evidence event of a result records. `validator`,
`finalizer` and `before` are history variables: no guard reads them.

Vote figures, party scores, roles, tenancy, geofences, EC8A rules and policy
versions decide only whether a request is refused, and a refused request
changes nothing; they are left out. A row whose soft rule violations were
overridden enters as `disputed` (`override`). `resolved` disputes are named by
their outcome. `under_review` cases are `open`, as every check treats the two
alike.

### ElectionLifecycle

Extends `ResultPipeline`. `BeginTransition` is `TransitionElection` from the
row lock to the guard, `BeginDeclare` is `handleDeclareResult` likewise,
`CommitMove` writes and commits, `AbortMove` rolls back. The guards run on
another connection and nothing but these two locks the elections row, so
results change between guard and commit. `guardFinalize` and `Complete` keep
the code's two different ways to count polling units. The verdict of the
margin, tie and spread rules is chosen freely when a result is finalized and
is "not inconclusive" when none is, which is what the code computes then. The
guards of the other events (dates, contestants, devices) only refuse. The
several queries of one guard are taken as one snapshot. `guardFinalize` ignores
the errors of its counting queries: a query that fails leaves its count at
zero, so `failed` says which of the two refusals a request skips.

Of the pipeline's actions the lifecycle adds none and changes none: each of its
steps is a pipeline step or leaves the pipeline's variables alone but for the
status, so the invariants of `ResultPipeline` hold in the composition too.

### Ingestion

Jobs are named by their idempotency key (`UNIQUE` in the table): an item and
whether the key was given or derived. `Enqueue` inserts the row, `Launch` adds
the job to the memory queue, `Start` takes a processor slot, `RecordSync`,
`Apply` and `MarkSynced` are the steps of one attempt, `AttemptFails` counts a
failed one, `Complete` or `WriteDeadLetter` and `MarkDead` end it. Each
replica holds `ingestionMu` while it writes a dead letter. `Crash` empties the
memory of a replica, `Restart` resets the table's jobs in progress, `Recover`
queues the pending ones before the server starts. The canonical write is
abstracted to whether the item has a row and whether its polling unit has one.

Every status update may fail, because `dbExecLog` only logs that; so may the
reset and the query of the recovery, which only warn, and then the server
starts without the jobs. The ghost `slip` records, per job, that a recovery did
not read it (`skipped`) or that its last update failed after it ended (`dead`,
`done`).

### The campaign server: Budget, VoterData, WarRoom, Scheduled, Admission, Team, TenantRows

One module per group of tables. A request is a record in a function from
concurrent requests to what the request has read and does next (`task`, `job`,
`change`, `run`, `visit`, `call`); each action is what runs between two
`await`s, and `Fail...` or `Abort` ends a request at any `await`. Figures are
small naturals, identities model values.

* `Budget`: `BeginUpdate`, `BeginCreate` and `BeginDelete` read the item,
  `ReadCap` and `CheckSum` are `assertStatutoryCap`, `Write` and `WriteLedger`
  follow; `BeginGift` and `InsertGift` are a screened donation. The ghosts
  `excused`, `crowded` and `lost` record that a check was out of date when its
  statement ran, or that a ledger row was lost with its request.
* `VoterData`: `InsertChunk`, `WriteConsent`, `WriteProvenance` and
  `ImportEnds` are single and bulk imports; `BeginFulfil`, `Erase`,
  `LogErasure` and `CloseDsar` an erasure; `BeginEnrol` and `Enrol` the panel.
  A subject request names a row or none (`FileDsar`): without one the erasure
  goes straight to `CloseDsar`, and `Erase` may find no row (ghost `unfound`).
* `WarRoom`: a change of an incident is read, UPDATE, audit INSERT, broadcast;
  a stream is opened, checked against both caps and registered in one step of
  the event loop, and unregistered by hang-up or shutdown. A client that hangs
  up before the handler of `close` is attached (`HangUpEarly`) is registered
  all the same, and for good.
* `Scheduled`: `StartCheck` reads the deadlines, `notifyOwner` and
  `StampAlert` work through them; `enable` and `disable` handle heartbeat
  jobs; `scanSilentAgents` is one UPDATE.
* `Admission`: `hitRateLimit` is the limiter's single upsert; login hits two
  counters and resets one; a public signature hits the dedup counter of its
  phone, or of its address when no phone is given (`DedupKey`, `NoPhone`), then
  the address, then inserts; `fetchWithBackoff` retries. `FailClosed`,
  `AddressFails` and `ResetFails` are a limiter whose statement fails: the
  caller is refused, and a signer is told that the phone or the network has
  signed already (`told`).
* `Team` and `TenantRows` (which extends it): `RolesOf` and `Allowed` are
  `resolveProfileRole` and `assertProfileRole`; a membership event names the
  profile, the action and the actor, and not the member, as the code drops the
  member's id. A behaviour of `TenantRows` is
  about one table; a table is described by the roles of its routes and by
  whether its UPDATE and DELETE match the profile or the id alone.

### The phone: Delivery, Outbox, CanvassSync, MobileSession

`Delivery` is the abstract specification of an offline queue: a record stays
until it is settled or parked, and is done only when the server has it; a
record of `Expendable` may be dropped when another is written. `Outbox` and
`CanvassSync` implement it (`OutboxDelivers`, `CanvassDelivers`).

* `Outbox`: `queue` is the insert; a drain reads a `Snapshot`, posts check-ins
  and reports one by one, or offers a unit's results as a batch
  (`offlineSync`) and falls back to `resultsSubmit`. Each request and each
  answer may be lost. `Kill` ends the process; the tables stay. `WriteThrows`
  is a local UPDATE or INSERT that throws: it ends the drain, turns a success
  into a failure, or makes a batch fall through to single submits, by the
  `catch` it meets. The server's
  side is what `handleSubmitResult` and `handleOfflineSync` do with a key.
* `CanvassSync`: runs are started by `start`, the interval (`Tick`),
  `NetworkUp` and `RetryTimer` and are not exclusive; a location run sends the
  newest and marks the window (`Covered`). `save` of a location prunes what is
  older than the latest `Keep` (1000 in the code), pending or not, unless that
  DELETE throws. `syncAll` sets the state and counts the pending rows before
  its `try`: `Counted` enters the run, `CountThrows` ends it with the state at
  `syncing` (ghost `died`). `DiskThrows` is any local statement inside the
  `try`.
* `MobileSession`: a token stands for its pair. `api` is a call with its one
  repetition after a 401, `StartRefresh` .. `Finish` the shared refresh,
  `setAccess` and `setRefresh` the two writes of the store,
  `handleRefreshToken` the server's rotation or its 401 (`Rejected`: the token
  has lapsed, was revoked, was exchanged before, the account is disabled, or a
  query failed). A call may go out without a token; a refresh that finds none
  returns before the `try` and is never cleared (`wedged`). `guard`, `boot`
  and `loadMode` are the effects that navigate; `due` and `booting` say that
  an effect has yet to run.

### The screens: ScreenKit, MobileScreens, CampaignPages, InecPages, Screens

Some 140 screens load and write in the same few ways. `ScreenKit` names these
ways; each screen has a definition for its logic (loads and writes, from its
hooks and handlers) and one for its view (what its JSX hides or disables
meanwhile). `Screens` is the behaviour: `part` is one load and one write of
one screen, and the actions are the user's (`Select`, `Request`, `Pull`,
`Focus`, `Submit`, `Leave`), the network's (`Serve`, `Answer`, `Fail`, `Land`,
`Acknowledge`, `Refuse`), the interval's or the server's (`Again`), and the
retry of the INEC web client (`Retry`), which sends a write again whose answer
was lost. A write that adds a row is told from one that sets a row. Pages that
use raw `fetch` do not retry; `Retry` is allowed to them as well, which only
adds behaviours. What a page says about a failed write is not tracked.

A load of an election waits until one is resolved (`elected`, `Resolve`). The
mobile app resolves it once per screen (`PerElection`); on the web pages
another page or window may choose another one at any time, whatever spinner
stands before the page (`Shifting`). `ResultsPage` and the mobile TV dashboard
raise their flag before there is an election (`Waiting`). After a write the
handler calls the screen's load ("reload"), whether or not the screen is still
mounted; or fetches inside itself, without the flag and with its own message
("inline", `GOTVBlockchain`); or changes what is shown ("local"). `newest` is
the request sent last and `stale` says that the last answer was to an older
one.

Four sets name the screens that lack a safeguard: `RacingParts` keep an
overtaken answer, `DoubledParts` can send a form twice, `StuckParts` keep
their skeleton after a failed first load, and `AuthoritativeParts` are those
that promise to own up to a failure. On a racing screen `SettledShowsOwn`
excuses the one thing it lacks, an overtaken answer that comes last, and
nothing else. A change that would add a screen to one of the first three sets,
or remove a page from the last, shows as a violation.

## 3. Runs

| Run | Bounds | Shows |
|---|---|---|
| `audit_append` | 2 replicas, 3 goroutines, 4 rows | no dangling link, no fork among the blocks of one replica, every append returns |
| `results_disputes` | 1 unit, 3 results, 2 disputes | one canonical result, evidence agrees, the correction trail is exact, dismissal restores |
| `results_officers` | 2 results, 2 officers, 1 blocking case, an election that ends | the submitter never validates or finalizes |
| `lifecycle_races` | 2 administrators, 2 results, 1 dispute | `DeclarationBacked`; `RacersSerialize`: moves follow the FSM from the present state, a declaration is final |
| `ingestion_one` | 1 replica, 1 item with both keys, 1 retry, 2 crashes | every accepted job ends and nothing is stranded but by an error of the database; completed and synced items are accounted for |
| `campaign_team` | 2 users, 2 profiles, 1 invite, 1 row, 2 requests | `TeamInv`: one user per invite, one profile per user, events for every membership; `WritersBelong`; `RowsStay` |
| `campaign_records` | 2 requests; 2 items, 1 donor; 2 voters, 2 erasures, 1 panelist; 1 incident, 2 viewers, 4 streams under caps of 3 and 2 per user | `MoneyInv`, `LedgerTraces`; `VoterInv`, `ErasureReal`; `WarRoomInv`, `ViewersTold` |
| `campaign_live` | 2 checks, 2 deadlines, 2 managers, 2 agents; 3 callers, 2 accounts, 2 signers of whom one gives no phone, limits 1 to 4 | `ScheduleInv`, `SilenceNoticed`; `AdmissionInv`, `GuessesBounded` |
| `mobile_app` | 2 results, 1 check-in, 1 report, 2 drains, 1 kill or failing write; 2 locations of which 1 is kept, 1 knock, 1 pledge, 2 runs; 2 calls, 2 token pairs, a lapse, a revocation or a ban, a restart | both queues implement `Delivery`; `OutboxInv`, `CanvassInv`, `SessionInv`; `EveryRowEnds`, `KeepsTrying`, `CallsEnd`, `RestartArrives` |
| `web_screens` | every part of every screen; 2 selections, 2 forms, 2 requests under way, 1 change of the selection or the election, 1 retry | `ScreenInv`, `SettledShowsOwn`, `SpinnerEnds`, `QuietOnceLeft` |
| `audit_fork` | 2 replicas, 3 goroutines, 3 rows | violates `NoFork` (below) |
| `session_login` | 1 call, 2 token pairs | violates `SignedInArrives` (below) |

Parts that share no variable are checked side by side in one run
(`MCCampaignRecords`, `MCCampaignLive`, `MCMobile`): `focus` is the part that
moves, so the state spaces add up instead of multiplying, and nothing is lost
because no action of one part reads the other. In `MCMobile` the parts are
cut finer (a batch of two results with one drain, one result with two drains,
one canvass table at a time, two calls without the navigation, one call with
it); one canvass run is under way when its count throws, pledges are sent by one
run, and one cause at a time makes the server refuse a token (`CanvassBounds`,
`OneCause`). In `MCCampaignRecords` all four streams take part while the
incidents rest and `OneStream` does while they change; in `MCCampaignLive` a
third caller only logs in. The proofs have none of these cuts.

**Bounds.** They are the smallest in which the interesting cases happen: three
goroutines let one hold a lock while two wait; two disputes about one result
give every order of closing them; three results allow a correction of a
correction; two crashes allow a crash during recovery; two requests suffice
for every pair of statements to interleave; two users with two profiles let a
user get a second one; four streams of two users pass both caps; amounts 0 and
2 under a cap of 3 let one change pass and two exceed; a chunk of one voter
makes an import of two fail in the middle; two token pairs are one rotation.
The bounds in guards are named constants: `MaxRows`, `MaxCrashes`,
`MaxRetries`, `MaxQueue`, `Workers`, `OldAge`, `MaxCopies`, `MaxKills`,
`MaxToken`, `MaxDraft`, `MaxAsks`, `MaxResent`. Symmetry is used only in runs
without liveness properties. Deadlock is not checked: a log with its last row
written, a queue without work, a screen that was left may stop.

**The violations.** `audit_fork`: `handlers.go:578-580` says "concurrent writers
on this or another replica cannot fork the chain". `FOR UPDATE` on an empty
table locks nothing, and a query that waited for the tail row returns the row
that its older snapshot saw although a newer one was committed meanwhile.
Among the blocks of one replica there is no fork (`NoLocalFork`).

`session_login`: `inec-mobile/app/index.tsx:42` says "If
INEC user is already authenticated, go to feed". The root layout reads the
auth mode once (`app/_layout.tsx:67`) and its guard keeps using that copy.
After a login in the same run of the app the copy is still `none`: the guard
replaces the feed by `/`, the login screen finds the stored mode and replaces
`/` by the feed, and so on. After a restart the layout reads the new mode and
the officer arrives (`RestartArrives`).

**Fairness.** In `AuditChain` a goroutine that can execute its next statement
does so eventually (weak fairness), and PostgreSQL queues the waiters of a row
lock (strong fairness of `LockTail`). In `Ingestion` goroutines make progress,
a channel used as a semaphore serves its waiters in order (strong fairness of
`Start`), and the orchestrator restarts a dead replica; no attempt is promised
to succeed. In `Scheduled` only the scan for silent agents is fair: an
external scheduler calls it for ever. In `Outbox` a drain goes on unless the
app is killed, since every call answers or throws. Only an officer starts a
drain (`result-capture.tsx:109` and `251`, `feed.tsx:140`), so the
specification does not say that one is started: `EveryRowEnds` has it as a
hypothesis, for each kind of drain. Kills and failing local writes happen
finitely often (`MaxKills`). In `CanvassSync` runs go on, and the
interval and the retry timer fire. In `MobileSession` requests are answered or
fail, and React runs effects that are due. In `Screens` a request is answered
or fails. No specification assumes anything of users, administrators or the
network's success.

## 4. What the code says and does not do

Besides the two above, these sentences of the code do not hold of it.
Each is stated as a definition beside the property that says what remains
true, and TLC refutes it within seconds with the constants of the module's
passing run (`DeclaredComplete` needs a second polling unit). The passing
properties of the last column do not contradict them: each names, as a ghost or
an exception, exactly what the sentence leaves out.

| Definition | Sentence | What the code does | What remains true |
|---|---|---|---|
| `FourEyes` | `handlers.go:1088`: "the finalizer must be a DIFFERENT identity than both the submitter and the validator" | the validator is read from an audit row written after the validation committed, or never | `SubmitterApart` |
| `NoLateResult` | `ingestion.go:604`: "terminal elections never accept new results" | the status is read without a lock; a capture commits after the election was closed | |
| `DeclaredComplete` | `election_lifecycle.go:97`: "every polling unit must be accounted for by a canonical result that is finalized" | units are counted status by status; one in two statuses hides one in none | `DeclarationBacked` |
| `DisputesBlock` | `election_lifecycle.go:141`: "Open disputes block declaration" | the disputes are read before the commit, on another connection, while one may be filed | `DeclarationBacked` |
| `NeverStranded` | `ingestion.go:223`: jobs "would otherwise be stranded forever" | a failing reset, recovery query or status update is only logged, and the job stays unfinished until a later restart or for good | `NoJobStranded`, `JobsEnd` |
| `DeadLettersListed` | `ingestion.go:229`: "Seed the ID counter past any persisted job ID so restarts cannot collide" | `dlqNextID` (`ingestion.go:466`) is not seeded; a dead letter is lost to the collision | `NoJobStranded` |
| `ReprocessRetries` | `ingestion.go:22`: "every ingestion path now terminates in the canonical result write" | reprocessing under a derived key is taken for a duplicate of the dead job (`ingestion.go:1308`) | `JobsEnd` |
| `TotalWithinCap` | `db.ts:1455-1459`: total spend "may not exceed the cap" | two changes checked against one sum pass together | `MoneyInv` |
| `NoRowWithoutTrail` | `db.ts:220-224`: "a voter row with no consent/provenance trail cannot exist through these paths" | an import that fails between its statements leaves one | `VoterInv` |
| `NoAnswerAfterWithdrawal` | `db.ts:611-612`: "withdrawn panelists keep history but accept no new responses" | the panelist is read before the answers are stored | |
| `MutationsRecorded` | `drizzle/schema.ts:412`: every budget mutation is recorded in the ledger | the row is a statement of its own after the change, and is lost if it fails | `LedgerTraces` |
| `RemovalRecordedFirst` | `db.ts:1555`: the ledger row is recorded before removing | the item is deleted first | `LedgerTraces` |
| `FulfilledMeansErased` | `db.ts:417-420`: "Erasure fulfillment performs a REAL deletion of the subject row" | a request without a subject, or whose row is not found, is marked fulfilled too (`db.ts:450`, `492`) | `ErasureReal` |
| `CloseHandlerCleansUp` | `_core/sse.ts:38`: the close handler cleans up a client that vanished | the connection may be closed before the handler is attached; the stream keeps its place | `WarRoomInv` |
| `RefusalIsTrue` | `routers.ts:126`: "This phone number has already signed this petition." | said as well after an attempt that failed, and to a first-time signer when the limiter fails closed | `AdmissionInv` |
| `PeriodicSync` | `inec-mobile/lib/sync.ts:92`: "Start periodic sync (every 30 seconds when online)" | a count that throws at line 117 leaves the state at `syncing`, and the interval then skips every turn | `KeepsTrying` |
| `NetworkNeverLogsOut` | `auth-refresh.ts:57-62`: "network errors / 5xx are transient and must NOT log the officer out" | the answer to a rotation is lost, the old token is blacklisted, the next refresh is rejected; a failing query of the server is a 401 too (`handlers.go:327`) | `SessionInv` |
| `StaleIsRefreshed` | `inec-mobile/src/lib/api.ts:162`: "on 401, refresh the 1-hour access token and retry exactly once" | a refresh that finds no token returns before its `try` (line 82) and is never cleared; after a login no call refreshes until the app is restarted | `CallsEnd` |
| `NeverFabricated` | `inec-frontend/src/pages/GOTVBlockchain.tsx:50`: "Never fabricate a chain on failure: show the unavailable state instead" | when the fetch after an anchor fails, the old chain stays and the page says that the anchor failed | `ScreenInv` |

Further disagreements of a step or two, kept in the models:

* `docs/ELECTION_EVIDENCE_ARCHITECTURE.md:38` says that every transition is an
  evidence event; closing a dispute restores or voids a result with a bare
  UPDATE (`dispute_resolution.go:370` and `378`). `EvidenceMatches` states
  what remains true.
* `election_fsm.go:188` calls `guardDeclare` "equally fail-closed" as the
  endpoint; it lacks the endpoint's check that a result is finalized
  (`election_lifecycle.go:336`). `DeclarationBacked` therefore speaks of
  recorded declarations, not of the status.
* `election_fsm.go:89` says that resumption returns to the interrupted phase;
  the resume events have no guard and nothing records that phase.
* `ingestion.go:24` says that synced means applied; `processOfflineSync`
  ignores the outcome, so an item that lost to other figures is synced too.
* `election_fsm.go:170-178`: `guardFinalize` ignores the errors of its queries;
  a failing count of disputes, or of polling units, closes an election that the
  guard is meant to hold.
* `db.ts:2603` says that every membership event is recorded;
  `logMembershipEvent` drops the member's id, so the log does not tell who was
  invited or removed.
* `ResultsPage.tsx:35` and the mobile TV dashboard raise their loading flag
  before there is an election; when none is found the spinner stays.
* `CollationPage.tsx:71` and other pages of `RacingParts` load again when
  another election is chosen, also behind their spinner, and keep an answer
  for the election before.
* `IncidentsPage.tsx:69`, `ResultsPage.tsx:101`, `UserManagementPage.tsx:100`
  and other handlers load again after the page was left.

## 5. Proofs

Every safety property of the passing runs is also the statement of a theorem.
All theorems hold for every value of the constants (sets need not be finite
unless an assumption says so). Assumptions:

* `Host` maps goroutines to replicas; every FSM state is a value of `Status`;
* the limits, caps, bounds and amounts are naturals, and `Chunk`, `Window`,
  `OldAge`, `MaxToken` and the retry limits of the phone are not zero;
* `Free`, `None`, `Other`, `Nobody`, `NoOne` and `Nothing` are none of the
  values they are told from, and no deadline is called "idle" or "next";
* the phone's row ids are naturals and its tables disjoint; the selections of
  a screen have a least one (the initial selection) and it has a request slot;
* the callers of the limiter and the streams of the war room are finite sets:
  the code counts them.

The arguments, module by module:

* `AuditChainProofs`. The inductive invariant is `TypeOK /\ ChainInv`: who
  inserted an open row is in its commit step, tails are committed, and every
  row is chained to a committed older row. The last part must also hold of
  open and aborted rows, since an open row commits later. It gives
  `NoDanglingLink`. `TailCoversOwn` joins it: only the holder of the replica's
  mutex is inside, so its tail stays past the replica's own blocks until it
  commits. That gives `TailStaysCurrent`, `NoForkWithinReplica` and, with one
  replica, `NoForkInOneProcess`.
* `ElectionLifecycleProofs`, for the pipeline too. `IInv` joins the invariants
  of the pipeline's runs with `RowsConsistent` (a row exists exactly if it has
  a unit and evidence, what `validated_at` and `before` say of each status).
  Each action has one step per part that it can disturb. Theorems:
  `TypeCorrect`, `OneResultCounts`, `AnnulledForGood`, `TrailIsExact`,
  `EvidenceAgrees`, `SubmitterStaysApart`; the action properties
  `HistoryStaysFrozen` and `DismissalIsExact` follow from the same invariant.
  Every lifecycle step is a pipeline step or leaves its variables unchanged
  (a lemma), which carries them over. `MoveInv` says that at most one move is
  open and that it starts from the election's status; it gives
  `RacersTakeTurns`. `RecordInv` carries what a pending declaration rests on
  from its guard to the elections row, and needs `OneCanonicalResult` when the
  guard counts: `DeclarationStaysBacked`.
* `IngestionProofs`. `HeldInv` says that a job past its apply has a row in the
  canonical store, which only grows; `FoundInv` that an unfinished job is in
  somebody's memory, in the table for a replica that has yet to recover, or
  was hit by an error of the database that `slip` names; `MemoryInv` what a
  replica's memory says of the table. Theorems: `CompletedIsAccounted`,
  `SyncedIsAccounted`, `NothingStranded`, and with one replica
  `EndedJobsStay`.
* `CampaignRecordsProofs`. Money: `Traced` strengthens `LedgerTraces`, the
  figure of an item is in the ledger or a request is about to write that very
  figure there (`LedgerAccounts`). The statutory cap is about the sum of the
  figures. That changing one figure moves the sum by the difference
  (`SumSplits`, `SumDepends`) needs an induction over finite sets of items;
  it is done by the least counterexample (`WFMin` on the naturals), a
  principle that speaks of a set instead of a predicate. `CapIndInv` then
  carries `Checked`: a figure that passed `CheckSum` fits under the cap next to
  the rest of the total, both as they were read; unless they have moved since,
  which sets `excused`, `Write` keeps the total under the cap. With the donors'
  cap this is `MoneySound`. Voter data:
  `VoterIndInv` adds `Grounded`, what a request that erases, logs, closes or
  enrols has established so far: `VoterDataSound`, `VoterDataSafe`. War room:
  `WarRoomIndInv` adds `EditsOK` (what each change does next), `TrailDue` (the
  audit row that is still to come names the present status) and `Registry`
  (the registered streams are the open ones, counted by `Cardinality`):
  `WarRoomSound`, `ViewersAreTold`.
* `CampaignTeamProofs`. `TeamIndInv` replaces `MembershipTraced` by
  `EventsDue`, which names the event each request has yet to write, and adds
  what an unused invite looks like and that every manager is recorded in
  `held`: `TeamSound`. `RowIndInv` adds what a request's role check has
  established about its caller and its row, for every table that the routes
  describe: `TenantsIsolated`; `RowsKeepTheirTenant` follows step by step.
* `CampaignLiveProofs`. `ScheduleIndInv`: a check that was alone on the table
  has read stamps that are still true (`ReadingHolds`), and checks that were
  not know it (`OverlapsShared`): `ScheduleSound`. `AdmissionIndInv` counts
  what is still to come: the wrong passwords so far plus the comparisons
  admitted and not yet made are at most the hits, and the calls paid for plus
  the calls that requests under way may still make are at most what the hits
  allow: `GuessesLimited`, `AdmissionSound`.
* `MobileProofs`. `DrainsOK` says that whatever a drain holds (its snapshot,
  an answer, the outcomes of a batch) is true of the queue and of the server,
  for which it is enough that both only grow; `StandsKnown` ties the unit's
  result to the keys and jobs. They give `OutboxSafe` and the refinement
  `OutboxImplementsDelivery`: every step of the outbox is a step of `Delivery`
  or leaves its variables unchanged. `CanvassIndInv` does the same for the
  canvassers' runs (`RunsSound`); a run that marks a window of locations may
  do so because locations are stored in order (`PlacesInOrder`), and what is
  pruned is older than what is kept: `CanvassSound`,
  `CanvassImplementsDelivery`. `SingleFlight`: one refresh at a time
  (`OneRefresh`). `RefreshWorks` and `RefreshCause` say that the stored
  refresh token has not been exchanged unless a rotation was torn or is under
  way: `SessionSafe`.
* `ScreensProofs`. The behaviour of a screen depends on its description
  through five rules (`Tidy`, `Careful`, `Owning`, `Solo`, `Orderly`).
  `ScreenIndInv` says what each rule buys: `FormsInv` tallies the rows of a
  form against its submissions and repeats, `ToldInv` that a lost load is on
  the screen, `SoloInv` and `OrderInv` that an answer under way is for the
  present selection or will be dropped, and `NewestInv` that, unless the last
  answer was to an overtaken load, what is shown or under way is of the newest
  one. `MobileScreensKeep`,
  `CampaignPagesKeep`, `InecPagesKeep` and `AuthoritativePagesOwn` then go
  through the screens one by one and show that each one outside the named
  sets keeps the rules. Theorems: `ScreensSound`, `SettledScreensShowOwn`,
  `ScreensQuietOnceLeft`.

Only model-checked: the liveness properties (`AppendReturns`, `JobsEnd`,
`SilenceNoticed`, `EveryRowEnds`, `KeepsTrying`, `CallsEnd`, `RestartArrives`,
`SpinnerEnds`), because fairness is out of the prover's reach. `NoFork` and
`SignedInArrives` do not hold.

## 6. Not modelled, and the plan

Left out inside the modelled parts: the contents of blocks, events, results
and rows; job numbering; the in-place rewrite of pending figures in
`platform_enhancements.go`; the connection pool; the canvassers' login; an
auth mode that cannot be read (`_layout.tsx:67`: the rejection leaves the
layout loading); an election that is resolved and then withdrawn from a page;
cameras, maps, location watcher and stream reader of the screens; what pages
keep in the browser alone.

Not modelled at all: reruns and merged totals, collation rollup (one SQL query
each over figures that the models leave out), evidence anchoring, device
gateway, external delivery, settlement, revocation cache, resilience helpers,
stablecoin engine, ledger bridge, the Rust, Python and Go services, chaincode,
the web service worker, maps, biometrics and a few dashboards of the web
client.

Hazards that no property covers, besides those of section 4 and `PROJECT.json`:

* `election_fsm.go:242`: guards and audit rows take a second connection while
  they hold the first; a pool of such requests waits for itself.
* `evidence_integrity.go:1089`: two officers close one reconciliation case and
  the second overwrites the first.
* `dispute_resolution.go:380`: the audit row of an annulment commits although
  its transaction may roll back.
* `election_lifecycle.go:442`: a correction after the declaration does not
  revisit it.
* `ingestion.go:361`: the queue limit is read before it is used.
* `domain_inec.go:337`: a unit in two child elections counts twice.
* `inec-mobile/src/lib/api.ts:95`: a logout or login during a refresh, which
  then writes its tokens back or clears the new ones (the model has these
  steps; the code does not say what should happen).
* `inec-mobile/app/(tabs)/more.tsx:90`: logging out leaves the auth mode.
* `inec-mobile/lib/gotv-auth.ts:117`: the canvassers' refresh is not shared.
* `inec-mobile/app/gotv-canvasser.tsx:90`, `app/(tabs)/feed.tsx:78`: a watcher
  and a stream that outlive their screen.
* `inec-frontend/src/lib/api.ts:57`: a late 401 ends a newer session.
* `inec-frontend/public/sw.js:163`: two replays send the same items.
* `campaign-platform/client/src/pages/ManifestoBuilder.tsx:100`: one of two
  mutations fails.

Next, in this order: `Reruns` (child elections and the merge, composed with
`ElectionLifecycle`); `EvidenceChain` (per-result sequence, closing of cases,
anchoring outbox); `DeviceGateway` composed with `Ingestion`; the leased
outbox of external delivery as another implementation of `Delivery`.
