# votport: a TLA+ verification project

votport is a file-exchange port. Outside parties upload packages through
request links; the operator's projects send deliveries out through download
links, storage connections and trade routes to other ports. The server is one
process (Rust, tokio, SQLite, a data directory, receiving storage that may be a
network mount); the clients are a desktop app, a command line and web pages. What it
guarantees is about what is on disk and in the database after any interleaving
of requests, sweeps, deletions, failures and restarts. This directory models
the parts that carry those guarantees, checks them with TLC on small instances,
and proves every safety invariant that the runs check for all instances with TLAPS.

Source paths are relative to the repository. `PROJECT.json` names the lines each
definition stands for, a mutant for each property, and each hazard
with the properties that watch it.

Contents: 1 Inventory, 2 Modules, 3 Runs, 4 Proofs, 5 What is not modelled,
6 Plan.

## 1. Inventory

| Component | State it keeps | What makes it hard | What makes it correct | Module |
|---|---|---|---|---|
| Session registry and upload handlers (`server/src/session.rs`, `api/upload.rs`) | live sessions with activity counters, remembered finishes, pins, the admission gate | one mutex, but a handler is a chain of locked calls with awaits in between; requests are cancelled and retried | no deletion under a live session; exact counters; quotas; every guard given back once | `Sessions` |
| Link and tenant administration (`api/admin.rs`, `store.rs`) | links, tenants | read-check-act over several awaits | a purge acts alone | `Sessions` |
| Shutdown and drain (`app.rs`) | the gate, the taken sessions | sessions admitted late | nothing registers behind the checkpoint; all settle | `Sessions` |
| Upload worker (`session.rs`) | published flags, coverage, journals, the row of `upload_sessions` | every step is durable and may be the last before a crash, or fail alone | a name shows the announced bytes; a session can be re-attached; nothing is orphaned | `Receive`, `Delivery` |
| Boot recovery (`app.rs`) | the same durable state | works from rows that lag behind the disk | as above | `Receive` |
| Receiving lease (`receiving.rs`, `lease.rs`) | a lock file and a heartbeat record on shared storage | several ports, lost locks, replaced folders, mounts that come and go, openings that fail | a port that writes owns the storage; one port receives in the end | `Ownership`, `Receive` |
| Delivery jobs, snapshots (`store/workflows.rs`, `api/outbound/workflows.rs`, `workflows/storage.rs`) | `delivery_jobs`, snapshots, exports | several claim loops, retries, policies that change, restarts, restores | nothing leaves unapproved; one delivery per package; none is stranded; the caps hold | `Jobs` |
| Native push (`session.rs`, `app.rs`, `api/upload.rs`) | rows, directory locks, parked receives, tickets | a receive outlives its connection; two sweeps | a row that can be resumed has its files; announced once and whole | `Push` |
| Outbound grants and fetch tickets (`store/outbound.rs`, `api/outbound.rs`, `api/serve.rs`) | the grant, counters, tickets, cancellation tokens | several holders of one limit; streams in flight when a link is withdrawn | the limit holds; after an answered withdrawal no stream passes its gate | `Grants` |
| Outbound library, the links made from it (`api/outbound.rs`, `api/outbound/automation.rs`, `web/assets/upload-entries.js`) | stages, the published file, preparations, operations | cut chunks, lost answers, power loss; detached preparations | what is published is whole; no link names a deleted file; one link per operation | `Library`, `Shares` |
| Delivery webhooks, evidence chain, notifications (`store/webhooks.rs`, `store/evidence.rs`, `store/notifications.rs`, `notify.rs`) | the chain, a queue of attempts, outcomes | late answers after replays and new settings | no event skipped; nothing called delivered that was not; outcomes are current | `Events` |
| Trade credentials (`store/trade.rs`, `api/trade.rs`) | invitations, routes, a pending rotation | two servers, lost replies | the port keeps the credential its peer expects | `Credentials` |
| Trade routes (`api/outbound/workflows/routes.rs`, `store/routes.rs`) | a delivery, its binding and receipt, its withdrawal | as above, and a session that outlives its exporter | recorded in full at most once; a withdrawal is final | `Routes` |
| Retention and legal holds (`app.rs`, `api/admin.rs`) | received files, hold markers, the clock's anchor | a wall clock that is slow, set back or corrected, restores to earlier rows, operators meanwhile | held files stay; nothing is taken early (with the exceptions of section 3) | `Retention` |
| Backup, restore, standby (`backup.rs`, `standby.rs`) | the data directory, stages, the pending marker | crashes and power losses in the middle of a swap | one whole origin is served | `Restore`; `Jobs` and `Retention` for its effects |
| Sign-in, SSO, SCIM, tokens (`auth.rs`, `api/sso.rs`, `api/scim.rs`, `store.rs`) | principals, tombstones, tenants, tokens, the provider slot | cookies are not stored; revocation races requests under way | a revocation ends every cookie and every token its principal has; a request acts in its tenant | `Accounts` |
| Sending client (`client/core`: `watch.rs`, `journal.rs`, `ffi.rs`, `transfer.rs`) | watched drops, a journal, lock files | two processes on one state folder, crashes, rewritten drops | one flight per drop; an upload keeps its entry and session | `Sender` |
| Taking client (`client/core`: `fetch.rs`, `receive.rs`) | tickets' capabilities, stages, landing journals | two receives of one path, power loss, moved files | a landed file is whole; a delivered ticket's bytes are not lost | `Fetch` |
| Configuration, logging, egress; store connections and schema conversion; desktop shells and pages; protocol types | | | see section 5 | |

How they interact. A request handler registers a session with the registry and
spawns a worker; it then sends commands over a channel while it holds a lease
on the session. The worker writes staging files, publishes them and checkpoints
the session row. Sweep, link deletion, tenant deletion and shutdown act on
the same registry. At boot, `resume_upload_sessions` rebuilds workers from
rows; before that, a pending restore may replace the whole data directory, and
the receiving storage must be acquired. A completed reception queues a delivery
in the transaction that records it; claim loops freeze the files into a
snapshot, open a grant, and export to storage or over a trade route. Each step
appends to the event chain, from which webhooks are queued. Grants are served to
browsers and, through tickets, to the taking client.

## 2. Modules

Modules that share no state are put side by side in one instance: an `MC`
module has a variable `focus` that fixes which component a behaviour follows.
This is no interleaving of components; it saves nothing but runs, and each run's
states are those of the components' own specifications. Interactions that
matter are inside one module: the registry with the administrator, the worker with
the boot, jobs with operators, retirement, restores and restarts, a port with its peer.

| Instance | Composition | Proofs |
|---|---|---|
| `MCUpload` (extends `MCSessions`) | `Sessions`, `Sender` | `UploadProofs` |
| `MCSessions` | `Sessions` | `UploadProofs` |
| `MCReceive` | `Receive`, which instantiates `Delivery` as `D` | `ReceiveProofs` |
| `MCDelivery` (extends `MCJobs`) | `Jobs`, `Fetch`, `Accounts` | `DeliveryProofs`; `AuthorityProofs` |
| `MCLive` (extends `MCJobs`) | `Jobs`, `Ownership` | `DeliveryProofs`; `AuthorityProofs` |
| `MCOutbound` | `Grants`, `Push`, `Library`, `Shares` | `OutboundProofs`; `PortProofs` for `Push` |
| `MCPort` (extends `MCReceive`) | `Receive`, `Events`, `Credentials`, `Routes` | `ReceiveProofs`, `PortProofs` |
| `MCStored` (extends `MCReceive`) | `Receive`, `Retention`, `Restore` | `ReceiveProofs`, `StoredProofs` |

`SumsProofs` has the lemmas on sums folded over finite sets. A definition of a
component that no other one of it uses is a mutant: a step with a
plausible bug (a dropped guard, a missing reset, a swapped order).
`PROJECT.json` pairs each with the property it breaks.

All integers are unbounded in the models except where a bound is named;
the code's counters that could wrap (`in_flight`) are integers in the model and
proved never to go below zero. Every `Max...` constant is a bound of the
instance, not of the program.

### Sessions

Every registry method holds one mutex, so it is one step. A handler is the
chain of its locked calls and store reads, with a program counter between them
(`pc` for a create request, `fin` for each finish request, `abort`, `linkOp`
and `tenantOp` for the administrator's handlers):

* create: `PrepareSession` (link read, length check), `TryAdmit`,
  `ReadReceived` and `ReadRetained` (two separate queries),
  `InsertAdmitted`/`InsertRefused`, `ConfirmLink`/`ConfirmFailed` (the second
  link read of `register_session`), `SpawnWorker`, `CreateReplied`; a client
  that goes away is `CreateCancelled` at any of those points, and the drop
  guards of the handler then run;
* commands: `CommandTouch`/`CommandEnd` take and return a lease; seal, page,
  begin and chunk differ only in what the worker does with them, which is
  the subject of `Receive`;
* finish: the look-up of a remembered answer, `touch`, the send, the worker's
  commit or refusal, `remember_finished`, the answer; several attempts may be
  under way at once;
* worker: `WorkerBegin`, `WorkerPublish`, `ChannelClosed` and
  `WorkerInterrupted` (its channel closed), `WorkerSuspend` (shutdown);
* sweep, expiry of remembered finishes, link close, open and delete (the look at
  its files and the removal of its row are two store calls, `LookForFiles` and
  `RemoveLink`), purge of a link's uploads, tenant create, delete and purge, outbound operations,
  `RequestShutdown`, `TakeHttp`.

The history `late` collects, for each creation, the uploads that began or were
recorded after it read the usage that would have counted them; it is what
`AdmissionsBounded` measures the staleness of the two reads with.

Abstractions: sizes are small numbers; `idle` stands for a `last_active` older
than the timeout; a session's payload is one value (`none`, `published`,
`recorded`, `deleted`); every tenant has the same quota. The session rate limit
and the insertion of resumed sessions at boot are not in this module.

### Receive and Delivery

One session, from seal to its last byte. Durable state: the link, the session
row (`row`, `rowPub`, `rowPrefix`, `reported`), the upload records (`named`,
`full`), staging files and their journals, which staged ranges hold the
object's bytes (`good`), and the destination names. Volatile state: the
worker's program counter with the operation it belongs to, published flags,
coverage, the rehash and preserve marks, and the lease. Each durable change is a
step of its own, and `Restart` is enabled between any two of them. With the
fault `power`, `Restart` drops an arbitrary part of the ranges written since the
last sync, which is what the code's rehash is there for. `Faults` names the failures a
run allows: store calls (`insert`, `save`, `append`, `delete`, `load`), file
operations (`location`, `taken`, `forget`, `clean`, `discard`), receiving storage
(`resume`, `lease`) and `power`; `LinkEvents` what may happen to the link.

`Delivery` is the promise to the operator: a name appears only under a durable
admission; a record names only delivered files; the admission is released only
when every delivered file is named, or the link is dead. `Receive` implements
it under `admitted <- row # "none"`, `delivered <- Delivered`, `dead <- Dead`.

The vot-sdk-file library is external and modelled from its use: `publish`
moves a staged file to its destination and keeps the journal; `recover` and
`resume` need that journal; dropping a staged file that is not preserved
removes it. Not modelled: the metadata check when a staged file is reopened,
receipts and sidecars, and the failure of `insert_resumed` after
`resume_worker` has spawned.

### Ownership

Several ports and one receiving storage. The private folder has generations,
each with one lock file and one heartbeat record; replacing the folder makes a
new one. Actions: the boot and the administrator's check (`StartProcess`,
`CheckStorage`, `AcquireLock`, `AcquireRecord`, `Probe`, `BeginRecovery`,
`SessionsRestored`, `EndRecovery`, `RecoveryFails`, `Install`), a renewal as its five awaits
(`BeginRenewal` to `RenewWrite`), the keeper that stops a port (`KeeperStops`,
`ProcessEnds`, `KeeperExits`) and a boot that returns its error (`BootEnds`), and the environment: `LockLost`,
`FolderReplaced`, `MountLost`, `MountReturns`, `ProcessDies`. Workers may write
(`MayWrite`) from the first one that a recovery resumes to the end of the process:
`RecoveryFails` drops `Active` with its guard under the workers it resumed, which
are stopped but may be past `check_live` (`Leftover`). The ghost `doubt`
marks a port whose ownership was taken, from that moment to the end of the
renewal that must notice.

### Jobs

Each store call is one transaction and one step. A claim loop is `phase` with
the attempt it works on (`task`, `try`) and one leg per destination; its
conditional updates compare `attempts` as the code does (`Current`). A dead
process leaves its rows as they are; `Boot` starts a new one, which the lock on
the data directory (`lock_data_dir`) keeps from overlapping with the old one.
`BootRestored` is a boot from a restored archive, which suspends every row.

* rows: `EnqueueJob`, `QueueReceived`, `Approve`, `Cancel`, `Retry`,
  `Reprocess`, `RevokeRoute`, `SaveProject`, `GrantEnds`, `Deauthorize`;
* loops: `Claim`, `Reserve`, `FreezeFiles`, `PublishInventory`, `FilesAtHand`,
  `FinishJob`, `ExportAuthorized`, `LegCleared`, `LegWritten`, `LegCompleted`,
  `LegFails`, `ExportEnds`, `PrepareFails`, `FailJob`; `TimePasses` is the
  backoff;
* retirement: `ClaimRetirement`, `RemoveSnapshot`, `RetirementFails`,
  `CompleteRetirement`.

Abstractions: every job not made from a received package takes a snapshot (jobs
over a library in place behave like received ones); the seven-day cutoff of
retirement means that no attempt is still under way; `authorized` merges the
checks on the actor, the trade route and the storage connection;
`same_delivery_policy` is equality of revisions; the order of the claim query is
abstracted; projects are not deleted. Token rotation, recipients, media checks
and panics of a loop are not modelled.

### Grants

One outbound grant, its files, and the requests that serve it: HTTP downloads of
a file (`FileRequest`), of all files in a batch or a bundle (`ManyRequest`) with
their gates, frames and records (a poll of a batch checks the gate in `BatchPoll` and hands its
frame out later, in `BatchFrame`, or in `BatchEnd` after the trailing validation and the
record it awaits), and native fetches through tickets
(`MintFetch`, `PresentTicket`, `AdmitTicket`, `FetchEnd`, `FetchRecord`). A
stream holds a cancellation token from `Gate` on; the model keeps whether the
token is still in the map, cancelled, or was taken out uncancelled (`orphan`).
Administrators revoke, rotate, hold and release in two steps each, the write and
the answer (`Revoke`/`RevokeAnswers`, ...), and the property is about what
was answered. `ShortSweep`, `PruneTicket`, `PurgeGrant`, `Expire` and
`Restart` are the rest. A profile chooses which of the routes, keys, revocations
and restarts a behaviour has. Catalogs, receipts, the staging of batches and the
password check are not modelled.

### Push

All pushes of one package by one sender: they share a resume key, hence a row, a
directory and its lock. Creation is `LockDirectory`, `RegisterPush`,
`PersistPush` or `PersistFails`, `IssueFails`; the connection `Connect` and
`Manifest`, which restores from the row or starts anew; each entry's rail
`ChooseSink`, `Place`, `TakeObject`, `PublishObject`, `CountObject`,
`DecideCommit`, `CommitPush`, `RailFails`; checkpoints are three steps because
the rails go on meanwhile. A receive whose connection ends parks (`Dropping`,
`Retained`, `Cleared`). `SweepIdle`, `SweepTicket` and the staging sweep
(`SweepPick` to `SweepRemove`), which works from a row it read earlier, and the
boot are the other actors. `stagedBy` says which push's manifest made the staging in the
directory: a sweep discards only the staging its row names.

### Library and Shares

`Library` is one path of the outbound library: a chunk request takes the path's
lock, opens or cuts the stage, writes block by block, syncs, answers, and the last
one publishes by a hard link. Connections are cut, answers lost, pages reopened,
stages swept, the file deleted, and `ServerDies` loses the blocks that were not
synced. `Shares` is how a link comes to be from library files: a page's
preparation, detached from its request and holding its session's one slot, and an
automation client's share under an operation id, against deletes and uploads
in the library, hung preparations, a revoked token and restarts.

### Events

The event chain of a tenant (an event is its position, its link the position of its
predecessor), recipient evidence and its purge, the paged export; the webhook
with its revisions and cursor, `Queue`, `ListDue`, `TakeNext`, `Answer`,
`Backoff`, `Replay`, `SaveHook`, `RestartWorker`; and notification
destinations, whose sends (`SendNotification`, `NotificationEnds`) may outlive the
settings they were resolved with. Signatures and hashes are data.

### Credentials and Routes

`Credentials` is one trade route's two ends: enrolment from an invitation,
refresh, rotation and the permission state, as calls whose every store access
and every exchange is a step; `LoseCall` loses a request or a reply and
`SenderDies` all of them. `Serial` says whether the port makes one call at a time.
The history `dropped` says that a refresh took away a pending credential that it had
not made the current one, the step of the run `trade_rotation`.
`Routes` is a delivery over such a route: the exporter with its binding and
receipt, the receiver's sessions, which may outlive the attempt that opened
them, and the control worker that carries a withdrawal. Endpoints, changes of
address and relayed ancestry are not modelled.

### Retention and Restore

`Retention` is the received files of a link with the tables that name them,
an archive of those tables, the hold's marker outside the database and the
retention clock with its anchor. The daily sweep is `SweepRead`, `SweepCheck`,
`SweepPin`, `Tombstone`, `Remove`, with everything else possible in between: new
uploads, grants, workflows, deletions of files, records, the link and its tenant, holds and releases
(marker and flag are separate durable steps), a wall clock that is slow, set back (`SetBack`, by at most
`MaxBehind`) and corrected (`StepClock`), reboots, backups and restores. A link may be made after
the archive (`CreateLink`): a restore then takes its row away (`rows`), and `DeleteTenant` finds no
link that forbids it. The history `backdated` has the records stamped while the wall
clock was behind the retention clock (`Ceiling`).

`Restore` replaces the data directory. A file is known by its origin: 0 is the
port's own data, `n` the archive staged as number `n`. Staging
(`BeginExtract`, `Extract`, `MarkPending`), the standby (`StandbySweep`,
`DiscardStage`, `DiscardMarker`) and the boot (`ReadMarker`, `ChooseRollback`, `MoveOld`,
`OldMoved`, `InstallNew`, `NewInstalled`, `PrepareDatabase`, `RotateSecret`,
`ClearStage`, `RemoveMarker`, `SyncRemoval`, `OpenStore`) move one file per
step; `Crash` may fall between any two, and `PowerLoss` also undoes any
renames not yet synced and may show either version of the marker. Writing
archives, their upload and pruning are not modelled.

### Accounts

Who may act on a port: the provider's client slot, sign-ins over SSO with their
store reads and writes as separate steps, desktop handoffs, the local password,
provisioning by SCIM (create, revoke, unblock, purge), the group, one tenant with
an incarnation for each creation, automation tokens, and cookies, of which the
port remembers nothing: a cookie is a record of what was signed, and whether it
is good is decided from the rows when a visit uses it. A visit goes through its
handler's steps, so everything may be revoked in the middle of it. A topic chooses the
features a behaviour has.

### Sender and Fetch

`Sender` is the sending client: watch folders whose settled drops are handed
out, the single flight of a drop through a lock file that both processes open
(`SingleFlight`, `LockFlight`, `Recheck`, `Prune`), the journal from which a cut
send is resumed, and the HTTP session (`Prepare` to `Finish`, `Park`). A drop is its path and
the version of its content. Processes are killed, sessions expire, drops are
rewritten, watches removed.

`Fetch` is the taking client: a fetch ticket with its sidecar and stage or HTTP
(`Plan`, `Reach`, `Mint`, `SaveCapability`, `Transport`, `RemoveStage`,
`RemoveCapability`), and the landing of a verified file through a journal
(`OpenJournal` to `RemoveIdentity`). A file is a node that paths name and handles
hold; its bytes are blocks, each the delivery it belongs to, so that bytes of
another delivery under a name are seen. `PowerLost` leaves of each node what was
synced; users move and clear files.

## 3. Runs

Run a configuration with `tlc -config <cfg> <module>`. Deadlock is not checked:
a sender, an operator or a settled server may really do nothing for ever.

| Run | Module, configuration | Checks | What it asks |
|---|---|---|---|
| `sessions_admission` | `MCUpload`, `SessionsAdmission.cfg` | `TypeOK`, `SenderHolds`, `DeletionsAlone`, `AdmissionsBounded`, `NothingAfterCheckpoint` | Two creations race for quota and slots, and race deletions, outbound operations, cancellations, the sweep and shutdown; or race the sessions that publish, are recorded, end and are swept while the usage is read. Two runners of the client ship, send, resume and forget one drop while it is rewritten and processes die. |
| `sessions_finish` | `MCSessions`, `SessionsFinish.cfg` | `LeasesCounted`, `ShutdownSettles`, `OrphanWorkerEnds` | Two finishes, a command and an abort race the worker, the sweep, a link deletion and shutdown on one session. |
| `jobs` | `MCDelivery`, `Jobs.cfg` | `TypeOK`, `NothingUnapproved`, `TenantCapHolds`, `OneDeliveryPerUpload`, `SnapshotsAccounted`, `FetchHolds`, `AccountsHold` | Two deliveries, two loops, a restart and a policy that changes. Two takers of two deliveries for one path, with crashes, power loss and a leftover journal. Sign-ins, revocations, purges and tokens against requests with old cookies. |
| `jobs_live` | `MCLive`, `JobsLive.cfg` | `ReadyIsDelivered`, `NoStrandedJob`, `OwnershipHolds`, `WithdrawnIsFinal`, `JobsSettle`, `OwnershipReturns` | One delivery to two destinations through restarts, restores and withdrawn authorizations. Two ports that open, renew, lose and reopen one receiving storage. |
| `outbound` | `MCOutbound`, `Outbound.cfg` | `WithdrawnStops`, `DownloadLimitHolds`, `PushHolds`, `LibraryHolds`, `SharesHold` | A grant of two files under two requests of two holders through rotation, holds, revocation, expiry and a restart; a push of two files; two pages uploading to one library path; two requests that make a link. |
| `port` | `MCPort`, `Port.cfg` | `TypeOK`, `EventsHold`, `CredentialsHold`, `DeliveredOnce`, `RoutesHold`, `UploadCompletes`, `PortSettles` | What a port does by itself under fair workers: an upload through two restarts, webhooks and notifications under changing settings, lost rotation replies, a delivery withdrawn while it is sent. |
| `stored` | `MCStored`, `Stored.cfg` | `PublishedIsWhole`, `Recoverable`, `NoOrphan`, `RetentionHolds`, `RestoreHolds`, `Delivers` | An upload with every fault, power loss included, on a link that closes, expires or is removed; received files under sweeps, deletions, holds and clocks that are set back; a data directory replaced through crashes at every step. |
| `sessions_finish_retry` | `MCSessions`, `SessionsFinishRetry.cfg` | `RetriedFinishNotDiscarded` (violated) | A finish is retried before the first is remembered. |
| `sessions_orphan` | `MCSessions`, `SessionsOrphan.cfg` | `PublishedFileNamed` (violated) | A link is deleted between the sweep of its session and the end of the worker. |
| `receive_load` | `MCReceive`, `ReceiveLoad.cfg` | `Recoverable` (violated) | The boot cannot load the session rows. |
| `receive_expired` | `MCReceive`, `ReceiveExpired.cfg` | `NoOrphanOnLink` (violated) | The link expires while the server is down. |
| `trade_rotation` | `Credentials`, `TradeRotation.cfg` | `CredentialRecoverable` (violated) | A refresh overlaps two rotations. |

What the less obvious properties say:

* `DeletionsAlone`: while a purge of a tenant or a link runs, none of its
  sessions is registered, and a registered session's link exists.
  `AdmissionsBounded`: reservations stay within the quota; what a tenant holds, with
  its records and published files, exceeds the quota at an admission at most by
  uploads that began or were recorded after the usage was read and have left the registry; the
  slot counters are exact.
* `SenderHolds`: a drop has one runner in both processes; an upload under way
  keeps its entry and its session; only what was delivered is moved to shipped.
* `FetchHolds`: a published file has the announced bytes and keeps them, a
  journal's prefix is resumed only for its own delivery, and what a delivered
  ticket paid for is there until it has landed.
* `AccountsHold`: a revocation ends every cookie of its principal, whatever it was reissued as,
  and every token that exists by then; a token that a request already under way inserts
  afterwards stays valid (`MintedLate`), until the next revocation. A request acts in the
  tenant it was granted, the provider slot is never left discovering.
* `OwnershipHolds`: a port whose workers may write owns the lock in the visible
  folder to the end of its process, unless it was taken since the last renewal that passed began.
  Excepted are the stopped workers of an opening that failed (`Leftover`): they are without the
  lock, although `docs/deployment.md` says that it is held until the process exits.
* `WithdrawnStops`: once a revocation, rotation or hold has been answered, no
  stream of that link key passes its gate again; a batch poll that is past its gate still hands its
  frame out. `DownloadLimitHolds`: only whole
  deliveries count, and downloads with the tickets issued fit the limit.
* `PushHolds`: every file of a full uncommitted row is on disk while the link may
  be used, the journal outlives the rows that need it, commit markers are true, and
  a push is announced once with every file.
* `LibraryHolds`: what is published has every block that was acknowledged; one request
  has a stage at a time; a replayed chunk is not told of a conflict with its own file.
  `SharesHold`: no live link names a deleted file, a listed preparation has
  its session's slot, an operation makes one link.
* `RetentionHolds`: what was stored when a hold was answered stays stored
  through restores; nothing granted, used or too young is taken. Two cases are excepted, because the code
  does otherwise: held files of a link whose row a restore took away go with their tenant
  (`delete_tenant`, `server/src/api/admin.rs:1454`; the comment at `server/src/app.rs:1234` says that a hold stays enforced until it
  is released), and a record stamped while the wall clock was set back may go early, or while
  a workflow uses its file, once the clock is corrected (`docs/deployment.md:860` says that a forward correction cannot
  age stored data). With either exception taken out, the run finds a counterexample.
  `RestoreHolds`: the port serves one whole origin, and at any other moment the
  directory is whole or the next boot can finish.
* `EventsHold`: no event is skipped by the queue, only what was answered with
  success is called delivered, superseded attempts stay so, an outcome is that of the
  current settings, and an attempt does not go past its limit of tries.
  `CredentialsHold`: the credential the receiver expects is on the sender's disk, as
  current or as pending, or in a reply being written, as long as calls do not overlap (the theorem has no such
  condition). `DeliveredOnce`: the receiver joins one
  upload to a delivery, and the sender calls it delivered only under its receipt.
  `RoutesHold`: no bytes go out before the binding is stored, and an acknowledged withdrawal
  is final at the receiver. The types of each component are conjuncts of these.

Bounds and why they are enough:

* Model values are shared between the foci of an instance (`s1`, `s2` are
  sessions and journal entries in `sessions_admission`; `j1`, `j2` jobs, deliveries and
  visits and `w1`, `w2` loops, takers and sign-ins in `jobs`; `r1`, `r2` requests, pushes, pages and
  calls and `f1`, `f2` files in `outbound`), so that one permutation serves all. What only says how another focus begins is
  fixed in the initial states.
* `Sessions`: in `sessions_admission` the port is followed twice, once with administrators and a shutdown
  and no commands, once with commands, finishes, workers and the sweep and no administrators but for the closing of a
  link: what moves usage from the registry to rows and records is in the second. Two ids are the least for a race between two admissions; one link and
  one named tenant that both share make every pin, slot and quota
  conflict; sizes 1 and 2 under a quota of 2 make the admission that fits and
  the one that does not. The finish run has one session with two attempts, one
  command and one abort, as leases of different sessions do not meet; a
  remembered answer is lost by expiry there, which to a later finish is the same
  as eviction at `FinishedCap`.
* `Sender`: two runners in one or two processes, one path of two versions, two entries
  and two sessions; budgets of one call and one kill, or two calls.
* `Receive`: a file of two ranges has partial prefixes, one of a single range
  completes in one step, one delivered earlier is published at begin, an empty
  one is published without a range. Two restarts give a crash of the recovery
  itself. Every fault is possible at each of its places any number of times.
* `Jobs`: two jobs share one slot of the tenant cap, one unit of snapshot budget
  and one package; two revisions go from a policy without approval to one with
  it, and, in the second run, the other way; three attempts pass the retry limit
  of two and one explicit retry; three processes give a takeover of a
  taken-over job.
* `Fetch`: two takers, two deliveries on one path, two blocks, two receives and two
  mishaps, over eight nodes; behaviours start with a leftover journal of either delivery's bytes. `Accounts`:
  one subject; seven topics, each with up to two sign-ins or visits, two revocations,
  incarnations, passwords and tokens, and a token cap of one. `Ownership`: two ports, two storage faults.
* `Grants`: three profiles: all HTTP routes through a rotation and a revocation without restart; fetches
  through a revocation; batch and fetch through a restart. Rotation with live
  tickets is beyond these and is covered by the theorem. `Push`: two pushes of two
  entries, one boot, and every fault but `persist` (section 5); three
  pushes of one entry were checked once as well (119,882 states). `Library`: uploads of three
  blocks in chunks of two, two faults, pages that share an upload, or power loss.
  `Shares`: two calls, two files, one permit, three events in the library or of the
  token (three calls were checked once, 7.2 million states).
* `Events`: two events, two revisions of hook and destination, two tries, one
  replay, one restart, a batch of one. `Credentials`: one call at a time, three
  credentials, two losses. `Routes`: two sessions, two tries.
* `Retention`: six scopes pair what can meet (hold and restore, clock and
  restore, clock and workflows, grants with workflows and shares, hold and shared files, grants and restore) with one or two
  uploads and up to four ticks; the wall clock is at most one behind, which a retention of one day
  makes a whole window. `Restore`: two stages, two outages, a required and an optional member
  beside the database, its log and the session secret.
* Symmetry is used in `sessions_admission`, `jobs`, `outbound` and `stored`,
  which check no liveness (`Delivers` is a refinement, a property of steps).

Fairness. In `Sessions`, handlers and workers run to completion because they wait
only for the worker, which answers or drops the reply, and for the store;
clients, administrators and the clock promise nothing. In `Receive`, the worker
and the boot wait for nobody; `UploadCompletes` assumes a patient sender that
resends what is missing (weak fairness on each range, on the re-sent begin and on
finish) and an operator who starts a stopped server again. A finish whose record
cannot be written leaves the worker where it was, and the sender repeats it. In
`Jobs`, claim loops poll every two seconds and never abandon an attempt, and time
passes; operators promise nothing. In `Events`, the worker loops, sends end
within their timeout and the retry delay passes. In `Credentials`, a call under
way goes on and the monitoring worker refreshes again (strongly, since other calls may be in its way); losses
are finite by their bound. In `Routes`, the control worker polls, and of the
exchanges it repeats for ever one gets through (strong fairness of the receiver's
step). In `Ownership`, processes run, a mount that went away returns, and a
recovery that is tried again and again succeeds in the end. `PortSpec`
conjoins the fairness of its components: no fair action of a component out of
focus is enabled initially, so it asks nothing there. `LiveSpec` makes the
ownership's fairness conditional on the focus.

### Findings

Five runs state what a comment of the repository says, and TLC shows a behaviour of
the code that does otherwise. The quotations are in `PROJECT.json`.

* `RetriedFinishNotDiscarded` (`server/src/api/upload.rs:1321`): between the
  worker's commit and `remember_finished`, a retried finish finds the worker
  gone and is answered 410, although its upload is committed.
* `PublishedFileNamed` (`server/src/api/admin.rs:4269`): the sweep removes a
  session from the registry, and its worker ends later. A link deleted in
  between passes `active_for_link`; the worker's partial record then has no link
  to belong to, and the published file has no record.
* `Recoverable` (`server/src/app.rs:1612`): when the session rows cannot be
  loaded, the boot goes on with an empty list, and the staging sweep removes the
  files of suspended uploads.
* `NoOrphanOnLink` (`server/src/app.rs:1722`): a file published after the last
  paced checkpoint is not marked in the row. When the link expires before the
  next boot, the refusal records only the marked files, and this one has no record.
* `CredentialRecoverable` (`server/src/api/trade.rs:678`): a refresh that
  overlaps two rotations deletes the pending credential of the second; if that
  rotation's reply is lost too, only a new invitation revives the route.

## 4. Proofs

`tlapm <module>` checks them. Constants are assumed only to satisfy the named
`ASSUME` of their module: finite sets where cardinalities are taken, natural
numbers for limits, null values that are no members. The
model-checked bounds (`Max...`, numbers of actors, files, ports) are constants of
the theorems like any other. Each invariant below is inductive: it holds
initially, every action keeps it (one step per action, one per conjunct that
the action can disturb), and it implies the property the run checks. Each was
an invariant of a TLC run before it was proved.

| Theorem | Module | States |
|---|---|---|
| `TypeCorrect`, `DeletionExclusive`, `CountersExact`, `AdmissionBound`, `CheckpointFinal` | `UploadProofs` | `TypeOK`, `DeletionsAlone`, `LeasesCounted`, `AdmissionsBounded`, `NothingAfterCheckpoint` of `Sessions` |
| `SenderKept` | `UploadProofs` | `SenderHolds` |
| `TypeCorrect`, `NothingForeignPublished`, `AlwaysRecoverable`, `NothingOrphaned`, `Implements` | `ReceiveProofs` | `TypeOK`, `PublishedIsWhole`, `Recoverable`, `NoOrphan`, `Delivers` of `Receive` |
| `TypeCorrect`, `ApprovalHolds`, `ReadyDelivered`, `NoneStranded`, `OnePerUpload`, `CapHolds`, `WithdrawalFinal`, `SnapshotsKept` | `DeliveryProofs` | the safety of `Jobs` |
| `FetchKept` | `DeliveryProofs` | `FetchHolds` |
| `EventsHonest`, `CredentialKept`, `RoutesDeliverOnce`, `RoutesWithdraw`, `PushKept` | `PortProofs` | `EventsHold`, `dropped \/ CredentialsHold`, `DeliveredOnce`, `RoutesHold`, `PushHolds` |
| `LibraryKept`, `WithdrawalsStop`, `DownloadLimitKept`, `SharesKept` | `OutboundProofs` | `LibraryHolds`, `WithdrawnStops`, `DownloadLimitHolds`, `SharesHold` |
| `OwnershipKept`, `AccountsKept` | `AuthorityProofs` | `OwnershipHolds`, `AccountsHold` |
| `RetentionKept`, `RestoreKept` | `StoredProofs` | `RetentionHolds`, `RestoreHolds` |

Hypotheses beyond the constants' assumptions, each because the property is false
without it:

* `AlwaysRecoverable`: rows can be loaded and deleted; `NothingOrphaned`: the
  link neither expires nor is removed (runs `receive_load`, `receive_expired`).
* `PushKept`: `"persist" \notin PushFaults` (section 5).
* `LibraryKept`: power fails only where pages do not share an upload (section 5).

`CredentialKept` has no hypothesis: it holds for any calls that overlap, but names the step
after which it says nothing, a refresh that drops a pending credential (`dropped`). The run
`trade_rotation` shows that this step loses the route, so the two together say exactly how it is lost.

The arguments.

*Sessions.* `Inv == Types /\ PinInv /\ Quiet /\ LeasesCounted /\
AdmissionsCounted /\ NothingAfterCheckpoint /\ ReservedWithinQuota /\ UsageSeen`. `UsageSeen` says that
what a creation has read and what it may have missed (`late`) cover what the tenant
holds; with the sum of the reservations under the lock it gives `OvershootIsLate`. `PinInv` adds to the exclusion
properties that a running administrator's handler holds its pin and that a link's
tenant exists: without the first a second handler could drop the pin under the
first; without the second a confirmed session's tenant could vanish under its
link. `Quiet` says that a session that is not yet spawned has no command, finish
or abort; without it a refused creation could reset a counter that has leases
out. `Types` leaves `inFlight` an integer; that it is a natural number follows
from `LeasesCounted`, so the decrement never wraps. The reserved sum is a
fold over the registry; `SumsProofs` shows how such sums change with their set
and their summands. Its induction over finite sets is done by hand, by a smallest
counterexample, since the library's induction theorems take an operator.

*Sender.* `SenderInv`: the types; `FlightsSound` (what each stage of a runner has,
that a lock a runner holds is the file at the path or an unlinked one, one
flight per path); `ClaimsMutual` (a claim and its runner agree); `EntriesWritten`;
`SessionsApart` (no two entries share a live session); `UploadsSpared`;
`DropsHeld` (a drop that will be parked is what was fingerprinted or has changed).

*Receive.* `WholeInv`: an unpublished file is either marked for rehash or all
its covered ranges are good; this is what `PublishedIsWhole` needs after a power
loss. `DeliveryInv`: what each place of the worker knows of delivered files
(published in memory or preserved, named before a row is deleted); this gives the
refinement, every action mapped to a step of `Delivery` or a stutter.
`RecoveryInv`: evidence is dropped only after the row says so; this gives
`Recoverable`.

*Jobs.* `RowInv`: how the fields of a row fit together (an approval precedes
exporting under a policy that asks for one, destinations marked done have their
completion document). `SlotInv`: what a loop relies on between its last check and
its write. `OwnerInv`: owners are past or present processes, and everything the
present one runs has a loop on its current attempt. For `SnapshotsAccounted`,
`HeldInv` (who holds a reserved snapshot) and `BudgetInv` (the sum of those held).

*Fetch.* `FetchInv`: the types; `TakersSound` (what a receive at each place
has); `FolderHeld` (the journal, the identity, the destination and the kept nodes are
apart, an identity is synced when a path can show it, what a receive has hashed is what it wrote,
a landed node stays); `PrefixHeld` (a lock is on the node it was taken on and the journal is named by its
identity, unless the user cleared the folder); `StagesHeld`; `DeliveredIsKept`.

*Push.* `PushInv`: the ids in a row, a registration, a pass and a receive are of
pushes that hold the lock they need (`IdsHeld`, `LockHeld`); a full row's files are there
(`RowHeld`); the sweep's row is not coming back (`SweepHeld`); each rail and
the files agree (`EntryHeld`); a checkpoint under way does not write less than what is there
(`CheckHeld`); one rail commits (`CommitHeld`). The attempt to prove this found
a fault in the model: with three pushes, a sweep that had read an abandoned row
discarded the staging of a later push. The code compares the row's recorded
package stage before it discards, so the model now has `stagedBy`.

*Grants.* `GrantsInv`: the types; `GatesHeld` (a request that streams, between two polls or inside one, has a
token); `RequestsSound`; `Withdrawn` (an answered withdrawal left no uncancelled
token of its key); `RecordedFirst` (a counted request streamed whole files);
`Reserving` (the tickets that reserve, with those admitted, fit the limit).
*Library.* `StagesShaped`, `Acknowledged` (a page's offset is durable),
`PowerHeld`, `FromOffset`, `ShelfSettled`. *Shares.* that a preparation's generation
is that of its reading while the library is locked to it, the slot
and the operation's stripe.

*Events.* the cursor lies between the start and the chain's end and every event
between has its attempt; attempts of the worker's pass exist. *Credentials.*
`Chain`: credentials are minted in order and the sender's current one is not newer than the
receiver's; while nothing was dropped, the current one is the last minted, or the last but one
with the last one pending. `CallInv`: what an overlapping call has read is no newer than what
is current. *Routes.* `BeliefInv`: what the sender believes is behind
what the receiver recorded; `BindingInv`: no bytes before the binding, no
withdrawal without one.

*Ownership.* `GuardKept` (a guard is held in the states reached through the lock, until a failed opening drops it; a
port that exits is stopped),
`Undoubted` (a guard not in doubt owns), `RenewalsOpen`, `RenewalPassed` (what the
steps a renewal has passed tell of the loss that began before it).
*Accounts.* `VersionsHeld` (session versions only grow, past rows and tombstones),
`IdentitiesVouched` (an identity a handler holds was granted by rows that then
admitted it), `SubjectsNamed`, `TokensHeld`, `Tenancy`, `DiscoveryClaimed`.
*Retention.* `RetentionInv` ties hold markers, pins and tombstones to what each
step of the sweep and the operators read; `SweepSound` says that the
time a sweep works with exceeds the stamp of a record that is not `backdated` by at most its real age
and the day by which a clock may be fast. *Restore.* `RestoreInv`: `Numbered` and
`FillingFresh` (stages are new), `Sound` (the marker and what a power loss would show of it),
`Lingering`, `Undoable` (what a lost rename would bring back can be
moved again), `StepsAgree`.

Only model-checked is liveness: `ShutdownSettles`, `OrphanWorkerEnds`, `JobsSettle`,
`OwnershipReturns`, `UploadCompletes`, `PortSettles`. It needs
fairness, hence `ENABLED`, which the prover does not handle. Every invariant and
every action property of a passing run is stated by a theorem.

## 5. What is not modelled

Components without a module: the store's connections and the schema conversion
(one writer behind a mutex makes each call a transaction, which the models take
as a step; the conversion is a one-shot migration), the desktop shells and web
pages beyond the protocol of an upload, the protocol crate (types and limits),
configuration, logging and egress (parsing and I/O). Within the modelled
components the following is left out: catalogs, the root cache, prehashing, the staging of
batches, media checks, the password check of a link, receipts, writing and pruning archives,
the routing of notifications, throttles and rate limits, quotas other than the tenant's
bytes, listings and searches, the sending client's evidence outbox and port sessions.

Limits of the models and divergences met while reading, none of which a run states:

* Receive: the metadata check of a reopened staging file; `resume_worker`
  spawned before `insert_resumed` fails; a `complete.json` written for a job that is being cancelled
  (`server/src/api/outbound/workflows/storage.rs:1162`).
* Ownership: `OwnershipHolds` excepts the workers that a failed `resume_receiving` leaves without the lock
  (`docs/deployment.md` says that both locks remain held until the process exits).
  `check_current` sets `disqualified` without stopping, so a later takeover may be
  audited as `mount_disqualified`.
* Push: with `"persist"` in `PushFaults`, a failing `persist_push` drops the
  registration of a key whose row still names its staging, under a sweep that read the row
  before (`server/src/app.rs:3673`); the run and the theorem leave it out. Staging names are taken
  as fresh for each incarnation; entries of a parked push published meanwhile (`server/src/app.rs:3651`) are not modelled.
* Grants: HTTP downloads ignore the reservations of tickets, and a delivered
  ticket that is admitted again can meet another holder's mint
  (`server/src/store/outbound.rs:384`); counted leases are lost at a restart.
* Library: when two tabs share an upload id and power fails, a stage may have
  a length past blocks that were lost, and a `conflict` answer reports that length;
  hence the hypothesis of `LibraryKept`. After the publication the stage is a second name of
  the same inode, so a file moved out by hand and re-uploaded under the same id
  at once could be cut. Directory entries are taken as durable with the
  file's sync.
* Shares: `library_sources_match` compares lengths, so a file deleted and
  uploaded again with the same size leaves a link whose root no longer matches;
  downloads verify and refuse. A share whose grant was revoked still
  recovers its URL.
* Routes: a removed session's worker may, after a rebind, record a partial
  upload that is not joined to the route (`server/src/store/routes.rs:318`).
* Accounts: `AccountsHold` excepts a token inserted by a request already under way when its principal was
  revoked (`server/src/store.rs:3477`), which the code leaves valid; with provisioning required, a purge between check and
  upsert creates a row for an unprovisioned subject (`server/src/api/sso.rs:235`);
  concurrent rotations of the SCIM bearer read the old one outside the write
  (`server/src/api/admin.rs:3142`); a login verified before a change of password is signed under the
  new hash; of two concurrent changes the later wins.
* Sender: `park_if_unchanged` checks and renames in two calls, one step here;
  an entry that another process's listing holds for a moment is skipped by `forget_send_of`;
  the liveness of the watch loop is not stated; failures to write the journal are left out.
* Fetch: a crash between the mint and the sidecar's write loses the reserved
  ticket, and one between the removal of the stage and of the sidecar makes the next run fetch again.
  Without a device key a receive goes over HTTP even when a capability is
  saved (`client/core/src/receive.rs:133`), against the comment in `client/core/src/fetch.rs`
  that an admitted ticket cannot be bypassed. Names survive a power loss; the write and the sync of an
  identity are one step.
* Retention: what `RetentionHolds` excepts (section 3). A hold whose marker was
  written before a crash and whose flag was not cannot be set again (`server/src/app.rs:1278`); the marker's
  directory is not synced. A failing unlink after the tombstones leaves a
  payload that no row names (`server/src/app.rs:3556`). `expire_link_uploads` asks for the marker before it pins the link.
* Restore: a crash between the removal of the marker and the survey loses the
  audit entry; the survey runs only with a qualified mount and a tree that is not
  empty; a crash in `discard_staged_replica` between the stage and its marker
  makes a live boot refuse until a standby has run.

## 6. Plan

Done: the modules and theorems above. What is left, in the order of what it
would say:

1. `Catalogs`: the root cache, prehashing and the cuts of a grant's catalog,
   against library writes; the promise is that a served root is that of the bytes.
2. `Staging`: the staging of batches and its budget, with downloads that end early.
3. `Backups`: writing, upload and pruning of archives, that one complete archive always remains.
4. `Outbox`: the client's evidence outbox and port sessions; the routing of
   notifications; throttles.
5. `PushKept` without its hypothesis, should the error path of `persist_push` change.
