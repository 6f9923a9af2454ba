-------------------------------- MODULE Jobs --------------------------------
(***************************************************************************)
(* Delivery jobs: the delivery_jobs table (server/src/store/workflows.rs), *)
(* the claim loops that prepare and export them, the operators who approve,*)
(* cancel, retry or reprocess them, and the retirement of their snapshots  *)
(* (server/src/api/outbound/workflows.rs and workflows/storage.rs).        *)
(*                                                                         *)
(* Each store call is one transaction, so one step.  A worker is a chain   *)
(* of such steps and of file or network work; between two of them anything *)
(* else may happen.  A process that dies leaves its jobs running in the    *)
(* store; the next one, which the data lock keeps from starting earlier    *)
(* (app.rs, lock_data_dir), claims them under its own name.                *)
(***************************************************************************)
EXTENDS Integers, FiniteSets, FiniteSetsExt

CONSTANTS
  Jobs, NoJob,
  Uploads, NoUpload, \* completed receptions of a link with a workflow
  Destinations,      \* storage connections a project exports to
  Slots,             \* claim loops (WORKER_CONCURRENCY)
  MaxRevision,       \* bound: saves of the project
  Policy,            \* the policy saved at each revision
  ClaimCap,          \* jobs one process runs for one tenant (2)
  RetryLimit,        \* attempts before an explicit retry is needed (5)
  ActiveLimit,       \* active jobs of a tenant (1000)
  Sizes,             \* snapshot sizes
  Budget,            \* config.workflow_snapshot_bytes
  Revocable,         \* bound: jobs whose authorization may be withdrawn
  MaxAttempts,       \* bound: explicit retries stop at this attempt
  MaxBoots           \* bound: processes

ASSUME JobsAssumption ==
  /\ NoJob \notin Jobs /\ NoUpload \notin Uploads
  /\ IsFiniteSet(Jobs)
  /\ MaxRevision \in Nat \ {0}
  /\ Policy \in [1 .. MaxRevision ->
                   [approval : BOOLEAN, local : BOOLEAN, dests : SUBSET Destinations]]
  /\ {ClaimCap, RetryLimit, ActiveLimit, Budget, MaxAttempts, MaxBoots} \subseteq Nat
  /\ Sizes \subseteq Nat \ {0}

VARIABLES
  revision,   \* delivery_projects.revision
  state,      \* delivery_jobs.state, "none" before the row exists
  attempts, base, \* job.attempts and checks.retry_base
  owner,      \* delivery_jobs.owner: a process, 0 for ''
  due,        \* jobs whose not_before has passed
  rev,        \* job.project.revision
  origin,     \* job.received.upload_id
  manifest, approved, released, replaced, \* jobs with that field set
  done,       \* checks.destinations with state complete
  reserved,   \* checks.snapshot_bytes
  grant,      \* the outbound grant of the job
  authorized, \* jobs whose actor, routes and storage are still authorized
  frozen, inventory, \* jobs with a payload directory, and an inventory in it
  exports,    \* destinations holding the job's complete.json
  boot,       \* the process that holds the lease
  phase, task, try, leg, \* what each claim loop is doing
  retirer     \* the job retire_snapshot is working on

row     == <<state, attempts, base, owner, due, rev, origin, manifest, approved, released,
             replaced, done, reserved>>
disk    == <<frozen, inventory, exports>>
loops   == <<phase, task, try, leg>>
vars == <<revision, row, grant, authorized, disk, boot, loops, retirer>>

States == {"none", "queued", "preparing", "awaiting_approval", "exporting", "retrying", "ready",
           "failed", "cancelled", "retiring", "retired", "suspended"}
Active == {"queued", "preparing", "awaiting_approval", "exporting", "retrying"}
Pending == {"queued", "preparing", "exporting", "retrying"}
Running(j) == state[j] \in {"preparing", "exporting"}
Withdrawn == {"cancelled", "retiring", "retired", "suspended"}
PolicyOf(j) == Policy[rev[j]]
Received(j) == origin[j] # NoUpload
Busy(s) == phase[s] # "idle"
ActiveJobs == {j \in Jobs : state[j] \in Active}
\* retry_attempts, a saturating difference
RetryAttempts(j) == IF attempts[j] > base[j] THEN attempts[j] - base[j] ELSE 0
\* Job::released and delivery_access_in
Released(j) ==
  \/ state[j] = "ready"
  \/ j \in released /\ state[j] \in {"exporting", "retrying", "failed"}
Accessible(j) == grant[j] = "active" /\ Released(j) /\ rev[j] = revision

Set(f, j, v) == [f EXCEPT ![j] = v]
NoLegs == [d \in Destinations |-> "none"]

Init ==
  /\ revision = 1
  /\ state = [j \in Jobs |-> "none"]
  /\ attempts = [j \in Jobs |-> 0] /\ base = [j \in Jobs |-> 0]
  /\ owner = [j \in Jobs |-> 0] /\ due = {} /\ rev = [j \in Jobs |-> 1]
  /\ origin = [j \in Jobs |-> NoUpload]
  /\ manifest = {} /\ approved = {} /\ released = {} /\ replaced = {}
  /\ done = [j \in Jobs |-> {}] /\ reserved = [j \in Jobs |-> 0]
  /\ grant = [j \in Jobs |-> "none"] /\ authorized = Jobs
  /\ frozen = {} /\ inventory = {} /\ exports = [j \in Jobs |-> {}]
  /\ boot = 1
  /\ phase = [s \in Slots |-> "idle"] /\ task = [s \in Slots |-> NoJob]
  /\ try = [s \in Slots |-> 0]
  /\ leg = [s \in Slots |-> NoLegs]
  /\ retirer = NoJob

-----------------------------------------------------------------------------
(* Submission.                                                             *)

\* enqueue_delivery_job for a fresh operation id; a repeated one returns the
\* row it finds.  The project must be the current one.
EnqueueJob(j) ==
  /\ state[j] = "none" /\ j \in authorized
  /\ Cardinality(ActiveJobs) < ActiveLimit
  /\ state' = Set(state, j, "queued") /\ rev' = Set(rev, j, revision)
  /\ due' \in {due, due \cup {j}}
  /\ UNCHANGED <<revision, attempts, base, owner, origin, manifest, approved, released,
                 replaced, done, reserved, grant, authorized, disk, boot, loops, retirer>>

\* queue_received, in the transaction that records the upload: once per
\* upload, as failed when the project refuses it or the tenant is at its limit.
QueueReceived(u, j) ==
  /\ state[j] = "none" /\ \A k \in Jobs : origin[k] # u
  /\ \/ Cardinality(ActiveJobs) < ActiveLimit /\ state' = Set(state, j, "queued")
     \/ state' = Set(state, j, "failed")
  /\ rev' = Set(rev, j, revision) /\ origin' = Set(origin, j, u)
  /\ due' = due \cup {j}
  /\ UNCHANGED <<revision, attempts, base, owner, manifest, approved, released,
                 replaced, done, reserved, grant, authorized, disk, boot, loops, retirer>>

TimePasses(j) ==
  /\ state[j] \in {"queued", "retrying"} /\ j \notin due
  /\ due' = due \cup {j}
  /\ UNCHANGED <<revision, state, attempts, base, owner, rev, origin, manifest, approved,
                 released, replaced, done, reserved, grant, authorized, disk, boot, loops, retirer>>

-----------------------------------------------------------------------------
(* The claim loops.                                                        *)

\* Mutant: a job that another process left running is not taken over.
ClaimableOwn(j) == state[j] \in {"queued", "retrying"} /\ j \in due

Claimable(j) ==
  \/ state[j] \in {"queued", "retrying"} /\ j \in due
  \/ Running(j) /\ owner[j] # boot
\* Mutant: the cap is off by one.
TenantRoomInclusive(j) == Cardinality({k \in Jobs \ {j} : owner[k] = boot /\ Running(k)}) <= ClaimCap

TenantRoom(j) == Cardinality({k \in Jobs \ {j} : owner[k] = boot /\ Running(k)}) < ClaimCap

\* Mutant: a claim reads the project again.
ClaimAdopts(s, j) ==
  /\ ~Busy(s) /\ Claimable(j) /\ TenantRoom(j)
  /\ attempts' = Set(attempts, j, attempts[j] + 1)
  /\ owner' = Set(owner, j, boot) /\ rev' = Set(rev, j, revision)
  /\ IF attempts[j] + 1 > base[j] + RetryLimit
       THEN state' = Set(state, j, "failed") /\ UNCHANGED loops
       ELSE /\ state' = Set(state, j, IF j \in manifest THEN "exporting" ELSE "preparing")
            /\ phase' = Set(phase, s, IF j \in manifest THEN "export" ELSE "prepare")
            /\ task' = Set(task, s, j) /\ try' = Set(try, s, attempts[j] + 1)
            /\ leg' = Set(leg, s, [d \in Destinations |->
                 IF j \in manifest /\ d \in PolicyOf(j).dests \ done[j] THEN "pending" ELSE "none"])
  /\ UNCHANGED <<revision, base, due, origin, manifest, approved, released, replaced, done,
                 reserved, grant, authorized, disk, boot, retirer>>

\* claim_delivery_job by a loop of the process that holds the lease.
Claim(s, j) ==
  /\ ~Busy(s) /\ Claimable(j) /\ TenantRoom(j)
  /\ attempts' = Set(attempts, j, attempts[j] + 1)
  /\ owner' = Set(owner, j, boot)
  /\ IF attempts[j] + 1 > base[j] + RetryLimit
       THEN state' = Set(state, j, "failed") /\ UNCHANGED loops
       ELSE /\ state' = Set(state, j, IF j \in manifest THEN "exporting" ELSE "preparing")
            /\ phase' = Set(phase, s, IF j \in manifest THEN "export" ELSE "prepare")
            /\ task' = Set(task, s, j) /\ try' = Set(try, s, attempts[j] + 1)
            /\ leg' = Set(leg, s, [d \in Destinations |->
                 IF j \in manifest /\ d \in PolicyOf(j).dests \ done[j] THEN "pending" ELSE "none"])
  /\ UNCHANGED <<revision, base, due, rev, origin, manifest, approved, released, replaced, done,
                 reserved, grant, authorized, disk, boot, retirer>>

Goto(s, p) == phase' = Set(phase, s, p) /\ UNCHANGED <<task, try, leg>>
FreeSlot(s) ==
  /\ phase' = Set(phase, s, "idle") /\ task' = Set(task, s, NoJob) /\ try' = Set(try, s, 0)
  /\ leg' = Set(leg, s, NoLegs)

\* The attempt of loop s is still the job's current one.
Current(s) == attempts[task[s]] = try[s]

\* reserve_delivery_snapshot: the other reservations of the tenant and this
\* one fit the budget.
OtherBytes(j) ==
  MapThenSumSet(LAMBDA k : reserved[k], {k \in Jobs \ {j} : state[k] # "suspended"})
Reserve(s, bytes) ==
  LET j == task[s] IN
  /\ phase[s] = "prepare" /\ ~Received(j) /\ j \notin inventory
  /\ state[j] = "preparing" /\ Current(s)
  /\ OtherBytes(j) + bytes <= Budget
  /\ reserved' = Set(reserved, j, bytes)
  /\ Goto(s, "copy")
  /\ UNCHANGED <<revision, state, attempts, base, owner, due, rev, origin, manifest, approved,
                 released, replaced, done, grant, authorized, disk, boot, retirer>>

\* freeze_files: the old payload is removed, the new one is copied, and
\* publish_inventory makes it whole.
FreezeFiles(s) ==
  /\ phase[s] = "copy"
  /\ frozen' = frozen \cup {task[s]}
  /\ Goto(s, "copied")
  /\ UNCHANGED <<revision, row, grant, authorized, inventory, exports, boot, retirer>>
PublishInventory(s) ==
  /\ phase[s] = "copied"
  /\ inventory' = inventory \cup {task[s]}
  /\ Goto(s, "frozen")
  /\ UNCHANGED <<revision, row, grant, authorized, frozen, exports, boot, retirer>>
\* A saved inventory is reused; received files need no snapshot.
FilesAtHand(s) ==
  /\ phase[s] = "prepare"
  /\ Received(task[s]) \/ task[s] \in inventory
  /\ Goto(s, "frozen")
  /\ UNCHANGED <<revision, row, grant, authorized, disk, boot, retirer>>

\* Policy, source, sequence, media, budget or hashing refused, or I/O failed.
PrepareFails(s) ==
  /\ phase[s] \in {"prepare", "copy", "copied", "frozen"}
  /\ Goto(s, "fail")
  /\ UNCHANGED <<revision, row, grant, authorized, disk, boot, retirer>>

\* finish_job, in the transaction that inserts the grant.
FinishJob(s) ==
  LET j == task[s]
      policy == PolicyOf(j)
      next == IF policy.approval THEN "awaiting_approval"
              ELSE IF policy.dests # {} THEN "exporting" ELSE "ready"
  IN
  /\ phase[s] = "frozen"
  /\ state[j] = "preparing" /\ Current(s) /\ rev[j] = revision /\ j \in authorized
  /\ manifest' = manifest \cup {j} /\ grant' = Set(grant, j, "active")
  /\ state' = Set(state, j, next)
  /\ released' = IF ~policy.approval /\ policy.local THEN released \cup {j} ELSE released
  /\ owner' = IF next = "exporting" THEN Set(owner, j, 0) ELSE owner
  /\ FreeSlot(s)
  /\ UNCHANGED <<revision, attempts, base, due, rev, origin, approved, replaced, done, reserved,
                 authorized, disk, boot, retirer>>

\* export_in: what every authorization check of an export looks at.
ExportAuthorized(s) ==
  LET j == task[s] IN
  /\ state[j] = "exporting" /\ Current(s) /\ rev[j] = revision
  /\ Policy[revision].approval => j \in approved
  /\ grant[j] = "active" /\ j \in authorized

SetLeg(s, d, v) == leg' = [leg EXCEPT ![s][d] = v] /\ UNCHANGED <<phase, task, try>>

\* require_delivery_destination, last asked before complete.json is written.
LegCleared(s, d) ==
  /\ phase[s] = "export" /\ leg[s][d] = "pending" /\ ExportAuthorized(s)
  /\ SetLeg(s, d, "cleared")
  /\ UNCHANGED <<revision, row, grant, authorized, disk, boot, retirer>>
LegWritten(s, d) ==
  /\ phase[s] = "export" /\ leg[s][d] = "cleared"
  /\ exports' = Set(exports, task[s], exports[task[s]] \cup {d})
  /\ SetLeg(s, d, "written")
  /\ UNCHANGED <<revision, row, grant, authorized, frozen, inventory, boot, retirer>>
\* Mutant: the first destination completes the delivery.
LegCompletedAny(s, d) ==
  LET j == task[s] IN
  /\ phase[s] = "export" /\ leg[s][d] = "written" /\ ExportAuthorized(s)
  /\ done' = Set(done, j, done[j] \cup {d})
  /\ state' = Set(state, j, "ready")
  /\ SetLeg(s, d, "none")
  /\ UNCHANGED <<revision, attempts, base, owner, due, rev, origin, manifest, approved, released,
                 replaced, reserved, grant, authorized, disk, boot, retirer>>

\* complete_delivery_export
LegCompleted(s, d) ==
  LET j == task[s] IN
  /\ phase[s] = "export" /\ leg[s][d] = "written" /\ ExportAuthorized(s)
  /\ done' = Set(done, j, done[j] \cup {d})
  /\ state' = IF PolicyOf(j).dests \subseteq done'[j] THEN Set(state, j, "ready") ELSE state
  /\ SetLeg(s, d, "none")
  /\ UNCHANGED <<revision, attempts, base, owner, due, rev, origin, manifest, approved, released,
                 replaced, reserved, grant, authorized, disk, boot, retirer>>
\* A check refused or the transfer failed; fail_delivery_destination notes it.
LegFails(s, d) ==
  /\ phase[s] = "export" /\ leg[s][d] \in {"pending", "cleared", "written"}
  /\ SetLeg(s, d, "failed")
  /\ UNCHANGED <<revision, row, grant, authorized, disk, boot, retirer>>

\* export drains its legs; one failed leg fails the attempt.
ExportEnds(s) ==
  /\ phase[s] = "export"
  /\ \A d \in Destinations : leg[s][d] \in {"none", "failed"}
  /\ IF \E d \in Destinations : leg[s][d] = "failed" THEN Goto(s, "fail") ELSE FreeSlot(s)
  /\ UNCHANGED <<revision, row, grant, authorized, disk, boot, retirer>>

\* Mutant: the failure is not fenced by the state.
FailJobAnyState(s) ==
  LET j == task[s]
      again == state[j] = "exporting" /\ RetryAttempts(j) < RetryLimit
  IN
  /\ phase[s] = "fail"
  /\ IF Current(s)
       THEN /\ state' = Set(state, j, IF again THEN "retrying" ELSE "failed")
            /\ due' = IF again THEN due \ {j} ELSE due
       ELSE UNCHANGED <<state, due>>
  /\ FreeSlot(s)
  /\ UNCHANGED <<revision, attempts, base, owner, rev, origin, manifest, approved, released,
                 replaced, done, reserved, grant, authorized, disk, boot, retirer>>

\* fail_delivery_job, fenced by state and attempt.
FailJob(s) ==
  LET j == task[s]
      again == state[j] = "exporting" /\ RetryAttempts(j) < RetryLimit
  IN
  /\ phase[s] = "fail"
  /\ IF Running(j) /\ Current(s)
       THEN /\ state' = Set(state, j, IF again THEN "retrying" ELSE "failed")
            /\ due' = IF again THEN due \ {j} ELSE due
       ELSE UNCHANGED <<state, due>>
  /\ FreeSlot(s)
  /\ UNCHANGED <<revision, attempts, base, owner, rev, origin, manifest, approved, released,
                 replaced, done, reserved, grant, authorized, disk, boot, retirer>>

-----------------------------------------------------------------------------
(* Operators: change_delivery_job, reprocess_received_job, the route        *)
(* revocation, the project, and what withdraws a grant or an authorization. *)

\* Mutant: an approved job is left to the process that prepared it.
ApproveKeepsOwner(j) ==
  /\ state[j] = "awaiting_approval" /\ rev[j] = revision /\ j \in authorized
  /\ approved' = approved \cup {j}
  /\ released' = IF PolicyOf(j).local THEN released \cup {j} ELSE released
  /\ state' = Set(state, j, IF PolicyOf(j).dests # {} THEN "exporting" ELSE "ready")
  /\ UNCHANGED <<revision, attempts, base, owner, due, rev, origin, manifest, replaced, done, reserved,
                 grant, authorized, disk, boot, loops, retirer>>

Approve(j) ==
  /\ state[j] = "awaiting_approval" /\ rev[j] = revision /\ j \in authorized
  /\ approved' = approved \cup {j}
  /\ released' = IF PolicyOf(j).local THEN released \cup {j} ELSE released
  /\ state' = Set(state, j, IF PolicyOf(j).dests # {} THEN "exporting" ELSE "ready")
  /\ owner' = Set(owner, j, 0)
  /\ UNCHANGED <<revision, attempts, base, due, rev, origin, manifest, replaced, done, reserved,
                 grant, authorized, disk, boot, loops, retirer>>

Cancel(j) ==
  /\ state[j] \notin Withdrawn \cup {"none"}
  /\ state' = Set(state, j, "cancelled") /\ owner' = Set(owner, j, 0)
  /\ UNCHANGED <<revision, attempts, base, due, rev, origin, manifest, approved, released,
                 replaced, done, reserved, grant, authorized, disk, boot, loops, retirer>>

\* Mutant: an explicit retry gives an attempt back.
RetryRefunds(j) ==
  LET fresh == Received(j) /\ j \notin manifest IN
  /\ state[j] \in {"failed", "retrying"} /\ attempts[j] < MaxAttempts
  /\ fresh \/ rev[j] = revision
  /\ j \in authorized
  /\ rev' = IF fresh THEN Set(rev, j, revision) ELSE rev
  /\ reserved' = IF fresh THEN Set(reserved, j, 0) ELSE reserved
  /\ attempts' = Set(attempts, j, attempts[j] - 1) /\ UNCHANGED base
  /\ state' = Set(state, j, IF j \in manifest THEN "exporting" ELSE "queued")
  /\ owner' = Set(owner, j, 0)
  /\ UNCHANGED <<revision, due, origin, manifest, approved, released, replaced, done, grant,
                 authorized, disk, boot, loops, retirer>>

\* An incoming delivery that was never prepared adopts the current policy
\* and fresh checks; any other keeps the policy it was prepared under.
Retry(j) ==
  LET fresh == Received(j) /\ j \notin manifest IN
  /\ state[j] \in {"failed", "retrying"} /\ attempts[j] < MaxAttempts
  /\ fresh \/ rev[j] = revision
  /\ j \in authorized
  /\ rev' = IF fresh THEN Set(rev, j, revision) ELSE rev
  /\ reserved' = IF fresh THEN Set(reserved, j, 0) ELSE reserved
  /\ attempts' = Set(attempts, j, attempts[j] + 1) /\ base' = Set(base, j, attempts[j] + 1)
  /\ state' = Set(state, j, IF j \in manifest THEN "exporting" ELSE "queued")
  /\ owner' = Set(owner, j, 0)
  /\ UNCHANGED <<revision, due, origin, manifest, approved, released, replaced, done, grant,
                 authorized, disk, boot, loops, retirer>>

\* Mutant: a failed original is not cancelled.
ReprocessKeepsFailed(j, k) ==
  /\ state[k] = "none" /\ Received(j) /\ j \in manifest /\ j \notin replaced
  /\ state[j] \in {"failed", "retrying", "awaiting_approval", "ready"}
  /\ rev[j] # revision /\ k \in authorized
  /\ Cardinality(ActiveJobs \ {j}) < ActiveLimit
  /\ state' = [state EXCEPT ![j] = IF @ = "failed" THEN @ ELSE "cancelled", ![k] = "queued"]
  /\ owner' = Set(owner, j, 0) /\ replaced' = replaced \cup {j}
  /\ grant' = Set(grant, j, "dead")
  /\ rev' = Set(rev, k, revision) /\ origin' = Set(origin, k, origin[j])
  /\ due' = due \cup {k}
  /\ UNCHANGED <<revision, attempts, base, manifest, approved, released, done, reserved,
                 authorized, disk, boot, loops, retirer>>

\* The original is cancelled, its link revoked, and k replaces it.
Reprocess(j, k) ==
  /\ state[k] = "none" /\ Received(j) /\ j \in manifest /\ j \notin replaced
  /\ state[j] \in {"failed", "retrying", "awaiting_approval", "ready"}
  /\ rev[j] # revision /\ k \in authorized
  /\ Cardinality(ActiveJobs \ {j}) < ActiveLimit
  /\ state' = [state EXCEPT ![j] = "cancelled", ![k] = "queued"]
  /\ owner' = Set(owner, j, 0) /\ replaced' = replaced \cup {j}
  /\ grant' = Set(grant, j, "dead")
  /\ rev' = Set(rev, k, revision) /\ origin' = Set(origin, k, origin[j])
  /\ due' = due \cup {k}
  /\ UNCHANGED <<revision, attempts, base, manifest, approved, released, done, reserved,
                 authorized, disk, boot, loops, retirer>>

\* revoke_inbound_route: the sending port revokes what it sent.
RevokeRoute(u) ==
  /\ \E j \in Jobs : origin[j] = u
  /\ state' = [j \in Jobs |->
       IF origin[j] = u /\ state[j] \notin {"retiring", "retired", "suspended"}
         THEN "cancelled" ELSE state[j]]
  /\ grant' = [j \in Jobs |->
       IF origin[j] = u /\ grant[j] = "active" THEN "dead" ELSE grant[j]]
  /\ UNCHANGED <<revision, attempts, base, owner, due, rev, origin, manifest, approved, released,
                 replaced, done, reserved, authorized, disk, boot, loops, retirer>>

SaveProject ==
  /\ revision < MaxRevision
  /\ revision' = revision + 1
  /\ UNCHANGED <<row, grant, authorized, disk, boot, loops, retirer>>

\* revoke_outbound_grant, or expires_at passed; neither can be undone.
GrantEnds(j) ==
  /\ grant[j] = "active"
  /\ grant' = Set(grant, j, "dead")
  /\ UNCHANGED <<revision, row, authorized, disk, boot, loops, retirer>>

\* The actor, a trade route or a storage connection of the job changed.
Deauthorize(j) ==
  /\ j \in authorized \cap Revocable
  /\ authorized' = authorized \ {j}
  /\ UNCHANGED <<revision, row, grant, disk, boot, loops, retirer>>

-----------------------------------------------------------------------------
(* retire_snapshot.  Seven days after its end no attempt of a job is still  *)
(* under way.                                                              *)

Retirable(j) ==
  \/ state[j] = "retiring"
  \/ state[j] \in {"failed", "cancelled"} /\ (j \notin released \/ grant[j] = "dead")
  \/ state[j] \in {"ready", "awaiting_approval"} /\ grant[j] = "dead"

ClaimRetirement(j) ==
  /\ retirer = NoJob /\ Retirable(j)
  /\ \A s \in Slots : task[s] # j
  /\ state' = Set(state, j, "retiring") /\ retirer' = j
  /\ UNCHANGED <<revision, attempts, base, owner, due, rev, origin, manifest, approved, released,
                 replaced, done, reserved, grant, authorized, disk, boot, loops>>
RemoveSnapshot ==
  /\ retirer \in frozen
  /\ frozen' = frozen \ {retirer} /\ inventory' = inventory \ {retirer}
  /\ UNCHANGED <<revision, row, grant, authorized, exports, boot, loops, retirer>>
RetirementFails ==
  /\ retirer # NoJob
  /\ inventory' \in {inventory, inventory \ {retirer}}
  /\ retirer' = NoJob
  /\ UNCHANGED <<revision, row, grant, authorized, frozen, exports, boot, loops>>
\* Mutant: the bytes are given back before the payload is removed.
CompleteRetirementFirst ==
  /\ retirer # NoJob /\ state[retirer] = "retiring"
  /\ state' = Set(state, retirer, "retired") /\ reserved' = Set(reserved, retirer, 0)
  /\ retirer' = NoJob
  /\ UNCHANGED <<revision, attempts, base, owner, due, rev, origin, manifest, approved, released,
                 replaced, done, grant, authorized, disk, boot, loops>>

CompleteRetirement ==
  /\ retirer # NoJob /\ retirer \notin frozen /\ state[retirer] = "retiring"
  /\ state' = Set(state, retirer, "retired") /\ reserved' = Set(reserved, retirer, 0)
  /\ retirer' = NoJob
  /\ UNCHANGED <<revision, attempts, base, owner, due, rev, origin, manifest, approved, released,
                 replaced, done, grant, authorized, disk, boot, loops>>

-----------------------------------------------------------------------------
(* A new process with a new lease holder; the loops of the old one died     *)
(* with it, wherever they were.                                            *)

StopLoops ==
  /\ phase' = [s \in Slots |-> "idle"] /\ task' = [s \in Slots |-> NoJob]
  /\ try' = [s \in Slots |-> 0] /\ leg' = [s \in Slots |-> NoLegs]
Boot ==
  /\ boot < MaxBoots
  /\ boot' = boot + 1 /\ retirer' = NoJob /\ StopLoops
  /\ UNCHANGED <<revision, row, grant, authorized, disk>>
\* A backup is restored before the boot: every job is held.
BootRestored ==
  /\ boot < MaxBoots
  /\ boot' = boot + 1 /\ retirer' = NoJob /\ StopLoops
  /\ state' = [j \in Jobs |-> IF state[j] = "none" THEN "none" ELSE "suspended"]
  /\ owner' = [j \in Jobs |-> 0]
  /\ UNCHANGED <<revision, attempts, base, due, rev, origin, manifest, approved, released,
                 replaced, done, reserved, grant, authorized, disk>>

-----------------------------------------------------------------------------
Prepare(s) ==
  \/ \E bytes \in Sizes : Reserve(s, bytes)
  \/ FreezeFiles(s) \/ PublishInventory(s) \/ FilesAtHand(s) \/ PrepareFails(s) \/ FinishJob(s)
Export(s) ==
  \/ \E d \in Destinations : LegCleared(s, d) \/ LegWritten(s, d) \/ LegCompleted(s, d) \/ LegFails(s, d)
  \/ ExportEnds(s)
Work(s) == Prepare(s) \/ Export(s) \/ FailJob(s)
Operate(j) == Approve(j) \/ Cancel(j) \/ Retry(j) \/ GrantEnds(j) \/ Deauthorize(j)
Retire == (\E j \in Jobs : ClaimRetirement(j)) \/ RemoveSnapshot \/ RetirementFails \/ CompleteRetirement

Next ==
  \/ \E j \in Jobs : EnqueueJob(j) \/ TimePasses(j) \/ Operate(j)
  \/ \E u \in Uploads, j \in Jobs : QueueReceived(u, j)
  \/ \E j, k \in Jobs : Reprocess(j, k)
  \/ \E u \in Uploads : RevokeRoute(u)
  \/ \E s \in Slots, j \in Jobs : Claim(s, j)
  \/ \E s \in Slots : Work(s)
  \/ SaveProject \/ Retire \/ Boot \/ BootRestored

Spec == Init /\ [][Next]_vars

\* The loops poll every two seconds and never stop working on an attempt;
\* operators promise nothing.
Fairness ==
  /\ WF_vars(\E s \in Slots, j \in Jobs : Claim(s, j))
  /\ \A s \in Slots : WF_vars(Work(s))
  /\ \A j \in Jobs : WF_vars(TimePasses(j))
FairSpec == Spec /\ Fairness

-----------------------------------------------------------------------------
(* Properties.                                                             *)

\* The type invariant.
TypeOK ==
  /\ revision \in 1 .. MaxRevision
  /\ state \in [Jobs -> States]
  /\ attempts \in [Jobs -> Nat] /\ base \in [Jobs -> Nat] /\ owner \in [Jobs -> Nat]
  /\ rev \in [Jobs -> 1 .. MaxRevision] /\ origin \in [Jobs -> Uploads \cup {NoUpload}]
  /\ due \subseteq Jobs /\ manifest \subseteq Jobs /\ approved \subseteq Jobs
  /\ released \subseteq Jobs /\ replaced \subseteq Jobs /\ authorized \subseteq Jobs
  /\ frozen \subseteq Jobs /\ inventory \subseteq Jobs
  /\ done \in [Jobs -> SUBSET Destinations] /\ exports \in [Jobs -> SUBSET Destinations]
  /\ reserved \in [Jobs -> Nat]
  /\ grant \in [Jobs -> {"none", "active", "dead"}]
  /\ boot \in Nat
  /\ phase \in [Slots -> {"idle", "prepare", "copy", "copied", "frozen", "export", "fail"}]
  /\ task \in [Slots -> Jobs \cup {NoJob}]
  /\ try \in [Slots -> Nat]
  /\ leg \in [Slots -> [Destinations -> {"none", "pending", "cleared", "written", "failed"}]]
  /\ retirer \in Jobs \cup {NoJob}

\* Nothing leaves the server without the approval its policy asks for: a
\* completion document at a destination and a link that serves files both
\* imply it, whatever operators changed and attempts were repeated meanwhile.
NothingUnapproved ==
  \A j \in Jobs : (exports[j] # {} \/ Accessible(j)) /\ PolicyOf(j).approval => j \in approved

\* A delivery shown as ready has been exported to every destination of its
\* policy, over however many attempts and processes.
ReadyIsDelivered == \A j \in Jobs : state[j] = "ready" => PolicyOf(j).dests \subseteq exports[j]

\* The claim query never offers a job that its own process already runs, so
\* such a job must always have a loop working on its current attempt: a loop
\* that ended and left the job running would strand it until a restart.
NoStrandedJob ==
  \A j \in Jobs : Running(j) /\ owner[j] = boot =>
    \E s \in Slots : Busy(s) /\ task[s] = j /\ try[s] = attempts[j]

\* One process never runs more jobs of a tenant than the claim query allows,
\* although approvals and retries set jobs running without it.
TenantCapHolds == Cardinality({j \in Jobs : owner[j] = boot /\ Running(j)}) <= ClaimCap

\* A cancelled, retired or held delivery never comes back, not even through
\* an attempt that was under way.
WithdrawnIsFinal ==
  [][\A j \in Jobs : state[j] \in Withdrawn => state'[j] \in Withdrawn]_vars

\* A received package has at most one delivery in force, the last one it was
\* reprocessed into.
OneDeliveryPerUpload ==
  \A j, k \in Jobs :
    /\ j # k /\ Received(j) /\ origin[j] = origin[k]
    => state[j] \in Withdrawn \/ state[k] \in Withdrawn

\* Staged payloads are on disk only while their bytes are reserved, and the
\* reservations of deliveries that may still run never exceed the budget.
SnapshotsAccounted ==
  /\ \A j \in frozen : reserved[j] > 0
  /\ MapThenSumSet(LAMBDA k : reserved[k], {k \in Jobs : state[k] # "suspended"}) <= Budget

\* Every submitted delivery settles: it becomes ready, waits for a person,
\* fails or is withdrawn, through crashes, takeovers and backoff.
JobsSettle == \A j \in Jobs : state[j] \in Pending ~> state[j] \notin Pending

=============================================================================
