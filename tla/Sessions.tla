------------------------------ MODULE Sessions ------------------------------
(***************************************************************************)
(* The registry of live HTTP upload sessions (server/src/session.rs,       *)
(* struct Sessions) with the request handlers, the administrator's         *)
(* deletions and the shutdown path that race on it.                        *)
(*                                                                         *)
(* Every registry method runs under one mutex, so each is one atomic step. *)
(* A handler is a chain of such steps: between two of them it awaits, and  *)
(* any other actor may run.  The session worker is kept abstract here (it  *)
(* publishes, commits, ends); module Receive has its detail.               *)
(***************************************************************************)
EXTENDS Integers, Sequences, FiniteSets, FiniteSetsExt

CONSTANTS
  Ids,               \* session ids; one create request draws each of them
  Links,             \* request links (rows of the links table)
  Tenants,           \* named tenants, the ones an administrator can delete
  Default,           \* the default tenant, ""
  TenantOf,          \* the tenant column of each link
  Sizes,             \* announced package lengths
  MaxTotal,          \* max_total_bytes of every tenant
  MaxSessions,       \* config.max_total_sessions
  MaxLinkSessions,   \* config.max_link_sessions
  MaxTenantSessions, \* max_sessions of every tenant
  FinishedCap,       \* FINISHED_CAP
  Attempts,          \* finish requests a sender may make for one session
  MaxCommands,       \* bound: ordinary commands in flight per session
  MaxOutbound        \* bound: outbound operations in flight per tenant

ASSUME SessionsAssumption ==
  /\ IsFiniteSet(Ids) /\ IsFiniteSet(Attempts)
  /\ Default \notin Tenants
  /\ TenantOf \in [Links -> Tenants \cup {Default}]
  /\ Sizes \subseteq Nat /\ Sizes # {}
  /\ {MaxTotal, MaxSessions, MaxLinkSessions, MaxTenantSessions} \subseteq Nat
  /\ {FinishedCap, MaxCommands, MaxOutbound} \subseteq Nat
  /\ FinishedCap > 0

VARIABLES
  links,            \* link row: "usable", "closed" (inactive or expired), "absent"
  tenantRows,       \* rows of the tenants table
  rows,             \* uncommitted rows of upload_sessions with files
  disk,             \* a session's payload: "none", "published", "recorded", "deleted"
  pc,               \* where the create request of an id stands
  adm,              \* its SessionAdmission: link and reserved bytes
  seenReceived, seenRetained, \* the sessions its tenant_admission_usage counted
  late,             \* history: sessions begun or recorded since it read that usage
  map,              \* ids registered in SessionsInner.map
  inFlight, idle,   \* SessionActivity: leases out, and last_active too long ago
  finished,         \* SessionsInner.finished, oldest first
  aged,             \* ids once remembered and since evicted or expired
  admissionClosed, commandsClosed, activeAdmissions,
  pinned, tenantOp, \* pinned tenants, and the tenant handler holding the pin
  pinnedLinks, linkOp,
  outbound,         \* outbound operations per named tenant
  worker,           \* "none", "running", "done", "suspended"
  taken,            \* ids whose sender take_http handed to the shutdown path
  committed,        \* ids whose full upload record is in the store
  cmds,             \* ordinary commands (seal, page, begin, chunk) holding a lease
  fin,              \* where each finish request stands
  abort             \* where the abort request of a session stands

store     == <<links, tenantRows, rows, disk, committed>>
usage     == <<seenReceived, seenRetained, late>>
request   == <<pc, adm, usage>>
activity  == <<map, inFlight, idle>>
gate      == <<admissionClosed, commandsClosed, activeAdmissions>>
pins      == <<pinned, tenantOp, pinnedLinks, linkOp, outbound>>
answers   == <<finished, aged, fin>>
workers   == <<worker, taken>>
senders   == <<cmds, abort>>
vars == <<store, request, activity, gate, pins, answers, workers, senders>>

-----------------------------------------------------------------------------
(* State formulas the handlers read.                                       *)

Usable(l) == links[l] = "usable"
TenantOfId(i) == TenantOf[adm[i].link]

ActiveForLink(l) == {i \in map : adm[i].link = l}
ActiveForTenant(t) == {i \in map : TenantOfId(i) = t}

\* The guard of try_admit is held until the create request resolves.
HoldsAdmission(i) == pc[i] \in {"admitted", "counted", "read", "inserted", "confirmed", "spawned"}

SatSub(a, b) == IF a >= b THEN a - b ELSE 0
Bytes(S) == MapThenSumSet(LAMBDA i : adm[i].bytes, S)
\* tenant_received_bytes sums the live files of the tenant's records.
Received(t) == {i \in Ids : TenantOfId(i) = t /\ disk[i] = "recorded"}
FinishedIds == {finished[k] : k \in DOMAIN finished}

\* The figures live only from their queries to the insert.
ForgetUsage(i) ==
  /\ seenReceived' = [seenReceived EXCEPT ![i] = {}]
  /\ seenRetained' = [seenRetained EXCEPT ![i] = {}]
  /\ late' = [late EXCEPT ![i] = {}]

\* Session j begins or is recorded: every creation past the reading that
\* would have counted it, one of the steps S, learns of it too late.
Misses(j, S) == late' = [i \in Ids |-> IF pc[i] \in S THEN late[i] \cup {j} ELSE late[i]]
KeepSeen == UNCHANGED <<seenReceived, seenRetained>>

\* Conditions of insert_admitted_inner for an HTTP session, in its order.
\* Mutant: a creation that holds an admission passes the checkpoint.
GateOpenLate(i) == ~admissionClosed \/ HoldsAdmission(i)
\* Mutants: the insert forgets one of the pins.
NotPinnedLinkOnly(i) == adm[i].link \notin pinnedLinks

GateOpen(i) == ~commandsClosed /\ (~admissionClosed \/ HoldsAdmission(i))
NotPinnedTenantOnly(i) == TenantOfId(i) \notin pinned
NotPinned(i) == TenantOfId(i) \notin pinned /\ adm[i].link \notin pinnedLinks
SlotFree(i) ==
  /\ Cardinality(map) < MaxSessions
  /\ Cardinality(ActiveForLink(adm[i].link)) < MaxLinkSessions
  /\ Cardinality(ActiveForTenant(TenantOfId(i))) < MaxTenantSessions
\* Mutant: the reserved sum is left out of the quota check.
WithinQuotaUnreserved(i) ==
  adm[i].bytes <= SatSub(SatSub(MaxTotal, Bytes(seenReceived[i])), Bytes(seenRetained[i] \ map))

\* The usage was read before the lock; the reserved sum is exact under it.
WithinQuota(i) ==
  LET reserved == Bytes(ActiveForTenant(TenantOfId(i)))
      retained == Bytes(seenRetained[i] \ map)
  IN adm[i].bytes <= SatSub(SatSub(SatSub(MaxTotal, Bytes(seenReceived[i])), reserved), retained)
InsertAdmissible(i) == GateOpen(i) /\ NotPinned(i) /\ SlotFree(i) /\ WithinQuota(i)

-----------------------------------------------------------------------------
(* Init: a freshly booted server with no session to re-attach.             *)

Init ==
  /\ links \in [Links -> {"usable", "closed"}]
  /\ tenantRows = Tenants
  /\ rows = {} /\ committed = {}
  /\ disk = [i \in Ids |-> "none"]
  /\ pc = [i \in Ids |-> "new"]
  /\ adm \in [Ids -> [link : Links, bytes : Sizes]]
  /\ seenReceived = [i \in Ids |-> {}] /\ seenRetained = [i \in Ids |-> {}]
  /\ late = [i \in Ids |-> {}]
  /\ map = {}
  /\ inFlight = [i \in Ids |-> 0] /\ idle = [i \in Ids |-> FALSE]
  /\ finished = <<>> /\ aged = {}
  /\ admissionClosed = FALSE /\ commandsClosed = FALSE /\ activeAdmissions = 0
  /\ pinned = {} /\ tenantOp = [t \in Tenants |-> "none"]
  /\ pinnedLinks = {} /\ linkOp = [l \in Links |-> "none"]
  /\ outbound = [t \in Tenants |-> 0]
  /\ worker = [i \in Ids |-> "none"] /\ taken = {}
  /\ cmds = [i \in Ids |-> 0]
  /\ fin = [i \in Ids |-> [a \in Attempts |-> "idle"]]
  /\ abort = [i \in Ids |-> "idle"]

-----------------------------------------------------------------------------
(* create_session: prepare, win the admission fence, read the quota usage, *)
(* insert, re-read the link, spawn the worker, reply.                      *)

\* request_shutdown closes admission and raises `stopping` in one mutex, so
\* one flag stands for both.
PrepareSession(i) ==
  /\ pc[i] = "new"
  /\ ~admissionClosed
  /\ Usable(adm[i].link)
  /\ TenantOfId(i) \in tenantRows \cup {Default}
  /\ pc' = [pc EXCEPT ![i] = "prepared"]
  /\ UNCHANGED <<store, adm, usage, activity, gate, pins, answers, workers, senders>>

TryAdmit(i) ==
  /\ pc[i] = "prepared"
  /\ IF admissionClosed
       THEN pc' = [pc EXCEPT ![i] = "refused"] /\ UNCHANGED activeAdmissions
       ELSE pc' = [pc EXCEPT ![i] = "admitted"] /\ activeAdmissions' = activeAdmissions + 1
  /\ UNCHANGED <<store, adm, usage, activity, admissionClosed, commandsClosed, pins,
                 answers, workers, senders>>

\* tenant_admission_usage is two queries: the committed bytes, then the
\* uncommitted session rows.  Other handlers run between them.
ReadReceived(i) ==
  /\ pc[i] = "admitted"
  /\ seenReceived' = [seenReceived EXCEPT ![i] = Received(TenantOfId(i))]
  /\ pc' = [pc EXCEPT ![i] = "counted"]
  /\ UNCHANGED <<store, adm, seenRetained, late, activity, gate, pins, answers, workers, senders>>

\* Mutant: the query leaves out the sessions registered when it runs, not
\* those registered at the insert.
ReadRetainedUnregistered(i) ==
  /\ pc[i] = "counted"
  /\ seenRetained' = [seenRetained EXCEPT ![i] = {j \in rows \ map : TenantOfId(j) = TenantOfId(i)}]
  /\ pc' = [pc EXCEPT ![i] = "read"]
  /\ UNCHANGED <<store, adm, seenReceived, late, activity, gate, pins, answers, workers, senders>>

ReadRetained(i) ==
  /\ pc[i] = "counted"
  /\ seenRetained' = [seenRetained EXCEPT ![i] = {j \in rows : TenantOfId(j) = TenantOfId(i)}]
  /\ pc' = [pc EXCEPT ![i] = "read"]
  /\ UNCHANGED <<store, adm, seenReceived, late, activity, gate, pins, answers, workers, senders>>

\* AdmissionGuard::drop
DropAdmission == activeAdmissions' = SatSub(activeAdmissions, 1)

InsertAdmitted(i) ==
  /\ pc[i] = "read"
  /\ InsertAdmissible(i)
  /\ map' = map \cup {i}
  /\ inFlight' = [inFlight EXCEPT ![i] = 0]
  /\ idle' = [idle EXCEPT ![i] = FALSE]
  /\ pc' = [pc EXCEPT ![i] = "inserted"]
  /\ ForgetUsage(i)
  /\ UNCHANGED <<store, adm, gate, pins, answers, workers, senders>>

\* Mutant: a refused insert keeps its admission.
InsertRefusedHolding(i) ==
  /\ pc[i] = "read"
  /\ ~InsertAdmissible(i)
  /\ pc' = [pc EXCEPT ![i] = "refused"]
  /\ ForgetUsage(i)
  /\ UNCHANGED <<store, adm, activity, gate, pins, answers, workers, senders>>

InsertRefused(i) ==
  /\ pc[i] = "read"
  /\ ~InsertAdmissible(i)
  /\ pc' = [pc EXCEPT ![i] = "refused"]
  /\ ForgetUsage(i)
  /\ DropAdmission
  /\ UNCHANGED <<store, adm, activity, admissionClosed, commandsClosed, pins,
                 answers, workers, senders>>

\* Mutant: the link is not re-read after the insert.
ConfirmLinkUnread(i) ==
  /\ pc[i] = "inserted"
  /\ pc' = [pc EXCEPT ![i] = "confirmed"]
  /\ UNCHANGED <<store, adm, usage, activity, gate, pins, answers, workers, senders>>

\* register_session re-reads the link row after the insert.
ConfirmLink(i) ==
  /\ pc[i] = "inserted"
  /\ Usable(adm[i].link)
  /\ pc' = [pc EXCEPT ![i] = "confirmed"]
  /\ UNCHANGED <<store, adm, usage, activity, gate, pins, answers, workers, senders>>

ConfirmFailed(i) ==
  /\ pc[i] = "inserted"
  /\ ~Usable(adm[i].link)
  /\ map' = map \ {i}
  /\ pc' = [pc EXCEPT ![i] = "refused"]
  /\ DropAdmission
  /\ UNCHANGED <<store, adm, usage, inFlight, idle, admissionClosed, commandsClosed, pins,
                 answers, workers, senders>>

SpawnWorker(i) ==
  /\ pc[i] = "confirmed"
  /\ worker' = [worker EXCEPT ![i] = "running"]
  /\ pc' = [pc EXCEPT ![i] = "spawned"]
  /\ UNCHANGED <<store, adm, usage, activity, gate, pins, answers, taken, senders>>

CreateReplied(i) ==
  /\ pc[i] = "spawned"
  /\ pc' = [pc EXCEPT ![i] = "live"]
  /\ DropAdmission
  /\ UNCHANGED <<store, adm, usage, activity, admissionClosed, commandsClosed, pins,
                 answers, workers, senders>>

\* Mutant: the dropped future does not release the admission.
CreateCancelledHolding(i) ==
  /\ pc[i] = "inserted"
  /\ pc' = [pc EXCEPT ![i] = "cancelled"]
  /\ UNCHANGED <<store, adm, usage, activity, gate, pins, answers, workers, senders>>

\* The sender disconnects while the blocking insert runs: the handler's
\* future is dropped at that await, the insert has happened, nobody spawns
\* the worker, and the receiving end of the command channel is gone.
CreateCancelled(i) ==
  /\ pc[i] = "inserted"
  /\ pc' = [pc EXCEPT ![i] = "cancelled"]
  /\ DropAdmission
  /\ UNCHANGED <<store, adm, usage, activity, admissionClosed, commandsClosed, pins,
                 answers, workers, senders>>

-----------------------------------------------------------------------------
(* Leases and the commands a sender issues against its session.            *)

\* Sessions::touch
Touch(i) ==
  /\ inFlight' = [inFlight EXCEPT ![i] = @ + 1]
  /\ idle' = [idle EXCEPT ![i] = FALSE]
\* SessionLease::drop
DropLease(i) ==
  /\ inFlight' = [inFlight EXCEPT ![i] = @ - 1]
  /\ idle' = [idle EXCEPT ![i] = FALSE]

\* A seal, page, begin or chunk request won its lease (dispatch, first step).
CommandTouch(i) ==
  /\ pc[i] \in {"spawned", "live"}
  /\ i \in map /\ cmds[i] < MaxCommands
  /\ Touch(i)
  /\ cmds' = [cmds EXCEPT ![i] = @ + 1]
  /\ UNCHANGED <<store, request, map, gate, pins, answers, workers, abort>>

\* The command was answered, refused or dropped with its channel.
CommandEnd(i) ==
  /\ cmds[i] > 0
  /\ DropLease(i)
  /\ cmds' = [cmds EXCEPT ![i] = @ - 1]
  /\ UNCHANGED <<store, request, map, gate, pins, answers, workers, abort>>

\* The worker handles a begin: the session row is persisted with its files.
WorkerBegin(i) ==
  /\ worker[i] = "running" /\ cmds[i] > 0
  /\ disk[i] = "none" /\ i \notin rows
  /\ links[adm[i].link] # "absent"
  /\ rows' = rows \cup {i}
  /\ Misses(i, {"read"}) /\ KeepSeen
  /\ UNCHANGED <<links, tenantRows, disk, committed, pc, adm, activity, gate,
                 pins, answers, workers, senders>>

\* The worker handles the chunk that completes the payload: published on disk.
WorkerPublish(i) ==
  /\ worker[i] = "running" /\ cmds[i] > 0
  /\ disk[i] = "none" /\ i \in rows
  /\ disk' = [disk EXCEPT ![i] = "published"]
  /\ UNCHANGED <<links, tenantRows, rows, committed, request, activity, gate,
                 pins, answers, workers, senders>>

\* append_upload succeeds only while the link row exists.
RecordPayload(i) ==
  /\ KeepSeen
  /\ IF disk[i] = "published" /\ links[adm[i].link] # "absent"
       THEN disk' = [disk EXCEPT ![i] = "recorded"] /\ Misses(i, {"counted", "read"})
       ELSE UNCHANGED <<disk, late>>

\* The end of a worker without a finish: commit_partial, then forget_session,
\* or preserve_phase when something is unresolved (the row stays).
EndPartially(i) ==
  /\ RecordPayload(i)
  /\ \/ rows' = rows \ {i}
     \/ UNCHANGED rows

\* No sender of the command channel is left: the handle is gone, shutdown did
\* not take it, and no dispatch still holds its clone.
\* Mutant: an aborting handler leaks its clone of the sender.
ChannelClosedLeak(i) == i \notin map /\ i \notin taken /\ abort[i] = "idle"

ChannelClosed(i) ==
  /\ i \notin map /\ i \notin taken
  /\ cmds[i] = 0 /\ abort[i] # "sent"
  /\ \A a \in Attempts : fin[i][a] \notin {"touched", "sent"}

\* recv() returned None.
WorkerInterrupted(i) ==
  /\ worker[i] = "running"
  /\ ChannelClosed(i)
  /\ EndPartially(i)
  /\ worker' = [worker EXCEPT ![i] = "done"]
  /\ UNCHANGED <<links, tenantRows, committed, pc, adm, activity, gate, pins, answers,
                 taken, senders>>

\* Cmd::Suspend: the row and the staging stay for the next boot.
WorkerSuspend(i) ==
  /\ worker[i] = "running" /\ i \in taken
  /\ worker' = [worker EXCEPT ![i] = "suspended"]
  /\ UNCHANGED <<store, request, activity, gate, pins, answers, taken, senders>>

-----------------------------------------------------------------------------
(* upload_finish, for every attempt of the sender.                         *)

SetFin(i, a, state) == fin' = [fin EXCEPT ![i][a] = state]

\* finished_report is read first.
FinishLook(i, a) ==
  /\ pc[i] = "live" /\ fin[i][a] = "idle"
  /\ SetFin(i, a, IF i \in FinishedIds THEN "ok" ELSE "looked")
  /\ UNCHANGED <<store, request, activity, gate, pins, finished, aged, workers, senders>>

FinishTouch(i, a) ==
  /\ fin[i][a] = "looked"
  /\ IF i \in map
       THEN Touch(i) /\ SetFin(i, a, "touched")
       ELSE SetFin(i, a, "notfound") /\ UNCHANGED <<inFlight, idle>>
  /\ UNCHANGED <<store, request, map, gate, pins, finished, aged, workers, senders>>

\* The rest of dispatch: link_id again, the link row, the send.
FinishSend(i, a) ==
  /\ fin[i][a] = "touched"
  /\ LET answer == IF i \notin map THEN "notfound"
                   ELSE IF ~Usable(adm[i].link) \/ worker[i] # "running" THEN "gone"
                   ELSE "sent"
     IN /\ SetFin(i, a, answer)
        /\ IF answer = "sent" THEN UNCHANGED <<inFlight, idle>> ELSE DropLease(i)
  /\ UNCHANGED <<store, request, map, gate, pins, finished, aged, workers, senders>>

\* handle_finish: everything published, the record committed, Phase::Done.
WorkerFinish(i, a) ==
  /\ worker[i] = "running" /\ fin[i][a] = "sent"
  /\ disk[i] = "published" /\ links[adm[i].link] # "absent"
  /\ RecordPayload(i)
  /\ committed' = committed \cup {i}
  /\ rows' = rows \ {i}
  /\ worker' = [worker EXCEPT ![i] = "done"]
  /\ SetFin(i, a, "replied")
  /\ DropLease(i)
  /\ UNCHANGED <<links, tenantRows, pc, adm, map, gate, pins, finished, aged, taken, senders>>

WorkerFinishRefused(i, a) ==
  /\ worker[i] = "running" /\ fin[i][a] = "sent"
  /\ disk[i] # "published" \/ links[adm[i].link] = "absent"
  /\ SetFin(i, a, "failed")
  /\ DropLease(i)
  /\ UNCHANGED <<store, request, map, gate, pins, finished, aged, workers, senders>>

\* Mutant: a dropped finish does not return its lease.
FinishDroppedLeak(i, a) ==
  /\ fin[i][a] = "sent" /\ worker[i] # "running"
  /\ SetFin(i, a, "gone")
  /\ UNCHANGED <<store, request, activity, gate, pins, finished, aged, workers, senders>>

\* The worker left its loop with the command still queued: 410.
FinishDropped(i, a) ==
  /\ fin[i][a] = "sent" /\ worker[i] # "running"
  /\ SetFin(i, a, "gone")
  /\ DropLease(i)
  /\ UNCHANGED <<store, request, map, gate, pins, finished, aged, workers, senders>>

\* remember_finished: at the cap the oldest gives way.
RememberFinished(i, a) ==
  /\ fin[i][a] = "replied"
  /\ LET full == Len(finished) >= FinishedCap
         kept == IF full THEN Tail(finished) ELSE finished
     IN /\ finished' = Append(kept, i)
        /\ aged' = IF full THEN aged \cup {Head(finished)} ELSE aged
  /\ SetFin(i, a, "remembered")
  /\ UNCHANGED <<store, request, activity, gate, pins, workers, senders>>

\* prune_finished: FINISHED_TTL elapsed for the oldest entry.
FinishedExpires ==
  /\ finished # <<>>
  /\ aged' = aged \cup {Head(finished)}
  /\ finished' = Tail(finished)
  /\ UNCHANGED <<store, request, activity, gate, pins, fin, workers, senders>>

\* upload_completed removes the session last, then the reply goes out.
UploadCompleted(i, a) ==
  /\ fin[i][a] = "remembered"
  /\ map' = map \ {i}
  /\ SetFin(i, a, "ok")
  /\ UNCHANGED <<store, request, inFlight, idle, gate, pins, finished, aged, workers, senders>>

-----------------------------------------------------------------------------
(* upload_abort: best-effort Abort command, then the session is removed.   *)

AbortSend(i) ==
  /\ pc[i] = "live" /\ abort[i] = "idle"
  /\ IF i \in map /\ Usable(adm[i].link) /\ worker[i] = "running"
       THEN Touch(i) /\ abort' = [abort EXCEPT ![i] = "sent"]
       ELSE UNCHANGED <<inFlight, idle>> /\ abort' = [abort EXCEPT ![i] = "answered"]
  /\ UNCHANGED <<store, request, map, gate, pins, answers, workers, cmds>>

WorkerAbort(i) ==
  /\ worker[i] = "running" /\ abort[i] = "sent"
  /\ EndPartially(i)
  /\ worker' = [worker EXCEPT ![i] = "done"]
  /\ DropLease(i)
  /\ abort' = [abort EXCEPT ![i] = "answered"]
  /\ UNCHANGED <<links, tenantRows, committed, pc, adm, map, gate, pins, answers, taken, cmds>>

AbortDropped(i) ==
  /\ abort[i] = "sent" /\ worker[i] # "running"
  /\ DropLease(i)
  /\ abort' = [abort EXCEPT ![i] = "answered"]
  /\ UNCHANGED <<store, request, map, gate, pins, answers, workers, cmds>>

AbortRemove(i) ==
  /\ abort[i] = "answered"
  /\ map' = map \ {i}
  /\ abort' = [abort EXCEPT ![i] = "done"]
  /\ UNCHANGED <<store, request, inFlight, idle, gate, pins, answers, workers, cmds>>

-----------------------------------------------------------------------------
(* The idle sweep.                                                         *)

\* last_active of a session becomes older than session_idle_secs.
GoIdle(i) ==
  /\ i \in map /\ ~idle[i]
  /\ idle' = [idle EXCEPT ![i] = TRUE]
  /\ UNCHANGED <<store, request, map, inFlight, gate, pins, answers, workers, senders>>

Swept == {i \in map : inFlight[i] = 0 /\ idle[i]}

Sweep ==
  /\ Swept # {}
  /\ map' = map \ Swept
  /\ UNCHANGED <<store, request, inFlight, idle, gate, pins, answers, workers, senders>>

-----------------------------------------------------------------------------
(* The administrator's link operations.  delete_link, the file purges and  *)
(* the retention sweep pin the link, look for sessions under the pin, and  *)
(* only then touch rows or files.                                          *)

CloseLink(l) ==
  /\ links[l] = "usable"
  /\ links' = [links EXCEPT ![l] = "closed"]
  /\ UNCHANGED <<tenantRows, rows, disk, committed, request, activity, gate, pins,
                 answers, workers, senders>>

OpenLink(l) ==
  /\ links[l] = "closed"
  /\ links' = [links EXCEPT ![l] = "usable"]
  /\ UNCHANGED <<tenantRows, rows, disk, committed, request, activity, gate, pins,
                 answers, workers, senders>>

\* insert_link_with_workflow refuses a tenant whose row is gone.  Link ids
\* are random, so a link that was deleted never comes back.

SetLinkOp(l, state) == linkOp' = [linkOp EXCEPT ![l] = state]

\* LinkPin::drop
UnpinLink(l) == pinnedLinks' = pinnedLinks \ {l} /\ SetLinkOp(l, "none")

PinLink(l) ==
  /\ links[l] # "absent"
  /\ l \notin pinnedLinks
  /\ pinnedLinks' = pinnedLinks \cup {l}
  /\ SetLinkOp(l, "pinned")
  /\ UNCHANGED <<store, request, activity, gate, pinned, tenantOp, outbound, answers, workers,
                 senders>>

\* active_for_link under the pin.
CheckLinkIdle(l) ==
  /\ linkOp[l] = "pinned"
  /\ IF ActiveForLink(l) = {}
       THEN SetLinkOp(l, "checked") /\ UNCHANGED pinnedLinks
       ELSE UnpinLink(l)
  /\ UNCHANGED <<store, request, activity, gate, pinned, tenantOp, outbound, answers, workers,
                 senders>>

\* Legal hold, a pending workflow or an active grant refuses the operation,
\* and remove_link itself looks at the workflows and the routes again.
LinkOpRefused(l) ==
  /\ linkOp[l] \in {"checked", "fileless"}
  /\ UnpinLink(l)
  /\ UNCHANGED <<store, request, activity, gate, pinned, tenantOp, outbound, answers, workers,
                 senders>>

\* link_has_existing_files: a record with a live file refuses the deletion.
LookForFiles(l) ==
  /\ linkOp[l] = "checked"
  /\ \A i \in Ids : adm[i].link = l => disk[i] # "recorded"
  /\ SetLinkOp(l, "fileless")
  /\ UNCHANGED <<store, request, activity, gate, pinned, pinnedLinks, tenantOp, outbound, answers,
                 workers, senders>>

\* remove_link takes the session rows and whatever records there are by now;
\* a payload whose record goes is on the disk unnamed.
RemoveLink(l) ==
  /\ linkOp[l] = "fileless"
  /\ links' = [links EXCEPT ![l] = "absent"]
  /\ rows' = {i \in rows : adm[i].link # l}
  /\ committed' = {i \in committed : adm[i].link # l}
  /\ disk' = [i \in Ids |-> IF adm[i].link = l /\ disk[i] = "recorded" THEN "published" ELSE disk[i]]
  /\ UnpinLink(l)
  /\ UNCHANGED <<tenantRows, request, activity, gate, pinned, tenantOp, outbound, answers, workers,
                 senders>>

\* The file purges remove what the records name.
PurgeUploads(l) ==
  /\ linkOp[l] = "checked"
  /\ disk' = [i \in Ids |-> IF adm[i].link = l /\ disk[i] = "recorded" THEN "deleted" ELSE disk[i]]
  /\ UnpinLink(l)
  /\ UNCHANGED <<links, tenantRows, rows, committed, request, activity, gate, pinned,
                 tenantOp, outbound, answers, workers, senders>>

-----------------------------------------------------------------------------
(* Tenants: creation and deletion hold the same pin; outbound operations   *)
(* are counted on the same mutex.                                          *)

SetTenantOp(t, state) == tenantOp' = [tenantOp EXCEPT ![t] = state]
UnpinTenant(t) == pinned' = pinned \ {t} /\ SetTenantOp(t, "none")
LinksOf(t) == {l \in Links : TenantOf[l] = t /\ links[l] # "absent"}

PinTenant(t, op) ==
  /\ t \notin pinned
  /\ pinned' = pinned \cup {t}
  /\ SetTenantOp(t, op)
  /\ UNCHANGED <<store, request, activity, gate, pinnedLinks, linkOp, outbound, answers, workers,
                 senders>>

CreateTenant(t) ==
  /\ tenantOp[t] = "create"
  /\ tenantRows' = tenantRows \cup {t}
  /\ UnpinTenant(t)
  /\ UNCHANGED <<links, rows, disk, committed, request, activity, gate, pinnedLinks,
                 linkOp, outbound, answers, workers, senders>>

\* tenant_link_count, active_for_tenant and active_outbound_for_tenant
CountTenantLinks(t) ==
  /\ tenantOp[t] = "delete"
  /\ IF LinksOf(t) = {} THEN SetTenantOp(t, "counted") /\ UNCHANGED pinned ELSE UnpinTenant(t)
  /\ UNCHANGED <<store, request, activity, gate, pinnedLinks, linkOp, outbound, answers, workers,
                 senders>>

CheckTenantIdle(t) ==
  /\ tenantOp[t] = "counted"
  /\ IF ActiveForTenant(t) = {} /\ outbound[t] = 0
       THEN SetTenantOp(t, "checked") /\ UNCHANGED pinned
       ELSE UnpinTenant(t)
  /\ UNCHANGED <<store, request, activity, gate, pinnedLinks, linkOp, outbound, answers, workers,
                 senders>>

\* remove_tenant re-counts the links in its transaction; an absent row whose
\* subtree survived a failed purge is purged again.
RemoveTenant(t) ==
  /\ tenantOp[t] = "checked"
  /\ IF LinksOf(t) = {}
       THEN tenantRows' = tenantRows \ {t} /\ SetTenantOp(t, "purging") /\ UNCHANGED pinned
       ELSE UnpinTenant(t) /\ UNCHANGED tenantRows
  /\ UNCHANGED <<links, rows, disk, committed, request, activity, gate, pinnedLinks,
                 linkOp, outbound, answers, workers, senders>>

\* The blocking purge owns the pin; it ends with the subtrees gone or failed.
PurgeEnds(t) ==
  /\ tenantOp[t] = "purging"
  /\ UnpinTenant(t)
  /\ UNCHANGED <<store, request, activity, gate, pinnedLinks, linkOp, outbound, answers, workers,
                 senders>>

BeginOutbound(t) ==
  /\ t \notin pinned /\ outbound[t] < MaxOutbound
  /\ outbound' = [outbound EXCEPT ![t] = @ + 1]
  /\ UNCHANGED <<store, request, activity, gate, pinned, tenantOp, pinnedLinks, linkOp, answers,
                 workers, senders>>

\* Mutant: an operation admitted without a counter still decrements it.
EndOutboundUncounted(t) ==
  /\ outbound' = [outbound EXCEPT ![t] = @ - 1]
  /\ UNCHANGED <<store, request, activity, gate, pinned, tenantOp, pinnedLinks, linkOp, answers,
                 workers, senders>>

EndOutbound(t) ==
  /\ outbound[t] > 0
  /\ outbound' = [outbound EXCEPT ![t] = @ - 1]
  /\ UNCHANGED <<store, request, activity, gate, pinned, tenantOp, pinnedLinks, linkOp, answers,
                 workers, senders>>

-----------------------------------------------------------------------------
(* Shutdown.                                                               *)

RequestShutdown ==
  /\ ~admissionClosed
  /\ admissionClosed' = TRUE
  /\ UNCHANGED <<store, request, activity, commandsClosed, activeAdmissions, pins, answers,
                 workers, senders>>

\* suspend_sessions, after the server stopped or its drain deadline passed:
\* a handler that missed the deadline may still be running.
TakeHttp ==
  /\ admissionClosed /\ ~commandsClosed
  /\ commandsClosed' = TRUE
  /\ taken' = map
  /\ map' = {}
  /\ UNCHANGED <<store, request, inFlight, idle, admissionClosed, activeAdmissions, pins,
                 answers, worker, senders>>

-----------------------------------------------------------------------------
Create(i) ==
  \/ PrepareSession(i) \/ TryAdmit(i) \/ ReadReceived(i) \/ ReadRetained(i)
  \/ InsertAdmitted(i) \/ InsertRefused(i)
  \/ ConfirmLink(i) \/ ConfirmFailed(i) \/ CreateCancelled(i)
  \/ SpawnWorker(i) \/ CreateReplied(i)

Command(i) ==
  \/ CommandTouch(i) \/ CommandEnd(i)
  \/ AbortSend(i) \/ AbortDropped(i) \/ AbortRemove(i)

FinishRequest(i, a) ==
  \/ FinishLook(i, a) \/ FinishTouch(i, a) \/ FinishSend(i, a)
  \/ FinishDropped(i, a) \/ RememberFinished(i, a) \/ UploadCompleted(i, a)
  \/ WorkerFinish(i, a) \/ WorkerFinishRefused(i, a)

Worker(i) ==
  \/ WorkerBegin(i) \/ WorkerPublish(i) \/ WorkerInterrupted(i)
  \/ WorkerSuspend(i) \/ WorkerAbort(i)

LinkAdmin(l) ==
  \/ CloseLink(l) \/ OpenLink(l)
  \/ PinLink(l) \/ CheckLinkIdle(l) \/ LinkOpRefused(l)
  \/ LookForFiles(l) \/ RemoveLink(l) \/ PurgeUploads(l)

TenantAdmin(t) ==
  \/ \E op \in {"create", "delete"} : PinTenant(t, op)
  \/ CreateTenant(t) \/ CountTenantLinks(t) \/ CheckTenantIdle(t)
  \/ RemoveTenant(t) \/ PurgeEnds(t)
  \/ BeginOutbound(t) \/ EndOutbound(t)

Next ==
  \/ \E i \in Ids : Create(i) \/ Command(i) \/ Worker(i) \/ GoIdle(i)
  \/ \E i \in Ids, a \in Attempts : FinishRequest(i, a)
  \/ Sweep \/ FinishedExpires \/ RequestShutdown \/ TakeHttp
  \/ \E l \in Links : LinkAdmin(l)
  \/ \E t \in Tenants : TenantAdmin(t)

Spec == Init /\ [][Next]_vars

\* Handlers and workers run to completion; senders, administrators and the
\* clock promise nothing.
Fairness ==
  /\ \A i \in Ids :
       /\ WF_vars(pc[i] # "new" /\ Create(i))
       /\ WF_vars(WorkerInterrupted(i) \/ WorkerSuspend(i))
       /\ WF_vars(CommandEnd(i))
       /\ WF_vars(WorkerAbort(i) \/ AbortDropped(i) \/ AbortRemove(i))
       /\ \A a \in Attempts :
            WF_vars(fin[i][a] # "idle" /\ FinishRequest(i, a))
  /\ WF_vars(TakeHttp)

FairSpec == Spec /\ Fairness

\* The leases finish and abort requests hold.
FinishLeases(i) == {a \in Attempts : fin[i][a] \in {"touched", "sent"}}
AbortLease(i) == IF abort[i] = "sent" THEN 1 ELSE 0

-----------------------------------------------------------------------------
(* Properties.                                                             *)

PcStates == {"new", "prepared", "admitted", "counted", "read", "inserted", "confirmed",
             "spawned", "live", "refused", "cancelled"}
FinStates == {"idle", "looked", "touched", "sent", "replied", "remembered",
              "ok", "gone", "notfound", "failed"}

\* The types of everything but the lease counter.
TypesButLeases ==
  /\ links \in [Links -> {"usable", "closed", "absent"}]
  /\ tenantRows \subseteq Tenants
  /\ rows \subseteq Ids /\ committed \subseteq Ids
  /\ disk \in [Ids -> {"none", "published", "recorded", "deleted"}]
  /\ pc \in [Ids -> PcStates]
  /\ adm \in [Ids -> [link : Links, bytes : Sizes]]
  /\ {seenReceived, seenRetained, late} \subseteq [Ids -> SUBSET Ids]
  /\ map \subseteq Ids
  /\ idle \in [Ids -> BOOLEAN]
  /\ finished \in Seq(Ids) /\ aged \subseteq Ids
  /\ admissionClosed \in BOOLEAN /\ commandsClosed \in BOOLEAN
  /\ activeAdmissions \in Nat
  /\ pinned \subseteq Tenants /\ pinnedLinks \subseteq Links
  /\ tenantOp \in [Tenants -> {"none", "create", "delete", "counted", "checked", "purging"}]
  /\ linkOp \in [Links -> {"none", "pinned", "checked", "fileless"}]
  /\ outbound \in [Tenants -> Nat]
  /\ worker \in [Ids -> {"none", "running", "done", "suspended"}]
  /\ taken \subseteq Ids
  /\ cmds \in [Ids -> Nat]
  /\ fin \in [Ids -> [Attempts -> FinStates]]
  /\ abort \in [Ids -> {"idle", "sent", "answered", "done"}]

\* Every variable holds a value of its type; in particular in_flight, an
\* unsigned counter that fetch_sub would wrap, never goes below zero.
TypeOK == TypesButLeases /\ inFlight \in [Ids -> Nat]

\* delete_tenant purges a namespace only while nobody can write to it: from
\* its last check to the end of the purge no session of the tenant is
\* registered and no outbound operation runs, whatever creations and
\* downloads were already under way when the pin was taken.
TenantDeleteExclusive ==
  \A t \in Tenants : tenantOp[t] \in {"checked", "purging"} =>
    ActiveForTenant(t) = {} /\ outbound[t] = 0

\* The same for a link: between the active_for_link check and the removal of
\* the row or of its files, no session of the link is registered.
LinkOpExclusive ==
  \A l \in Links : linkOp[l] \in {"checked", "fileless"} => ActiveForLink(l) = {}

\* A session that passed register_session's second link read belongs to a
\* link that still exists, in a tenant that still exists, for as long as it
\* is registered: no deletion slips between the two reads and the insert.
RegisteredLinkExists ==
  \A i \in map : pc[i] \in {"confirmed", "spawned", "live"} =>
    /\ links[adm[i].link] # "absent"
    /\ TenantOfId(i) \in tenantRows \cup {Default}

\* Deletions act alone (delete_tenant, the link operations, the two reads
\* around register_session's insert): the three together.
DeletionsAlone == TenantDeleteExclusive /\ LinkOpExclusive /\ RegisteredLinkExists

\* The reserved sum is exact under the lock: concurrent admissions that all
\* read the same usage never reserve more than the tenant's quota.
ReservedWithinQuota ==
  \A t \in Tenants \cup {Default} : Bytes(ActiveForTenant(t)) <= MaxTotal

\* Every lease that touch handed out is returned exactly once, on every
\* path of dispatch, abort and the worker: a leaked lease would make a
\* session immune to the sweep, a double return would wrap the counter.
LeasesCounted ==
  \A i \in Ids : inFlight[i] = cmds[i] + Cardinality(FinishLeases(i)) + AbortLease(i)

\* active_admissions is the number of create requests still owning their
\* guard, also after refusals and cancellations: the drain waits for it.
AdmissionsCounted == activeAdmissions = Cardinality({i \in Ids : HoldsAdmission(i)})

\* What a tenant holds: reservations, persisted sessions, records, and files
\* published for a link that is there.
Held(t) ==
  {i \in Ids : /\ TenantOfId(i) = t
               /\ \/ i \in map \cup rows \/ disk[i] = "recorded"
                  \/ disk[i] = "published" /\ links[adm[i].link] # "absent"}

\* insert_admitted reads the usage before its lock, received bytes first,
\* retained rows second, and calls the figure "a moment stale".  An upload
\* that moves meanwhile from the registry to its row, and from its row to a
\* record, is still counted once: what an admission adds exceeds the quota
\* at most by uploads that began or were recorded after the reading that
\* would have seen them and that left the registry before the insert.
OvershootIsLate ==
  \A i \in Ids : pc[i] = "read" /\ InsertAdmissible(i) /\ adm[i].bytes > 0 =>
    Bytes(Held(TenantOfId(i)) \cup {i}) <= MaxTotal + Bytes(late[i] \ map)

\* insert_admitted, AdmissionGuard: what admission promised to bound stays
\* bounded, the bytes reserved and held of a tenant and the guards it counts.
AdmissionsBounded == ReservedWithinQuota /\ OvershootIsLate /\ AdmissionsCounted

\* Nothing joins the registry behind the shutdown checkpoint, not even a
\* creation that won its admission before the fence closed.
NothingAfterCheckpoint == commandsClosed => map = {}

\* Shutdown settles: every admission resolves and every worker stops.
ShutdownSettles ==
  admissionClosed ~> /\ commandsClosed /\ activeAdmissions = 0
                     /\ \A i \in Ids : worker[i] # "running"

\* A worker whose session left the registry (swept, aborted) ends.
OrphanWorkerEnds ==
  \A i \in Ids : (worker[i] = "running" /\ i \notin map) ~> worker[i] # "running"

\* What the finish replay test promises: once the upload is committed, a
\* finish is not answered 404 or 410 while its report is still kept, the
\* link is open and the sender neither aborted nor met a shutdown.
RetriedFinishNotDiscarded ==
  [][\A i \in Ids, a \in Attempts :
       /\ fin'[i][a] \in {"gone", "notfound"} /\ fin[i][a] # fin'[i][a]
       /\ i \in committed
       => \/ i \in aged \/ ~Usable(adm[i].link)
          \/ abort[i] # "idle" \/ commandsClosed]_vars

\* What commit_partial promises: a published file is named by a record, or
\* can still be, because its link exists.
PublishedFileNamed ==
  \A i \in Ids : disk[i] = "published" /\ ~admissionClosed => links[adm[i].link] # "absent"

=============================================================================
