----------------------------- MODULE Retention -----------------------------
(***************************************************************************)
(* The received files of one request link once they are delivered: the     *)
(* retention sweep and its clock (sweep_daily, expire_link_uploads and     *)
(* RetentionClock of server/src/app.rs), legal holds with their marker     *)
(* outside the database (set_link_hold_pin), the operator's deletions      *)
(* (server/src/api/admin.rs), the download grants and incoming workflows   *)
(* that use the files, and a restore that brings back earlier rows.        *)
(*                                                                         *)
(* A task that must not meet another one holds the link's pin              *)
(* (Sessions::try_pin_link).  Each upload has one file; the file of a      *)
(* record is known by the upload that published it first.                  *)
(***************************************************************************)
EXTENDS Integers, FiniteSets

CONSTANTS
  Receipts, NoReceipt, \* the uploads
  Paths, NoPath,       \* stored paths of the link
  Days,                \* the narrowest retention window
  MaxTime, MaxReboots, \* bounds
  MaxBehind,           \* how far the wall clock is set back
  Scopes,              \* what a behaviour is about: of "clock", "hold", "grant",
                       \* "workflow", "share", "restore"; and its own bounds on
                       \* the uploads, the time and the restarts
  RetentionFaults      \* what may fail: flag (the store), unlink

ASSUME RetentionAssumption ==
  /\ NoReceipt \notin Receipts /\ NoPath \notin Paths
  /\ Days \in Nat \ {0} /\ MaxTime \in Nat \ {0, 1} /\ MaxReboots \in Nat /\ MaxBehind \in Nat
  /\ RetentionFaults \subseteq {"flag", "unlink"}
  /\ \A s \in Scopes : s.until \in 0 .. MaxTime /\ s.restarts \in 0 .. MaxReboots

VARIABLES
  scope,
  base,      \* the tables
  archive,   \* the tables as a backup has them
  payload,   \* what is stored at each path
  hold,      \* the legal-holds marker of the link
  receiving, \* registered sessions
  clock,     \* real and wall time, and the retention clock's anchor
  candidate, \* the link as the sweep read it
  task,      \* who holds the link's pin, and how far it is
  held,      \* what was stored when a hold was answered, while it is in force
  owed,      \* when a record's file was completed, in real time
  early,     \* a file was removed before its retention was over
  backdated, \* records stamped while the wall clock was behind the time trusted
  rows,      \* the link's rows: kept, lost (a restore predates the link), or lost
             \* and purged (its tenant was deleted then)
  reboots

xvars == <<scope, base, archive, payload, hold, receiving, clock, candidate, task, held, owed,
           early, backdated, rows, reboots>>
ghosts == <<scope, held, owed, early, backdated, rows, reboots>>

NoTask == [kind |-> "none", pc |-> "none", files |-> {}]
NoCandidate == [pc |-> "rest", now |-> 0, flag |-> FALSE]
Nothing == [p \in Paths |-> NoReceipt]
NoBase == [link |-> FALSE, flag |-> FALSE, policy |-> FALSE, trusted |-> 0,
           rec |-> [u \in Receipts |-> "none"], at |-> [u \in Receipts |-> 0],
           path |-> [u \in Receipts |-> NoPath], object |-> [u \in Receipts |-> NoReceipt],
           grant |-> {}, using |-> {}]

\* The clock was acknowledged when it showed what it shows; it may be slow.  The
\* tenant is there, and its link, unless that is yet to come.
RetentionInit ==
  /\ scope \in Scopes
  /\ \E slow \in IF "clock" \in scope.about THEN {0, 1} ELSE {0},
        made \in IF {"hold", "restore"} \subseteq scope.about THEN BOOLEAN ELSE {TRUE} :
       /\ clock = [real |-> 2, wall |-> 2 - slow, anchor |-> 2 - slow, since |-> 2]
       /\ base = [NoBase EXCEPT !.link = made, !.policy = TRUE, !.trusted = 2 - slow]
  /\ archive = NoBase /\ payload = Nothing /\ hold = FALSE /\ receiving = {}
  /\ candidate = NoCandidate /\ task = NoTask /\ held = Nothing
  /\ owed = [u \in Receipts |-> 0] /\ early = FALSE /\ backdated = {} /\ rows = "kept"
  /\ reboots = 0

Unpinned == task.kind = "none"
LiveRecs == {u \in Receipts : base.rec[u] = "live"}
Naming(p) == {u \in LiveRecs : base.path[u] = p}
Least(a, b) == IF a < b THEN a ELSE b
Most(a, b) == IF a < b THEN b ELSE a
\* The time the retention clock can have come to: its anchor and what has passed.
Ceiling == clock.anchor + (clock.real - clock.since)

-----------------------------------------------------------------------------
(* The link, its uploads, and what uses their files.                       *)

\* create_link: a link of which nothing is stored; a sweep under way has read
\* another one.
CreateLink ==
  /\ {"hold", "restore"} \subseteq scope.about /\ ~base.link /\ ~hold /\ \A u \in Receipts : owed[u] = 0
  /\ base' = [base EXCEPT !.link = TRUE] /\ candidate' = NoCandidate
  /\ UNCHANGED <<archive, payload, hold, receiving, clock, task, ghosts>>

\* A session is registered; a pinned link refuses it (create_upload).
BeginUpload(u) ==
  /\ Unpinned /\ base.link /\ base.rec[u] = "none" /\ owed[u] = 0 /\ u \notin receiving
  /\ Cardinality(receiving \cup {v \in Receipts : owed[v] > 0}) < scope.uploads
  /\ receiving' = receiving \cup {u}
  /\ UNCHANGED <<base, archive, payload, hold, clock, candidate, task, ghosts>>

\* The file is published under a free name, or found to be stored already;
\* one transaction commits the record and queues the incoming workflow.
Completed(u, p, object) ==
  [base EXCEPT !.rec[u] = "live", !.at[u] = clock.wall, !.path[u] = p, !.object[u] = object,
               !.using = IF "workflow" \in scope.about THEN @ \cup {u} ELSE @]
CompleteUpload(u, p) ==
  /\ u \in receiving
  /\ payload[p] # NoReceipt => "share" \in scope.about /\ \E v \in Naming(p) : base.object[v] = payload[p]
  /\ LET object == IF payload[p] = NoReceipt THEN u ELSE payload[p] IN
     /\ base' = Completed(u, p, object) /\ payload' = [payload EXCEPT ![p] = object]
  /\ receiving' = receiving \ {u} /\ owed' = [owed EXCEPT ![u] = clock.real]
  /\ backdated' = IF clock.wall < Ceiling THEN backdated \cup {u} ELSE backdated
  /\ UNCHANGED <<scope, archive, hold, clock, candidate, task, held, early, rows, reboots>>

\* The deliveries of a received package are archived.
RetireWorkflow(u) ==
  /\ u \in base.using /\ base' = [base EXCEPT !.using = @ \ {u}]
  /\ UNCHANGED <<archive, payload, hold, receiving, clock, candidate, task, ghosts>>

\* create_outbound_grant_inner for a received file, under the pin.
GrantFile(u) ==
  /\ "grant" \in scope.about /\ Unpinned /\ u \in LiveRecs \ base.grant
  /\ payload[base.path[u]] # NoReceipt
  /\ base' = [base EXCEPT !.grant = @ \cup {u}]
  /\ UNCHANGED <<archive, payload, hold, receiving, clock, candidate, task, ghosts>>

\* Revoked, expired or used up; no pin is taken.
EndGrant(u) ==
  /\ u \in base.grant /\ base' = [base EXCEPT !.grant = @ \ {u}]
  /\ UNCHANGED <<archive, payload, hold, receiving, clock, candidate, task, ghosts>>

-----------------------------------------------------------------------------
(* Time.                                                                   *)

Tick ==
  /\ clock.real < scope.until
  /\ clock' = [clock EXCEPT !.real = @ + 1, !.wall = @ + 1]
  /\ UNCHANGED <<base, archive, payload, hold, receiving, candidate, task, ghosts>>

\* A forward correction of the wall clock, which may overshoot.
StepClock ==
  /\ "clock" \in scope.about /\ clock.wall <= clock.real
  /\ clock' = [clock EXCEPT !.wall = @ + 1]
  /\ UNCHANGED <<base, archive, payload, hold, receiving, candidate, task, ghosts>>

\* The wall clock is set back; StepClock corrects it later.
SetBack ==
  /\ "clock" \in scope.about /\ clock.wall > Most(1, clock.real - MaxBehind)
  /\ clock' = [clock EXCEPT !.wall = @ - 1]
  /\ UNCHANGED <<base, archive, payload, hold, receiving, candidate, task, ghosts>>

\* RetentionClock::acknowledge: the operator vouches for the clock as it is, so
\* no record's time is owed any more.
Acknowledge ==
  /\ "clock" \in scope.about
  /\ base' = [base EXCEPT !.trusted = Most(@, clock.wall)]
  /\ clock' = [clock EXCEPT !.anchor = base'.trusted, !.since = clock.real]
  /\ owed' = [u \in Receipts |-> Least(owed[u], 1)]
  /\ UNCHANGED <<scope, archive, payload, hold, receiving, candidate, task, held, early,
                 backdated, rows, reboots>>

\* Mutant: the age follows the wall clock.
EffectiveWall == clock.wall

\* observe_locked: the wall clock, capped by the time that has passed since
\* the anchor was read.
Effective == Least(clock.wall, Ceiling)

-----------------------------------------------------------------------------
(* The sweep.                                                              *)

\* sweep_daily observes the clock and reads the settings and the link.
SweepRead ==
  /\ candidate.pc = "rest" /\ base.link /\ base.policy
  /\ candidate' = [pc |-> "read", now |-> Effective, flag |-> base.flag]
  /\ base' = [base EXCEPT !.trusted = Most(@, Effective)]
  /\ UNCHANGED <<archive, payload, hold, receiving, clock, task, ghosts>>

\* Mutant: only the flag of the row is looked at.
SweepCheckFlag ==
  /\ candidate.pc = "read"
  /\ candidate' = IF candidate.flag \/ base.using # {}
                  THEN NoCandidate ELSE [candidate EXCEPT !.pc = "checked"]
  /\ UNCHANGED <<base, archive, payload, hold, receiving, clock, task, ghosts>>

\* expire_link_uploads_sync before it has the pin: the hold in the row or out
\* of the database, and the workflows that still use the files.
SweepCheck ==
  /\ candidate.pc = "read"
  /\ candidate' = IF candidate.flag \/ hold \/ base.using # {}
                  THEN NoCandidate ELSE [candidate EXCEPT !.pc = "checked"]
  /\ UNCHANGED <<base, archive, payload, hold, receiving, clock, task, ghosts>>

\* Mutant: a young record or a grant protects its own record only.
ExpiredAlone(cutoff) ==
  {base.path[u] : u \in {v \in LiveRecs \ base.grant : base.at[v] < cutoff}}

\* Files whose records are all past the cutoff and in no active grant.
Expired(cutoff) ==
  {base.path[u] : u \in {v \in LiveRecs : base.at[v] < cutoff}}
    \ {base.path[u] : u \in base.grant \cup {v \in LiveRecs : base.at[v] >= cutoff}}

\* What prepare_received_removal admits: the record's own file, or none.
Removable(p) == payload[p] = NoReceipt \/ \E u \in Naming(p) : payload[p] = base.object[u]

\* With the pin, no session and the row read again; a pin held elsewhere ends
\* the pass.
SweepPin ==
  /\ candidate.pc = "checked"
  /\ candidate' = NoCandidate
  /\ LET doomed == {p \in Expired(candidate.now - Days) : Removable(p)} IN
     task' = IF Unpinned /\ receiving = {} /\ base.link /\ ~base.flag /\ doomed # {}
             THEN [kind |-> "sweep", pc |-> "tombstone", files |-> doomed] ELSE task
  /\ UNCHANGED <<base, archive, payload, hold, receiving, clock, ghosts>>

-----------------------------------------------------------------------------
(* Removal, by the sweep or an operator.                                   *)

\* tombstone_files: every live record of the path.
Tombstone ==
  /\ task.pc = "tombstone"
  /\ LET gone == {u \in LiveRecs : base.path[u] \in task.files} IN
     /\ base' = [base EXCEPT !.rec = [u \in Receipts |-> IF u \in gone THEN "gone" ELSE @[u]]]
     /\ early' = (early \/ (task.kind = "sweep"
                             /\ \E u \in gone \ backdated : owed[u] + Days > clock.real))
  /\ task' = [task EXCEPT !.pc = "remove"]
  /\ UNCHANGED <<scope, archive, payload, hold, receiving, clock, candidate, held, owed,
                 backdated, rows, reboots>>

\* PreparedRemoval::remove; a file that cannot be removed stays.
Remove(done) ==
  /\ task.pc = "remove"
  /\ done = task.files \/ ("unlink" \in RetentionFaults /\ done \subseteq task.files)
  /\ payload' = [p \in Paths |-> IF p \in done THEN NoReceipt ELSE payload[p]]
  /\ task' = NoTask
  /\ UNCHANGED <<base, archive, hold, receiving, clock, candidate, ghosts>>

\* What every deletion asks for under the pin.
Deletable == Unpinned /\ receiving = {} /\ base.using = {} /\ base.link /\ ~base.flag /\ ~hold

\* delete_received_file_sync
DeleteFile(u) ==
  /\ Deletable /\ u \in LiveRecs /\ Removable(base.path[u])
  /\ \A v \in base.grant : base.path[v] # base.path[u]
  /\ task' = [kind |-> "delete", pc |-> "tombstone", files |-> {base.path[u]}]
  /\ UNCHANGED <<base, archive, payload, hold, receiving, clock, candidate, ghosts>>

\* delete_upload_record
DeleteRecord(u) ==
  /\ Deletable /\ base.rec[u] = "gone" /\ u \notin base.grant
  /\ base' = [base EXCEPT !.rec[u] = "none"]
  /\ UNCHANGED <<archive, payload, hold, receiving, clock, candidate, task, ghosts>>

\* delete_link
DeleteLink ==
  /\ Deletable /\ LiveRecs = {} /\ base.grant = {}
  /\ base' = [NoBase EXCEPT !.policy = base.policy, !.trusted = base.trusted]
  /\ UNCHANGED <<archive, payload, hold, receiving, clock, candidate, task, ghosts>>

\* delete_tenant: no link of the tenant in the tables, and the tenant's subtree
\* goes; no hold marker is asked for.  What cannot be removed stays.
DeleteTenant(done) ==
  /\ ~base.link /\ receiving = {} /\ payload # Nothing
  /\ done = Paths \/ "unlink" \in RetentionFaults
  /\ payload' = [p \in Paths |-> IF p \in done THEN NoReceipt ELSE payload[p]]
  /\ rows' = IF rows = "kept" THEN rows ELSE "purged"
  /\ UNCHANGED <<scope, base, archive, hold, receiving, clock, candidate, task, held, owed,
                 early, backdated, reboots>>

-----------------------------------------------------------------------------
(* Legal holds (update_link): the marker goes down before the flag and comes *)
(* off after it.                                                           *)

BeginHold ==
  /\ "hold" \in scope.about /\ Unpinned /\ base.link
  /\ task' = [NoTask EXCEPT !.kind = "hold", !.pc = "marker"]
  /\ UNCHANGED <<base, archive, payload, hold, receiving, clock, candidate, ghosts>>

\* create_new refuses a marker that is there already.
HoldMarker ==
  /\ task.kind = "hold" /\ task.pc = "marker"
  /\ hold' = TRUE /\ task' = IF hold THEN NoTask ELSE [task EXCEPT !.pc = "flag"]
  /\ UNCHANGED <<base, archive, payload, receiving, clock, candidate, ghosts>>

\* set_link_legal_hold, and the answer.  A store that fails leaves the marker.
HoldFlag(stored) ==
  /\ task.kind = "hold" /\ task.pc = "flag"
  /\ stored \/ "flag" \in RetentionFaults
  /\ base' = IF stored THEN [base EXCEPT !.flag = TRUE] ELSE base
  /\ held' = IF stored THEN payload ELSE held
  /\ task' = NoTask
  /\ UNCHANGED <<scope, archive, payload, hold, receiving, clock, candidate, owed, early,
                 backdated, rows, reboots>>

\* Mutant: the marker comes off first.
ReleaseMarkerFirst ==
  /\ "hold" \in scope.about /\ Unpinned /\ base.link
  /\ hold' = FALSE /\ task' = [NoTask EXCEPT !.kind = "release", !.pc = "flag"]
  /\ UNCHANGED <<base, archive, payload, receiving, clock, candidate, ghosts>>

\* The operator releases the hold.
BeginRelease ==
  /\ "hold" \in scope.about /\ Unpinned /\ base.link
  /\ task' = [NoTask EXCEPT !.kind = "release", !.pc = "flag"] /\ held' = Nothing
  /\ UNCHANGED <<scope, base, archive, payload, hold, receiving, clock, candidate, owed, early,
                 backdated, rows, reboots>>

ReleaseFlag(stored) ==
  /\ task.kind = "release" /\ task.pc = "flag"
  /\ stored \/ "flag" \in RetentionFaults
  /\ base' = IF stored THEN [base EXCEPT !.flag = FALSE] ELSE base
  /\ task' = IF stored THEN [task EXCEPT !.pc = "marker"] ELSE NoTask
  /\ UNCHANGED <<archive, payload, hold, receiving, clock, candidate, ghosts>>

ReleaseMarker ==
  /\ task.kind = "release" /\ task.pc = "marker"
  /\ hold' = FALSE /\ task' = NoTask
  /\ UNCHANGED <<base, archive, payload, receiving, clock, candidate, ghosts>>

-----------------------------------------------------------------------------
(* Restarts and restores.                                                  *)

\* RetentionClock::open anchors at the last trusted time.
Reopen(trusted) ==
  /\ reboots < scope.restarts /\ reboots' = reboots + 1
  /\ receiving' = {} /\ candidate' = NoCandidate /\ task' = NoTask
  /\ clock' = [clock EXCEPT !.anchor = trusted, !.since = clock.real]

Reboot ==
  /\ Reopen(base.trusted)
  /\ UNCHANGED <<scope, base, archive, payload, hold, held, owed, early, backdated, rows>>

Backup ==
  /\ "restore" \in scope.about /\ archive = NoBase /\ archive' = base
  /\ UNCHANGED <<base, payload, hold, receiving, clock, candidate, task, ghosts>>

\* prepare_restored_database ends what the copy had in flight and turns
\* retention off; survey_restored_payloads tombstones the records whose file
\* is missing if it may trust what it sees.
AsRestored(trusts) ==
  [archive EXCEPT !.grant = {}, !.using = {}, !.policy = FALSE,
     !.rec = [u \in Receipts |-> IF trusts /\ @[u] = "live" /\ payload[archive.path[u]] = NoReceipt
                                 THEN "gone" ELSE @[u]]]
RestoreBackup(trusts) ==
  /\ archive # NoBase
  /\ Reopen(archive.trusted) /\ base' = AsRestored(trusts)
  /\ rows' = IF rows = "kept" /\ ~archive.link THEN "lost" ELSE rows
  /\ UNCHANGED <<scope, archive, payload, hold, held, owed, early, backdated>>

\* An administrator turns retention on again.
SetPolicy ==
  /\ ~base.policy /\ base.link /\ base' = [base EXCEPT !.policy = TRUE]
  /\ UNCHANGED <<archive, payload, hold, receiving, clock, candidate, task, ghosts>>

RetentionNext ==
  \/ \E u \in Receipts :
       \/ BeginUpload(u) \/ RetireWorkflow(u) \/ GrantFile(u) \/ EndGrant(u)
       \/ DeleteFile(u) \/ DeleteRecord(u)
       \/ (\E p \in Paths : CompleteUpload(u, p))
  \/ CreateLink \/ Tick \/ StepClock \/ SetBack \/ Acknowledge
  \/ SweepRead \/ SweepCheck \/ SweepPin \/ Tombstone \/ (\E f \in SUBSET Paths : Remove(f))
  \/ DeleteLink \/ (\E f \in SUBSET Paths : DeleteTenant(f))
  \/ BeginHold \/ HoldMarker \/ BeginRelease \/ ReleaseMarker
  \/ (\E stored \in BOOLEAN : HoldFlag(stored) \/ ReleaseFlag(stored))
  \/ Reboot \/ Backup \/ (\E t \in BOOLEAN : RestoreBackup(t)) \/ SetPolicy

RetentionSpec == RetentionInit /\ [][RetentionNext]_xvars

-----------------------------------------------------------------------------
(* Properties.                                                             *)

Bases == [link : BOOLEAN, flag : BOOLEAN, policy : BOOLEAN, trusted : 0 .. MaxTime + 1,
          rec : [Receipts -> {"none", "live", "gone"}], at : [Receipts -> 0 .. MaxTime + 1],
          path : [Receipts -> Paths \cup {NoPath}],
          object : [Receipts -> Receipts \cup {NoReceipt}],
          grant : SUBSET Receipts, using : SUBSET Receipts]

RetentionTypeOK ==
  /\ scope \in Scopes /\ base \in Bases /\ archive \in Bases
  /\ payload \in [Paths -> Receipts \cup {NoReceipt}]
  /\ held \in [Paths -> Receipts \cup {NoReceipt}]
  /\ hold \in BOOLEAN /\ early \in BOOLEAN /\ receiving \subseteq Receipts
  /\ clock \in [real : 0 .. MaxTime, wall : 0 .. MaxTime + 1, anchor : 0 .. MaxTime + 1,
                since : 0 .. MaxTime]
  /\ candidate \in [pc : {"rest", "read", "checked"}, now : 0 .. MaxTime + 1, flag : BOOLEAN]
  /\ task.kind \in {"none", "sweep", "delete", "hold", "release"} /\ task.files \subseteq Paths
  /\ task.pc \in {"none", "tombstone", "remove", "marker", "flag"}
  /\ owed \in [Receipts -> 0 .. MaxTime] /\ reboots \in 0 .. MaxReboots
  /\ backdated \subseteq Receipts /\ rows \in {"kept", "lost", "purged"}

\* legal_holds_dir, "a hold stays enforced until an operator releases it
\* explicitly": what was stored when a hold was answered stays stored, through
\* sweeps and deletions under way, crashes, and a restore of rows that predate
\* the hold.  One case is excepted, in which that comment is not true of the
\* code: delete_tenant asks for rows of links only, so after a restore of rows
\* that predate the link it takes the held files too.
HoldsKept == rows # "purged" => \A p \in Paths : held[p] # NoReceipt => payload[p] = held[p]

\* expire_link_uploads_sync, delete_received_file: no removal takes a file that
\* an active grant serves or an incoming workflow uses, and the sweep takes
\* none before it has been stored as long as the retention says, however the
\* wall clock is moved forward ("a forward clock correction cannot suddenly age
\* stored data", docs/deployment.md).  Excepted are the records stamped while
\* the wall clock was set back behind the time the retention clock had come to:
\* when it is corrected they look older than they are, the doc's sentence is not
\* true of them, and one may go early or under a sweep that looked for workflows
\* before its file was stored.
NothingTakenEarly ==
  /\ \A u \in base.grant \cup (base.using \ backdated) : payload[base.path[u]] # NoReceipt
  /\ ~early

\* legal_holds_dir, sweep, restore: a hold keeps what it covers, and nothing is
\* taken early, but for what the two properties except; with the type invariant.
RetentionHolds == RetentionTypeOK /\ HoldsKept /\ NothingTakenEarly
=============================================================================
