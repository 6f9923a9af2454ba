------------------------------ MODULE Restore ------------------------------
(***************************************************************************)
(* How a port's state directory is replaced: a restore staged by an        *)
(* administrator (restore_backup_operation of server/src/api/admin.rs), a  *)
(* replica staged by a standby (server/src/standby.rs), the marker both    *)
(* leave (write_pending_restore of server/src/backup.rs), and the boot     *)
(* that applies it (apply_pending_restore, then build of                   *)
(* server/src/app.rs), through crashes and power losses.                   *)
(*                                                                         *)
(* A file is known by its origin: 0 is the port's own data, n the archive  *)
(* that was staged as number n.  A log or a secret has the origin of the   *)
(* database it was made beside.                                            *)
(***************************************************************************)
EXTENDS Integers

CONSTANTS
  Db,             \* votport.db
  Required,       \* identity files every archive has
  Optional,       \* identity files an archive may lack
  Wal, Secret,    \* votport.db-wal and secret, which no archive has
  MaxStages,      \* bound: stages created
  MaxOutages,     \* bound: crashes and power losses
  RestoreFaults   \* what may fail: extract (the archive), sync (the marker's
                  \* directory), sweep (a stage's removal)

Members == {Db} \cup Required \cup Optional
Names == Members \cup {Wal, Secret}
StageIds == 1 .. MaxStages
Origins == -1 .. MaxStages
None == -1

ASSUME RestoreAssumption ==
  /\ MaxStages \in Nat /\ MaxOutages \in Nat
  /\ Wal \notin Members /\ Secret \notin Members /\ Wal # Secret
  /\ Db \notin Required \cup Optional /\ Required \cap Optional = {}
  /\ RestoreFaults \subseteq {"extract", "sync", "sweep"}

VARIABLES
  data,      \* the origin of each file of the data directory
  marker,    \* PendingRestore, as the data directory shows it
  lasting,   \* PendingRestore, as a power loss would leave it
  stage,     \* the files in each stage directory
  rollback,  \* the origin of each file set aside
  unsynced,  \* files whose last rename a power loss may undo
  prepared,  \* stages whose database went through prepare_restored_database
  standby,   \* the standby status file exists
  proc,      \* the process that owns the data directory
  step,        \* where it is
  filling,   \* the stage it is extracting to, or 0
  nextStage, \* stages created so far
  outages

rvars == <<data, marker, lasting, stage, rollback, unsynced, prepared, standby, proc, step,
           filling, nextStage, outages>>
trees == <<data, stage, rollback, unsynced>>
marks == <<marker, lasting>>
place == <<proc, step, filling>>

NoMarker == [stage |-> 0, entries |-> {}, phase |-> "prepared", rollback |-> FALSE]
Nowhere == [x \in Names |-> None]

RestoreInit ==
  /\ data \in {Nowhere, [x \in Names |-> IF x = Wal THEN None ELSE 0]}
  /\ marker = NoMarker /\ lasting = NoMarker
  /\ stage = [n \in StageIds |-> {}] /\ rollback = Nowhere /\ unsynced = {}
  /\ prepared = {} /\ standby = FALSE /\ proc = "down" /\ step = "none"
  /\ filling = 0 /\ nextStage = 0 /\ outages = 0

Stop == proc' = "down" /\ step' = "none" /\ filling' = 0
\* CleanupPath drops the stage of an extraction that ends without a marker.
Unfilled == IF filling = 0 THEN stage ELSE [stage EXCEPT ![filling] = {}]
\* sweep_data_dir_orphans: every stage but the marker's, each of which may fail.
Swept(kept) == [n \in StageIds |-> IF n = marker.stage \/ n \in kept THEN stage[n] ELSE {}]
Fails(kept) == kept = {} \/ "sweep" \in RestoreFaults
Applying == marker.phase # "prepared" \/ marker.rollback

-----------------------------------------------------------------------------
(* Staging: by the running port, or by a standby of another one.           *)

\* restore_backup_operation under the backup lock, ensure_no_pending_restore;
\* pull_replica asks for neither.
BeginExtract ==
  /\ proc = "standby" \/ (proc = "live" /\ marker = NoMarker)
  /\ step = "idle" /\ filling = 0 /\ nextStage < MaxStages
  /\ nextStage' = nextStage + 1 /\ filling' = nextStage'
  /\ UNCHANGED <<trees, marks, prepared, standby, proc, step, outages>>

\* validate_and_extract; every file and the directory are synced.
Extract(entries) ==
  /\ filling # 0 /\ stage[filling] = {}
  /\ {Db} \cup Required \subseteq entries
  /\ stage' = [stage EXCEPT ![filling] = entries]
  /\ UNCHANGED <<data, rollback, unsynced, marks, prepared, standby, place, nextStage, outages>>

\* The archive is unreadable, or a restore is being applied meanwhile.
ExtractFails ==
  /\ filling # 0
  /\ IF stage[filling] = {} THEN "extract" \in RestoreFaults ELSE Applying
  /\ stage' = Unfilled /\ filling' = 0
  /\ UNCHANGED <<data, rollback, unsynced, marks, prepared, standby, proc, step, nextStage, outages>>

\* write_pending_restore.  When the sync of its directory fails the marker may
\* or may not last, and both stages are retained; otherwise the earlier one is
\* removed, which may fail.
MarkPending(synced, removed) ==
  /\ filling # 0 /\ stage[filling] # {} /\ ~Applying
  /\ synced \/ "sync" \in RestoreFaults
  /\ removed \/ ~synced \/ "sweep" \in RestoreFaults
  /\ marker' = [NoMarker EXCEPT !.stage = filling, !.entries = stage[filling]]
  /\ lasting' = IF synced THEN marker' ELSE lasting
  /\ stage' = IF synced /\ removed /\ marker.stage # 0
              THEN [stage EXCEPT ![marker.stage] = {}] ELSE stage
  /\ filling' = 0
  /\ UNCHANGED <<data, rollback, unsynced, prepared, standby, proc, step, nextStage, outages>>

\* The port drains after a restore was staged, or on a signal; its last
\* connection folds the log into the database.
Shutdown ==
  /\ proc \in {"live", "standby"}
  /\ data' = IF proc = "live" THEN [data EXCEPT ![Wal] = None] ELSE data
  /\ stage' = Unfilled /\ Stop
  /\ UNCHANGED <<rollback, unsynced, marks, prepared, standby, nextStage, outages>>

-----------------------------------------------------------------------------
(* The standby's start.                                                    *)

StartStandby ==
  /\ proc = "down" /\ proc' = "standby" /\ step' = "sweep" /\ standby' = TRUE
  /\ UNCHANGED <<trees, marks, prepared, filling, nextStage, outages>>

StandbySweep(kept) ==
  /\ proc = "standby" /\ step = "sweep" /\ Fails(kept)
  /\ stage' = Swept(kept) /\ step' = "discard"
  /\ UNCHANGED <<data, rollback, unsynced, marks, prepared, standby, proc, filling, nextStage,
                 outages>>

\* discard_staged_replica: a restore that is being applied is left alone; the
\* stage goes before the marker.  The removal may fail half-way.
DiscardStage(rest) ==
  /\ proc = "standby" /\ step = "discard"
  /\ IF marker.stage = 0 \/ Applying THEN rest = {} /\ step' = "idle" /\ UNCHANGED stage
     ELSE /\ rest \subseteq stage[marker.stage]
          /\ rest = {} \/ "sweep" \in RestoreFaults
          /\ stage' = [stage EXCEPT ![marker.stage] = rest]
          /\ step' = IF rest = {} THEN "unmark" ELSE "idle"
  /\ UNCHANGED <<data, rollback, unsynced, marks, prepared, standby, proc, filling, nextStage,
                 outages>>

\* Nothing syncs this removal.
DiscardMarker ==
  /\ proc = "standby" /\ step = "unmark"
  /\ marker' = NoMarker /\ step' = "idle"
  /\ UNCHANGED <<trees, lasting, prepared, standby, proc, filling, nextStage, outages>>

-----------------------------------------------------------------------------
(* The boot: apply_pending_restore.                                        *)

Booting(at) == proc = "boot" /\ step = at
Go(at) == step' = at /\ UNCHANGED <<proc, filling>>
Refuse == Stop /\ UNCHANGED <<trees, marks, prepared, standby, nextStage, outages>>
Persist(m) == marker' = m /\ lasting' = m

StartPort ==
  /\ proc = "down" /\ proc' = "boot" /\ step' = "read"
  /\ UNCHANGED <<trees, marks, prepared, standby, filling, nextStage, outages>>

\* The stage holds what the manifest lists (validate_staged_restore); later
\* only the database must be one of two places.
Valid ==
  CASE marker.phase = "prepared" -> stage[marker.stage] = marker.entries
    [] marker.phase = "moved" -> Db \in stage[marker.stage] \/ data[Db] # None
    [] OTHER -> TRUE

ReadMarker ==
  /\ Booting("read")
  /\ IF marker.stage # 0 /\ ~Valid THEN Refuse
     ELSE /\ Go(IF marker.stage = 0 THEN "open"
                ELSE IF marker.phase = "prepared" THEN "choose"
                ELSE IF marker.phase = "moved" THEN "install" ELSE "prepare")
          /\ UNCHANGED <<trees, marks, prepared, standby, nextStage, outages>>

\* The rollback directory is named in the marker before anything moves.
ChooseRollback ==
  /\ Booting("choose")
  /\ Persist([marker EXCEPT !.rollback = TRUE])
  /\ rollback' = IF marker.rollback THEN rollback ELSE Nowhere
  /\ Go("move")
  /\ UNCHANGED <<data, stage, unsynced, prepared, standby, nextStage, outages>>

MoveOld(x) ==
  /\ Booting("move") /\ data[x] # None
  /\ IF rollback[x] # None THEN Refuse
     ELSE /\ rollback' = [rollback EXCEPT ![x] = data[x]]
          /\ data' = [data EXCEPT ![x] = None] /\ unsynced' = unsynced \cup {x}
          /\ UNCHANGED <<stage, marks, prepared, standby, place, nextStage, outages>>

\* Mutant: only the files an archive can have are moved.
OldMovedMembers ==
  /\ Booting("move") /\ \A x \in Members : data[x] = None
  /\ unsynced' = {}
  /\ Persist([marker EXCEPT !.phase = "moved"]) /\ Go("install")
  /\ UNCHANGED <<data, stage, rollback, prepared, standby, nextStage, outages>>

\* Both directories are synced, then the phase is written.
OldMoved ==
  /\ Booting("move") /\ \A x \in Names : data[x] = None
  /\ unsynced' = {}
  /\ Persist([marker EXCEPT !.phase = "moved"]) /\ Go("install")
  /\ UNCHANGED <<data, stage, rollback, prepared, standby, nextStage, outages>>

InstallNew(x) ==
  /\ Booting("install") /\ x \in marker.entries
  /\ IF x \in stage[marker.stage] /\ data[x] = None
     THEN /\ data' = [data EXCEPT ![x] = marker.stage]
          /\ stage' = [stage EXCEPT ![marker.stage] = @ \ {x}]
          /\ unsynced' = unsynced \cup {x}
          /\ UNCHANGED <<rollback, marks, prepared, standby, place, nextStage, outages>>
     ELSE (x \in stage[marker.stage] \/ data[x] # marker.stage) /\ Refuse

NewInstalled ==
  /\ Booting("install") /\ \A x \in marker.entries : data[x] = marker.stage
  /\ stage[marker.stage] \cap marker.entries = {}
  /\ unsynced' = {}
  /\ Persist([marker EXCEPT !.phase = "installed"]) /\ Go("prepare")
  /\ UNCHANGED <<data, stage, rollback, prepared, standby, nextStage, outages>>

\* prepare_restored_database, then write_secrets and write_status: the copy
\* acts on nothing its original had in flight.
PrepareDatabase ==
  /\ Booting("prepare")
  /\ prepared' = prepared \cup {marker.stage} /\ Go("rotate")
  /\ UNCHANGED <<trees, marks, standby, nextStage, outages>>

\* A secret found here was made by an earlier try of this restore.
RotateSecret ==
  /\ Booting("rotate")
  /\ data' = [data EXCEPT ![Secret] = IF @ = None THEN marker.stage ELSE @, ![Wal] = None]
  /\ Go("clear")
  /\ UNCHANGED <<stage, rollback, unsynced, marks, prepared, standby, nextStage, outages>>

ClearStage ==
  /\ Booting("clear")
  /\ stage' = [stage EXCEPT ![marker.stage] = {}] /\ Go("unmark")
  /\ UNCHANGED <<data, rollback, unsynced, marks, prepared, standby, nextStage, outages>>

\* The marker is removed, and lasts until the directory is synced.
RemoveMarker ==
  /\ Booting("unmark") /\ marker' = NoMarker /\ Go("synced")
  /\ UNCHANGED <<trees, lasting, prepared, standby, nextStage, outages>>

SyncRemoval ==
  /\ Booting("synced") /\ lasting' = marker /\ Go("open")
  /\ UNCHANGED <<trees, marker, prepared, standby, nextStage, outages>>

-----------------------------------------------------------------------------
(* The boot goes on (build).                                               *)

\* Store::open: a standby without a database is refused, a new port gets one.
\* A log beside the database is replayed.
OpenStore ==
  /\ Booting("open")
  /\ IF standby /\ data[Db] = None THEN Refuse
     ELSE LET of == IF data[Db] = None THEN 0 ELSE data[Db] IN
          /\ data' = [data EXCEPT ![Db] = of, ![Wal] = IF @ = None THEN of ELSE @]
          /\ Go("opened")
          /\ UNCHANGED <<stage, rollback, unsynced, marks, prepared, standby, nextStage, outages>>

\* retire_standby_status, sweep_data_dir_orphans, and the keys and the secret
\* that are missing are made (load_secret).
Serve(kept) ==
  /\ Booting("opened") /\ Fails(kept)
  /\ standby' = FALSE /\ stage' = Swept(kept)
  /\ data' = [x \in Names |-> IF data[x] = None THEN data[Db] ELSE data[x]]
  /\ proc' = "live" /\ step' = "idle" /\ UNCHANGED filling
  /\ UNCHANGED <<rollback, unsynced, marks, prepared, nextStage, outages>>

-----------------------------------------------------------------------------
(* Outages.                                                                *)

Crash ==
  /\ proc # "down" /\ outages < MaxOutages /\ outages' = outages + 1
  /\ Stop
  /\ UNCHANGED <<trees, marks, prepared, standby, nextStage>>

\* The power fails: the renames in `lost` are undone, and the marker may be
\* the one that lasts.
PowerLoss(lost, m) ==
  /\ outages < MaxOutages /\ outages' = outages + 1
  /\ lost \subseteq unsynced /\ m \in {marker, lasting}
  /\ LET moved == {x \in lost : data[x] = None} IN
     /\ data' = [x \in Names |-> IF x \in moved THEN rollback[x]
                                ELSE IF x \in lost THEN None ELSE data[x]]
     /\ rollback' = [x \in Names |-> IF x \in moved THEN None ELSE rollback[x]]
     /\ stage' = [n \in StageIds |->
                    IF n = marker.stage THEN stage[n] \cup (lost \ moved) ELSE stage[n]]
  /\ unsynced' = {} /\ marker' = m /\ lasting' = m
  /\ Stop
  /\ UNCHANGED <<prepared, standby, nextStage>>

RestoreNext ==
  \/ BeginExtract \/ ExtractFails \/ (\E es \in SUBSET Members : Extract(es))
  \/ (\E synced, removed \in BOOLEAN : MarkPending(synced, removed))
  \/ Shutdown \/ StartStandby \/ DiscardMarker
  \/ (\E kept \in SUBSET StageIds : StandbySweep(kept) \/ Serve(kept))
  \/ (\E rest \in SUBSET Members : DiscardStage(rest))
  \/ StartPort \/ ReadMarker \/ ChooseRollback \/ OldMoved \/ NewInstalled
  \/ (\E x \in Names : MoveOld(x) \/ InstallNew(x))
  \/ PrepareDatabase \/ RotateSecret \/ ClearStage \/ RemoveMarker \/ SyncRemoval \/ OpenStore
  \/ Crash \/ \E lost \in SUBSET Names, m \in {marker, lasting} : PowerLoss(lost, m)

RestoreSpec == RestoreInit /\ [][RestoreNext]_rvars

-----------------------------------------------------------------------------
(* Properties.                                                             *)

Markers == [stage : 0 .. MaxStages, entries : SUBSET Members,
            phase : {"prepared", "moved", "installed"}, rollback : BOOLEAN]

RestoreTypeOK ==
  /\ data \in [Names -> Origins] /\ rollback \in [Names -> Origins]
  /\ marker \in Markers /\ lasting \in Markers
  /\ stage \in [StageIds -> SUBSET Members] /\ unsynced \subseteq Names
  /\ prepared \subseteq StageIds /\ standby \in BOOLEAN
  /\ proc \in {"down", "boot", "live", "standby"}
  /\ step \in {"none", "idle", "sweep", "discard", "unmark", "read", "choose", "move", "install",
             "prepare", "rotate", "clear", "synced", "open", "opened"}
  /\ filling \in 0 .. MaxStages /\ nextStage \in 0 .. MaxStages /\ outages \in 0 .. MaxOutages

\* Every file of the directory is of one origin, and a restored database went
\* through its preparation.
OfOneOrigin ==
  /\ \A x \in Names : data[x] \in {None, data[Db]}
  /\ data[Db] > 0 => data[Db] \in prepared

Whole == OfOneOrigin /\ ~Applying

\* The marked restore has every one of its files in exactly one of two places.
CanFinish ==
  /\ marker.stage # 0 /\ Applying
  /\ \A x \in marker.entries : (x \in stage[marker.stage]) # (data[x] = marker.stage)
  /\ marker.phase = "prepared" => marker.rollback /\ \A x \in Names : data[x] # marker.stage
  /\ marker.phase # "prepared" => \A x \in Names : data[x] \in {None, marker.stage}
  /\ marker.phase = "installed" => stage[marker.stage] \cap marker.entries = {}

\* apply_pending_restore, across crashes, power losses and boots that give up:
\* a port serves one whole origin, so no log of the replaced database is
\* replayed and no browser session survives a restore ("Restoring data must
\* invalidate every pre-restore browser session"); and at every other moment
\* either the directory is whole and nothing has begun to move, or the next
\* boot can finish what it finds.
NeverHalfRestored == Whole \/ (CanFinish /\ proc # "live")

\* The above with the type invariant.
RestoreHolds == RestoreTypeOK /\ NeverHalfRestored
=============================================================================
