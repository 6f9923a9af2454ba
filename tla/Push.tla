-------------------------------- MODULE Push --------------------------------
(***************************************************************************)
(* Native pushes of one package by one sender: the resumable control and   *)
(* its directory lock (create_push_session of server/src/api/upload.rs),   *)
(* the ticket and its connection (admit_push of server/src/app.rs), the    *)
(* shared receive state with its checkpoints (PushReceive of               *)
(* server/src/session.rs), the sweeps and the boot.                        *)
(*                                                                         *)
(* Sender, link and package make one resume key, so every push here has    *)
(* the same key, directory and row.  Each object has one file.  Progress is*)
(* 0 (to be sent), 1 (verified in staging) or 2 (published).               *)
(***************************************************************************)
EXTENDS Integers, FiniteSets

CONSTANTS
  Pushes, NoPush,   \* session ids; each is created once
  Entries,          \* the package's files
  Sweeper,          \* the staging sweep, as a holder of the directory lock
  DropStep,         \* the abort checkpoint of PushReceive::drop
  PushFaults,       \* what may fail: persist (the row), issue (the capability),
                    \* checkpoint, forget (a journal), sweep, clear
  MaxPushBoots      \* bound

ASSUME PushAssumption ==
  /\ NoPush \notin Pushes /\ Sweeper \notin Pushes \cup {NoPush}
  /\ PushFaults \subseteq {"persist", "issue", "checkpoint", "forget", "sweep", "clear"}
  /\ DropStep \notin Entries /\ NoPush \notin Entries \cup {DropStep} /\ MaxPushBoots \in Nat

VARIABLES
  link,      \* open, closed (may be reopened), expired or removed
  row,       \* upload_sessions and upload_session_files under the key
  disk,      \* each file: none, staged or published
  stagedBy,  \* the push whose manifest made the staging in `disk`
  journal,   \* files whose staging or publication journal exists
  dir,       \* the push directory exists
  lock,      \* who holds writer.lock
  reg,       \* the registered session of the key
  opening,   \* the push whose creation is under way
  pass,    \* app.push_tickets: the session, and whether it was used
  recv,      \* PushReceive
  rail,      \* how far each object's completion is
  ck,        \* run_checkpoint
  swp,       \* sweep_push_staging
  named,     \* files a committed upload record names
  announced, \* upload_completed calls per session
  created,   \* session ids handed out
  pushBoots

tables  == <<link, row, named>>
tree  == <<disk, stagedBy, journal, dir>>
memory == <<reg, opening, pass>>
work   == <<recv, rail, ck>>
pvars  == <<link, row, disk, stagedBy, journal, dir, lock, reg, opening, pass, recv, rail, ck, swp,
            named, announced, created, pushBoots>>

Zero == [e \in Entries |-> 0]
NoRecord == [id |-> NoPush, full |-> FALSE, stage |-> NoPush, prog |-> Zero, committed |-> FALSE,
             old |-> FALSE]
NoReg == [id |-> NoPush, parked |-> FALSE, connected |-> FALSE]
NoPass == [id |-> NoPush, used |-> FALSE]
NoReceive == [id |-> NoPush, pc |-> "none", mem |-> Zero, marker |-> Zero, dirty |-> {},
              complete |-> {}, committing |-> FALSE, succeeded |-> FALSE, cancelled |-> FALSE]
NoCheckpoint == [by |-> NoPush, written |-> FALSE, plan |-> {}, at |-> Zero]
Resting == [pc |-> "rest", row |-> NoRecord]

PushInit ==
  /\ link = "open" /\ row = NoRecord
  /\ disk = [e \in Entries |-> "none"] /\ stagedBy = NoPush /\ journal = {} /\ dir = FALSE /\ lock = NoPush
  /\ reg = NoReg /\ opening = NoPush /\ pass = NoPass
  /\ recv = NoReceive /\ rail = [e \in Entries |-> "idle"] /\ ck = NoCheckpoint
  /\ swp = Resting /\ named = {} /\ announced = [s \in Pushes |-> 0] /\ pushBoots = 0 /\ created = {}

Registered == reg.id # NoPush
Unregister(s) == IF reg.id = s THEN NoReg ELSE reg
Park(s) == IF reg.id = s THEN [reg EXCEPT !.parked = TRUE, !.connected = FALSE] ELSE reg
Unlock(s) == IF lock = s THEN NoPush ELSE lock

-----------------------------------------------------------------------------
(* Creation: the lock, the registration, the row, the ticket.              *)

\* The directory is made and locked; a held lock answers 409.
LockDirectory(s) ==
  /\ s \notin created /\ opening = NoPush /\ link = "open" /\ lock = NoPush
  /\ created' = created \cup {s} /\ opening' = s /\ lock' = s /\ dir' = TRUE
  /\ UNCHANGED <<tables, disk, stagedBy, journal, reg, pass, work, swp, announced, pushBoots>>

\* register_session: the parked registration of the key is replaced; one that
\* is not parked refuses.
RegisterPush(s) ==
  /\ opening = s /\ reg.id # s
  /\ IF Registered /\ ~reg.parked
     THEN opening' = NoPush /\ lock' = Unlock(s) /\ UNCHANGED reg
     ELSE reg' = [NoReg EXCEPT !.id = s] /\ UNCHANGED <<opening, lock>>
  /\ UNCHANGED <<tables, tree, pass, work, swp, announced, created, pushBoots>>

\* persist_push, then the capability and its ticket: the row takes over the
\* files of the key's earlier row.
PersistPush(s) ==
  /\ opening = s /\ reg.id = s /\ ~row.committed
  /\ row' = [row EXCEPT !.id = s, !.old = FALSE]
  /\ pass' = [id |-> s, used |-> FALSE] /\ opening' = NoPush
  /\ UNCHANGED <<link, named, tree, lock, reg, work, swp, announced, created, pushBoots>>

\* persist_push fails; on a row awaiting its cleanup it always does.
PersistFails(s) ==
  /\ opening = s /\ reg.id = s /\ (row.committed \/ "persist" \in PushFaults)
  /\ reg' = NoReg /\ lock' = Unlock(s) /\ opening' = NoPush
  /\ UNCHANGED <<tables, tree, pass, work, swp, announced, created, pushBoots>>

\* The capability or its ticket fails after the row: the push is parked.
IssueFails(s) ==
  /\ "issue" \in PushFaults /\ opening = s /\ reg.id = s /\ ~row.committed
  /\ row' = [row EXCEPT !.id = s, !.old = FALSE]
  /\ reg' = Park(s) /\ lock' = Unlock(s) /\ opening' = NoPush
  /\ UNCHANGED <<link, named, tree, pass, work, swp, announced, created, pushBoots>>

\* admit_push for the first rail; later rails share what it sets up.
Connect ==
  /\ pass.id # NoPush /\ ~pass.used /\ reg.id = pass.id /\ link = "open"
  /\ pass' = [pass EXCEPT !.used = TRUE] /\ reg' = [reg EXCEPT !.connected = TRUE]
  /\ recv' = [NoReceive EXCEPT !.id = pass.id, !.pc = "connected"]
  /\ rail' = [e \in Entries |-> "idle"]
  /\ UNCHANGED <<tables, tree, lock, opening, ck, swp, announced, created, pushBoots>>

-----------------------------------------------------------------------------
(* Receiving.                                                              *)

\* restore_files for one file: a settled publication, one that a crash left
\* unrecorded, or the staged prefix.
Restored(e) ==
  IF disk[e] = "published" THEN 2 ELSE row.prog[e]

\* prepare_manifest: the files of the row, or new staging; then the row.
Manifest ==
  /\ recv.pc = "connected" /\ ~recv.cancelled /\ link = "open"
  /\ ~row.committed /\ (row.full => \A e \in Entries : disk[e] # "none")
  /\ stagedBy' = IF row.full THEN stagedBy ELSE recv.id
  /\ LET mem == IF row.full THEN [e \in Entries |-> Restored(e)] ELSE Zero IN
     /\ row' = [NoRecord EXCEPT !.id = recv.id, !.full = TRUE, !.stage = stagedBy', !.prog = mem]
     /\ recv' = [recv EXCEPT !.pc = "ready", !.mem = mem, !.marker = mem]
  /\ disk' = IF row.full THEN disk ELSE [e \in Entries |-> "staged"]
  /\ journal' = IF row.full THEN journal ELSE Entries
  /\ UNCHANGED <<link, named, dir, lock, memory, rail, ck, swp, announced, created, pushBoots>>

Live == recv.pc = "ready" /\ ~recv.cancelled

\* choose_sink: a published object gets the sink that is already done.
ChooseSink(e) ==
  /\ Live /\ rail[e] = "idle"
  /\ rail' = [rail EXCEPT ![e] = "active"]
  /\ UNCHANGED <<tables, tree, lock, memory, recv, ck, swp, announced, created, pushBoots>>

\* write_verified until the object is whole.
Place(e) ==
  /\ Live /\ rail[e] = "active" /\ recv.mem[e] = 0
  /\ recv' = [recv EXCEPT !.mem[e] = 1, !.dirty = @ \cup {e}]
  /\ UNCHANGED <<tables, tree, lock, memory, rail, ck, swp, announced, created, pushBoots>>

\* finish_object takes the files out of the object: for a while neither the
\* entries nor the active objects hold them.
TakeObject(e) ==
  /\ Live /\ link = "open" /\ rail[e] = "active" /\ recv.mem[e] >= 1 /\ ck.by # e
  /\ rail' = [rail EXCEPT ![e] = IF recv.mem[e] = 2 THEN "returned" ELSE "publishing"]
  /\ UNCHANGED <<tables, tree, lock, memory, recv, ck, swp, announced, created, pushBoots>>

\* publish_file, and the file goes back to its entry.
PublishObject(e) ==
  /\ rail[e] = "publishing"
  /\ disk' = [disk EXCEPT ![e] = "published"]
  /\ recv' = [recv EXCEPT !.mem[e] = 2]
  /\ rail' = [rail EXCEPT ![e] = "returned"]
  /\ UNCHANGED <<tables, stagedBy, journal, dir, lock, memory, ck, swp, announced, created, pushBoots>>

\* The object is complete; the last one marks every entry dirty.  A
\* checkpoint follows when one is due (which is left open) or it is the last.
CountObject(e, due) ==
  /\ rail[e] = "returned"
  /\ LET done == recv.complete \cup {e}
         last == done = Entries
     IN /\ recv' = [recv EXCEPT !.complete = done,
                                !.dirty = IF last THEN Entries ELSE @]
        /\ rail' = [rail EXCEPT ![e] = IF due \/ last THEN "waiting" ELSE "checked"]
  /\ UNCHANGED <<tables, tree, lock, memory, ck, swp, announced, created, pushBoots>>

\* After the checkpoint one rail, and only one, goes on to commit.
DecideCommit(e) ==
  /\ rail[e] = "checked"
  /\ LET commits == recv.complete = Entries /\ ~recv.committing IN
     /\ rail' = [rail EXCEPT ![e] = IF commits THEN "committing" ELSE "done"]
     /\ recv' = [recv EXCEPT !.committing = @ \/ commits]
  /\ UNCHANGED <<tables, tree, lock, memory, ck, swp, announced, created, pushBoots>>

\* commit_upload_records and upload_completed.
CommitPush(e) ==
  /\ rail[e] = "committing" /\ link # "removed" /\ row.id = recv.id
  /\ row' = [row EXCEPT !.committed = TRUE] /\ named' = Entries
  /\ announced' = [announced EXCEPT ![recv.id] = @ + 1]
  /\ recv' = [recv EXCEPT !.succeeded = TRUE]
  /\ rail' = [rail EXCEPT ![e] = "done"]
  /\ UNCHANGED <<link, tree, lock, memory, ck, swp, created, pushBoots>>

\* A write, a publication, a commit or the connection fails.  What was taken
\* is put back.
RailFails(e) ==
  /\ recv.pc = "ready" /\ rail[e] \in {"idle", "active", "publishing", "committing"} /\ ck.by # e
  /\ rail' = [rail EXCEPT ![e] = "failed"]
  /\ UNCHANGED <<tables, tree, lock, memory, recv, ck, swp, announced, created, pushBoots>>

-----------------------------------------------------------------------------
(* Checkpoints (run_checkpoint), serialized by `checkpointing`.            *)

\* The rows to write are taken while `inner` is held: dirty entries whose
\* progress differs from their marker.  One that is being published is lost
\* and stays dirty.
BeginCheckpoint(by) ==
  /\ ck.by = NoPush
  /\ IF by = DropStep THEN recv.pc = "dropping"
     ELSE rail[by] = "waiting" \/ (rail[by] = "active" /\ by \in recv.dirty)
  /\ LET lost == {e \in recv.dirty : rail[e] = "publishing"} IN
     /\ ck' = [by |-> by, written |-> FALSE, at |-> recv.mem,
               plan |-> {e \in recv.dirty \ lost : recv.mem[e] # recv.marker[e]}]
     /\ recv' = [recv EXCEPT !.dirty = lost]
  /\ UNCHANGED <<tables, tree, lock, memory, rail, swp, announced, created, pushBoots>>

\* update_upload_file_progress, without `inner`.
WriteCheckpoint ==
  /\ ck.by # NoPush /\ ~ck.written /\ row.id = recv.id
  /\ row' = [row EXCEPT !.prog = [e \in Entries |-> IF e \in ck.plan THEN ck.at[e] ELSE @[e]],
                        !.old = @ /\ ck.plan = {}]
  /\ ck' = [ck EXCEPT !.written = TRUE]
  /\ UNCHANGED <<link, named, tree, lock, memory, recv, rail, swp, announced, created, pushBoots>>

\* The store refuses; the rows stay dirty and the caller fails.
CheckpointFails ==
  /\ "checkpoint" \in PushFaults /\ ck.by # NoPush /\ ~ck.written /\ ck.plan # {}
  /\ recv' = [recv EXCEPT !.dirty = @ \cup ck.plan,
                          !.pc = IF ck.by = DropStep THEN "dropped" ELSE @]
  /\ rail' = IF ck.by = DropStep THEN rail ELSE [rail EXCEPT ![ck.by] = "failed"]
  /\ ck' = NoCheckpoint
  /\ UNCHANGED <<tables, tree, lock, memory, swp, announced, created, pushBoots>>

\* Mutant: the marker takes the entry's progress as it is now.
UnmovedNow == {e \in ck.plan : rail[e] # "publishing"}

\* record_checkpointed: entries that did not move on since the snapshot.
Unmoved == {e \in ck.plan : rail[e] # "publishing" /\ recv.mem[e] = ck.at[e]}

\* The markers are set, and the journals of published files forgotten (each
\* of which may fail and keep its journal).
EndCheckpoint(forgotten) ==
  /\ ck.by # NoPush /\ ck.written
  /\ LET due == {e \in Unmoved : recv.mem[e] = 2} IN
     forgotten = due \/ ("forget" \in PushFaults /\ forgotten \subseteq due)
  /\ journal' = journal \ forgotten
  /\ recv' = [recv EXCEPT !.marker = [e \in Entries |-> IF e \in Unmoved THEN recv.mem[e] ELSE @[e]],
                          !.dirty = @ \cup (ck.plan \ Unmoved),
                          !.pc = IF ck.by = DropStep THEN "dropped" ELSE @]
  /\ rail' = IF ck.by # DropStep /\ rail[ck.by] = "waiting"
             THEN [rail EXCEPT ![ck.by] = "checked"] ELSE rail
  /\ ck' = NoCheckpoint
  /\ UNCHANGED <<tables, disk, stagedBy, dir, lock, memory, swp, announced, created, pushBoots>>

-----------------------------------------------------------------------------
(* The end of a push.                                                      *)

RailEnded == {"idle", "done", "failed"}

\* Drop: every rail has let go of the shared state.
Dropping ==
  /\ recv.pc \in {"connected", "ready"} /\ \A e \in Entries : rail[e] \in RailEnded
  /\ ck.by = NoPush
  /\ recv' = [recv EXCEPT !.pc = IF recv.succeeded THEN "dropped" ELSE "dropping",
                          !.dirty = IF recv.pc = "ready" /\ ~recv.succeeded THEN Entries ELSE @]
  /\ UNCHANGED <<tables, tree, lock, memory, rail, ck, swp, announced, created, pushBoots>>

\* An unfinished push is parked and stays registered; a completed one whose
\* journals remain is left to the boot.
Retained ==
  /\ recv.pc = "dropped" /\ (~recv.succeeded \/ journal # {})
  /\ pass' = IF pass.id = recv.id THEN NoPass ELSE pass
  /\ reg' = IF recv.succeeded THEN Unregister(recv.id) ELSE Park(recv.id)
  /\ lock' = Unlock(recv.id) /\ recv' = NoReceive
  /\ UNCHANGED <<tables, tree, opening, rail, ck, swp, announced, created, pushBoots>>

\* Otherwise the row and the directory go, each of which may fail, and then
\* the registration and the lock.
Cleared(rowGone, dirGone) ==
  /\ (rowGone /\ dirGone) \/ "clear" \in PushFaults
  /\ recv.pc = "dropped" /\ recv.succeeded /\ journal = {}
  /\ row' = IF rowGone /\ row.id = recv.id THEN NoRecord ELSE row
  /\ dir' = (dir /\ ~dirGone)
  /\ disk' = IF row' = NoRecord THEN [e \in Entries |-> "none"] ELSE disk
  /\ named' = IF row' = NoRecord THEN {} ELSE named
  /\ pass' = IF pass.id = recv.id THEN NoPass ELSE pass
  /\ reg' = Unregister(recv.id) /\ lock' = Unlock(recv.id) /\ recv' = NoReceive
  /\ UNCHANGED <<link, stagedBy, journal, opening, rail, ck, swp, announced, created, pushBoots>>

\* upload_abort, a closed link or the idle sweep cancels a connected push.
CancelPush ==
  /\ recv.pc # "none" /\ ~recv.cancelled
  /\ recv' = [recv EXCEPT !.cancelled = TRUE]
  /\ UNCHANGED <<tables, tree, lock, memory, rail, ck, swp, announced, created, pushBoots>>

\* upload_abort of a push that has not connected.
AbortUnconnected ==
  /\ pass.id # NoPush /\ ~pass.used /\ reg.id = pass.id
  /\ reg' = Park(pass.id) /\ lock' = Unlock(pass.id) /\ pass' = NoPass
  /\ UNCHANGED <<tables, tree, opening, work, swp, announced, created, pushBoots>>

CloseLink(to) ==
  /\ link = "open" /\ (to = "removed" => ~Registered)
  /\ link' = to
  /\ UNCHANGED <<row, named, tree, lock, memory, work, swp, announced, created, pushBoots>>

ReopenLink ==
  /\ link = "closed" /\ link' = "open"
  /\ UNCHANGED <<row, named, tree, lock, memory, work, swp, announced, created, pushBoots>>

-----------------------------------------------------------------------------
(* The sweeps.                                                             *)

\* sweep_short runs its duties one after the other: no other sweep meets
\* sweep_push_staging halfway.
\* Sessions::sweep: an idle push that is not connected loses its registration.
SweepIdle ==
  /\ swp.pc = "rest" /\ Registered /\ ~reg.connected /\ opening # reg.id
  /\ reg' = NoReg
  /\ UNCHANGED <<tables, tree, lock, opening, pass, work, swp, announced, created, pushBoots>>

\* sweep_push_tickets: the session is gone, or the ticket expired unused.
SweepTicket ==
  /\ swp.pc = "rest" /\ pass.id # NoPush /\ (reg.id # pass.id \/ ~pass.used)
  /\ recv' = IF recv.id = pass.id THEN [recv EXCEPT !.cancelled = TRUE] ELSE recv
  /\ reg' = IF pass.used THEN reg ELSE Park(pass.id)
  /\ lock' = IF pass.used THEN lock ELSE Unlock(pass.id)
  /\ pass' = NoPass
  /\ UNCHANGED <<tables, tree, opening, rail, ck, swp, announced, created, pushBoots>>

\* PARKED_PUSH_SECS pass without a checkpoint.
Age ==
  /\ row.id # NoPush /\ ~row.old /\ recv.pc = "none"
  /\ row' = [row EXCEPT !.old = TRUE]
  /\ UNCHANGED <<link, named, tree, lock, memory, work, swp, announced, created, pushBoots>>

\* sweep_push_staging reads the rows, and skips those that are registered or
\* still within the window.
SweepPick ==
  /\ swp.pc = "rest" /\ row.id # NoPush /\ ~Registered
  /\ ~row.full \/ (row.old /\ ~row.committed)
  /\ swp' = [pc |-> "picked", row |-> row]
  /\ UNCHANGED <<tables, tree, lock, memory, work, announced, created, pushBoots>>

\* Mutant: the key is not looked up again once the lock is held.
SweepLockOnce ==
  /\ swp.pc = "picked"
  /\ IF dir /\ lock # NoPush THEN swp' = Resting /\ UNCHANGED lock
     ELSE /\ lock' = IF dir THEN Sweeper ELSE lock
          /\ swp' = [swp EXCEPT !.pc = IF swp.row.full THEN "report"
                                       ELSE IF dir THEN "rmdir" ELSE "delete"]
  /\ UNCHANGED <<tables, tree, memory, work, announced, created, pushBoots>>

\* The directory is locked and the key looked up again; a missing directory
\* needs no lock.
SweepLock ==
  /\ swp.pc = "picked"
  /\ IF Registered \/ (dir /\ lock # NoPush) THEN swp' = Resting /\ UNCHANGED lock
     ELSE /\ lock' = IF dir THEN Sweeper ELSE lock
          /\ swp' = [swp EXCEPT !.pc = IF swp.row.full THEN "report"
                                       ELSE IF dir THEN "rmdir" ELSE "delete"]
  /\ UNCHANGED <<tables, tree, memory, work, announced, created, pushBoots>>

\* A staged session is reported, with the published files its row names.
SweepReport ==
  /\ swp.pc = "report"
  /\ named' = IF row.id = swp.row.id /\ link # "removed"
              THEN named \cup {e \in Entries : swp.row.prog[e] = 2} ELSE named
  /\ swp' = [swp EXCEPT !.pc = "delete"]
  /\ UNCHANGED <<link, row, tree, lock, memory, work, announced, created, pushBoots>>

\* The record goes before the files.
SweepDelete ==
  /\ swp.pc = "delete"
  /\ row' = IF row.id = swp.row.id THEN NoRecord ELSE row
  /\ lock' = IF swp.row.full THEN lock ELSE Unlock(Sweeper)
  /\ swp' = IF swp.row.full THEN [swp EXCEPT !.pc = "discard"] ELSE Resting
  /\ UNCHANGED <<link, named, tree, memory, work, announced, created, pushBoots>>

\* discard_session_files, by the paths of the row as it was read, which a later
\* push's staging does not share; what was published stays where it is.
Discarded == [e \in Entries |-> IF disk[e] = "staged" THEN "none" ELSE disk[e]]
SweepDiscard ==
  /\ swp.pc = "discard"
  /\ IF swp.row.stage = stagedBy THEN disk' = Discarded /\ journal' = {}
                             ELSE UNCHANGED <<disk, journal>>
  /\ lock' = IF lock = Sweeper THEN lock ELSE Unlock(Sweeper)
  /\ swp' = IF lock = Sweeper THEN [swp EXCEPT !.pc = "rmdir"] ELSE Resting
  /\ UNCHANGED <<tables, stagedBy, dir, memory, work, announced, created, pushBoots>>

\* remove_push_directory
SweepRemove ==
  /\ swp.pc = "rmdir"
  /\ dir' = FALSE
  /\ lock' = IF swp.row.full THEN Unlock(Sweeper) ELSE lock
  /\ swp' = IF swp.row.full THEN Resting ELSE [swp EXCEPT !.pc = "delete"]
  /\ UNCHANGED <<tables, disk, stagedBy, journal, memory, work, announced, created, pushBoots>>

\* A failure ends the pass for this session.
SweepFails ==
  /\ "sweep" \in PushFaults /\ swp.pc \in {"report", "delete", "discard", "rmdir"}
  /\ swp' = Resting /\ lock' = Unlock(Sweeper)
  /\ UNCHANGED <<tables, tree, memory, work, announced, created, pushBoots>>

-----------------------------------------------------------------------------
(* Crash and boot (resume_upload_session for a push).                      *)

\* The process dies and boots: memory and locks are gone.  A committed row is
\* cleaned up, a row of a dead link discarded, and one whose link is open is
\* registered as parked if its directory can be locked.  Any other is kept,
\* and staging that no row names is swept.
PushBoot ==
  /\ pushBoots < MaxPushBoots /\ pushBoots' = pushBoots + 1
  /\ LET clean == row.id # NoPush /\ row.committed
         dead == row.id # NoPush /\ ~row.committed /\ link \in {"expired", "removed"}
         swept == ~row.full
     IN /\ row' = IF clean \/ dead THEN NoRecord ELSE row
        /\ named' = IF clean THEN {}
                    ELSE IF dead /\ link # "removed"
                         THEN named \cup {e \in Entries : row.prog[e] = 2} ELSE named
        /\ disk' = IF clean THEN [e \in Entries |-> "none"]
                   ELSE IF dead \/ swept THEN Discarded ELSE disk
        /\ journal' = IF clean \/ dead \/ swept THEN {} ELSE journal
        /\ dir' = (dir /\ ~clean /\ ~dead /\ row.id # NoPush)
        /\ reg' = IF row'.id # NoPush /\ link = "open" /\ dir
                  THEN [id |-> row.id, parked |-> TRUE, connected |-> FALSE] ELSE NoReg
  /\ lock' = NoPush /\ opening' = NoPush /\ pass' = NoPass
  /\ recv' = NoReceive /\ rail' = [e \in Entries |-> "idle"] /\ ck' = NoCheckpoint
  /\ swp' = Resting
  /\ UNCHANGED <<link, stagedBy, announced, created>>

PushNext ==
  \/ \E s \in Pushes : LockDirectory(s) \/ RegisterPush(s) \/ PersistPush(s) \/ PersistFails(s)
                       \/ IssueFails(s)
  \/ Connect \/ Manifest
  \/ \E e \in Entries :
       \/ ChooseSink(e) \/ Place(e) \/ TakeObject(e) \/ PublishObject(e)
       \/ (\E due \in BOOLEAN : CountObject(e, due))
       \/ DecideCommit(e) \/ CommitPush(e) \/ RailFails(e)
  \/ \E by \in Entries \cup {DropStep} : BeginCheckpoint(by)
  \/ WriteCheckpoint \/ CheckpointFails \/ \E f \in SUBSET Entries : EndCheckpoint(f)
  \/ Dropping \/ Retained \/ \E r, d \in BOOLEAN : Cleared(r, d)
  \/ CancelPush \/ AbortUnconnected
  \/ \E to \in {"closed", "expired", "removed"} : CloseLink(to)
  \/ ReopenLink
  \/ SweepIdle \/ SweepTicket \/ Age
  \/ SweepPick \/ SweepLock \/ SweepReport \/ SweepDelete \/ SweepDiscard \/ SweepRemove
  \/ SweepFails \/ PushBoot

PushSpec == PushInit /\ [][PushNext]_pvars

-----------------------------------------------------------------------------
(* Properties.                                                             *)

Rows == [id : Pushes \cup {NoPush}, full : BOOLEAN, stage : Pushes \cup {NoPush},
         prog : [Entries -> 0 .. 2], committed : BOOLEAN, old : BOOLEAN]
Regs == [id : Pushes \cup {NoPush}, parked : BOOLEAN, connected : BOOLEAN]
Passes == [id : Pushes \cup {NoPush}, used : BOOLEAN]
Receives ==
  [id : Pushes \cup {NoPush}, pc : {"none", "connected", "ready", "dropping", "dropped"},
   mem : [Entries -> 0 .. 2], marker : [Entries -> 0 .. 2], dirty : SUBSET Entries,
   complete : SUBSET Entries, committing : BOOLEAN, succeeded : BOOLEAN, cancelled : BOOLEAN]
RailSteps == {"idle", "active", "publishing", "returned", "waiting", "checked", "committing",
              "done", "failed"}
Checkpoints ==
  [by : Entries \cup {DropStep, NoPush}, written : BOOLEAN, plan : SUBSET Entries,
   at : [Entries -> 0 .. 2]]
Sweeps == [pc : {"rest", "picked", "report", "delete", "discard", "rmdir"}, row : Rows]

PushTypeOK ==
  /\ link \in {"open", "closed", "expired", "removed"} /\ row \in Rows
  /\ disk \in [Entries -> {"none", "staged", "published"}] /\ stagedBy \in Pushes \cup {NoPush}
  /\ journal \subseteq Entries /\ dir \in BOOLEAN /\ lock \in Pushes \cup {NoPush, Sweeper}
  /\ reg \in Regs /\ opening \in Pushes \cup {NoPush} /\ pass \in Passes
  /\ recv \in Receives /\ rail \in [Entries -> RailSteps] /\ ck \in Checkpoints /\ swp \in Sweeps
  /\ named \subseteq Entries /\ created \subseteq Pushes /\ announced \in [Pushes -> Nat]
  /\ pushBoots \in 0 .. MaxPushBoots

\* run_checkpoint, "a publication journal is only forgotten after the store
\* records the file published": while a row names the files, one that is
\* published without a journal is published in the row too, or in an upload
\* record.  Otherwise a crash would send it a second time under a new name.
JournalUntilRecorded ==
  row.id # NoPush /\ row.full =>
    \A e \in Entries : disk[e] = "published" /\ e \notin journal
                         => row.prog[e] = 2 \/ e \in named

\* run_checkpoint, "Markers therefore never claim store rows that were not
\* committed": the marker of a receiving push never runs ahead of its row.
MarkersCommitted ==
  recv.pc = "ready" => row.id = recv.id /\ \A e \in Entries : recv.marker[e] <= row.prog[e]

\* finish_object: however the rails' completions and checkpoints interleave,
\* a push is announced at most once, and only with every file published.
CompletedOnce ==
  /\ \A s \in Pushes : announced[s] <= 1
  /\ row.committed => \A e \in Entries : disk[e] = "published"

\* sweep_push_staging, "never a record whose staging is gone": as long as the
\* link can still accept the push, every file its row names is staged or
\* published, so the sender can resume, whatever a sweep that read the row
\* earlier goes on to do.
Resumable ==
  row.full /\ ~row.committed /\ link \in {"open", "closed"} =>
    \A e \in Entries : disk[e] # "none"

\* Session::restore of a push, PushDirectory, finish_object: what the tables say
\* a push holds is there for it to resume, its journal outlives every row that
\* needs it, and it is announced once, with every file.
PushHolds ==
  PushTypeOK /\ Resumable /\ JournalUntilRecorded /\ MarkersCommitted /\ CompletedOnce
=============================================================================
