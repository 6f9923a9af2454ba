------------------------------ MODULE Receive -------------------------------
(***************************************************************************)
(* One HTTP upload session from its seal to its last byte, through crashes *)
(* and restarts: the session worker (server/src/session.rs, spawn_worker   *)
(* to commit_upload) and the boot that re-attaches it (server/src/app.rs,  *)
(* resume_upload_sessions).                                                *)
(*                                                                         *)
(* Durable state is the session row, the upload records, the staging files *)
(* with their journals, and the destination names.  The worker is one      *)
(* thread, so it is a program counter; every step that makes a durable     *)
(* change is an action of its own, and a crash may fall between any two.   *)
(* The file operations of the vot-sdk-file library are modelled from how   *)
(* session.rs uses them: publish moves a staged file to its destination    *)
(* and retains the journal; recover and resume need that journal.          *)
(***************************************************************************)
EXTENDS Integers, FiniteSets

CONSTANTS
  Files,      \* the entries of the package
  Length,     \* how many ranges each entry has
  Earlier,    \* entries an earlier upload of the link may have delivered
  Faults,     \* the faults that may happen, see AllFaults
  LinkEvents, \* what the operator or the clock may do to the link
  Patient,    \* the sender never cancels and never goes idle
  MaxCrashes  \* bound: restarts of the server

AllFaults ==
  {"insert", "save", "append", "load", \* a store call fails
   "delete", "clean",                            \* delete_upload_session by the worker, at a boot
   "location", "taken", "forget", "discard",     \* a file operation fails
   "resume", "lease",                            \* receiving storage is lost
   "power"}                                      \* a crash loses unsynced writes
AllLinkEvents == {"close", "expire", "remove"}

ASSUME ReceiveAssumption ==
  /\ IsFiniteSet(Files) /\ Earlier \subseteq Files
  /\ Length \in [Files -> Nat]
  /\ Faults \subseteq AllFaults /\ LinkEvents \subseteq AllLinkEvents
  /\ Patient \in BOOLEAN /\ MaxCrashes \in Nat

VARIABLES
  link,      \* "usable", "closed", "expired", "absent"
  row,       \* upload_sessions: "none", "open", "committed"
  rowPub,    \* published flags of upload_session_files
  rowPrefix, \* prefix_bytes of upload_session_files, as the ranges below it
  reported,  \* interruption_reported
  named,     \* files named by an upload record of the link
  full,      \* the complete upload record is committed
  staging, journal, \* files whose staging and journal are on disk
  good,      \* ranges of a staging file whose bytes are the object's
  dest,      \* destination name: "none", "good", "bad" (not the object's bytes)
  \* the worker's memory
  pc,        \* where the worker, or the boot, stands
  why,       \* the operation a publication or a checkpoint is part of
  pub,       \* FileState.published
  cover,     \* StagedFile.coverage
  rehash,    \* FileState.rehash
  preserve,  \* StagedFile.preserve
  due,       \* files the running operation still has to publish or forget
  ok,        \* whether the running checkpoint is complete so far
  live,      \* destinations.check_live
  crashes

record  == <<named, full>>
table   == <<row, rowPub, rowPrefix, reported>>
disk    == <<staging, journal, good, dest>>
files   == <<pub, cover, rehash, preserve>>
control == <<pc, why, due, ok>>
env     == <<link, live, crashes>>
vars == <<record, table, disk, files, control, env>>

Ranges(f) == 1 .. Length[f]
\* Mutant: an off-by-one records the range after the prefix too.
PrefixAndNext(S) == {1} \cup {r + 1 : r \in {n \in S : 1 .. n \subseteq S}}
\* The contiguous prefix of the covered ranges.
Prefix(S) == {r \in S : 1 .. r \subseteq S}
Complete(f) == cover[f] = Ranges(f)
Usable == link = "usable"
\* permanent_refusal_detail: the link was deleted or has expired.
Dead == link \in {"expired", "absent"}
Delivered == {f \in Files : dest[f] # "none"}

Init ==
  /\ link = "usable" /\ row = "none" /\ rowPub = {} /\ reported = FALSE
  /\ rowPrefix = [f \in Files |-> {}]
  /\ named \in SUBSET Earlier /\ full = FALSE
  /\ staging = {} /\ journal = {} /\ good = [f \in Files |-> {}]
  /\ dest = [f \in Files |-> IF f \in named THEN "good" ELSE "none"]
  /\ pc = "seal" /\ why = "none" /\ due = {} /\ ok = TRUE
  /\ pub = {} /\ cover = [f \in Files |-> {}] /\ rehash = {} /\ preserve = {}
  /\ live = TRUE /\ crashes = 0

\* Enter a phase of the worker with its context.
Goto(p, w, S) == pc' = p /\ why' = w /\ due' = S /\ ok' = TRUE
\* checkpoint_session, as part of operation w.
Checkpoint(w) == Goto("save", w, {})
Idle == Goto("idle", "none", {})
Ended == Goto("ended", "none", {})
\* Publish the files of S as part of w, or go on where w goes on.
AfterPublishing(w) ==
  \/ w = "begin" /\ Idle
  \/ w = "chunk" /\ Goto("pace", "none", {})
  \/ w = "restore" /\ Checkpoint("restore")
PublishAll(S, w) ==
  \/ S # {} /\ Goto("publish", w, S)
  \/ S = {} /\ AfterPublishing(w)

-----------------------------------------------------------------------------
(* Seal, pages and begin.                                                  *)

HandleSeal ==
  /\ pc = "seal" /\ Usable
  /\ Goto("pages", "none", {})
  /\ UNCHANGED <<record, table, disk, files, env>>

\* Begin consumes the pages: every refusal ends the worker.
BeginRefused ==
  /\ pc = "pages" /\ Usable
  /\ Ended
  /\ UNCHANGED <<record, table, disk, files, env>>

\* find_delivered reuses what a record names; the rest gets staging files.
PrepareFiles ==
  /\ pc = "pages" /\ Usable /\ live
  /\ pub' = {f \in Files : f \in named /\ dest[f] = "good"}
  /\ staging' = Files \ pub' /\ journal' = Files \ pub'
  /\ Goto("staged", "none", {})
  /\ UNCHANGED <<record, table, good, dest, cover, rehash, preserve, env>>

Empties == {f \in Files \ pub : Length[f] = 0}

\* persist_session, then handle_begin publishes the empty entries.
PersistSession ==
  /\ pc = "staged"
  /\ row' = "open" /\ rowPub' = pub
  /\ rowPrefix' = [f \in Files |-> IF f \in pub THEN Ranges(f) ELSE {}]
  /\ PublishAll(Empties, "begin")
  /\ UNCHANGED <<record, reported, disk, files, env>>
\* The admission was not stored: nothing published, the staging is dropped.
PersistFails ==
  /\ pc = "staged" /\ "insert" \in Faults
  /\ Goto("drop", "none", {})
  /\ UNCHANGED <<record, table, disk, files, env>>

\* A reconnecting sender begins again.
Rebegin ==
  /\ pc = "idle" /\ Usable /\ Empties # {}
  /\ Goto("publish", "begin", Empties)
  /\ UNCHANGED <<record, table, disk, files, env>>

-----------------------------------------------------------------------------
(* Ranges and publications.                                                *)

\* Mutant: the range is recorded although its write failed.
AcceptRangeUnwritten(f, r) ==
  /\ pc = "idle" /\ Usable /\ live
  /\ f \in staging \ pub
  /\ r \notin cover[f]
  /\ cover' = [cover EXCEPT ![f] = @ \cup {r}]
  /\ PublishAll(IF cover'[f] = Ranges(f) THEN {f} ELSE {}, "chunk")
  /\ UNCHANGED <<record, table, disk, pub, rehash, preserve, env>>

\* A range of a file that is complete but not published is a replay, and
\* publishes it again.
AcceptRange(f, r) ==
  /\ pc = "idle" /\ Usable /\ live
  /\ f \in staging \ pub
  /\ r \notin cover[f] \/ Complete(f)
  /\ cover' = [cover EXCEPT ![f] = @ \cup {r}]
  /\ good' = [good EXCEPT ![f] = IF r \in cover[f] THEN @ ELSE @ \cup {r}]
  /\ PublishAll(IF cover'[f] = Ranges(f) THEN {f} ELSE {}, "chunk")
  /\ UNCHANGED <<record, table, staging, journal, dest, pub, rehash, preserve, env>>

\* The publication of one file failed: the operation stops publishing.
PublishFailed ==
  \/ why = "begin" /\ Idle
  \/ why = "chunk" /\ Goto("pace", "none", {})
  \/ why = "restore" /\ Checkpoint("refuse")

\* opened_object_valid on a staging file whose coverage was only recorded.
RehashRefuses(f) == f \in rehash /\ good[f] # Ranges(f)

ForgetCoverage(f) == [cover EXCEPT ![f] = {}]
\* prepare_publication finds other bytes: the coverage starts over.
PublishStale(f) ==
  /\ pc = "publish" /\ f \in due /\ f \in staging /\ live
  /\ RehashRefuses(f)
  /\ cover' = ForgetCoverage(f) /\ rehash' = rehash \ {f}
  /\ PublishFailed
  /\ UNCHANGED <<record, table, disk, pub, preserve, env>>

\* publish_retaining_journal: the destination appears, the journal stays.
Publishes(f) ==
  /\ pc = "publish" /\ f \in due /\ f \in staging /\ live
  /\ ~RehashRefuses(f)
  /\ staging' = staging \ {f}
  /\ dest' = [dest EXCEPT ![f] = IF good[f] = Ranges(f) THEN "good" ELSE "bad"]
  /\ rehash' = rehash \ {f} /\ preserve' = preserve \cup {f}
Published(f) ==
  /\ Publishes(f)
  /\ pub' = pub \cup {f}
  /\ PublishAll(due \ {f}, why)
  /\ UNCHANGED <<record, table, journal, good, cover, env>>
\* The name is there but check_location could not confirm it.
PublishUnconfirmed(f) ==
  /\ "location" \in Faults
  /\ Publishes(f)
  /\ PublishFailed
  /\ UNCHANGED <<record, table, journal, good, pub, cover, env>>
\* The name was taken, the storage was lost, or the staging is gone.
PublishRefused(f) ==
  /\ pc = "publish" /\ f \in due
  /\ "taken" \in Faults \/ ~live \/ f \notin staging
  /\ rehash' = IF live /\ f \in staging THEN rehash \ {f} ELSE rehash
  /\ ~(live /\ f \in staging /\ RehashRefuses(f))
  /\ PublishFailed
  /\ UNCHANGED <<record, table, disk, pub, cover, preserve, env>>

-----------------------------------------------------------------------------
(* Checkpoints.                                                            *)

\* PersistTracker.should_checkpoint: time and bytes decide.
Pace ==
  /\ pc = "pace"
  /\ Idle \/ Checkpoint("pace")
  /\ UNCHANGED <<record, table, disk, files, env>>

\* Mutant: only the lease makes an end unresolved.
UnresolvedLease == ~live
\* commit_partial: some file is neither published nor safe to drop.
Unresolved == ~live \/ \E f \in Files \ pub : f \in preserve

\* A checkpoint ended; complete tells whether everything was kept.
AfterCheckpoint(complete) ==
  \/ why = "pace" /\ Idle
  \/ why = "finish" /\ complete /\ Goto("delete", "worker", {})
  \/ why = "finish" /\ ~complete /\ Ended
  \/ why = "partial" /\ complete /\ Goto("delete", "worker", {})
  \/ why = "partial" /\ ~complete /\ Checkpoint("preserve")
  \/ why = "preserve" /\ Ended
  \/ why = "restore" /\ Goto("resumed", "none", {})
  \/ why = "refuse" /\ Goto("refuse", "none", {})

\* Mutant: journals are retired although the transaction failed.
CheckpointFailsForgets ==
  /\ pc = "save" /\ "save" \in Faults
  /\ Goto("forget", why, pub \cap journal)
  /\ UNCHANGED <<record, table, disk, files, env>>

\* checkpoint_files: one transaction over the files that changed.
CheckpointFiles ==
  /\ pc = "save"
  /\ rowPub' = pub
  /\ rowPrefix' = [f \in Files |-> IF f \in pub \ journal THEN Ranges(f) ELSE Prefix(cover[f])]
  /\ Goto("forget", why, pub \cap journal)
  /\ UNCHANGED <<record, row, reported, disk, files, env>>
CheckpointFails ==
  /\ pc = "save" /\ "save" \in Faults
  /\ AfterCheckpoint(FALSE)
  /\ UNCHANGED <<record, table, disk, files, env>>

\* forget_publications retires the journals of published files.
ForgetPublication(f) ==
  /\ pc = "forget" /\ f \in due /\ live
  /\ journal' = journal \ {f} /\ due' = due \ {f}
  /\ UNCHANGED <<record, table, staging, good, dest, files, pc, why, ok, env>>
ForgetFails(f) ==
  /\ pc = "forget" /\ f \in due
  /\ "forget" \in Faults \/ ~live
  /\ due' = due \ {f} /\ ok' = FALSE
  /\ UNCHANGED <<record, table, disk, files, pc, why, env>>
ForgetEnds ==
  /\ pc = "forget" /\ due = {}
  /\ AfterCheckpoint(ok)
  /\ UNCHANGED <<record, table, disk, files, env>>

-----------------------------------------------------------------------------
(* The ends of a session.                                                  *)

\* handle_finish: commit_upload writes the record and fences the row.
\* Mutant: the record is committed while a file is missing.
HandleFinishEarly ==
  /\ pc = "idle" /\ Usable /\ pub # {}
  /\ named' = named \cup Files /\ full' = TRUE /\ row' = "committed"
  /\ Checkpoint("finish")
  /\ UNCHANGED <<rowPub, rowPrefix, reported, disk, files, env>>
HandleFinish ==
  /\ pc = "idle" /\ Usable /\ pub = Files
  /\ named' = named \cup Files /\ full' = TRUE /\ row' = "committed"
  /\ Checkpoint("finish")
  /\ UNCHANGED <<rowPub, rowPrefix, reported, disk, files, env>>

\* commit_partial, at an abort or when the registry dropped the sender.
EndUnpublished ==
  /\ pc = "idle" /\ ~Patient /\ pub = {}
  /\ \/ Unresolved /\ Checkpoint("preserve")
     \/ ~Unresolved /\ Goto("delete", "worker", {})
  /\ UNCHANGED <<record, table, disk, files, env>>
EndPartial ==
  /\ pc = "idle" /\ ~Patient /\ pub # {}
  /\ link # "absent"
  /\ named' = named \cup pub
  /\ Checkpoint(IF Unresolved THEN "preserve" ELSE "partial")
  /\ UNCHANGED <<full, table, disk, files, env>>
EndUnrecorded ==
  /\ pc = "idle" /\ ~Patient /\ pub # {} /\ "append" \in Faults
  /\ Checkpoint("preserve")
  /\ UNCHANGED <<record, table, disk, files, env>>
EndEarly ==
  /\ pc \in {"seal", "pages"} /\ ~Patient
  /\ Ended
  /\ UNCHANGED <<record, table, disk, files, env>>

\* Cmd::Suspend at shutdown: preserve_phase.  A restart follows, so the
\* bound on restarts bounds it.
Suspend ==
  /\ pc = "idle" /\ crashes < MaxCrashes
  /\ Checkpoint("preserve")
  /\ UNCHANGED <<record, table, disk, files, env>>

\* delete_upload_session, for the worker or for the boot.
AfterDelete(deleted) ==
  \/ why = "worker" /\ Goto("drop", "none", {})
  \/ why = "cleanup" /\ ~deleted /\ Goto("refuse", "none", {})
  \/ (why = "discard" \/ (why = "cleanup" /\ deleted)) /\ Ended
DeleteRow ==
  /\ pc = "delete"
  /\ row' = "none" /\ rowPub' = {} /\ reported' = FALSE
  /\ rowPrefix' = [f \in Files |-> {}]
  /\ AfterDelete(TRUE)
  /\ UNCHANGED <<record, disk, files, env>>
DeleteFails ==
  /\ pc = "delete" /\ (IF why = "worker" THEN "delete" ELSE "clean") \in Faults
  /\ AfterDelete(FALSE)
  /\ UNCHANGED <<record, table, disk, files, env>>

\* StagedFile::drop removes what is neither published nor preserved.
DropFiles ==
  /\ pc = "drop"
  /\ staging' = IF live THEN staging \cap (pub \cup preserve) ELSE staging
  /\ journal' = IF live THEN journal \cap (pub \cup preserve) ELSE journal
  /\ Ended
  /\ UNCHANGED <<record, table, good, dest, files, env>>

-----------------------------------------------------------------------------
(* Crash, restart and boot.                                                *)

\* The process dies or stops; after a power loss any staged range may be gone.
Restart ==
  /\ pc # "boot" /\ crashes < MaxCrashes
  /\ crashes' = crashes + 1 /\ live' = TRUE
  /\ Goto("boot", "none", {})
  /\ pub' = {} /\ cover' = [f \in Files |-> {}] /\ rehash' = {} /\ preserve' = {}
  /\ \E lost \in [Files -> SUBSET UNION {good[f] : f \in Files}] :
       /\ "power" \notin Faults => \A f \in Files : lost[f] = {}
       /\ \A f \in Files : lost[f] \subseteq good[f]
       /\ good' = [f \in Files |-> good[f] \ lost[f]]
  /\ UNCHANGED <<record, table, staging, journal, dest, link>>

\* clean_staging removes every staging file and journal nobody keeps.
CleanStaging == staging' = {} /\ journal' = {}

\* No session to re-attach, or load_upload_sessions failed.
BootNone ==
  /\ pc = "boot"
  /\ row = "none" \/ "load" \in Faults
  /\ CleanStaging /\ Ended
  /\ UNCHANGED <<record, table, good, dest, files, env>>

\* cleanup_committed_session: journals first, then the row.  A failure, or a
\* crash, may leave some of the journals.
CleanupCommitted ==
  /\ pc = "boot" /\ row = "committed"
  /\ journal' = {}
  /\ Goto("delete", "cleanup", {})
  /\ UNCHANGED <<record, table, staging, good, dest, files, env>>
CleanupFails ==
  /\ pc = "boot" /\ row = "committed" /\ "forget" \in Faults
  /\ \E S \in SUBSET journal : journal' = S
  /\ Goto("refuse", "none", {})
  /\ UNCHANGED <<record, table, staging, good, dest, files, env>>

\* restore_files: what becomes of one file.
Settled(f) == f \in rowPub /\ f \notin journal
Recovers(f) == ~Settled(f) /\ dest[f] = "good" /\ f \in journal
Resumes(f) == dest[f] = "none" /\ f \in staging /\ f \in journal
\* Mutant: a published file with its journal is not recognised.
RestoresStaged(f) == Settled(f) \/ Resumes(f)
Restores(f) == Settled(f) \/ Recovers(f) \/ Resumes(f)
Recovered == {f \in Files : Recovers(f)}

\* resume_upload_session refuses a closed or expired link before it looks.
BootRefused ==
  /\ pc = "boot" /\ row = "open" /\ ~Usable
  /\ pub' = rowPub /\ Goto("refuse", "none", {})
  /\ UNCHANGED <<record, table, disk, cover, rehash, preserve, env>>
\* Some file cannot be reopened; those before it may have been recovered.
BootFails ==
  /\ pc = "boot" /\ row = "open" /\ Usable
  /\ "resume" \in Faults \/ \E f \in Files : ~Restores(f)
  /\ \E S \in SUBSET Recovered : pub' = rowPub \cup S
  /\ Goto("refuse", "none", {})
  /\ UNCHANGED <<record, table, disk, cover, rehash, preserve, env>>

\* Mutant: the checkpointed coverage is trusted.
RehashNever(P) == {f \in P : FALSE}
RehashAfter(P) == {f \in Files \ P : rowPrefix[f] # {}}
BootRestore ==
  /\ pc = "boot" /\ row = "open" /\ Usable
  /\ \A f \in Files : Restores(f)
  /\ pub' = rowPub \cup Recovered
  /\ cover' = rowPrefix
  /\ rehash' = RehashAfter(pub')
  /\ preserve' = {f \in Files : ~Settled(f)}
  /\ PublishAll({f \in Files \ pub' : rowPrefix[f] = Ranges(f)}, "restore")
  /\ UNCHANGED <<record, table, disk, env>>

\* resume_worker hands the files to the worker, set_interruption_reported.
Resumed ==
  /\ pc = "resumed"
  /\ preserve' = preserve \cap pub /\ reported' = FALSE
  /\ Idle
  /\ UNCHANGED <<record, row, rowPub, rowPrefix, disk, pub, cover, rehash, env>>

\* commit_persisted_interruption: a failed append is only logged.
CommitInterruption ==
  \/ row = "open" /\ named' = named \cup pub /\ UNCHANGED full
  \/ (row # "open" \/ "append" \in Faults) /\ UNCHANGED record
RefusePermanently ==
  /\ pc = "refuse" /\ Dead
  /\ CommitInterruption
  /\ Goto("discard", "none", {})
  /\ UNCHANGED <<table, disk, files, env>>
RefuseForNow ==
  /\ pc = "refuse" /\ ~Dead
  /\ \/ reported /\ UNCHANGED <<record, reported>>
     \/ ~reported /\ CommitInterruption /\ reported' = TRUE
  /\ Ended
  /\ UNCHANGED <<row, rowPub, rowPrefix, disk, files, env>>

\* discard_refused_session.
Discard ==
  /\ pc = "discard" /\ live
  /\ staging' = {} /\ journal' = {}
  /\ Goto("delete", "discard", {})
  /\ UNCHANGED <<record, table, good, dest, files, env>>
DiscardFails ==
  /\ pc = "discard"
  /\ "discard" \in Faults \/ ~live
  /\ \E S \in SUBSET staging, J \in SUBSET journal : staging' = S /\ journal' = J
  /\ Ended
  /\ UNCHANGED <<record, table, good, dest, files, env>>

-----------------------------------------------------------------------------
(* The operator, the clock and the receiving lease.                        *)

CloseLink ==
  /\ "close" \in LinkEvents /\ link = "usable" /\ link' = "closed"
  /\ UNCHANGED <<record, table, disk, files, control, live, crashes>>
OpenLink ==
  /\ link = "closed" /\ link' = "usable"
  /\ UNCHANGED <<record, table, disk, files, control, live, crashes>>
ExpireLink ==
  /\ "expire" \in LinkEvents /\ ~Dead /\ link' = "expired"
  /\ UNCHANGED <<record, table, disk, files, control, live, crashes>>
\* delete_link of an idle link that names no file takes the rows with it.
RemoveLink ==
  /\ "remove" \in LinkEvents /\ link # "absent"
  /\ pc = "ended" /\ named = {}
  /\ link' = "absent" /\ row' = "none" /\ rowPub' = {} /\ reported' = FALSE
  /\ rowPrefix' = [f \in Files |-> {}]
  /\ UNCHANGED <<record, disk, files, control, live, crashes>>
\* Active::renew failed: the destinations stop.
LoseLease ==
  /\ "lease" \in Faults /\ live /\ live' = FALSE
  /\ pc \notin {"boot", "ended"}
  /\ UNCHANGED <<record, table, disk, files, control, link, crashes>>

-----------------------------------------------------------------------------
Begin == HandleSeal \/ BeginRefused \/ PrepareFiles \/ PersistSession \/ PersistFails \/ Rebegin
Accept == \E f \in Files : \E r \in Ranges(f) : AcceptRange(f, r)
Publish == \E f \in Files :
  PublishStale(f) \/ Published(f) \/ PublishUnconfirmed(f) \/ PublishRefused(f)
CheckpointStep ==
  \/ Pace \/ CheckpointFiles \/ CheckpointFails \/ ForgetEnds
  \/ \E f \in Files : ForgetPublication(f) \/ ForgetFails(f)
End == HandleFinish \/ EndUnpublished \/ EndPartial \/ EndUnrecorded \/ EndEarly \/ Suspend
Cleanup == DeleteRow \/ DeleteFails \/ DropFiles
Boot ==
  \/ BootNone \/ CleanupCommitted \/ CleanupFails \/ BootRefused \/ BootFails
  \/ BootRestore \/ Resumed \/ RefusePermanently \/ RefuseForNow \/ Discard \/ DiscardFails
Environment == CloseLink \/ OpenLink \/ ExpireLink \/ RemoveLink \/ LoseLease

Next == Begin \/ Accept \/ Publish \/ CheckpointStep \/ End \/ Cleanup \/ Boot
        \/ Restart \/ Environment
Spec == Init /\ [][Next]_vars

(* Fairness.  The worker and the boot never wait on anyone, so their steps *)
(* happen; a patient sender resends what is missing and then finishes; a   *)
(* server that was stopped is started again.                               *)
Fairness ==
  /\ WF_vars(Publish) /\ WF_vars(CheckpointStep) /\ WF_vars(Cleanup) /\ WF_vars(Boot)
  /\ \A f \in Files : \A r \in Ranges(f) : WF_vars(AcceptRange(f, r))
  /\ WF_vars(Rebegin) /\ WF_vars(HandleFinish)
  /\ WF_vars(pc = "ended" /\ Restart)
FairSpec == Spec /\ Fairness

-----------------------------------------------------------------------------
(* Properties.                                                             *)

Whys == {"none", "begin", "chunk", "restore", "pace", "finish", "partial",
         "preserve", "refuse", "worker", "cleanup", "discard"}
Pcs == {"seal", "pages", "staged", "idle", "publish", "pace", "save", "forget",
        "delete", "drop", "ended", "boot", "resumed", "refuse", "discard"}

\* The type invariant of the session's durable and volatile state.
TypeOK ==
  /\ link \in {"usable", "closed", "expired", "absent"}
  /\ row \in {"none", "open", "committed"} /\ {rowPub, named, staging, journal} \subseteq SUBSET Files
  /\ rowPrefix \in [Files -> SUBSET Nat] /\ \A f \in Files : rowPrefix[f] \subseteq Ranges(f)
  /\ {reported, full, ok, live} \subseteq BOOLEAN
  /\ good \in [Files -> SUBSET Nat] /\ \A f \in Files : good[f] \subseteq Ranges(f)
  /\ dest \in [Files -> {"none", "good", "bad"}]
  /\ pc \in Pcs /\ why \in Whys
  /\ {pub, rehash, preserve, due} \subseteq SUBSET Files
  /\ cover \in [Files -> SUBSET Nat] /\ \A f \in Files : cover[f] \subseteq Ranges(f)
  /\ crashes \in 0 .. MaxCrashes

\* A destination name never shows bytes other than the announced object's,
\* although staged writes may be lost at a power cut after a checkpoint
\* recorded them (session.rs, FileState.rehash and prepare_publication).
PublishedIsWhole == \A f \in Files : dest[f] # "bad"

\* Whatever the worker was doing, the next boot can re-attach every file of
\* an open session on a link that may still accept it: evidence is retired
\* only after the row says so (checkpoint_session, StagedFile::drop).
Recoverable == row = "open" /\ ~Dead => \A f \in Files : Restores(f)

\* A session that is gone left no published file without a record, unless its
\* link died (session.rs, preserve_phase: "without a record they would be
\* orphans").
NoOrphan == row = "none" /\ ~Dead => Delivered \subseteq named

\* The same of a link that is still there, expired or not: the file is its
\* operator's to read.
NoOrphanOnLink == row = "none" /\ link # "absent" => Delivered \subseteq named

D == INSTANCE Delivery WITH admitted <- row # "none", delivered <- Delivered, dead <- Dead
\* The worker and the boot implement Delivery: no name without an admission,
\* no record of an undelivered file, no admission released with an orphan
\* unless the link died.
Delivers == D!DSpec

\* While its link stays usable, the admitted upload of a patient sender is
\* completed and recorded, through restarts, failed checkpoints and retained
\* journals.
UploadCompletes == row = "open" ~> full \/ ~Usable
=============================================================================
