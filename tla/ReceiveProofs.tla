--------------------------- MODULE ReceiveProofs ----------------------------
(***************************************************************************)
(* Theorems about the upload session, for every package, every number of   *)
(* restarts and every set of faults.                                       *)
(***************************************************************************)
EXTENDS Receive, TLAPS

\* Coverage that is not to be hashed again is what is on disk, and what is
\* being published is covered.
WholeInv ==
  /\ PublishedIsWhole
  /\ \A f \in Files \ pub : f \in rehash \/ cover[f] \subseteq good[f]
  /\ pc \in {"seal", "pages", "staged", "boot"} => \A f \in Files : cover[f] = {}
  /\ pc = "publish" => /\ why \in {"begin", "chunk", "restore"}
                       /\ \A f \in due : f \notin pub /\ cover[f] = Ranges(f)

\* What each place of the worker knows of the files under their final names.
Receiving == pc \in {"idle", "publish", "pace", "resumed", "save", "forget"}
DeliveryInv ==
  /\ pub \subseteq Delivered /\ rowPub \subseteq Delivered
  /\ staging \cap Delivered = {}
  /\ pc \in {"seal", "pages", "staged"} => row = "none" /\ Delivered = named
  /\ pc = "staged" => Delivered \subseteq pub
  /\ pc \in {"idle", "pace", "resumed"} => why = "none"
  /\ Receiving /\ why # "finish" => row = "open"
  /\ Receiving => Delivered \subseteq pub \cup preserve
  /\ Receiving /\ why = "restore" => Delivered \subseteq pub
  /\ pc = "resumed" => Delivered \subseteq pub
  /\ Receiving /\ why \in {"finish", "partial"} => Delivered \subseteq named
  /\ row = "committed" => Files \subseteq named
  /\ pc = "delete" => Delivered \subseteq named \/ Dead
  /\ pc = "discard" => Dead

\* What keeps an open session re-attachable.
RecoveryInv ==
  /\ Recoverable
  /\ Receiving => rowPub \subseteq pub
  /\ pc = "forget" => due \subseteq rowPub
  /\ pc = "staged" => staging = Files \ pub /\ journal = Files \ pub
  /\ pc = "drop" => row # "open"

-----------------------------------------------------------------------------
\* An empty entry has no range.
LEMMA EmptyRanges ==
  ASSUME NEW f \in Files, Length[f] = 0
  PROVE  Ranges(f) = {}
  BY DEF Ranges

\* Every step keeps the types.
LEMMA TypeInductive ==
  ASSUME TypeOK, [Next]_vars
  PROVE  TypeOK'
  <1> USE ReceiveAssumption DEF TypeOK, Pcs, Whys, Ranges
  <1>1. CASE UNCHANGED vars
    BY <1>1 DEF vars, record, table, disk, files, control, env
  <1>2. CASE Begin
    <2>1. CASE HandleSeal
      BY <2>1 DEF HandleSeal, record, table, disk, files, env, Goto
    <2>2. CASE BeginRefused
      BY <2>2 DEF BeginRefused, record, table, disk, files, env, Ended, Goto
    <2>3. CASE PrepareFiles
      BY <2>3 DEF PrepareFiles, record, table, env, Goto
    <2>4. CASE PersistSession
      <3>1. \/ pc' = "publish" /\ why' = "begin" /\ due' = Empties /\ ok' = TRUE
            \/ pc' = "idle" /\ why' = "none" /\ due' = {} /\ ok' = TRUE
        BY <2>4 DEF PersistSession, PublishAll, Goto, AfterPublishing, Checkpoint, Idle
      <3>2. CASE pc' = "publish" /\ why' = "begin" /\ due' = Empties /\ ok' = TRUE
        BY <2>4, <3>2 DEF PersistSession, record, disk, files, env, Empties
      <3>3. CASE pc' = "idle" /\ why' = "none" /\ due' = {} /\ ok' = TRUE
        BY <2>4, <3>3 DEF PersistSession, record, disk, files, env, Empties
      <3> QED BY <3>1, <3>2, <3>3
    <2>5. CASE PersistFails
      BY <2>5 DEF PersistFails, record, table, disk, files, env, Goto
    <2>6. CASE Rebegin
      BY <2>6 DEF Rebegin, record, table, disk, files, env, Goto, Empties
    <2> QED BY <1>2, <2>1, <2>2, <2>3, <2>4, <2>5, <2>6 DEF Begin
  <1>3. ASSUME NEW f \in Files, NEW r \in Ranges(f), AcceptRange(f, r) PROVE TypeOK'
    <2>1. \/ cover'[f] = Ranges(f) /\ pc' = "publish" /\ why' = "chunk" /\ due' = {f} /\ ok' = TRUE
          \/ pc' = "pace" /\ why' = "none" /\ due' = {} /\ ok' = TRUE
      BY <1>3 DEF AcceptRange, PublishAll, Goto, AfterPublishing, Checkpoint, Idle
    <2>2. CASE cover'[f] = Ranges(f) /\ pc' = "publish" /\ why' = "chunk" /\ due' = {f} /\ ok' = TRUE
      BY <1>3, <2>2 DEF AcceptRange, record, table, env
    <2>3. CASE pc' = "pace" /\ why' = "none" /\ due' = {} /\ ok' = TRUE
      BY <1>3, <2>3 DEF AcceptRange, record, table, env
    <2> QED BY <2>1, <2>2, <2>3
  <1>4. ASSUME NEW f \in Files, PublishStale(f) \/ Published(f) \/ PublishUnconfirmed(f) \/ PublishRefused(f) PROVE TypeOK'
    <2>1. CASE PublishStale(f)
      <3>1. \/ pc' = "idle" /\ why' = "none" /\ due' = {} /\ ok' = TRUE
            \/ pc' = "pace" /\ why' = "none" /\ due' = {} /\ ok' = TRUE
            \/ why = "restore" /\ pc' = "save" /\ why' = "refuse" /\ due' = {} /\ ok' = TRUE
        BY <2>1 DEF PublishStale, PublishFailed, ForgetCoverage, Goto, Checkpoint, Idle
      <3>2. CASE pc' = "idle" /\ why' = "none" /\ due' = {} /\ ok' = TRUE
        BY <2>1, <3>2 DEF PublishStale, record, table, disk, env, ForgetCoverage
      <3>3. CASE pc' = "pace" /\ why' = "none" /\ due' = {} /\ ok' = TRUE
        BY <2>1, <3>3 DEF PublishStale, record, table, disk, env, ForgetCoverage
      <3>4. CASE why = "restore" /\ pc' = "save" /\ why' = "refuse" /\ due' = {} /\ ok' = TRUE
        BY <2>1, <3>4 DEF PublishStale, record, table, disk, env, ForgetCoverage
      <3> QED BY <3>1, <3>2, <3>3, <3>4
    <2>2. CASE Published(f)
      <3>1. \/ pc' = "publish" /\ why' = why /\ due' = due \ {f} /\ ok' = TRUE
            \/ pc' = "idle" /\ why' = "none" /\ due' = {} /\ ok' = TRUE
            \/ pc' = "pace" /\ why' = "none" /\ due' = {} /\ ok' = TRUE
            \/ why = "restore" /\ pc' = "save" /\ why' = "restore" /\ due' = {} /\ ok' = TRUE
        BY <2>2 DEF Published, PublishAll, Publishes, Goto, AfterPublishing, Checkpoint,
            Idle
      <3>2. CASE pc' = "publish" /\ why' = why /\ due' = due \ {f} /\ ok' = TRUE
        BY <2>2, <3>2 DEF Published, record, table, env, Publishes
      <3>3. CASE pc' = "idle" /\ why' = "none" /\ due' = {} /\ ok' = TRUE
        BY <2>2, <3>3 DEF Published, record, table, env, Publishes
      <3>4. CASE pc' = "pace" /\ why' = "none" /\ due' = {} /\ ok' = TRUE
        BY <2>2, <3>4 DEF Published, record, table, env, Publishes
      <3>5. CASE why = "restore" /\ pc' = "save" /\ why' = "restore" /\ due' = {} /\ ok' = TRUE
        BY <2>2, <3>5 DEF Published, record, table, env, Publishes
      <3> QED BY <3>1, <3>2, <3>3, <3>4, <3>5
    <2>3. CASE PublishUnconfirmed(f)
      <3>1. \/ pc' = "idle" /\ why' = "none" /\ due' = {} /\ ok' = TRUE
            \/ pc' = "pace" /\ why' = "none" /\ due' = {} /\ ok' = TRUE
            \/ why = "restore" /\ pc' = "save" /\ why' = "refuse" /\ due' = {} /\ ok' = TRUE
        BY <2>3 DEF PublishUnconfirmed, PublishFailed, Publishes, Goto, Checkpoint, Idle
      <3>2. CASE pc' = "idle" /\ why' = "none" /\ due' = {} /\ ok' = TRUE
        BY <2>3, <3>2 DEF PublishUnconfirmed, record, table, env, Publishes
      <3>3. CASE pc' = "pace" /\ why' = "none" /\ due' = {} /\ ok' = TRUE
        BY <2>3, <3>3 DEF PublishUnconfirmed, record, table, env, Publishes
      <3>4. CASE why = "restore" /\ pc' = "save" /\ why' = "refuse" /\ due' = {} /\ ok' = TRUE
        BY <2>3, <3>4 DEF PublishUnconfirmed, record, table, env, Publishes
      <3> QED BY <3>1, <3>2, <3>3, <3>4
    <2>4. CASE PublishRefused(f)
      <3>1. \/ pc' = "idle" /\ why' = "none" /\ due' = {} /\ ok' = TRUE
            \/ pc' = "pace" /\ why' = "none" /\ due' = {} /\ ok' = TRUE
            \/ why = "restore" /\ pc' = "save" /\ why' = "refuse" /\ due' = {} /\ ok' = TRUE
        BY <2>4 DEF PublishRefused, PublishFailed, Goto, Checkpoint, Idle
      <3>2. CASE pc' = "idle" /\ why' = "none" /\ due' = {} /\ ok' = TRUE
        BY <2>4, <3>2 DEF PublishRefused, record, table, disk, env
      <3>3. CASE pc' = "pace" /\ why' = "none" /\ due' = {} /\ ok' = TRUE
        BY <2>4, <3>3 DEF PublishRefused, record, table, disk, env
      <3>4. CASE why = "restore" /\ pc' = "save" /\ why' = "refuse" /\ due' = {} /\ ok' = TRUE
        BY <2>4, <3>4 DEF PublishRefused, record, table, disk, env
      <3> QED BY <3>1, <3>2, <3>3, <3>4
    <2> QED BY <1>4, <2>1, <2>2, <2>3, <2>4
  <1>5. CASE CheckpointStep
    <2>1. CASE Pace
      <3>1. \/ pc' = "idle" /\ why' = "none" /\ due' = {} /\ ok' = TRUE
            \/ pc' = "save" /\ why' = "pace" /\ due' = {} /\ ok' = TRUE
        BY <2>1 DEF Pace, Checkpoint, Idle, Goto
      <3>2. CASE pc' = "idle" /\ why' = "none" /\ due' = {} /\ ok' = TRUE
        BY <2>1, <3>2 DEF Pace, record, table, disk, files, env
      <3>3. CASE pc' = "save" /\ why' = "pace" /\ due' = {} /\ ok' = TRUE
        BY <2>1, <3>3 DEF Pace, record, table, disk, files, env
      <3> QED BY <3>1, <3>2, <3>3
    <2>2. CASE CheckpointFiles
      BY <2>2 DEF CheckpointFiles, record, disk, files, env, Goto, Prefix
    <2>3. CASE CheckpointFails
      <3>1. \/ pc' = "idle" /\ why' = "none" /\ due' = {} /\ ok' = TRUE
            \/ pc' = "ended" /\ why' = "none" /\ due' = {} /\ ok' = TRUE
            \/ pc' = "save" /\ why' = "preserve" /\ due' = {} /\ ok' = TRUE
            \/ why = "restore" /\ pc' = "resumed" /\ why' = "none" /\ due' = {} /\ ok' = TRUE
            \/ pc' = "refuse" /\ why' = "none" /\ due' = {} /\ ok' = TRUE
        BY <2>3 DEF CheckpointFails, AfterCheckpoint, Goto, Checkpoint, Idle, Ended
      <3>2. CASE pc' = "idle" /\ why' = "none" /\ due' = {} /\ ok' = TRUE
        BY <2>3, <3>2 DEF CheckpointFails, record, table, disk, files, env
      <3>3. CASE pc' = "ended" /\ why' = "none" /\ due' = {} /\ ok' = TRUE
        BY <2>3, <3>3 DEF CheckpointFails, record, table, disk, files, env
      <3>4. CASE pc' = "save" /\ why' = "preserve" /\ due' = {} /\ ok' = TRUE
        BY <2>3, <3>4 DEF CheckpointFails, record, table, disk, files, env
      <3>5. CASE why = "restore" /\ pc' = "resumed" /\ why' = "none" /\ due' = {} /\ ok' = TRUE
        BY <2>3, <3>5 DEF CheckpointFails, record, table, disk, files, env
      <3>6. CASE pc' = "refuse" /\ why' = "none" /\ due' = {} /\ ok' = TRUE
        BY <2>3, <3>6 DEF CheckpointFails, record, table, disk, files, env
      <3> QED BY <3>1, <3>2, <3>3, <3>4, <3>5, <3>6
    <2>4. CASE ForgetEnds
      <3>1. \/ pc' = "idle" /\ why' = "none" /\ due' = {} /\ ok' = TRUE
            \/ pc' = "ended" /\ why' = "none" /\ due' = {} /\ ok' = TRUE
            \/ why \in {"finish", "partial"} /\ pc' = "delete" /\ why' = "worker" /\ due' = {} /\ ok' = TRUE
            \/ why = "partial" /\ pc' = "save" /\ why' = "preserve" /\ due' = {} /\ ok' = TRUE
            \/ why = "restore" /\ pc' = "resumed" /\ why' = "none" /\ due' = {} /\ ok' = TRUE
            \/ pc' = "refuse" /\ why' = "none" /\ due' = {} /\ ok' = TRUE
        BY <2>4 DEF ForgetEnds, AfterCheckpoint, Goto, Checkpoint, Idle, Ended
      <3>2. CASE pc' = "idle" /\ why' = "none" /\ due' = {} /\ ok' = TRUE
        BY <2>4, <3>2 DEF ForgetEnds, record, table, disk, files, env
      <3>3. CASE pc' = "ended" /\ why' = "none" /\ due' = {} /\ ok' = TRUE
        BY <2>4, <3>3 DEF ForgetEnds, record, table, disk, files, env
      <3>4. CASE why \in {"finish", "partial"} /\ pc' = "delete" /\ why' = "worker" /\ due' = {} /\ ok' = TRUE
        BY <2>4, <3>4 DEF ForgetEnds, record, table, disk, files, env
      <3>5. CASE why = "partial" /\ pc' = "save" /\ why' = "preserve" /\ due' = {} /\ ok' = TRUE
        BY <2>4, <3>5 DEF ForgetEnds, record, table, disk, files, env
      <3>6. CASE why = "restore" /\ pc' = "resumed" /\ why' = "none" /\ due' = {} /\ ok' = TRUE
        BY <2>4, <3>6 DEF ForgetEnds, record, table, disk, files, env
      <3>7. CASE pc' = "refuse" /\ why' = "none" /\ due' = {} /\ ok' = TRUE
        BY <2>4, <3>7 DEF ForgetEnds, record, table, disk, files, env
      <3> QED BY <3>1, <3>2, <3>3, <3>4, <3>5, <3>6, <3>7
    <2>5. ASSUME NEW f \in Files, ForgetPublication(f) PROVE TypeOK'
      BY <2>5 DEF ForgetPublication, record, table, files, env
    <2>6. ASSUME NEW f \in Files, ForgetFails(f) PROVE TypeOK'
      BY <2>6 DEF ForgetFails, record, table, disk, files, env
    <2> QED BY <1>5, <2>1, <2>2, <2>3, <2>4, <2>5, <2>6 DEF CheckpointStep
  <1>6. CASE End
    <2>1. CASE HandleFinish
      BY <2>1 DEF HandleFinish, disk, files, env, Checkpoint, Goto
    <2>2. CASE EndUnpublished
      <3>1. \/ pc' = "save" /\ why' = "preserve" /\ due' = {} /\ ok' = TRUE
            \/ ~Unresolved /\ pc' = "delete" /\ why' = "worker" /\ due' = {} /\ ok' = TRUE
        BY <2>2 DEF EndUnpublished, Goto, Checkpoint
      <3>2. CASE pc' = "save" /\ why' = "preserve" /\ due' = {} /\ ok' = TRUE
        BY <2>2, <3>2 DEF EndUnpublished, record, table, disk, files, env
      <3>3. CASE ~Unresolved /\ pc' = "delete" /\ why' = "worker" /\ due' = {} /\ ok' = TRUE
        BY <2>2, <3>3 DEF EndUnpublished, record, table, disk, files, env
      <3> QED BY <3>1, <3>2, <3>3
    <2>3. CASE EndPartial
      <3>1. \/ pc' = "save" /\ why' = "preserve" /\ due' = {} /\ ok' = TRUE
            \/ ~Unresolved /\ pc' = "save" /\ why' = "partial" /\ due' = {} /\ ok' = TRUE
        BY <2>3 DEF EndPartial, Checkpoint, Goto
      <3>2. CASE pc' = "save" /\ why' = "preserve" /\ due' = {} /\ ok' = TRUE
        BY <2>3, <3>2 DEF EndPartial, table, disk, files, env
      <3>3. CASE ~Unresolved /\ pc' = "save" /\ why' = "partial" /\ due' = {} /\ ok' = TRUE
        BY <2>3, <3>3 DEF EndPartial, table, disk, files, env
      <3> QED BY <3>1, <3>2, <3>3
    <2>4. CASE EndUnrecorded
      BY <2>4 DEF EndUnrecorded, record, table, disk, files, env, Checkpoint, Goto
    <2>5. CASE EndEarly
      BY <2>5 DEF EndEarly, record, table, disk, files, env, Ended, Goto
    <2>6. CASE Suspend
      BY <2>6 DEF Suspend, record, table, disk, files, env, Checkpoint, Goto
    <2> QED BY <1>6, <2>1, <2>2, <2>3, <2>4, <2>5, <2>6 DEF End
  <1>7. CASE Cleanup
    <2>1. CASE DeleteRow
      <3>1. \/ pc' = "drop" /\ why' = "none" /\ due' = {} /\ ok' = TRUE
            \/ pc' = "ended" /\ why' = "none" /\ due' = {} /\ ok' = TRUE
        BY <2>1 DEF DeleteRow, AfterDelete, Goto, Ended
      <3>2. CASE pc' = "drop" /\ why' = "none" /\ due' = {} /\ ok' = TRUE
        BY <2>1, <3>2 DEF DeleteRow, record, disk, files, env
      <3>3. CASE pc' = "ended" /\ why' = "none" /\ due' = {} /\ ok' = TRUE
        BY <2>1, <3>3 DEF DeleteRow, record, disk, files, env
      <3> QED BY <3>1, <3>2, <3>3
    <2>2. CASE DeleteFails
      <3>1. \/ pc' = "refuse" /\ why' = "none" /\ due' = {} /\ ok' = TRUE
            \/ pc' = "drop" /\ why' = "none" /\ due' = {} /\ ok' = TRUE
            \/ pc' = "ended" /\ why' = "none" /\ due' = {} /\ ok' = TRUE
        BY <2>2 DEF DeleteFails, AfterDelete, Goto, Ended
      <3>2. CASE pc' = "refuse" /\ why' = "none" /\ due' = {} /\ ok' = TRUE
        BY <2>2, <3>2 DEF DeleteFails, record, table, disk, files, env
      <3>3. CASE pc' = "drop" /\ why' = "none" /\ due' = {} /\ ok' = TRUE
        BY <2>2, <3>3 DEF DeleteFails, record, table, disk, files, env
      <3>4. CASE pc' = "ended" /\ why' = "none" /\ due' = {} /\ ok' = TRUE
        BY <2>2, <3>4 DEF DeleteFails, record, table, disk, files, env
      <3> QED BY <3>1, <3>2, <3>3, <3>4
    <2>3. CASE DropFiles
      BY <2>3 DEF DropFiles, record, table, files, env, Ended, Goto
    <2> QED BY <1>7, <2>1, <2>2, <2>3 DEF Cleanup
  <1>8. CASE Boot
    <2>1. CASE BootNone
      BY <2>1 DEF BootNone, record, table, files, env, Ended, CleanStaging, Goto
    <2>2. CASE CleanupCommitted
      BY <2>2 DEF CleanupCommitted, record, table, files, env, Goto
    <2>3. CASE CleanupFails
      BY <2>3 DEF CleanupFails, record, table, files, env, Goto
    <2>4. CASE BootRefused
      BY <2>4 DEF BootRefused, record, table, disk, env, Goto
    <2>5. CASE BootFails
      BY <2>5 DEF BootFails, record, table, disk, env, Goto, Recovered
    <2>6. CASE BootRestore
      <3>1. \/ pc' = "publish" /\ why' = "restore" /\ due' = {f \in Files \ pub' : rowPrefix[f] = Ranges(f)} /\ ok' = TRUE
            \/ pc' = "save" /\ why' = "restore" /\ due' = {} /\ ok' = TRUE
        BY <2>6 DEF BootRestore, PublishAll, Goto, AfterPublishing, Checkpoint, Idle
      <3>2. CASE pc' = "publish" /\ why' = "restore" /\ due' = {f \in Files \ pub' : rowPrefix[f] = Ranges(f)} /\ ok' = TRUE
        BY <2>6, <3>2 DEF BootRestore, record, table, disk, env, RehashAfter, Recovered
      <3>3. CASE pc' = "save" /\ why' = "restore" /\ due' = {} /\ ok' = TRUE
        BY <2>6, <3>3 DEF BootRestore, record, table, disk, env, RehashAfter, Recovered
      <3> QED BY <3>1, <3>2, <3>3
    <2>7. CASE Resumed
      BY <2>7 DEF Resumed, record, disk, env, Idle, Goto
    <2>8. CASE RefusePermanently
      BY <2>8 DEF RefusePermanently, table, disk, files, env, Goto, CommitInterruption,
          record
    <2>9. CASE RefuseForNow
      BY <2>9 DEF RefuseForNow, record, disk, files, env, Ended, CommitInterruption, Goto
    <2>10. CASE Discard
      BY <2>10 DEF Discard, record, table, files, env, Goto
    <2>11. CASE DiscardFails
      BY <2>11 DEF DiscardFails, record, table, files, env, Ended, Goto
    <2> QED BY <1>8, <2>1, <2>2, <2>3, <2>4, <2>5, <2>6, <2>7, <2>8, <2>9, <2>10, <2>11
        DEF Boot
  <1>9. CASE Restart
    BY <1>9 DEF Restart, record, table, Goto
  <1>10. CASE Environment
    <2>1. CASE CloseLink
      BY <2>1 DEF CloseLink, record, table, disk, files, control
    <2>2. CASE OpenLink
      BY <2>2 DEF OpenLink, record, table, disk, files, control
    <2>3. CASE ExpireLink
      BY <2>3 DEF ExpireLink, record, table, disk, files, control
    <2>4. CASE RemoveLink
      BY <2>4 DEF RemoveLink, record, disk, files, control
    <2>5. CASE LoseLease
      BY <2>5 DEF LoseLease, record, table, disk, files, control
    <2> QED BY <1>10, <2>1, <2>2, <2>3, <2>4, <2>5 DEF Environment
  <1> QED BY <1>1, <1>2, <1>3, <1>4, <1>5, <1>6, <1>7, <1>8, <1>9, <1>10 DEF Next, Accept,
      Publish

\* Every step publishes only what is covered or was hashed again.
LEMMA WholeInductive ==
  ASSUME TypeOK, WholeInv, [Next]_vars
  PROVE  WholeInv'
  <1> USE ReceiveAssumption DEF TypeOK, WholeInv, PublishedIsWhole, Ranges
  <1>1. CASE UNCHANGED vars
    BY <1>1 DEF vars, record, table, disk, files, control, env
  <1>2. CASE Begin
    <2>1. CASE HandleSeal
      BY <2>1 DEF HandleSeal, record, table, disk, files, env, Goto
    <2>2. CASE BeginRefused
      BY <2>2 DEF BeginRefused, record, table, disk, files, env, Ended, Goto
    <2>3. CASE PrepareFiles
      BY <2>3 DEF PrepareFiles, record, table, env, Goto
    <2>4. CASE PersistSession
      <3>1. \A f \in Empties : f \notin pub /\ cover[f] = Ranges(f)
        BY EmptyRanges DEF Empties
      <3>2. \/ pc' = "publish" /\ why' = "begin" /\ due' = Empties
            \/ pc' = "idle"
        BY <2>4 DEF PersistSession, PublishAll, Goto, AfterPublishing, Idle
      <3> QED BY <2>4, <3>1, <3>2 DEF PersistSession, record, disk, files, env
    <2>5. CASE PersistFails
      BY <2>5 DEF PersistFails, record, table, disk, files, env, Goto
    <2>6. CASE Rebegin
      <3>1. \A f \in Empties : f \notin pub /\ cover[f] = Ranges(f)
        BY EmptyRanges DEF Empties
      <3> QED BY <2>6, <3>1 DEF Rebegin, record, table, disk, files, env, Goto
    <2> QED BY <1>2, <2>1, <2>2, <2>3, <2>4, <2>5, <2>6 DEF Begin
  <1>3. ASSUME NEW f \in Files, NEW r \in Ranges(f), AcceptRange(f, r) PROVE WholeInv'
    <2>1. \/ cover'[f] = Ranges(f) /\ pc' = "publish" /\ why' = "chunk" /\ due' = {f} /\ ok' = TRUE
          \/ pc' = "pace" /\ why' = "none" /\ due' = {} /\ ok' = TRUE
      BY <1>3 DEF AcceptRange, PublishAll, Goto, AfterPublishing, Checkpoint, Idle
    <2>2. CASE cover'[f] = Ranges(f) /\ pc' = "publish" /\ why' = "chunk" /\ due' = {f} /\ ok' = TRUE
      BY <1>3, <2>2 DEF AcceptRange, record, table, env
    <2>3. CASE pc' = "pace" /\ why' = "none" /\ due' = {} /\ ok' = TRUE
      BY <1>3, <2>3 DEF AcceptRange, record, table, env
    <2> QED BY <2>1, <2>2, <2>3
  <1>4. ASSUME NEW f \in Files, PublishStale(f) \/ Published(f) \/ PublishUnconfirmed(f) \/ PublishRefused(f) PROVE WholeInv'
    <2>1. CASE PublishStale(f)
      BY <2>1 DEF PublishStale, record, table, disk, env, PublishFailed, ForgetCoverage,
          Goto, Checkpoint, Idle, RehashRefuses
    <2>0. ASSUME Publishes(f)
          PROVE  /\ f \in due /\ f \notin pub /\ cover[f] = Ranges(f)
                 /\ good[f] = Ranges(f) /\ dest' = [dest EXCEPT ![f] = "good"]
                 /\ rehash' = rehash \ {f}
      <3>1. f \in due /\ f \notin pub /\ cover[f] = Ranges(f) /\ good[f] \subseteq Ranges(f)
        BY <2>0 DEF Publishes
      <3>2. good[f] = Ranges(f)
        BY <2>0, <3>1 DEF Publishes, RehashRefuses
      <3> QED BY <2>0, <3>1, <3>2 DEF Publishes
    <2>2. CASE Published(f)
      <3>p. /\ f \in due /\ f \notin pub /\ cover[f] = Ranges(f) /\ rehash' = rehash \ {f}
            /\ good[f] = Ranges(f) /\ dest' = [dest EXCEPT ![f] = "good"]
            /\ good' = good /\ cover' = cover /\ pub' = pub \cup {f}
        BY <2>0, <2>2 DEF Published, table
      <3>s. pc = "publish"
        BY <2>2 DEF Published, Publishes
      <3>1. \/ pc' = "publish" /\ why' = why /\ due' = due \ {f} /\ ok' = TRUE
            \/ pc' = "idle" /\ why' = "none" /\ due' = {} /\ ok' = TRUE
            \/ pc' = "pace" /\ why' = "none" /\ due' = {} /\ ok' = TRUE
            \/ why = "restore" /\ pc' = "save" /\ why' = "restore" /\ due' = {} /\ ok' = TRUE
        BY <2>2 DEF Published, PublishAll, Publishes, Goto, AfterPublishing, Checkpoint,
            Idle
      <3>2. CASE pc' = "publish" /\ why' = why /\ due' = due \ {f} /\ ok' = TRUE
        BY <3>2, <3>p, <3>s
      <3>3. CASE pc' = "idle" /\ why' = "none" /\ due' = {} /\ ok' = TRUE
        BY <3>3, <3>p, <3>s
      <3>4. CASE pc' = "pace" /\ why' = "none" /\ due' = {} /\ ok' = TRUE
        BY <3>4, <3>p, <3>s
      <3>5. CASE why = "restore" /\ pc' = "save" /\ why' = "restore" /\ due' = {} /\ ok' = TRUE
        BY <3>5, <3>p, <3>s
      <3> QED BY <3>1, <3>2, <3>3, <3>4, <3>5
    <2>3. CASE PublishUnconfirmed(f)
      <3>1. /\ f \notin pub /\ rehash' = rehash \ {f} /\ dest' = [dest EXCEPT ![f] = "good"]
            /\ good[f] = Ranges(f) /\ good' = good /\ cover' = cover /\ pub' = pub
        BY <2>0, <2>3 DEF PublishUnconfirmed, table
      <3>2. pc' \in {"idle", "pace", "save"}
        BY <2>3 DEF PublishUnconfirmed, PublishFailed, Goto, Checkpoint, Idle
      <3> QED BY <3>1, <3>2
    <2>4. CASE PublishRefused(f)
      BY <2>4 DEF PublishRefused, record, table, disk, env, PublishFailed, Goto,
          Checkpoint, Idle, RehashRefuses
    <2> QED BY <1>4, <2>1, <2>2, <2>3, <2>4
  <1>5. CASE CheckpointStep
    <2>1. CASE Pace
      BY <2>1 DEF Pace, record, table, disk, files, env, Checkpoint, Idle, Goto
    <2>2. CASE CheckpointFiles
      BY <2>2 DEF CheckpointFiles, record, disk, files, env, Goto
    <2>3. CASE CheckpointFails
      BY <2>3 DEF CheckpointFails, record, table, disk, files, env, AfterCheckpoint, Goto,
          Checkpoint, Idle, Ended
    <2>4. CASE ForgetEnds
      BY <2>4 DEF ForgetEnds, record, table, disk, files, env, AfterCheckpoint, Goto,
          Checkpoint, Idle, Ended
    <2>5. ASSUME NEW f \in Files, ForgetPublication(f) PROVE WholeInv'
      BY <2>5 DEF ForgetPublication, record, table, files, env
    <2>6. ASSUME NEW f \in Files, ForgetFails(f) PROVE WholeInv'
      BY <2>6 DEF ForgetFails, record, table, disk, files, env
    <2> QED BY <1>5, <2>1, <2>2, <2>3, <2>4, <2>5, <2>6 DEF CheckpointStep
  <1>6. CASE End
    <2>1. CASE HandleFinish
      BY <2>1 DEF HandleFinish, disk, files, env, Checkpoint, Goto
    <2>2. CASE EndUnpublished
      BY <2>2 DEF EndUnpublished, record, table, disk, files, env, Goto, Checkpoint
    <2>3. CASE EndPartial
      BY <2>3 DEF EndPartial, table, disk, files, env, Checkpoint, Goto
    <2>4. CASE EndUnrecorded
      BY <2>4 DEF EndUnrecorded, record, table, disk, files, env, Checkpoint, Goto
    <2>5. CASE EndEarly
      BY <2>5 DEF EndEarly, record, table, disk, files, env, Ended, Goto
    <2>6. CASE Suspend
      BY <2>6 DEF Suspend, record, table, disk, files, env, Checkpoint, Goto
    <2> QED BY <1>6, <2>1, <2>2, <2>3, <2>4, <2>5, <2>6 DEF End
  <1>7. CASE Cleanup
    <2>1. CASE DeleteRow
      BY <2>1 DEF DeleteRow, record, disk, files, env, AfterDelete, Goto, Ended
    <2>2. CASE DeleteFails
      BY <2>2 DEF DeleteFails, record, table, disk, files, env, AfterDelete, Goto, Ended
    <2>3. CASE DropFiles
      BY <2>3 DEF DropFiles, record, table, files, env, Ended, Goto
    <2> QED BY <1>7, <2>1, <2>2, <2>3 DEF Cleanup
  <1>8. CASE Boot
    <2>1. CASE BootNone
      BY <2>1 DEF BootNone, record, table, files, env, Ended, CleanStaging, Goto
    <2>2. CASE CleanupCommitted
      BY <2>2 DEF CleanupCommitted, record, table, files, env, Goto
    <2>3. CASE CleanupFails
      BY <2>3 DEF CleanupFails, record, table, files, env, Goto
    <2>4. CASE BootRefused
      BY <2>4 DEF BootRefused, record, table, disk, env, Goto
    <2>5. CASE BootFails
      BY <2>5 DEF BootFails, record, table, disk, env, Goto
    <2>6. CASE BootRestore
      BY <2>6 DEF BootRestore, record, table, disk, env, PublishAll, Goto,
          AfterPublishing, Checkpoint, Idle, RehashAfter
    <2>7. CASE Resumed
      BY <2>7 DEF Resumed, record, disk, env, Idle, Goto
    <2>8. CASE RefusePermanently
      BY <2>8 DEF RefusePermanently, table, disk, files, env, Goto, CommitInterruption,
          record
    <2>9. CASE RefuseForNow
      BY <2>9 DEF RefuseForNow, record, disk, files, env, Ended, CommitInterruption, Goto
    <2>10. CASE Discard
      BY <2>10 DEF Discard, record, table, files, env, Goto
    <2>11. CASE DiscardFails
      BY <2>11 DEF DiscardFails, record, table, files, env, Ended, Goto
    <2> QED BY <1>8, <2>1, <2>2, <2>3, <2>4, <2>5, <2>6, <2>7, <2>8, <2>9, <2>10, <2>11
        DEF Boot
  <1>9. CASE Restart
    BY <1>9 DEF Restart, record, table, Goto
  <1>10. CASE Environment
    <2>1. CASE CloseLink
      BY <2>1 DEF CloseLink, record, table, disk, files, control
    <2>2. CASE OpenLink
      BY <2>2 DEF OpenLink, record, table, disk, files, control
    <2>3. CASE ExpireLink
      BY <2>3 DEF ExpireLink, record, table, disk, files, control
    <2>4. CASE RemoveLink
      BY <2>4 DEF RemoveLink, record, disk, files, control
    <2>5. CASE LoseLease
      BY <2>5 DEF LoseLease, record, table, disk, files, control
    <2> QED BY <1>10, <2>1, <2>2, <2>3, <2>4, <2>5 DEF Environment
  <1> QED BY <1>1, <1>2, <1>3, <1>4, <1>5, <1>6, <1>7, <1>8, <1>9, <1>10 DEF Next, Accept,
      Publish

\* Every step knows which files are under their final names.
LEMMA DeliveryInductive ==
  ASSUME TypeOK, WholeInv, DeliveryInv, [Next]_vars
  PROVE  DeliveryInv'
  <1> USE  DEF DeliveryInv, Receiving, Delivered, Dead
  <1>1. CASE UNCHANGED vars
    BY <1>1 DEF vars, record, table, disk, files, control, env
  <1>2. CASE Begin
    <2>1. CASE HandleSeal
      BY <2>1 DEF HandleSeal, record, table, disk, files, env, Goto
    <2>2. CASE BeginRefused
      BY <2>2 DEF BeginRefused, record, table, disk, files, env, Ended, Goto
    <2>3. CASE PrepareFiles
      <3>1. \A f \in Files : f \in Delivered => f \in named /\ dest[f] = "good"
        BY <2>3 DEF PrepareFiles, WholeInv, PublishedIsWhole, TypeOK
      <3>2. Delivered = pub' /\ staging' \cap Delivered = {} /\ Delivered' = Delivered
        BY <2>3, <3>1 DEF PrepareFiles, TypeOK
      <3> QED BY <2>3, <3>2 DEF PrepareFiles, record, table, env, Goto
    <2>4. CASE PersistSession
      BY <2>4 DEF PersistSession, record, disk, files, env, PublishAll, Goto,
          AfterPublishing, Checkpoint, Idle
    <2>5. CASE PersistFails
      BY <2>5 DEF PersistFails, record, table, disk, files, env, Goto
    <2>6. CASE Rebegin
      BY <2>6 DEF Rebegin, record, table, disk, files, env, Goto
    <2> QED BY <1>2, <2>1, <2>2, <2>3, <2>4, <2>5, <2>6 DEF Begin
  <1>3. ASSUME NEW f \in Files, NEW r \in Ranges(f), AcceptRange(f, r) PROVE DeliveryInv'
    <2>1. \/ cover'[f] = Ranges(f) /\ pc' = "publish" /\ why' = "chunk" /\ due' = {f} /\ ok' = TRUE
          \/ pc' = "pace" /\ why' = "none" /\ due' = {} /\ ok' = TRUE
      BY <1>3 DEF AcceptRange, PublishAll, Goto, AfterPublishing, Checkpoint, Idle
    <2>2. CASE cover'[f] = Ranges(f) /\ pc' = "publish" /\ why' = "chunk" /\ due' = {f} /\ ok' = TRUE
      BY <1>3, <2>2 DEF AcceptRange, record, table, env
    <2>3. CASE pc' = "pace" /\ why' = "none" /\ due' = {} /\ ok' = TRUE
      BY <1>3, <2>3 DEF AcceptRange, record, table, env
    <2> QED BY <2>1, <2>2, <2>3
  <1>4. ASSUME NEW f \in Files, PublishStale(f) \/ Published(f) \/ PublishUnconfirmed(f) \/ PublishRefused(f) PROVE DeliveryInv'
    <2>1. CASE PublishStale(f)
      BY <2>1 DEF PublishStale, record, table, disk, env, PublishFailed, ForgetCoverage,
          Goto, Checkpoint, Idle
    <2>2. CASE Published(f)
      <3>1. \/ pc' = "publish" /\ why' = why /\ due' = due \ {f} /\ ok' = TRUE
            \/ pc' = "idle" /\ why' = "none" /\ due' = {} /\ ok' = TRUE
            \/ pc' = "pace" /\ why' = "none" /\ due' = {} /\ ok' = TRUE
            \/ why = "restore" /\ pc' = "save" /\ why' = "restore" /\ due' = {} /\ ok' = TRUE
        BY <2>2 DEF Published, PublishAll, Publishes, Goto, AfterPublishing, Checkpoint,
            Idle
      <3>2. CASE pc' = "publish" /\ why' = why /\ due' = due \ {f} /\ ok' = TRUE
        BY <2>2, <3>2 DEF Published, record, table, env, Publishes, TypeOK, WholeInv
      <3>3. CASE pc' = "idle" /\ why' = "none" /\ due' = {} /\ ok' = TRUE
        BY <2>2, <3>3 DEF Published, record, table, env, Publishes, TypeOK, WholeInv
      <3>4. CASE pc' = "pace" /\ why' = "none" /\ due' = {} /\ ok' = TRUE
        BY <2>2, <3>4 DEF Published, record, table, env, Publishes, TypeOK, WholeInv
      <3>5. CASE why = "restore" /\ pc' = "save" /\ why' = "restore" /\ due' = {} /\ ok' = TRUE
        BY <2>2, <3>5 DEF Published, record, table, env, Publishes, TypeOK, WholeInv
      <3> QED BY <3>1, <3>2, <3>3, <3>4, <3>5
    <2>3. CASE PublishUnconfirmed(f)
      <3>1. \/ pc' = "idle" /\ why' = "none" /\ due' = {} /\ ok' = TRUE
            \/ pc' = "pace" /\ why' = "none" /\ due' = {} /\ ok' = TRUE
            \/ why = "restore" /\ pc' = "save" /\ why' = "refuse" /\ due' = {} /\ ok' = TRUE
        BY <2>3 DEF PublishUnconfirmed, PublishFailed, Publishes, Goto, Checkpoint, Idle
      <3>2. CASE pc' = "idle" /\ why' = "none" /\ due' = {} /\ ok' = TRUE
        BY <2>3, <3>2 DEF PublishUnconfirmed, record, table, env, Publishes, TypeOK,
            WholeInv
      <3>3. CASE pc' = "pace" /\ why' = "none" /\ due' = {} /\ ok' = TRUE
        BY <2>3, <3>3 DEF PublishUnconfirmed, record, table, env, Publishes, TypeOK,
            WholeInv
      <3>4. CASE why = "restore" /\ pc' = "save" /\ why' = "refuse" /\ due' = {} /\ ok' = TRUE
        BY <2>3, <3>4 DEF PublishUnconfirmed, record, table, env, Publishes, TypeOK,
            WholeInv
      <3> QED BY <3>1, <3>2, <3>3, <3>4
    <2>4. CASE PublishRefused(f)
      BY <2>4 DEF PublishRefused, record, table, disk, env, PublishFailed, Goto,
          Checkpoint, Idle
    <2> QED BY <1>4, <2>1, <2>2, <2>3, <2>4
  <1>5. CASE CheckpointStep
    <2>1. CASE Pace
      BY <2>1 DEF Pace, record, table, disk, files, env, Checkpoint, Idle, Goto
    <2>2. CASE CheckpointFiles
      BY <2>2 DEF CheckpointFiles, record, disk, files, env, Goto
    <2>3. CASE CheckpointFails
      BY <2>3 DEF CheckpointFails, record, table, disk, files, env, AfterCheckpoint, Goto,
          Checkpoint, Idle, Ended
    <2>4. CASE ForgetEnds
      BY <2>4 DEF ForgetEnds, record, table, disk, files, env, AfterCheckpoint, Goto,
          Checkpoint, Idle, Ended
    <2>5. ASSUME NEW f \in Files, ForgetPublication(f) PROVE DeliveryInv'
      BY <2>5 DEF ForgetPublication, record, table, files, env
    <2>6. ASSUME NEW f \in Files, ForgetFails(f) PROVE DeliveryInv'
      BY <2>6 DEF ForgetFails, record, table, disk, files, env
    <2> QED BY <1>5, <2>1, <2>2, <2>3, <2>4, <2>5, <2>6 DEF CheckpointStep
  <1>6. CASE End
    <2>1. CASE HandleFinish
      BY <2>1 DEF HandleFinish, disk, files, env, Checkpoint, Goto
    <2>2. CASE EndUnpublished
      <3>1. \/ pc' = "save" /\ why' = "preserve" /\ due' = {} /\ ok' = TRUE
            \/ ~Unresolved /\ pc' = "delete" /\ why' = "worker" /\ due' = {} /\ ok' = TRUE
        BY <2>2 DEF EndUnpublished, Goto, Checkpoint
      <3>2. CASE pc' = "save" /\ why' = "preserve" /\ due' = {} /\ ok' = TRUE
        BY <2>2, <3>2 DEF EndUnpublished, record, table, disk, files, env, Unresolved
      <3>3. CASE ~Unresolved /\ pc' = "delete" /\ why' = "worker" /\ due' = {} /\ ok' = TRUE
        BY <2>2, <3>3 DEF EndUnpublished, record, table, disk, files, env, Unresolved
      <3> QED BY <3>1, <3>2, <3>3
    <2>3. CASE EndPartial
      <3>1. \/ pc' = "save" /\ why' = "preserve" /\ due' = {} /\ ok' = TRUE
            \/ ~Unresolved /\ pc' = "save" /\ why' = "partial" /\ due' = {} /\ ok' = TRUE
        BY <2>3 DEF EndPartial, Checkpoint, Goto
      <3>2. CASE pc' = "save" /\ why' = "preserve" /\ due' = {} /\ ok' = TRUE
        BY <2>3, <3>2 DEF EndPartial, table, disk, files, env, Unresolved
      <3>3. CASE ~Unresolved /\ pc' = "save" /\ why' = "partial" /\ due' = {} /\ ok' = TRUE
        BY <2>3, <3>3 DEF EndPartial, table, disk, files, env, Unresolved
      <3> QED BY <3>1, <3>2, <3>3
    <2>4. CASE EndUnrecorded
      BY <2>4 DEF EndUnrecorded, record, table, disk, files, env, Checkpoint, Goto
    <2>5. CASE EndEarly
      BY <2>5 DEF EndEarly, record, table, disk, files, env, Ended, Goto
    <2>6. CASE Suspend
      BY <2>6 DEF Suspend, record, table, disk, files, env, Checkpoint, Goto
    <2> QED BY <1>6, <2>1, <2>2, <2>3, <2>4, <2>5, <2>6 DEF End
  <1>7. CASE Cleanup
    <2>1. CASE DeleteRow
      BY <2>1 DEF DeleteRow, record, disk, files, env, AfterDelete, Goto, Ended
    <2>2. CASE DeleteFails
      BY <2>2 DEF DeleteFails, record, table, disk, files, env, AfterDelete, Goto, Ended
    <2>3. CASE DropFiles
      BY <2>3 DEF DropFiles, record, table, files, env, Ended, Goto
    <2> QED BY <1>7, <2>1, <2>2, <2>3 DEF Cleanup
  <1>8. CASE Boot
    <2>1. CASE BootNone
      BY <2>1 DEF BootNone, record, table, files, env, Ended, CleanStaging, Goto
    <2>2. CASE CleanupCommitted
      BY <2>2 DEF CleanupCommitted, record, table, files, env, Goto
    <2>3. CASE CleanupFails
      BY <2>3 DEF CleanupFails, record, table, files, env, Goto
    <2>4. CASE BootRefused
      BY <2>4 DEF BootRefused, record, table, disk, env, Goto
    <2>5. CASE BootFails
      BY <2>5 DEF BootFails, record, table, disk, env, Goto, Recovered, Recovers
    <2>6. CASE BootRestore
      BY <2>6 DEF BootRestore, record, table, disk, env, PublishAll, Goto,
          AfterPublishing, Checkpoint, Idle, Restores, Settled, Recovers, Resumes,
          Recovered
    <2>7. CASE Resumed
      BY <2>7 DEF Resumed, record, disk, env, Idle, Goto
    <2>8. CASE RefusePermanently
      BY <2>8 DEF RefusePermanently, table, disk, files, env, Goto, CommitInterruption,
          record
    <2>9. CASE RefuseForNow
      BY <2>9 DEF RefuseForNow, record, disk, files, env, Ended, CommitInterruption, Goto
    <2>10. CASE Discard
      BY <2>10 DEF Discard, record, table, files, env, Goto
    <2>11. CASE DiscardFails
      BY <2>11 DEF DiscardFails, record, table, files, env, Ended, Goto
    <2> QED BY <1>8, <2>1, <2>2, <2>3, <2>4, <2>5, <2>6, <2>7, <2>8, <2>9, <2>10, <2>11
        DEF Boot
  <1>9. CASE Restart
    BY <1>9 DEF Restart, record, table, Goto
  <1>10. CASE Environment
    <2>1. CASE CloseLink
      BY <2>1 DEF CloseLink, record, table, disk, files, control
    <2>2. CASE OpenLink
      BY <2>2 DEF OpenLink, record, table, disk, files, control
    <2>3. CASE ExpireLink
      BY <2>3 DEF ExpireLink, record, table, disk, files, control
    <2>4. CASE RemoveLink
      BY <2>4 DEF RemoveLink, record, disk, files, control
    <2>5. CASE LoseLease
      BY <2>5 DEF LoseLease, record, table, disk, files, control
    <2> QED BY <1>10, <2>1, <2>2, <2>3, <2>4, <2>5 DEF Environment
  <1> QED BY <1>1, <1>2, <1>3, <1>4, <1>5, <1>6, <1>7, <1>8, <1>9, <1>10 DEF Next, Accept,
      Publish

\* Every step keeps an open session re-attachable, if rows can be read and
\* deleted.
LEMMA RecoveryInductive ==
  ASSUME TypeOK, WholeInv, WholeInv', DeliveryInv, RecoveryInv, "load" \notin Faults, "delete" \notin Faults,
         [Next]_vars
  PROVE  RecoveryInv'
  <1> USE  DEF RecoveryInv, Recoverable, Receiving, Restores, Settled, Recovers, Resumes,
      Dead
  <1>1. CASE UNCHANGED vars
    BY <1>1 DEF vars, record, table, disk, files, control, env, DeliveryInv, Delivered
  <1>2. CASE Begin
    <2>1. CASE HandleSeal
      BY <2>1 DEF HandleSeal, record, table, disk, files, env, Goto, DeliveryInv,
          Delivered
    <2>2. CASE BeginRefused
      BY <2>2 DEF BeginRefused, record, table, disk, files, env, Ended, Goto, DeliveryInv,
          Delivered
    <2>3. CASE PrepareFiles
      BY <2>3 DEF PrepareFiles, record, table, env, Goto, DeliveryInv, Delivered
    <2>4. CASE PersistSession
      BY <2>4 DEF PersistSession, record, disk, files, env, PublishAll, Goto,
          AfterPublishing, Checkpoint, Idle, DeliveryInv, Delivered
    <2>5. CASE PersistFails
      BY <2>5 DEF PersistFails, record, table, disk, files, env, Goto, DeliveryInv,
          Delivered
    <2>6. CASE Rebegin
      BY <2>6 DEF Rebegin, record, table, disk, files, env, Goto, DeliveryInv, Delivered
    <2> QED BY <1>2, <2>1, <2>2, <2>3, <2>4, <2>5, <2>6 DEF Begin
  <1>3. ASSUME NEW f \in Files, NEW r \in Ranges(f), AcceptRange(f, r) PROVE RecoveryInv'
    BY <1>3 DEF AcceptRange, record, table, env, PublishAll, Goto, AfterPublishing,
        Checkpoint, Idle, DeliveryInv, Delivered
  <1>4. ASSUME NEW f \in Files, PublishStale(f) \/ Published(f) \/ PublishUnconfirmed(f) \/ PublishRefused(f) PROVE RecoveryInv'
    <2>1. CASE PublishStale(f)
      BY <2>1 DEF PublishStale, record, table, disk, env, PublishFailed, ForgetCoverage,
          Goto, Checkpoint, Idle, DeliveryInv, Delivered
    <2>2. CASE Published(f)
      <3>1. /\ row' = row /\ rowPub' = rowPub /\ journal' = journal /\ link' = link
            /\ staging' = staging \ {f} /\ pub \subseteq pub' /\ f \in staging
            /\ \A g \in Files \ {f} : dest'[g] = dest[g]
            /\ pc = "publish" /\ pc' \in {"publish", "idle", "pace", "save"}
        BY <2>2 DEF Published, Publishes, record, table, env, PublishAll, AfterPublishing, Goto, Idle,
                  Checkpoint, TypeOK
      <3>2. dest'[f] = "good"
        BY <2>2 DEF Published, Publishes, WholeInv, PublishedIsWhole, TypeOK
      <3>3. dest[f] = "none" /\ f \notin rowPub
        BY <3>1 DEF DeliveryInv, Delivered
      <3>4. ASSUME row' = "open", ~Dead', NEW g \in Files PROVE Restores(g)'
        <4>1. Restores(g) /\ Restores(f)
          BY <3>1, <3>4
        <4>2. CASE g = f
          BY <3>1, <3>2, <3>3, <4>1, <4>2
        <4>3. CASE g # f
          BY <3>1, <4>1, <4>3
        <4> QED BY <4>2, <4>3
      <3> QED BY <3>1, <3>4
    <2>3. CASE PublishUnconfirmed(f)
      <3>1. /\ row' = row /\ rowPub' = rowPub /\ journal' = journal /\ link' = link
            /\ staging' = staging \ {f} /\ pub \subseteq pub' /\ f \in staging
            /\ \A g \in Files \ {f} : dest'[g] = dest[g]
            /\ pc = "publish" /\ pc' \in {"publish", "idle", "pace", "save"}
        BY <2>3 DEF PublishUnconfirmed, Publishes, record, table, env, PublishFailed, Goto, Idle, Checkpoint, TypeOK
      <3>2. dest'[f] = "good"
        BY <2>3 DEF PublishUnconfirmed, Publishes, WholeInv, PublishedIsWhole, TypeOK
      <3>3. dest[f] = "none" /\ f \notin rowPub
        BY <3>1 DEF DeliveryInv, Delivered
      <3>4. ASSUME row' = "open", ~Dead', NEW g \in Files PROVE Restores(g)'
        <4>1. Restores(g) /\ Restores(f)
          BY <3>1, <3>4
        <4>2. CASE g = f
          BY <3>1, <3>2, <3>3, <4>1, <4>2
        <4>3. CASE g # f
          BY <3>1, <4>1, <4>3
        <4> QED BY <4>2, <4>3
      <3> QED BY <3>1, <3>4
    <2>4. CASE PublishRefused(f)
      BY <2>4 DEF PublishRefused, record, table, disk, env, PublishFailed, Goto,
          Checkpoint, Idle, DeliveryInv, Delivered
    <2> QED BY <1>4, <2>1, <2>2, <2>3, <2>4
  <1>5. CASE CheckpointStep
    <2>1. CASE Pace
      BY <2>1 DEF Pace, record, table, disk, files, env, Checkpoint, Idle, Goto,
          DeliveryInv, Delivered
    <2>2. CASE CheckpointFiles
      BY <2>2 DEF CheckpointFiles, record, disk, files, env, Goto, DeliveryInv, Delivered
    <2>3. CASE CheckpointFails
      BY <2>3 DEF CheckpointFails, record, table, disk, files, env, AfterCheckpoint, Goto,
          Checkpoint, Idle, Ended, DeliveryInv, Delivered
    <2>4. CASE ForgetEnds
      BY <2>4 DEF ForgetEnds, record, table, disk, files, env, AfterCheckpoint, Goto,
          Checkpoint, Idle, Ended, DeliveryInv, Delivered
    <2>5. ASSUME NEW f \in Files, ForgetPublication(f) PROVE RecoveryInv'
      BY <2>5 DEF ForgetPublication, record, table, files, env, DeliveryInv, Delivered
    <2>6. ASSUME NEW f \in Files, ForgetFails(f) PROVE RecoveryInv'
      BY <2>6 DEF ForgetFails, record, table, disk, files, env, DeliveryInv, Delivered
    <2> QED BY <1>5, <2>1, <2>2, <2>3, <2>4, <2>5, <2>6 DEF CheckpointStep
  <1>6. CASE End
    <2>1. CASE HandleFinish
      BY <2>1 DEF HandleFinish, disk, files, env, Checkpoint, Goto, DeliveryInv, Delivered
    <2>2. CASE EndUnpublished
      BY <2>2 DEF EndUnpublished, record, table, disk, files, env, Goto, Checkpoint,
          DeliveryInv, Delivered
    <2>3. CASE EndPartial
      BY <2>3 DEF EndPartial, table, disk, files, env, Checkpoint, Goto, DeliveryInv,
          Delivered
    <2>4. CASE EndUnrecorded
      BY <2>4 DEF EndUnrecorded, record, table, disk, files, env, Checkpoint, Goto,
          DeliveryInv, Delivered
    <2>5. CASE EndEarly
      BY <2>5 DEF EndEarly, record, table, disk, files, env, Ended, Goto, DeliveryInv,
          Delivered
    <2>6. CASE Suspend
      BY <2>6 DEF Suspend, record, table, disk, files, env, Checkpoint, Goto, DeliveryInv,
          Delivered
    <2> QED BY <1>6, <2>1, <2>2, <2>3, <2>4, <2>5, <2>6 DEF End
  <1>7. CASE Cleanup
    <2>1. CASE DeleteRow
      BY <2>1 DEF DeleteRow, record, disk, files, env, AfterDelete, Goto, Ended,
          DeliveryInv, Delivered
    <2>2. CASE DeleteFails
      BY <2>2 DEF DeleteFails, record, table, disk, files, env, AfterDelete, Goto, Ended,
          DeliveryInv, Delivered
    <2>3. CASE DropFiles
      BY <2>3 DEF DropFiles, record, table, files, env, Ended, Goto, DeliveryInv,
          Delivered
    <2> QED BY <1>7, <2>1, <2>2, <2>3 DEF Cleanup
  <1>8. CASE Boot
    <2>1. CASE BootNone
      BY <2>1 DEF BootNone, record, table, files, env, Ended, CleanStaging, Goto,
          DeliveryInv, Delivered
    <2>2. CASE CleanupCommitted
      BY <2>2 DEF CleanupCommitted, record, table, files, env, Goto, DeliveryInv,
          Delivered
    <2>3. CASE CleanupFails
      BY <2>3 DEF CleanupFails, record, table, files, env, Goto, DeliveryInv, Delivered
    <2>4. CASE BootRefused
      BY <2>4 DEF BootRefused, record, table, disk, env, Goto, DeliveryInv, Delivered
    <2>5. CASE BootFails
      BY <2>5 DEF BootFails, record, table, disk, env, Goto, DeliveryInv, Delivered
    <2>6. CASE BootRestore
      BY <2>6 DEF BootRestore, record, table, disk, env, PublishAll, Goto,
          AfterPublishing, Checkpoint, Idle, DeliveryInv, Delivered
    <2>7. CASE Resumed
      BY <2>7 DEF Resumed, record, disk, env, Idle, Goto, DeliveryInv, Delivered
    <2>8. CASE RefusePermanently
      BY <2>8 DEF RefusePermanently, table, disk, files, env, Goto, CommitInterruption,
          record, DeliveryInv, Delivered
    <2>9. CASE RefuseForNow
      BY <2>9 DEF RefuseForNow, record, disk, files, env, Ended, CommitInterruption, Goto,
          DeliveryInv, Delivered
    <2>10. CASE Discard
      BY <2>10 DEF Discard, record, table, files, env, Goto, DeliveryInv, Delivered
    <2>11. CASE DiscardFails
      BY <2>11 DEF DiscardFails, record, table, files, env, Ended, Goto, DeliveryInv,
          Delivered
    <2> QED BY <1>8, <2>1, <2>2, <2>3, <2>4, <2>5, <2>6, <2>7, <2>8, <2>9, <2>10, <2>11
        DEF Boot
  <1>9. CASE Restart
    BY <1>9 DEF Restart, record, table, Goto, DeliveryInv, Delivered
  <1>10. CASE Environment
    <2>1. CASE CloseLink
      BY <2>1 DEF CloseLink, record, table, disk, files, control, DeliveryInv, Delivered
    <2>2. CASE OpenLink
      BY <2>2 DEF OpenLink, record, table, disk, files, control, DeliveryInv, Delivered
    <2>3. CASE ExpireLink
      BY <2>3 DEF ExpireLink, record, table, disk, files, control, DeliveryInv, Delivered
    <2>4. CASE RemoveLink
      BY <2>4 DEF RemoveLink, record, disk, files, control, DeliveryInv, Delivered
    <2>5. CASE LoseLease
      BY <2>5 DEF LoseLease, record, table, disk, files, control, DeliveryInv, Delivered
    <2> QED BY <1>10, <2>1, <2>2, <2>3, <2>4, <2>5 DEF Environment
  <1> QED BY <1>1, <1>2, <1>3, <1>4, <1>5, <1>6, <1>7, <1>8, <1>9, <1>10 DEF Next, Accept,
      Publish

\* Every step is a step of Delivery or leaves its state alone.
LEMMA StepImplements ==
  ASSUME TypeOK, WholeInv, DeliveryInv, [Next]_vars
  PROVE  [D!DNext]_(D!dvars)
  <1> USE  DEF D!dvars, Delivered, Dead
  <1>1. CASE UNCHANGED vars
    BY <1>1 DEF vars, record, table, disk, files, control, env
  <1>2. CASE Begin
    <2>1. CASE HandleSeal
      BY <2>1 DEF HandleSeal, record, table, disk, files, env, Goto
    <2>2. CASE BeginRefused
      BY <2>2 DEF BeginRefused, record, table, disk, files, env, Ended, Goto
    <2>3. CASE PrepareFiles
      BY <2>3 DEF PrepareFiles, record, table, env, Goto
    <2>4. CASE PersistSession
      <3>1. D!Admit
        BY <2>4 DEF PersistSession, disk, record, env, DeliveryInv, D!Admit
      <3> QED BY <3>1 DEF D!DNext
    <2>5. CASE PersistFails
      BY <2>5 DEF PersistFails, record, table, disk, files, env, Goto
    <2>6. CASE Rebegin
      BY <2>6 DEF Rebegin, record, table, disk, files, env, Goto
    <2> QED BY <1>2, <2>1, <2>2, <2>3, <2>4, <2>5, <2>6 DEF Begin
  <1>3. ASSUME NEW f \in Files, NEW r \in Ranges(f), AcceptRange(f, r) PROVE [D!DNext]_(D!dvars)
    BY <1>3 DEF AcceptRange, record, table, env, PublishAll, Goto, AfterPublishing,
        Checkpoint, Idle
  <1>4. ASSUME NEW f \in Files, PublishStale(f) \/ Published(f) \/ PublishUnconfirmed(f) \/ PublishRefused(f) PROVE [D!DNext]_(D!dvars)
    <2>1. CASE PublishStale(f)
      BY <2>1 DEF PublishStale, record, table, disk, env, PublishFailed, ForgetCoverage,
          Goto, Checkpoint, Idle
    <2>2. CASE Published(f)
      <3>1. f \notin Delivered /\ row # "none"
        BY <2>2 DEF Published, Publishes, DeliveryInv, Receiving, WholeInv
      <3>2. Delivered' = Delivered \cup {f}
        BY <2>2 DEF Published, Publishes, TypeOK
      <3>3. D!Deliver(f)
        BY <2>2, <3>1, <3>2 DEF Published, table, record, env, D!Deliver
      <3> QED BY <3>3 DEF D!DNext
    <2>3. CASE PublishUnconfirmed(f)
      <3>1. f \notin Delivered /\ row # "none"
        BY <2>3 DEF PublishUnconfirmed, Publishes, DeliveryInv, Receiving, WholeInv
      <3>2. Delivered' = Delivered \cup {f}
        BY <2>3 DEF PublishUnconfirmed, Publishes, TypeOK
      <3>3. D!Deliver(f)
        BY <2>3, <3>1, <3>2 DEF PublishUnconfirmed, table, record, env, D!Deliver
      <3> QED BY <3>3 DEF D!DNext
    <2>4. CASE PublishRefused(f)
      BY <2>4 DEF PublishRefused, record, table, disk, env, PublishFailed, Goto,
          Checkpoint, Idle
    <2> QED BY <1>4, <2>1, <2>2, <2>3, <2>4
  <1>5. CASE CheckpointStep
    <2>1. CASE Pace
      BY <2>1 DEF Pace, record, table, disk, files, env, Checkpoint, Idle, Goto
    <2>2. CASE CheckpointFiles
      BY <2>2 DEF CheckpointFiles, record, disk, files, env, Goto
    <2>3. CASE CheckpointFails
      BY <2>3 DEF CheckpointFails, record, table, disk, files, env, AfterCheckpoint, Goto,
          Checkpoint, Idle, Ended
    <2>4. CASE ForgetEnds
      BY <2>4 DEF ForgetEnds, record, table, disk, files, env, AfterCheckpoint, Goto,
          Checkpoint, Idle, Ended
    <2>5. ASSUME NEW f \in Files, ForgetPublication(f) PROVE [D!DNext]_(D!dvars)
      BY <2>5 DEF ForgetPublication, record, table, files, env
    <2>6. ASSUME NEW f \in Files, ForgetFails(f) PROVE [D!DNext]_(D!dvars)
      BY <2>6 DEF ForgetFails, record, table, disk, files, env
    <2> QED BY <1>5, <2>1, <2>2, <2>3, <2>4, <2>5, <2>6 DEF CheckpointStep
  <1>6. CASE End
    <2>1. CASE HandleFinish
      <3>1. pub \in SUBSET Files /\ pub \subseteq Delivered /\ row = "open"
        BY <2>1 DEF HandleFinish, DeliveryInv, Receiving, TypeOK
      <3>2. D!Name(pub)
        BY <2>1, <3>1 DEF HandleFinish, disk, env, D!Name
      <3> QED BY <3>1, <3>2 DEF D!DNext
    <2>2. CASE EndUnpublished
      BY <2>2 DEF EndUnpublished, record, table, disk, files, env, Goto, Checkpoint
    <2>3. CASE EndPartial
      <3>1. pub \in SUBSET Files /\ pub \subseteq Delivered /\ row = "open"
        BY <2>3 DEF EndPartial, DeliveryInv, Receiving, TypeOK
      <3>2. D!Name(pub)
        BY <2>3, <3>1 DEF EndPartial, table, disk, env, D!Name
      <3> QED BY <3>1, <3>2 DEF D!DNext
    <2>4. CASE EndUnrecorded
      BY <2>4 DEF EndUnrecorded, record, table, disk, files, env, Checkpoint, Goto
    <2>5. CASE EndEarly
      BY <2>5 DEF EndEarly, record, table, disk, files, env, Ended, Goto
    <2>6. CASE Suspend
      BY <2>6 DEF Suspend, record, table, disk, files, env, Checkpoint, Goto
    <2> QED BY <1>6, <2>1, <2>2, <2>3, <2>4, <2>5, <2>6 DEF End
  <1>7. CASE Cleanup
    <2>1. CASE DeleteRow
      <3>1. Delivered \subseteq named \/ Dead
        BY <2>1 DEF DeleteRow, DeliveryInv
      <3>2. D!Release \/ UNCHANGED D!dvars
        BY <2>1, <3>1 DEF DeleteRow, record, disk, env, D!Release
      <3> QED BY <3>2 DEF D!DNext
    <2>2. CASE DeleteFails
      BY <2>2 DEF DeleteFails, record, table, disk, files, env, AfterDelete, Goto, Ended
    <2>3. CASE DropFiles
      BY <2>3 DEF DropFiles, record, table, files, env, Ended, Goto
    <2> QED BY <1>7, <2>1, <2>2, <2>3 DEF Cleanup
  <1>8. CASE Boot
    <2>1. CASE BootNone
      BY <2>1 DEF BootNone, record, table, files, env, Ended, CleanStaging, Goto
    <2>2. CASE CleanupCommitted
      BY <2>2 DEF CleanupCommitted, record, table, files, env, Goto
    <2>3. CASE CleanupFails
      BY <2>3 DEF CleanupFails, record, table, files, env, Goto
    <2>4. CASE BootRefused
      BY <2>4 DEF BootRefused, record, table, disk, env, Goto
    <2>5. CASE BootFails
      BY <2>5 DEF BootFails, record, table, disk, env, Goto
    <2>6. CASE BootRestore
      BY <2>6 DEF BootRestore, record, table, disk, env, PublishAll, Goto,
          AfterPublishing, Checkpoint, Idle
    <2>7. CASE Resumed
      BY <2>7 DEF Resumed, record, disk, env, Idle, Goto
    <2>8. CASE RefusePermanently
      <3>1. pub \in SUBSET Files /\ pub \subseteq Delivered
        BY DEF DeliveryInv, TypeOK
      <3>2. D!Name(pub) \/ UNCHANGED D!dvars
        BY <2>8, <3>1 DEF RefusePermanently, CommitInterruption, record, table, disk, env, D!Name
      <3> QED BY <3>1, <3>2 DEF D!DNext
    <2>9. CASE RefuseForNow
      <3>1. pub \in SUBSET Files /\ pub \subseteq Delivered
        BY DEF DeliveryInv, TypeOK
      <3>2. D!Name(pub) \/ UNCHANGED D!dvars
        BY <2>9, <3>1 DEF RefuseForNow, CommitInterruption, record, table, disk, env, D!Name
      <3> QED BY <3>1, <3>2 DEF D!DNext
    <2>10. CASE Discard
      BY <2>10 DEF Discard, record, table, files, env, Goto
    <2>11. CASE DiscardFails
      BY <2>11 DEF DiscardFails, record, table, files, env, Ended, Goto
    <2> QED BY <1>8, <2>1, <2>2, <2>3, <2>4, <2>5, <2>6, <2>7, <2>8, <2>9, <2>10, <2>11
        DEF Boot
  <1>9. CASE Restart
    BY <1>9 DEF Restart, record, table, Goto
  <1>10. CASE Environment
    <2>1. CASE CloseLink
      BY <2>1 DEF CloseLink, record, table, disk, files, control
    <2>2. CASE OpenLink
      BY <2>2 DEF OpenLink, record, table, disk, files, control
    <2>3. CASE ExpireLink
      <3>1. D!Die
        BY <2>3 DEF ExpireLink, record, table, disk, D!Die
      <3> QED BY <3>1 DEF D!DNext
    <2>4. CASE RemoveLink
      <3>1. D!Die
        BY <2>4 DEF RemoveLink, record, disk, D!Die
      <3> QED BY <3>1 DEF D!DNext
    <2>5. CASE LoseLease
      BY <2>5 DEF LoseLease, record, table, disk, files, control
    <2> QED BY <1>10, <2>1, <2>2, <2>3, <2>4, <2>5 DEF Environment
  <1> QED BY <1>1, <1>2, <1>3, <1>4, <1>5, <1>6, <1>7, <1>8, <1>9, <1>10 DEF Next, Accept,
      Publish

-----------------------------------------------------------------------------
\* A fresh server satisfies every part of the invariant.
LEMMA InitInv ==
  ASSUME Init
  PROVE  TypeOK /\ WholeInv /\ DeliveryInv /\ RecoveryInv
  <1> USE ReceiveAssumption DEF Init
  <1>1. TypeOK
    <2>1. dest \in [Files -> {"none", "good", "bad"}] /\ crashes \in 0 .. MaxCrashes
      OBVIOUS
    <2>2. /\ rowPrefix \in [Files -> SUBSET Nat] /\ good \in [Files -> SUBSET Nat]
          /\ cover \in [Files -> SUBSET Nat]
          /\ \A f \in Files : rowPrefix[f] = {} /\ good[f] = {} /\ cover[f] = {}
      OBVIOUS
    <2>3. /\ {rowPub, named, staging, journal} \subseteq SUBSET Files
          /\ {pub, rehash, preserve, due} \subseteq SUBSET Files
      OBVIOUS
    <2>4. /\ link = "usable" /\ row = "none" /\ pc \in Pcs /\ why \in Whys
          /\ {reported, full, ok, live} \subseteq BOOLEAN
      BY DEF Pcs, Whys
    <2> QED BY <2>1, <2>2, <2>3, <2>4 DEF TypeOK
  <1>2. WholeInv
    BY DEF WholeInv, PublishedIsWhole
  <1>3. DeliveryInv
    <2>1. Delivered = named
      BY DEF Delivered
    <2> QED BY <2>1 DEF DeliveryInv, Receiving
  <1>4. RecoveryInv
    BY DEF RecoveryInv, Recoverable, Receiving
  <1> QED BY <1>1, <1>2, <1>3, <1>4

\* The worker, the boot and the environment keep the invariant.
THEOREM Invariance == Spec => [](TypeOK /\ WholeInv /\ DeliveryInv)
  <1>1. Init => TypeOK /\ WholeInv /\ DeliveryInv
    BY InitInv
  <1>2. TypeOK /\ WholeInv /\ DeliveryInv /\ [Next]_vars => (TypeOK /\ WholeInv /\ DeliveryInv)'
    BY TypeInductive, WholeInductive, DeliveryInductive
  <1> QED BY <1>1, <1>2, PTL DEF Spec

\* The session's state is well typed.
THEOREM TypeCorrect == Spec => []TypeOK
  BY Invariance, PTL

\* Whatever is lost at a power cut, a destination name only ever shows the
\* announced object (FileState.rehash, prepare_publication).
THEOREM NothingForeignPublished == Spec => []PublishedIsWhole
  <1>1. WholeInv => PublishedIsWhole
    BY DEF WholeInv
  <1> QED BY <1>1, Invariance, PTL

\* As long as the session rows can be read and deleted, every crash leaves an
\* open session on a living link re-attachable, file by file (checkpoint_session
\* before forget_publications, StagedFile::drop after forget_session).
THEOREM AlwaysRecoverable ==
  ASSUME "load" \notin Faults, "delete" \notin Faults
  PROVE  Spec => []Recoverable
  <1>1. Init => TypeOK /\ WholeInv /\ DeliveryInv /\ RecoveryInv
    BY InitInv
  <1>2. /\ TypeOK /\ WholeInv /\ DeliveryInv
        /\ (TypeOK /\ WholeInv /\ DeliveryInv)'
        /\ RecoveryInv /\ [Next]_vars
        => RecoveryInv'
    BY RecoveryInductive
  <1>3. RecoveryInv => Recoverable
    BY DEF RecoveryInv
  <1> QED BY <1>1, <1>2, <1>3, Invariance, PTL DEF Spec

\* The session implements Delivery: names appear only under an admission and
\* the admission is released only when every delivered file is named or the
\* link is dead.
THEOREM Implements == Spec => Delivers
  <1>1. Init => D!DInit
    <2> SUFFICES ASSUME Init PROVE D!DInit
      OBVIOUS
    <2>1. Delivered = named /\ named \subseteq Files
      BY ReceiveAssumption DEF Init, Delivered
    <2> QED BY <2>1 DEF Init, D!DInit, Dead
  <1>2. TypeOK /\ WholeInv /\ DeliveryInv /\ [Next]_vars => [D!DNext]_(D!dvars)
    BY StepImplements
  <1> QED BY <1>1, <1>2, Invariance, PTL DEF Spec, Delivers, D!DSpec

\* A session that is gone left no published file without a record, unless its
\* link died: the worker's and the boot's steps are Delivery's, which gives an
\* admission up only when every delivered file is named or the link is dead,
\* and a dead link stays dead.
THEOREM NothingOrphaned == Spec => []NoOrphan
  <1>1. Init => NoOrphan
    BY ReceiveAssumption DEF Init, NoOrphan, Dead, Delivered
  <1>2. TypeOK /\ WholeInv /\ DeliveryInv /\ NoOrphan /\ [Next]_vars => NoOrphan'
    <2> SUFFICES ASSUME TypeOK, WholeInv, DeliveryInv, NoOrphan, [Next]_vars
                 PROVE  NoOrphan'
      OBVIOUS
    <2>1. CASE UNCHANGED D!dvars
      BY <2>1 DEF NoOrphan, D!dvars
    <2>2. CASE D!DNext
      BY <2>2 DEF NoOrphan, D!DNext, D!Admit, D!Deliver, D!Name, D!Release, D!Die
    <2> QED BY <2>1, <2>2, StepImplements
  <1> QED BY <1>1, <1>2, Invariance, PTL DEF Spec
=============================================================================
