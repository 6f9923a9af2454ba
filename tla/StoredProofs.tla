---------------------------- MODULE StoredProofs ----------------------------
(***************************************************************************)
(* Proofs about what a port keeps: the files it retains, and the state      *)
(* directory that a restore replaces.                                       *)
(***************************************************************************)
EXTENDS Retention, Restore, TLAPS

\* Retention, deletion and holds.

Tasks ==
  [kind : {"none", "sweep", "delete", "hold", "release"}, files : SUBSET Paths,
   pc : {"none", "tombstone", "remove", "marker", "flag"}]
\* The age a table gives a record is never more than a day above its real one,
\* as the clock reads it, unless its time was acknowledged or it was stamped
\* while the wall clock was set back.
Recorded(b) ==
  /\ b.trusted <= clock.real + 1 /\ b.trusted <= clock.anchor + (clock.real - clock.since)
  /\ ~b.link => b.grant = {} /\ b.using = {} /\ \A u \in Receipts : b.rec[u] # "live"
  /\ \A u \in Receipts : b.rec[u] = "live" =>
       /\ b.path[u] \in Paths /\ owed[u] >= 1 /\ b.at[u] >= 1
       /\ \/ u \in backdated \/ owed[u] <= b.at[u]
          \/ clock.anchor - clock.since <= b.at[u] - owed[u]
RecordsSound ==
  /\ Recorded(base) /\ Recorded(archive) /\ archive.trusted <= base.trusted
  /\ base.grant \cup (base.using \ backdated) \subseteq LiveRecs
  /\ receiving # {} => base.link
  /\ \A u \in receiving : owed[u] = 0
\* The wall clock and the anchor are at most a day fast.
ClockSound ==
  /\ clock.since <= clock.real /\ 2 <= clock.real /\ 1 <= clock.wall
  /\ clock.wall <= clock.real + 1 /\ clock.anchor <= clock.since + 1
\* What a sweep has read stays true enough of every record until it has the pin.
SweepSound ==
  candidate.pc # "rest" =>
    /\ candidate.now <= base.trusted
    /\ \A u \in LiveRecs \ backdated : candidate.now + owed[u] <= clock.real + base.at[u] + 1
    /\ candidate.pc = "checked" =>
         /\ \A u \in base.using \ backdated : base.at[u] >= candidate.now
         /\ held # Nothing => base.flag
Removing == task.pc \in {"tombstone", "remove"}
TaskSound ==
  /\ task \in Tasks /\ (Removing => task.kind \in {"sweep", "delete"})
  /\ task.kind \in {"sweep", "delete"} =>
       /\ receiving = {} /\ held = Nothing
       /\ \A u \in base.grant \cup (base.using \ backdated) : base.path[u] \notin task.files
  /\ task.kind = "sweep" /\ task.pc = "tombstone" =>
       \A u \in LiveRecs \ backdated : base.path[u] \in task.files => owed[u] + Days <= clock.real
  /\ task.kind = "hold" => base.link
\* A hold has its marker, and its link is in the tables unless a restore took it out.
HoldSound ==
  /\ held # Nothing => hold /\ task.kind # "release" /\ (base.link \/ rows # "kept")
  /\ task.kind = "hold" /\ task.pc = "flag" => hold
RetentionInv ==
  /\ RetentionTypeOK /\ RecordsSound /\ ClockSound /\ SweepSound /\ TaskSound /\ HoldSound
  /\ HoldsKept /\ NothingTakenEarly

LEMMA NoBaseTypes == NoBase \in Bases
  <1>1. 0 \in 0 .. MaxTime + 1
    BY RetentionAssumption
  <1>2. [u \in Receipts |-> "none"] \in [Receipts -> {"none", "live", "gone"}]
    OBVIOUS
  <1>3. [u \in Receipts |-> 0] \in [Receipts -> 0 .. MaxTime + 1]
    BY <1>1
  <1>4. /\ [u \in Receipts |-> NoPath] \in [Receipts -> Paths \cup {NoPath}]
        /\ [u \in Receipts |-> NoReceipt] \in [Receipts -> Receipts \cup {NoReceipt}]
    OBVIOUS
  <1>5. QED
    BY <1>1, <1>2, <1>3, <1>4 DEF NoBase, Bases

LEMMA RetentionInitInv == RetentionInit => RetentionInv
  <1> SUFFICES ASSUME RetentionInit PROVE RetentionInv
    OBVIOUS
  <1> USE RetentionAssumption DEF RetentionInit
  <1>1. PICK slow \in {0, 1}, made \in BOOLEAN :
          /\ clock = [real |-> 2, wall |-> 2 - slow, anchor |-> 2 - slow, since |-> 2]
          /\ base = [NoBase EXCEPT !.link = made, !.policy = TRUE, !.trusted = 2 - slow]
    OBVIOUS
  <1>2. NoBase \in Bases /\ 2 - slow \in 0 .. MaxTime + 1 /\ 2 \in 0 .. MaxTime
    BY NoBaseTypes
  <1>9. base \in Bases
    BY <1>1, <1>2 DEF Bases
  <1>3. RetentionTypeOK
    <2>1. clock \in [real : 0 .. MaxTime, wall : 0 .. MaxTime + 1, anchor : 0 .. MaxTime + 1,
                      since : 0 .. MaxTime]
      BY <1>1, <1>2
    <2>2. /\ 0 \in 0 .. MaxTime + 1 /\ 0 \in 0 .. MaxTime /\ 0 \in 0 .. MaxReboots
      OBVIOUS
    <2>3. candidate \in [pc : {"rest", "read", "checked"}, now : 0 .. MaxTime + 1, flag : BOOLEAN]
      BY <2>2 DEF NoCandidate
    <2>4. owed \in [Receipts -> 0 .. MaxTime] /\ reboots \in 0 .. MaxReboots
      BY <2>2
    <2>5. QED
      BY <1>2, <1>9, <2>1, <2>3, <2>4 DEF RetentionTypeOK, NoTask, Nothing
  <1>4. /\ base.trusted = 2 - slow /\ \A u \in Receipts : base.rec[u] = "none"
        /\ base.grant = {} /\ base.using = {} /\ archive.grant = {} /\ archive.using = {}
        /\ archive.trusted = 0 /\ \A u \in Receipts : archive.rec[u] = "none"
    BY <1>1 DEF NoBase
  <1>5. RecordsSound /\ ClockSound
    BY <1>1, <1>4 DEF RecordsSound, Recorded, ClockSound, LiveRecs
  <1>6. SweepSound /\ HoldSound /\ HoldsKept
    BY <1>4 DEF SweepSound, HoldSound, HoldsKept, NoCandidate, NoTask, Nothing
  <1>7. TaskSound /\ NothingTakenEarly
    BY <1>4 DEF TaskSound, Tasks, Removing, NothingTakenEarly, NoTask
  <1>8. QED
    BY <1>3, <1>5, <1>6, <1>7 DEF RetentionInv

LEMMA CreateLinkKeeps ==
  ASSUME RetentionInv, CreateLink PROVE RetentionInv'
  <1>1. RetentionTypeOK /\ RecordsSound /\ ClockSound /\ SweepSound /\ TaskSound /\ HoldSound /\ HoldsKept /\ NothingTakenEarly
    BY DEF RetentionInv
  <1> USE <1>1, RetentionAssumption
  <1>b. base' \in Bases
    BY DEF CreateLink, RetentionTypeOK, Bases
  <1>2. RetentionTypeOK'
    BY <1>b DEF CreateLink, NoCandidate, RetentionTypeOK, ghosts
  <1>3. RecordsSound'
    BY <1>2 DEF RecordsSound, Recorded, ClockSound, RetentionTypeOK, Bases, ghosts, NoTask,
       NoCandidate, Nothing, Unpinned, LiveRecs, Naming, CreateLink
  <1>4. ClockSound'
    BY <1>2 DEF ClockSound, RecordsSound, Recorded, RetentionTypeOK, Bases, ghosts, NoTask,
       NoCandidate, Nothing, Unpinned, LiveRecs, Naming, CreateLink
  <1>5. SweepSound'
    BY <1>2 DEF SweepSound, ClockSound, RecordsSound, Recorded, RetentionTypeOK, Bases, ghosts, NoTask,
       NoCandidate, Nothing, Unpinned, LiveRecs, Naming, CreateLink
  <1>6. TaskSound'
    BY <1>2 DEF TaskSound, Removing, Tasks, SweepSound, HoldSound, RecordsSound, RetentionTypeOK, Bases, ghosts, NoTask,
       NoCandidate, Nothing, Unpinned, LiveRecs, Naming, CreateLink
  <1>7. HoldSound'
    BY <1>2 DEF HoldSound, TaskSound, Tasks, Removing, RetentionTypeOK, Bases, ghosts, NoTask,
       NoCandidate, Nothing, Unpinned, LiveRecs, Naming, CreateLink
  <1>8. HoldsKept'
    BY <1>2 DEF HoldsKept, TaskSound, HoldSound, Tasks, Removing, RetentionTypeOK, Bases, ghosts, NoTask,
       NoCandidate, Nothing, Unpinned, LiveRecs, Naming, CreateLink
  <1>9. NothingTakenEarly'
    BY <1>2 DEF NothingTakenEarly, TaskSound, Removing, Tasks, RecordsSound, Recorded, RetentionTypeOK, Bases, ghosts, NoTask,
       NoCandidate, Nothing, Unpinned, LiveRecs, Naming, CreateLink
  <1>10. QED
    BY <1>2, <1>3, <1>4, <1>5, <1>6, <1>7, <1>8, <1>9 DEF RetentionInv

LEMMA BeginUploadKeeps ==
  ASSUME RetentionInv, NEW u \in Receipts, BeginUpload(u) PROVE RetentionInv'
  <1>1. RetentionTypeOK /\ RecordsSound /\ ClockSound /\ SweepSound /\ TaskSound /\ HoldSound /\ HoldsKept /\ NothingTakenEarly
    BY DEF RetentionInv
  <1> USE <1>1, RetentionAssumption
  <1>2. RetentionTypeOK'
    BY DEF RetentionTypeOK, TaskSound, Tasks, ClockSound, Bases, ghosts, NoTask, NoCandidate,
       Nothing, Unpinned, LiveRecs, Naming, BeginUpload
  <1>3. RecordsSound'
    BY <1>2 DEF RecordsSound, Recorded, ClockSound, RetentionTypeOK, Bases, ghosts, NoTask,
       NoCandidate, Nothing, Unpinned, LiveRecs, Naming, BeginUpload
  <1>4. ClockSound'
    BY <1>2 DEF RetentionTypeOK, ClockSound, RecordsSound, Recorded, Bases, ghosts, NoTask,
       NoCandidate, Nothing, Unpinned, LiveRecs, Naming, BeginUpload
  <1>5. SweepSound'
    BY <1>2 DEF SweepSound, ClockSound, RecordsSound, Recorded, RetentionTypeOK, Bases, ghosts,
       NoTask, NoCandidate, Nothing, Unpinned, LiveRecs, Naming, BeginUpload
  <1>6. TaskSound'
    BY <1>2 DEF TaskSound, Removing, Tasks, SweepSound, HoldSound, RecordsSound, RetentionTypeOK,
       Bases, ghosts, NoTask, NoCandidate, Nothing, Unpinned, LiveRecs, Naming, BeginUpload
  <1>7. HoldSound'
    BY <1>2 DEF HoldSound, TaskSound, Tasks, Removing, ghosts, NoTask, NoCandidate, Nothing,
       Unpinned, LiveRecs, Naming, BeginUpload
  <1>8. HoldsKept'
    BY <1>2 DEF HoldsKept, TaskSound, HoldSound, Tasks, Removing, RetentionTypeOK, ghosts, NoTask,
       NoCandidate, Nothing, Unpinned, LiveRecs, Naming, BeginUpload
  <1>9. NothingTakenEarly'
    BY <1>2 DEF NothingTakenEarly, TaskSound, Removing, Tasks, RecordsSound, Recorded,
       RetentionTypeOK, Bases, ghosts, NoTask, NoCandidate, Nothing, Unpinned, LiveRecs, Naming,
       BeginUpload
  <1>10. QED
    BY <1>2, <1>3, <1>4, <1>5, <1>6, <1>7, <1>8, <1>9 DEF RetentionInv

LEMMA CompleteUploadKeeps ==
  ASSUME RetentionInv, NEW u \in Receipts, NEW p \in Paths, CompleteUpload(u, p) PROVE RetentionInv'
  <1>1. RetentionTypeOK /\ RecordsSound /\ ClockSound /\ SweepSound /\ TaskSound /\ HoldSound /\ HoldsKept /\ NothingTakenEarly
    BY DEF RetentionInv
  <1> USE <1>1, RetentionAssumption
  <1>o. (IF payload[p] = NoReceipt THEN u ELSE payload[p]) \in Receipts \cup {NoReceipt}
    BY DEF RetentionTypeOK
  <1>w. clock.wall \in 0 .. MaxTime + 1 /\ base \in Bases
    BY DEF RetentionTypeOK
  <1>b. base' \in Bases
    BY <1>o, <1>w DEF CompleteUpload, Completed, Ceiling, Bases
  <1>y. payload' \in [Paths -> Receipts \cup {NoReceipt}] /\ owed' \in [Receipts -> 0 .. MaxTime]
    BY <1>o DEF CompleteUpload, RetentionTypeOK
  <1>2. RetentionTypeOK'
    BY <1>b, <1>y DEF CompleteUpload, RetentionTypeOK
  <1>3. RecordsSound'
    BY <1>2 DEF RecordsSound, Recorded, ClockSound, RetentionTypeOK, Bases, ghosts, NoTask,
       NoCandidate, Nothing, Unpinned, LiveRecs, Naming, CompleteUpload, Completed, Ceiling
  <1>4. ClockSound'
    BY <1>2 DEF RetentionTypeOK, ClockSound, RecordsSound, Recorded, Bases, ghosts, NoTask,
       NoCandidate, Nothing, Unpinned, LiveRecs, Naming, CompleteUpload, Completed, Ceiling
  <1>5. SweepSound'
    BY <1>2 DEF SweepSound, ClockSound, RecordsSound, Recorded, RetentionTypeOK, Bases, ghosts,
       NoTask, NoCandidate, Nothing, Unpinned, LiveRecs, Naming, CompleteUpload, Completed, Ceiling
  <1>6. TaskSound'
    BY <1>2 DEF TaskSound, Removing, Tasks, SweepSound, HoldSound, RecordsSound, RetentionTypeOK,
       Bases, ghosts, NoTask, NoCandidate, Nothing, Unpinned, LiveRecs, Naming, CompleteUpload,
       Completed, Ceiling
  <1>7. HoldSound'
    BY <1>2 DEF HoldSound, TaskSound, Tasks, Removing, ghosts, NoTask, NoCandidate, Nothing,
       Unpinned, LiveRecs, Naming, CompleteUpload, Completed, Ceiling
  <1>8. HoldsKept'
    BY <1>2 DEF HoldsKept, TaskSound, HoldSound, Tasks, Removing, RetentionTypeOK, ghosts, NoTask,
       NoCandidate, Nothing, Unpinned, LiveRecs, Naming, CompleteUpload, Completed, Ceiling
  <1>9. NothingTakenEarly'
    BY <1>2 DEF NothingTakenEarly, TaskSound, Removing, Tasks, RecordsSound, Recorded,
       RetentionTypeOK, Bases, ghosts, NoTask, NoCandidate, Nothing, Unpinned, LiveRecs, Naming,
       CompleteUpload, Completed, Ceiling
  <1>10. QED
    BY <1>2, <1>3, <1>4, <1>5, <1>6, <1>7, <1>8, <1>9 DEF RetentionInv

LEMMA RetireWorkflowKeeps ==
  ASSUME RetentionInv, NEW u \in Receipts, RetireWorkflow(u) PROVE RetentionInv'
  <1>1. RetentionTypeOK /\ RecordsSound /\ ClockSound /\ SweepSound /\ TaskSound /\ HoldSound /\ HoldsKept /\ NothingTakenEarly
    BY DEF RetentionInv
  <1> USE <1>1, RetentionAssumption
  <1>b. base' \in Bases
    BY DEF RetireWorkflow, LiveRecs, RetentionTypeOK, Bases
  <1>2. RetentionTypeOK'
    BY <1>b DEF RetireWorkflow, RetentionTypeOK, ghosts
  <1>3. RecordsSound'
    BY <1>2 DEF RecordsSound, Recorded, ClockSound, RetentionTypeOK, Bases, ghosts, NoTask,
       NoCandidate, Nothing, Unpinned, LiveRecs, Naming, RetireWorkflow
  <1>4. ClockSound'
    BY <1>2 DEF RetentionTypeOK, ClockSound, RecordsSound, Recorded, Bases, ghosts, NoTask,
       NoCandidate, Nothing, Unpinned, LiveRecs, Naming, RetireWorkflow
  <1>5. SweepSound'
    BY <1>2 DEF SweepSound, ClockSound, RecordsSound, Recorded, RetentionTypeOK, Bases, ghosts,
       NoTask, NoCandidate, Nothing, Unpinned, LiveRecs, Naming, RetireWorkflow
  <1>6. TaskSound'
    BY <1>2 DEF TaskSound, Removing, Tasks, SweepSound, HoldSound, RecordsSound, RetentionTypeOK,
       Bases, ghosts, NoTask, NoCandidate, Nothing, Unpinned, LiveRecs, Naming, RetireWorkflow
  <1>7. HoldSound'
    BY <1>2 DEF HoldSound, TaskSound, Tasks, Removing, ghosts, NoTask, NoCandidate, Nothing,
       Unpinned, LiveRecs, Naming, RetireWorkflow
  <1>8. HoldsKept'
    BY <1>2 DEF HoldsKept, TaskSound, HoldSound, Tasks, Removing, RetentionTypeOK, ghosts, NoTask,
       NoCandidate, Nothing, Unpinned, LiveRecs, Naming, RetireWorkflow
  <1>9. NothingTakenEarly'
    BY <1>2 DEF NothingTakenEarly, TaskSound, Removing, Tasks, RecordsSound, Recorded,
       RetentionTypeOK, Bases, ghosts, NoTask, NoCandidate, Nothing, Unpinned, LiveRecs, Naming,
       RetireWorkflow
  <1>10. QED
    BY <1>2, <1>3, <1>4, <1>5, <1>6, <1>7, <1>8, <1>9 DEF RetentionInv

LEMMA GrantFileKeeps ==
  ASSUME RetentionInv, NEW u \in Receipts, GrantFile(u) PROVE RetentionInv'
  <1>1. RetentionTypeOK /\ RecordsSound /\ ClockSound /\ SweepSound /\ TaskSound /\ HoldSound /\ HoldsKept /\ NothingTakenEarly
    BY DEF RetentionInv
  <1> USE <1>1, RetentionAssumption
  <1>b. base' \in Bases
    BY DEF GrantFile, LiveRecs, RetentionTypeOK, Bases
  <1>2. RetentionTypeOK'
    BY <1>b DEF GrantFile, RetentionTypeOK, ghosts
  <1>3. RecordsSound'
    BY <1>2 DEF RecordsSound, Recorded, ClockSound, RetentionTypeOK, Bases, ghosts, NoTask,
       NoCandidate, Nothing, Unpinned, LiveRecs, Naming, GrantFile
  <1>4. ClockSound'
    BY <1>2 DEF RetentionTypeOK, ClockSound, RecordsSound, Recorded, Bases, ghosts, NoTask,
       NoCandidate, Nothing, Unpinned, LiveRecs, Naming, GrantFile
  <1>5. SweepSound'
    BY <1>2 DEF SweepSound, ClockSound, RecordsSound, Recorded, RetentionTypeOK, Bases, ghosts,
       NoTask, NoCandidate, Nothing, Unpinned, LiveRecs, Naming, GrantFile
  <1>6. TaskSound'
    BY <1>2 DEF TaskSound, Removing, Tasks, SweepSound, HoldSound, RecordsSound, RetentionTypeOK,
       Bases, ghosts, NoTask, NoCandidate, Nothing, Unpinned, LiveRecs, Naming, GrantFile
  <1>7. HoldSound'
    BY <1>2 DEF HoldSound, TaskSound, Tasks, Removing, ghosts, NoTask, NoCandidate, Nothing,
       Unpinned, LiveRecs, Naming, GrantFile
  <1>8. HoldsKept'
    BY <1>2 DEF HoldsKept, TaskSound, HoldSound, Tasks, Removing, RetentionTypeOK, ghosts, NoTask,
       NoCandidate, Nothing, Unpinned, LiveRecs, Naming, GrantFile
  <1>9. NothingTakenEarly'
    BY <1>2 DEF NothingTakenEarly, TaskSound, Removing, Tasks, RecordsSound, Recorded,
       RetentionTypeOK, Bases, ghosts, NoTask, NoCandidate, Nothing, Unpinned, LiveRecs, Naming,
       GrantFile
  <1>10. QED
    BY <1>2, <1>3, <1>4, <1>5, <1>6, <1>7, <1>8, <1>9 DEF RetentionInv

LEMMA EndGrantKeeps ==
  ASSUME RetentionInv, NEW u \in Receipts, EndGrant(u) PROVE RetentionInv'
  <1>1. RetentionTypeOK /\ RecordsSound /\ ClockSound /\ SweepSound /\ TaskSound /\ HoldSound /\ HoldsKept /\ NothingTakenEarly
    BY DEF RetentionInv
  <1> USE <1>1, RetentionAssumption
  <1>b. base' \in Bases
    BY DEF EndGrant, LiveRecs, RetentionTypeOK, Bases
  <1>2. RetentionTypeOK'
    BY <1>b DEF EndGrant, RetentionTypeOK, ghosts
  <1>3. RecordsSound'
    BY <1>2 DEF RecordsSound, Recorded, ClockSound, RetentionTypeOK, Bases, ghosts, NoTask,
       NoCandidate, Nothing, Unpinned, LiveRecs, Naming, EndGrant
  <1>4. ClockSound'
    BY <1>2 DEF RetentionTypeOK, ClockSound, RecordsSound, Recorded, Bases, ghosts, NoTask,
       NoCandidate, Nothing, Unpinned, LiveRecs, Naming, EndGrant
  <1>5. SweepSound'
    BY <1>2 DEF SweepSound, ClockSound, RecordsSound, Recorded, RetentionTypeOK, Bases, ghosts,
       NoTask, NoCandidate, Nothing, Unpinned, LiveRecs, Naming, EndGrant
  <1>6. TaskSound'
    BY <1>2 DEF TaskSound, Removing, Tasks, SweepSound, HoldSound, RecordsSound, RetentionTypeOK,
       Bases, ghosts, NoTask, NoCandidate, Nothing, Unpinned, LiveRecs, Naming, EndGrant
  <1>7. HoldSound'
    BY <1>2 DEF HoldSound, TaskSound, Tasks, Removing, ghosts, NoTask, NoCandidate, Nothing,
       Unpinned, LiveRecs, Naming, EndGrant
  <1>8. HoldsKept'
    BY <1>2 DEF HoldsKept, TaskSound, HoldSound, Tasks, Removing, RetentionTypeOK, ghosts, NoTask,
       NoCandidate, Nothing, Unpinned, LiveRecs, Naming, EndGrant
  <1>9. NothingTakenEarly'
    BY <1>2 DEF NothingTakenEarly, TaskSound, Removing, Tasks, RecordsSound, Recorded,
       RetentionTypeOK, Bases, ghosts, NoTask, NoCandidate, Nothing, Unpinned, LiveRecs, Naming,
       EndGrant
  <1>10. QED
    BY <1>2, <1>3, <1>4, <1>5, <1>6, <1>7, <1>8, <1>9 DEF RetentionInv

LEMMA TickKeeps ==
  ASSUME RetentionInv, Tick PROVE RetentionInv'
  <1>1. RetentionTypeOK /\ RecordsSound /\ ClockSound /\ SweepSound /\ TaskSound /\ HoldSound /\ HoldsKept /\ NothingTakenEarly
    BY DEF RetentionInv
  <1> USE <1>1, RetentionAssumption
  <1>s. scope.until \in 0 .. MaxTime /\ scope.restarts \in 0 .. MaxReboots
    BY DEF RetentionTypeOK
  <1>n. clock.real + 1 \in 0 .. MaxTime /\ clock.wall + 1 \in 0 .. MaxTime + 1
    BY <1>s DEF Tick, RetentionTypeOK, ClockSound
  <1>c. clock' \in [real : 0 .. MaxTime, wall : 0 .. MaxTime + 1, anchor : 0 .. MaxTime + 1, since : 0 .. MaxTime]
    BY <1>n DEF Tick, RetentionTypeOK
  <1>2. RetentionTypeOK'
    BY <1>c DEF Tick, RetentionTypeOK, ghosts
  <1>3. RecordsSound'
    BY <1>2 DEF RecordsSound, Recorded, ClockSound, RetentionTypeOK, Bases, ghosts, NoTask,
       NoCandidate, Nothing, Unpinned, LiveRecs, Naming, Tick
  <1>4. ClockSound'
    BY <1>2 DEF RetentionTypeOK, ClockSound, RecordsSound, Recorded, Bases, ghosts, NoTask,
       NoCandidate, Nothing, Unpinned, LiveRecs, Naming, Tick
  <1>5. SweepSound'
    BY <1>2 DEF SweepSound, ClockSound, RecordsSound, Recorded, RetentionTypeOK, Bases, ghosts,
       NoTask, NoCandidate, Nothing, Unpinned, LiveRecs, Naming, Tick
  <1>6. TaskSound'
    BY <1>2 DEF TaskSound, Removing, Tasks, SweepSound, HoldSound, RecordsSound, RetentionTypeOK,
       Bases, ghosts, NoTask, NoCandidate, Nothing, Unpinned, LiveRecs, Naming, Tick
  <1>7. HoldSound'
    BY <1>2 DEF HoldSound, TaskSound, Tasks, Removing, ghosts, NoTask, NoCandidate, Nothing,
       Unpinned, LiveRecs, Naming, Tick
  <1>8. HoldsKept'
    BY <1>2 DEF HoldsKept, TaskSound, HoldSound, Tasks, Removing, RetentionTypeOK, ghosts, NoTask,
       NoCandidate, Nothing, Unpinned, LiveRecs, Naming, Tick
  <1>9. NothingTakenEarly'
    BY <1>2 DEF NothingTakenEarly, TaskSound, Removing, Tasks, RecordsSound, Recorded,
       RetentionTypeOK, Bases, ghosts, NoTask, NoCandidate, Nothing, Unpinned, LiveRecs, Naming,
       Tick
  <1>10. QED
    BY <1>2, <1>3, <1>4, <1>5, <1>6, <1>7, <1>8, <1>9 DEF RetentionInv

LEMMA StepClockKeeps ==
  ASSUME RetentionInv, StepClock PROVE RetentionInv'
  <1>1. RetentionTypeOK /\ RecordsSound /\ ClockSound /\ SweepSound /\ TaskSound /\ HoldSound /\ HoldsKept /\ NothingTakenEarly
    BY DEF RetentionInv
  <1> USE <1>1, RetentionAssumption
  <1>2. RetentionTypeOK'
    BY DEF RetentionTypeOK, TaskSound, Tasks, ClockSound, Bases, ghosts, NoTask, NoCandidate,
       Nothing, Unpinned, LiveRecs, Naming, StepClock
  <1>3. RecordsSound'
    BY <1>2 DEF RecordsSound, Recorded, ClockSound, RetentionTypeOK, Bases, ghosts, NoTask,
       NoCandidate, Nothing, Unpinned, LiveRecs, Naming, StepClock
  <1>4. ClockSound'
    BY <1>2 DEF RetentionTypeOK, ClockSound, RecordsSound, Recorded, Bases, ghosts, NoTask,
       NoCandidate, Nothing, Unpinned, LiveRecs, Naming, StepClock
  <1>5. SweepSound'
    BY <1>2 DEF SweepSound, ClockSound, RecordsSound, Recorded, RetentionTypeOK, Bases, ghosts,
       NoTask, NoCandidate, Nothing, Unpinned, LiveRecs, Naming, StepClock
  <1>6. TaskSound'
    BY <1>2 DEF TaskSound, Removing, Tasks, SweepSound, HoldSound, RecordsSound, RetentionTypeOK,
       Bases, ghosts, NoTask, NoCandidate, Nothing, Unpinned, LiveRecs, Naming, StepClock
  <1>7. HoldSound'
    BY <1>2 DEF HoldSound, TaskSound, Tasks, Removing, ghosts, NoTask, NoCandidate, Nothing,
       Unpinned, LiveRecs, Naming, StepClock
  <1>8. HoldsKept'
    BY <1>2 DEF HoldsKept, TaskSound, HoldSound, Tasks, Removing, RetentionTypeOK, ghosts, NoTask,
       NoCandidate, Nothing, Unpinned, LiveRecs, Naming, StepClock
  <1>9. NothingTakenEarly'
    BY <1>2 DEF NothingTakenEarly, TaskSound, Removing, Tasks, RecordsSound, Recorded,
       RetentionTypeOK, Bases, ghosts, NoTask, NoCandidate, Nothing, Unpinned, LiveRecs, Naming,
       StepClock
  <1>10. QED
    BY <1>2, <1>3, <1>4, <1>5, <1>6, <1>7, <1>8, <1>9 DEF RetentionInv

LEMMA SetBackKeeps ==
  ASSUME RetentionInv, SetBack PROVE RetentionInv'
  <1>1. RetentionTypeOK /\ RecordsSound /\ ClockSound /\ SweepSound /\ TaskSound /\ HoldSound /\ HoldsKept /\ NothingTakenEarly
    BY DEF RetentionInv
  <1> USE <1>1, RetentionAssumption
  <1>2. RetentionTypeOK'
    BY DEF TaskSound, Tasks, ClockSound, RetentionTypeOK, Bases, ghosts, NoTask,
       NoCandidate, Nothing, Unpinned, LiveRecs, Naming, SetBack, Most
  <1>3. RecordsSound'
    BY <1>2 DEF RecordsSound, Recorded, ClockSound, RetentionTypeOK, Bases, ghosts, NoTask,
       NoCandidate, Nothing, Unpinned, LiveRecs, Naming, SetBack, Most
  <1>4. ClockSound'
    BY <1>2 DEF ClockSound, RecordsSound, Recorded, RetentionTypeOK, Bases, ghosts, NoTask,
       NoCandidate, Nothing, Unpinned, LiveRecs, Naming, SetBack, Most
  <1>5. SweepSound'
    BY <1>2 DEF SweepSound, ClockSound, RecordsSound, Recorded, RetentionTypeOK, Bases, ghosts, NoTask,
       NoCandidate, Nothing, Unpinned, LiveRecs, Naming, SetBack, Most
  <1>6. TaskSound'
    BY <1>2 DEF TaskSound, Removing, Tasks, SweepSound, HoldSound, RecordsSound, RetentionTypeOK, Bases, ghosts, NoTask,
       NoCandidate, Nothing, Unpinned, LiveRecs, Naming, SetBack, Most
  <1>7. HoldSound'
    BY <1>2 DEF HoldSound, TaskSound, Tasks, Removing, RetentionTypeOK, Bases, ghosts, NoTask,
       NoCandidate, Nothing, Unpinned, LiveRecs, Naming, SetBack, Most
  <1>8. HoldsKept'
    BY <1>2 DEF HoldsKept, TaskSound, HoldSound, Tasks, Removing, RetentionTypeOK, Bases, ghosts, NoTask,
       NoCandidate, Nothing, Unpinned, LiveRecs, Naming, SetBack, Most
  <1>9. NothingTakenEarly'
    BY <1>2 DEF NothingTakenEarly, TaskSound, Removing, Tasks, RecordsSound, Recorded, RetentionTypeOK, Bases, ghosts, NoTask,
       NoCandidate, Nothing, Unpinned, LiveRecs, Naming, SetBack, Most
  <1>10. QED
    BY <1>2, <1>3, <1>4, <1>5, <1>6, <1>7, <1>8, <1>9 DEF RetentionInv

LEMMA AcknowledgeKeeps ==
  ASSUME RetentionInv, Acknowledge PROVE RetentionInv'
  <1>1. RetentionTypeOK /\ RecordsSound /\ ClockSound /\ SweepSound /\ TaskSound /\ HoldSound /\ HoldsKept /\ NothingTakenEarly
    BY DEF RetentionInv
  <1> USE <1>1, RetentionAssumption
  <1>w. base \in Bases /\ clock.wall \in 0 .. MaxTime + 1 /\ base.trusted \in 0 .. MaxTime + 1 /\ clock.real \in 0 .. MaxTime
    BY DEF RetentionTypeOK, Bases
  <1>b. base' \in Bases /\ base'.trusted \in 0 .. MaxTime + 1
    BY <1>w DEF Acknowledge, Most, Bases
  <1>c. clock' \in [real : 0 .. MaxTime, wall : 0 .. MaxTime + 1, anchor : 0 .. MaxTime + 1, since : 0 .. MaxTime]
    BY <1>w, <1>b DEF Acknowledge, RetentionTypeOK
  <1>y. owed' \in [Receipts -> 0 .. MaxTime]
    BY DEF Acknowledge, Least, RetentionTypeOK
  <1>2. RetentionTypeOK'
    BY <1>b, <1>c, <1>y DEF Acknowledge, RetentionTypeOK
  <1>3. RecordsSound'
    BY <1>2 DEF RecordsSound, Recorded, ClockSound, RetentionTypeOK, Bases, ghosts, NoTask,
       NoCandidate, Nothing, Unpinned, LiveRecs, Naming, Acknowledge, Most, Least
  <1>4. ClockSound'
    BY <1>2 DEF RetentionTypeOK, ClockSound, RecordsSound, Recorded, Bases, ghosts, NoTask,
       NoCandidate, Nothing, Unpinned, LiveRecs, Naming, Acknowledge, Most, Least
  <1>5. SweepSound'
    BY <1>2 DEF SweepSound, ClockSound, RecordsSound, Recorded, RetentionTypeOK, Bases, ghosts,
       NoTask, NoCandidate, Nothing, Unpinned, LiveRecs, Naming, Acknowledge, Most, Least
  <1>6. TaskSound'
    BY <1>2 DEF TaskSound, Removing, Tasks, SweepSound, HoldSound, RecordsSound, RetentionTypeOK,
       Bases, ghosts, NoTask, NoCandidate, Nothing, Unpinned, LiveRecs, Naming, Acknowledge, Most,
       Least
  <1>7. HoldSound'
    BY <1>2 DEF HoldSound, TaskSound, Tasks, Removing, ghosts, NoTask, NoCandidate, Nothing,
       Unpinned, LiveRecs, Naming, Acknowledge, Most, Least
  <1>8. HoldsKept'
    BY <1>2 DEF HoldsKept, TaskSound, HoldSound, Tasks, Removing, RetentionTypeOK, ghosts, NoTask,
       NoCandidate, Nothing, Unpinned, LiveRecs, Naming, Acknowledge, Most, Least
  <1>9. NothingTakenEarly'
    BY <1>2 DEF NothingTakenEarly, TaskSound, Removing, Tasks, RecordsSound, Recorded,
       RetentionTypeOK, Bases, ghosts, NoTask, NoCandidate, Nothing, Unpinned, LiveRecs, Naming,
       Acknowledge, Most, Least
  <1>10. QED
    BY <1>2, <1>3, <1>4, <1>5, <1>6, <1>7, <1>8, <1>9 DEF RetentionInv

LEMMA SweepReadKeeps ==
  ASSUME RetentionInv, SweepRead PROVE RetentionInv'
  <1>1. RetentionTypeOK /\ RecordsSound /\ ClockSound /\ SweepSound /\ TaskSound /\ HoldSound /\ HoldsKept /\ NothingTakenEarly
    BY DEF RetentionInv
  <1> USE <1>1, RetentionAssumption
  <1>2. RetentionTypeOK'
    BY DEF RetentionTypeOK, TaskSound, Tasks, ClockSound, Bases, ghosts, NoTask, NoCandidate,
       Nothing, Unpinned, LiveRecs, Naming, SweepRead, Effective, Ceiling, Most, Least
  <1>3. RecordsSound'
    BY <1>2 DEF RecordsSound, Recorded, ClockSound, RetentionTypeOK, Bases, ghosts, NoTask,
       NoCandidate, Nothing, Unpinned, LiveRecs, Naming, SweepRead, Effective, Ceiling, Most, Least
  <1>4. ClockSound'
    BY <1>2 DEF RetentionTypeOK, ClockSound, RecordsSound, Recorded, Bases, ghosts, NoTask,
       NoCandidate, Nothing, Unpinned, LiveRecs, Naming, SweepRead, Effective, Ceiling, Most, Least
  <1>5. SweepSound'
    BY <1>2 DEF SweepSound, ClockSound, RecordsSound, Recorded, RetentionTypeOK, Bases, ghosts,
       NoTask, NoCandidate, Nothing, Unpinned, LiveRecs, Naming, SweepRead, Effective, Ceiling, Most, Least
  <1>6. TaskSound'
    BY <1>2 DEF TaskSound, Removing, Tasks, SweepSound, HoldSound, RecordsSound, RetentionTypeOK,
       Bases, ghosts, NoTask, NoCandidate, Nothing, Unpinned, LiveRecs, Naming, SweepRead,
       Effective, Ceiling, Most, Least
  <1>7. HoldSound'
    BY <1>2 DEF HoldSound, TaskSound, Tasks, Removing, ghosts, NoTask, NoCandidate, Nothing,
       Unpinned, LiveRecs, Naming, SweepRead, Effective, Ceiling, Most, Least
  <1>8. HoldsKept'
    BY <1>2 DEF HoldsKept, TaskSound, HoldSound, Tasks, Removing, RetentionTypeOK, ghosts, NoTask,
       NoCandidate, Nothing, Unpinned, LiveRecs, Naming, SweepRead, Effective, Ceiling, Most, Least
  <1>9. NothingTakenEarly'
    BY <1>2 DEF NothingTakenEarly, TaskSound, Removing, Tasks, RecordsSound, Recorded,
       RetentionTypeOK, Bases, ghosts, NoTask, NoCandidate, Nothing, Unpinned, LiveRecs, Naming,
       SweepRead, Effective, Ceiling, Most, Least
  <1>10. QED
    BY <1>2, <1>3, <1>4, <1>5, <1>6, <1>7, <1>8, <1>9 DEF RetentionInv

LEMMA SweepCheckKeeps ==
  ASSUME RetentionInv, SweepCheck PROVE RetentionInv'
  <1>1. RetentionTypeOK /\ RecordsSound /\ ClockSound /\ SweepSound /\ TaskSound /\ HoldSound /\ HoldsKept /\ NothingTakenEarly
    BY DEF RetentionInv
  <1> USE <1>1, RetentionAssumption
  <1>2. RetentionTypeOK'
    BY DEF RetentionTypeOK, TaskSound, Tasks, ClockSound, Bases, ghosts, NoTask, NoCandidate,
       Nothing, Unpinned, LiveRecs, Naming, SweepCheck
  <1>3. RecordsSound'
    BY <1>2 DEF RecordsSound, Recorded, ClockSound, RetentionTypeOK, Bases, ghosts, NoTask,
       NoCandidate, Nothing, Unpinned, LiveRecs, Naming, SweepCheck
  <1>4. ClockSound'
    BY <1>2 DEF RetentionTypeOK, ClockSound, RecordsSound, Recorded, Bases, ghosts, NoTask,
       NoCandidate, Nothing, Unpinned, LiveRecs, Naming, SweepCheck
  <1>5. SweepSound'
    BY DEF SweepCheck, SweepSound, HoldSound, NoCandidate, LiveRecs, RetentionTypeOK, ghosts
  <1>6. TaskSound'
    BY <1>2 DEF TaskSound, Removing, Tasks, SweepSound, HoldSound, RecordsSound, RetentionTypeOK,
       Bases, ghosts, NoTask, NoCandidate, Nothing, Unpinned, LiveRecs, Naming, SweepCheck
  <1>7. HoldSound'
    BY <1>2 DEF HoldSound, TaskSound, Tasks, Removing, ghosts, NoTask, NoCandidate, Nothing,
       Unpinned, LiveRecs, Naming, SweepCheck
  <1>8. HoldsKept'
    BY <1>2 DEF HoldsKept, TaskSound, HoldSound, Tasks, Removing, RetentionTypeOK, ghosts, NoTask,
       NoCandidate, Nothing, Unpinned, LiveRecs, Naming, SweepCheck
  <1>9. NothingTakenEarly'
    BY <1>2 DEF NothingTakenEarly, TaskSound, Removing, Tasks, RecordsSound, Recorded,
       RetentionTypeOK, Bases, ghosts, NoTask, NoCandidate, Nothing, Unpinned, LiveRecs, Naming,
       SweepCheck
  <1>10. QED
    BY <1>2, <1>3, <1>4, <1>5, <1>6, <1>7, <1>8, <1>9 DEF RetentionInv

LEMMA SweepPinKeeps ==
  ASSUME RetentionInv, SweepPin PROVE RetentionInv'
  <1>1. RetentionTypeOK /\ RecordsSound /\ ClockSound /\ SweepSound /\ TaskSound /\ HoldSound /\ HoldsKept /\ NothingTakenEarly
    BY DEF RetentionInv
  <1> USE <1>1, RetentionAssumption
  <1>x. task' \in Tasks
    BY DEF SweepPin, Expired, Tasks, TaskSound, RecordsSound, Recorded, LiveRecs
  <1>2. RetentionTypeOK'
    BY <1>x DEF SweepPin, Tasks, NoCandidate, RetentionTypeOK, ghosts
  <1>3. RecordsSound'
    BY <1>2 DEF RecordsSound, Recorded, ClockSound, RetentionTypeOK, Bases, ghosts, NoTask,
       NoCandidate, Nothing, Unpinned, LiveRecs, Naming, SweepPin, Expired
  <1>4. ClockSound'
    BY <1>2 DEF RetentionTypeOK, ClockSound, RecordsSound, Recorded, Bases, ghosts, NoTask,
       NoCandidate, Nothing, Unpinned, LiveRecs, Naming, SweepPin, Expired
  <1>5. SweepSound'
    BY <1>2 DEF SweepSound, ClockSound, RecordsSound, Recorded, RetentionTypeOK, Bases, ghosts,
       NoTask, NoCandidate, Nothing, Unpinned, LiveRecs, Naming, SweepPin, Expired
  <1>6. TaskSound'
    BY <1>2 DEF TaskSound, Removing, Tasks, SweepSound, HoldSound, RecordsSound, RetentionTypeOK,
       Bases, ghosts, NoTask, NoCandidate, Nothing, Unpinned, LiveRecs, Naming, SweepPin, Expired
  <1>7. HoldSound'
    BY <1>2 DEF HoldSound, TaskSound, Tasks, Removing, ghosts, NoTask, NoCandidate, Nothing,
       Unpinned, LiveRecs, Naming, SweepPin, Expired
  <1>8. HoldsKept'
    BY <1>2 DEF HoldsKept, TaskSound, HoldSound, Tasks, Removing, RetentionTypeOK, ghosts, NoTask,
       NoCandidate, Nothing, Unpinned, LiveRecs, Naming, SweepPin, Expired
  <1>9. NothingTakenEarly'
    BY <1>2 DEF NothingTakenEarly, TaskSound, Removing, Tasks, RecordsSound, Recorded,
       RetentionTypeOK, Bases, ghosts, NoTask, NoCandidate, Nothing, Unpinned, LiveRecs, Naming,
       SweepPin, Expired
  <1>10. QED
    BY <1>2, <1>3, <1>4, <1>5, <1>6, <1>7, <1>8, <1>9 DEF RetentionInv

LEMMA TombstoneKeeps ==
  ASSUME RetentionInv, Tombstone PROVE RetentionInv'
  <1>1. RetentionTypeOK /\ RecordsSound /\ ClockSound /\ SweepSound /\ TaskSound /\ HoldSound /\ HoldsKept /\ NothingTakenEarly
    BY DEF RetentionInv
  <1> USE <1>1, RetentionAssumption
  <1>g. \A u \in base.grant \cup (base.using \ backdated) : base.path[u] \notin task.files
    BY DEF Tombstone, TaskSound, Removing
  <1>b. base' \in Bases
    BY DEF Tombstone, LiveRecs, RetentionTypeOK, Bases
  <1>2. RetentionTypeOK'
    BY <1>b DEF Tombstone, RetentionTypeOK, ghosts
  <1>3. RecordsSound'
    BY <1>2, <1>g DEF Tombstone, RecordsSound, Recorded, LiveRecs, RetentionTypeOK, Bases
  <1>4. ClockSound'
    BY <1>2 DEF RetentionTypeOK, ClockSound, RecordsSound, Recorded, Bases, ghosts, NoTask,
       NoCandidate, Nothing, Unpinned, LiveRecs, Naming, Tombstone
  <1>5. SweepSound'
    BY <1>2 DEF SweepSound, ClockSound, RecordsSound, Recorded, RetentionTypeOK, Bases, ghosts,
       NoTask, NoCandidate, Nothing, Unpinned, LiveRecs, Naming, Tombstone
  <1>6. TaskSound'
    BY <1>2 DEF TaskSound, Removing, Tasks, SweepSound, HoldSound, RecordsSound, RetentionTypeOK,
       Bases, ghosts, NoTask, NoCandidate, Nothing, Unpinned, LiveRecs, Naming, Tombstone
  <1>7. HoldSound'
    BY <1>2 DEF HoldSound, TaskSound, Tasks, Removing, ghosts, NoTask, NoCandidate, Nothing,
       Unpinned, LiveRecs, Naming, Tombstone
  <1>8. HoldsKept'
    BY <1>2 DEF HoldsKept, TaskSound, HoldSound, Tasks, Removing, RetentionTypeOK, ghosts, NoTask,
       NoCandidate, Nothing, Unpinned, LiveRecs, Naming, Tombstone
  <1>9. NothingTakenEarly'
    BY <1>2 DEF NothingTakenEarly, TaskSound, Removing, Tasks, RecordsSound, Recorded,
       RetentionTypeOK, Bases, ghosts, NoTask, NoCandidate, Nothing, Unpinned, LiveRecs, Naming,
       Tombstone
  <1>10. QED
    BY <1>2, <1>3, <1>4, <1>5, <1>6, <1>7, <1>8, <1>9 DEF RetentionInv

LEMMA RemoveKeeps ==
  ASSUME RetentionInv, NEW f \in SUBSET Paths, Remove(f) PROVE RetentionInv'
  <1>1. RetentionTypeOK /\ RecordsSound /\ ClockSound /\ SweepSound /\ TaskSound /\ HoldSound /\ HoldsKept /\ NothingTakenEarly
    BY DEF RetentionInv
  <1> USE <1>1, RetentionAssumption
  <1>2. RetentionTypeOK'
    BY DEF RetentionTypeOK, TaskSound, Tasks, ClockSound, Bases, ghosts, NoTask, NoCandidate,
       Nothing, Unpinned, LiveRecs, Naming, Remove
  <1>3. RecordsSound'
    BY <1>2 DEF RecordsSound, Recorded, ClockSound, RetentionTypeOK, Bases, ghosts, NoTask,
       NoCandidate, Nothing, Unpinned, LiveRecs, Naming, Remove
  <1>4. ClockSound'
    BY <1>2 DEF RetentionTypeOK, ClockSound, RecordsSound, Recorded, Bases, ghosts, NoTask,
       NoCandidate, Nothing, Unpinned, LiveRecs, Naming, Remove
  <1>5. SweepSound'
    BY <1>2 DEF SweepSound, ClockSound, RecordsSound, Recorded, RetentionTypeOK, Bases, ghosts,
       NoTask, NoCandidate, Nothing, Unpinned, LiveRecs, Naming, Remove
  <1>6. TaskSound'
    BY <1>2 DEF TaskSound, Removing, Tasks, SweepSound, HoldSound, RecordsSound, RetentionTypeOK,
       Bases, ghosts, NoTask, NoCandidate, Nothing, Unpinned, LiveRecs, Naming, Remove
  <1>7. HoldSound'
    BY <1>2 DEF HoldSound, TaskSound, Tasks, Removing, ghosts, NoTask, NoCandidate, Nothing,
       Unpinned, LiveRecs, Naming, Remove
  <1>8. HoldsKept'
    BY <1>2 DEF HoldsKept, TaskSound, HoldSound, Tasks, Removing, RetentionTypeOK, ghosts, NoTask,
       NoCandidate, Nothing, Unpinned, LiveRecs, Naming, Remove
  <1>9. NothingTakenEarly'
    BY <1>2 DEF NothingTakenEarly, TaskSound, Removing, Tasks, RecordsSound, Recorded,
       RetentionTypeOK, Bases, ghosts, NoTask, NoCandidate, Nothing, Unpinned, LiveRecs, Naming,
       Remove
  <1>10. QED
    BY <1>2, <1>3, <1>4, <1>5, <1>6, <1>7, <1>8, <1>9 DEF RetentionInv

LEMMA DeleteFileKeeps ==
  ASSUME RetentionInv, NEW u \in Receipts, DeleteFile(u) PROVE RetentionInv'
  <1>1. RetentionTypeOK /\ RecordsSound /\ ClockSound /\ SweepSound /\ TaskSound /\ HoldSound /\ HoldsKept /\ NothingTakenEarly
    BY DEF RetentionInv
  <1> USE <1>1, RetentionAssumption
  <1>x. task' \in Tasks
    BY DEF DeleteFile, Tasks, RecordsSound, Recorded, LiveRecs
  <1>2. RetentionTypeOK'
    BY <1>x DEF DeleteFile, Tasks, RetentionTypeOK, ghosts
  <1>3. RecordsSound'
    BY <1>2 DEF RecordsSound, Recorded, ClockSound, RetentionTypeOK, Bases, ghosts, NoTask,
       NoCandidate, Nothing, Unpinned, LiveRecs, Naming, DeleteFile, Deletable
  <1>4. ClockSound'
    BY <1>2 DEF RetentionTypeOK, ClockSound, RecordsSound, Recorded, Bases, ghosts, NoTask,
       NoCandidate, Nothing, Unpinned, LiveRecs, Naming, DeleteFile, Deletable
  <1>5. SweepSound'
    BY <1>2 DEF SweepSound, ClockSound, RecordsSound, Recorded, RetentionTypeOK, Bases, ghosts,
       NoTask, NoCandidate, Nothing, Unpinned, LiveRecs, Naming, DeleteFile, Deletable
  <1>6. TaskSound'
    BY <1>2 DEF TaskSound, Removing, Tasks, SweepSound, HoldSound, RecordsSound, RetentionTypeOK,
       Bases, ghosts, NoTask, NoCandidate, Nothing, Unpinned, LiveRecs, Naming, DeleteFile,
       Deletable
  <1>7. HoldSound'
    BY <1>2 DEF HoldSound, TaskSound, Tasks, Removing, ghosts, NoTask, NoCandidate, Nothing,
       Unpinned, LiveRecs, Naming, DeleteFile, Deletable
  <1>8. HoldsKept'
    BY <1>2 DEF HoldsKept, TaskSound, HoldSound, Tasks, Removing, RetentionTypeOK, ghosts, NoTask,
       NoCandidate, Nothing, Unpinned, LiveRecs, Naming, DeleteFile, Deletable
  <1>9. NothingTakenEarly'
    BY <1>2 DEF NothingTakenEarly, TaskSound, Removing, Tasks, RecordsSound, Recorded,
       RetentionTypeOK, Bases, ghosts, NoTask, NoCandidate, Nothing, Unpinned, LiveRecs, Naming,
       DeleteFile, Deletable
  <1>10. QED
    BY <1>2, <1>3, <1>4, <1>5, <1>6, <1>7, <1>8, <1>9 DEF RetentionInv

LEMMA DeleteRecordKeeps ==
  ASSUME RetentionInv, NEW u \in Receipts, DeleteRecord(u) PROVE RetentionInv'
  <1>1. RetentionTypeOK /\ RecordsSound /\ ClockSound /\ SweepSound /\ TaskSound /\ HoldSound /\ HoldsKept /\ NothingTakenEarly
    BY DEF RetentionInv
  <1> USE <1>1, RetentionAssumption
  <1>2. RetentionTypeOK'
    BY DEF RetentionTypeOK, TaskSound, Tasks, ClockSound, Bases, ghosts, NoTask, NoCandidate,
       Nothing, Unpinned, LiveRecs, Naming, DeleteRecord, Deletable
  <1>3. RecordsSound'
    BY <1>2 DEF RecordsSound, Recorded, ClockSound, RetentionTypeOK, Bases, ghosts, NoTask,
       NoCandidate, Nothing, Unpinned, LiveRecs, Naming, DeleteRecord, Deletable
  <1>4. ClockSound'
    BY <1>2 DEF RetentionTypeOK, ClockSound, RecordsSound, Recorded, Bases, ghosts, NoTask,
       NoCandidate, Nothing, Unpinned, LiveRecs, Naming, DeleteRecord, Deletable
  <1>5. SweepSound'
    BY <1>2 DEF SweepSound, ClockSound, RecordsSound, Recorded, RetentionTypeOK, Bases, ghosts,
       NoTask, NoCandidate, Nothing, Unpinned, LiveRecs, Naming, DeleteRecord, Deletable
  <1>6. TaskSound'
    BY <1>2 DEF TaskSound, Removing, Tasks, SweepSound, HoldSound, RecordsSound, RetentionTypeOK,
       Bases, ghosts, NoTask, NoCandidate, Nothing, Unpinned, LiveRecs, Naming, DeleteRecord,
       Deletable
  <1>7. HoldSound'
    BY <1>2 DEF HoldSound, TaskSound, Tasks, Removing, ghosts, NoTask, NoCandidate, Nothing,
       Unpinned, LiveRecs, Naming, DeleteRecord, Deletable
  <1>8. HoldsKept'
    BY <1>2 DEF HoldsKept, TaskSound, HoldSound, Tasks, Removing, RetentionTypeOK, ghosts, NoTask,
       NoCandidate, Nothing, Unpinned, LiveRecs, Naming, DeleteRecord, Deletable
  <1>9. NothingTakenEarly'
    BY <1>2 DEF NothingTakenEarly, TaskSound, Removing, Tasks, RecordsSound, Recorded,
       RetentionTypeOK, Bases, ghosts, NoTask, NoCandidate, Nothing, Unpinned, LiveRecs, Naming,
       DeleteRecord, Deletable
  <1>10. QED
    BY <1>2, <1>3, <1>4, <1>5, <1>6, <1>7, <1>8, <1>9 DEF RetentionInv

LEMMA DeleteLinkKeeps ==
  ASSUME RetentionInv, DeleteLink PROVE RetentionInv'
  <1>1. RetentionTypeOK /\ RecordsSound /\ ClockSound /\ SweepSound /\ TaskSound /\ HoldSound /\ HoldsKept /\ NothingTakenEarly
    BY DEF RetentionInv
  <1> USE <1>1, RetentionAssumption
  <1>b. base' \in Bases
    BY NoBaseTypes DEF DeleteLink, Bases, RetentionTypeOK
  <1>2. RetentionTypeOK'
    BY <1>b DEF DeleteLink, RetentionTypeOK, ghosts
  <1>3. RecordsSound'
    BY <1>2 DEF RecordsSound, Recorded, ClockSound, RetentionTypeOK, Bases, ghosts, NoTask,
       NoCandidate, Nothing, Unpinned, LiveRecs, Naming, DeleteLink, Deletable, NoBase
  <1>4. ClockSound'
    BY <1>2 DEF RetentionTypeOK, ClockSound, RecordsSound, Recorded, Bases, ghosts, NoTask,
       NoCandidate, Nothing, Unpinned, LiveRecs, Naming, DeleteLink, Deletable, NoBase
  <1>5. SweepSound'
    BY <1>2 DEF SweepSound, ClockSound, RecordsSound, Recorded, RetentionTypeOK, Bases, ghosts,
       NoTask, NoCandidate, Nothing, Unpinned, LiveRecs, Naming, DeleteLink, Deletable, NoBase
  <1>6. TaskSound'
    BY <1>2 DEF TaskSound, Removing, Tasks, SweepSound, HoldSound, RecordsSound, RetentionTypeOK,
       Bases, ghosts, NoTask, NoCandidate, Nothing, Unpinned, LiveRecs, Naming, DeleteLink,
       Deletable, NoBase
  <1>7. HoldSound'
    BY <1>2 DEF HoldSound, TaskSound, Tasks, Removing, ghosts, NoTask, NoCandidate, Nothing,
       Unpinned, LiveRecs, Naming, DeleteLink, Deletable, NoBase
  <1>8. HoldsKept'
    BY <1>2 DEF HoldsKept, TaskSound, HoldSound, Tasks, Removing, RetentionTypeOK, ghosts, NoTask,
       NoCandidate, Nothing, Unpinned, LiveRecs, Naming, DeleteLink, Deletable, NoBase
  <1>9. NothingTakenEarly'
    BY <1>2 DEF NothingTakenEarly, TaskSound, Removing, Tasks, RecordsSound, Recorded,
       RetentionTypeOK, Bases, ghosts, NoTask, NoCandidate, Nothing, Unpinned, LiveRecs, Naming,
       DeleteLink, Deletable, NoBase
  <1>10. QED
    BY <1>2, <1>3, <1>4, <1>5, <1>6, <1>7, <1>8, <1>9 DEF RetentionInv

LEMMA DeleteTenantKeeps ==
  ASSUME RetentionInv, NEW f \in SUBSET Paths, DeleteTenant(f) PROVE RetentionInv'
  <1>1. RetentionTypeOK /\ RecordsSound /\ ClockSound /\ SweepSound /\ TaskSound /\ HoldSound /\ HoldsKept /\ NothingTakenEarly
    BY DEF RetentionInv
  <1> USE <1>1, RetentionAssumption
  <1>2. RetentionTypeOK'
    BY DEF TaskSound, Tasks, ClockSound, RetentionTypeOK, Bases, ghosts, NoTask,
       NoCandidate, Nothing, Unpinned, LiveRecs, Naming, DeleteTenant
  <1>3. RecordsSound'
    BY <1>2 DEF RecordsSound, Recorded, ClockSound, RetentionTypeOK, Bases, ghosts, NoTask,
       NoCandidate, Nothing, Unpinned, LiveRecs, Naming, DeleteTenant
  <1>4. ClockSound'
    BY <1>2 DEF ClockSound, RecordsSound, Recorded, RetentionTypeOK, Bases, ghosts, NoTask,
       NoCandidate, Nothing, Unpinned, LiveRecs, Naming, DeleteTenant
  <1>5. SweepSound'
    BY <1>2 DEF SweepSound, ClockSound, RecordsSound, Recorded, RetentionTypeOK, Bases, ghosts, NoTask,
       NoCandidate, Nothing, Unpinned, LiveRecs, Naming, DeleteTenant
  <1>6. TaskSound'
    BY <1>2 DEF TaskSound, Removing, Tasks, SweepSound, HoldSound, RecordsSound, RetentionTypeOK, Bases, ghosts, NoTask,
       NoCandidate, Nothing, Unpinned, LiveRecs, Naming, DeleteTenant
  <1>7. HoldSound'
    BY <1>2 DEF HoldSound, TaskSound, Tasks, Removing, RetentionTypeOK, Bases, ghosts, NoTask,
       NoCandidate, Nothing, Unpinned, LiveRecs, Naming, DeleteTenant
  <1>8. HoldsKept'
    BY <1>2 DEF HoldsKept, TaskSound, HoldSound, Tasks, Removing, RetentionTypeOK, Bases, ghosts, NoTask,
       NoCandidate, Nothing, Unpinned, LiveRecs, Naming, DeleteTenant
  <1>9. NothingTakenEarly'
    BY <1>2 DEF NothingTakenEarly, TaskSound, Removing, Tasks, RecordsSound, Recorded, RetentionTypeOK, Bases, ghosts, NoTask,
       NoCandidate, Nothing, Unpinned, LiveRecs, Naming, DeleteTenant
  <1>10. QED
    BY <1>2, <1>3, <1>4, <1>5, <1>6, <1>7, <1>8, <1>9 DEF RetentionInv

LEMMA BeginHoldKeeps ==
  ASSUME RetentionInv, BeginHold PROVE RetentionInv'
  <1>1. RetentionTypeOK /\ RecordsSound /\ ClockSound /\ SweepSound /\ TaskSound /\ HoldSound /\ HoldsKept /\ NothingTakenEarly
    BY DEF RetentionInv
  <1> USE <1>1, RetentionAssumption
  <1>x. task' = [kind |-> "hold", pc |-> "marker", files |-> {}]
    BY DEF BeginHold, NoTask
  <1>2. RetentionTypeOK'
    BY DEF RetentionTypeOK, TaskSound, Tasks, ClockSound, Bases, ghosts, NoTask, NoCandidate,
       Nothing, Unpinned, LiveRecs, Naming, BeginHold
  <1>3. RecordsSound'
    BY <1>2 DEF RecordsSound, Recorded, ClockSound, RetentionTypeOK, Bases, ghosts, NoTask,
       NoCandidate, Nothing, Unpinned, LiveRecs, Naming, BeginHold
  <1>4. ClockSound'
    BY <1>2 DEF RetentionTypeOK, ClockSound, RecordsSound, Recorded, Bases, ghosts, NoTask,
       NoCandidate, Nothing, Unpinned, LiveRecs, Naming, BeginHold
  <1>5. SweepSound'
    BY <1>2 DEF SweepSound, ClockSound, RecordsSound, Recorded, RetentionTypeOK, Bases, ghosts,
       NoTask, NoCandidate, Nothing, Unpinned, LiveRecs, Naming, BeginHold
  <1>6. TaskSound'
    BY <1>x DEF BeginHold, TaskSound, Removing, Tasks, Nothing, ghosts
  <1>7. HoldSound'
    BY <1>2 DEF HoldSound, TaskSound, Tasks, Removing, ghosts, NoTask, NoCandidate, Nothing,
       Unpinned, LiveRecs, Naming, BeginHold
  <1>8. HoldsKept'
    BY <1>2 DEF HoldsKept, TaskSound, HoldSound, Tasks, Removing, RetentionTypeOK, ghosts, NoTask,
       NoCandidate, Nothing, Unpinned, LiveRecs, Naming, BeginHold
  <1>9. NothingTakenEarly'
    BY <1>2 DEF NothingTakenEarly, TaskSound, Removing, Tasks, RecordsSound, Recorded,
       RetentionTypeOK, Bases, ghosts, NoTask, NoCandidate, Nothing, Unpinned, LiveRecs, Naming,
       BeginHold
  <1>10. QED
    BY <1>2, <1>3, <1>4, <1>5, <1>6, <1>7, <1>8, <1>9 DEF RetentionInv

LEMMA HoldMarkerKeeps ==
  ASSUME RetentionInv, HoldMarker PROVE RetentionInv'
  <1>1. RetentionTypeOK /\ RecordsSound /\ ClockSound /\ SweepSound /\ TaskSound /\ HoldSound /\ HoldsKept /\ NothingTakenEarly
    BY DEF RetentionInv
  <1> USE <1>1, RetentionAssumption
  <1>2. RetentionTypeOK'
    BY DEF RetentionTypeOK, TaskSound, Tasks, ClockSound, Bases, ghosts, NoTask, NoCandidate,
       Nothing, Unpinned, LiveRecs, Naming, HoldMarker
  <1>3. RecordsSound'
    BY <1>2 DEF RecordsSound, Recorded, ClockSound, RetentionTypeOK, Bases, ghosts, NoTask,
       NoCandidate, Nothing, Unpinned, LiveRecs, Naming, HoldMarker
  <1>4. ClockSound'
    BY <1>2 DEF RetentionTypeOK, ClockSound, RecordsSound, Recorded, Bases, ghosts, NoTask,
       NoCandidate, Nothing, Unpinned, LiveRecs, Naming, HoldMarker
  <1>5. SweepSound'
    BY <1>2 DEF SweepSound, ClockSound, RecordsSound, Recorded, RetentionTypeOK, Bases, ghosts,
       NoTask, NoCandidate, Nothing, Unpinned, LiveRecs, Naming, HoldMarker
  <1>6. TaskSound'
    BY <1>2 DEF TaskSound, Removing, Tasks, SweepSound, HoldSound, RecordsSound, RetentionTypeOK,
       Bases, ghosts, NoTask, NoCandidate, Nothing, Unpinned, LiveRecs, Naming, HoldMarker
  <1>7. HoldSound'
    BY <1>2 DEF HoldSound, TaskSound, Tasks, Removing, ghosts, NoTask, NoCandidate, Nothing,
       Unpinned, LiveRecs, Naming, HoldMarker
  <1>8. HoldsKept'
    BY <1>2 DEF HoldsKept, TaskSound, HoldSound, Tasks, Removing, RetentionTypeOK, ghosts, NoTask,
       NoCandidate, Nothing, Unpinned, LiveRecs, Naming, HoldMarker
  <1>9. NothingTakenEarly'
    BY <1>2 DEF NothingTakenEarly, TaskSound, Removing, Tasks, RecordsSound, Recorded,
       RetentionTypeOK, Bases, ghosts, NoTask, NoCandidate, Nothing, Unpinned, LiveRecs, Naming,
       HoldMarker
  <1>10. QED
    BY <1>2, <1>3, <1>4, <1>5, <1>6, <1>7, <1>8, <1>9 DEF RetentionInv

LEMMA HoldFlagKeeps ==
  ASSUME RetentionInv, NEW stored \in BOOLEAN, HoldFlag(stored) PROVE RetentionInv'
  <1>1. RetentionTypeOK /\ RecordsSound /\ ClockSound /\ SweepSound /\ TaskSound /\ HoldSound /\ HoldsKept /\ NothingTakenEarly
    BY DEF RetentionInv
  <1> USE <1>1, RetentionAssumption
  <1>b. base' \in Bases
    BY DEF HoldFlag, RetentionTypeOK, Bases
  <1>p. held' \in [Paths -> Receipts \cup {NoReceipt}]
    BY DEF HoldFlag, RetentionTypeOK
  <1>2. RetentionTypeOK'
    BY <1>b, <1>p DEF HoldFlag, NoTask, RetentionTypeOK
  <1>3. RecordsSound'
    BY <1>2 DEF RecordsSound, Recorded, ClockSound, RetentionTypeOK, Bases, ghosts, NoTask,
       NoCandidate, Nothing, Unpinned, LiveRecs, Naming, HoldFlag
  <1>4. ClockSound'
    BY <1>2 DEF RetentionTypeOK, ClockSound, RecordsSound, Recorded, Bases, ghosts, NoTask,
       NoCandidate, Nothing, Unpinned, LiveRecs, Naming, HoldFlag
  <1>5. SweepSound'
    BY <1>2 DEF SweepSound, ClockSound, RecordsSound, Recorded, RetentionTypeOK, Bases, ghosts,
       NoTask, NoCandidate, Nothing, Unpinned, LiveRecs, Naming, HoldFlag
  <1>6. TaskSound'
    BY <1>2 DEF TaskSound, Removing, Tasks, SweepSound, HoldSound, RecordsSound, RetentionTypeOK,
       Bases, ghosts, NoTask, NoCandidate, Nothing, Unpinned, LiveRecs, Naming, HoldFlag
  <1>7. HoldSound'
    BY <1>2 DEF HoldSound, TaskSound, Tasks, Removing, ghosts, NoTask, NoCandidate, Nothing,
       Unpinned, LiveRecs, Naming, HoldFlag
  <1>8. HoldsKept'
    BY <1>2 DEF HoldsKept, TaskSound, HoldSound, Tasks, Removing, RetentionTypeOK, ghosts, NoTask,
       NoCandidate, Nothing, Unpinned, LiveRecs, Naming, HoldFlag
  <1>9. NothingTakenEarly'
    BY <1>2 DEF NothingTakenEarly, TaskSound, Removing, Tasks, RecordsSound, Recorded,
       RetentionTypeOK, Bases, ghosts, NoTask, NoCandidate, Nothing, Unpinned, LiveRecs, Naming,
       HoldFlag
  <1>10. QED
    BY <1>2, <1>3, <1>4, <1>5, <1>6, <1>7, <1>8, <1>9 DEF RetentionInv

LEMMA BeginReleaseKeeps ==
  ASSUME RetentionInv, BeginRelease PROVE RetentionInv'
  <1>1. RetentionTypeOK /\ RecordsSound /\ ClockSound /\ SweepSound /\ TaskSound /\ HoldSound /\ HoldsKept /\ NothingTakenEarly
    BY DEF RetentionInv
  <1> USE <1>1, RetentionAssumption
  <1>x. task' = [kind |-> "release", pc |-> "flag", files |-> {}]
    BY DEF BeginRelease, NoTask
  <1>2. RetentionTypeOK'
    BY DEF RetentionTypeOK, TaskSound, Tasks, ClockSound, Bases, ghosts, NoTask, NoCandidate,
       Nothing, Unpinned, LiveRecs, Naming, BeginRelease
  <1>3. RecordsSound'
    BY <1>2 DEF RecordsSound, Recorded, ClockSound, RetentionTypeOK, Bases, ghosts, NoTask,
       NoCandidate, Nothing, Unpinned, LiveRecs, Naming, BeginRelease
  <1>4. ClockSound'
    BY <1>2 DEF RetentionTypeOK, ClockSound, RecordsSound, Recorded, Bases, ghosts, NoTask,
       NoCandidate, Nothing, Unpinned, LiveRecs, Naming, BeginRelease
  <1>5. SweepSound'
    BY <1>2 DEF SweepSound, ClockSound, RecordsSound, Recorded, RetentionTypeOK, Bases, ghosts,
       NoTask, NoCandidate, Nothing, Unpinned, LiveRecs, Naming, BeginRelease
  <1>6. TaskSound'
    BY <1>x DEF BeginRelease, TaskSound, Removing, Tasks, Nothing, ghosts
  <1>7. HoldSound'
    BY <1>2 DEF HoldSound, TaskSound, Tasks, Removing, ghosts, NoTask, NoCandidate, Nothing,
       Unpinned, LiveRecs, Naming, BeginRelease
  <1>8. HoldsKept'
    BY <1>2 DEF HoldsKept, TaskSound, HoldSound, Tasks, Removing, RetentionTypeOK, ghosts, NoTask,
       NoCandidate, Nothing, Unpinned, LiveRecs, Naming, BeginRelease
  <1>9. NothingTakenEarly'
    BY <1>2 DEF NothingTakenEarly, TaskSound, Removing, Tasks, RecordsSound, Recorded,
       RetentionTypeOK, Bases, ghosts, NoTask, NoCandidate, Nothing, Unpinned, LiveRecs, Naming,
       BeginRelease
  <1>10. QED
    BY <1>2, <1>3, <1>4, <1>5, <1>6, <1>7, <1>8, <1>9 DEF RetentionInv

LEMMA ReleaseFlagKeeps ==
  ASSUME RetentionInv, NEW stored \in BOOLEAN, ReleaseFlag(stored) PROVE RetentionInv'
  <1>1. RetentionTypeOK /\ RecordsSound /\ ClockSound /\ SweepSound /\ TaskSound /\ HoldSound /\ HoldsKept /\ NothingTakenEarly
    BY DEF RetentionInv
  <1> USE <1>1, RetentionAssumption
  <1>b. base' \in Bases
    BY DEF ReleaseFlag, RetentionTypeOK, Bases
  <1>x. task' \in Tasks
    BY DEF ReleaseFlag, NoTask, TaskSound, Tasks
  <1>2. RetentionTypeOK'
    BY <1>b, <1>x DEF ReleaseFlag, Tasks, RetentionTypeOK, ghosts
  <1>3. RecordsSound'
    BY <1>2 DEF RecordsSound, Recorded, ClockSound, RetentionTypeOK, Bases, ghosts, NoTask,
       NoCandidate, Nothing, Unpinned, LiveRecs, Naming, ReleaseFlag
  <1>4. ClockSound'
    BY <1>2 DEF RetentionTypeOK, ClockSound, RecordsSound, Recorded, Bases, ghosts, NoTask,
       NoCandidate, Nothing, Unpinned, LiveRecs, Naming, ReleaseFlag
  <1>5. SweepSound'
    BY DEF ReleaseFlag, SweepSound, HoldSound, LiveRecs, RetentionTypeOK, Bases, ghosts
  <1>6. TaskSound'
    BY <1>2 DEF TaskSound, Removing, Tasks, SweepSound, HoldSound, RecordsSound, RetentionTypeOK,
       Bases, ghosts, NoTask, NoCandidate, Nothing, Unpinned, LiveRecs, Naming, ReleaseFlag
  <1>7. HoldSound'
    BY <1>2 DEF HoldSound, TaskSound, Tasks, Removing, ghosts, NoTask, NoCandidate, Nothing,
       Unpinned, LiveRecs, Naming, ReleaseFlag
  <1>8. HoldsKept'
    BY <1>2 DEF HoldsKept, TaskSound, HoldSound, Tasks, Removing, RetentionTypeOK, ghosts, NoTask,
       NoCandidate, Nothing, Unpinned, LiveRecs, Naming, ReleaseFlag
  <1>9. NothingTakenEarly'
    BY <1>2 DEF NothingTakenEarly, TaskSound, Removing, Tasks, RecordsSound, Recorded,
       RetentionTypeOK, Bases, ghosts, NoTask, NoCandidate, Nothing, Unpinned, LiveRecs, Naming,
       ReleaseFlag
  <1>10. QED
    BY <1>2, <1>3, <1>4, <1>5, <1>6, <1>7, <1>8, <1>9 DEF RetentionInv

LEMMA ReleaseMarkerKeeps ==
  ASSUME RetentionInv, ReleaseMarker PROVE RetentionInv'
  <1>1. RetentionTypeOK /\ RecordsSound /\ ClockSound /\ SweepSound /\ TaskSound /\ HoldSound /\ HoldsKept /\ NothingTakenEarly
    BY DEF RetentionInv
  <1> USE <1>1, RetentionAssumption
  <1>x. task' \in Tasks
    BY DEF ReleaseMarker, NoTask, Tasks
  <1>2. RetentionTypeOK'
    BY <1>x DEF ReleaseMarker, Tasks, RetentionTypeOK, ghosts
  <1>3. RecordsSound'
    BY <1>2 DEF RecordsSound, Recorded, ClockSound, RetentionTypeOK, Bases, ghosts, NoTask,
       NoCandidate, Nothing, Unpinned, LiveRecs, Naming, ReleaseMarker
  <1>4. ClockSound'
    BY <1>2 DEF RetentionTypeOK, ClockSound, RecordsSound, Recorded, Bases, ghosts, NoTask,
       NoCandidate, Nothing, Unpinned, LiveRecs, Naming, ReleaseMarker
  <1>5. SweepSound'
    BY <1>2 DEF SweepSound, ClockSound, RecordsSound, Recorded, RetentionTypeOK, Bases, ghosts,
       NoTask, NoCandidate, Nothing, Unpinned, LiveRecs, Naming, ReleaseMarker
  <1>6. TaskSound'
    BY <1>2 DEF TaskSound, Removing, Tasks, SweepSound, HoldSound, RecordsSound, RetentionTypeOK,
       Bases, ghosts, NoTask, NoCandidate, Nothing, Unpinned, LiveRecs, Naming, ReleaseMarker
  <1>7. HoldSound'
    BY <1>2 DEF HoldSound, TaskSound, Tasks, Removing, ghosts, NoTask, NoCandidate, Nothing,
       Unpinned, LiveRecs, Naming, ReleaseMarker
  <1>8. HoldsKept'
    BY <1>2 DEF HoldsKept, TaskSound, HoldSound, Tasks, Removing, RetentionTypeOK, ghosts, NoTask,
       NoCandidate, Nothing, Unpinned, LiveRecs, Naming, ReleaseMarker
  <1>9. NothingTakenEarly'
    BY <1>2 DEF NothingTakenEarly, TaskSound, Removing, Tasks, RecordsSound, Recorded,
       RetentionTypeOK, Bases, ghosts, NoTask, NoCandidate, Nothing, Unpinned, LiveRecs, Naming,
       ReleaseMarker
  <1>10. QED
    BY <1>2, <1>3, <1>4, <1>5, <1>6, <1>7, <1>8, <1>9 DEF RetentionInv

LEMMA RebootKeeps ==
  ASSUME RetentionInv, Reboot PROVE RetentionInv'
  <1>1. RetentionTypeOK /\ RecordsSound /\ ClockSound /\ SweepSound /\ TaskSound /\ HoldSound /\ HoldsKept /\ NothingTakenEarly
    BY DEF RetentionInv
  <1> USE <1>1, RetentionAssumption
  <1>s. scope.until \in 0 .. MaxTime /\ scope.restarts \in 0 .. MaxReboots
    BY DEF RetentionTypeOK
  <1>b. base.trusted \in 0 .. MaxTime + 1
    BY DEF RetentionTypeOK, Bases
  <1>c. clock' \in [real : 0 .. MaxTime, wall : 0 .. MaxTime + 1, anchor : 0 .. MaxTime + 1, since : 0 .. MaxTime]
    BY <1>b DEF Reboot, Reopen, RetentionTypeOK
  <1>2. RetentionTypeOK'
    BY <1>s, <1>c DEF Reboot, Reopen, NoTask, NoCandidate, RetentionTypeOK
  <1>3. RecordsSound'
    BY <1>2 DEF RecordsSound, Recorded, ClockSound, RetentionTypeOK, Bases, ghosts, NoTask,
       NoCandidate, Nothing, Unpinned, LiveRecs, Naming, Reboot, Reopen
  <1>4. ClockSound'
    BY <1>2 DEF RetentionTypeOK, ClockSound, RecordsSound, Recorded, Bases, ghosts, NoTask,
       NoCandidate, Nothing, Unpinned, LiveRecs, Naming, Reboot, Reopen
  <1>5. SweepSound'
    BY <1>2 DEF SweepSound, ClockSound, RecordsSound, Recorded, RetentionTypeOK, Bases, ghosts,
       NoTask, NoCandidate, Nothing, Unpinned, LiveRecs, Naming, Reboot, Reopen
  <1>6. TaskSound'
    BY <1>2 DEF TaskSound, Removing, Tasks, SweepSound, HoldSound, RecordsSound, RetentionTypeOK,
       Bases, ghosts, NoTask, NoCandidate, Nothing, Unpinned, LiveRecs, Naming, Reboot, Reopen
  <1>7. HoldSound'
    BY <1>2 DEF HoldSound, TaskSound, Tasks, Removing, ghosts, NoTask, NoCandidate, Nothing,
       Unpinned, LiveRecs, Naming, Reboot, Reopen
  <1>8. HoldsKept'
    BY <1>2 DEF HoldsKept, TaskSound, HoldSound, Tasks, Removing, RetentionTypeOK, ghosts, NoTask,
       NoCandidate, Nothing, Unpinned, LiveRecs, Naming, Reboot, Reopen
  <1>9. NothingTakenEarly'
    BY <1>2 DEF NothingTakenEarly, TaskSound, Removing, Tasks, RecordsSound, Recorded,
       RetentionTypeOK, Bases, ghosts, NoTask, NoCandidate, Nothing, Unpinned, LiveRecs, Naming,
       Reboot, Reopen
  <1>10. QED
    BY <1>2, <1>3, <1>4, <1>5, <1>6, <1>7, <1>8, <1>9 DEF RetentionInv

LEMMA BackupKeeps ==
  ASSUME RetentionInv, Backup PROVE RetentionInv'
  <1>1. RetentionTypeOK /\ RecordsSound /\ ClockSound /\ SweepSound /\ TaskSound /\ HoldSound /\ HoldsKept /\ NothingTakenEarly
    BY DEF RetentionInv
  <1> USE <1>1, RetentionAssumption
  <1>2. RetentionTypeOK'
    BY DEF RetentionTypeOK, TaskSound, Tasks, ClockSound, Bases, ghosts, NoTask, NoCandidate,
       Nothing, Unpinned, LiveRecs, Naming, Backup
  <1>3. RecordsSound'
    BY <1>2 DEF RecordsSound, Recorded, ClockSound, RetentionTypeOK, Bases, ghosts, NoTask,
       NoCandidate, Nothing, Unpinned, LiveRecs, Naming, Backup
  <1>4. ClockSound'
    BY <1>2 DEF RetentionTypeOK, ClockSound, RecordsSound, Recorded, Bases, ghosts, NoTask,
       NoCandidate, Nothing, Unpinned, LiveRecs, Naming, Backup
  <1>5. SweepSound'
    BY <1>2 DEF SweepSound, ClockSound, RecordsSound, Recorded, RetentionTypeOK, Bases, ghosts,
       NoTask, NoCandidate, Nothing, Unpinned, LiveRecs, Naming, Backup
  <1>6. TaskSound'
    BY <1>2 DEF TaskSound, Removing, Tasks, SweepSound, HoldSound, RecordsSound, RetentionTypeOK,
       Bases, ghosts, NoTask, NoCandidate, Nothing, Unpinned, LiveRecs, Naming, Backup
  <1>7. HoldSound'
    BY <1>2 DEF HoldSound, TaskSound, Tasks, Removing, ghosts, NoTask, NoCandidate, Nothing,
       Unpinned, LiveRecs, Naming, Backup
  <1>8. HoldsKept'
    BY <1>2 DEF HoldsKept, TaskSound, HoldSound, Tasks, Removing, RetentionTypeOK, ghosts, NoTask,
       NoCandidate, Nothing, Unpinned, LiveRecs, Naming, Backup
  <1>9. NothingTakenEarly'
    BY <1>2 DEF NothingTakenEarly, TaskSound, Removing, Tasks, RecordsSound, Recorded,
       RetentionTypeOK, Bases, ghosts, NoTask, NoCandidate, Nothing, Unpinned, LiveRecs, Naming,
       Backup
  <1>10. QED
    BY <1>2, <1>3, <1>4, <1>5, <1>6, <1>7, <1>8, <1>9 DEF RetentionInv

LEMMA RestoreBackupKeeps ==
  ASSUME RetentionInv, NEW t \in BOOLEAN, RestoreBackup(t) PROVE RetentionInv'
  <1>1. RetentionTypeOK /\ RecordsSound /\ ClockSound /\ SweepSound /\ TaskSound /\ HoldSound /\ HoldsKept /\ NothingTakenEarly
    BY DEF RetentionInv
  <1> USE <1>1, RetentionAssumption
  <1>s. scope.until \in 0 .. MaxTime /\ scope.restarts \in 0 .. MaxReboots
    BY DEF RetentionTypeOK
  <1>b. base' \in Bases /\ archive.trusted \in 0 .. MaxTime + 1
    BY DEF RestoreBackup, AsRestored, RetentionTypeOK, Bases
  <1>e. /\ base'.grant = {} /\ base'.using = {} /\ base'.trusted = archive.trusted
         /\ base'.path = archive.path /\ base'.at = archive.at /\ base'.link = archive.link
         /\ \A u \in Receipts : base'.rec[u] = "live" => archive.rec[u] = "live"
    BY DEF RestoreBackup, AsRestored, RetentionTypeOK, Bases
  <1>c. clock' \in [real : 0 .. MaxTime, wall : 0 .. MaxTime + 1, anchor : 0 .. MaxTime + 1, since : 0 .. MaxTime]
    BY <1>b DEF RestoreBackup, Reopen, RetentionTypeOK
  <1>f. /\ clock'.real = clock.real /\ clock'.wall = clock.wall /\ clock'.since = clock.real
         /\ clock'.anchor = archive.trusted /\ UNCHANGED <<owed, archive, backdated>> /\ receiving' = {}
    BY DEF RestoreBackup, Reopen, RetentionTypeOK
  <1>2. RetentionTypeOK'
    BY <1>s, <1>b, <1>c DEF RestoreBackup, Reopen, NoTask, NoCandidate, RetentionTypeOK
  <1>3. RecordsSound'
    BY <1>2, <1>e, <1>f DEF RestoreBackup, Reopen, RecordsSound, Recorded, ClockSound, LiveRecs,
       RetentionTypeOK, Bases
  <1>4. ClockSound'
    BY <1>2, <1>f DEF RecordsSound, Recorded, ClockSound, RetentionTypeOK, Bases
  <1>5. SweepSound'
    BY <1>2 DEF SweepSound, ClockSound, RecordsSound, Recorded, RetentionTypeOK, Bases, ghosts,
       NoTask, NoCandidate, Nothing, Unpinned, LiveRecs, Naming, RestoreBackup, Reopen, AsRestored
  <1>6. TaskSound'
    BY <1>e DEF RestoreBackup, Reopen, TaskSound, Removing, Tasks, NoTask
  <1>7. HoldSound'
    BY <1>2 DEF HoldSound, TaskSound, Tasks, Removing, ghosts, NoTask, NoCandidate, Nothing,
       Unpinned, LiveRecs, Naming, RestoreBackup, Reopen, AsRestored
  <1>8. HoldsKept'
    BY <1>2 DEF HoldsKept, TaskSound, HoldSound, Tasks, Removing, RetentionTypeOK, ghosts, NoTask,
       NoCandidate, Nothing, Unpinned, LiveRecs, Naming, RestoreBackup, Reopen, AsRestored
  <1>9. NothingTakenEarly'
    BY <1>2 DEF NothingTakenEarly, TaskSound, Removing, Tasks, RecordsSound, Recorded,
       RetentionTypeOK, Bases, ghosts, NoTask, NoCandidate, Nothing, Unpinned, LiveRecs, Naming,
       RestoreBackup, Reopen, AsRestored
  <1>10. QED
    BY <1>2, <1>3, <1>4, <1>5, <1>6, <1>7, <1>8, <1>9 DEF RetentionInv

LEMMA SetPolicyKeeps ==
  ASSUME RetentionInv, SetPolicy PROVE RetentionInv'
  <1>1. RetentionTypeOK /\ RecordsSound /\ ClockSound /\ SweepSound /\ TaskSound /\ HoldSound /\ HoldsKept /\ NothingTakenEarly
    BY DEF RetentionInv
  <1> USE <1>1, RetentionAssumption
  <1>b. base' \in Bases
    BY DEF SetPolicy, RetentionTypeOK, Bases
  <1>2. RetentionTypeOK'
    BY <1>b DEF SetPolicy, RetentionTypeOK, ghosts
  <1>3. RecordsSound'
    BY <1>2 DEF RecordsSound, Recorded, ClockSound, RetentionTypeOK, Bases, ghosts, NoTask,
       NoCandidate, Nothing, Unpinned, LiveRecs, Naming, SetPolicy
  <1>4. ClockSound'
    BY <1>2 DEF RetentionTypeOK, ClockSound, RecordsSound, Recorded, Bases, ghosts, NoTask,
       NoCandidate, Nothing, Unpinned, LiveRecs, Naming, SetPolicy
  <1>5. SweepSound'
    BY <1>2 DEF SweepSound, ClockSound, RecordsSound, Recorded, RetentionTypeOK, Bases, ghosts,
       NoTask, NoCandidate, Nothing, Unpinned, LiveRecs, Naming, SetPolicy
  <1>6. TaskSound'
    BY <1>2 DEF TaskSound, Removing, Tasks, SweepSound, HoldSound, RecordsSound, RetentionTypeOK,
       Bases, ghosts, NoTask, NoCandidate, Nothing, Unpinned, LiveRecs, Naming, SetPolicy
  <1>7. HoldSound'
    BY <1>2 DEF HoldSound, TaskSound, Tasks, Removing, ghosts, NoTask, NoCandidate, Nothing,
       Unpinned, LiveRecs, Naming, SetPolicy
  <1>8. HoldsKept'
    BY <1>2 DEF HoldsKept, TaskSound, HoldSound, Tasks, Removing, RetentionTypeOK, ghosts, NoTask,
       NoCandidate, Nothing, Unpinned, LiveRecs, Naming, SetPolicy
  <1>9. NothingTakenEarly'
    BY <1>2 DEF NothingTakenEarly, TaskSound, Removing, Tasks, RecordsSound, Recorded,
       RetentionTypeOK, Bases, ghosts, NoTask, NoCandidate, Nothing, Unpinned, LiveRecs, Naming,
       SetPolicy
  <1>10. QED
    BY <1>2, <1>3, <1>4, <1>5, <1>6, <1>7, <1>8, <1>9 DEF RetentionInv

LEMMA RetentionStepInv == RetentionInv /\ [RetentionNext]_xvars => RetentionInv'
  <1>1. ASSUME RetentionInv, UNCHANGED xvars PROVE RetentionInv'
    BY <1>1 DEF xvars, RetentionInv, RetentionTypeOK, RecordsSound, Recorded, ClockSound,
       SweepSound, TaskSound, Removing, HoldSound, HoldsKept, NothingTakenEarly, LiveRecs
  <1>2. QED
    BY <1>1, CreateLinkKeeps, SetBackKeeps, DeleteTenantKeeps, BeginUploadKeeps, CompleteUploadKeeps, RetireWorkflowKeeps, GrantFileKeeps,
       EndGrantKeeps, TickKeeps, StepClockKeeps, AcknowledgeKeeps, SweepReadKeeps,
       SweepCheckKeeps, SweepPinKeeps, TombstoneKeeps, RemoveKeeps, DeleteFileKeeps,
       DeleteRecordKeeps, DeleteLinkKeeps, BeginHoldKeeps, HoldMarkerKeeps, HoldFlagKeeps,
       BeginReleaseKeeps, ReleaseFlagKeeps, ReleaseMarkerKeeps, RebootKeeps, BackupKeeps,
       RestoreBackupKeeps, SetPolicyKeeps
    DEF RetentionNext

\* legal_holds_dir, expire_link_uploads_sync, delete_received_file, RetentionClock:
\* what a hold covers is kept, no removal takes a file that a grant serves or a
\* workflow uses, and the sweep takes none before its time, but for what
\* HoldsKept and NothingTakenEarly except: held files of a tenant deleted after a
\* restore took the link out of the tables, and records stamped while the wall
\* clock was set back.
THEOREM RetentionKept == RetentionSpec => []RetentionHolds
  <1>1. RetentionInv => RetentionHolds
    BY DEF RetentionInv, RetentionHolds
  <1>2. QED
    BY RetentionInitInv, RetentionStepInv, <1>1, PTL DEF RetentionSpec

------------------------------------------------------------------------------
\* Restores.

\* Stages are numbered as they are created, and what comes next is fresh.
Numbered ==
  /\ \A x \in Names : data[x] <= nextStage /\ rollback[x] <= nextStage
  /\ marker.stage <= nextStage /\ lasting.stage <= nextStage /\ filling <= nextStage
  /\ \A n \in StageIds : n > nextStage => stage[n] = {}
\* A stage being filled is nobody else's.
FillingFresh ==
  filling # 0 =>
    /\ proc \in {"live", "standby"} /\ step = "idle"
    /\ marker.stage # filling /\ lasting.stage # filling
    /\ \A x \in Names : data[x] # filling /\ rollback[x] # filling
    /\ stage[filling] # {} => Db \in stage[filling]
\* A marker names a stage with a database, of which nothing is in place before
\* the old files are out of the way.
Sound(m) ==
  /\ m.stage = 0 => m = NoMarker
  /\ m.stage # 0 => Db \in m.entries
  /\ m.stage # 0 /\ m.phase = "prepared" => \A x \in Names : data[x] # m.stage /\ rollback[x] # m.stage
\* The marker a power loss would leave: it is the one that is applied; a marker
\* whose removal was not synced finds its restore in place.
Lingering ==
  /\ Applying => lasting = marker
  /\ ~Applying =>
       \/ lasting.phase = "prepared" /\ ~lasting.rollback
       \/ /\ lasting.phase = "installed" /\ lasting.stage # 0
          /\ \A x \in lasting.entries : data[x] = lasting.stage
          /\ \A x \in Names : data[x] \in {None, lasting.stage}
          /\ stage[lasting.stage] \cap lasting.entries = {}
\* What a power loss may undo is a move out of the way or into its place.
Undoable ==
  \A x \in unsynced :
    /\ Applying
    /\ \/ marker.phase = "prepared" /\ data[x] = None
       \/ marker.phase = "moved" /\ x \in marker.entries /\ data[x] = marker.stage
\* Where the process is and what the marker says.
StepsAgree ==
  /\ proc = "boot" =>
       /\ step = "choose" =>
            marker.stage # 0 /\ marker.phase = "prepared" /\ stage[marker.stage] = marker.entries
       /\ step = "move" => marker.phase = "prepared" /\ Applying
       /\ step = "install" => marker.phase = "moved"
       /\ step \in {"prepare", "rotate", "clear", "unmark"} => marker.phase = "installed"
       /\ step \in {"rotate", "clear", "unmark"} => marker.stage \in prepared
       /\ step \in {"synced", "open", "opened"} => marker = NoMarker
  /\ proc = "standby" /\ step = "unmark" => ~Applying

RestoreInv ==
  /\ RestoreTypeOK /\ NeverHalfRestored /\ Numbered /\ FillingFresh
  /\ Sound(marker) /\ Sound(lasting) /\ Lingering /\ Undoable /\ StepsAgree

-----------------------------------------------------------------------------
LEMMA NamesKnown ==
  /\ Members \subseteq Names /\ Db \in Members /\ Wal \in Names /\ Secret \in Names
  /\ Wal \notin Members /\ Secret \notin Members /\ Wal # Secret
  /\ MaxStages \in Nat /\ MaxOutages \in Nat /\ None = -1 /\ 0 \in Origins /\ None \in Origins
  /\ StageIds = 1 .. MaxStages /\ Origins = -1 .. MaxStages
  /\ NoMarker \in Markers /\ NoMarker.stage = 0 /\ NoMarker.phase = "prepared" /\ ~NoMarker.rollback
  BY RestoreAssumption DEF Members, Names, None, Origins, StageIds, NoMarker, Markers

Steps ==
  {"none", "idle", "sweep", "discard", "unmark", "read", "choose", "move", "install", "prepare",
   "rotate", "clear", "synced", "open", "opened"}

\* A step that moves no file and writes no marker only has to keep what is said
\* of the process and its stage.
LEMMA PlaceKeeps ==
  ASSUME RestoreInv, UNCHANGED <<trees, marks>>,
         prepared \subseteq prepared', prepared' \subseteq StageIds,
         nextStage' \in nextStage .. MaxStages, filling' \in 0 .. nextStage',
         standby' \in BOOLEAN, outages' \in 0 .. MaxOutages,
         proc' \in {"down", "boot", "standby"} \/ proc' = proc,
         step' \in Steps,
         FillingFresh', StepsAgree'
  PROVE  RestoreInv'
  <1>1. /\ RestoreTypeOK /\ NeverHalfRestored /\ Numbered /\ FillingFresh
        /\ Sound(marker) /\ Sound(lasting) /\ Lingering /\ Undoable /\ StepsAgree
    BY DEF RestoreInv
  <1>2. UNCHANGED <<data, stage, rollback, unsynced, marker, lasting>>
    BY DEF trees, marks
  <1>3. RestoreTypeOK'
    BY <1>1, <1>2, NamesKnown DEF RestoreTypeOK, Steps
  <1>4. NeverHalfRestored'
    BY <1>1, <1>2 DEF NeverHalfRestored, Whole, OfOneOrigin, CanFinish, Applying
  <1>5. Numbered'
    <2>1. nextStage \in Int /\ nextStage' \in Int /\ nextStage <= nextStage' /\ filling' <= nextStage'
      BY <1>1, NamesKnown DEF RestoreTypeOK
    <2>2. /\ \A x \in Names : data[x] \in Int /\ rollback[x] \in Int
          /\ marker.stage \in Int /\ lasting.stage \in Int
      BY <1>1, NamesKnown DEF RestoreTypeOK, Markers
    <2>3. \A n \in StageIds : n > nextStage' => n > nextStage
      BY <2>1, NamesKnown
    <2>4. QED
      BY <1>1, <1>2, <2>1, <2>2, <2>3 DEF Numbered
  <1>6. Sound(marker)' /\ Sound(lasting)'
    BY <1>1, <1>2 DEF Sound
  <1>7. Lingering' /\ Undoable'
    BY <1>1, <1>2 DEF Lingering, Undoable, Applying
  <1>8. QED
    BY <1>3, <1>4, <1>5, <1>6, <1>7 DEF RestoreInv

LEMMA PlaceTyped ==
  ASSUME RestoreInv
  PROVE  /\ prepared \subseteq StageIds /\ nextStage \in nextStage .. MaxStages
         /\ filling \in 0 .. nextStage /\ 0 \in 0 .. nextStage /\ standby \in BOOLEAN
         /\ outages \in 0 .. MaxOutages /\ step \in Steps
         /\ outages < MaxOutages => outages + 1 \in 0 .. MaxOutages
  <1>1. /\ nextStage \in 0 .. MaxStages /\ filling \in 0 .. MaxStages /\ outages \in 0 .. MaxOutages
        /\ filling <= nextStage /\ MaxStages \in Nat /\ MaxOutages \in Nat
    BY NamesKnown DEF RestoreInv, RestoreTypeOK, Numbered
  <1>2. QED
    BY <1>1 DEF RestoreInv, RestoreTypeOK, Steps

LEMMA BeginExtractKeeps == ASSUME RestoreInv, BeginExtract PROVE RestoreInv'
  <1>1. nextStage' = nextStage + 1 /\ nextStage' \in nextStage .. MaxStages /\ filling' = nextStage'
    BY NamesKnown DEF RestoreInv, RestoreTypeOK, BeginExtract
  <1>2. FillingFresh'
    <2>1. /\ marker.stage # filling' /\ lasting.stage # filling' /\ stage[filling'] = {}
          /\ \A x \in Names : data[x] # filling' /\ rollback[x] # filling'
      BY <1>1, NamesKnown DEF RestoreInv, RestoreTypeOK, Numbered, Markers
    <2>2. QED
      BY <2>1 DEF BeginExtract, FillingFresh, trees, marks
  <1>3. StepsAgree'
    BY DEF BeginExtract, RestoreInv, StepsAgree, trees, marks, Applying
  <1>4. QED
    BY <1>1, <1>2, <1>3, PlaceKeeps, PlaceTyped DEF BeginExtract

LEMMA StartStandbyKeeps == ASSUME RestoreInv, StartStandby PROVE RestoreInv'
  <1>1. FillingFresh' /\ StepsAgree'
    BY DEF StartStandby, RestoreInv, FillingFresh, StepsAgree
  <1>2. QED
    BY <1>1, PlaceKeeps, PlaceTyped DEF StartStandby, Steps

LEMMA StartPortKeeps == ASSUME RestoreInv, StartPort PROVE RestoreInv'
  <1>1. FillingFresh' /\ StepsAgree'
    BY DEF StartPort, RestoreInv, FillingFresh, StepsAgree
  <1>2. QED
    BY <1>1, PlaceKeeps, PlaceTyped DEF StartPort, Steps

LEMMA RefuseKeeps == ASSUME RestoreInv, Refuse PROVE RestoreInv'
  <1>1. FillingFresh' /\ StepsAgree'
    BY DEF Refuse, Stop, FillingFresh, StepsAgree
  <1>2. QED
    BY <1>1, PlaceKeeps, PlaceTyped DEF Refuse, Stop, Steps

LEMMA CrashKeeps == ASSUME RestoreInv, Crash PROVE RestoreInv'
  <1>1. FillingFresh' /\ StepsAgree'
    BY DEF Crash, Stop, FillingFresh, StepsAgree
  <1>2. QED
    BY <1>1, PlaceKeeps, PlaceTyped DEF Crash, Stop, Steps

LEMMA ReadMarkerKeeps == ASSUME RestoreInv, ReadMarker PROVE RestoreInv'
  <1>1. CASE marker.stage # 0 /\ ~Valid
    BY <1>1, RefuseKeeps DEF ReadMarker
  <1>2. CASE ~(marker.stage # 0 /\ ~Valid)
    <2>1. FillingFresh'
      BY <1>2 DEF ReadMarker, Go, Booting, RestoreInv, FillingFresh
    <2>2. StepsAgree'
      BY <1>2 DEF ReadMarker, Go, Booting, Valid, RestoreInv, StepsAgree, Sound, trees, marks,
         RestoreTypeOK, Markers, Applying, NeverHalfRestored, Whole, CanFinish
    <2>3. QED
      BY <1>2, <2>1, <2>2, PlaceKeeps, PlaceTyped DEF ReadMarker, Go, Steps
  <1>3. QED
    BY <1>1, <1>2

LEMMA PrepareDatabaseKeeps == ASSUME RestoreInv, PrepareDatabase PROVE RestoreInv'
  <1>1. marker.stage \in StageIds
    BY NamesKnown DEF PrepareDatabase, Booting, RestoreInv, StepsAgree, Sound, RestoreTypeOK, Markers
  <1>2. FillingFresh' /\ StepsAgree'
    BY DEF PrepareDatabase, Go, Booting, RestoreInv, FillingFresh, StepsAgree, trees, marks
  <1>3. QED
    BY <1>1, <1>2, PlaceKeeps, PlaceTyped DEF PrepareDatabase, Go, Steps


\* A step that only touches stages: what it adds to is the stage being filled,
\* and a restore under way keeps what is left of its stage.
LEMMA StagesKeep ==
  ASSUME RestoreInv,
         UNCHANGED <<data, rollback, unsynced, marks, prepared, standby, proc, nextStage, outages>>,
         stage' \in [StageIds -> SUBSET Members], filling' \in {0, filling}, step' \in Steps,
         \A n \in StageIds : n = filling \/ stage'[n] \subseteq stage[n],
         Applying /\ marker.phase # "installed" => stage'[marker.stage] = stage[marker.stage],
         FillingFresh', StepsAgree'
  PROVE  RestoreInv'
  <1>1. /\ RestoreTypeOK /\ NeverHalfRestored /\ Numbered /\ FillingFresh
        /\ Sound(marker) /\ Sound(lasting) /\ Lingering /\ Undoable /\ StepsAgree
    BY DEF RestoreInv
  <1>2. UNCHANGED <<data, rollback, unsynced, marker, lasting, prepared, standby, proc, nextStage, outages>>
    BY DEF marks
  <1>3. RestoreTypeOK'
    BY <1>1, <1>2, PlaceTyped, NamesKnown DEF RestoreTypeOK, Steps
  <1>4. \A n \in StageIds : n # filling \/ filling = 0 => stage'[n] \subseteq stage[n]
    BY NamesKnown
  <1>5. \A m \in {marker, lasting} : m.stage # 0 =>
          m.stage \in StageIds /\ stage'[m.stage] \subseteq stage[m.stage]
    <2>1. \A m \in {marker, lasting} : m.stage \in 0 .. MaxStages /\ (filling # 0 => m.stage # filling)
      BY <1>1 DEF RestoreTypeOK, Markers, FillingFresh
    <2>2. QED
      BY <1>4, <2>1, NamesKnown
  <1>6. NeverHalfRestored'
    <2>1. CASE Whole
      BY <1>2, <2>1 DEF NeverHalfRestored, Whole, OfOneOrigin, Applying
    <2>2. CASE CanFinish /\ proc # "live"
      <3>1. marker.stage # 0 /\ stage'[marker.stage] \subseteq stage[marker.stage]
        BY <1>5, <2>2 DEF CanFinish
      <3>2. CASE marker.phase # "installed"
        BY <1>2, <2>2, <3>1, <3>2 DEF NeverHalfRestored, CanFinish, Applying
      <3>3. CASE marker.phase = "installed"
        <4>1. \A x \in marker.entries : x \notin stage[marker.stage] /\ data[x] = marker.stage
          BY <2>2, <3>3 DEF CanFinish
        <4>2. stage'[marker.stage] \cap marker.entries = {}
          BY <3>1, <4>1
        <4>3. QED
          BY <1>2, <2>2, <3>3, <4>1, <4>2 DEF NeverHalfRestored, CanFinish, Applying
      <3>4. QED
        BY <3>2, <3>3
    <2>3. QED
      BY <1>1, <2>1, <2>2 DEF NeverHalfRestored
  <1>7. Numbered'
    <2>1. \A n \in StageIds : n > nextStage => n # filling
      BY <1>1, NamesKnown DEF Numbered, RestoreTypeOK
    <2>2. filling' <= nextStage
      BY <1>1, NamesKnown DEF Numbered, RestoreTypeOK
    <2>3. QED
      BY <1>1, <1>2, <2>1, <2>2 DEF Numbered
  <1>8. Sound(marker)' /\ Sound(lasting)'
    BY <1>1, <1>2 DEF Sound
  <1>9. Lingering'
    BY <1>1, <1>2, <1>5 DEF Lingering, Applying
  <1>10. Undoable'
    BY <1>1, <1>2 DEF Undoable, Applying
  <1>11. QED
    BY <1>3, <1>6, <1>7, <1>8, <1>9, <1>10 DEF RestoreInv

LEMMA ExtractKeeps ==
  ASSUME RestoreInv, NEW es \in SUBSET Members, Extract(es) PROVE RestoreInv'
  <1>1. /\ filling \in StageIds /\ stage' = [stage EXCEPT ![filling] = es] /\ Db \in es
        /\ UNCHANGED <<data, rollback, unsynced, marks, prepared, standby, place, nextStage, outages>>
        /\ stage \in [StageIds -> SUBSET Members]
    BY NamesKnown DEF Extract, RestoreInv, RestoreTypeOK
  <1>2. UNCHANGED <<proc, step, filling, marker, lasting>>
    BY <1>1 DEF place, marks
  <1>3. FillingFresh' /\ marker.stage # filling
    BY <1>1, <1>2, NamesKnown DEF RestoreInv, FillingFresh
  <1>4. proc # "boot"
    BY <1>1, NamesKnown DEF RestoreInv, FillingFresh
  <1>5. StepsAgree'
    BY <1>1, <1>2, <1>4 DEF RestoreInv, StepsAgree, Applying
  <1>6. \A n \in StageIds : n = filling \/ stage'[n] = stage[n]
    BY <1>1
  <1>7. Applying => marker.stage \in StageIds
    BY NamesKnown DEF RestoreInv, RestoreTypeOK, Markers, NeverHalfRestored, Whole, CanFinish
  <1>8. QED
    BY <1>1, <1>2, <1>3, <1>5, <1>6, <1>7, StagesKeep, PlaceTyped

\* CleanupPath.
LEMMA Unfills ==
  ASSUME RestoreInv
  PROVE  /\ Unfilled \in [StageIds -> SUBSET Members]
         /\ \A n \in StageIds : Unfilled[n] \subseteq stage[n]
         /\ Applying => Unfilled[marker.stage] = stage[marker.stage]
  <1>1. stage \in [StageIds -> SUBSET Members]
    BY DEF RestoreInv, RestoreTypeOK
  <1>2. filling # 0 => marker.stage # filling
    BY DEF RestoreInv, FillingFresh
  <1>3. Applying => marker.stage \in StageIds
    BY NamesKnown DEF RestoreInv, RestoreTypeOK, Markers, NeverHalfRestored, Whole, CanFinish
  <1>4. QED
    BY <1>1, <1>2, <1>3 DEF Unfilled

LEMMA ExtractFailsKeeps ==
  ASSUME RestoreInv, ExtractFails PROVE RestoreInv'
  <1>1. /\ filling # 0 /\ stage' = Unfilled /\ filling' = 0
        /\ UNCHANGED <<data, rollback, unsynced, marks, prepared, standby, proc, step, nextStage,
                       outages>>
    BY DEF ExtractFails
  <1>2. FillingFresh' /\ StepsAgree'
    BY <1>1 DEF RestoreInv, FillingFresh, StepsAgree, Applying, marks
  <1>3. QED
    BY <1>1, <1>2, Unfills, StagesKeep, PlaceTyped

\* sweep_data_dir_orphans.
LEMMA Sweeps ==
  ASSUME RestoreInv, NEW kept \in SUBSET StageIds
  PROVE  /\ Swept(kept) \in [StageIds -> SUBSET Members]
         /\ \A n \in StageIds : Swept(kept)[n] \subseteq stage[n]
         /\ Applying => Swept(kept)[marker.stage] = stage[marker.stage]
  <1>1. stage \in [StageIds -> SUBSET Members]
    BY DEF RestoreInv, RestoreTypeOK
  <1>2. Applying => marker.stage \in StageIds
    BY NamesKnown DEF RestoreInv, RestoreTypeOK, Markers, NeverHalfRestored, Whole, CanFinish
  <1>3. QED
    BY <1>1, <1>2 DEF Swept

LEMMA StandbySweepKeeps ==
  ASSUME RestoreInv, NEW kept \in SUBSET StageIds, StandbySweep(kept) PROVE RestoreInv'
  <1>1. /\ proc = "standby" /\ step = "sweep" /\ stage' = Swept(kept) /\ step' = "discard"
        /\ UNCHANGED <<data, rollback, unsynced, marks, prepared, standby, proc, filling, nextStage,
                       outages>>
    BY DEF StandbySweep
  <1>2. FillingFresh' /\ StepsAgree'
    BY <1>1 DEF RestoreInv, FillingFresh, StepsAgree
  <1>3. step' \in Steps
    BY <1>1 DEF Steps
  <1>4. QED
    BY <1>1, <1>2, <1>3, Sweeps, StagesKeep, PlaceTyped

LEMMA DiscardStageKeeps ==
  ASSUME RestoreInv, NEW rest \in SUBSET Members, DiscardStage(rest) PROVE RestoreInv'
  <1>1. /\ proc = "standby" /\ step = "discard"
        /\ UNCHANGED <<data, rollback, unsynced, marks, prepared, standby, proc, filling, nextStage,
                       outages>>
        /\ \/ step' = "idle" /\ UNCHANGED stage
           \/ /\ marker.stage # 0 /\ ~Applying /\ rest \subseteq stage[marker.stage]
              /\ stage' = [stage EXCEPT ![marker.stage] = rest] /\ step' \in {"unmark", "idle"}
    BY DEF DiscardStage
  <1>2. stage \in [StageIds -> SUBSET Members] /\ marker.stage \in 0 .. MaxStages
    BY DEF RestoreInv, RestoreTypeOK, Markers
  <1>3. marker.stage # 0 => marker.stage \in StageIds
    BY <1>2, NamesKnown
  <1>4. /\ stage' \in [StageIds -> SUBSET Members] /\ step' \in Steps
        /\ \A n \in StageIds : stage'[n] \subseteq stage[n]
        /\ Applying => stage' = stage
    BY <1>1, <1>2, <1>3 DEF Steps
  <1>5. FillingFresh'
    BY <1>1 DEF RestoreInv, FillingFresh
  <1>6. StepsAgree'
    BY <1>1 DEF StepsAgree, Applying, marks
  <1>7. QED
    BY <1>1, <1>4, <1>5, <1>6, StagesKeep, PlaceTyped

LEMMA ClearStageKeeps ==
  ASSUME RestoreInv, ClearStage PROVE RestoreInv'
  <1>1. /\ proc = "boot" /\ step = "clear" /\ step' = "unmark"
        /\ stage' = [stage EXCEPT ![marker.stage] = {}]
        /\ UNCHANGED <<data, rollback, unsynced, marks, prepared, standby, proc, filling, nextStage,
                       outages>>
    BY DEF ClearStage, Booting, Go
  <1>2. stage \in [StageIds -> SUBSET Members] /\ marker.phase = "installed"
    BY <1>1 DEF RestoreInv, RestoreTypeOK, StepsAgree
  <1>3. stage' \in [StageIds -> SUBSET Members] /\ \A n \in StageIds : stage'[n] \subseteq stage[n]
    BY <1>1, <1>2
  <1>4. FillingFresh' /\ StepsAgree' /\ step' \in Steps
    BY <1>1 DEF RestoreInv, FillingFresh, StepsAgree, Steps, marks
  <1>5. QED
    BY <1>1, <1>2, <1>3, <1>4, StagesKeep, PlaceTyped

\* A step of a whole directory: missing files come of its origin, and a log
\* may go.
LEMMA WholeKeeps ==
  ASSUME RestoreInv, ~Applying, NEW of \in Origins,
         of = data[Db] \/ (data[Db] = None /\ of = 0),
         data' \in [Names -> Origins], data'[Db] = of,
         \A x \in Names : \/ data'[x] = data[x]
                          \/ data[x] = None /\ data'[x] = of
                          \/ x = Wal /\ data'[x] = None,
         UNCHANGED <<rollback, unsynced, marks, prepared, nextStage, outages>>,
         stage' \in [StageIds -> SUBSET Members], \A n \in StageIds : stage'[n] \subseteq stage[n],
         filling' \in {0, filling}, proc' \in {"down", "boot", "live", "standby"}, step' \in Steps,
         standby' \in BOOLEAN, FillingFresh', StepsAgree'
  PROVE  RestoreInv'
  <1>1. /\ RestoreTypeOK /\ NeverHalfRestored /\ Numbered /\ FillingFresh
        /\ Sound(marker) /\ Sound(lasting) /\ Lingering /\ Undoable /\ StepsAgree
    BY DEF RestoreInv
  <1>2. UNCHANGED <<rollback, unsynced, marker, lasting, prepared, nextStage, outages>>
    BY DEF marks
  <1>3. RestoreTypeOK'
    BY <1>1, <1>2, PlaceTyped, NamesKnown DEF RestoreTypeOK, Steps
  <1>4. OfOneOrigin /\ unsynced = {}
    BY <1>1 DEF NeverHalfRestored, Whole, CanFinish, Undoable
  <1>5. OfOneOrigin'
    <2>1. ASSUME NEW x \in Names PROVE data'[x] \in {None, data'[Db]}
      BY <1>4 DEF OfOneOrigin
    <2>2. data'[Db] > 0 => data'[Db] \in prepared
      BY <1>4, NamesKnown DEF OfOneOrigin
    <2>3. QED
      BY <1>2, <2>1, <2>2 DEF OfOneOrigin
  <1>6. NeverHalfRestored'
    BY <1>2, <1>5 DEF NeverHalfRestored, Whole, Applying
  <1>7. Numbered'
    <2>1. nextStage \in 0 .. MaxStages /\ \A x \in Names : data[x] <= nextStage
      BY <1>1 DEF RestoreTypeOK, Numbered
    <2>2. of <= nextStage
      BY <2>1, NamesKnown
    <2>3. \A x \in Names : data'[x] <= nextStage
      BY <2>1, <2>2, NamesKnown
    <2>4. \A n \in StageIds : n > nextStage => stage'[n] = {}
      BY <1>1 DEF Numbered
    <2>5. filling' <= nextStage
      BY <1>1, <2>1 DEF Numbered
    <2>6. QED
      BY <1>1, <1>2, <2>3, <2>4, <2>5 DEF Numbered
  <1>8. ASSUME NEW m \in {marker, lasting}, m.stage # 0, m.phase = "prepared", NEW x \in Names
        PROVE  data'[x] # m.stage
    <2>1. data[x] # m.stage /\ data[Db] # m.stage
      BY <1>1, <1>8, NamesKnown DEF Sound
    <2>2. m.stage \in 0 .. MaxStages
      BY <1>1 DEF RestoreTypeOK, Markers
    <2>3. QED
      BY <1>8, <2>1, <2>2, NamesKnown
  <1>9. Sound(marker)' /\ Sound(lasting)'
    BY <1>1, <1>2, <1>8 DEF Sound
  <1>10. Lingering'
    <2>1. CASE lasting.phase = "prepared" /\ ~lasting.rollback
      BY <1>2, <2>1 DEF Lingering, Applying
    <2>2. CASE ~(lasting.phase = "prepared" /\ ~lasting.rollback)
      <3>1. /\ lasting.phase = "installed" /\ lasting.stage # 0
            /\ \A x \in lasting.entries : data[x] = lasting.stage
            /\ \A x \in Names : data[x] \in {None, lasting.stage}
            /\ stage[lasting.stage] \cap lasting.entries = {}
        BY <1>1, <2>2 DEF Lingering
      <3>2. lasting.stage \in StageIds /\ lasting.entries \subseteq Members /\ Db \in lasting.entries
        BY <1>1, <3>1, NamesKnown DEF RestoreTypeOK, Markers, Sound
      <3>3. of = lasting.stage /\ lasting.stage # None
        BY <3>1, <3>2, NamesKnown
      <3>4. \A x \in Names : data'[x] \in {None, lasting.stage}
        BY <3>1, <3>3
      <3>5. \A x \in lasting.entries : data'[x] = lasting.stage
        BY <3>1, <3>2, <3>3, NamesKnown
      <3>6. stage'[lasting.stage] \cap lasting.entries = {}
        BY <3>1, <3>2
      <3>7. QED
        BY <1>2, <3>1, <3>4, <3>5, <3>6 DEF Lingering, Applying
    <2>3. QED
      BY <2>1, <2>2
  <1>11. Undoable'
    BY <1>2, <1>4 DEF Undoable
  <1>12. QED
    BY <1>3, <1>6, <1>7, <1>9, <1>10, <1>11 DEF RestoreInv


LEMMA ShutdownKeeps == ASSUME RestoreInv, Shutdown PROVE RestoreInv'
  <1>1. /\ proc \in {"live", "standby"} /\ stage' = Unfilled /\ Stop
        /\ data' = IF proc = "live" THEN [data EXCEPT ![Wal] = None] ELSE data
        /\ UNCHANGED <<rollback, unsynced, marks, prepared, standby, nextStage, outages>>
    BY DEF Shutdown
  <1>2. FillingFresh' /\ StepsAgree' /\ step' \in Steps /\ proc' = "down" /\ filling' = 0
    BY <1>1 DEF Stop, FillingFresh, StepsAgree, Steps
  <1>3. data \in [Names -> Origins] /\ stage \in [StageIds -> SUBSET Members]
    BY DEF RestoreInv, RestoreTypeOK
  <1>4. CASE Applying
    <2>1. proc = "standby"
      BY <1>1, <1>4 DEF RestoreInv, NeverHalfRestored, Whole
    <2>2. data' = data
      BY <1>1, <2>1
    <2>3. UNCHANGED <<data, marker, lasting>>
      BY <1>1, <2>2 DEF marks
    <2>4. /\ stage' \in [StageIds -> SUBSET Members] /\ \A n \in StageIds : stage'[n] \subseteq stage[n]
          /\ stage'[marker.stage] = stage[marker.stage]
      BY <1>1, <1>4, Unfills
    <2>5. RestoreTypeOK'
      BY <1>1, <1>2, <2>3, <2>4, NamesKnown DEF RestoreInv, RestoreTypeOK, Steps
    <2>6. NeverHalfRestored'
      BY <1>2, <1>4, <2>3, <2>4 DEF RestoreInv, NeverHalfRestored, Whole, CanFinish, Applying
    <2>7. Numbered'
      BY <1>1, <1>2, <2>3, <2>4, NamesKnown DEF RestoreInv, RestoreTypeOK, Numbered
    <2>8. Sound(marker)' /\ Sound(lasting)'
      BY <1>1, <2>3 DEF RestoreInv, Sound
    <2>9. Lingering' /\ Undoable'
      BY <1>1, <1>4, <2>3 DEF RestoreInv, Lingering, Undoable, Applying
    <2>10. QED
      BY <1>2, <2>5, <2>6, <2>7, <2>8, <2>9 DEF RestoreInv
  <1>5. CASE ~Applying
    <2>1. /\ data' \in [Names -> Origins] /\ data'[Db] = data[Db] /\ data[Db] \in Origins
          /\ \A x \in Names : data'[x] = data[x] \/ (x = Wal /\ data'[x] = None)
      BY <1>1, <1>3, NamesKnown
    <2>2. QED
      BY <1>1, <1>2, <1>5, <2>1, Unfills, PlaceTyped, WholeKeeps
  <1>6. QED
    BY <1>4, <1>5

LEMMA OpenStoreKeeps == ASSUME RestoreInv, OpenStore PROVE RestoreInv'
  <1>1. CASE Refuse
    BY <1>1, RefuseKeeps
  <1>2. CASE ~Refuse
    <2> DEFINE of == IF data[Db] = None THEN 0 ELSE data[Db]
    <2>1. /\ proc = "boot" /\ step = "open" /\ step' = "opened" /\ UNCHANGED <<proc, filling>>
          /\ data' = [data EXCEPT ![Db] = of, ![Wal] = IF @ = None THEN of ELSE @]
          /\ UNCHANGED <<stage, rollback, unsynced, marks, prepared, standby, nextStage, outages>>
      BY <1>2 DEF OpenStore, Booting, Go
    <2>2. data \in [Names -> Origins] /\ stage \in [StageIds -> SUBSET Members]
      BY DEF RestoreInv, RestoreTypeOK
    <2>3. of \in Origins /\ (of = data[Db] \/ (data[Db] = None /\ of = 0))
      BY <2>2, NamesKnown
    <2>4. data[Db] # None => of = data[Db]
      OBVIOUS
    <2> HIDE DEF of
    <2>5. /\ data' \in [Names -> Origins] /\ data'[Db] = of
          /\ \A x \in Names : data'[x] = data[x] \/ (data[x] = None /\ data'[x] = of)
      BY <2>1, <2>2, <2>3, <2>4, NamesKnown
    <2>6. ~Applying
      BY <2>1, NamesKnown DEF RestoreInv, StepsAgree, Applying
    <2>7. FillingFresh' /\ StepsAgree' /\ step' \in Steps /\ proc' = "boot"
      BY <2>1 DEF RestoreInv, FillingFresh, StepsAgree, Steps, marks
    <2>8. QED
      BY <2>1, <2>2, <2>3, <2>5, <2>6, <2>7, WholeKeeps, PlaceTyped
  <1>3. QED
    BY <1>1, <1>2

LEMMA ServeKeeps ==
  ASSUME RestoreInv, NEW kept \in SUBSET StageIds, Serve(kept) PROVE RestoreInv'
  <1>1. /\ proc = "boot" /\ step = "opened" /\ proc' = "live" /\ step' = "idle"
        /\ standby' = FALSE /\ stage' = Swept(kept) /\ filling' = filling
        /\ data' = [x \in Names |-> IF data[x] = None THEN data[Db] ELSE data[x]]
        /\ UNCHANGED <<rollback, unsynced, marks, prepared, nextStage, outages>>
    BY DEF Serve, Booting
  <1>2. data \in [Names -> Origins] /\ data[Db] \in Origins
    BY NamesKnown DEF RestoreInv, RestoreTypeOK
  <1>3. /\ data' \in [Names -> Origins] /\ data'[Db] = data[Db]
        /\ \A x \in Names : data'[x] = data[x] \/ (data[x] = None /\ data'[x] = data[Db])
    BY <1>1, <1>2, NamesKnown
  <1>4. ~Applying
    BY <1>1, NamesKnown DEF RestoreInv, StepsAgree, Applying
  <1>5. FillingFresh' /\ StepsAgree' /\ step' \in Steps
    BY <1>1 DEF RestoreInv, FillingFresh, StepsAgree, Steps
  <1>6. QED
    BY <1>1, <1>2, <1>3, <1>4, <1>5, Sweeps, WholeKeeps, PlaceTyped

LEMMA DiscardMarkerKeeps == ASSUME RestoreInv, DiscardMarker PROVE RestoreInv'
  <1>1. /\ proc = "standby" /\ step = "unmark" /\ marker' = NoMarker /\ step' = "idle"
        /\ UNCHANGED <<data, stage, rollback, unsynced, lasting, prepared, standby, proc, filling,
                       nextStage, outages>>
    BY DEF DiscardMarker, trees
  <1>2. /\ RestoreTypeOK /\ NeverHalfRestored /\ Numbered /\ FillingFresh
        /\ Sound(marker) /\ Sound(lasting) /\ Lingering /\ Undoable /\ ~Applying
    BY <1>1 DEF RestoreInv, StepsAgree
  <1>3. RestoreTypeOK'
    BY <1>1, <1>2, NamesKnown DEF RestoreTypeOK
  <1>4. ~Applying'
    BY <1>1, NamesKnown DEF Applying
  <1>5. NeverHalfRestored'
    <2>1. OfOneOrigin
      BY <1>2 DEF NeverHalfRestored, Whole, CanFinish
    <2>2. QED
      BY <1>1, <1>4, <2>1 DEF NeverHalfRestored, Whole, OfOneOrigin
  <1>6. Numbered' /\ FillingFresh'
    BY <1>1, <1>2, NamesKnown DEF Numbered, FillingFresh, RestoreTypeOK
  <1>7. Sound(marker)' /\ Sound(lasting)'
    BY <1>1, <1>2, NamesKnown DEF Sound
  <1>8. Lingering' /\ Undoable' /\ StepsAgree'
    BY <1>1, <1>2, <1>4 DEF Lingering, Undoable, StepsAgree
  <1>9. QED
    BY <1>3, <1>5, <1>6, <1>7, <1>8 DEF RestoreInv

LEMMA SyncRemovalKeeps == ASSUME RestoreInv, SyncRemoval PROVE RestoreInv'
  <1>1. /\ proc = "boot" /\ step = "synced" /\ lasting' = marker /\ step' = "open"
        /\ UNCHANGED <<data, stage, rollback, unsynced, marker, prepared, standby, proc, filling,
                       nextStage, outages>>
    BY DEF SyncRemoval, Booting, Go, trees
  <1>2. /\ RestoreTypeOK /\ NeverHalfRestored /\ Numbered /\ FillingFresh
        /\ Sound(marker) /\ Sound(lasting) /\ Lingering /\ Undoable /\ marker = NoMarker
    BY <1>1 DEF RestoreInv, StepsAgree
  <1>3. RestoreTypeOK' /\ Numbered' /\ FillingFresh'
    BY <1>1, <1>2 DEF RestoreTypeOK, Numbered, FillingFresh
  <1>4. NeverHalfRestored'
    BY <1>1, <1>2 DEF NeverHalfRestored, Whole, OfOneOrigin, CanFinish, Applying
  <1>5. Sound(marker)' /\ Sound(lasting)'
    BY <1>1, <1>2 DEF Sound
  <1>6. Lingering' /\ Undoable' /\ StepsAgree'
    BY <1>1, <1>2, NamesKnown DEF Lingering, Undoable, StepsAgree, Applying
  <1>7. QED
    BY <1>3, <1>4, <1>5, <1>6 DEF RestoreInv

LEMMA RemoveMarkerKeeps == ASSUME RestoreInv, RemoveMarker PROVE RestoreInv'
  <1>1. /\ proc = "boot" /\ step = "unmark" /\ marker' = NoMarker /\ step' = "synced"
        /\ UNCHANGED <<data, stage, rollback, unsynced, lasting, prepared, standby, proc, filling,
                       nextStage, outages>>
    BY DEF RemoveMarker, Booting, Go, trees
  <1>2. /\ RestoreTypeOK /\ NeverHalfRestored /\ Numbered /\ FillingFresh
        /\ Sound(marker) /\ Sound(lasting) /\ Lingering /\ Undoable
        /\ marker.phase = "installed" /\ marker.stage \in prepared
    BY <1>1 DEF RestoreInv, StepsAgree
  <1>3. /\ Applying /\ CanFinish /\ lasting = marker
    BY <1>2 DEF NeverHalfRestored, Whole, Applying, Lingering
  <1>4. RestoreTypeOK'
    BY <1>1, <1>2, NamesKnown DEF RestoreTypeOK
  <1>5. ~Applying'
    BY <1>1, NamesKnown DEF Applying
  <1>6. /\ \A x \in marker.entries : data[x] = marker.stage
        /\ \A x \in Names : data[x] \in {None, marker.stage}
        /\ stage[marker.stage] \cap marker.entries = {} /\ marker.stage # 0
    BY <1>2, <1>3 DEF CanFinish
  <1>7. data[Db] = marker.stage
    BY <1>2, <1>6 DEF Sound
  <1>8. NeverHalfRestored'
    BY <1>1, <1>2, <1>5, <1>6, <1>7 DEF NeverHalfRestored, Whole, OfOneOrigin
  <1>9. Numbered' /\ FillingFresh'
    BY <1>1, <1>2, NamesKnown DEF Numbered, FillingFresh, RestoreTypeOK
  <1>10. Sound(marker)' /\ Sound(lasting)'
    BY <1>1, <1>2, NamesKnown DEF Sound
  <1>11. Lingering'
    BY <1>1, <1>2, <1>3, <1>5, <1>6 DEF Lingering
  <1>12. unsynced = {}
    BY <1>2 DEF Undoable
  <1>13. Undoable' /\ StepsAgree'
    BY <1>1, <1>12 DEF Undoable, StepsAgree
  <1>14. QED
    BY <1>4, <1>8, <1>9, <1>10, <1>11, <1>13 DEF RestoreInv

LEMMA MarkPendingKeeps ==
  ASSUME RestoreInv, NEW synced \in BOOLEAN, NEW removed \in BOOLEAN, MarkPending(synced, removed)
  PROVE  RestoreInv'
  <1>1. /\ filling # 0 /\ stage[filling] # {} /\ ~Applying /\ filling' = 0
        /\ marker' = [NoMarker EXCEPT !.stage = filling, !.entries = stage[filling]]
        /\ lasting' \in {marker', lasting}
        /\ stage' = stage \/ (marker.stage # 0 /\ stage' = [stage EXCEPT ![marker.stage] = {}])
        /\ UNCHANGED <<data, rollback, unsynced, prepared, standby, proc, step, nextStage, outages>>
    BY DEF MarkPending
  <1>2. /\ RestoreTypeOK /\ NeverHalfRestored /\ Numbered /\ FillingFresh
        /\ Sound(marker) /\ Sound(lasting) /\ Lingering /\ Undoable /\ StepsAgree
    BY DEF RestoreInv
  <1>3. /\ filling \in StageIds /\ stage \in [StageIds -> SUBSET Members]
        /\ marker.stage \in 0 .. MaxStages /\ lasting.stage \in 0 .. MaxStages
    BY <1>1, <1>2, NamesKnown DEF RestoreTypeOK, Markers
  <1>4. /\ marker'.stage = filling /\ marker'.entries = stage[filling]
        /\ marker'.phase = "prepared" /\ ~marker'.rollback /\ marker' \in Markers
    <2>1. filling \in 0 .. MaxStages /\ stage[filling] \in SUBSET Members
      BY <1>3, NamesKnown
    <2>2. QED
      BY <1>1, <2>1, NamesKnown DEF Markers
  <1>5. stage' \in [StageIds -> SUBSET Members] /\ \A n \in StageIds : stage'[n] \subseteq stage[n]
    BY <1>1, <1>3
  <1>6. RestoreTypeOK'
    <2>1. lasting' \in Markers /\ filling' \in 0 .. MaxStages
      BY <1>1, <1>2, <1>4, NamesKnown DEF RestoreTypeOK
    <2>2. QED
      BY <1>1, <1>2, <1>4, <1>5, <2>1 DEF RestoreTypeOK
  <1>7. ~Applying' /\ OfOneOrigin /\ unsynced = {}
    BY <1>1, <1>2, <1>4 DEF Applying, NeverHalfRestored, Whole, CanFinish, Undoable
  <1>8. NeverHalfRestored'
    BY <1>1, <1>7 DEF NeverHalfRestored, Whole, OfOneOrigin
  <1>9. Numbered'
    <2>1. marker'.stage <= nextStage /\ filling' <= nextStage
      BY <1>1, <1>2, <1>4, NamesKnown DEF Numbered, RestoreTypeOK
    <2>3. lasting'.stage \in {marker'.stage, lasting.stage} /\ lasting.stage <= nextStage
      BY <1>1, <1>2 DEF Numbered
    <2>2. QED
      BY <1>1, <1>2, <1>5, <2>1, <2>3 DEF Numbered
  <1>10. FillingFresh'
    BY <1>1 DEF FillingFresh
  <1>11. Sound(marker)'
    BY <1>1, <1>2, <1>3, <1>4, NamesKnown DEF Sound, FillingFresh
  <1>12. Sound(lasting)'
    <2>1. CASE lasting' = marker'
      BY <1>11, <2>1 DEF Sound
    <2>2. CASE lasting' = lasting
      BY <1>1, <1>2, <2>2 DEF Sound
    <2>3. QED
      BY <1>1, <2>1, <2>2
  <1>13. Lingering'
    <2>1. CASE lasting' = marker'
      BY <1>4, <1>7, <2>1 DEF Lingering
    <2>2. CASE lasting' = lasting /\ lasting.phase = "prepared"
      BY <1>1, <1>2, <1>7, <2>2 DEF Lingering
    <2>3. CASE lasting' = lasting /\ lasting.phase # "prepared"
      <3>1. lasting.stage \in StageIds
        BY <1>1, <1>2, <1>3, <2>3, NamesKnown DEF Lingering
      <3>2. stage'[lasting.stage] \subseteq stage[lasting.stage]
        BY <1>5, <3>1
      <3>3. QED
        BY <1>1, <1>2, <1>7, <2>3, <3>2 DEF Lingering
    <2>4. QED
      BY <1>1, <2>1, <2>2, <2>3
  <1>14. Undoable'
    BY <1>1, <1>7 DEF Undoable
  <1>15. StepsAgree'
    BY <1>1, <1>2, <1>7 DEF StepsAgree, FillingFresh
  <1>16. QED
    BY <1>6, <1>8, <1>9, <1>10, <1>11, <1>12, <1>13, <1>14, <1>15 DEF RestoreInv


\* Persist while a restore is applied: the marker and what lasts of it are one.
LEMMA PersistKeeps ==
  ASSUME RestoreInv, NEW m \in Markers, marker' = m, lasting' = m, m.stage = marker.stage,
         m.entries = marker.entries, marker.stage # 0,
         m.phase = "prepared" => marker.phase = "prepared",
         Applying', CanFinish', unsynced' = {}, rollback' \in [Names -> Origins],
         \A x \in Names : rollback'[x] \in {None, rollback[x]},
         UNCHANGED <<data, stage, prepared, standby, nextStage, outages>>,
         proc = "boot", UNCHANGED <<proc, filling>>, step' \in Steps, StepsAgree'
  PROVE  RestoreInv'
  <1>1. /\ RestoreTypeOK /\ Numbered /\ FillingFresh /\ Sound(marker)
    BY DEF RestoreInv
  <1>2. RestoreTypeOK'
    BY <1>1 DEF RestoreTypeOK, Steps
  <1>3. NeverHalfRestored'
    BY DEF NeverHalfRestored
  <1>4. nextStage \in 0 .. MaxStages /\ \A x \in Names : rollback[x] \in Origins /\ rollback[x] <= nextStage
    BY <1>1 DEF Numbered, RestoreTypeOK
  <1>5. \A x \in Names : rollback'[x] <= nextStage
    BY <1>4, NamesKnown
  <1>6. Numbered'
    BY <1>1, <1>5 DEF Numbered
  <1>7. filling = 0
    BY <1>1 DEF FillingFresh
  <1>8. FillingFresh'
    BY <1>7 DEF FillingFresh
  <1>9. marker.stage # None
    BY <1>1, NamesKnown DEF RestoreTypeOK, Markers
  <1>10. m.phase = "prepared" => \A x \in Names : data[x] # m.stage /\ rollback'[x] # m.stage
    BY <1>1, <1>9 DEF Sound
  <1>11. Sound(marker)' /\ Sound(lasting)'
    BY <1>1, <1>10 DEF Sound
  <1>12. Lingering' /\ Undoable'
    BY DEF Lingering, Undoable
  <1>13. QED
    BY <1>2, <1>3, <1>6, <1>8, <1>11, <1>12 DEF RestoreInv

LEMMA ChooseRollbackKeeps == ASSUME RestoreInv, ChooseRollback PROVE RestoreInv'
  <1> DEFINE m == [marker EXCEPT !.rollback = TRUE]
  <1>1. /\ proc = "boot" /\ step = "choose" /\ marker' = m /\ lasting' = m /\ step' = "move"
        /\ rollback' = IF marker.rollback THEN rollback ELSE Nowhere
        /\ UNCHANGED <<data, stage, unsynced, prepared, standby, proc, filling, nextStage, outages>>
    BY DEF ChooseRollback, Booting, Persist, Go
  <1>2. /\ RestoreTypeOK /\ Sound(marker) /\ Lingering /\ Undoable
        /\ marker.stage # 0 /\ marker.phase = "prepared" /\ stage[marker.stage] = marker.entries
    BY <1>1 DEF RestoreInv, StepsAgree
  <1>3. /\ m \in Markers /\ m.stage = marker.stage /\ m.entries = marker.entries
        /\ m.phase = "prepared" /\ m.rollback
    BY <1>2 DEF RestoreTypeOK, Markers
  <1> HIDE DEF m
  <1>4. Applying'
    BY <1>1, <1>3 DEF Applying
  <1>5. \A x \in Names : data[x] # marker.stage
    BY <1>2 DEF Sound
  <1>6. marker.entries \subseteq Names
    BY <1>2, NamesKnown DEF RestoreTypeOK, Markers
  <1>7. CanFinish'
    BY <1>1, <1>2, <1>3, <1>4, <1>5, <1>6 DEF CanFinish
  <1>8. /\ rollback' \in [Names -> Origins]
        /\ \A x \in Names : rollback'[x] \in {None, rollback[x]}
    BY <1>1, <1>2, NamesKnown DEF RestoreTypeOK, Nowhere
  <1>9. StepsAgree' /\ step' \in Steps
    BY <1>1, <1>3, <1>4 DEF StepsAgree, Steps
  <1>10. CASE unsynced = {}
    BY <1>1, <1>2, <1>3, <1>4, <1>7, <1>8, <1>9, <1>10, PersistKeeps
  <1>11. CASE unsynced # {}
    <2>1. Applying /\ marker.rollback /\ lasting = marker
      BY <1>2, <1>11 DEF Undoable, Applying, Lingering
    <2>2. m = marker
      BY <2>1, <1>2 DEF m, RestoreTypeOK, Markers
    <2>3. UNCHANGED <<data, stage, rollback, unsynced, marker, lasting>>
      BY <1>1, <2>1, <2>2
    <2>4. FillingFresh'
      BY <1>1 DEF RestoreInv, FillingFresh
    <2>5. QED
      BY <1>1, <1>9, <2>3, <2>4, PlaceKeeps, PlaceTyped DEF trees, marks
  <1>12. QED
    BY <1>10, <1>11

LEMMA OldMovedKeeps == ASSUME RestoreInv, OldMoved PROVE RestoreInv'
  <1> DEFINE m == [marker EXCEPT !.phase = "moved"]
  <1>1. /\ proc = "boot" /\ step = "move" /\ marker' = m /\ lasting' = m /\ step' = "install"
        /\ unsynced' = {} /\ \A x \in Names : data[x] = None
        /\ UNCHANGED <<data, stage, rollback, prepared, standby, proc, filling, nextStage, outages>>
    BY DEF OldMoved, Booting, Persist, Go
  <1>2. /\ RestoreTypeOK /\ Sound(marker) /\ Applying /\ marker.phase = "prepared" /\ CanFinish
    BY <1>1 DEF RestoreInv, StepsAgree, NeverHalfRestored, Whole
  <1>3. /\ m \in Markers /\ m.stage = marker.stage /\ m.entries = marker.entries
        /\ m.phase = "moved" /\ m.rollback
    BY <1>2 DEF RestoreTypeOK, Markers, CanFinish
  <1> HIDE DEF m
  <1>4. Applying'
    BY <1>1, <1>3 DEF Applying
  <1>5. CanFinish'
    BY <1>1, <1>2, <1>3, <1>4 DEF CanFinish
  <1>6. StepsAgree' /\ step' \in Steps
    BY <1>1, <1>3, <1>4 DEF StepsAgree, Steps
  <1>7. rollback' \in [Names -> Origins] /\ marker.stage # 0
    BY <1>1, <1>2 DEF RestoreTypeOK, CanFinish
  <1>8. QED
    BY <1>1, <1>3, <1>4, <1>5, <1>6, <1>7, PersistKeeps

LEMMA NewInstalledKeeps == ASSUME RestoreInv, NewInstalled PROVE RestoreInv'
  <1> DEFINE m == [marker EXCEPT !.phase = "installed"]
  <1>1. /\ proc = "boot" /\ step = "install" /\ marker' = m /\ lasting' = m /\ step' = "prepare"
        /\ unsynced' = {} /\ \A x \in marker.entries : data[x] = marker.stage
        /\ stage[marker.stage] \cap marker.entries = {}
        /\ UNCHANGED <<data, stage, rollback, prepared, standby, proc, filling, nextStage, outages>>
    BY DEF NewInstalled, Booting, Persist, Go
  <1>2. /\ RestoreTypeOK /\ Sound(marker) /\ marker.phase = "moved" /\ CanFinish
    BY <1>1 DEF RestoreInv, StepsAgree, NeverHalfRestored, Whole, Applying
  <1>3. /\ m \in Markers /\ m.stage = marker.stage /\ m.entries = marker.entries
        /\ m.phase = "installed" /\ m.rollback = marker.rollback
    BY <1>2 DEF RestoreTypeOK, Markers, CanFinish
  <1> HIDE DEF m
  <1>4. Applying'
    BY <1>1, <1>3 DEF Applying
  <1>5. CanFinish'
    BY <1>1, <1>2, <1>3, <1>4 DEF CanFinish
  <1>6. StepsAgree' /\ step' \in Steps
    BY <1>1, <1>3, <1>4 DEF StepsAgree, Steps
  <1>7. rollback' \in [Names -> Origins] /\ marker.stage # 0
    BY <1>1, <1>2 DEF RestoreTypeOK, CanFinish
  <1>8. QED
    BY <1>1, <1>3, <1>4, <1>5, <1>6, <1>7, PersistKeeps


\* A file moves while a restore is applied: no marker is written.
LEMMA MoveKeeps ==
  ASSUME RestoreInv, Applying, CanFinish', proc = "boot", UNCHANGED <<proc, filling>>,
         data' \in [Names -> Origins], rollback' \in [Names -> Origins], unsynced' \subseteq Names,
         stage' \in [StageIds -> SUBSET Members], \A n \in StageIds : stage'[n] \subseteq stage[n],
         \A x \in Names : data'[x] \in {None, data[x], marker.stage},
         \A x \in Names : rollback'[x] \in {rollback[x], data[x]},
         UNCHANGED <<marks, prepared, standby, nextStage, outages>>,
         step' \in Steps, Undoable', StepsAgree'
  PROVE  RestoreInv'
  <1>1. /\ RestoreTypeOK /\ Numbered /\ FillingFresh /\ Sound(marker) /\ Lingering
        /\ UNCHANGED <<marker, lasting>>
    BY DEF RestoreInv, marks
  <1>2. RestoreTypeOK'
    BY <1>1 DEF RestoreTypeOK, Steps
  <1>3. NeverHalfRestored'
    BY <1>1 DEF NeverHalfRestored, CanFinish
  <1>4. /\ nextStage \in 0 .. MaxStages /\ marker.stage \in 0 .. MaxStages /\ marker.stage <= nextStage
        /\ \A x \in Names : /\ data[x] \in Origins /\ rollback[x] \in Origins
                            /\ data[x] <= nextStage /\ rollback[x] <= nextStage
    BY <1>1 DEF Numbered, RestoreTypeOK, Markers
  <1>5. ASSUME NEW x \in Names PROVE data'[x] <= nextStage /\ rollback'[x] <= nextStage
    <2>1. None <= nextStage
      BY <1>4, NamesKnown
    <2>2. data'[x] \in {None, data[x], marker.stage} /\ rollback'[x] \in {rollback[x], data[x]}
      OBVIOUS
    <2>3. QED
      BY <1>4, <2>1, <2>2
  <1>6. \A n \in StageIds : n > nextStage => stage'[n] = {}
    BY <1>1 DEF Numbered
  <1>7. Numbered'
    BY <1>1, <1>5, <1>6 DEF Numbered
  <1>8. FillingFresh'
    BY <1>1 DEF FillingFresh
  <1>9. marker.phase = "prepared" => \A x \in Names : data'[x] # marker.stage
    BY <1>1 DEF CanFinish
  <1>10. marker.phase = "prepared" /\ marker.stage # 0 => \A x \in Names : rollback'[x] # marker.stage
    BY <1>1 DEF Sound
  <1>11. lasting = marker /\ Applying'
    BY <1>1 DEF Lingering, Applying
  <1>12. Sound(marker)' /\ Sound(lasting)'
    BY <1>1, <1>9, <1>10, <1>11 DEF Sound
  <1>13. Lingering'
    BY <1>1, <1>11 DEF Lingering
  <1>14. QED
    BY <1>2, <1>3, <1>7, <1>8, <1>12, <1>13 DEF RestoreInv

LEMMA MoveOldKeeps == ASSUME RestoreInv, NEW x \in Names, MoveOld(x) PROVE RestoreInv'
  <1>1. CASE Refuse
    BY <1>1, RefuseKeeps
  <1>2. CASE ~Refuse
    <2>1. /\ proc = "boot" /\ step = "move" /\ data[x] # None
          /\ rollback' = [rollback EXCEPT ![x] = data[x]] /\ data' = [data EXCEPT ![x] = None]
          /\ unsynced' = unsynced \cup {x}
          /\ UNCHANGED <<stage, marks, prepared, standby, place, nextStage, outages>>
      BY <1>2 DEF MoveOld, Booting
    <2>2. UNCHANGED <<marker, lasting, proc, step, filling>>
      BY <2>1 DEF marks, place
    <2>3. /\ RestoreTypeOK /\ Undoable /\ Applying /\ marker.phase = "prepared" /\ CanFinish
      BY <2>1 DEF RestoreInv, StepsAgree, NeverHalfRestored, Whole
    <2>4. /\ data' \in [Names -> Origins] /\ rollback' \in [Names -> Origins] /\ unsynced' \subseteq Names
          /\ \A y \in Names : data'[y] \in {None, data[y]} /\ rollback'[y] \in {rollback[y], data[y]}
      BY <2>1, <2>3, NamesKnown DEF RestoreTypeOK
    <2>5. \A y \in unsynced' : data'[y] = None
      BY <2>1, <2>3, <2>4 DEF RestoreTypeOK, Undoable
    <2>6. Applying' /\ Undoable' /\ StepsAgree' /\ step' \in Steps
      BY <2>1, <2>2, <2>3, <2>5, PlaceTyped DEF Applying, Undoable, StepsAgree
    <2>7. marker.stage # None /\ marker.entries \subseteq Names
      BY <2>3, NamesKnown DEF RestoreTypeOK, Markers
    <2>8. CanFinish'
      BY <2>1, <2>2, <2>3, <2>4, <2>6, <2>7 DEF CanFinish
    <2>9. stage' \in [StageIds -> SUBSET Members] /\ \A n \in StageIds : stage'[n] \subseteq stage[n]
      BY <2>1, <2>3 DEF RestoreTypeOK
    <2>10. QED
      BY <2>1, <2>2, <2>3, <2>4, <2>6, <2>8, <2>9, MoveKeeps
  <1>3. QED
    BY <1>1, <1>2

LEMMA InstallNewKeeps == ASSUME RestoreInv, NEW x \in Names, InstallNew(x) PROVE RestoreInv'
  <1>1. CASE Refuse
    BY <1>1, RefuseKeeps
  <1>2. CASE ~Refuse
    <2> DEFINE s == marker.stage
    <2>1. /\ proc = "boot" /\ step = "install" /\ x \in marker.entries /\ x \in stage[s] /\ data[x] = None
          /\ data' = [data EXCEPT ![x] = s] /\ stage' = [stage EXCEPT ![s] = @ \ {x}]
          /\ unsynced' = unsynced \cup {x}
          /\ UNCHANGED <<rollback, marks, prepared, standby, place, nextStage, outages>>
      BY <1>2 DEF InstallNew, Booting
    <2>2. UNCHANGED <<marker, lasting, proc, step, filling>>
      BY <2>1 DEF marks, place
    <2>3. /\ RestoreTypeOK /\ Undoable /\ Applying /\ marker.phase = "moved" /\ CanFinish
      BY <2>1 DEF RestoreInv, StepsAgree, NeverHalfRestored, Whole, Applying
    <2>4. /\ s \in StageIds /\ s \in Origins /\ s # None /\ marker.entries \subseteq Names
          /\ data \in [Names -> Origins] /\ stage \in [StageIds -> SUBSET Members]
      BY <2>3, NamesKnown DEF RestoreTypeOK, Markers, CanFinish
    <2> HIDE DEF s
    <2>5. /\ data' \in [Names -> Origins] /\ unsynced' \subseteq Names
          /\ data'[x] = s /\ \A y \in Names \ {x} : data'[y] = data[y]
          /\ stage' \in [StageIds -> SUBSET Members] /\ stage'[s] = stage[s] \ {x}
          /\ \A n \in StageIds : stage'[n] \subseteq stage[n]
      BY <2>1, <2>3, <2>4 DEF RestoreTypeOK
    <2>6. \A y \in unsynced' : y \in marker.entries /\ data'[y] = s
      BY <2>1, <2>3, <2>4, <2>5 DEF Undoable, s
    <2>7. Applying' /\ Undoable' /\ StepsAgree' /\ step' \in Steps
      BY <2>1, <2>2, <2>3, <2>6, PlaceTyped DEF Applying, Undoable, StepsAgree, s
    <2>8. \A y \in marker.entries : (y \in stage'[s]) # (data'[y] = s)
      BY <2>1, <2>3, <2>4, <2>5 DEF CanFinish, s
    <2>9. \A y \in Names : data'[y] \in {None, s}
      BY <2>3, <2>5 DEF CanFinish, s
    <2>10. CanFinish'
      BY <2>2, <2>3, <2>7, <2>8, <2>9 DEF CanFinish, s
    <2>11. rollback' \in [Names -> Origins] /\ \A y \in Names : rollback'[y] \in {rollback[y], data[y]}
      BY <2>1, <2>3 DEF RestoreTypeOK
    <2>12. \A y \in Names : data'[y] \in {None, data[y], marker.stage}
      BY <2>5 DEF s
    <2>13. QED
      BY <2>1, <2>2, <2>3, <2>5, <2>7, <2>10, <2>11, <2>12, MoveKeeps
  <1>3. QED
    BY <1>1, <1>2

LEMMA RotateSecretKeeps == ASSUME RestoreInv, RotateSecret PROVE RestoreInv'
  <1> DEFINE s == marker.stage
  <1>1. /\ proc = "boot" /\ step = "rotate" /\ step' = "clear" /\ UNCHANGED <<proc, filling>>
        /\ data' = [data EXCEPT ![Secret] = IF @ = None THEN s ELSE @, ![Wal] = None]
        /\ UNCHANGED <<stage, rollback, unsynced, marks, prepared, standby, nextStage, outages>>
    BY DEF RotateSecret, Booting, Go
  <1>2. UNCHANGED <<marker, lasting>>
    BY <1>1 DEF marks
  <1>3. /\ RestoreTypeOK /\ Undoable /\ Applying /\ marker.phase = "installed" /\ CanFinish
        /\ s \in prepared
    BY <1>1 DEF RestoreInv, StepsAgree, NeverHalfRestored, Whole, Applying
  <1>4. /\ s \in StageIds /\ s \in Origins /\ marker.entries \subseteq Members
        /\ data \in [Names -> Origins] /\ \A x \in Names : data[x] \in {None, s}
        /\ \A x \in marker.entries : data[x] = s
    BY <1>3, NamesKnown DEF RestoreTypeOK, Markers, CanFinish
  <1> HIDE DEF s
  <1>5. /\ data' \in [Names -> Origins] /\ \A x \in Names : data'[x] \in {None, s}
        /\ \A x \in marker.entries : data'[x] = s
    BY <1>1, <1>4, NamesKnown
  <1>6. unsynced = {}
    BY <1>3 DEF Undoable
  <1>7. Applying' /\ Undoable' /\ StepsAgree' /\ step' \in Steps
    BY <1>1, <1>2, <1>3, <1>6 DEF Applying, Undoable, StepsAgree, Steps, s
  <1>8. CanFinish'
    BY <1>1, <1>2, <1>3, <1>5, <1>7 DEF CanFinish, s
  <1>9. /\ rollback' \in [Names -> Origins] /\ unsynced' \subseteq Names
        /\ stage' \in [StageIds -> SUBSET Members] /\ \A n \in StageIds : stage'[n] \subseteq stage[n]
        /\ \A x \in Names : rollback'[x] \in {rollback[x], data[x]}
    BY <1>1, <1>3 DEF RestoreTypeOK
  <1>10. \A x \in Names : data'[x] \in {None, data[x], marker.stage}
    BY <1>5 DEF s
  <1>11. QED
    BY <1>1, <1>3, <1>5, <1>7, <1>8, <1>9, <1>10, MoveKeeps

\* A power loss undoes moves out of the way, or into place, but not both.
LEMMA PowerLossKeeps ==
  ASSUME RestoreInv, NEW lost \in SUBSET Names, NEW m \in {marker, lasting}, PowerLoss(lost, m)
  PROVE  RestoreInv'
  <1> DEFINE moved == {x \in lost : data[x] = None}
  <1>1. /\ outages < MaxOutages /\ outages' = outages + 1 /\ lost \subseteq unsynced
        /\ data' = [x \in Names |-> IF x \in moved THEN rollback[x]
                                   ELSE IF x \in lost THEN None ELSE data[x]]
        /\ rollback' = [x \in Names |-> IF x \in moved THEN None ELSE rollback[x]]
        /\ stage' = [n \in StageIds |->
                       IF n = marker.stage THEN stage[n] \cup (lost \ moved) ELSE stage[n]]
        /\ unsynced' = {} /\ marker' = m /\ lasting' = m
        /\ proc' = "down" /\ step' = "none" /\ filling' = 0
        /\ UNCHANGED <<prepared, standby, nextStage>>
    BY DEF PowerLoss, Stop
  <1>2. /\ RestoreTypeOK /\ NeverHalfRestored /\ Numbered
        /\ Sound(marker) /\ Sound(lasting) /\ Lingering /\ Undoable
    BY DEF RestoreInv
  <1>3. /\ m \in Markers /\ m.stage \in 0 .. MaxStages /\ m.stage <= nextStage /\ Sound(m)
        /\ marker.stage \in 0 .. MaxStages /\ marker.entries \subseteq Members
    BY <1>2 DEF RestoreTypeOK, Markers, Numbered
  <1>4. lost # {} => Applying /\ m = marker
    BY <1>1, <1>2 DEF Undoable, Lingering
  <1>5. /\ marker.phase = "prepared" => moved = lost
        /\ marker.phase # "prepared" =>
             moved = {} /\ \A x \in lost : x \in marker.entries /\ data[x] = marker.stage
    <2>1. marker.stage # None
      BY <1>3, NamesKnown
    <2>2. QED
      BY <1>1, <1>2, <2>1 DEF Undoable
  <1>6. lost \ moved \subseteq Members /\ moved \subseteq lost
    BY <1>3, <1>5
  <1>7. /\ data \in [Names -> Origins] /\ rollback \in [Names -> Origins]
        /\ stage \in [StageIds -> SUBSET Members] /\ outages' \in 0 .. MaxOutages
    BY <1>1, <1>2, NamesKnown DEF RestoreTypeOK
  <1> HIDE DEF moved
  <1>8. /\ data' \in [Names -> Origins] /\ rollback' \in [Names -> Origins]
        /\ stage' \in [StageIds -> SUBSET Members]
        /\ \A x \in Names : data'[x] \in {None, data[x], rollback[x]} /\ rollback'[x] \in {None, rollback[x]}
    BY <1>1, <1>6, <1>7, NamesKnown
  <1>9. RestoreTypeOK'
    BY <1>1, <1>2, <1>3, <1>7, <1>8, NamesKnown DEF RestoreTypeOK
  <1>10. lost = {} => UNCHANGED <<data, rollback, stage>>
    <2>1. ASSUME lost = {} PROVE \A x \in Names : data'[x] = data[x] /\ rollback'[x] = rollback[x]
      BY <1>1, <1>6, <2>1
    <2>2. ASSUME lost = {} PROVE \A n \in StageIds : stage'[n] = stage[n]
      BY <1>1, <1>6, <2>2
    <2>3. QED
      BY <1>7, <1>8, <2>1, <2>2
  <1>11. NeverHalfRestored'
    <2>1. CASE ~Applying
      <3>1. lost = {} /\ OfOneOrigin
        BY <1>2, <1>4, <2>1 DEF NeverHalfRestored, Whole, CanFinish
      <3>2. UNCHANGED <<data, rollback, stage>>
        BY <1>10, <3>1
      <3>3. CASE m.phase = "prepared" /\ ~m.rollback
        BY <1>1, <3>1, <3>2, <3>3 DEF NeverHalfRestored, Whole, OfOneOrigin, Applying
      <3>4. CASE ~(m.phase = "prepared" /\ ~m.rollback)
        <4>1. /\ m = lasting /\ lasting.phase = "installed" /\ lasting.stage # 0
              /\ \A x \in lasting.entries : data[x] = lasting.stage
              /\ \A x \in Names : data[x] \in {None, lasting.stage}
              /\ stage[lasting.stage] \cap lasting.entries = {}
          BY <1>2, <2>1, <3>4 DEF Lingering, Applying
        <4>2. QED
          BY <1>1, <3>2, <4>1 DEF NeverHalfRestored, CanFinish, Applying
      <3>5. QED
        BY <3>3, <3>4
    <2>2. CASE Applying
      <3>1. m = marker /\ CanFinish
        BY <1>2, <2>2 DEF NeverHalfRestored, Whole, Lingering
      <3>2. Applying' /\ proc' # "live"
        BY <1>1, <2>2, <3>1 DEF Applying
      <3>3. CASE marker.phase = "prepared"
        <4>1. \A x \in Names : data'[x] # marker.stage
          BY <1>2, <1>3, <1>8, <3>1, <3>3, NamesKnown DEF Sound, CanFinish
        <4>2. marker.stage \in StageIds => stage'[marker.stage] = stage[marker.stage]
          BY <1>1, <1>5, <3>3
        <4>3. marker.stage \in StageIds /\ marker.entries \subseteq Names
          BY <1>3, <3>1, NamesKnown DEF CanFinish
        <4>4. QED
          BY <1>1, <3>1, <3>2, <3>3, <4>1, <4>2, <4>3 DEF NeverHalfRestored, CanFinish
      <3>4. CASE marker.phase = "moved"
        <4>1. marker.stage \in StageIds /\ marker.entries \subseteq Names /\ marker.stage # None
          BY <1>3, <3>1, NamesKnown DEF CanFinish
        <4>2. stage'[marker.stage] = stage[marker.stage] \cup lost
          BY <1>1, <1>5, <3>4, <4>1
        <4>3. \A x \in Names : data'[x] = IF x \in lost THEN None ELSE data[x]
          BY <1>1, <1>5, <3>4
        <4>4. \A x \in marker.entries : (x \in stage'[marker.stage]) # (data'[x] = marker.stage)
          BY <1>5, <3>1, <3>4, <4>1, <4>2, <4>3 DEF CanFinish
        <4>5. \A x \in Names : data'[x] \in {None, marker.stage}
          BY <3>1, <3>4, <4>3 DEF CanFinish
        <4>6. QED
          BY <1>1, <3>1, <3>2, <3>4, <4>4, <4>5 DEF NeverHalfRestored, CanFinish
      <3>5. CASE marker.phase = "installed"
        <4>1. lost = {}
          BY <1>1, <1>2, <3>5 DEF Undoable
        <4>2. QED
          BY <1>1, <1>10, <3>1, <3>2, <4>1 DEF NeverHalfRestored, CanFinish
      <3>6. QED
        BY <1>2, <3>3, <3>4, <3>5 DEF RestoreTypeOK, Markers
    <2>3. QED
      BY <2>1, <2>2
  <1>12. Numbered'
    <2>1. nextStage \in 0 .. MaxStages /\ \A x \in Names : data[x] <= nextStage /\ rollback[x] <= nextStage
      BY <1>2 DEF RestoreTypeOK, Numbered
    <2>2. \A x \in Names : data'[x] <= nextStage /\ rollback'[x] <= nextStage
      BY <1>8, <2>1, NamesKnown
    <2>3. lost \ moved # {} => marker.stage <= nextStage
      BY <1>2 DEF Numbered
    <2>4. ASSUME NEW n \in StageIds, n > nextStage PROVE stage'[n] = {}
      <3>1. n # marker.stage
        BY <1>2, <1>3, <2>1, <2>4, NamesKnown DEF Numbered
      <3>2. QED
        BY <1>1, <1>2, <2>4, <3>1 DEF Numbered
    <2>5. QED
      BY <1>1, <1>3, <2>1, <2>2, <2>4 DEF Numbered
  <1>13. Sound(m)'
    <2>1. CASE m.stage # 0 /\ m.phase = "prepared"
      <3>1. \A x \in Names : data[x] # m.stage /\ rollback[x] # m.stage
        BY <1>3, <2>1 DEF Sound
      <3>2. \A x \in Names : data'[x] # m.stage /\ rollback'[x] # m.stage
        <4>1. m.stage # None
          BY <1>3, NamesKnown
        <4>2. QED
          BY <1>8, <2>1, <3>1, <4>1
      <3>3. QED
        BY <1>1, <1>3, <3>2 DEF Sound
    <2>2. CASE ~(m.stage # 0 /\ m.phase = "prepared")
      BY <1>1, <1>3, <2>2 DEF Sound
    <2>3. QED
      BY <2>1, <2>2
  <1>14. Sound(marker)' /\ Sound(lasting)'
    BY <1>1, <1>13 DEF Sound
  <1>15. Lingering'
    BY <1>1, <1>3 DEF Lingering, Applying, Markers
  <1>16. Undoable' /\ StepsAgree' /\ FillingFresh'
    BY <1>1 DEF Undoable, StepsAgree, FillingFresh
  <1>17. QED
    BY <1>9, <1>11, <1>12, <1>14, <1>15, <1>16 DEF RestoreInv


LEMMA RestoreStepInv == RestoreInv /\ [RestoreNext]_rvars => RestoreInv'
  <1>1. ASSUME RestoreInv, UNCHANGED rvars PROVE RestoreInv'
    BY <1>1 DEF rvars, RestoreInv, RestoreTypeOK, NeverHalfRestored, Whole, OfOneOrigin, CanFinish,
       Applying, Numbered, FillingFresh, Sound, Lingering, Undoable, StepsAgree
  <1>2. QED
    BY <1>1, BeginExtractKeeps, StartStandbyKeeps, StartPortKeeps, CrashKeeps, ReadMarkerKeeps,
       PrepareDatabaseKeeps, ExtractKeeps, ExtractFailsKeeps, MarkPendingKeeps, ShutdownKeeps,
       StandbySweepKeeps, DiscardStageKeeps, DiscardMarkerKeeps, ChooseRollbackKeeps, MoveOldKeeps,
       OldMovedKeeps, InstallNewKeeps, NewInstalledKeeps, RotateSecretKeeps, ClearStageKeeps,
       RemoveMarkerKeeps, SyncRemovalKeeps, OpenStoreKeeps, ServeKeeps, PowerLossKeeps
       DEF RestoreNext

-----------------------------------------------------------------------------
\* apply_pending_restore: through crashes, power losses and boots that give up,
\* a port serves one whole origin, and whatever else is found in the directory
\* the next boot can finish.
THEOREM RestoreKept == RestoreSpec => []RestoreHolds
  <1>1. RestoreInit => RestoreInv
    <2> SUFFICES ASSUME RestoreInit PROVE RestoreInv
      OBVIOUS
    <2>1. \A x \in Names : data[x] \in {None, 0} /\ rollback[x] = None
      BY DEF RestoreInit, Nowhere
    <2>2. RestoreTypeOK
      <3>1. data \in [Names -> Origins] /\ rollback \in [Names -> Origins]
        BY NamesKnown DEF RestoreInit, Nowhere
      <3>2. /\ marker \in Markers /\ lasting \in Markers /\ stage \in [StageIds -> SUBSET Members]
            /\ 0 \in 0 .. MaxStages /\ 0 \in 0 .. MaxOutages
        BY NamesKnown DEF RestoreInit
      <3>3. QED
        BY <3>1, <3>2 DEF RestoreInit, RestoreTypeOK
    <2>3. NeverHalfRestored
      BY <2>1, NamesKnown DEF RestoreInit, Nowhere, NeverHalfRestored, Whole, OfOneOrigin, Applying
    <2> QED BY <2>1, <2>2, <2>3, NamesKnown DEF RestoreInit, RestoreInv, Numbered, FillingFresh, Sound,
          Lingering, Undoable, StepsAgree, Applying
  <1>2. RestoreInv => RestoreHolds
    BY DEF RestoreInv, RestoreHolds
  <1>3. QED
    BY <1>1, <1>2, RestoreStepInv, PTL DEF RestoreSpec
==============================================================================
