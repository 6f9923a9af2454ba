--------------------------- MODULE DeliveryProofs ---------------------------
(***************************************************************************)
(* Proofs about deliveries: the jobs that prepare and publish them, for     *)
(* every number of jobs, loops, destinations, revisions of the policy and   *)
(* restarts, and the client that receives one.                              *)
(***************************************************************************)
EXTENDS Jobs, Fetch, SumsProofs, SequenceTheorems

\* The delivery jobs.

\* What a row promises: nothing is known of a delivery before it has a
\* manifest, a destination recorded as complete holds its completion
\* document, an export that is still owed is owed to some destination, and
\* whatever shows or ships the files has the approval of its policy.
RowOK(j) ==
  /\ state[j] = "none" => j \notin manifest /\ origin[j] = NoUpload
  /\ j \notin manifest =>
       /\ exports[j] = {} /\ done[j] = {} /\ j \notin released
       /\ state[j] \notin {"awaiting_approval", "exporting", "retrying", "ready"}
  /\ state[j] \in {"queued", "preparing"} => j \notin manifest
  /\ state[j] = "awaiting_approval" => done[j] = {}
  /\ done[j] \subseteq exports[j]
  /\ state[j] = "ready" => PolicyOf(j).dests \subseteq done[j]
  /\ state[j] \in {"exporting", "retrying", "failed"} /\ j \in manifest =>
       ~(PolicyOf(j).dests \subseteq done[j])
  /\ \/ state[j] \in {"exporting", "retrying", "ready"} \/ j \in released \/ exports[j] # {}
     \/ state[j] = "failed" /\ j \in manifest
     => (PolicyOf(j).approval => j \in approved)
RowInv == \A j \in Jobs : RowOK(j)

\* What a loop relies on while it works on a delivery.
SlotOK(s) ==
  /\ Busy(s) => task[s] \in Jobs /\ try[s] <= attempts[task[s]] /\ state[task[s]] # "none"
  /\ phase[s] = "export" => task[s] \in manifest
  /\ phase[s] = "export" /\ Current(s) => state[task[s]] # "awaiting_approval"
  /\ phase[s] = "export" /\ Current(s) /\ state[task[s]] = "exporting" =>
       \A d \in PolicyOf(task[s]).dests \ done[task[s]] : leg[s][d] # "none"
  /\ phase[s] = "export" => \A d \in Destinations :
       /\ leg[s][d] \in {"cleared", "written"} =>
            (PolicyOf(task[s]).approval => task[s] \in approved)
       /\ leg[s][d] = "written" => d \in exports[task[s]]
SlotInv == \A s \in Slots : SlotOK(s)

\* Owners are past or present processes, and what the present one runs has
\* a loop on it.
OwnerInv ==
  /\ boot >= 1 /\ \A j \in Jobs : owner[j] <= boot
  /\ NoStrandedJob

\* The steps that give a delivery the received package it is made from.
TakesPackage ==
  \/ \E u \in Uploads, j \in Jobs : QueueReceived(u, j)
  \/ \E j, k \in Jobs : Reprocess(j, k)

\* What the present process runs, and the step that adds to it.
RunningHere == {j \in Jobs : owner[j] = boot /\ Running(j)}
ClaimStep == \E s \in Slots, j \in Jobs : Claim(s, j)

\* A payload on disk, or about to be copied, is of a delivery that reserved
\* its bytes and keeps them: it is not made from a received package, and
\* what is being retired has no loop on it.
HeldInv ==
  /\ \A j \in frozen : reserved[j] > 0 /\ ~Received(j) /\ state[j] # "none"
  /\ \A s \in Slots : phase[s] = "copy" => reserved[task[s]] > 0 /\ ~Received(task[s])
  /\ retirer # NoJob => state[retirer] = "retiring" /\ \A s \in Slots : Busy(s) => task[s] # retirer

\* Deliveries that may still run, the step that adds to what they reserve,
\* and what every other step does.
Live == {j \in Jobs : state[j] # "suspended"}
ReserveStep == \E s \in Slots, size \in Sizes : Reserve(s, size)
Lowers == /\ Live' \subseteq Live
          /\ \A j \in Jobs : reserved'[j] <= reserved[j]
BudgetInv == Total(reserved, Live) <= Budget

-----------------------------------------------------------------------------
\* A job has a policy of the declared shape.
LEMMA PolicyType ==
  ASSUME TypeOK, NEW j \in Jobs
  PROVE  PolicyOf(j) \in [approval : BOOLEAN, local : BOOLEAN, dests : SUBSET Destinations]
  BY JobsAssumption DEF TypeOK, PolicyOf

\* Every step keeps the types.
LEMMA TypeInductive ==
  ASSUME TypeOK, SlotInv, [Next]_vars
  PROVE  TypeOK'
  <1> USE JobsAssumption DEF TypeOK, States
  <1>0. CASE UNCHANGED vars
    BY <1>0 DEF vars, row, disk, loops
  <1>1. ASSUME NEW j \in Jobs, EnqueueJob(j) PROVE TypeOK'
    BY <1>1 DEF EnqueueJob, disk, loops, Set
  <1>2. ASSUME NEW j \in Jobs, TimePasses(j) PROVE TypeOK'
    BY <1>2 DEF TimePasses, disk, loops
  <1>3. ASSUME NEW j \in Jobs, Approve(j) PROVE TypeOK'
    BY <1>3 DEF Approve, disk, loops, Set
  <1>4. ASSUME NEW j \in Jobs, Cancel(j) PROVE TypeOK'
    BY <1>4 DEF Cancel, disk, loops, Set
  <1>5. ASSUME NEW j \in Jobs, Retry(j) PROVE TypeOK'
    <2>1. rev' \in [Jobs -> 1 .. MaxRevision] /\ reserved' \in [Jobs -> Nat]
      BY <1>5 DEF Retry, Set
    <2>2. state' \in [Jobs -> States]
      BY <1>5 DEF Retry, Set
    <2>3. attempts' \in [Jobs -> Nat] /\ base' \in [Jobs -> Nat] /\ owner' \in [Jobs -> Nat]
      BY <1>5 DEF Retry, Set
    <2> QED BY <1>5, <2>1, <2>2, <2>3 DEF Retry, disk, loops
  <1>6. ASSUME NEW j \in Jobs, GrantEnds(j) PROVE TypeOK'
    BY <1>6 DEF GrantEnds, row, disk, loops, Set
  <1>7. ASSUME NEW j \in Jobs, Deauthorize(j) PROVE TypeOK'
    BY <1>7 DEF Deauthorize, row, disk, loops
  <1>8. ASSUME NEW u \in Uploads, NEW j \in Jobs, QueueReceived(u, j) PROVE TypeOK'
    <2>0. state' = Set(state, j, "queued") \/ state' = Set(state, j, "failed")
      BY <1>8 DEF QueueReceived
    <2>1. state' \in [Jobs -> States]
      BY <2>0 DEF Set
    <2> QED BY <1>8, <2>1 DEF QueueReceived, disk, loops, Set
  <1>9. ASSUME NEW j \in Jobs, NEW k \in Jobs, Reprocess(j, k) PROVE TypeOK'
    BY <1>9 DEF Reprocess, disk, loops, Set
  <1>10. ASSUME NEW u \in Uploads, RevokeRoute(u) PROVE TypeOK'
    BY <1>10 DEF RevokeRoute, disk, loops
  <1>11. ASSUME NEW s \in Slots, NEW j \in Jobs, Claim(s, j) PROVE TypeOK'
    <2>0. \/ state' = Set(state, j, "failed") \/ state' = Set(state, j, "exporting")
          \/ state' = Set(state, j, "preparing")
      BY <1>11 DEF Claim
    <2>1. state' \in [Jobs -> States]
      BY <2>0 DEF Set
    <2>2. attempts' \in [Jobs -> Nat] /\ owner' \in [Jobs -> Nat]
      <3>1. attempts' = Set(attempts, j, attempts[j] + 1) /\ owner' = Set(owner, j, boot)
        BY <1>11 DEF Claim
      <3> QED BY <3>1 DEF Set
    <2>3. CASE UNCHANGED loops
      BY <1>11, <2>1, <2>3, <2>2 DEF Claim, disk, loops
    <2>4. CASE ~UNCHANGED loops
      <3>1. /\ phase' = Set(phase, s, IF j \in manifest THEN "export" ELSE "prepare")
            /\ task' = Set(task, s, j) /\ try' = Set(try, s, attempts[j] + 1)
            /\ leg' = Set(leg, s, [d \in Destinations |->
                 IF j \in manifest /\ d \in PolicyOf(j).dests \ done[j] THEN "pending" ELSE "none"])
        BY <1>11, <2>4 DEF Claim
      <3> QED BY <1>11, <2>1, <2>2, <3>1 DEF Claim, disk, Set
    <2> QED BY <2>3, <2>4
  <1>12. ASSUME NEW s \in Slots, NEW size \in Sizes, Reserve(s, size) PROVE TypeOK'
    BY <1>12 DEF Reserve, disk, Goto, Set
  <1>13. ASSUME NEW s \in Slots, FreezeFiles(s) PROVE TypeOK'
    <2>1. task[s] \in Jobs
      BY <1>13 DEF FreezeFiles, SlotInv, SlotOK, Busy
    <2> QED BY <1>13, <2>1 DEF FreezeFiles, row, Goto, Set
  <1>14. ASSUME NEW s \in Slots, PublishInventory(s) PROVE TypeOK'
    <2>1. task[s] \in Jobs
      BY <1>14 DEF PublishInventory, SlotInv, SlotOK, Busy
    <2> QED BY <1>14, <2>1 DEF PublishInventory, row, Goto, Set
  <1>15. ASSUME NEW s \in Slots, FilesAtHand(s) PROVE TypeOK'
    BY <1>15 DEF FilesAtHand, row, disk, Goto, Set
  <1>16. ASSUME NEW s \in Slots, PrepareFails(s) PROVE TypeOK'
    BY <1>16 DEF PrepareFails, row, disk, Goto, Set
  <1>17. ASSUME NEW s \in Slots, FinishJob(s) PROVE TypeOK'
    BY <1>17 DEF FinishJob, disk, FreeSlot, Set, NoLegs
  <1>18. ASSUME NEW s \in Slots, NEW d \in Destinations, LegCleared(s, d) PROVE TypeOK'
    BY <1>18 DEF LegCleared, row, disk, SetLeg
  <1>19. ASSUME NEW s \in Slots, NEW d \in Destinations, LegWritten(s, d) PROVE TypeOK'
    BY <1>19 DEF LegWritten, row, SetLeg, Set
  <1>20. ASSUME NEW s \in Slots, NEW d \in Destinations, LegCompleted(s, d) PROVE TypeOK'
    BY <1>20 DEF LegCompleted, disk, SetLeg, Set
  <1>21. ASSUME NEW s \in Slots, NEW d \in Destinations, LegFails(s, d) PROVE TypeOK'
    BY <1>21 DEF LegFails, row, disk, SetLeg
  <1>22. ASSUME NEW s \in Slots, ExportEnds(s) PROVE TypeOK'
    <2>1. CASE Goto(s, "fail")
      BY <1>22, <2>1 DEF ExportEnds, row, disk, Goto, Set
    <2>2. CASE FreeSlot(s)
      BY <1>22, <2>2 DEF ExportEnds, row, disk, FreeSlot, Set, NoLegs
    <2> QED BY <1>22, <2>1, <2>2 DEF ExportEnds
  <1>23. ASSUME NEW s \in Slots, FailJob(s) PROVE TypeOK'
    BY <1>23 DEF FailJob, disk, FreeSlot, Set, NoLegs
  <1>24. CASE SaveProject
    BY <1>24 DEF SaveProject, row, disk, loops
  <1>25. ASSUME NEW j \in Jobs, ClaimRetirement(j) PROVE TypeOK'
    BY <1>25 DEF ClaimRetirement, disk, loops, Set
  <1>26. CASE RemoveSnapshot
    BY <1>26 DEF RemoveSnapshot, row, loops
  <1>27. CASE RetirementFails
    BY <1>27 DEF RetirementFails, row, loops
  <1>28. CASE CompleteRetirement
    BY <1>28 DEF CompleteRetirement, disk, loops, Set
  <1>29. CASE Boot
    BY <1>29 DEF Boot, row, disk, StopLoops, NoLegs
  <1>30. CASE BootRestored
    BY <1>30 DEF BootRestored, disk, StopLoops, NoLegs
  <1> QED BY <1>0, <1>1, <1>2, <1>3, <1>4, <1>5, <1>6, <1>7, <1>8, <1>9, <1>10, <1>11,
      <1>12, <1>13, <1>14, <1>15, <1>16, <1>17, <1>18, <1>19, <1>20, <1>21, <1>22, <1>23,
      <1>24, <1>25, <1>26, <1>27, <1>28, <1>29, <1>30 DEF Next, Operate, Work, Prepare,
      Export, Retire

\* Every step keeps what the rows say of approval and delivery.
LEMMA RowInductive ==
  ASSUME TypeOK, TypeOK', RowInv, SlotInv, [Next]_vars
  PROVE  RowInv'
  <1> USE  DEF TypeOK, RowInv, RowOK
  <1>0. CASE UNCHANGED vars
    BY <1>0 DEF vars, row, disk, loops, PolicyOf
  <1>1. ASSUME NEW j \in Jobs, EnqueueJob(j) PROVE RowInv'
    BY <1>1 DEF EnqueueJob, disk, loops, Set, PolicyOf
  <1>2. ASSUME NEW j \in Jobs, TimePasses(j) PROVE RowInv'
    BY <1>2 DEF TimePasses, disk, loops, PolicyOf
  <1>3. ASSUME NEW j \in Jobs, Approve(j) PROVE RowInv'
    BY <1>3 DEF Approve, disk, loops, Set, PolicyOf
  <1>4. ASSUME NEW j \in Jobs, Cancel(j) PROVE RowInv'
    BY <1>4 DEF Cancel, disk, loops, Set, PolicyOf
  <1>5. ASSUME NEW j \in Jobs, Retry(j) PROVE RowInv'
    <2> SUFFICES ASSUME NEW i \in Jobs PROVE RowOK(i)'
      OBVIOUS
    <2>1. CASE i # j
      BY <1>5, <2>1 DEF Retry, disk, Set, PolicyOf
    <2>2. CASE i = j /\ j \in manifest
      BY <1>5, <2>2 DEF Retry, disk, Set, Received, PolicyOf
    <2>3. CASE i = j /\ j \notin manifest
      <3>1. state'[j] = "queued"
        BY <1>5, <2>3 DEF Retry, Set
      <3> QED BY <1>5, <2>3, <3>1 DEF Retry, disk
    <2> QED BY <2>1, <2>2, <2>3
  <1>6. ASSUME NEW j \in Jobs, GrantEnds(j) PROVE RowInv'
    BY <1>6 DEF GrantEnds, row, disk, loops, Set, PolicyOf
  <1>7. ASSUME NEW j \in Jobs, Deauthorize(j) PROVE RowInv'
    BY <1>7 DEF Deauthorize, row, disk, loops, PolicyOf
  <1>8. ASSUME NEW u \in Uploads, NEW j \in Jobs, QueueReceived(u, j) PROVE RowInv'
    BY <1>8 DEF QueueReceived, disk, loops, Set, PolicyOf
  <1>9. ASSUME NEW j \in Jobs, NEW k \in Jobs, Reprocess(j, k) PROVE RowInv'
    BY <1>9 DEF Reprocess, disk, loops, Set, PolicyOf
  <1>10. ASSUME NEW u \in Uploads, RevokeRoute(u) PROVE RowInv'
    BY <1>10 DEF RevokeRoute, disk, loops, PolicyOf
  <1>11. ASSUME NEW s \in Slots, NEW j \in Jobs, Claim(s, j) PROVE RowInv'
    <2> SUFFICES ASSUME NEW i \in Jobs PROVE RowOK(i)'
      OBVIOUS
    <2>1. CASE i # j
      <3>1. state'[i] = state[i]
        BY <1>11, <2>1 DEF Claim, Set
      <3> QED BY <1>11, <2>1, <3>1 DEF Claim, disk, PolicyOf
    <2>2. CASE i = j
      <3>1. state[j] \in {"queued", "retrying", "preparing", "exporting"}
        BY <1>11 DEF Claim, Claimable, Running
      <3>2. \/ state'[j] = "failed"
            \/ j \in manifest /\ state'[j] = "exporting"
            \/ j \notin manifest /\ state'[j] = "preparing"
        BY <1>11 DEF Claim, Set
      <3> QED BY <1>11, <2>2, <3>1, <3>2 DEF Claim, disk, PolicyOf
    <2> QED BY <2>1, <2>2
  <1>12. ASSUME NEW s \in Slots, NEW size \in Sizes, Reserve(s, size) PROVE RowInv'
    BY <1>12 DEF Reserve, disk, Goto, Set, PolicyOf
  <1>13. ASSUME NEW s \in Slots, FreezeFiles(s) PROVE RowInv'
    BY <1>13 DEF FreezeFiles, row, Goto, Set, PolicyOf
  <1>14. ASSUME NEW s \in Slots, PublishInventory(s) PROVE RowInv'
    BY <1>14 DEF PublishInventory, row, Goto, Set, PolicyOf
  <1>15. ASSUME NEW s \in Slots, FilesAtHand(s) PROVE RowInv'
    BY <1>15 DEF FilesAtHand, row, disk, Goto, Set, PolicyOf
  <1>16. ASSUME NEW s \in Slots, PrepareFails(s) PROVE RowInv'
    BY <1>16 DEF PrepareFails, row, disk, Goto, Set, PolicyOf
  <1>17. ASSUME NEW s \in Slots, FinishJob(s) PROVE RowInv'
    BY <1>17 DEF FinishJob, disk, FreeSlot, Set, NoLegs, PolicyOf
  <1>18. ASSUME NEW s \in Slots, NEW d \in Destinations, LegCleared(s, d) PROVE RowInv'
    BY <1>18 DEF LegCleared, row, disk, SetLeg, ExportAuthorized, Current, PolicyOf
  <1>19. ASSUME NEW s \in Slots, NEW d \in Destinations, LegWritten(s, d) PROVE RowInv'
    BY <1>19 DEF LegWritten, row, SetLeg, Set, SlotInv, SlotOK, PolicyOf, Current, Busy
  <1>20. ASSUME NEW s \in Slots, NEW d \in Destinations, LegCompleted(s, d) PROVE RowInv'
    BY <1>20 DEF LegCompleted, disk, SetLeg, Set, ExportAuthorized, Current, SlotInv,
        SlotOK, PolicyOf, Busy
  <1>21. ASSUME NEW s \in Slots, NEW d \in Destinations, LegFails(s, d) PROVE RowInv'
    BY <1>21 DEF LegFails, row, disk, SetLeg, PolicyOf
  <1>22. ASSUME NEW s \in Slots, ExportEnds(s) PROVE RowInv'
    BY <1>22 DEF ExportEnds, row, disk, Goto, FreeSlot, Set, NoLegs, PolicyOf
  <1>23. ASSUME NEW s \in Slots, FailJob(s) PROVE RowInv'
    BY <1>23 DEF FailJob, disk, FreeSlot, Set, NoLegs, Current, Running, PolicyOf
  <1>24. CASE SaveProject
    BY <1>24 DEF SaveProject, row, disk, loops, PolicyOf
  <1>25. ASSUME NEW j \in Jobs, ClaimRetirement(j) PROVE RowInv'
    BY <1>25 DEF ClaimRetirement, disk, loops, Set, PolicyOf
  <1>26. CASE RemoveSnapshot
    BY <1>26 DEF RemoveSnapshot, row, loops, PolicyOf
  <1>27. CASE RetirementFails
    BY <1>27 DEF RetirementFails, row, loops, PolicyOf
  <1>28. CASE CompleteRetirement
    BY <1>28 DEF CompleteRetirement, disk, loops, Set, PolicyOf
  <1>29. CASE Boot
    BY <1>29 DEF Boot, row, disk, StopLoops, NoLegs, PolicyOf
  <1>30. CASE BootRestored
    BY <1>30 DEF BootRestored, disk, StopLoops, NoLegs, PolicyOf
  <1> QED BY <1>0, <1>1, <1>2, <1>3, <1>4, <1>5, <1>6, <1>7, <1>8, <1>9, <1>10, <1>11,
      <1>12, <1>13, <1>14, <1>15, <1>16, <1>17, <1>18, <1>19, <1>20, <1>21, <1>22, <1>23,
      <1>24, <1>25, <1>26, <1>27, <1>28, <1>29, <1>30 DEF Next, Operate, Work, Prepare,
      Export, Retire

\* Every step keeps what a loop relies on.
LEMMA SlotInductive ==
  ASSUME TypeOK, TypeOK', RowInv, SlotInv, [Next]_vars
  PROVE  SlotInv'
  <1> USE  DEF TypeOK, SlotInv, SlotOK
  <1>0. CASE UNCHANGED vars
    BY <1>0 DEF vars, row, disk, loops, Busy, Current, PolicyOf
  <1>1. ASSUME NEW j \in Jobs, EnqueueJob(j) PROVE SlotInv'
    BY <1>1 DEF EnqueueJob, disk, loops, Set, Busy, Current, PolicyOf
  <1>2. ASSUME NEW j \in Jobs, TimePasses(j) PROVE SlotInv'
    BY <1>2 DEF TimePasses, disk, loops, Busy, Current, PolicyOf
  <1>3. ASSUME NEW j \in Jobs, Approve(j) PROVE SlotInv'
    BY <1>3 DEF Approve, disk, loops, Set, Busy, Current, PolicyOf
  <1>4. ASSUME NEW j \in Jobs, Cancel(j) PROVE SlotInv'
    BY <1>4 DEF Cancel, disk, loops, Set, Busy, Current, PolicyOf
  <1>5. ASSUME NEW j \in Jobs, Retry(j) PROVE SlotInv'
    BY <1>5 DEF Retry, disk, loops, Set, Busy, Current, PolicyOf, Received
  <1>6. ASSUME NEW j \in Jobs, GrantEnds(j) PROVE SlotInv'
    BY <1>6 DEF GrantEnds, row, disk, loops, Set, Busy, Current, PolicyOf
  <1>7. ASSUME NEW j \in Jobs, Deauthorize(j) PROVE SlotInv'
    BY <1>7 DEF Deauthorize, row, disk, loops, Busy, Current, PolicyOf
  <1>8. ASSUME NEW u \in Uploads, NEW j \in Jobs, QueueReceived(u, j) PROVE SlotInv'
    BY <1>8 DEF QueueReceived, disk, loops, Set, Busy, Current, PolicyOf
  <1>9. ASSUME NEW j \in Jobs, NEW k \in Jobs, Reprocess(j, k) PROVE SlotInv'
    BY <1>9 DEF Reprocess, disk, loops, Set, Busy, Current, PolicyOf
  <1>10. ASSUME NEW u \in Uploads, RevokeRoute(u) PROVE SlotInv'
    BY <1>10 DEF RevokeRoute, disk, loops, Busy, Current, PolicyOf
  <1>11. ASSUME NEW s \in Slots, NEW j \in Jobs, Claim(s, j) PROVE SlotInv'
    <2> SUFFICES ASSUME NEW t \in Slots PROVE SlotOK(t)'
      OBVIOUS
    <2>1. CASE UNCHANGED <<phase[t], task[t], try[t], leg[t]>>
      <3>1. Busy(t) /\ task[t] = j => try[t] < attempts'[j]
        BY <1>11 DEF Claim, Set, Busy
      <3>2. \A i \in Jobs \ {j} : attempts'[i] = attempts[i] /\ state'[i] = state[i]
        BY <1>11 DEF Claim, Set
      <3>3. attempts'[j] = attempts[j] + 1 /\ state'[j] # "none"
        BY <1>11 DEF Claim, Set
      <3> QED BY <1>11, <2>1, <3>1, <3>2, <3>3 DEF Claim, disk, Busy, Current, PolicyOf
    <2>2. CASE /\ t = s /\ state'[j] = (IF j \in manifest THEN "exporting" ELSE "preparing")
               /\ phase'[s] = (IF j \in manifest THEN "export" ELSE "prepare")
               /\ task'[s] = j /\ try'[s] = attempts[j] + 1
               /\ leg'[s] = [d \in Destinations |->
                    IF j \in manifest /\ d \in PolicyOf(j).dests \ done[j] THEN "pending" ELSE "none"]
      <3>1. attempts'[j] = attempts[j] + 1
        BY <1>11 DEF Claim, Set
      <3>2. \A d \in PolicyOf(j).dests \ done[j] : d \in Destinations
        BY PolicyType
      <3>3. PolicyOf(j)' = PolicyOf(j) /\ done' = done
        BY <1>11 DEF Claim, PolicyOf
      <3>4. manifest' = manifest /\ \A d \in Destinations : leg'[s][d] \in {"pending", "none"}
        BY <1>11, <2>2 DEF Claim
      <3>5. CASE j \in manifest
        BY <2>2, <3>1, <3>2, <3>3, <3>4, <3>5 DEF Busy, Current, PolicyOf
      <3>6. CASE j \notin manifest
        BY <2>2, <3>1, <3>6 DEF Busy, Current
      <3> QED BY <3>5, <3>6
    <2>3. CASE t # s
      BY <1>11, <2>1, <2>3 DEF Claim, loops, Set
    <2>4. CASE t = s
      BY <1>11, <2>1, <2>2, <2>4 DEF Claim, loops, Set
    <2> QED BY <2>3, <2>4
  <1>12. ASSUME NEW s \in Slots, NEW size \in Sizes, Reserve(s, size) PROVE SlotInv'
    BY <1>12 DEF Reserve, disk, Goto, Set, Busy, Current, PolicyOf
  <1>13. ASSUME NEW s \in Slots, FreezeFiles(s) PROVE SlotInv'
    BY <1>13 DEF FreezeFiles, row, Goto, Set, Busy, Current, PolicyOf
  <1>14. ASSUME NEW s \in Slots, PublishInventory(s) PROVE SlotInv'
    BY <1>14 DEF PublishInventory, row, Goto, Set, Busy, Current, PolicyOf
  <1>15. ASSUME NEW s \in Slots, FilesAtHand(s) PROVE SlotInv'
    BY <1>15 DEF FilesAtHand, row, disk, Goto, Set, Busy, Current, PolicyOf
  <1>16. ASSUME NEW s \in Slots, PrepareFails(s) PROVE SlotInv'
    BY <1>16 DEF PrepareFails, row, disk, Goto, Set, Busy, Current, PolicyOf
  <1>17. ASSUME NEW s \in Slots, FinishJob(s) PROVE SlotInv'
    BY <1>17 DEF FinishJob, disk, FreeSlot, Set, NoLegs, Busy, Current, PolicyOf, RowInv,
        RowOK
  <1>18. ASSUME NEW s \in Slots, NEW d \in Destinations, LegCleared(s, d) PROVE SlotInv'
    BY <1>18 DEF LegCleared, row, disk, SetLeg, Busy, Current, PolicyOf, ExportAuthorized,
        RowInv, RowOK
  <1>19. ASSUME NEW s \in Slots, NEW d \in Destinations, LegWritten(s, d) PROVE SlotInv'
    BY <1>19 DEF LegWritten, row, SetLeg, Set, Busy, Current, PolicyOf
  <1>20. ASSUME NEW s \in Slots, NEW d \in Destinations, LegCompleted(s, d) PROVE SlotInv'
    BY <1>20 DEF LegCompleted, disk, SetLeg, Set, Busy, Current, PolicyOf,
        ExportAuthorized
  <1>21. ASSUME NEW s \in Slots, NEW d \in Destinations, LegFails(s, d) PROVE SlotInv'
    BY <1>21 DEF LegFails, row, disk, SetLeg, Busy, Current, PolicyOf
  <1>22. ASSUME NEW s \in Slots, ExportEnds(s) PROVE SlotInv'
    <2>1. CASE Goto(s, "fail")
      BY <1>22, <2>1 DEF ExportEnds, row, disk, Goto, Set, Busy, Current, PolicyOf
    <2>2. CASE FreeSlot(s)
      BY <1>22, <2>2 DEF ExportEnds, row, disk, FreeSlot, Set, NoLegs, Busy, Current, PolicyOf
    <2> QED BY <1>22, <2>1, <2>2 DEF ExportEnds
  <1>23. ASSUME NEW s \in Slots, FailJob(s) PROVE SlotInv'
    BY <1>23 DEF FailJob, disk, FreeSlot, Set, NoLegs, Busy, Current, PolicyOf, Running
  <1>24. CASE SaveProject
    BY <1>24 DEF SaveProject, row, disk, loops, Busy, Current, PolicyOf
  <1>25. ASSUME NEW j \in Jobs, ClaimRetirement(j) PROVE SlotInv'
    BY <1>25 DEF ClaimRetirement, disk, loops, Set, Busy, Current, PolicyOf
  <1>26. CASE RemoveSnapshot
    BY <1>26 DEF RemoveSnapshot, row, loops, Busy, Current, PolicyOf
  <1>27. CASE RetirementFails
    BY <1>27 DEF RetirementFails, row, loops, Busy, Current, PolicyOf
  <1>28. CASE CompleteRetirement
    BY <1>28 DEF CompleteRetirement, disk, loops, Set, Busy, Current, PolicyOf
  <1>29. CASE Boot
    BY <1>29 DEF Boot, row, disk, StopLoops, NoLegs, Busy, Current, PolicyOf
  <1>30. CASE BootRestored
    BY <1>30 DEF BootRestored, disk, StopLoops, NoLegs, Busy, Current, PolicyOf
  <1> QED BY <1>0, <1>1, <1>2, <1>3, <1>4, <1>5, <1>6, <1>7, <1>8, <1>9, <1>10, <1>11,
      <1>12, <1>13, <1>14, <1>15, <1>16, <1>17, <1>18, <1>19, <1>20, <1>21, <1>22, <1>23,
      <1>24, <1>25, <1>26, <1>27, <1>28, <1>29, <1>30 DEF Next, Operate, Work, Prepare,
      Export, Retire

\* Every step leaves each job this process runs with a loop on it.
LEMMA OwnerInductive ==
  ASSUME TypeOK, TypeOK', RowInv, SlotInv, OwnerInv, [Next]_vars
  PROVE  OwnerInv'
  <1> USE  DEF TypeOK, OwnerInv, NoStrandedJob, Running, Busy
  <1>0. CASE UNCHANGED vars
    BY <1>0 DEF vars, row, disk, loops
  <1>1. ASSUME NEW j \in Jobs, EnqueueJob(j) PROVE OwnerInv'
    BY <1>1 DEF EnqueueJob, disk, loops, Set
  <1>2. ASSUME NEW j \in Jobs, TimePasses(j) PROVE OwnerInv'
    BY <1>2 DEF TimePasses, disk, loops
  <1>3. ASSUME NEW j \in Jobs, Approve(j) PROVE OwnerInv'
    BY <1>3 DEF Approve, disk, loops, Set
  <1>4. ASSUME NEW j \in Jobs, Cancel(j) PROVE OwnerInv'
    BY <1>4 DEF Cancel, disk, loops, Set
  <1>5. ASSUME NEW j \in Jobs, Retry(j) PROVE OwnerInv'
    BY <1>5 DEF Retry, disk, loops, Set, Received
  <1>6. ASSUME NEW j \in Jobs, GrantEnds(j) PROVE OwnerInv'
    BY <1>6 DEF GrantEnds, row, disk, loops, Set
  <1>7. ASSUME NEW j \in Jobs, Deauthorize(j) PROVE OwnerInv'
    BY <1>7 DEF Deauthorize, row, disk, loops
  <1>8. ASSUME NEW u \in Uploads, NEW j \in Jobs, QueueReceived(u, j) PROVE OwnerInv'
    BY <1>8 DEF QueueReceived, disk, loops, Set
  <1>9. ASSUME NEW j \in Jobs, NEW k \in Jobs, Reprocess(j, k) PROVE OwnerInv'
    BY <1>9 DEF Reprocess, disk, loops, Set
  <1>10. ASSUME NEW u \in Uploads, RevokeRoute(u) PROVE OwnerInv'
    BY <1>10 DEF RevokeRoute, disk, loops
  <1>11. ASSUME NEW s \in Slots, NEW j \in Jobs, Claim(s, j) PROVE OwnerInv'
    <2>1. boot' = boot /\ \A i \in Jobs : owner'[i] <= boot'
      BY <1>11 DEF Claim, Set
    <2>2. ASSUME NEW i \in Jobs \ {j}, Running(i)', owner'[i] = boot'
          PROVE  \E q \in Slots : Busy(q)' /\ task'[q] = i /\ try'[q] = attempts'[i]
      <3>1. state'[i] = state[i] /\ owner'[i] = owner[i] /\ attempts'[i] = attempts[i]
        BY <1>11 DEF Claim, Set
      <3>2. PICK q \in Slots : phase[q] # "idle" /\ task[q] = i /\ try[q] = attempts[i]
        BY <2>1, <2>2, <3>1
      <3>3. q # s
        BY <1>11, <3>2 DEF Claim
      <3>4. phase'[q] = phase[q] /\ task'[q] = task[q] /\ try'[q] = try[q]
        BY <1>11, <3>3 DEF Claim, loops, Set
      <3> QED BY <3>1, <3>2, <3>4
    <2>3. ASSUME Running(j)'
          PROVE  phase'[s] # "idle" /\ task'[s] = j /\ try'[s] = attempts'[j]
      <3>1. state'[j] # "failed"
        BY <2>3
      <3> QED BY <1>11, <3>1 DEF Claim, loops, Set
    <2> QED BY <2>1, <2>2, <2>3
  <1>12. ASSUME NEW s \in Slots, NEW size \in Sizes, Reserve(s, size) PROVE OwnerInv'
    BY <1>12 DEF Reserve, disk, Goto, Set
  <1>13. ASSUME NEW s \in Slots, FreezeFiles(s) PROVE OwnerInv'
    BY <1>13 DEF FreezeFiles, row, Goto, Set
  <1>14. ASSUME NEW s \in Slots, PublishInventory(s) PROVE OwnerInv'
    BY <1>14 DEF PublishInventory, row, Goto, Set
  <1>15. ASSUME NEW s \in Slots, FilesAtHand(s) PROVE OwnerInv'
    BY <1>15 DEF FilesAtHand, row, disk, Goto, Set
  <1>16. ASSUME NEW s \in Slots, PrepareFails(s) PROVE OwnerInv'
    BY <1>16 DEF PrepareFails, row, disk, Goto, Set
  <1>17. ASSUME NEW s \in Slots, FinishJob(s) PROVE OwnerInv'
    BY <1>17 DEF FinishJob, disk, FreeSlot, Set, NoLegs
  <1>18. ASSUME NEW s \in Slots, NEW d \in Destinations, LegCleared(s, d) PROVE OwnerInv'
    BY <1>18 DEF LegCleared, row, disk, SetLeg, ExportAuthorized, Current
  <1>19. ASSUME NEW s \in Slots, NEW d \in Destinations, LegWritten(s, d) PROVE OwnerInv'
    BY <1>19 DEF LegWritten, row, SetLeg, Set
  <1>20. ASSUME NEW s \in Slots, NEW d \in Destinations, LegCompleted(s, d) PROVE OwnerInv'
    BY <1>20 DEF LegCompleted, disk, SetLeg, Set, ExportAuthorized, Current
  <1>21. ASSUME NEW s \in Slots, NEW d \in Destinations, LegFails(s, d) PROVE OwnerInv'
    BY <1>21 DEF LegFails, row, disk, SetLeg
  <1>22. ASSUME NEW s \in Slots, ExportEnds(s) PROVE OwnerInv'
    <2>1. CASE Goto(s, "fail")
      BY <1>22, <2>1 DEF ExportEnds, row, disk, Goto, Set
    <2>2. CASE FreeSlot(s) /\ \A d \in Destinations : leg[s][d] = "none"
      <3>1. task[s] \in Jobs /\ task[s] \in manifest
        BY <1>22 DEF ExportEnds, SlotInv, SlotOK
      <3>2. Current(s) => state[task[s]] # "exporting"
        BY <1>22, <2>2, <3>1, PolicyType DEF ExportEnds, SlotInv, SlotOK, RowInv, RowOK
      <3>3. state[task[s]] # "preparing"
        BY <3>1 DEF RowInv, RowOK
      <3>4. UNCHANGED <<state, owner, attempts, boot>>
        BY <1>22 DEF ExportEnds, row
      <3>5. \A q \in Slots \ {s} : phase'[q] = phase[q] /\ task'[q] = task[q] /\ try'[q] = try[q]
        BY <2>2 DEF FreeSlot, Set
      <3>6. ASSUME NEW i \in Jobs, Running(i), owner[i] = boot
            PROVE  \E q \in Slots \ {s} : phase[q] # "idle" /\ task[q] = i /\ try[q] = attempts[i]
        BY <3>2, <3>3, <3>6 DEF Current
      <3> QED BY <3>4, <3>5, <3>6
    <2> QED BY <1>22, <2>1, <2>2 DEF ExportEnds
  <1>23. ASSUME NEW s \in Slots, FailJob(s) PROVE OwnerInv'
    <2>1. UNCHANGED <<owner, attempts, boot>>
      BY <1>23 DEF FailJob
    <2>2. \A q \in Slots \ {s} : phase'[q] = phase[q] /\ task'[q] = task[q] /\ try'[q] = try[q]
      BY <1>23 DEF FailJob, FreeSlot, Set
    <2>3. ASSUME NEW i \in Jobs, Running(i)'
          PROVE  Running(i) /\ ~(task[s] = i /\ try[s] = attempts[i])
      <3>1. CASE state' = state
        BY <1>23, <2>3, <3>1 DEF FailJob, Current, Set
      <3>2. CASE state' # state
        BY <1>23, <2>3, <3>2 DEF FailJob, Current, Set
      <3> QED BY <3>1, <3>2
    <2>4. ASSUME NEW i \in Jobs, Running(i)', owner'[i] = boot'
          PROVE  \E q \in Slots \ {s} : phase[q] # "idle" /\ task[q] = i /\ try[q] = attempts[i]
      BY <2>1, <2>3, <2>4
    <2> QED BY <2>1, <2>2, <2>4
  <1>24. CASE SaveProject
    BY <1>24 DEF SaveProject, row, disk, loops
  <1>25. ASSUME NEW j \in Jobs, ClaimRetirement(j) PROVE OwnerInv'
    BY <1>25 DEF ClaimRetirement, disk, loops, Set
  <1>26. CASE RemoveSnapshot
    BY <1>26 DEF RemoveSnapshot, row, loops
  <1>27. CASE RetirementFails
    BY <1>27 DEF RetirementFails, row, loops
  <1>28. CASE CompleteRetirement
    BY <1>28 DEF CompleteRetirement, disk, loops, Set
  <1>29. CASE Boot
    BY <1>29 DEF Boot, row, disk, StopLoops, NoLegs
  <1>30. CASE BootRestored
    BY <1>30 DEF BootRestored, disk, StopLoops, NoLegs
  <1> QED BY <1>0, <1>1, <1>2, <1>3, <1>4, <1>5, <1>6, <1>7, <1>8, <1>9, <1>10, <1>11,
      <1>12, <1>13, <1>14, <1>15, <1>16, <1>17, <1>18, <1>19, <1>20, <1>21, <1>22, <1>23,
      <1>24, <1>25, <1>26, <1>27, <1>28, <1>29, <1>30 DEF Next, Operate, Work, Prepare,
      Export, Retire

\* No step brings a withdrawn delivery back.
LEMMA WithdrawnStep ==
  ASSUME TypeOK, [Next]_vars
  PROVE  \A i \in Jobs : state[i] \in Withdrawn => state'[i] \in Withdrawn
  <1> USE  DEF TypeOK, Withdrawn
  <1>0. CASE UNCHANGED vars
    BY <1>0 DEF vars, row, disk, loops
  <1>1. ASSUME NEW j \in Jobs, EnqueueJob(j) PROVE \A i \in Jobs : state[i] \in Withdrawn => state'[i] \in Withdrawn
    BY <1>1 DEF EnqueueJob, disk, loops, Set
  <1>2. ASSUME NEW j \in Jobs, TimePasses(j) PROVE \A i \in Jobs : state[i] \in Withdrawn => state'[i] \in Withdrawn
    BY <1>2 DEF TimePasses, disk, loops
  <1>3. ASSUME NEW j \in Jobs, Approve(j) PROVE \A i \in Jobs : state[i] \in Withdrawn => state'[i] \in Withdrawn
    BY <1>3 DEF Approve, disk, loops, Set
  <1>4. ASSUME NEW j \in Jobs, Cancel(j) PROVE \A i \in Jobs : state[i] \in Withdrawn => state'[i] \in Withdrawn
    BY <1>4 DEF Cancel, disk, loops, Set
  <1>5. ASSUME NEW j \in Jobs, Retry(j) PROVE \A i \in Jobs : state[i] \in Withdrawn => state'[i] \in Withdrawn
    BY <1>5 DEF Retry, disk, loops, Set, Received
  <1>6. ASSUME NEW j \in Jobs, GrantEnds(j) PROVE \A i \in Jobs : state[i] \in Withdrawn => state'[i] \in Withdrawn
    BY <1>6 DEF GrantEnds, row, disk, loops, Set
  <1>7. ASSUME NEW j \in Jobs, Deauthorize(j) PROVE \A i \in Jobs : state[i] \in Withdrawn => state'[i] \in Withdrawn
    BY <1>7 DEF Deauthorize, row, disk, loops
  <1>8. ASSUME NEW u \in Uploads, NEW j \in Jobs, QueueReceived(u, j) PROVE \A i \in Jobs : state[i] \in Withdrawn => state'[i] \in Withdrawn
    BY <1>8 DEF QueueReceived, disk, loops, Set
  <1>9. ASSUME NEW j \in Jobs, NEW k \in Jobs, Reprocess(j, k) PROVE \A i \in Jobs : state[i] \in Withdrawn => state'[i] \in Withdrawn
    BY <1>9 DEF Reprocess, disk, loops, Set
  <1>10. ASSUME NEW u \in Uploads, RevokeRoute(u) PROVE \A i \in Jobs : state[i] \in Withdrawn => state'[i] \in Withdrawn
    BY <1>10 DEF RevokeRoute, disk, loops
  <1>11. ASSUME NEW s \in Slots, NEW j \in Jobs, Claim(s, j) PROVE \A i \in Jobs : state[i] \in Withdrawn => state'[i] \in Withdrawn
    BY <1>11 DEF Claim, disk, loops, Set, Claimable, Running
  <1>12. ASSUME NEW s \in Slots, NEW size \in Sizes, Reserve(s, size) PROVE \A i \in Jobs : state[i] \in Withdrawn => state'[i] \in Withdrawn
    BY <1>12 DEF Reserve, disk, Goto, Set
  <1>13. ASSUME NEW s \in Slots, FreezeFiles(s) PROVE \A i \in Jobs : state[i] \in Withdrawn => state'[i] \in Withdrawn
    BY <1>13 DEF FreezeFiles, row, Goto, Set
  <1>14. ASSUME NEW s \in Slots, PublishInventory(s) PROVE \A i \in Jobs : state[i] \in Withdrawn => state'[i] \in Withdrawn
    BY <1>14 DEF PublishInventory, row, Goto, Set
  <1>15. ASSUME NEW s \in Slots, FilesAtHand(s) PROVE \A i \in Jobs : state[i] \in Withdrawn => state'[i] \in Withdrawn
    BY <1>15 DEF FilesAtHand, row, disk, Goto, Set
  <1>16. ASSUME NEW s \in Slots, PrepareFails(s) PROVE \A i \in Jobs : state[i] \in Withdrawn => state'[i] \in Withdrawn
    BY <1>16 DEF PrepareFails, row, disk, Goto, Set
  <1>17. ASSUME NEW s \in Slots, FinishJob(s) PROVE \A i \in Jobs : state[i] \in Withdrawn => state'[i] \in Withdrawn
    BY <1>17 DEF FinishJob, disk, FreeSlot, Set, NoLegs
  <1>18. ASSUME NEW s \in Slots, NEW d \in Destinations, LegCleared(s, d) PROVE \A i \in Jobs : state[i] \in Withdrawn => state'[i] \in Withdrawn
    BY <1>18 DEF LegCleared, row, disk, SetLeg, ExportAuthorized, Current
  <1>19. ASSUME NEW s \in Slots, NEW d \in Destinations, LegWritten(s, d) PROVE \A i \in Jobs : state[i] \in Withdrawn => state'[i] \in Withdrawn
    BY <1>19 DEF LegWritten, row, SetLeg, Set
  <1>20. ASSUME NEW s \in Slots, NEW d \in Destinations, LegCompleted(s, d) PROVE \A i \in Jobs : state[i] \in Withdrawn => state'[i] \in Withdrawn
    BY <1>20 DEF LegCompleted, disk, SetLeg, Set, ExportAuthorized, Current
  <1>21. ASSUME NEW s \in Slots, NEW d \in Destinations, LegFails(s, d) PROVE \A i \in Jobs : state[i] \in Withdrawn => state'[i] \in Withdrawn
    BY <1>21 DEF LegFails, row, disk, SetLeg
  <1>22. ASSUME NEW s \in Slots, ExportEnds(s) PROVE \A i \in Jobs : state[i] \in Withdrawn => state'[i] \in Withdrawn
    BY <1>22 DEF ExportEnds, row, disk, Goto, FreeSlot, Set, NoLegs
  <1>23. ASSUME NEW s \in Slots, FailJob(s) PROVE \A i \in Jobs : state[i] \in Withdrawn => state'[i] \in Withdrawn
    BY <1>23 DEF FailJob, disk, FreeSlot, Set, NoLegs, Current, Running
  <1>24. CASE SaveProject
    BY <1>24 DEF SaveProject, row, disk, loops
  <1>25. ASSUME NEW j \in Jobs, ClaimRetirement(j) PROVE \A i \in Jobs : state[i] \in Withdrawn => state'[i] \in Withdrawn
    BY <1>25 DEF ClaimRetirement, disk, loops, Set
  <1>26. CASE RemoveSnapshot
    BY <1>26 DEF RemoveSnapshot, row, loops
  <1>27. CASE RetirementFails
    BY <1>27 DEF RetirementFails, row, loops
  <1>28. CASE CompleteRetirement
    BY <1>28 DEF CompleteRetirement, disk, loops, Set
  <1>29. CASE Boot
    BY <1>29 DEF Boot, row, disk, StopLoops, NoLegs
  <1>30. CASE BootRestored
    BY <1>30 DEF BootRestored, disk, StopLoops, NoLegs
  <1> QED BY <1>0, <1>1, <1>2, <1>3, <1>4, <1>5, <1>6, <1>7, <1>8, <1>9, <1>10, <1>11,
      <1>12, <1>13, <1>14, <1>15, <1>16, <1>17, <1>18, <1>19, <1>20, <1>21, <1>22, <1>23,
      <1>24, <1>25, <1>26, <1>27, <1>28, <1>29, <1>30 DEF Next, Operate, Work, Prepare,
      Export, Retire

\* Only two actions give a delivery a package.
LEMMA OriginStep ==
  ASSUME [Next]_vars
  PROVE  UNCHANGED origin \/ TakesPackage
  <1>0. CASE UNCHANGED vars
    BY <1>0 DEF vars, row, disk, loops
  <1>1. ASSUME NEW j \in Jobs, EnqueueJob(j) PROVE UNCHANGED origin \/ TakesPackage
    BY <1>1 DEF EnqueueJob, disk, loops, Set
  <1>2. ASSUME NEW j \in Jobs, TimePasses(j) PROVE UNCHANGED origin \/ TakesPackage
    BY <1>2 DEF TimePasses, disk, loops
  <1>3. ASSUME NEW j \in Jobs, Approve(j) PROVE UNCHANGED origin \/ TakesPackage
    BY <1>3 DEF Approve, disk, loops, Set
  <1>4. ASSUME NEW j \in Jobs, Cancel(j) PROVE UNCHANGED origin \/ TakesPackage
    BY <1>4 DEF Cancel, disk, loops, Set
  <1>5. ASSUME NEW j \in Jobs, Retry(j) PROVE UNCHANGED origin \/ TakesPackage
    BY <1>5 DEF Retry, disk, loops, Set
  <1>6. ASSUME NEW j \in Jobs, GrantEnds(j) PROVE UNCHANGED origin \/ TakesPackage
    BY <1>6 DEF GrantEnds, row, disk, loops, Set
  <1>7. ASSUME NEW j \in Jobs, Deauthorize(j) PROVE UNCHANGED origin \/ TakesPackage
    BY <1>7 DEF Deauthorize, row, disk, loops
  <1>8. ASSUME NEW u \in Uploads, NEW j \in Jobs, QueueReceived(u, j) PROVE UNCHANGED origin \/ TakesPackage
    BY <1>8 DEF TakesPackage
  <1>9. ASSUME NEW j \in Jobs, NEW k \in Jobs, Reprocess(j, k) PROVE UNCHANGED origin \/ TakesPackage
    BY <1>9 DEF TakesPackage
  <1>10. ASSUME NEW u \in Uploads, RevokeRoute(u) PROVE UNCHANGED origin \/ TakesPackage
    BY <1>10 DEF RevokeRoute, disk, loops
  <1>11. ASSUME NEW s \in Slots, NEW j \in Jobs, Claim(s, j) PROVE UNCHANGED origin \/ TakesPackage
    BY <1>11 DEF Claim, disk, loops, Set
  <1>12. ASSUME NEW s \in Slots, NEW size \in Sizes, Reserve(s, size) PROVE UNCHANGED origin \/ TakesPackage
    BY <1>12 DEF Reserve, disk, Goto, Set
  <1>13. ASSUME NEW s \in Slots, FreezeFiles(s) PROVE UNCHANGED origin \/ TakesPackage
    BY <1>13 DEF FreezeFiles, row, Goto, Set
  <1>14. ASSUME NEW s \in Slots, PublishInventory(s) PROVE UNCHANGED origin \/ TakesPackage
    BY <1>14 DEF PublishInventory, row, Goto, Set
  <1>15. ASSUME NEW s \in Slots, FilesAtHand(s) PROVE UNCHANGED origin \/ TakesPackage
    BY <1>15 DEF FilesAtHand, row, disk, Goto, Set
  <1>16. ASSUME NEW s \in Slots, PrepareFails(s) PROVE UNCHANGED origin \/ TakesPackage
    BY <1>16 DEF PrepareFails, row, disk, Goto, Set
  <1>17. ASSUME NEW s \in Slots, FinishJob(s) PROVE UNCHANGED origin \/ TakesPackage
    BY <1>17 DEF FinishJob, disk, FreeSlot, Set, NoLegs
  <1>18. ASSUME NEW s \in Slots, NEW d \in Destinations, LegCleared(s, d) PROVE UNCHANGED origin \/ TakesPackage
    BY <1>18 DEF LegCleared, row, disk, SetLeg
  <1>19. ASSUME NEW s \in Slots, NEW d \in Destinations, LegWritten(s, d) PROVE UNCHANGED origin \/ TakesPackage
    BY <1>19 DEF LegWritten, row, SetLeg, Set
  <1>20. ASSUME NEW s \in Slots, NEW d \in Destinations, LegCompleted(s, d) PROVE UNCHANGED origin \/ TakesPackage
    BY <1>20 DEF LegCompleted, disk, SetLeg, Set
  <1>21. ASSUME NEW s \in Slots, NEW d \in Destinations, LegFails(s, d) PROVE UNCHANGED origin \/ TakesPackage
    BY <1>21 DEF LegFails, row, disk, SetLeg
  <1>22. ASSUME NEW s \in Slots, ExportEnds(s) PROVE UNCHANGED origin \/ TakesPackage
    BY <1>22 DEF ExportEnds, row, disk, Goto, FreeSlot, Set, NoLegs
  <1>23. ASSUME NEW s \in Slots, FailJob(s) PROVE UNCHANGED origin \/ TakesPackage
    BY <1>23 DEF FailJob, disk, FreeSlot, Set, NoLegs
  <1>24. CASE SaveProject
    BY <1>24 DEF SaveProject, row, disk, loops
  <1>25. ASSUME NEW j \in Jobs, ClaimRetirement(j) PROVE UNCHANGED origin \/ TakesPackage
    BY <1>25 DEF ClaimRetirement, disk, loops, Set
  <1>26. CASE RemoveSnapshot
    BY <1>26 DEF RemoveSnapshot, row, loops
  <1>27. CASE RetirementFails
    BY <1>27 DEF RetirementFails, row, loops
  <1>28. CASE CompleteRetirement
    BY <1>28 DEF CompleteRetirement, disk, loops, Set
  <1>29. CASE Boot
    BY <1>29 DEF Boot, row, disk, StopLoops, NoLegs
  <1>30. CASE BootRestored
    BY <1>30 DEF BootRestored, disk, StopLoops, NoLegs
  <1> QED BY <1>0, <1>1, <1>2, <1>3, <1>4, <1>5, <1>6, <1>7, <1>8, <1>9, <1>10, <1>11,
      <1>12, <1>13, <1>14, <1>15, <1>16, <1>17, <1>18, <1>19, <1>20, <1>21, <1>22, <1>23,
      <1>24, <1>25, <1>26, <1>27, <1>28, <1>29, <1>30 DEF Next, Operate, Work, Prepare,
      Export, Retire

\* Only a claim sets a job running under the present process.
LEMMA RunningStep ==
  ASSUME TypeOK, RowInv, OwnerInv, [Next]_vars
  PROVE  RunningHere' \subseteq RunningHere \/ ClaimStep
  <1> USE  DEF TypeOK, RunningHere, Running
  <1>0. CASE UNCHANGED vars
    BY <1>0 DEF vars, row, disk, loops
  <1>1. ASSUME NEW j \in Jobs, EnqueueJob(j) PROVE RunningHere' \subseteq RunningHere \/ ClaimStep
    BY <1>1 DEF EnqueueJob, disk, loops, Set
  <1>2. ASSUME NEW j \in Jobs, TimePasses(j) PROVE RunningHere' \subseteq RunningHere \/ ClaimStep
    BY <1>2 DEF TimePasses, disk, loops
  <1>3. ASSUME NEW j \in Jobs, Approve(j) PROVE RunningHere' \subseteq RunningHere \/ ClaimStep
    BY <1>3 DEF Approve, disk, loops, Set, OwnerInv
  <1>4. ASSUME NEW j \in Jobs, Cancel(j) PROVE RunningHere' \subseteq RunningHere \/ ClaimStep
    BY <1>4 DEF Cancel, disk, loops, Set
  <1>5. ASSUME NEW j \in Jobs, Retry(j) PROVE RunningHere' \subseteq RunningHere \/ ClaimStep
    BY <1>5 DEF Retry, disk, loops, Set, OwnerInv
  <1>6. ASSUME NEW j \in Jobs, GrantEnds(j) PROVE RunningHere' \subseteq RunningHere \/ ClaimStep
    BY <1>6 DEF GrantEnds, row, disk, loops, Set
  <1>7. ASSUME NEW j \in Jobs, Deauthorize(j) PROVE RunningHere' \subseteq RunningHere \/ ClaimStep
    BY <1>7 DEF Deauthorize, row, disk, loops
  <1>8. ASSUME NEW u \in Uploads, NEW j \in Jobs, QueueReceived(u, j) PROVE RunningHere' \subseteq RunningHere \/ ClaimStep
    BY <1>8 DEF QueueReceived, disk, loops, Set
  <1>9. ASSUME NEW j \in Jobs, NEW k \in Jobs, Reprocess(j, k) PROVE RunningHere' \subseteq RunningHere \/ ClaimStep
    BY <1>9 DEF Reprocess, disk, loops, Set
  <1>10. ASSUME NEW u \in Uploads, RevokeRoute(u) PROVE RunningHere' \subseteq RunningHere \/ ClaimStep
    BY <1>10 DEF RevokeRoute, disk, loops
  <1>11. ASSUME NEW s \in Slots, NEW j \in Jobs, Claim(s, j) PROVE RunningHere' \subseteq RunningHere \/ ClaimStep
    BY <1>11 DEF ClaimStep
  <1>12. ASSUME NEW s \in Slots, NEW size \in Sizes, Reserve(s, size) PROVE RunningHere' \subseteq RunningHere \/ ClaimStep
    BY <1>12 DEF Reserve, disk, Goto, Set
  <1>13. ASSUME NEW s \in Slots, FreezeFiles(s) PROVE RunningHere' \subseteq RunningHere \/ ClaimStep
    BY <1>13 DEF FreezeFiles, row, Goto, Set
  <1>14. ASSUME NEW s \in Slots, PublishInventory(s) PROVE RunningHere' \subseteq RunningHere \/ ClaimStep
    BY <1>14 DEF PublishInventory, row, Goto, Set
  <1>15. ASSUME NEW s \in Slots, FilesAtHand(s) PROVE RunningHere' \subseteq RunningHere \/ ClaimStep
    BY <1>15 DEF FilesAtHand, row, disk, Goto, Set
  <1>16. ASSUME NEW s \in Slots, PrepareFails(s) PROVE RunningHere' \subseteq RunningHere \/ ClaimStep
    BY <1>16 DEF PrepareFails, row, disk, Goto, Set
  <1>17. ASSUME NEW s \in Slots, FinishJob(s) PROVE RunningHere' \subseteq RunningHere \/ ClaimStep
    BY <1>17 DEF FinishJob, disk, FreeSlot, Set, NoLegs, OwnerInv
  <1>18. ASSUME NEW s \in Slots, NEW d \in Destinations, LegCleared(s, d) PROVE RunningHere' \subseteq RunningHere \/ ClaimStep
    BY <1>18 DEF LegCleared, row, disk, SetLeg
  <1>19. ASSUME NEW s \in Slots, NEW d \in Destinations, LegWritten(s, d) PROVE RunningHere' \subseteq RunningHere \/ ClaimStep
    BY <1>19 DEF LegWritten, row, SetLeg, Set
  <1>20. ASSUME NEW s \in Slots, NEW d \in Destinations, LegCompleted(s, d) PROVE RunningHere' \subseteq RunningHere \/ ClaimStep
    BY <1>20 DEF LegCompleted, disk, SetLeg, Set
  <1>21. ASSUME NEW s \in Slots, NEW d \in Destinations, LegFails(s, d) PROVE RunningHere' \subseteq RunningHere \/ ClaimStep
    BY <1>21 DEF LegFails, row, disk, SetLeg
  <1>22. ASSUME NEW s \in Slots, ExportEnds(s) PROVE RunningHere' \subseteq RunningHere \/ ClaimStep
    BY <1>22 DEF ExportEnds, row, disk, Goto, FreeSlot, Set, NoLegs
  <1>23. ASSUME NEW s \in Slots, FailJob(s) PROVE RunningHere' \subseteq RunningHere \/ ClaimStep
    BY <1>23 DEF FailJob, disk, FreeSlot, Set, NoLegs
  <1>24. CASE SaveProject
    BY <1>24 DEF SaveProject, row, disk, loops
  <1>25. ASSUME NEW j \in Jobs, ClaimRetirement(j) PROVE RunningHere' \subseteq RunningHere \/ ClaimStep
    BY <1>25 DEF ClaimRetirement, disk, loops, Set
  <1>26. CASE RemoveSnapshot
    BY <1>26 DEF RemoveSnapshot, row, loops
  <1>27. CASE RetirementFails
    BY <1>27 DEF RetirementFails, row, loops
  <1>28. CASE CompleteRetirement
    BY <1>28 DEF CompleteRetirement, disk, loops, Set
  <1>29. CASE Boot
    BY <1>29 DEF Boot, row, disk, StopLoops, NoLegs, OwnerInv
  <1>30. CASE BootRestored
    BY <1>30 DEF BootRestored, disk, StopLoops, NoLegs
  <1> QED BY <1>0, <1>1, <1>2, <1>3, <1>4, <1>5, <1>6, <1>7, <1>8, <1>9, <1>10, <1>11,
      <1>12, <1>13, <1>14, <1>15, <1>16, <1>17, <1>18, <1>19, <1>20, <1>21, <1>22, <1>23,
      <1>24, <1>25, <1>26, <1>27, <1>28, <1>29, <1>30 DEF Next, Operate, Work, Prepare,
      Export, Retire

-----------------------------------------------------------------------------
\* Before a delivery is submitted its package has no other; a reprocessed
\* one is cancelled in the step that submits its replacement.
LEMMA UploadInductive ==
  ASSUME TypeOK, RowInv, OneDeliveryPerUpload, [Next]_vars
  PROVE  OneDeliveryPerUpload'
  <1>1. \A i \in Jobs : state[i] \in Withdrawn => state'[i] \in Withdrawn
    BY WithdrawnStep
  <1>2. CASE UNCHANGED origin
    BY <1>1, <1>2 DEF OneDeliveryPerUpload, Received
  <1>3. ASSUME NEW u \in Uploads, NEW j \in Jobs, QueueReceived(u, j)
        PROVE  OneDeliveryPerUpload'
    BY <1>1, <1>3, JobsAssumption DEF OneDeliveryPerUpload, Received, QueueReceived, Set, TypeOK
  <1>4. ASSUME NEW j \in Jobs, NEW k \in Jobs, Reprocess(j, k)
        PROVE  OneDeliveryPerUpload'
    <2>1. j # k /\ origin[k] = NoUpload /\ origin' = [origin EXCEPT ![k] = origin[j]]
      BY <1>4 DEF Reprocess, Set, RowInv, RowOK
    <2>2. state[j] \notin Withdrawn /\ state'[j] \in Withdrawn
      BY <1>4, <2>1 DEF Reprocess, Withdrawn, TypeOK
    <2>3. \A i \in Jobs \ {j, k} : origin[i] = origin[j] => state[i] \in Withdrawn
      BY <1>4, <2>2 DEF Reprocess, OneDeliveryPerUpload
    <2> QED BY <1>1, <2>1, <2>2, <2>3 DEF OneDeliveryPerUpload, Received, TypeOK
  <1>5. UNCHANGED origin \/ TakesPackage
    BY OriginStep
  <1> QED BY <1>2, <1>3, <1>4, <1>5 DEF TakesPackage

\* Approvals, retries and preparations clear the owner of the job they set
\* exporting, so only claims count against the cap.
LEMMA CapInductive ==
  ASSUME TypeOK, RowInv, OwnerInv, TenantCapHolds, [Next]_vars
  PROVE  TenantCapHolds'
  <1>1. IsFiniteSet(RunningHere) /\ Cardinality(RunningHere) <= ClaimCap
    BY FS_Subset, JobsAssumption DEF RunningHere, TenantCapHolds
  <1>2. CASE RunningHere' \subseteq RunningHere
    <2>1. Cardinality(RunningHere') <= Cardinality(RunningHere) /\ IsFiniteSet(RunningHere')
      BY <1>1, <1>2, FS_Subset
    <2> QED BY <1>1, <2>1, FS_CardinalityType, JobsAssumption DEF TenantCapHolds, RunningHere
  <1>3. ASSUME NEW s \in Slots, NEW j \in Jobs, Claim(s, j)
        PROVE  TenantCapHolds'
    <2> DEFINE rest == {k \in Jobs \ {j} : owner[k] = boot /\ Running(k)}
    <2>1. IsFiniteSet(rest) /\ Cardinality(rest) \in Nat /\ Cardinality(rest) < ClaimCap
      <3>1. IsFiniteSet(rest)
        BY FS_Subset, JobsAssumption
      <3> QED BY <3>1, <1>3, FS_CardinalityType DEF Claim, TenantRoom
    <2>2. IsFiniteSet(rest \cup {j}) /\ Cardinality(rest \cup {j}) = Cardinality(rest) + 1
      BY <2>1, FS_AddElement
    <2>3. RunningHere' \subseteq rest \cup {j}
      BY <1>3 DEF Claim, Set, RunningHere, Running, TypeOK
    <2>4. Cardinality(RunningHere') <= Cardinality(rest \cup {j}) /\ IsFiniteSet(RunningHere')
      BY <2>2, <2>3, FS_Subset
    <2> QED BY <2>1, <2>2, <2>4, FS_CardinalityType, JobsAssumption DEF TenantCapHolds, RunningHere
  <1> QED BY <1>2, <1>3, RunningStep DEF ClaimStep

\* Every step keeps what a payload directory relies on.
LEMMA HeldInductive ==
  ASSUME TypeOK, TypeOK', RowInv, SlotInv, HeldInv, [Next]_vars
  PROVE  HeldInv'
  <1> USE JobsAssumption DEF TypeOK, HeldInv, Received, Busy, SlotInv, SlotOK
  <1>0. CASE UNCHANGED vars
    BY <1>0 DEF vars, row, disk, loops
  <1>1. ASSUME NEW j \in Jobs, EnqueueJob(j) PROVE HeldInv'
    BY <1>1 DEF EnqueueJob, disk, loops, Set
  <1>2. ASSUME NEW j \in Jobs, TimePasses(j) PROVE HeldInv'
    BY <1>2 DEF TimePasses, disk, loops
  <1>3. ASSUME NEW j \in Jobs, Approve(j) PROVE HeldInv'
    BY <1>3 DEF Approve, disk, loops, Set
  <1>4. ASSUME NEW j \in Jobs, Cancel(j) PROVE HeldInv'
    BY <1>4 DEF Cancel, disk, loops, Set, Withdrawn
  <1>5. ASSUME NEW j \in Jobs, Retry(j) PROVE HeldInv'
    BY <1>5 DEF Retry, disk, loops, Set
  <1>6. ASSUME NEW j \in Jobs, GrantEnds(j) PROVE HeldInv'
    BY <1>6 DEF GrantEnds, row, disk, loops, Set
  <1>7. ASSUME NEW j \in Jobs, Deauthorize(j) PROVE HeldInv'
    BY <1>7 DEF Deauthorize, row, disk, loops
  <1>8. ASSUME NEW u \in Uploads, NEW j \in Jobs, QueueReceived(u, j) PROVE HeldInv'
    <2>1. \A i \in frozen' : reserved'[i] > 0 /\ origin'[i] = NoUpload /\ state'[i] # "none"
      BY <1>8 DEF QueueReceived, disk, loops, Set
    <2>2. \A q \in Slots : phase'[q] = "copy" => reserved'[task'[q]] > 0 /\ origin'[task'[q]] = NoUpload
      BY <1>8 DEF QueueReceived, disk, loops, Set
    <2>3. retirer' # NoJob => state'[retirer'] = "retiring" /\ \A q \in Slots : Busy(q)' => task'[q] # retirer'
      BY <1>8 DEF QueueReceived, disk, loops, Set
    <2> QED BY <2>1, <2>2, <2>3
  <1>9. ASSUME NEW j \in Jobs, NEW k \in Jobs, Reprocess(j, k) PROVE HeldInv'
    <2>1. \A i \in frozen' : reserved'[i] > 0 /\ origin'[i] = NoUpload /\ state'[i] # "none"
      BY <1>9 DEF Reprocess, disk, loops, Set
    <2>2. \A q \in Slots : phase'[q] = "copy" => reserved'[task'[q]] > 0 /\ origin'[task'[q]] = NoUpload
      BY <1>9 DEF Reprocess, disk, loops, Set
    <2>3. \A i \in Jobs : state[i] = "retiring" => state'[i] = "retiring"
      BY <1>9 DEF Reprocess
    <2>4. UNCHANGED <<retirer, phase, task>>
      BY <1>9 DEF Reprocess, loops
    <2> QED BY <2>1, <2>2, <2>3, <2>4
  <1>10. ASSUME NEW u \in Uploads, RevokeRoute(u) PROVE HeldInv'
    BY <1>10 DEF RevokeRoute, disk, loops
  <1>11. ASSUME NEW s \in Slots, NEW j \in Jobs, Claim(s, j) PROVE HeldInv'
    <2>0. /\ UNCHANGED <<retirer, frozen, reserved, origin>>
          /\ state[j] \in {"queued", "retrying", "preparing", "exporting"}
          /\ \E x \in {"failed", "exporting", "preparing"} : state' = Set(state, j, x)
      BY <1>11 DEF Claim, disk, Claimable, Running
    <2>1. /\ retirer' = retirer /\ frozen' = frozen /\ reserved' = reserved /\ origin' = origin
          /\ state[j] \notin {"retiring", "none"} /\ state'[j] # "none"
          /\ \A i \in Jobs \ {j} : state'[i] = state[i]
      <3>1. PICK x \in {"failed", "exporting", "preparing"} : state' = [state EXCEPT ![j] = x]
        BY <2>0 DEF Set
      <3>2. state'[j] = x /\ \A i \in Jobs \ {j} : state'[i] = state[i]
        BY <3>1
      <3> QED BY <2>0, <3>2
    <2>2. ASSUME NEW q \in Slots
          PROVE  \/ phase'[q] = phase[q] /\ task'[q] = task[q]
                 \/ phase'[q] # "copy" /\ task'[q] = j
      <3>1. CASE UNCHANGED loops
        BY <3>1 DEF loops
      <3>2. CASE ~UNCHANGED loops
        <4>1. /\ phase' = Set(phase, s, IF j \in manifest THEN "export" ELSE "prepare")
              /\ task' = Set(task, s, j)
          BY <1>11, <3>2 DEF Claim
        <4> QED BY <4>1 DEF Set
      <3> QED BY <3>1, <3>2
    <2>3. retirer # NoJob => retirer # j
      BY <2>1
    <2> QED BY <2>1, <2>2, <2>3
  <1>12. ASSUME NEW s \in Slots, NEW size \in Sizes, Reserve(s, size) PROVE HeldInv'
    <2>1. \A i \in frozen' : reserved'[i] > 0 /\ origin'[i] = NoUpload /\ state'[i] # "none"
      BY <1>12 DEF Reserve, disk, Goto, Set
    <2>2. \A q \in Slots : phase'[q] = "copy" => reserved'[task'[q]] > 0 /\ origin'[task'[q]] = NoUpload
      BY <1>12 DEF Reserve, disk, Goto, Set
    <2>3. retirer' # NoJob => state'[retirer'] = "retiring" /\ \A q \in Slots : Busy(q)' => task'[q] # retirer'
      BY <1>12 DEF Reserve, disk, Goto, Set
    <2> QED BY <2>1, <2>2, <2>3
  <1>13. ASSUME NEW s \in Slots, FreezeFiles(s) PROVE HeldInv'
    BY <1>13 DEF FreezeFiles, row, Goto, Set
  <1>14. ASSUME NEW s \in Slots, PublishInventory(s) PROVE HeldInv'
    BY <1>14 DEF PublishInventory, row, Goto, Set
  <1>15. ASSUME NEW s \in Slots, FilesAtHand(s) PROVE HeldInv'
    BY <1>15 DEF FilesAtHand, row, disk, Goto, Set
  <1>16. ASSUME NEW s \in Slots, PrepareFails(s) PROVE HeldInv'
    BY <1>16 DEF PrepareFails, row, disk, Goto, Set
  <1>17. ASSUME NEW s \in Slots, FinishJob(s) PROVE HeldInv'
    <2>1. \A i \in frozen' : reserved'[i] > 0 /\ origin'[i] = NoUpload /\ state'[i] # "none"
      BY <1>17 DEF FinishJob, disk, FreeSlot, Set, NoLegs
    <2>2. \A q \in Slots : phase'[q] = "copy" => reserved'[task'[q]] > 0 /\ origin'[task'[q]] = NoUpload
      BY <1>17 DEF FinishJob, disk, FreeSlot, Set, NoLegs
    <2>3. retirer' # NoJob => state'[retirer'] = "retiring" /\ \A q \in Slots : Busy(q)' => task'[q] # retirer'
      BY <1>17 DEF FinishJob, disk, FreeSlot, Set, NoLegs
    <2> QED BY <2>1, <2>2, <2>3
  <1>18. ASSUME NEW s \in Slots, NEW d \in Destinations, LegCleared(s, d) PROVE HeldInv'
    BY <1>18 DEF LegCleared, row, disk, SetLeg, ExportAuthorized, Current
  <1>19. ASSUME NEW s \in Slots, NEW d \in Destinations, LegWritten(s, d) PROVE HeldInv'
    BY <1>19 DEF LegWritten, row, SetLeg, Set
  <1>20. ASSUME NEW s \in Slots, NEW d \in Destinations, LegCompleted(s, d) PROVE HeldInv'
    BY <1>20 DEF LegCompleted, disk, SetLeg, Set, ExportAuthorized, Current
  <1>21. ASSUME NEW s \in Slots, NEW d \in Destinations, LegFails(s, d) PROVE HeldInv'
    BY <1>21 DEF LegFails, row, disk, SetLeg
  <1>22. ASSUME NEW s \in Slots, ExportEnds(s) PROVE HeldInv'
    <2>1. CASE Goto(s, "fail")
      BY <1>22, <2>1 DEF ExportEnds, row, disk, Goto, Set
    <2>2. CASE FreeSlot(s)
      BY <1>22, <2>2 DEF ExportEnds, row, disk, FreeSlot, Set, NoLegs
    <2> QED BY <1>22, <2>1, <2>2 DEF ExportEnds
  <1>23. ASSUME NEW s \in Slots, FailJob(s) PROVE HeldInv'
    BY <1>23 DEF FailJob, disk, FreeSlot, Set, NoLegs, Current, Running
  <1>24. CASE SaveProject
    BY <1>24 DEF SaveProject, row, disk, loops
  <1>25. ASSUME NEW j \in Jobs, ClaimRetirement(j) PROVE HeldInv'
    BY <1>25 DEF ClaimRetirement, disk, loops, Set
  <1>26. CASE RemoveSnapshot
    BY <1>26 DEF RemoveSnapshot, row, loops
  <1>27. CASE RetirementFails
    BY <1>27 DEF RetirementFails, row, loops
  <1>28. CASE CompleteRetirement
    BY <1>28 DEF CompleteRetirement, disk, loops, Set
  <1>29. CASE Boot
    BY <1>29 DEF Boot, row, disk, StopLoops, NoLegs
  <1>30. CASE BootRestored
    BY <1>30 DEF BootRestored, disk, StopLoops, NoLegs
  <1> QED BY <1>0, <1>1, <1>2, <1>3, <1>4, <1>5, <1>6, <1>7, <1>8, <1>9, <1>10, <1>11,
      <1>12, <1>13, <1>14, <1>15, <1>16, <1>17, <1>18, <1>19, <1>20, <1>21, <1>22, <1>23,
      <1>24, <1>25, <1>26, <1>27, <1>28, <1>29, <1>30 DEF Next, Operate, Work, Prepare,
      Export, Retire

\* Only a reservation adds to what the deliveries that may still run hold.
LEMMA ReservationStep ==
  ASSUME TypeOK, SlotInv, [Next]_vars
  PROVE  Lowers \/ ReserveStep
  <1> USE DEF TypeOK, Lowers, Live
  <1>0. CASE UNCHANGED vars
    BY <1>0 DEF vars, row, disk, loops
  <1>1. ASSUME NEW j \in Jobs, EnqueueJob(j) PROVE Lowers \/ ReserveStep
    BY <1>1 DEF EnqueueJob, disk, loops, Set
  <1>2. ASSUME NEW j \in Jobs, TimePasses(j) PROVE Lowers \/ ReserveStep
    BY <1>2 DEF TimePasses, disk, loops
  <1>3. ASSUME NEW j \in Jobs, Approve(j) PROVE Lowers \/ ReserveStep
    BY <1>3 DEF Approve, disk, loops, Set
  <1>4. ASSUME NEW j \in Jobs, Cancel(j) PROVE Lowers \/ ReserveStep
    BY <1>4 DEF Cancel, disk, loops, Set, Withdrawn
  <1>5. ASSUME NEW j \in Jobs, Retry(j) PROVE Lowers \/ ReserveStep
    BY <1>5 DEF Retry, disk, loops, Set
  <1>6. ASSUME NEW j \in Jobs, GrantEnds(j) PROVE Lowers \/ ReserveStep
    BY <1>6 DEF GrantEnds, row, disk, loops, Set
  <1>7. ASSUME NEW j \in Jobs, Deauthorize(j) PROVE Lowers \/ ReserveStep
    BY <1>7 DEF Deauthorize, row, disk, loops
  <1>8. ASSUME NEW u \in Uploads, NEW j \in Jobs, QueueReceived(u, j) PROVE Lowers \/ ReserveStep
    BY <1>8 DEF QueueReceived, disk, loops, Set
  <1>9. ASSUME NEW j \in Jobs, NEW k \in Jobs, Reprocess(j, k) PROVE Lowers \/ ReserveStep
    BY <1>9 DEF Reprocess, disk, loops, Set
  <1>10. ASSUME NEW u \in Uploads, RevokeRoute(u) PROVE Lowers \/ ReserveStep
    BY <1>10 DEF RevokeRoute, disk, loops
  <1>11. ASSUME NEW s \in Slots, NEW j \in Jobs, Claim(s, j) PROVE Lowers \/ ReserveStep
    BY <1>11 DEF Claim, disk, loops, Set, Claimable, Running
  <1>12. ASSUME NEW s \in Slots, NEW size \in Sizes, Reserve(s, size) PROVE Lowers \/ ReserveStep
    BY <1>12 DEF ReserveStep
  <1>13. ASSUME NEW s \in Slots, FreezeFiles(s) PROVE Lowers \/ ReserveStep
    BY <1>13 DEF FreezeFiles, row, Goto, Set
  <1>14. ASSUME NEW s \in Slots, PublishInventory(s) PROVE Lowers \/ ReserveStep
    BY <1>14 DEF PublishInventory, row, Goto, Set
  <1>15. ASSUME NEW s \in Slots, FilesAtHand(s) PROVE Lowers \/ ReserveStep
    BY <1>15 DEF FilesAtHand, row, disk, Goto, Set
  <1>16. ASSUME NEW s \in Slots, PrepareFails(s) PROVE Lowers \/ ReserveStep
    BY <1>16 DEF PrepareFails, row, disk, Goto, Set
  <1>17. ASSUME NEW s \in Slots, FinishJob(s) PROVE Lowers \/ ReserveStep
    BY <1>17 DEF FinishJob, disk, FreeSlot, Set, NoLegs
  <1>18. ASSUME NEW s \in Slots, NEW d \in Destinations, LegCleared(s, d) PROVE Lowers \/ ReserveStep
    BY <1>18 DEF LegCleared, row, disk, SetLeg, ExportAuthorized, Current
  <1>19. ASSUME NEW s \in Slots, NEW d \in Destinations, LegWritten(s, d) PROVE Lowers \/ ReserveStep
    BY <1>19 DEF LegWritten, row, SetLeg, Set
  <1>20. ASSUME NEW s \in Slots, NEW d \in Destinations, LegCompleted(s, d) PROVE Lowers \/ ReserveStep
    BY <1>20 DEF LegCompleted, disk, SetLeg, Set, ExportAuthorized, Current
  <1>21. ASSUME NEW s \in Slots, NEW d \in Destinations, LegFails(s, d) PROVE Lowers \/ ReserveStep
    BY <1>21 DEF LegFails, row, disk, SetLeg
  <1>22. ASSUME NEW s \in Slots, ExportEnds(s) PROVE Lowers \/ ReserveStep
    BY <1>22 DEF ExportEnds, row, disk, Goto, FreeSlot, Set, NoLegs
  <1>23. ASSUME NEW s \in Slots, FailJob(s) PROVE Lowers \/ ReserveStep
    BY <1>23 DEF FailJob, disk, FreeSlot, Set, NoLegs, Current, Running
  <1>24. CASE SaveProject
    BY <1>24 DEF SaveProject, row, disk, loops
  <1>25. ASSUME NEW j \in Jobs, ClaimRetirement(j) PROVE Lowers \/ ReserveStep
    BY <1>25 DEF ClaimRetirement, disk, loops, Set, Retirable
  <1>26. CASE RemoveSnapshot
    BY <1>26 DEF RemoveSnapshot, row, loops
  <1>27. CASE RetirementFails
    BY <1>27 DEF RetirementFails, row, loops
  <1>28. CASE CompleteRetirement
    BY <1>28 DEF CompleteRetirement, disk, loops, Set
  <1>29. CASE Boot
    BY <1>29 DEF Boot, row, disk, StopLoops, NoLegs
  <1>30. CASE BootRestored
    BY <1>30 DEF BootRestored, disk, StopLoops, NoLegs
  <1> QED BY <1>0, <1>1, <1>2, <1>3, <1>4, <1>5, <1>6, <1>7, <1>8, <1>9, <1>10, <1>11,
      <1>12, <1>13, <1>14, <1>15, <1>16, <1>17, <1>18, <1>19, <1>20, <1>21, <1>22, <1>23,
      <1>24, <1>25, <1>26, <1>27, <1>28, <1>29, <1>30 DEF Next, Operate, Work, Prepare,
      Export, Retire

\* The sums of the module, as sums of the column of reservations.
LEMMA LiveTotal ==
  /\ MapThenSumSet(LAMBDA k : reserved[k], {k \in Jobs : state[k] # "suspended"})
       = Total(reserved, Live)
  /\ \A j \in Jobs : OtherBytes(j) = Total(reserved, Live \ {j})
  <1>1. ASSUME NEW j \in Jobs
        PROVE  OtherBytes(j) = Total(reserved, Live \ {j})
    <2>1. Live \ {j} = {k \in Jobs \ {j} : state[k] # "suspended"}
      BY DEF Live
    <2>2. OtherBytes(j) = Total(reserved, {k \in Jobs \ {j} : state[k] # "suspended"})
      BY DEF OtherBytes, Total
    <2> QED BY <2>1, <2>2
  <1>2. MapThenSumSet(LAMBDA k : reserved[k], {k \in Jobs : state[k] # "suspended"})
          = Total(reserved, Live)
    BY DEF Live, Total
  <1> QED BY <1>1, <1>2

\* A reservation is made only within the budget, and no other step adds to it.
LEMMA BudgetInductive ==
  ASSUME TypeOK, TypeOK', SlotInv, BudgetInv, [Next]_vars
  PROVE  BudgetInv'
  <1> DEFINE L == {j \in Jobs : state[j] # "suspended"}
             M == {j \in Jobs : state'[j] # "suspended"}
  <1>1. IsFiniteSet(L) /\ IsFiniteSet(M) /\ L \subseteq Jobs /\ M \subseteq Jobs
    BY JobsAssumption, FS_Subset
  <1>2. Live = L /\ Live' = M
    BY DEF Live
  <1>3. /\ \A j \in Jobs : reserved[j] \in Nat /\ reserved'[j] \in Nat
        /\ Budget \in Nat
    BY JobsAssumption DEF TypeOK
  <1> HIDE DEF L, M
  <1>4. CASE Lowers
    <2>1. M \subseteq L /\ \A j \in L : reserved'[j] <= reserved[j]
      BY <1>1, <1>2, <1>4 DEF Lowers
    <2>2. Total(reserved', L) <= Total(reserved, L)
      BY <2>1, <1>1, <1>3, TotalBelow
    <2>3. Total(reserved', M) <= Total(reserved', L)
      BY <2>1, <1>1, <1>3, TotalMonotone
    <2>4. /\ Total(reserved', M) \in Nat /\ Total(reserved', L) \in Nat
          /\ Total(reserved, L) \in Nat
      BY <1>1, <1>3, TotalNat
    <2> QED BY <2>2, <2>3, <2>4, <1>2, <1>3 DEF BudgetInv
  <1>5. ASSUME NEW s \in Slots, NEW size \in Sizes, Reserve(s, size)
        PROVE  BudgetInv'
    <2> DEFINE j == task[s]
    <2>1. j \in Jobs /\ state[j] = "preparing"
      BY <1>5 DEF Reserve, SlotInv, SlotOK, Busy
    <2>2. OtherBytes(j) + size <= Budget
      BY <1>5 DEF Reserve
    <2>3. M = L /\ j \in L
      BY <1>5, <2>1 DEF Reserve, L, M
    <2>4. reserved'[j] = size /\ \A k \in Jobs \ {j} : reserved'[k] = reserved[k]
      BY <1>5, <2>1 DEF Reserve, Set, TypeOK
    <2> HIDE DEF j
    <2>5. Total(reserved', L) = reserved'[j] + Total(reserved', L \ {j})
      BY <1>1, <1>3, <2>3, TotalTakes
    <2>6. IsFiniteSet(L \ {j})
      BY <1>1, FS_Subset
    <2>7. \A x \in L \ {j} : reserved[x] \in Nat /\ reserved'[x] = reserved[x]
      BY <1>1, <1>3, <2>4
    <2>8. Total(reserved', L \ {j}) = Total(reserved, L \ {j})
      BY <2>6, <2>7, TotalAgrees
    <2>9. OtherBytes(j) = Total(reserved, L \ {j})
      BY <1>2, <2>1, LiveTotal
    <2>10. Total(reserved, L \ {j}) \in Nat /\ size \in Nat
      BY <2>6, <2>7, TotalNat, JobsAssumption
    <2> QED BY <1>2, <1>3, <2>2, <2>3, <2>4, <2>5, <2>8, <2>9, <2>10 DEF BudgetInv
  <1> QED BY <1>4, <1>5, ReservationStep DEF ReserveStep

-----------------------------------------------------------------------------
\* The inductive invariant: the rows, the loops and the owners constrain each
\* other, so none of the parts is inductive alone.
Inv ==
  /\ TypeOK /\ RowInv /\ SlotInv /\ OwnerInv /\ OneDeliveryPerUpload /\ TenantCapHolds
  /\ HeldInv /\ BudgetInv

\* Every reachable state satisfies the inductive invariant (store/workflows.rs
\* and the claim loops of api/outbound/workflows.rs).
THEOREM Invariance == Spec => []Inv
  <1>1. Init => Inv
    <2> SUFFICES ASSUME Init PROVE Inv
      OBVIOUS
    <2>1. TypeOK
      BY JobsAssumption DEF Init, TypeOK, States, NoLegs
    <2>2. RowInv /\ SlotInv
      BY DEF Init, RowInv, RowOK, SlotInv, SlotOK, Busy
    <2>3. OwnerInv
      BY DEF Init, OwnerInv, NoStrandedJob, Running
    <2>4. OneDeliveryPerUpload
      BY DEF Init, OneDeliveryPerUpload, Received
    <2>5. TenantCapHolds
      <3>1. {j \in Jobs : owner[j] = boot /\ Running(j)} = {}
        BY DEF Init, Running
      <3>2. Cardinality({}) = 0 /\ ClaimCap \in Nat
        BY FS_EmptySet, JobsAssumption
      <3> QED BY <3>1, <3>2 DEF TenantCapHolds
    <2>6. HeldInv
      BY DEF Init, HeldInv
    <2>7. BudgetInv
      <3>1. IsFiniteSet(Jobs) /\ Live = Jobs /\ Budget \in Nat
        BY JobsAssumption DEF Init, Live
      <3>2. \A j \in Jobs : reserved[j] = 0
        BY DEF Init
      <3>3. Total(reserved, Jobs) = 0
        BY <3>1, <3>2, TotalZero
      <3> QED BY <3>1, <3>3 DEF BudgetInv
    <2> QED BY <2>1, <2>2, <2>3, <2>4, <2>5, <2>6, <2>7 DEF Inv
  <1>2. Inv /\ [Next]_vars => Inv'
    <2> SUFFICES ASSUME Inv, [Next]_vars PROVE Inv'
      OBVIOUS
    <2>1. /\ TypeOK /\ RowInv /\ SlotInv /\ OwnerInv /\ OneDeliveryPerUpload
          /\ TenantCapHolds /\ HeldInv /\ BudgetInv
      BY DEF Inv
    <2>2. TypeOK'
      BY <2>1, TypeInductive
    <2>3. RowInv'
      BY <2>1, <2>2, RowInductive
    <2>4. SlotInv'
      BY <2>1, <2>2, SlotInductive
    <2>5. OwnerInv'
      BY <2>1, <2>2, OwnerInductive
    <2>6. OneDeliveryPerUpload'
      BY <2>1, UploadInductive
    <2>7. TenantCapHolds'
      BY <2>1, CapInductive
    <2>8. HeldInv'
      BY <2>1, <2>2, HeldInductive
    <2>9. BudgetInv'
      BY <2>1, <2>2, BudgetInductive
    <2> QED BY <2>2, <2>3, <2>4, <2>5, <2>6, <2>7, <2>8, <2>9 DEF Inv
  <1> QED BY <1>1, <1>2, PTL DEF Spec

\* The delivery rows, the files and the loops are well typed in every
\* reachable state; in particular attempts never go below zero.
THEOREM TypeCorrect == Spec => []TypeOK
  <1>1. Inv => TypeOK
    BY DEF Inv
  <1> QED BY <1>1, Invariance, PTL

\* Neither a destination nor a link shows files whose policy asks for an
\* approval they do not have (export_in, delivery_access_in).
THEOREM ApprovalHolds == Spec => []NothingUnapproved
  <1>1. Inv => NothingUnapproved
    BY DEF Inv, RowInv, RowOK, NothingUnapproved, Accessible, Released
  <1> QED BY <1>1, Invariance, PTL

\* complete_delivery_export marks a delivery ready only when every
\* destination of its policy holds it, and later steps keep that true.
THEOREM ReadyDelivered == Spec => []ReadyIsDelivered
  <1>1. Inv => ReadyIsDelivered
    BY PolicyType DEF Inv, RowInv, RowOK, ReadyIsDelivered
  <1> QED BY <1>1, Invariance, PTL

\* claim_delivery_job may skip the jobs of its own process: each has a loop.
THEOREM NoneStranded == Spec => []NoStrandedJob
  <1>1. Inv => NoStrandedJob
    BY DEF Inv, OwnerInv
  <1> QED BY <1>1, Invariance, PTL

\* queue_received and reprocess_received_job never leave two deliveries of
\* one package in force.
THEOREM OnePerUpload == Spec => []OneDeliveryPerUpload
  <1>1. Inv => OneDeliveryPerUpload
    BY DEF Inv
  <1> QED BY <1>1, Invariance, PTL

\* claim_delivery_job never puts more jobs of a tenant on one process than
\* its count guard says.
THEOREM CapHolds == Spec => []TenantCapHolds
  <1>1. Inv => TenantCapHolds
    BY DEF Inv
  <1> QED BY <1>1, Invariance, PTL

\* reserve_delivery_snapshot admits a payload only within the budget, and
\* neither an operator nor a retirement gives back the bytes of a payload that
\* is still on disk.
THEOREM SnapshotsKept == Spec => []SnapshotsAccounted
  <1>1. Inv => SnapshotsAccounted
    BY LiveTotal DEF Inv, HeldInv, BudgetInv, SnapshotsAccounted
  <1> QED BY <1>1, Invariance, PTL

\* No worker, operator or restart brings a withdrawn delivery back.
THEOREM WithdrawalFinal == Spec => WithdrawnIsFinal
  <1>1. TypeOK /\ [Next]_vars => [\A j \in Jobs : state[j] \in Withdrawn => state'[j] \in Withdrawn]_vars
    BY WithdrawnStep
  <1> QED BY <1>1, TypeCorrect, PTL DEF Spec, WithdrawnIsFinal

------------------------------------------------------------------------------
\* The receiving client.

Stages ==
  {"idle", "lock", "plan", "reach", "mint", "save", "transport", "check", "open", "opened", "inspect",
   "source", "identity", "name", "stream", "publish", "unname", "saved", "forget"}
Contents == Seq(Deliveries \cup {Bad})
TakerRecords ==
  [pc : Stages, delivery : Deliveries \cup {NoDelivery}, via : {"fetch", "http"}, resume : BOOLEAN,
   owned : BOOLEAN, renew : BOOLEAN, joined : BOOLEAN, journal : 0 .. Nodes, id : 0 .. Nodes,
   match : BOOLEAN, hashed : Contents]
\* The values of the variables, in full.
FetchTypes ==
  /\ FetchTypeOK
  /\ bytes \in [1 .. Nodes -> Contents] /\ durable \in [1 .. Nodes -> Contents]
  /\ taker \in [Takers -> TakerRecords]

\* The stages of a fetch before its file is saved, those without an open
\* journal, and those with its lock in which the file may be written.
Fetching == {"lock", "plan", "reach", "mint", "save", "transport"}
Closed == Fetching \cup {"idle", "check", "open", "saved", "forget"}
Writing == {"inspect", "source", "identity", "name", "stream", "publish"}
\* What a receive's stage says of the rest of its record.
Sound(k) ==
  /\ k.pc \in Closed => k.journal = 0 /\ k.id = 0
  /\ k.pc \notin Closed => k.journal # 0
  /\ k.pc \in {"opened", "inspect"} => k.id = 0
  /\ k.pc \in {"name", "stream", "publish", "unname"} => k.id # 0
  /\ k.pc \in {"source", "identity"} /\ k.match => k.id # 0
  /\ k.pc # "idle" => k.delivery \in Deliveries
  /\ k.pc = "idle" => k.via = "http"
  /\ k.pc \in Fetching \cup {"saved", "forget"} => k.via = "fetch"
  /\ Len(k.hashed) <= Blocks
TakersSound == \A t \in Takers : Sound(taker[t])

KeptNodes == {k[1] : k \in kept}
\* A file is a journal, an identity or a published one.
NamesApart ==
  /\ journalAt # 0 => journalAt # idAt /\ journalAt \notin KeptNodes
  /\ idAt \notin KeptNodes
  /\ destAt # 0 => destAt \in KeptNodes
HandlesApart ==
  \A t \in Takers :
    /\ taker[t].pc \in Writing => taker[t].journal \notin KeptNodes
    /\ taker[t].journal # 0 => taker[t].journal # idAt
    /\ taker[t].id \notin KeptNodes
    /\ taker[t].id # 0 => taker[t].id # journalAt
    /\ taker[t].id # 0 => \A o \in Takers : taker[t].id # taker[o].journal
\* A journal has one receive that writes it.
JournalsExclusive ==
  \A t, o \in Takers :
    t # o /\ taker[t].journal = taker[o].journal /\ taker[t].journal # 0 =>
      Doing(t, "opened") \/ Doing(o, "opened")
FilesApart == NamesApart /\ HandlesApart /\ JournalsExclusive
\* Identities are synced as they are written, published files were.
FilesSynced ==
  /\ \A k \in kept : durable[k[1]] = Whole(k[2])
  /\ idAt # 0 => durable[idAt] = bytes[idAt]
  /\ \A t \in Takers : taker[t].id # 0 => durable[taker[t].id] = bytes[taker[t].id]
\* What is hashed is what was written.
HashedIsWritten ==
  \A t \in Takers :
    /\ Doing(t, "name") => bytes[taker[t].journal] = <<>> /\ durable[taker[t].journal] = <<>>
    /\ taker[t].pc \in {"stream", "publish"} => bytes[taker[t].journal] = taker[t].hashed
    /\ Doing(t, "publish") => durable[taker[t].journal] = taker[t].hashed
KeptLanded == \A k \in kept : k[2] \in landed
FolderHeld == FilesApart /\ FilesSynced /\ HashedIsWritten /\ KeptLanded /\ LandedIntact

Of1(blocks, d) == \A i \in DOMAIN blocks : blocks[i] \in {d, Bad}
OwnBlocks(n, d) == Of1(bytes[n], d) /\ Of1(durable[n], d)
\* Unless the user took a journal away: the receive that holds the lock of one
\* is its only writer, and the identity beside it names what it has.
LockHeld ==
  \A t \in Takers :
    /\ taker[t].pc \in Writing => journalAt = taker[t].journal
    /\ taker[t].pc \in Writing \ {"inspect"} => idAt \in {taker[t].id, 0}
    /\ taker[t].pc \in {"source", "identity"} /\ taker[t].match =>
         taker[t].id # 0 /\ bytes[taker[t].id] = <<Of(t)>> /\ OwnBlocks(taker[t].journal, Of(t))
         /\ Of1(taker[t].hashed, Of(t))
    /\ taker[t].pc \in {"stream", "publish"} =>
         bytes[taker[t].id] = <<Of(t)>> /\ OwnBlocks(taker[t].journal, Of(t))
JournalNamed ==
  journalAt # 0 /\ idAt # 0 => \A d \in Deliveries : bytes[idAt] = <<d>> => OwnBlocks(journalAt, d)
PrefixHeld == ~cleared => LockHeld /\ JournalNamed /\ ~misread

\* One fetch has a stage, knows whether its capability is saved, and reaches
\* for the ticket only while nothing that was delivered is there.
StageKept(t) == taker[t].via = "fetch" /\ ~Doing(t, "lock")
StagesHeld ==
  /\ \A t, o \in Takers : t # o /\ StageKept(t) /\ StageKept(o) => Of(t) # Of(o)
  /\ \A t \in Takers :
       /\ taker[t].pc \in {"plan", "reach", "mint", "save"} => taker[t].owned = sidecar[Of(t)]
       /\ StageKept(t) /\ taker[t].pc \notin {"plan", "reach", "mint", "save"} => sidecar[Of(t)]
       /\ taker[t].pc \in {"reach", "mint", "save", "transport"} =>
            ticket[Of(t)] # "delivered" \/ Of(t) \in landed
       /\ taker[t].pc \in {"unname", "saved", "forget"} => Of(t) \in landed
FetchInv ==
  FetchTypes /\ TakersSound /\ FolderHeld /\ PrefixHeld /\ StagesHeld /\ DeliveredIsKept

\* The blocks of a file.
LEMMA ContentsKnown ==
  /\ <<>> \in Contents /\ Len(<<>>) = 0
  /\ \A d \in Deliveries : <<d>> \in Contents /\ Len(<<d>>) = 1
  /\ \A d \in Deliveries : Whole(d) \in Contents /\ Len(Whole(d)) = Blocks
  /\ \A d, e \in Deliveries : Whole(d) = Whole(e) => d = e
<1>1. Blocks \in Nat /\ 1 \in 1 .. Blocks
  BY FetchAssumption
<1>2. \A d \in Deliveries : Whole(d) \in Contents /\ Len(Whole(d)) = Blocks
  BY <1>1 DEF Whole, Contents
<1>3. \A d \in Deliveries : Whole(d)[1] = d
  BY <1>1 DEF Whole
<1> QED
  BY <1>2, <1>3 DEF Contents

LEMMA WriteAppends ==
  ASSUME NEW h \in Contents, NEW b \in Deliveries \cup {Bad}
  PROVE  /\ WriteAt(h, Len(h) + 1, b) = Append(h, b)
         /\ Append(h, b) \in Contents /\ Len(Append(h, b)) = Len(h) + 1
         /\ \A d : b \in {d, Bad} /\ Of1(h, d) => Of1(Append(h, b), d)
<1>1. Len(h) \in Nat /\ Append(h, b) \in Contents /\ Len(Append(h, b)) = Len(h) + 1
      /\ DOMAIN h = 1 .. Len(h) /\ DOMAIN Append(h, b) = 1 .. Len(h) + 1
      /\ Append(h, b)[Len(h) + 1] = b /\ \A i \in 1 .. Len(h) : Append(h, b)[i] = h[i]
  BY DEF Contents
<1>2. WriteAt(h, Len(h) + 1, b) = [i \in 1 .. Len(h) + 1 |-> IF i = Len(h) + 1 THEN b ELSE h[i]]
  BY <1>1 DEF WriteAt
<1>3. WriteAt(h, Len(h) + 1, b) = Append(h, b)
  <2> DEFINE w == [i \in 1 .. Len(h) + 1 |-> IF i = Len(h) + 1 THEN b ELSE h[i]]
  <2>1. \A i \in 1 .. Len(h) + 1 : w[i] \in Deliveries \cup {Bad}
    BY <1>1 DEF Contents
  <2>2. w \in Contents /\ Len(w) = Len(h) + 1
    BY <1>1, <2>1 DEF Contents
  <2>3. \A i \in 1 .. Len(w) : w[i] = Append(h, b)[i]
    BY <1>1, <2>2
  <2>4. w = Append(h, b)
    BY <1>1, <2>2, <2>3, SeqEqual DEF Contents
  <2> QED
    BY <1>2, <2>4
<1> QED
  BY <1>1, <1>3 DEF Of1

LEMMA RestingSound == Resting \in TakerRecords /\ Sound(Resting)
  BY FetchAssumption, ContentsKnown DEF Resting, TakerRecords, Stages, Sound, Closed, Fetching

LEMMA TakerEdits ==
  ASSUME NEW k \in TakerRecords, NEW pc \in Stages
  PROVE  /\ [k EXCEPT !.pc = pc] \in TakerRecords
         /\ \A b \in BOOLEAN : [k EXCEPT !.pc = pc, !.owned = b] \in TakerRecords
         /\ [k EXCEPT !.via = "http", !.pc = pc, !.owned = FALSE] \in TakerRecords
         /\ [k EXCEPT !.pc = pc, !.joined = TRUE] \in TakerRecords
         /\ [k EXCEPT !.joined = TRUE] \in TakerRecords
         /\ [k EXCEPT !.pc = pc, !.renew = TRUE, !.owned = FALSE] \in TakerRecords
         /\ \A n \in 0 .. Nodes : [k EXCEPT !.pc = pc, !.journal = n] \in TakerRecords
         /\ \A n \in 0 .. Nodes, b \in BOOLEAN, h \in Contents :
              [k EXCEPT !.pc = pc, !.id = n, !.match = b, !.hashed = h] \in TakerRecords
         /\ \A h \in Contents : [k EXCEPT !.pc = pc, !.hashed = h] \in TakerRecords
         /\ \A h \in Contents : [k EXCEPT !.hashed = h] \in TakerRecords
         /\ \A n \in 0 .. Nodes : [k EXCEPT !.id = n, !.pc = pc] \in TakerRecords
         /\ [k EXCEPT !.pc = pc, !.journal = 0, !.id = 0] \in TakerRecords
<1>1. 0 \in 0 .. Nodes /\ TRUE \in BOOLEAN /\ FALSE \in BOOLEAN /\ "http" \in {"fetch", "http"}
  BY FetchAssumption
<1>2. [k EXCEPT !.pc = pc, !.joined = TRUE] \in TakerRecords /\ [k EXCEPT !.joined = TRUE] \in TakerRecords
  BY DEF TakerRecords
<1>3. [k EXCEPT !.pc = pc] \in TakerRecords /\ [k EXCEPT !.via = "http", !.pc = pc, !.owned = FALSE] \in TakerRecords
  BY DEF TakerRecords
<1>4. [k EXCEPT !.pc = pc, !.renew = TRUE, !.owned = FALSE] \in TakerRecords
  BY DEF TakerRecords
<1>5. [k EXCEPT !.pc = pc, !.journal = 0, !.id = 0] \in TakerRecords
  BY <1>1 DEF TakerRecords
<1>6. \A b \in BOOLEAN : [k EXCEPT !.pc = pc, !.owned = b] \in TakerRecords
  BY DEF TakerRecords
<1>7. \A n \in 0 .. Nodes : [k EXCEPT !.pc = pc, !.journal = n] \in TakerRecords
      /\ [k EXCEPT !.id = n, !.pc = pc] \in TakerRecords
  BY DEF TakerRecords
<1>8. \A h \in Contents : [k EXCEPT !.pc = pc, !.hashed = h] \in TakerRecords
      /\ [k EXCEPT !.hashed = h] \in TakerRecords
  BY DEF TakerRecords
<1>9. \A n \in 0 .. Nodes, b \in BOOLEAN, h \in Contents :
        [k EXCEPT !.pc = pc, !.id = n, !.match = b, !.hashed = h] \in TakerRecords
  BY DEF TakerRecords
<1> QED
  BY <1>2, <1>3, <1>4, <1>5, <1>6, <1>7, <1>8, <1>9

\* What one receive's step leaves of the others.
LEMMA OneTaker ==
  ASSUME FetchTypes, TakersSound, NEW t \in Takers, NEW x \in TakerRecords, Sound(x), taker' = [taker EXCEPT ![t] = x]
  PROVE  /\ taker' \in [Takers -> TakerRecords] /\ taker'[t] = x
         /\ \A o \in Takers \ {t} : taker'[o] = taker[o]
         /\ TakersSound'
BY DEF FetchTypes, TakersSound

LEMMA FetchInitInv == FetchInit => FetchInv
<1> SUFFICES ASSUME FetchInit PROVE FetchInv
  OBVIOUS
<1>1. PICK d \in Deliveries \cup {NoDelivery} :
        /\ journalAt = (IF d # NoDelivery THEN 1 ELSE 0) /\ idAt = (IF d # NoDelivery THEN 2 ELSE 0)
        /\ bytes = [n \in 1 .. Nodes |-> IF d # NoDelivery /\ n <= 2 THEN <<d>> ELSE <<>>]
  BY DEF FetchInit
<1>2. {1, 2} \subseteq 1 .. Nodes /\ Nodes \in Nat /\ Blocks \in Nat /\ Blocks > 1
  BY FetchAssumption
<1>3. bytes \in [1 .. Nodes -> Contents] /\ durable = bytes
      /\ \A n \in 1 .. Nodes : Len(bytes[n]) <= Blocks
  BY <1>1, <1>2, ContentsKnown DEF FetchInit
<1>4. FetchTypes
  <2>1. taker \in [Takers -> TakerRecords]
    BY RestingSound DEF FetchInit
  <2>2. {journalAt, idAt, destAt} \subseteq 0 .. Nodes
    BY <1>1, <1>2 DEF FetchInit
  <2>3. takes \in Nat /\ mishaps \in Nat
    BY FetchAssumption DEF FetchInit
  <2> QED
    BY <1>3, <2>1, <2>2, <2>3 DEF FetchInit, FetchTypes, FetchTypeOK
<1>5. TakersSound
  BY RestingSound DEF FetchInit, TakersSound
<1>6. FolderHeld
  BY <1>1, <1>3 DEF FetchInit, FolderHeld, FilesApart, NamesApart, HandlesApart, JournalsExclusive,
     FilesSynced, HashedIsWritten, KeptLanded, LandedIntact, Resting, Writing, Doing, KeptNodes
<1>7. PrefixHeld
  <2>1. LockHeld /\ ~misread
    BY DEF FetchInit, LockHeld, Resting, Writing
  <2>2. journalAt # 0 => \A e \in Deliveries : bytes[idAt] = <<e>> => Of1(bytes[journalAt], e)
    BY <1>1, <1>2 DEF Of1
  <2> QED
    BY <1>3, <2>1, <2>2 DEF PrefixHeld, JournalNamed, OwnBlocks
<1>8. StagesHeld /\ DeliveredIsKept
  BY DEF FetchInit, StagesHeld, StageKept, DeliveredIsKept, Resting, Doing
<1> QED
  BY <1>4, <1>5, <1>6, <1>7, <1>8 DEF FetchInv

\* A step that leaves the folder alone, of a receive that has no journal open
\* afterwards or keeps what it has.
LEMMA FolderGoesOn ==
  ASSUME FetchInv, NEW t \in Takers, NEW x \in TakerRecords, Sound(x), taker' = [taker EXCEPT ![t] = x],
         UNCHANGED <<journalAt, idAt, destAt, kept, bytes, durable, landed, misread, cleared>>,
         \/ x.pc \in Closed
         \/ /\ x.pc = taker[t].pc /\ x.journal = taker[t].journal /\ x.id = taker[t].id
            /\ x.match = taker[t].match /\ x.hashed = taker[t].hashed /\ x.delivery = taker[t].delivery
  PROVE  FolderHeld' /\ PrefixHeld'
<1>1. FetchTypes /\ TakersSound /\ FolderHeld /\ PrefixHeld
  BY DEF FetchInv
<1>2. taker'[t] = x /\ \A o \in Takers \ {t} : taker'[o] = taker[o]
  BY <1>1, OneTaker
<1>3. x.pc \in Closed => x.journal = 0 /\ x.id = 0
  BY DEF Sound
<1>4. x.pc \in Closed => x.pc \notin Writing \cup {"opened"}
  BY DEF Closed, Writing, Fetching
<1>5. FilesApart'
  <2>1. NamesApart'
    BY <1>1 DEF FolderHeld, FilesApart, NamesApart, KeptNodes
  <2>2. HandlesApart'
    <3>1. 0 \notin KeptNodes
      BY <1>1 DEF FetchTypes, FetchTypeOK, KeptNodes
    <3> QED
      BY <1>1, <1>2, <1>3, <1>4, <3>1 DEF FolderHeld, FilesApart, HandlesApart, KeptNodes
  <2>3. JournalsExclusive'
    BY <1>1, <1>2, <1>3, <1>4 DEF FolderHeld, FilesApart, JournalsExclusive, Doing
  <2> QED
    BY <2>1, <2>2, <2>3 DEF FilesApart
<1>6. FilesSynced' /\ KeptLanded' /\ LandedIntact'
  BY <1>1, <1>2, <1>3 DEF FolderHeld, FilesSynced, KeptLanded, LandedIntact
<1>7. HashedIsWritten'
  BY <1>1, <1>2, <1>4 DEF FolderHeld, HashedIsWritten, Doing, Writing
<1>8. PrefixHeld'
  <2>1. ASSUME LockHeld, NEW o \in Takers PROVE LockHeld!(o)'
    <3>1. CASE o = t /\ x.pc \in Closed
      BY <1>2, <1>4, <3>1 DEF Writing
    <3>2. CASE o = t /\ x.pc \notin Closed
      BY <1>2, <2>1, <3>2 DEF LockHeld, OwnBlocks, Of1, Of
    <3>3. CASE o # t
      BY <1>2, <2>1, <3>3 DEF LockHeld, OwnBlocks, Of1, Of
    <3> QED
      BY <3>1, <3>2, <3>3
  <2>2. JournalNamed => JournalNamed'
    BY DEF JournalNamed, OwnBlocks, Of1
  <2> QED
    BY <1>1, <2>1, <2>2 DEF PrefixHeld, LockHeld
<1> QED
  BY <1>5, <1>6, <1>7, <1>8 DEF FolderHeld

\* A step of the landing, or the end of a receive or of its fetch, as the
\* stages see it.
Landing == {"check", "open", "opened", "unname", "saved"} \cup Writing
LEMMA StagesGoOn ==
  ASSUME FetchInv, NEW t \in Takers, NEW x \in TakerRecords, Sound(x), taker' = [taker EXCEPT ![t] = x],
         UNCHANGED <<stage, sidecar, ticket>>, landed \subseteq landed',
         \/ x.pc \in {"idle", "check"} /\ x.via = "http"
         \/ x.pc = "lock"
         \/ /\ x.pc \in Landing /\ taker[t].pc \in Landing
            /\ x.via = taker[t].via /\ x.delivery = taker[t].delivery
            /\ x.pc \in {"unname", "saved"} => x.delivery \in landed'
  PROVE  StagesHeld' /\ DeliveredIsKept'
<1>1. FetchTypes /\ TakersSound /\ StagesHeld /\ DeliveredIsKept
  BY DEF FetchInv
<1>2. taker'[t] = x /\ \A o \in Takers \ {t} : taker'[o] = taker[o]
  BY <1>1, OneTaker
<1>3. DeliveredIsKept'
  BY <1>1 DEF DeliveredIsKept
<1>4. StagesHeld'
  BY <1>1, <1>2 DEF StagesHeld, StageKept, Of, Doing, Landing, Writing
<1> QED
  BY <1>3, <1>4

\* A receive that ends and leaves everything as it is.
LEMMA EndKeeps ==
  ASSUME FetchInv, NEW t \in Takers, Ends(t),
         UNCHANGED <<journalAt, idAt, destAt, kept, bytes, durable, landed, misread, cleared, stage,
                     sidecar, ticket, takes>>,
         mishaps' \in Nat
  PROVE  FetchInv'
<1>1. FetchTypes /\ TakersSound /\ taker' = [taker EXCEPT ![t] = Resting]
      /\ Resting.pc = "idle" /\ Resting.via = "http"
  BY DEF FetchInv, Ends, Turns, Resting
<1>2. FetchTypes' /\ TakersSound'
  <2>1. taker' \in [Takers -> TakerRecords] /\ TakersSound'
    BY <1>1, RestingSound, OneTaker
  <2> QED
    BY <1>1, <2>1 DEF FetchTypes, FetchTypeOK
<1>3. FolderHeld' /\ PrefixHeld'
  BY <1>1, RestingSound, FolderGoesOn DEF Closed
<1>4. StagesHeld' /\ DeliveredIsKept'
  BY <1>1, RestingSound, StagesGoOn
<1> QED
  BY <1>2, <1>3, <1>4 DEF FetchInv


\* A step that leaves the folder alone, once its stages are settled.
LEMMA FolderQuiet ==
  ASSUME FetchInv, NEW t \in Takers, NEW x \in TakerRecords, Sound(x), taker' = [taker EXCEPT ![t] = x],
         UNCHANGED folder,
         \/ x.pc \in Closed
         \/ /\ x.pc = taker[t].pc /\ x.journal = taker[t].journal /\ x.id = taker[t].id
            /\ x.match = taker[t].match /\ x.hashed = taker[t].hashed /\ x.delivery = taker[t].delivery,
         stage' \in [Deliveries -> {"none", "part", "full", "whole"}], sidecar' \in [Deliveries -> BOOLEAN],
         ticket' \in [Deliveries -> {"none", "reserved", "delivered"}],
         takes' \in Nat, mishaps' \in Nat,
         StagesHeld', DeliveredIsKept'
  PROVE  FetchInv'
<1>1. FetchTypes /\ TakersSound
  BY DEF FetchInv
<1>2. UNCHANGED <<journalAt, idAt, destAt, kept, bytes, durable, landed, misread, cleared>>
  BY DEF folder
<1>3. taker' \in [Takers -> TakerRecords] /\ TakersSound'
  BY <1>1, OneTaker
<1>4. FetchTypes'
  BY <1>1, <1>2, <1>3 DEF FetchTypes, FetchTypeOK
<1>5. FolderHeld' /\ PrefixHeld'
  BY <1>2, FolderGoesOn
<1> QED
  BY <1>3, <1>4, <1>5 DEF FetchInv

\* A receive that ends, goes over HTTP or waits for the stage's lock.
LEMMA FetchLeft ==
  ASSUME FetchInv, NEW t \in Takers, NEW x \in TakerRecords, Sound(x), taker' = [taker EXCEPT ![t] = x],
         UNCHANGED folder, UNCHANGED fetched,
         \/ x.pc \in {"idle", "check"} /\ x.via = "http"
         \/ x.pc = "lock"
         \/ /\ x.pc \in {"check", "open", "saved"} /\ taker[t].pc \in Landing
            /\ x.via = taker[t].via /\ x.delivery = taker[t].delivery
            /\ x.pc = "saved" => x.delivery \in landed,
         takes' \in Nat, mishaps' \in Nat
  PROVE  FetchInv'
<1>1. FetchTypes
  BY DEF FetchInv
<1>2. UNCHANGED <<stage, sidecar, ticket>> /\ landed \subseteq landed' /\ landed' = landed
  BY DEF fetched, folder
<1>3. x.pc \in Closed
  BY DEF Closed, Fetching
<1>4. StagesHeld' /\ DeliveredIsKept'
  BY <1>2, StagesGoOn DEF Landing
<1> QED
  BY <1>1, <1>2, <1>3, <1>4, FolderQuiet DEF FetchTypes, FetchTypeOK

\* A receive that is over.
LEMMA FetchOver ==
  ASSUME FetchInv, NEW t \in Takers, Ends(t), UNCHANGED folder, UNCHANGED fetched, takes' \in Nat, mishaps' \in Nat
  PROVE  FetchInv'
<1>1. taker' = [taker EXCEPT ![t] = Resting] /\ Resting.pc = "idle" /\ Resting.via = "http"
  BY DEF Ends, Turns, Resting
<1> QED
  BY <1>1, RestingSound, FetchLeft

\* What a receive's record is.
LEMMA OneRecord ==
  ASSUME FetchInv, NEW t \in Takers
  PROVE  /\ taker[t] \in TakerRecords /\ Sound(taker[t])
         /\ taker[t].pc # "idle" => taker[t].delivery \in Deliveries
         /\ takes \in Nat /\ mishaps \in Nat
BY DEF FetchInv, FetchTypes, FetchTypeOK, TakersSound, Sound

LEMMA TakeKeeps ==
  ASSUME FetchInv, NEW t \in Takers, NEW d \in Deliveries, NEW resume \in BOOLEAN, Take(t, d, resume)
  PROVE  FetchInv'
<1>1. PICK via \in {"fetch", "http"} :
        taker' = [taker EXCEPT ![t] = [Resting EXCEPT !.pc = IF via = "fetch" THEN "lock" ELSE "check", !.via = via,
                                                     !.delivery = d, !.resume = resume]]
  BY DEF Take, Turns
<1> DEFINE x == [Resting EXCEPT !.pc = IF via = "fetch" THEN "lock" ELSE "check", !.via = via,
                                !.delivery = d, !.resume = resume]
<1>2. x \in TakerRecords /\ Sound(x) /\ (x.pc = "lock" \/ (x.pc = "check" /\ x.via = "http"))
  <2>1. /\ via = "fetch" => x.pc = "lock"
        /\ via = "http" => x.pc = "check"
        /\ x.via = via /\ x.delivery = d /\ x.journal = 0 /\ x.id = 0 /\ x.hashed = <<>>
    BY DEF Resting
  <2>2. x \in TakerRecords
    BY RestingSound DEF TakerRecords, Stages
  <2>3. Sound(x)
    BY <2>1, FetchAssumption, ContentsKnown DEF Sound, Closed, Fetching
  <2> QED
    BY <2>1, <2>2, <2>3
<1>3. taker' = [taker EXCEPT ![t] = x]
  BY <1>1
<1>4. UNCHANGED folder /\ UNCHANGED fetched /\ takes' \in Nat /\ mishaps' \in Nat
  BY OneRecord DEF Take
<1> HIDE DEF x
<1> QED
  BY <1>2, <1>3, <1>4, FetchLeft

\* A fetch that gives up its stage for HTTP.
LEMMA OverHttpKeeps ==
  ASSUME FetchInv, NEW t \in Takers, taker[t].pc \in Fetching, OverHttp(t), UNCHANGED folder, UNCHANGED fetched,
         UNCHANGED budget
  PROVE  FetchInv'
<1> DEFINE x == [taker[t] EXCEPT !.via = "http", !.pc = "check", !.owned = FALSE]
<1>1. taker[t] \in TakerRecords /\ Sound(taker[t]) /\ takes \in Nat /\ mishaps \in Nat
  BY OneRecord
<1>2. x \in TakerRecords
  BY <1>1, TakerEdits DEF Stages
<1>3. x.pc = "check" /\ x.via = "http" /\ x.journal = taker[t].journal /\ x.id = taker[t].id
      /\ x.hashed = taker[t].hashed /\ x.delivery = taker[t].delivery
  BY <1>1 DEF TakerRecords
<1>4. Sound(x)
  BY <1>1, <1>3 DEF Sound, Closed, Fetching
<1>5. taker' = [taker EXCEPT ![t] = x] /\ takes' \in Nat /\ mishaps' \in Nat
  BY <1>1 DEF OverHttp, Turns, budget
<1> HIDE DEF x
<1> QED
  BY <1>2, <1>3, <1>4, <1>5, FetchLeft

\* A fetch that goes from one of its stages to the next.
LEMMA FetchMoves ==
  ASSUME FetchInv, NEW t \in Takers, taker[t].pc \in Fetching \cup {"saved"}, NEW x \in TakerRecords,
         x.pc \in Fetching \cup {"check", "forget"}, x.via = taker[t].via, x.delivery = taker[t].delivery,
         x.journal = taker[t].journal, x.id = taker[t].id, x.hashed = taker[t].hashed,
         taker' = [taker EXCEPT ![t] = x], UNCHANGED folder, UNCHANGED budget,
         stage' \in [Deliveries -> {"none", "part", "full", "whole"}], sidecar' \in [Deliveries -> BOOLEAN],
         ticket' \in [Deliveries -> {"none", "reserved", "delivered"}],
         StagesHeld', DeliveredIsKept'
  PROVE  FetchInv'
<1>1. Sound(taker[t]) /\ takes \in Nat /\ mishaps \in Nat
  BY OneRecord
<1>2. Sound(x) /\ x.pc \in Closed
  BY <1>1 DEF Sound, Closed, Fetching
<1> QED
  BY <1>1, <1>2, FolderQuiet DEF budget

LEMMA StageTypes ==
  ASSUME FetchInv
  PROVE  /\ stage \in [Deliveries -> {"none", "part", "full", "whole"}] /\ sidecar \in [Deliveries -> BOOLEAN]
         /\ ticket \in [Deliveries -> {"none", "reserved", "delivered"}]
BY DEF FetchInv, FetchTypes, FetchTypeOK

\* The stages of the others, when only one delivery's change: no other fetch
\* has its stage.
LEMMA OthersStages ==
  ASSUME FetchInv, NEW t \in Takers, NEW x \in TakerRecords, Sound(x), taker' = [taker EXCEPT ![t] = x],
         x.delivery = Of(t), x.via = "fetch", StageKept(t), landed' = landed,
         \A d \in Deliveries \ {Of(t)} : stage'[d] = stage[d] /\ sidecar'[d] = sidecar[d] /\ ticket'[d] = ticket[d],
         x.pc \in {"plan", "reach", "mint", "save"} => x.owned = sidecar'[Of(t)],
         x.pc \notin {"lock", "plan", "reach", "mint", "save"} => sidecar'[Of(t)],
         x.pc \in {"reach", "mint", "save", "transport"} => ticket'[Of(t)] # "delivered" \/ Of(t) \in landed,
         x.pc \in {"unname", "saved", "forget"} => Of(t) \in landed,
         ticket'[Of(t)] = "delivered" /\ Of(t) \notin landed => sidecar'[Of(t)] /\ stage'[Of(t)] \in {"full", "whole"}
  PROVE  StagesHeld' /\ DeliveredIsKept'
<1>1. FetchTypes /\ TakersSound /\ StagesHeld /\ DeliveredIsKept
  BY DEF FetchInv
<1>2. taker'[t] = x /\ \A o \in Takers \ {t} : taker'[o] = taker[o]
  BY <1>1, OneTaker
<1>3. DeliveredIsKept'
  BY <1>1 DEF DeliveredIsKept
<1>4. \A o \in Takers \ {t} : StageKept(o) => Of(o) # Of(t)
  BY <1>1 DEF StagesHeld
<1>5. \A o \in Takers \ {t} : StageKept(o) => Of(o) \in Deliveries \ {Of(t)}
  BY <1>1, <1>4 DEF StageKept, Doing, TakersSound, Sound, Of
<1>6. ASSUME NEW o \in Takers \ {t} PROVE StagesHeld!2!(o)'
  <2>1. taker'[o] = taker[o] /\ StagesHeld!2!(o) /\ Sound(taker[o])
    BY <1>1, <1>2 DEF StagesHeld, TakersSound
  <2>2. CASE taker[o].pc \in {"plan", "reach", "mint", "save", "transport"} \/ StageKept(o)
    <3>1. StageKept(o)
      BY <2>1, <2>2 DEF StageKept, Doing, Sound, Fetching
    <3> QED
      BY <1>5, <2>1, <3>1 DEF Of, StageKept, Doing
  <2>3. CASE ~(taker[o].pc \in {"plan", "reach", "mint", "save", "transport"} \/ StageKept(o))
    BY <2>1, <2>3 DEF Of, StageKept, Doing
  <2> QED
    BY <2>2, <2>3
<1>7. StagesHeld!2!(t)'
  BY <1>2 DEF StageKept, Doing, Of
<1>8. \A o, p \in Takers : o # p /\ StageKept(o)' /\ StageKept(p)' => Of(o)' # Of(p)'
  BY <1>1, <1>2, <1>4 DEF StagesHeld, StageKept, Doing, Of
<1> QED
  BY <1>3, <1>6, <1>7, <1>8 DEF StagesHeld

LEMMA LockStageKeeps == ASSUME FetchInv, NEW t \in Takers, LockStage(t) PROVE FetchInv'
<1>1. taker[t] \in TakerRecords /\ Sound(taker[t]) /\ takes \in Nat /\ mishaps \in Nat
      /\ UNCHANGED folder /\ UNCHANGED fetched /\ UNCHANGED budget /\ taker[t].pc = "lock"
  BY OneRecord DEF LockStage, Doing
<1>2. CASE OverHttp(t)
  BY <1>1, <1>2, OverHttpKeeps DEF Fetching
<1>3. CASE Ends(t)
  BY <1>1, <1>3, FetchOver DEF budget
<1>4. CASE ~StageHeld(Of(t)) /\ Turns(t, [taker[t] EXCEPT !.pc = "plan", !.owned = sidecar[Of(t)]])
  <2> DEFINE x == [taker[t] EXCEPT !.pc = "plan", !.owned = sidecar[Of(t)]]
  <2>1. Of(t) \in Deliveries /\ sidecar[Of(t)] \in BOOLEAN /\ taker[t].via = "fetch"
    BY <1>1, StageTypes DEF Sound, Of, Fetching
  <2>2. x \in TakerRecords
    BY <1>1, <2>1, TakerEdits DEF Stages
  <2>3. x.pc = "plan" /\ x.via = "fetch" /\ x.delivery = Of(t) /\ x.owned = sidecar[Of(t)]
        /\ x.journal = taker[t].journal /\ x.id = taker[t].id /\ x.hashed = taker[t].hashed
    BY <1>1, <2>1 DEF TakerRecords, Of
  <2>4. taker' = [taker EXCEPT ![t] = x]
    BY <1>4 DEF Turns
  <2> HIDE DEF x
  <2>5. UNCHANGED <<stage, sidecar, ticket, landed>> /\ FetchTypes /\ StagesHeld /\ DeliveredIsKept
    BY <1>1 DEF fetched, folder, FetchInv
  <2>6. Sound(x) /\ TakersSound
    BY <1>1, <2>3 DEF Sound, Closed, Fetching, FetchInv, Of
  <2>7. taker'[t] = x /\ \A o \in Takers \ {t} : taker'[o] = taker[o]
    BY <2>2, <2>4, <2>5, <2>6, OneTaker
  <2>8. \A o \in Takers \ {t} : StageKept(o) => Of(o) # Of(t)
    BY <1>4 DEF StageHeld, StageKept
  <2>9. StagesHeld'
    BY <2>3, <2>5, <2>7, <2>8 DEF StagesHeld, StageKept, Doing, Of
  <2>10. DeliveredIsKept'
    BY <2>5 DEF DeliveredIsKept
  <2> QED
    BY <1>1, <2>1, <2>2, <2>3, <2>4, <2>5, <2>9, <2>10, StageTypes, FetchMoves DEF Fetching, Of
<1> QED
  BY <1>2, <1>3, <1>4 DEF LockStage

LEMMA PlanKeeps == ASSUME FetchInv, NEW t \in Takers, Plan(t) PROVE FetchInv'
<1>1. taker[t] \in TakerRecords /\ Sound(taker[t]) /\ takes \in Nat /\ mishaps \in Nat
      /\ UNCHANGED folder /\ UNCHANGED <<sidecar, ticket>> /\ UNCHANGED budget /\ taker[t].pc = "plan"
  BY OneRecord DEF Plan, Doing
<1>2. CASE Taken(t)
  BY <1>1, <1>2, FetchOver DEF budget, fetched, Plan
<1>3. CASE ~Taken(t)
  <2> DEFINE d == Of(t)
             whole == taker[t].owned /\ stage[d] \in {"full", "whole"}
             x == IF whole THEN [taker[t] EXCEPT !.pc = "check", !.joined = TRUE] ELSE [taker[t] EXCEPT !.pc = "reach"]
  <2>1. d \in Deliveries /\ taker[t].via = "fetch" /\ StageKept(t)
    BY <1>1 DEF Sound, Of, Fetching, StageKept, Doing
  <2>2. x \in TakerRecords
    BY <1>1, <2>1, TakerEdits DEF Stages
  <2>3. /\ x.pc = (IF whole THEN "check" ELSE "reach") /\ x.pc \in {"check", "reach"}
        /\ x.via = "fetch" /\ x.delivery = d /\ x.owned = taker[t].owned
        /\ x.journal = taker[t].journal /\ x.id = taker[t].id /\ x.hashed = taker[t].hashed
    BY <1>1, <2>1 DEF TakerRecords, Of
  <2>4. /\ taker' = [taker EXCEPT ![t] = x]
        /\ stage' = [stage EXCEPT ![d] = IF stage[d] = "whole" /\ ~taker[t].owned THEN "none" ELSE stage[d]]
    BY <1>3 DEF Turns, Plan, Moves
  <2>5. taker[t].owned = sidecar[d] /\ DeliveredIsKept
    BY <1>1 DEF FetchInv, StagesHeld, Of
  <2> HIDE DEF x
  <2>6. /\ stage' \in [Deliveries -> {"none", "part", "full", "whole"}]
        /\ stage'[d] = (IF stage[d] = "whole" /\ ~taker[t].owned THEN "none" ELSE stage[d])
        /\ \A e \in Deliveries \ {d} : stage'[e] = stage[e]
    BY <2>1, <2>4, StageTypes
  <2>7. ticket[d] = "delivered" /\ d \notin landed => sidecar[d] /\ stage[d] \in {"full", "whole"}
    BY <2>1, <2>5 DEF DeliveredIsKept
  <2>8. Sound(x)
    BY <1>1, <2>3 DEF Sound, Closed, Fetching, Of
  <2>9. landed' = landed
    BY <1>1 DEF folder
  <2>10. StagesHeld' /\ DeliveredIsKept'
    BY <1>1, <2>1, <2>2, <2>3, <2>4, <2>5, <2>6, <2>7, <2>8, <2>9, OthersStages
  <2> QED
    BY <1>1, <2>1, <2>2, <2>3, <2>4, <2>6, <2>10, StageTypes, FetchMoves DEF Fetching, Of
<1> QED
  BY <1>2, <1>3

LEMMA ReachKeeps == ASSUME FetchInv, NEW t \in Takers, Reach(t) PROVE FetchInv'
<1>1. taker[t] \in TakerRecords /\ Sound(taker[t]) /\ takes \in Nat /\ mishaps \in Nat
      /\ UNCHANGED folder /\ UNCHANGED fetched /\ UNCHANGED budget /\ taker[t].pc = "reach"
  BY OneRecord DEF Reach, Doing
<1>2. CASE OverHttp(t)
  BY <1>1, <1>2, OverHttpKeeps DEF Fetching
<1>3. CASE Ends(t)
  BY <1>1, <1>3, FetchOver DEF budget
<1>4. CASE Moves(t, IF taker[t].owned /\ ~taker[t].renew THEN "transport" ELSE "mint")
  <2> DEFINE pc == IF taker[t].owned /\ ~taker[t].renew THEN "transport" ELSE "mint"
             x == [taker[t] EXCEPT !.pc = pc]
  <2>1. Of(t) \in Deliveries /\ taker[t].via = "fetch" /\ StageKept(t)
    BY <1>1 DEF Sound, Of, Fetching, StageKept, Doing
  <2>2. x \in TakerRecords
    BY <1>1, TakerEdits DEF Stages
  <2>3. /\ x.pc \in {"mint", "transport"} /\ x.pc = pc /\ x.via = "fetch" /\ x.delivery = Of(t)
        /\ x.owned = taker[t].owned
        /\ x.journal = taker[t].journal /\ x.id = taker[t].id /\ x.hashed = taker[t].hashed
    BY <1>1, <2>1 DEF TakerRecords, Of
  <2>4. taker' = [taker EXCEPT ![t] = x]
    BY <1>4 DEF Moves
  <2> HIDE DEF x
  <2>5. UNCHANGED <<stage, sidecar, ticket, landed>>
    BY <1>1 DEF fetched, folder
  <2>6. /\ taker[t].owned = sidecar[Of(t)] /\ DeliveredIsKept
        /\ ticket[Of(t)] # "delivered" \/ Of(t) \in landed
    BY <1>1 DEF FetchInv, StagesHeld, Of
  <2>7. Sound(x)
    BY <1>1, <2>3 DEF Sound, Closed, Fetching, Of
  <2>8. StagesHeld' /\ DeliveredIsKept'
    BY <2>1, <2>2, <2>3, <2>4, <2>5, <2>6, <2>7, OthersStages
  <2> QED
    BY <1>1, <2>1, <2>2, <2>3, <2>4, <2>5, <2>8, StageTypes, FetchMoves DEF Fetching, Of
<1> QED
  BY <1>2, <1>3, <1>4 DEF Reach

LEMMA MintKeeps == ASSUME FetchInv, NEW t \in Takers, Mint(t) PROVE FetchInv'
<1>1. taker[t] \in TakerRecords /\ Sound(taker[t]) /\ takes \in Nat /\ mishaps \in Nat
      /\ UNCHANGED folder /\ UNCHANGED <<stage, sidecar>> /\ UNCHANGED budget /\ taker[t].pc = "mint"
  BY OneRecord DEF Mint, Doing
<1>2. CASE OverHttp(t) /\ UNCHANGED ticket
  BY <1>1, <1>2, OverHttpKeeps DEF Fetching, fetched
<1>3. CASE Ends(t) /\ UNCHANGED ticket
  BY <1>1, <1>3, FetchOver DEF budget, fetched
<1>4. CASE ticket[Of(t)] # "delivered" /\ ticket' = [ticket EXCEPT ![Of(t)] = "reserved"] /\ Moves(t, "save")
  <2> DEFINE x == [taker[t] EXCEPT !.pc = "save"]
  <2>1. Of(t) \in Deliveries /\ taker[t].via = "fetch" /\ StageKept(t)
    BY <1>1 DEF Sound, Of, Fetching, StageKept, Doing
  <2>2. x \in TakerRecords
    BY <1>1, TakerEdits DEF Stages
  <2>3. /\ x.pc = "save" /\ x.via = "fetch" /\ x.delivery = Of(t)
        /\ x.owned = taker[t].owned
        /\ x.journal = taker[t].journal /\ x.id = taker[t].id /\ x.hashed = taker[t].hashed
    BY <1>1, <2>1 DEF TakerRecords, Of
  <2>4. taker' = [taker EXCEPT ![t] = x]
    BY <1>4 DEF Moves
  <2> HIDE DEF x
  <2>5. /\ ticket' \in [Deliveries -> {"none", "reserved", "delivered"}] /\ ticket'[Of(t)] = "reserved"
        /\ \A e \in Deliveries \ {Of(t)} : ticket'[e] = ticket[e]
    BY <1>4, <2>1, StageTypes
  <2>6. taker[t].owned = sidecar[Of(t)] /\ landed' = landed
    BY <1>1 DEF FetchInv, StagesHeld, Of, folder
  <2>7. Sound(x)
    BY <1>1, <2>3 DEF Sound, Closed, Fetching, Of
  <2>8. StagesHeld' /\ DeliveredIsKept'
    BY <1>1, <2>1, <2>2, <2>3, <2>4, <2>5, <2>6, <2>7, OthersStages
  <2> QED
    BY <1>1, <2>1, <2>2, <2>3, <2>4, <2>5, <2>8, StageTypes, FetchMoves DEF Fetching, Of
<1> QED
  BY <1>2, <1>3, <1>4 DEF Mint

LEMMA SaveCapabilityKeeps == ASSUME FetchInv, NEW t \in Takers, SaveCapability(t) PROVE FetchInv'
<1>1. taker[t] \in TakerRecords /\ Sound(taker[t]) /\ takes \in Nat /\ mishaps \in Nat
      /\ UNCHANGED folder /\ UNCHANGED <<stage, ticket>> /\ UNCHANGED budget /\ taker[t].pc = "save"
  BY OneRecord DEF SaveCapability, Doing
<1>2. CASE Ends(t) /\ UNCHANGED sidecar
  BY <1>1, <1>2, FetchOver DEF budget, fetched
<1>3. CASE Moves(t, "transport") /\ sidecar' = [sidecar EXCEPT ![Of(t)] = TRUE]
  <2> DEFINE x == [taker[t] EXCEPT !.pc = "transport"]
  <2>1. Of(t) \in Deliveries /\ taker[t].via = "fetch" /\ StageKept(t)
    BY <1>1 DEF Sound, Of, Fetching, StageKept, Doing
  <2>2. x \in TakerRecords
    BY <1>1, TakerEdits DEF Stages
  <2>3. /\ x.pc = "transport" /\ x.via = "fetch" /\ x.delivery = Of(t)
        /\ x.journal = taker[t].journal /\ x.id = taker[t].id /\ x.hashed = taker[t].hashed
    BY <1>1, <2>1 DEF TakerRecords, Of
  <2>4. taker' = [taker EXCEPT ![t] = x]
    BY <1>3 DEF Moves
  <2> HIDE DEF x
  <2>5. /\ sidecar' \in [Deliveries -> BOOLEAN] /\ sidecar'[Of(t)]
        /\ \A e \in Deliveries \ {Of(t)} : sidecar'[e] = sidecar[e]
    BY <1>3, <2>1, StageTypes
  <2>6. /\ DeliveredIsKept /\ landed' = landed
        /\ ticket[Of(t)] # "delivered" \/ Of(t) \in landed
    BY <1>1 DEF FetchInv, StagesHeld, Of, folder
  <2>7. Sound(x)
    BY <1>1, <2>3 DEF Sound, Closed, Fetching, Of
  <2>8. StagesHeld' /\ DeliveredIsKept'
    BY <1>1, <2>1, <2>2, <2>3, <2>4, <2>5, <2>6, <2>7, OthersStages
  <2> QED
    BY <1>1, <2>1, <2>2, <2>3, <2>4, <2>5, <2>8, StageTypes, FetchMoves DEF Fetching, Of
<1> QED
  BY <1>2, <1>3 DEF SaveCapability

LEMMA TransportKeeps == ASSUME FetchInv, NEW t \in Takers, Transport(t) PROVE FetchInv'
<1>1. taker[t] \in TakerRecords /\ Sound(taker[t]) /\ takes \in Nat /\ mishaps \in Nat
      /\ UNCHANGED folder /\ UNCHANGED <<sidecar, ticket>> /\ UNCHANGED budget /\ taker[t].pc = "transport"
      /\ ticket[Of(t)] = "reserved"
  BY OneRecord DEF Transport, Doing
<1>2. Of(t) \in Deliveries /\ taker[t].via = "fetch" /\ StageKept(t) /\ taker[t].delivery = Of(t)
  BY <1>1 DEF Sound, Of, Fetching, StageKept, Doing
<1>3. PICK x \in {taker[t], [taker[t] EXCEPT !.pc = "check"]} :
        /\ taker' = [taker EXCEPT ![t] = x]
        /\ stage' \in {[stage EXCEPT ![Of(t)] = "part"], [stage EXCEPT ![Of(t)] = "full"]}
  <2>1. taker \in [Takers -> TakerRecords]
    BY DEF FetchInv, FetchTypes
  <2>2. taker = [taker EXCEPT ![t] = taker[t]]
    BY <2>1
  <2> QED
    BY <2>2 DEF Transport, Moves
<1>4. x \in TakerRecords
  <2>1. [taker[t] EXCEPT !.pc = "check"] \in TakerRecords
    BY <1>1, TakerEdits DEF Stages
  <2> QED
    BY <1>1, <1>3, <2>1
<1>5. /\ x.pc \in {"check", "transport"} /\ x.via = "fetch" /\ x.delivery = Of(t)
      /\ x.journal = taker[t].journal /\ x.id = taker[t].id /\ x.hashed = taker[t].hashed
  BY <1>1, <1>2, <1>3 DEF TakerRecords, Of
<1>6. /\ stage' \in [Deliveries -> {"none", "part", "full", "whole"}]
      /\ \A e \in Deliveries \ {Of(t)} : stage'[e] = stage[e]
  BY <1>2, <1>3, StageTypes
<1>7. sidecar[Of(t)] /\ landed' = landed
  BY <1>1, <1>2 DEF FetchInv, StagesHeld, Of, folder
<1>8. Sound(x)
  BY <1>1, <1>5 DEF Sound, Closed, Fetching, Of
<1>9. StagesHeld' /\ DeliveredIsKept'
  BY <1>1, <1>2, <1>3, <1>4, <1>5, <1>6, <1>7, <1>8, OthersStages
<1> QED
  BY <1>1, <1>2, <1>3, <1>4, <1>5, <1>6, <1>9, StageTypes, FetchMoves DEF Fetching, Of

LEMMA TransportFailsKeeps == ASSUME FetchInv, NEW t \in Takers, TransportFails(t) PROVE FetchInv'
<1>1. taker[t] \in TakerRecords /\ Sound(taker[t]) /\ takes \in Nat /\ mishaps \in Nat
      /\ UNCHANGED folder /\ UNCHANGED <<sidecar, ticket>> /\ UNCHANGED budget /\ taker[t].pc = "transport"
      /\ taker' = [taker EXCEPT ![t] = Resting] /\ Resting.pc = "idle" /\ Resting.via = "http"
  BY OneRecord DEF TransportFails, Doing, Ends, Turns, Resting
<1>2. Of(t) \in Deliveries
  BY <1>1 DEF Sound, Of
<1>3. landed' = landed /\ sidecar' = sidecar /\ ticket' = ticket /\ FetchTypes /\ TakersSound /\ StagesHeld
      /\ DeliveredIsKept /\ (ticket[Of(t)] # "delivered" \/ Of(t) \in landed)
  BY <1>1 DEF folder, FetchInv, StagesHeld, Of
<1>4. taker'[t] = Resting /\ \A o \in Takers \ {t} : taker'[o] = taker[o]
  BY <1>1, <1>3, RestingSound, OneTaker
<1>5. /\ stage' \in [Deliveries -> {"none", "part", "full", "whole"}]
      /\ \A e \in Deliveries \ {Of(t)} : stage'[e] = stage[e]
  BY <1>2, StageTypes DEF TransportFails
<1>6. DeliveredIsKept'
  BY <1>2, <1>3, <1>5 DEF DeliveredIsKept
<1>7. StagesHeld'
  BY <1>1, <1>3, <1>4 DEF StagesHeld, StageKept, Of, Doing
<1> QED
  BY <1>1, <1>5, <1>6, <1>7, RestingSound, StageTypes, FolderQuiet DEF Closed, budget

LEMMA RefusedKeeps == ASSUME FetchInv, NEW t \in Takers, Refused(t) PROVE FetchInv'
<1> DEFINE x == [taker[t] EXCEPT !.pc = "lock", !.renew = TRUE, !.owned = FALSE]
<1>1. taker[t] \in TakerRecords /\ Sound(taker[t]) /\ takes \in Nat /\ mishaps \in Nat
      /\ UNCHANGED folder /\ UNCHANGED fetched /\ UNCHANGED budget /\ taker[t].pc = "transport"
      /\ taker' = [taker EXCEPT ![t] = x]
  BY OneRecord DEF Refused, Doing, Turns
<1>2. x \in TakerRecords
  BY <1>1, TakerEdits DEF Stages
<1>3. x.pc = "lock" /\ x.via = taker[t].via /\ x.delivery = taker[t].delivery /\ x.journal = taker[t].journal
      /\ x.id = taker[t].id /\ x.hashed = taker[t].hashed
  BY <1>1 DEF TakerRecords
<1>4. Sound(x)
  BY <1>1, <1>3 DEF Sound, Closed, Fetching
<1> HIDE DEF x
<1> QED
  BY <1>1, <1>2, <1>3, <1>4, FetchLeft DEF budget

LEMMA JoinsKeeps == ASSUME FetchInv, NEW t \in Takers, Joins(t) PROVE FetchInv'
<1> DEFINE x == [taker[t] EXCEPT !.joined = TRUE]
<1>1. taker[t] \in TakerRecords /\ Sound(taker[t]) /\ takes \in Nat /\ mishaps \in Nat
      /\ UNCHANGED folder /\ UNCHANGED sidecar /\ UNCHANGED budget /\ taker[t].via = "fetch"
      /\ taker[t].pc \notin {"lock", "plan", "reach", "mint", "save", "transport"}
      /\ taker' = [taker EXCEPT ![t] = x]
  BY OneRecord DEF Joins
<1>2. Of(t) \in Deliveries /\ StageKept(t)
  BY <1>1 DEF Sound, Of, StageKept, Doing
<1>3. x \in TakerRecords
  BY <1>1, TakerEdits DEF Stages
<1>4. /\ x.pc = taker[t].pc /\ x.via = "fetch" /\ x.delivery = Of(t) /\ x.delivery = taker[t].delivery
      /\ x.match = taker[t].match
      /\ x.journal = taker[t].journal /\ x.id = taker[t].id /\ x.hashed = taker[t].hashed
  BY <1>1 DEF TakerRecords, Of
<1> HIDE DEF x
<1>5. /\ stage' \in [Deliveries -> {"none", "part", "full", "whole"}] /\ stage'[Of(t)] = "whole"
      /\ ticket' \in [Deliveries -> {"none", "reserved", "delivered"}]
      /\ \A e \in Deliveries \ {Of(t)} : stage'[e] = stage[e] /\ ticket'[e] = ticket[e]
  BY <1>2, StageTypes DEF Joins
<1>6. /\ sidecar[Of(t)] /\ landed' = landed
      /\ taker[t].pc \in {"unname", "saved", "forget"} => Of(t) \in landed
  BY <1>1, <1>2 DEF FetchInv, StagesHeld, folder
<1>7. Sound(x)
  BY <1>1, <1>4 DEF Sound
<1>8. StagesHeld' /\ DeliveredIsKept'
  BY <1>1, <1>2, <1>3, <1>4, <1>5, <1>6, <1>7, OthersStages
<1> QED
  BY <1>1, <1>3, <1>4, <1>5, <1>7, <1>8, StageTypes, FolderQuiet DEF budget

LEMMA RemoveStageKeeps == ASSUME FetchInv, NEW t \in Takers, RemoveStage(t) PROVE FetchInv'
<1>1. taker[t] \in TakerRecords /\ Sound(taker[t]) /\ takes \in Nat /\ mishaps \in Nat
      /\ UNCHANGED folder /\ UNCHANGED <<sidecar, ticket>> /\ UNCHANGED budget /\ taker[t].pc = "saved"
  BY OneRecord DEF RemoveStage, Doing
<1>2. CASE Ends(t) /\ UNCHANGED stage
  BY <1>1, <1>2, FetchOver DEF budget, fetched
<1>3. CASE stage' = [stage EXCEPT ![Of(t)] = "none"] /\ Moves(t, "forget")
  <2> DEFINE x == [taker[t] EXCEPT !.pc = "forget"]
  <2>1. Of(t) \in Deliveries /\ taker[t].via = "fetch" /\ StageKept(t)
    BY <1>1 DEF Sound, Of, Fetching, StageKept, Doing
  <2>2. x \in TakerRecords
    BY <1>1, TakerEdits DEF Stages
  <2>3. /\ x.pc = "forget" /\ x.via = "fetch" /\ x.delivery = Of(t)
        /\ x.journal = taker[t].journal /\ x.id = taker[t].id /\ x.hashed = taker[t].hashed
    BY <1>1, <2>1 DEF TakerRecords, Of
  <2>4. taker' = [taker EXCEPT ![t] = x]
    BY <1>3 DEF Moves
  <2> HIDE DEF x
  <2>5. /\ stage' \in [Deliveries -> {"none", "part", "full", "whole"}]
        /\ \A e \in Deliveries \ {Of(t)} : stage'[e] = stage[e]
    BY <1>3, <2>1, StageTypes
  <2>6. Of(t) \in landed /\ landed' = landed /\ sidecar[Of(t)]
    BY <1>1, <2>1 DEF FetchInv, StagesHeld, folder
  <2>7. Sound(x)
    BY <1>1, <2>3 DEF Sound, Closed, Fetching, Of
  <2>8. StagesHeld' /\ DeliveredIsKept'
    BY <1>1, <2>1, <2>2, <2>3, <2>4, <2>5, <2>6, <2>7, OthersStages
  <2> QED
    BY <1>1, <2>1, <2>2, <2>3, <2>4, <2>5, <2>8, StageTypes, FetchMoves DEF Fetching, Of
<1> QED
  BY <1>2, <1>3 DEF RemoveStage

LEMMA RemoveCapabilityKeeps == ASSUME FetchInv, NEW t \in Takers, RemoveCapability(t) PROVE FetchInv'
<1>1. taker[t] \in TakerRecords /\ Sound(taker[t]) /\ takes \in Nat /\ mishaps \in Nat
      /\ UNCHANGED folder /\ UNCHANGED <<stage, ticket>> /\ UNCHANGED budget /\ taker[t].pc = "forget"
      /\ taker' = [taker EXCEPT ![t] = Resting] /\ Resting.pc = "idle" /\ Resting.via = "http"
  BY OneRecord DEF RemoveCapability, Doing, Ends, Turns, Resting
<1>2. Of(t) \in Deliveries /\ StageKept(t)
  BY <1>1 DEF Sound, Of, StageKept, Doing, Fetching
<1>3. landed' = landed /\ stage' = stage /\ ticket' = ticket /\ FetchTypes /\ TakersSound /\ StagesHeld
      /\ DeliveredIsKept /\ Of(t) \in landed
  BY <1>1 DEF folder, FetchInv, StagesHeld
<1>4. taker'[t] = Resting /\ \A o \in Takers \ {t} : taker'[o] = taker[o]
  BY <1>1, <1>3, RestingSound, OneTaker
<1>5. sidecar' \in [Deliveries -> BOOLEAN] /\ \A e \in Deliveries \ {Of(t)} : sidecar'[e] = sidecar[e]
  BY <1>2, StageTypes DEF RemoveCapability
<1>6. DeliveredIsKept'
  BY <1>2, <1>3, <1>5 DEF DeliveredIsKept
<1>7. \A o \in Takers \ {t} : StageKept(o) => Of(o) # Of(t)
  BY <1>2, <1>3 DEF StagesHeld
<1>8. \A o \in Takers \ {t} : taker[o].pc \in Fetching => taker[o].via = "fetch"
  BY <1>3 DEF TakersSound, Sound
<1>9. \A o \in Takers \ {t} : StageKept(o) => sidecar'[Of(o)] = sidecar[Of(o)]
  BY <1>3, <1>5, <1>7 DEF StageKept, Doing, TakersSound, Sound, Of
<1>10. \A o, p \in Takers : o # p /\ StageKept(o)' /\ StageKept(p)' => Of(o)' # Of(p)'
  BY <1>1, <1>3, <1>4 DEF StagesHeld, StageKept, Doing, Of
<1>11. ASSUME NEW o \in Takers \ {t} PROVE StagesHeld!2!(o)'
  <2>1. taker'[o] = taker[o] /\ StagesHeld!2!(o) /\ (taker[o].pc \in Fetching => taker[o].via = "fetch")
        /\ (StageKept(o) => sidecar'[Of(o)] = sidecar[Of(o)])
    BY <1>3, <1>4, <1>8, <1>9 DEF StagesHeld
  <2> QED
    BY <1>3, <2>1 DEF StageKept, Doing, Of, Fetching
<1>12. StagesHeld!2!(t)'
  BY <1>1, <1>4 DEF StageKept, Doing
<1>13. StagesHeld'
  BY <1>10, <1>11, <1>12 DEF StagesHeld
<1> QED
  BY <1>1, <1>5, <1>6, <1>13, RestingSound, StageTypes, FolderQuiet DEF Closed, budget

LEMMA CheckKeeps == ASSUME FetchInv, NEW t \in Takers, Check(t) PROVE FetchInv'
<1>1. taker[t] \in TakerRecords /\ Sound(taker[t]) /\ takes \in Nat /\ mishaps \in Nat
      /\ UNCHANGED folder /\ UNCHANGED fetched /\ UNCHANGED budget /\ taker[t].pc = "check"
  BY OneRecord DEF Check, Doing
<1>2. CASE Ends(t)
  BY <1>1, <1>2, FetchOver DEF budget
<1>3. CASE ~Ends(t)
  <2>1. PICK pc \in {"saved", "open"} :
          /\ taker' = [taker EXCEPT ![t] = [taker[t] EXCEPT !.pc = pc]]
          /\ pc = "saved" => taker[t].via = "fetch" /\ destAt # 0 /\ bytes[destAt] = Whole(Of(t))
    BY <1>3 DEF Check, Landed, Moves, Taken, Reusable
  <2> DEFINE x == [taker[t] EXCEPT !.pc = pc]
  <2>2. x \in TakerRecords
    BY <1>1, TakerEdits DEF Stages
  <2>3. x.pc = pc /\ x.via = taker[t].via /\ x.delivery = taker[t].delivery /\ x.journal = taker[t].journal
        /\ x.id = taker[t].id /\ x.hashed = taker[t].hashed
    BY <1>1 DEF TakerRecords
  <2>4. Sound(x)
    BY <1>1, <2>1, <2>3 DEF Sound, Closed, Fetching
  <2>5. pc = "saved" => Of(t) \in landed
    <3>1. FolderHeld /\ Of(t) \in Deliveries /\ kept \subseteq (1 .. Nodes) \X Deliveries
      BY <1>1 DEF FetchInv, FetchTypes, FetchTypeOK, Sound, Of
    <3>2. ASSUME pc = "saved" PROVE Of(t) \in landed
      <4>1. PICK k \in kept : k[1] = destAt
        BY <2>1, <3>1, <3>2 DEF FolderHeld, FilesApart, NamesApart, KeptNodes
      <4>2. Whole(k[2]) = Whole(Of(t)) /\ k[2] \in Deliveries /\ k[2] \in landed
        BY <2>1, <3>1, <3>2, <4>1 DEF FolderHeld, LandedIntact, KeptLanded
      <4> QED
        BY <3>1, <4>2, ContentsKnown
    <3> QED
      BY <3>2
  <2>6. taker' = [taker EXCEPT ![t] = x]
    BY <2>1
  <2> HIDE DEF x
  <2> QED
    BY <1>1, <2>1, <2>2, <2>3, <2>4, <2>5, <2>6, FetchLeft DEF budget, Of, Landing
<1> QED
  BY <1>2, <1>3

\* A step of the landing, once its folder is settled.
LEMMA LandingKeeps ==
  ASSUME FetchInv, NEW t \in Takers, NEW x \in TakerRecords, Sound(x), taker' = [taker EXCEPT ![t] = x],
         UNCHANGED fetched, takes' \in Nat, mishaps' \in Nat,
         landed \subseteq landed', landed' \subseteq Deliveries, cleared' = cleared, misread' \in BOOLEAN,
         {journalAt', idAt', destAt'} \subseteq 0 .. Nodes, kept' \subseteq (1 .. Nodes) \X Deliveries,
         bytes' \in [1 .. Nodes -> Contents], durable' \in [1 .. Nodes -> Contents],
         \A n \in 1 .. Nodes : Len(bytes'[n]) <= Blocks /\ Len(durable'[n]) <= Blocks,
         taker[t].pc \in Landing,
         \/ x.pc = "idle" /\ x.via = "http"
         \/ /\ x.pc \in Landing
            /\ x.via = taker[t].via /\ x.delivery = taker[t].delivery
            /\ x.pc \in {"unname", "saved"} => x.delivery \in landed',
         FolderHeld', PrefixHeld'
  PROVE  FetchInv'
<1>1. FetchTypes /\ TakersSound
  BY DEF FetchInv
<1>2. taker' \in [Takers -> TakerRecords] /\ TakersSound'
  BY <1>1, OneTaker
<1>3. UNCHANGED <<stage, sidecar, ticket>>
  BY DEF fetched
<1>4. FetchTypes'
  BY <1>1, <1>2, <1>3 DEF FetchTypes, FetchTypeOK
<1>5. StagesHeld' /\ DeliveredIsKept'
  BY <1>3, StagesGoOn
<1> QED
  BY <1>2, <1>4, <1>5 DEF FetchInv

\* What the folder's variables hold.
LEMMA FolderTypes ==
  ASSUME FetchInv
  PROVE  /\ {journalAt, idAt, destAt} \subseteq 0 .. Nodes /\ kept \subseteq (1 .. Nodes) \X Deliveries
         /\ KeptNodes \subseteq 1 .. Nodes
         /\ bytes \in [1 .. Nodes -> Contents] /\ durable \in [1 .. Nodes -> Contents]
         /\ \A n \in 1 .. Nodes : Len(bytes[n]) <= Blocks /\ Len(durable[n]) <= Blocks
         /\ landed \subseteq Deliveries /\ misread \in BOOLEAN
         /\ taker \in [Takers -> TakerRecords]
BY DEF FetchInv, FetchTypes, FetchTypeOK, KeptNodes

\* A file that a receive has as its identity, that is named as one, or that is
\* new, is none of the others.
LEMMA IdentityApart ==
  ASSUME FetchInv, NEW t \in Takers, NEW n \in 0 .. Nodes, n \in {taker[t].id, idAt} \/ (n # 0 /\ Free(n))
  PROVE  n \notin KeptNodes /\ (n # 0 => n # journalAt /\ \A o \in Takers : n # taker[o].journal)
<1>1. NamesApart /\ HandlesApart
  BY DEF FetchInv, FolderHeld, FilesApart
<1>2. CASE n \in {taker[t].id, idAt}
  BY <1>1, <1>2 DEF NamesApart, HandlesApart
<1>3. CASE n # 0 /\ Free(n)
  BY <1>3 DEF Free, Handles, KeptNodes
<1> QED
  BY <1>2, <1>3

\* The journal's lock: unless the user took a journal away, nobody else is in
\* the stages it covers.
LEMMA OneWriter ==
  ASSUME FetchInv, NEW t \in Takers, taker[t].pc \in Writing
  PROVE  /\ taker[t].journal \in 1 .. Nodes /\ taker[t].journal \notin KeptNodes
         /\ \A o \in Takers \ {t} : taker[o].pc \in Writing => taker[o].journal # taker[t].journal
         /\ ~cleared => journalAt = taker[t].journal /\ \A o \in Takers \ {t} : taker[o].pc \notin Writing
<1>1. TakersSound /\ HandlesApart /\ JournalsExclusive /\ (~cleared => LockHeld)
  BY DEF FetchInv, FolderHeld, FilesApart, PrefixHeld
<1>2. \A o \in Takers : taker[o].pc \in Writing => taker[o].journal # 0 /\ ~Doing(o, "opened")
  BY <1>1 DEF TakersSound, Sound, Writing, Closed, Fetching, Doing
<1>3. taker[t].journal \in 0 .. Nodes
  BY FolderTypes DEF TakerRecords
<1>4. taker[t].journal \in 1 .. Nodes
  BY <1>2, <1>3, FetchAssumption
<1>5. \A o \in Takers \ {t} : taker[o].pc \in Writing => taker[o].journal # taker[t].journal
  BY <1>1, <1>2 DEF JournalsExclusive
<1> QED
  BY <1>1, <1>4, <1>5 DEF HandlesApart, LockHeld

\* A step of a receive that holds the journal's lock: it writes its journal and
\* its identity.
LEMMA WriterGoesOn ==
  ASSUME FetchInv, NEW t \in Takers, NEW x \in TakerRecords, Sound(x), taker' = [taker EXCEPT ![t] = x],
         taker[t].pc \in Writing, x.pc \in Writing, x.journal = taker[t].journal, x.delivery = taker[t].delivery,
         UNCHANGED <<journalAt, destAt, kept, landed, cleared>>,
         x.id \in {taker[t].id, idAt} \/ (x.id # 0 /\ Free(x.id)), idAt' \in {idAt, x.id},
         \A n \in (1 .. Nodes) \ {x.journal, x.id} : bytes'[n] = bytes[n] /\ durable'[n] = durable[n],
         x.id # 0 => durable'[x.id] = bytes'[x.id],
         x.pc = "name" => bytes'[x.journal] = <<>> /\ durable'[x.journal] = <<>>,
         x.pc \in {"stream", "publish"} => bytes'[x.journal] = x.hashed,
         x.pc = "publish" => durable'[x.journal] = x.hashed,
         ~cleared => LockHeld!(t)' /\ JournalNamed' /\ ~misread'
  PROVE  FolderHeld' /\ PrefixHeld'
<1>1. FetchTypes /\ TakersSound /\ FolderHeld /\ PrefixHeld
  BY DEF FetchInv
<1>2. taker'[t] = x /\ \A o \in Takers \ {t} : taker'[o] = taker[o]
  BY <1>1, OneTaker
<1> DEFINE j == taker[t].journal
<1>3. /\ j \in 1 .. Nodes /\ j \notin KeptNodes
      /\ \A o \in Takers \ {t} : taker[o].pc \in Writing => taker[o].journal # j
      /\ ~cleared => journalAt = j /\ \A o \in Takers \ {t} : taker[o].pc \notin Writing
  BY OneWriter
<1>4. x.id \in 0 .. Nodes /\ \A o \in Takers : taker[o] \in TakerRecords /\ taker[o].id \in 0 .. Nodes
                                              /\ taker[o].journal \in 0 .. Nodes
  BY FolderTypes DEF TakerRecords
<1>5. x.id \notin KeptNodes /\ (x.id # 0 => x.id # journalAt /\ \A o \in Takers : x.id # taker[o].journal)
  BY <1>4, IdentityApart
<1>6. KeptNodes' = KeptNodes
  BY DEF KeptNodes
<1>7. NamesApart'
  BY <1>1, <1>5, <1>6 DEF FolderHeld, FilesApart, NamesApart
<1>8. HandlesApart'
  <2>1. HandlesApart
    BY <1>1 DEF FolderHeld, FilesApart
  <2>2. \A o \in Takers : taker'[o].journal = taker[o].journal
    BY <1>2
  <2>3. HandlesApart!(t)'
    BY <1>2, <1>3, <1>5, <1>6, <2>1, <2>2 DEF HandlesApart
  <2>4. ASSUME NEW o \in Takers \ {t} PROVE HandlesApart!(o)'
    BY <1>2, <1>5, <1>6, <2>1, <2>2 DEF HandlesApart
  <2> QED
    BY <2>3, <2>4 DEF HandlesApart
<1>9. JournalsExclusive'
  <2>1. JournalsExclusive /\ ~Doing(t, "opened")
    BY <1>1 DEF FolderHeld, FilesApart, Writing, Doing
  <2> QED
    BY <1>2, <2>1 DEF JournalsExclusive, Doing
<1>10. FilesSynced' /\ LandedIntact' /\ KeptLanded'
  <2>1. \A k \in kept : k[1] \in (1 .. Nodes) \ {x.journal, x.id}
    BY <1>3, <1>5, FolderTypes DEF KeptNodes
  <2>2. \A k \in kept : durable'[k[1]] = Whole(k[2]) /\ bytes'[k[1]] = Whole(k[2])
    BY <1>1, <2>1 DEF FolderHeld, FilesSynced, LandedIntact
  <2>3. idAt' # 0 => durable'[idAt'] = bytes'[idAt']
    <3>1. CASE idAt' = x.id
      BY <3>1
    <3>2. CASE idAt' # x.id
      <4>1. idAt' = idAt /\ idAt \in 0 .. Nodes /\ (idAt # 0 => idAt # x.journal)
        BY <1>1, <3>2, FolderTypes DEF FolderHeld, FilesApart, HandlesApart
      <4>2. idAt # 0 => idAt \in (1 .. Nodes) \ {x.journal, x.id}
        BY <3>2, <4>1, FetchAssumption
      <4> QED
        BY <1>1, <4>1, <4>2 DEF FolderHeld, FilesSynced
    <3> QED
      BY <3>1, <3>2
  <2>4. ASSUME NEW o \in Takers, taker'[o].id # 0 PROVE durable'[taker'[o].id] = bytes'[taker'[o].id]
    <3>1. CASE taker'[o].id = x.id
      BY <2>4, <3>1
    <3>2. CASE taker'[o].id # x.id
      <4>1. o # t /\ taker'[o] = taker[o] /\ taker[o].id # j
        BY <1>1, <1>2, <2>4, <3>2 DEF FolderHeld, FilesApart, HandlesApart
      <4>2. taker[o].id \in (1 .. Nodes) \ {x.journal, x.id}
        BY <1>4, <2>4, <3>2, <4>1, FetchAssumption
      <4> QED
        BY <1>1, <2>4, <4>1, <4>2 DEF FolderHeld, FilesSynced
    <3> QED
      BY <3>1, <3>2
  <2> QED
    BY <1>1, <2>2, <2>3, <2>4 DEF FolderHeld, FilesSynced, LandedIntact, KeptLanded
<1>11. HashedIsWritten'
  <2>1. HashedIsWritten!(t)'
    BY <1>2 DEF Doing
  <2>2. ASSUME NEW o \in Takers \ {t} PROVE HashedIsWritten!(o)'
    <3>1. CASE taker[o].pc \in {"name", "stream", "publish"}
      <4>1. taker[o].journal # 0
        BY <1>1, <3>1 DEF TakersSound, Sound, Closed, Fetching
      <4>2. taker[o].journal \in (1 .. Nodes) \ {x.journal, x.id}
        BY <1>3, <1>4, <1>5, <3>1, <4>1, FetchAssumption DEF Writing
      <4> QED
        BY <1>1, <1>2, <4>2 DEF FolderHeld, HashedIsWritten, Doing
    <3>2. CASE taker[o].pc \notin {"name", "stream", "publish"}
      BY <1>2, <3>2 DEF Doing
    <3> QED
      BY <3>1, <3>2
  <2> QED
    BY <2>1, <2>2 DEF HashedIsWritten
<1>12. PrefixHeld'
  <2>1. ASSUME ~cleared, NEW o \in Takers \ {t} PROVE LockHeld!(o)'
    BY <1>2, <1>3, <2>1 DEF Writing
  <2> QED
    BY <2>1 DEF PrefixHeld, LockHeld
<1> QED
  BY <1>7, <1>8, <1>9, <1>10, <1>11, <1>12 DEF FolderHeld, FilesApart

LEMMA WriterKeeps ==
  ASSUME FetchInv, NEW t \in Takers, NEW x \in TakerRecords, Sound(x), taker' = [taker EXCEPT ![t] = x],
         taker[t].pc \in Writing, x.pc \in Writing, x.journal = taker[t].journal, x.delivery = taker[t].delivery,
         x.via = taker[t].via,
         UNCHANGED <<journalAt, destAt, kept, landed, cleared>>, UNCHANGED fetched,
         takes' \in Nat, mishaps' \in Nat, misread' \in BOOLEAN,
         bytes' \in [1 .. Nodes -> Contents], durable' \in [1 .. Nodes -> Contents],
         \A n \in 1 .. Nodes : Len(bytes'[n]) <= Blocks /\ Len(durable'[n]) <= Blocks,
         x.id \in {taker[t].id, idAt} \/ (x.id # 0 /\ Free(x.id)), idAt' \in {idAt, x.id},
         \A n \in (1 .. Nodes) \ {x.journal, x.id} : bytes'[n] = bytes[n] /\ durable'[n] = durable[n],
         x.id # 0 => durable'[x.id] = bytes'[x.id],
         x.pc = "name" => bytes'[x.journal] = <<>> /\ durable'[x.journal] = <<>>,
         x.pc \in {"stream", "publish"} => bytes'[x.journal] = x.hashed,
         x.pc = "publish" => durable'[x.journal] = x.hashed,
         ~cleared => LockHeld!(t)' /\ JournalNamed' /\ ~misread'
  PROVE  FetchInv'
<1>1. FolderHeld' /\ PrefixHeld'
  BY WriterGoesOn
<1>2. x.id \in 0 .. Nodes
  BY DEF TakerRecords
<1>3. taker[t].pc \in Landing /\ x.pc \in Landing /\ x.pc \notin {"unname", "saved"}
  BY DEF Landing, Writing
<1> QED
  BY <1>1, <1>2, <1>3, FolderTypes, LandingKeeps

\* What a receive that holds the lock finds.
WriterKnows(t) ==
  /\ taker[t] \in TakerRecords /\ Sound(taker[t]) /\ Of(t) \in Deliveries
  /\ taker[t].journal \in 1 .. Nodes /\ taker[t].id \in 0 .. Nodes /\ taker[t].hashed \in Contents
  /\ taker[t].id # 0 => taker[t].id \in 1 .. Nodes /\ taker[t].id # taker[t].journal
                        /\ durable[taker[t].id] = bytes[taker[t].id]
  /\ idAt # taker[t].journal
  /\ takes \in Nat /\ mishaps \in Nat
  /\ ~cleared => LockHeld!(t) /\ JournalNamed /\ ~misread
LEMMA WriterFinds == ASSUME FetchInv, NEW t \in Takers, taker[t].pc \in Writing PROVE WriterKnows(t)
<1>1. TakersSound /\ HandlesApart /\ FilesSynced /\ PrefixHeld
  BY DEF FetchInv, FolderHeld, FilesApart
<1>2. taker[t] \in TakerRecords /\ Sound(taker[t]) /\ takes \in Nat /\ mishaps \in Nat
  BY OneRecord
<1>3. Of(t) \in Deliveries
  BY <1>2 DEF Sound, Writing, Of
<1>4. taker[t].journal \in 1 .. Nodes
  BY OneWriter
<1>5. taker[t].id \in 0 .. Nodes /\ taker[t].hashed \in Contents
  BY <1>2 DEF TakerRecords
<1>6. taker[t].id # 0 => taker[t].id \in 1 .. Nodes
  BY <1>5, FetchAssumption
<1>7. taker[t].journal # 0
  BY <1>4, FetchAssumption
<1> QED
  BY <1>1, <1>2, <1>3, <1>4, <1>5, <1>6, <1>7 DEF HandlesApart, FilesSynced, PrefixHeld, LockHeld, WriterKnows

LEMMA SyncJournalKeeps == ASSUME FetchInv, NEW t \in Takers, SyncJournal(t) PROVE FetchInv'
<1> DEFINE x == [taker[t] EXCEPT !.pc = "publish"]
           j == taker[t].journal
<1>1. /\ taker[t].pc = "stream" /\ taker[t].pc \in Writing /\ taker' = [taker EXCEPT ![t] = x]
      /\ durable' = [durable EXCEPT ![j] = bytes[j]]
      /\ UNCHANGED <<journalAt, idAt, destAt, kept, bytes, landed, misread, cleared>>
      /\ UNCHANGED fetched /\ UNCHANGED <<takes, mishaps>>
  BY DEF SyncJournal, Moves, Doing, Writing, budget
<1>2. WriterKnows(t)
  BY <1>1, WriterFinds
<1> USE DEF WriterKnows
<1>3. x \in TakerRecords
  BY <1>2, TakerEdits DEF Stages
<1>4. /\ x.pc = "publish" /\ x.via = taker[t].via /\ x.delivery = taker[t].delivery /\ x.journal = j
      /\ x.id = taker[t].id /\ x.hashed = taker[t].hashed /\ x.match = taker[t].match
  BY <1>2 DEF TakerRecords
<1> HIDE DEF x
<1>5. Sound(x)
  BY <1>1, <1>2, <1>4 DEF Sound, Closed, Fetching
<1>6. x.id # 0 /\ x.id # j /\ bytes[j] = x.hashed
  BY <1>1, <1>2, <1>4 DEF Sound, FetchInv, FolderHeld, HashedIsWritten
<1>7. /\ durable' \in [1 .. Nodes -> Contents] /\ \A n \in 1 .. Nodes : Len(durable'[n]) <= Blocks
      /\ durable'[j] = bytes[j] /\ \A n \in (1 .. Nodes) \ {j} : durable'[n] = durable[n]
  BY <1>1, <1>2, FolderTypes
<1>8. taker'[t] = x
  BY <1>1, FolderTypes
<1>9. ~cleared => LockHeld!(t)'
  <2>1. ~cleared => OwnBlocks(j, Of(t)) /\ bytes[x.id] = <<Of(t)>> /\ journalAt = j /\ idAt \in {x.id, 0}
    BY <1>1, <1>2, <1>4 DEF Writing
  <2> QED
    BY <1>1, <1>4, <1>7, <1>8, <2>1 DEF OwnBlocks, Of1, Of
<1>10. ~cleared => JournalNamed' /\ ~misread'
  BY <1>1, <1>2, <1>7 DEF JournalNamed, OwnBlocks, Of1, Writing
<1> QED
  BY <1>1, <1>2, <1>3, <1>4, <1>5, <1>6, <1>7, <1>9, <1>10, FolderTypes, WriterKeeps DEF Writing

LEMMA StreamKeeps ==
  ASSUME FetchInv, NEW t \in Takers, NEW b \in Deliveries \cup {Bad}, Stream(t, b)
  PROVE  FetchInv'
<1> DEFINE h == Append(taker[t].hashed, b)
           x == [taker[t] EXCEPT !.hashed = h]
           j == taker[t].journal
<1>1. /\ taker[t].pc = "stream" /\ taker[t].pc \in Writing /\ taker' = [taker EXCEPT ![t] = x]
      /\ Len(taker[t].hashed) < Blocks /\ b \in {Of(t), Bad}
      /\ bytes' = [bytes EXCEPT ![j] = WriteAt(bytes[j], Len(taker[t].hashed) + 1, b)]
      /\ UNCHANGED <<journalAt, idAt, destAt, kept, durable, landed, misread, cleared>>
      /\ UNCHANGED fetched
  BY DEF Stream, Doing, Writing, Wrote
<1>2. WriterKnows(t)
  BY <1>1, WriterFinds
<1> USE DEF WriterKnows
<1>3. takes' \in Nat /\ mishaps' \in Nat
  BY <1>2 DEF Stream, Mishap, budget
<1>4. /\ h \in Contents /\ Len(h) = Len(taker[t].hashed) + 1
      /\ WriteAt(taker[t].hashed, Len(taker[t].hashed) + 1, b) = h
      /\ Of1(taker[t].hashed, Of(t)) => Of1(h, Of(t))
  BY <1>1, <1>2, WriteAppends
<1>5. Len(h) <= Blocks
  BY <1>1, <1>2, <1>4, FetchAssumption DEF Contents
<1>6. x \in TakerRecords
  BY <1>2, <1>4, TakerEdits DEF Stages
<1>7. /\ x.pc = "stream" /\ x.via = taker[t].via /\ x.delivery = taker[t].delivery /\ x.journal = j
      /\ x.id = taker[t].id /\ x.hashed = h /\ x.match = taker[t].match
  BY <1>1, <1>2 DEF TakerRecords
<1>8. bytes[j] = taker[t].hashed /\ taker[t].id # 0
  BY <1>1, <1>2 DEF Sound, FetchInv, FolderHeld, HashedIsWritten
<1> HIDE DEF x, h
<1>9. Sound(x)
  BY <1>1, <1>2, <1>5, <1>7 DEF Sound, Closed, Fetching
<1>10. /\ bytes' \in [1 .. Nodes -> Contents] /\ \A n \in 1 .. Nodes : Len(bytes'[n]) <= Blocks
       /\ bytes'[j] = h /\ \A n \in (1 .. Nodes) \ {j} : bytes'[n] = bytes[n]
  BY <1>1, <1>2, <1>4, <1>5, <1>8, FolderTypes
<1>11. bytes'[x.id] = bytes[x.id] /\ durable'[x.id] = bytes'[x.id]
  BY <1>1, <1>2, <1>7, <1>8, <1>10
<1>12. taker'[t] = x
  BY <1>1, FolderTypes
<1>13. ~cleared => /\ OwnBlocks(j, Of(t)) /\ bytes[x.id] = <<Of(t)>> /\ journalAt = j /\ idAt \in {x.id, 0}
                   /\ JournalNamed /\ ~misread
  BY <1>1, <1>2, <1>7 DEF Writing
<1>14. ~cleared => OwnBlocks(j, Of(t))'
  BY <1>1, <1>4, <1>8, <1>10, <1>12, <1>13, <1>7 DEF OwnBlocks, Of
<1>15. ~cleared => LockHeld!(t)'
  BY <1>1, <1>7, <1>11, <1>12, <1>13, <1>14 DEF Of
<1>16. ~cleared => JournalNamed' /\ ~misread'
  <2>1. ASSUME ~cleared, idAt # 0, NEW d \in Deliveries, bytes'[idAt] = <<d>> PROVE OwnBlocks(journalAt, d)'
    <3>1. <<d>> = <<Of(t)>>
      BY <1>11, <1>13, <2>1
    <3>2. d = Of(t) /\ Of(t)' = Of(t) /\ taker'[t].journal = taker[t].journal
      BY <3>1, <1>12, <1>7 DEF Of
    <3> QED
      BY <1>1, <1>13, <1>14, <2>1, <3>2 DEF OwnBlocks
  <2> QED
    BY <1>1, <1>13, <2>1 DEF JournalNamed
<1> QED
  BY <1>1, <1>2, <1>3, <1>6, <1>7, <1>8, <1>9, <1>10, <1>11, <1>15, <1>16, FolderTypes, WriterKeeps DEF Writing

LEMMA OpenSourceKeeps == ASSUME FetchInv, NEW t \in Takers, OpenSource(t) PROVE FetchInv'
<1>1. /\ taker[t].pc = "source" /\ taker[t].pc \in Writing /\ UNCHANGED folder /\ UNCHANGED fetched
      /\ UNCHANGED <<takes, mishaps>>
  BY DEF OpenSource, Doing, Writing, budget
<1>2. WriterKnows(t)
  BY <1>1, WriterFinds
<1> USE DEF WriterKnows
<1>3. CASE Ends(t)
  BY <1>1, <1>2, <1>3, FetchOver
<1>4. CASE ~Ends(t)
  <2>1. PICK h \in {taker[t].hashed, <<>>} :
          taker' = [taker EXCEPT ![t] = [taker[t] EXCEPT !.pc = "identity", !.hashed = h]]
    <3>1. [taker[t] EXCEPT !.pc = "identity", !.hashed = taker[t].hashed] = [taker[t] EXCEPT !.pc = "identity"]
      BY <1>2 DEF TakerRecords
    <3> QED
      BY <1>4, <3>1 DEF OpenSource, Moves, Turns
  <2> DEFINE x == [taker[t] EXCEPT !.pc = "identity", !.hashed = h]
             j == taker[t].journal
  <2>2. h \in Contents /\ Len(h) <= Blocks
    BY <1>2, ContentsKnown, FetchAssumption DEF Sound
  <2>3. x \in TakerRecords
    BY <1>2, <2>2, TakerEdits DEF Stages
  <2>4. /\ x.pc = "identity" /\ x.via = taker[t].via /\ x.delivery = taker[t].delivery /\ x.journal = j
        /\ x.id = taker[t].id /\ x.hashed = h /\ x.match = taker[t].match
    BY <1>2 DEF TakerRecords
  <2>5. taker' = [taker EXCEPT ![t] = x]
    BY <2>1
  <2> HIDE DEF x
  <2>6. Sound(x)
    BY <1>1, <1>2, <2>2, <2>4 DEF Sound, Closed, Fetching
  <2>7. taker'[t] = x
    BY <2>5, FolderTypes
  <2>8. UNCHANGED <<journalAt, idAt, destAt, kept, bytes, durable, landed, misread, cleared>>
    BY <1>1 DEF folder
  <2>9. ~cleared => LockHeld!(t)'
    <3>1. Of1(<<>>, Of(t))
      BY DEF Of1
    <3>2. ~cleared => /\ journalAt = j /\ idAt \in {x.id, 0}
                      /\ x.match => x.id # 0 /\ bytes[x.id] = <<Of(t)>> /\ OwnBlocks(j, Of(t)) /\ Of1(h, Of(t))
      BY <1>1, <1>2, <2>1, <2>4, <3>1 DEF Writing
    <3> QED
      BY <2>4, <2>7, <2>8, <3>2 DEF OwnBlocks, Of1, Of
  <2>10. ~cleared => JournalNamed' /\ ~misread'
    BY <1>2, <2>8 DEF JournalNamed, OwnBlocks, Of1
  <2> QED
    BY <1>1, <1>2, <2>3, <2>4, <2>5, <2>6, <2>8, <2>9, <2>10, FolderTypes, WriterKeeps DEF Writing
<1> QED
  BY <1>3, <1>4

LEMMA InspectKeeps == ASSUME FetchInv, NEW t \in Takers, Inspect(t) PROVE FetchInv'
<1> DEFINE match == idAt # 0 /\ bytes[idAt] = <<Of(t)>>
           j == taker[t].journal
           resumed == IF match /\ Len(bytes[j]) < Blocks THEN bytes[j] ELSE <<>>
           x == [taker[t] EXCEPT !.pc = "source", !.id = idAt, !.match = match, !.hashed = resumed]
<1>1. /\ taker[t].pc = "inspect" /\ taker[t].pc \in Writing
      /\ UNCHANGED <<journalAt, idAt, destAt, kept, bytes, durable, landed, cleared>> /\ UNCHANGED fetched
      /\ UNCHANGED <<takes, mishaps>>
      /\ IF destAt # 0 THEN Ends(t) /\ UNCHANGED misread
         ELSE /\ taker' = [taker EXCEPT ![t] = x]
              /\ misread' = (misread \/ \E i \in DOMAIN resumed : resumed[i] \notin {Of(t), Bad})
  BY DEF Inspect, Doing, Writing, budget, Turns
<1>2. WriterKnows(t)
  BY <1>1, WriterFinds
<1> USE DEF WriterKnows
<1>3. CASE destAt # 0
  <2>1. UNCHANGED folder
    BY <1>1, <1>3 DEF folder
  <2> QED
    BY <1>1, <1>2, <1>3, <2>1, FetchOver
<1>4. CASE destAt = 0
  <2>1. resumed \in Contents /\ Len(resumed) <= Blocks /\ match \in BOOLEAN /\ idAt \in 0 .. Nodes
    BY <1>2, ContentsKnown, FetchAssumption, FolderTypes
  <2>2. x \in TakerRecords
    <3> HIDE DEF match, resumed
    <3>1. taker[t] \in TakerRecords /\ "source" \in Stages
      BY <1>2 DEF Stages
    <3> QED
      BY <2>1, <3>1, TakerEdits
  <2>3. /\ x.pc = "source" /\ x.via = taker[t].via /\ x.delivery = taker[t].delivery /\ x.journal = j
        /\ x.id = idAt /\ x.hashed = resumed /\ x.match = match
    BY <1>2 DEF TakerRecords
  <2>4. taker' = [taker EXCEPT ![t] = x]
    BY <1>1, <1>4
  <2>5. misread' \in BOOLEAN
    BY <1>1, <1>4, FolderTypes
  <2>6. match => idAt # 0 /\ bytes[idAt] = <<Of(t)>>
    OBVIOUS
  <2>7. ~cleared => /\ journalAt = j /\ JournalNamed
                    /\ match => OwnBlocks(j, Of(t)) /\ Of1(bytes[j], Of(t))
    <3>1. ~cleared => journalAt = j /\ JournalNamed
      BY <1>1, <1>2 DEF Writing
    <3>2. journalAt = j => journalAt # 0
      BY <1>2, FetchAssumption
    <3> QED
      BY <1>2, <2>6, <3>1, <3>2 DEF JournalNamed, OwnBlocks
  <2>8. ~cleared => Of1(resumed, Of(t))
    BY <2>7 DEF Of1
  <2>9. ~cleared => ~misread'
    BY <1>1, <1>2, <1>4, <2>8 DEF Of1
  <2> HIDE DEF x, match, resumed
  <2>10. Sound(x)
    BY <1>1, <1>2, <2>1, <2>3, <2>6 DEF Sound, Closed, Fetching
  <2>11. taker'[t] = x
    BY <2>4, FolderTypes
  <2>12. ~cleared => LockHeld!(t)'
    BY <1>1, <2>3, <2>6, <2>7, <2>8, <2>11 DEF OwnBlocks, Of1, Of
  <2>13. ~cleared => JournalNamed'
    BY <1>1, <1>2 DEF JournalNamed, OwnBlocks, Of1
  <2>14. idAt # 0 => durable'[idAt] = bytes'[idAt]
    BY <1>1 DEF FetchInv, FolderHeld, FilesSynced
  <2> QED
    BY <1>1, <1>2, <2>1, <2>2, <2>3, <2>4, <2>5, <2>9, <2>10, <2>12, <2>13, <2>14, FolderTypes, WriterKeeps
       DEF Writing
<1> QED
  BY <1>3, <1>4 DEF FetchInv

\* A file that is written.
LEMMA PutTypes ==
  ASSUME NEW n \in 1 .. Nodes, NEW h \in Contents, Len(h) <= Blocks
  PROVE  \A f \in [1 .. Nodes -> Contents] :
           /\ [f EXCEPT ![n] = h] \in [1 .. Nodes -> Contents] /\ [f EXCEPT ![n] = h][n] = h
           /\ \A m \in (1 .. Nodes) \ {n} : [f EXCEPT ![n] = h][m] = f[m]
           /\ (\A m \in 1 .. Nodes : Len(f[m]) <= Blocks) =>
                \A m \in 1 .. Nodes : Len([f EXCEPT ![n] = h][m]) <= Blocks
OBVIOUS

LEMMA WriteIdentityKeeps == ASSUME FetchInv, NEW t \in Takers, WriteIdentity(t) PROVE FetchInv'
<1> DEFINE x == [taker[t] EXCEPT !.pc = "stream", !.hashed = <<>>]
           j == taker[t].journal
           n == taker[t].id
<1>1. /\ taker[t].pc = "name" /\ taker[t].pc \in Writing
      /\ UNCHANGED <<journalAt, idAt, destAt, kept, landed, misread, cleared>> /\ UNCHANGED fetched
      /\ UNCHANGED <<takes, mishaps>>
      /\ IF idAt # n THEN Ends(t) /\ UNCHANGED <<bytes, durable>>
         ELSE /\ bytes' = [bytes EXCEPT ![n] = <<Of(t)>>] /\ durable' = [durable EXCEPT ![n] = <<Of(t)>>]
              /\ taker' = [taker EXCEPT ![t] = x]
  BY DEF WriteIdentity, Doing, Writing, budget, Turns, Synced, Wrote
<1>2. WriterKnows(t)
  BY <1>1, WriterFinds
<1> USE DEF WriterKnows
<1>3. CASE idAt # n
  <2>1. UNCHANGED folder
    BY <1>1, <1>3 DEF folder
  <2> QED
    BY <1>1, <1>2, <1>3, <2>1, FetchOver
<1>4. CASE idAt = n
  <2>1. n \in 1 .. Nodes /\ n # j /\ <<Of(t)>> \in Contents /\ Len(<<Of(t)>>) = 1 /\ <<>> \in Contents /\ Len(<<>>) = 0
    BY <1>1, <1>2, ContentsKnown DEF Sound
  <2>2. x \in TakerRecords
    BY <1>2, <2>1, TakerEdits DEF Stages
  <2>3. /\ x.pc = "stream" /\ x.via = taker[t].via /\ x.delivery = taker[t].delivery /\ x.journal = j
        /\ x.id = n /\ x.hashed = <<>> /\ x.match = taker[t].match
    BY <1>2 DEF TakerRecords
  <2>4. taker' = [taker EXCEPT ![t] = x]
    BY <1>1, <1>4
  <2> HIDE DEF x
  <2>5. Sound(x)
    BY <1>1, <1>2, <2>1, <2>3, FetchAssumption DEF Sound, Closed, Fetching
  <2>6. taker'[t] = x
    BY <2>4, FolderTypes
  <2>7. /\ bytes' \in [1 .. Nodes -> Contents] /\ durable' \in [1 .. Nodes -> Contents]
        /\ bytes'[n] = <<Of(t)>> /\ durable'[n] = <<Of(t)>>
        /\ \A m \in (1 .. Nodes) \ {n} : bytes'[m] = bytes[m] /\ durable'[m] = durable[m]
        /\ \A m \in 1 .. Nodes : Len(bytes'[m]) <= Blocks /\ Len(durable'[m]) <= Blocks
    <3>1. <<Of(t)>> \in Contents /\ Len(<<Of(t)>>) <= Blocks /\ n \in 1 .. Nodes
      BY <2>1, FetchAssumption
    <3>2. bytes' = [bytes EXCEPT ![n] = <<Of(t)>>] /\ durable' = [durable EXCEPT ![n] = <<Of(t)>>]
      BY <1>1, <1>4
    <3>3. /\ bytes \in [1 .. Nodes -> Contents] /\ durable \in [1 .. Nodes -> Contents]
          /\ \A m \in 1 .. Nodes : Len(bytes[m]) <= Blocks /\ Len(durable[m]) <= Blocks
      BY FolderTypes
    <3> HIDE DEF n
    <3> QED
      BY <3>1, <3>2, <3>3, PutTypes
  <2>8. bytes'[j] = <<>> /\ durable'[j] = <<>>
    BY <1>1, <1>2, <2>1, <2>7 DEF FetchInv, FolderHeld, HashedIsWritten, Doing
  <2>9. OwnBlocks(j, Of(t))' /\ \A d \in Deliveries : Of1(bytes'[j], d) /\ Of1(durable'[j], d)
    BY <2>3, <2>6, <2>8 DEF OwnBlocks, Of1
  <2>10. ~cleared => journalAt = j
    BY <1>1, <1>2 DEF Writing
  <2>11. ~cleared => LockHeld!(t)'
    BY <1>1, <1>4, <2>3, <2>6, <2>7, <2>9, <2>10 DEF OwnBlocks, Of
  <2>12. ~cleared => JournalNamed' /\ ~misread'
    BY <1>1, <1>2, <2>9, <2>10 DEF JournalNamed, OwnBlocks
  <2>13. /\ taker[t].pc \in Writing /\ x.pc \in Writing /\ x.pc \notin {"name", "publish"} /\ misread' \in BOOLEAN
         /\ takes' \in Nat /\ mishaps' \in Nat
    BY <1>1, <1>2, <2>3, FolderTypes DEF Writing
  <2>14. /\ \A m \in (1 .. Nodes) \ {x.journal, x.id} : bytes'[m] = bytes[m] /\ durable'[m] = durable[m]
         /\ durable'[x.id] = bytes'[x.id] /\ bytes'[x.journal] = x.hashed
    BY <2>3, <2>7, <2>8
  <2>15. x.journal = taker[t].journal /\ x.id = taker[t].id
    BY <2>3
  <2> HIDE DEF n, j
  <2> QED
    BY <1>1, <2>2, <2>3, <2>4, <2>5, <2>7, <2>11, <2>12, <2>13, <2>14, <2>15, WriterKeeps
<1> QED
  BY <1>3, <1>4

LEMMA EmptiedTypes ==
  ASSUME NEW files
  PROVE  \A f \in [1 .. Nodes -> Contents] :
           /\ Emptied(files, f) \in [1 .. Nodes -> Contents]
           /\ (\A n \in 1 .. Nodes : Len(f[n]) <= Blocks) =>
                \A n \in 1 .. Nodes : Len(Emptied(files, f)[n]) <= Blocks
           /\ \A n \in 1 .. Nodes : Emptied(files, f)[n] = IF n \in files THEN <<>> ELSE f[n]
BY ContentsKnown, FetchAssumption DEF Emptied

LEMMA OpenIdentityKeeps == ASSUME FetchInv, NEW t \in Takers, OpenIdentity(t) PROVE FetchInv'
<1> DEFINE created == taker[t].id = 0
           id == IF created THEN NewNode ELSE taker[t].id
           j == taker[t].journal
           match == taker[t].match
           next == IF match THEN "stream" ELSE "name"
           x == [taker[t] EXCEPT !.id = id, !.pc = next]
           files == {j} \cup (IF created THEN {id} ELSE {})
<1>1. /\ taker[t].pc = "identity" /\ taker[t].pc \in Writing
      /\ UNCHANGED <<journalAt, destAt, kept, landed, misread, cleared>> /\ UNCHANGED fetched
      /\ UNCHANGED <<takes, mishaps>>
      /\ IF (created /\ idAt # 0) \/ (~created /\ ~match /\ idAt # id)
         THEN Ends(t) /\ UNCHANGED <<idAt, bytes, durable>>
         ELSE /\ created => NodeLeft
              /\ idAt' = IF created THEN id ELSE idAt
              /\ taker' = [taker EXCEPT ![t] = x]
              /\ IF match THEN bytes' = [bytes EXCEPT ![j] = taker[t].hashed] /\ UNCHANGED durable
                 ELSE bytes' = Emptied(files, bytes) /\ durable' = Emptied(files, durable)
  BY DEF OpenIdentity, Doing, Writing, budget, Turns, Wrote, ResetJournal
<1>2. WriterKnows(t)
  BY <1>1, WriterFinds
<1> USE DEF WriterKnows
<1>3. CASE (created /\ idAt # 0) \/ (~created /\ ~match /\ idAt # id)
  <2>1. UNCHANGED folder
    BY <1>1, <1>3 DEF folder
  <2> QED
    BY <1>1, <1>2, <1>3, <2>1, FetchOver
<1>4. CASE ~((created /\ idAt # 0) \/ (~created /\ ~match /\ idAt # id))
  <2>1. created => id \in 1 .. Nodes /\ Free(id)
    BY <1>1, <1>4 DEF NodeLeft, NewNode
  <2>2. match \in BOOLEAN /\ (match => ~created)
    BY <1>1, <1>2 DEF Sound, TakerRecords
  <2>3. id \in 1 .. Nodes /\ id # 0 /\ (created => id # j)
    <3>1. created => id # j
      BY <1>2, <2>1, IdentityApart, FetchAssumption
    <3> QED
      BY <1>2, <2>1, <3>1, FetchAssumption
  <2>4. id # j
    BY <1>2, <2>3
  <2>5. x \in TakerRecords
    <3>1. taker[t] \in TakerRecords /\ next \in Stages /\ id \in 0 .. Nodes
      BY <1>2, <2>3 DEF Stages
    <3> HIDE DEF next, id
    <3> QED
      BY <3>1, TakerEdits
  <2>6. /\ x.pc = next /\ x.via = taker[t].via /\ x.delivery = taker[t].delivery /\ x.journal = j
        /\ x.id = id /\ x.hashed = taker[t].hashed /\ x.match = match
    BY <1>2 DEF TakerRecords
  <2>7. taker' = [taker EXCEPT ![t] = x] /\ idAt' = IF created THEN id ELSE idAt
    BY <1>1, <1>4
  <2>8. taker'[t] = x
    BY <2>7, FolderTypes
  <2>9. x.pc \in {"stream", "name"} /\ (x.pc = "stream" <=> match)
    BY <2>2, <2>6
  <2>10. x.id \in {taker[t].id, idAt} \/ (x.id # 0 /\ Free(x.id))
    BY <2>1, <2>3, <2>6
  <2>11. idAt' \in {idAt, x.id}
    BY <2>6, <2>7
  <2>12. created => idAt' = id
    BY <2>7
  <2>13. ~created => idAt' = idAt /\ id = taker[t].id /\ (~match => idAt = id)
    BY <1>4, <2>7
  <2> HIDE DEF x, next
  <2>14. Sound(x)
    BY <1>1, <1>2, <2>3, <2>6, <2>9 DEF Sound, Closed, Fetching
  <2>15. ~cleared => /\ journalAt = j /\ idAt \in {taker[t].id, 0}
                     /\ match => bytes[id] = <<Of(t)>> /\ OwnBlocks(j, Of(t)) /\ Of1(taker[t].hashed, Of(t))
    BY <1>1, <1>2, <2>2, <2>13 DEF Writing
  <2>16. CASE match
    <3>1. /\ bytes' \in [1 .. Nodes -> Contents] /\ \A n \in 1 .. Nodes : Len(bytes'[n]) <= Blocks
          /\ bytes'[j] = taker[t].hashed /\ \A n \in (1 .. Nodes) \ {j} : bytes'[n] = bytes[n]
          /\ durable' = durable
      BY <1>1, <1>2, <1>4, <2>16, FolderTypes DEF Sound
    <3>2. ~created /\ id = taker[t].id /\ bytes'[id] = bytes[id] /\ durable'[id] = bytes'[id]
      BY <1>2, <2>2, <2>3, <2>4, <2>16, <3>1
    <3>3. ~cleared => OwnBlocks(j, Of(t))' /\ Of(t)' = Of(t) /\ taker'[t].journal = j
      BY <2>6, <2>8, <2>15, <2>16, <3>1 DEF OwnBlocks, Of
    <3>4. ~cleared => LockHeld!(t)'
      BY <1>1, <2>6, <2>8, <2>9, <2>13, <2>15, <2>16, <3>2, <3>3 DEF OwnBlocks, Of
    <3>5. ~cleared => JournalNamed' /\ ~misread'
      <4>1. ASSUME ~cleared, idAt' # 0, NEW d \in Deliveries, bytes'[idAt'] = <<d>> PROVE OwnBlocks(journalAt, d)'
        <5>1. idAt' = id /\ <<d>> = <<Of(t)>>
          BY <2>13, <2>15, <2>16, <3>2, <4>1
        <5>2. d = Of(t)
          BY <5>1
        <5> QED
          BY <1>1, <2>15, <3>3, <4>1, <5>2 DEF OwnBlocks
      <4> QED
        BY <1>1, <1>2, <4>1 DEF JournalNamed
    <3> HIDE DEF created, id, match, files
    <3> QED
      BY <1>1, <1>2, <2>3, <2>5, <2>6, <2>7, <2>9, <2>10, <2>11, <2>14, <2>16, <3>1, <3>2, <3>4, <3>5,
         FolderTypes, WriterKeeps DEF Writing
  <2>17. CASE ~match
    <3>1. /\ bytes' = Emptied(files, bytes) /\ durable' = Emptied(files, durable)
          /\ files \subseteq {j, id} /\ j \in files /\ (created => id \in files)
      BY <1>1, <1>4, <2>17
    <3> HIDE DEF files
    <3>8. /\ bytes \in [1 .. Nodes -> Contents] /\ durable \in [1 .. Nodes -> Contents]
          /\ \A n \in 1 .. Nodes : Len(bytes[n]) <= Blocks /\ Len(durable[n]) <= Blocks
          /\ j \in 1 .. Nodes /\ id \in 1 .. Nodes
      BY <1>2, <2>3, FolderTypes
    <3>9. \A n \in 1 .. Nodes :  /\ bytes'[n] = (IF n \in files THEN <<>> ELSE bytes[n])
                                /\ durable'[n] = (IF n \in files THEN <<>> ELSE durable[n])
      BY <3>1 DEF Emptied
    <3>2. /\ bytes' \in [1 .. Nodes -> Contents] /\ durable' \in [1 .. Nodes -> Contents]
          /\ \A n \in 1 .. Nodes : Len(bytes'[n]) <= Blocks /\ Len(durable'[n]) <= Blocks
          /\ \A n \in (1 .. Nodes) \ {j, id} : bytes'[n] = bytes[n] /\ durable'[n] = durable[n]
          /\ bytes'[j] = <<>> /\ durable'[j] = <<>>
      <4>1. /\ bytes' \in [1 .. Nodes -> Contents] /\ durable' \in [1 .. Nodes -> Contents]
            /\ \A n \in 1 .. Nodes : Len(bytes'[n]) <= Blocks /\ Len(durable'[n]) <= Blocks
        BY <3>1, <3>8, EmptiedTypes
      <4> HIDE DEF id
      <4> QED
        BY <3>1, <3>8, <3>9, <4>1
    <3>3. durable'[id] = bytes'[id]
      <4>1. CASE id \in files
        BY <3>8, <3>9, <4>1
      <4>2. CASE id \notin files
        <5>1. ~created /\ id = taker[t].id /\ taker[t].id # 0
          BY <2>3, <2>13, <3>1, <4>2
        <5>2. durable[id] = bytes[id]
          BY <1>2, <5>1
        <5> QED
          BY <3>8, <3>9, <4>2, <5>2
      <4> QED
        BY <4>1, <4>2
    <3>4. \A d \in Deliveries : Of1(bytes'[j], d) /\ Of1(durable'[j], d)
      BY <3>2 DEF Of1
    <3>5. ~cleared => LockHeld!(t)'
      BY <1>1, <2>6, <2>8, <2>9, <2>12, <2>13, <2>15, <2>17
    <3>6. ~cleared => JournalNamed' /\ ~misread'
      BY <1>1, <1>2, <2>15, <3>4 DEF JournalNamed, OwnBlocks
    <3> HIDE DEF created, id, match
    <3> QED
      BY <1>1, <1>2, <2>3, <2>5, <2>6, <2>7, <2>9, <2>10, <2>11, <2>14, <2>17, <3>2, <3>3, <3>5, <3>6,
         FolderTypes, WriterKeeps DEF Writing
  <2> QED
    BY <2>16, <2>17
<1> QED
  BY <1>3, <1>4

\* A receive closes its journal and leaves every file as it is; the names of
\* its own journal and of its identity may go.
LEMMA WriterLeaves ==
  ASSUME FetchInv, NEW t \in Takers, NEW x \in TakerRecords, Sound(x), taker' = [taker EXCEPT ![t] = x],
         x.pc \in Closed,
         \/ x.via = "http" /\ x.pc = "idle"
         \/ /\ x.via = taker[t].via /\ x.delivery = taker[t].delivery
            /\ x.pc = "saved" /\ x.delivery \in landed,
         UNCHANGED <<destAt, kept, bytes, durable, landed, misread, cleared>>, UNCHANGED fetched,
         UNCHANGED <<takes, mishaps>>,
         taker[t].pc \in Writing \cup {"unname"},
         journalAt' \in {journalAt, 0}, idAt' \in {idAt, 0},
         journalAt' # journalAt => taker[t].pc \in Writing /\ journalAt = taker[t].journal
  PROVE  FetchInv'
<1>1. FetchTypes /\ TakersSound /\ FolderHeld /\ PrefixHeld
  BY DEF FetchInv
<1>2. taker'[t] = x /\ \A o \in Takers \ {t} : taker'[o] = taker[o]
  BY <1>1, OneTaker
<1>3. x.journal = 0 /\ x.id = 0 /\ x.pc \notin Writing \cup {"opened"}
  BY DEF Sound, Closed, Writing, Fetching
<1>4. NamesApart'
  <2>1. 0 \notin KeptNodes
    BY FolderTypes
  <2> QED
    BY <1>1, <2>1 DEF FolderHeld, FilesApart, NamesApart, KeptNodes
<1>5. HandlesApart'
  <2>1. 0 \notin KeptNodes
    BY FolderTypes
  <2> QED
    BY <1>1, <1>2, <1>3, <2>1 DEF FolderHeld, FilesApart, HandlesApart, KeptNodes
<1>6. JournalsExclusive'
  BY <1>1, <1>2, <1>3 DEF FolderHeld, FilesApart, JournalsExclusive, Doing
<1>7. FilesSynced' /\ KeptLanded' /\ LandedIntact'
  BY <1>1, <1>2, <1>3 DEF FolderHeld, FilesSynced, KeptLanded, LandedIntact
<1>8. HashedIsWritten'
  BY <1>1, <1>2, <1>3 DEF FolderHeld, HashedIsWritten, Doing, Writing
<1>9. PrefixHeld'
  <2>1. ASSUME ~cleared, NEW o \in Takers PROVE LockHeld!(o)'
    <3>1. CASE o = t
      BY <1>2, <1>3, <3>1 DEF Writing
    <3>2. CASE o # t /\ taker[o].pc \notin Writing
      BY <1>2, <3>2 DEF Writing
    <3>3. CASE o # t /\ taker[o].pc \in Writing
      <4>1. journalAt' = journalAt
        BY <1>1, <2>1, <3>3, OneWriter
      <4> QED
        BY <1>1, <1>2, <2>1, <3>3, <4>1 DEF PrefixHeld, LockHeld, OwnBlocks, Of1, Of
    <3> QED
      BY <3>1, <3>2, <3>3
  <2>2. JournalNamed => JournalNamed'
    BY DEF JournalNamed, OwnBlocks, Of1
  <2> QED
    BY <1>1, <2>1, <2>2 DEF PrefixHeld, LockHeld
<1>10. FolderHeld'
  BY <1>4, <1>5, <1>6, <1>7, <1>8 DEF FolderHeld, FilesApart
<1>11. {journalAt', idAt', destAt'} \subseteq 0 .. Nodes
  BY FolderTypes, FetchAssumption
<1>12. takes' \in Nat /\ mishaps' \in Nat
  BY OneRecord
<1>13. taker[t].pc \in Landing /\ (x.pc = "idle" \/ x.pc \in Landing)
  BY DEF Landing
<1> QED
  BY <1>9, <1>10, <1>11, <1>12, <1>13, FolderTypes, LandingKeeps

LEMMA StreamBreaksKeeps == ASSUME FetchInv, NEW t \in Takers, StreamBreaks(t) PROVE FetchInv'
<1>1. taker' = [taker EXCEPT ![t] = Resting] /\ Resting.pc = "idle" /\ Resting.via = "http"
  BY DEF StreamBreaks, Ends, Turns, Resting
<1>2. taker[t].pc \in Writing /\ Resting.pc \in Closed
  BY <1>1 DEF StreamBreaks, Doing, Writing, Closed
<1> QED
  BY <1>1, <1>2, RestingSound, WriterLeaves DEF StreamBreaks, budget

LEMMA RemoveIdentityKeeps == ASSUME FetchInv, NEW t \in Takers, RemoveIdentity(t) PROVE FetchInv'
<1>1. /\ taker[t].pc = "unname" /\ taker[t] \in TakerRecords /\ Sound(taker[t])
      /\ idAt' \in {idAt, 0} /\ UNCHANGED <<journalAt, destAt, kept, bytes, durable, landed, misread, cleared>>
      /\ UNCHANGED fetched /\ UNCHANGED <<takes, mishaps>>
  BY OneRecord DEF RemoveIdentity, Doing, budget
<1>2. CASE Ends(t)
  <2>1. taker' = [taker EXCEPT ![t] = Resting] /\ Resting.pc = "idle" /\ Resting.via = "http" /\ Resting.pc \in Closed
    BY <1>2 DEF Ends, Turns, Resting, Closed
  <2> QED
    BY <1>1, <2>1, RestingSound, WriterLeaves
<1>3. CASE taker[t].via = "fetch" /\ Turns(t, [taker[t] EXCEPT !.pc = "saved", !.journal = 0, !.id = 0])
  <2> DEFINE x == [taker[t] EXCEPT !.pc = "saved", !.journal = 0, !.id = 0]
  <2>1. x \in TakerRecords
    BY <1>1, TakerEdits DEF Stages
  <2>2. /\ x.pc = "saved" /\ x.via = taker[t].via /\ x.delivery = taker[t].delivery /\ x.journal = 0 /\ x.id = 0
        /\ x.hashed = taker[t].hashed
    BY <1>1 DEF TakerRecords
  <2>3. taker' = [taker EXCEPT ![t] = x]
    BY <1>3 DEF Turns
  <2> HIDE DEF x
  <2>4. Sound(x) /\ x.pc \in Closed
    BY <1>1, <1>3, <2>2 DEF Sound, Closed, Fetching
  <2>5. x.delivery \in landed
    BY <1>1, <2>2 DEF FetchInv, StagesHeld, Of
  <2> QED
    BY <1>1, <2>1, <2>2, <2>3, <2>4, <2>5, WriterLeaves
<1> QED
  BY <1>2, <1>3 DEF RemoveIdentity

LEMMA LockJournalKeeps == ASSUME FetchInv, NEW t \in Takers, LockJournal(t) PROVE FetchInv'
<1>1. /\ taker[t].pc = "opened" /\ taker[t] \in TakerRecords /\ Sound(taker[t])
      /\ UNCHANGED folder /\ UNCHANGED fetched /\ takes' \in Nat /\ mishaps' \in Nat
  BY OneRecord DEF LockJournal, Doing, budget
<1>2. CASE Ends(t)
  BY <1>1, <1>2, FetchOver
<1>3. CASE ~JournalLocked(taker[t].journal) /\ journalAt = taker[t].journal /\ Moves(t, "inspect")
  <2> DEFINE x == [taker[t] EXCEPT !.pc = "inspect"]
  <2>1. x \in TakerRecords
    BY <1>1, TakerEdits DEF Stages
  <2>2. /\ x.pc = "inspect" /\ x.via = taker[t].via /\ x.delivery = taker[t].delivery /\ x.journal = taker[t].journal
        /\ x.id = taker[t].id /\ x.hashed = taker[t].hashed /\ x.match = taker[t].match
    BY <1>1 DEF TakerRecords
  <2>3. taker' = [taker EXCEPT ![t] = x]
    BY <1>3 DEF Moves
  <2> HIDE DEF x
  <2>4. Sound(x)
    BY <1>1, <2>2 DEF Sound, Closed, Fetching
  <2>5. taker'[t] = x /\ \A o \in Takers \ {t} : taker'[o] = taker[o]
    BY <2>1, <2>3, <2>4, OneTaker DEF FetchInv
  <2>6. UNCHANGED <<journalAt, idAt, destAt, kept, bytes, durable, landed, misread, cleared>>
    BY <1>1 DEF folder
  <2>7. FolderHeld /\ PrefixHeld /\ journalAt = taker[t].journal /\ taker[t].journal # 0 /\ taker[t].id = 0
    BY <1>1, <1>3 DEF FetchInv, Sound, Closed, Fetching
  <2>8. NamesApart'
    BY <2>6, <2>7 DEF FolderHeld, FilesApart, NamesApart, KeptNodes
  <2>9. HandlesApart'
    <3>1. journalAt \notin KeptNodes
      BY <2>7 DEF FolderHeld, FilesApart, NamesApart
    <3> QED
      BY <2>2, <2>5, <2>6, <2>7, <3>1 DEF FolderHeld, FilesApart, HandlesApart, KeptNodes
  <2>10. JournalsExclusive'
    <3>1. \A o \in Takers : taker[o].journal = taker[t].journal => Doing(o, "opened")
      BY <1>3 DEF JournalLocked
    <3> QED
      BY <2>2, <2>5, <2>7, <3>1 DEF FolderHeld, FilesApart, JournalsExclusive, Doing
  <2>11. FilesSynced' /\ KeptLanded' /\ LandedIntact'
    BY <2>2, <2>5, <2>6, <2>7 DEF FolderHeld, FilesSynced, KeptLanded, LandedIntact
  <2>12. HashedIsWritten'
    BY <2>2, <2>5, <2>6, <2>7 DEF FolderHeld, HashedIsWritten, Doing
  <2>13. PrefixHeld'
    <3>1. ASSUME ~cleared, NEW o \in Takers PROVE LockHeld!(o)'
      <4>1. CASE o = t
        BY <2>2, <2>5, <2>6, <2>7, <4>1
      <4>2. CASE o # t
        BY <2>5, <2>6, <2>7, <3>1, <4>2 DEF PrefixHeld, LockHeld, OwnBlocks, Of1, Of
      <4> QED
        BY <4>1, <4>2
    <3>2. JournalNamed => JournalNamed'
      BY <2>6 DEF JournalNamed, OwnBlocks, Of1
    <3> QED
      BY <2>6, <2>7, <3>1, <3>2 DEF PrefixHeld, LockHeld
  <2>14. FolderHeld'
    BY <2>8, <2>9, <2>10, <2>11, <2>12 DEF FolderHeld, FilesApart
  <2>15. taker[t].pc \in Landing /\ x.pc \in Landing /\ x.pc \notin {"unname", "saved"}
    BY <1>1, <2>2 DEF Landing, Writing
  <2> QED
    BY <1>1, <2>1, <2>2, <2>3, <2>4, <2>6, <2>13, <2>14, <2>15, FolderTypes, LandingKeeps
<1> QED
  BY <1>2, <1>3 DEF LockJournal

\* A new file is none of those that paths name or handles hold.
LEMMA NewNodeFree ==
  ASSUME FetchInv, NodeLeft
  PROVE  /\ NewNode \in 1 .. Nodes /\ NewNode # 0 /\ NewNode \notin KeptNodes
         /\ NewNode # journalAt /\ NewNode # idAt /\ NewNode # destAt
         /\ \A o \in Takers : NewNode # taker[o].journal /\ NewNode # taker[o].id
<1>1. NewNode \in 1 .. Nodes /\ Free(NewNode)
  BY DEF NodeLeft, NewNode
<1> QED
  BY <1>1, FetchAssumption DEF Free, Handles, KeptNodes

LEMMA OpenJournalKeeps == ASSUME FetchInv, NEW t \in Takers, OpenJournal(t) PROVE FetchInv'
<1> DEFINE n == IF journalAt = 0 THEN NewNode ELSE journalAt
           x == [taker[t] EXCEPT !.pc = "opened", !.journal = n]
<1>1. /\ taker[t].pc = "open" /\ journalAt' = n /\ taker' = [taker EXCEPT ![t] = x]
      /\ IF journalAt = 0 THEN NodeLeft /\ Synced(n, <<>>) ELSE UNCHANGED <<bytes, durable>>
      /\ UNCHANGED <<idAt, destAt, kept, landed, misread, cleared>> /\ UNCHANGED fetched
      /\ UNCHANGED <<takes, mishaps>>
  BY DEF OpenJournal, Doing, Turns, budget
<1>2. /\ taker[t] \in TakerRecords /\ Sound(taker[t]) /\ takes' \in Nat /\ mishaps' \in Nat /\ taker[t].id = 0
      /\ FetchTypes /\ TakersSound /\ FolderHeld /\ PrefixHeld
  BY <1>1, OneRecord DEF Sound, Closed, FetchInv
<1>3. /\ n \in 1 .. Nodes /\ n # 0 /\ n \notin KeptNodes /\ n # idAt
      /\ \A o \in Takers : taker[o].id # 0 => taker[o].id # n
  <2>1. CASE journalAt = 0
    <3>1. n = NewNode
      BY <2>1
    <3> HIDE DEF n
    <3> QED
      BY <1>1, <2>1, <3>1, NewNodeFree
  <2>2. CASE journalAt # 0
    <3>1. n = journalAt /\ journalAt \in 1 .. Nodes
      BY <2>2, FolderTypes, FetchAssumption
    <3> HIDE DEF n
    <3> QED
      BY <1>2, <2>2, <3>1 DEF FolderHeld, FilesApart, NamesApart, HandlesApart
  <2> QED
    BY <2>1, <2>2
<1>4. /\ bytes' \in [1 .. Nodes -> Contents] /\ durable' \in [1 .. Nodes -> Contents]
      /\ \A m \in 1 .. Nodes : Len(bytes'[m]) <= Blocks /\ Len(durable'[m]) <= Blocks
      /\ \A m \in (1 .. Nodes) \ {n} : bytes'[m] = bytes[m] /\ durable'[m] = durable[m]
      /\ \/ journalAt = n /\ UNCHANGED <<bytes, durable>>
         \/ /\ journalAt = 0 /\ \A o \in Takers : taker[o].journal # n
            /\ bytes'[n] = <<>> /\ durable'[n] = <<>>
  <2>1. CASE journalAt # 0
    BY <1>1, <2>1, FolderTypes
  <2>2. CASE journalAt = 0
    <3>1. bytes' = [bytes EXCEPT ![n] = <<>>] /\ durable' = [durable EXCEPT ![n] = <<>>]
      BY <1>1, <2>2 DEF Synced, Wrote
    <3>2. \A o \in Takers : taker[o].journal # n
      BY <1>1, <2>2, NewNodeFree
    <3>3. <<>> \in Contents /\ Len(<<>>) <= Blocks
      BY ContentsKnown, FetchAssumption
    <3>4. /\ bytes \in [1 .. Nodes -> Contents] /\ durable \in [1 .. Nodes -> Contents]
          /\ \A m \in 1 .. Nodes : Len(bytes[m]) <= Blocks /\ Len(durable[m]) <= Blocks
      BY FolderTypes
    <3> HIDE DEF n
    <3> QED
      BY <1>3, <2>2, <3>1, <3>2, <3>3, <3>4, PutTypes
  <2> QED
    BY <2>1, <2>2
<1>5. x \in TakerRecords
  <2>1. n \in 0 .. Nodes /\ "opened" \in Stages
    BY <1>3 DEF Stages
  <2> HIDE DEF n
  <2> QED
    BY <1>2, <2>1, TakerEdits
<1>6. /\ x.pc = "opened" /\ x.via = taker[t].via /\ x.delivery = taker[t].delivery /\ x.journal = n
      /\ x.id = 0 /\ x.hashed = taker[t].hashed
  BY <1>2 DEF TakerRecords
<1> HIDE DEF x, n
<1>7. Sound(x)
  BY <1>1, <1>2, <1>3, <1>6 DEF Sound, Closed, Fetching
<1>8. taker'[t] = x /\ \A o \in Takers \ {t} : taker'[o] = taker[o]
  BY <1>1, <1>2, <1>5, <1>7, OneTaker
<1>9. \A o \in Takers : /\ taker[o] \in TakerRecords /\ taker[o].id \in 0 .. Nodes /\ taker[o].journal \in 0 .. Nodes
                        /\ taker[o].id # 0 => taker[o].id \in (1 .. Nodes) \ {n}
  BY <1>2, <1>3, FetchAssumption DEF FetchTypes, TakerRecords
<1>10. NamesApart'
  BY <1>1, <1>2, <1>3 DEF FolderHeld, FilesApart, NamesApart, KeptNodes
<1>11. HandlesApart'
  <2>1. KeptNodes' = KeptNodes /\ 0 \notin KeptNodes /\ HandlesApart
    BY <1>1, <1>2, FolderTypes DEF KeptNodes, FolderHeld, FilesApart
  <2>2. HandlesApart!(t)'
    BY <1>1, <1>3, <1>6, <1>8, <2>1 DEF Writing
  <2>3. ASSUME NEW o \in Takers \ {t} PROVE HandlesApart!(o)'
    <3>1. taker'[o] = taker[o] /\ HandlesApart!(o)
      BY <1>8, <2>1 DEF HandlesApart
    <3>2. taker[o].id # 0 => \A p \in Takers : taker[o].id # taker'[p].journal
      BY <1>3, <1>6, <1>8, <3>1
    <3> QED
      BY <1>1, <1>3, <2>1, <3>1, <3>2
  <2> QED
    BY <2>2, <2>3 DEF HandlesApart
<1>12. JournalsExclusive'
  BY <1>2, <1>6, <1>8 DEF FolderHeld, FilesApart, JournalsExclusive, Doing
<1>13. FilesSynced' /\ KeptLanded' /\ LandedIntact'
  <2>1. \A k \in kept : k[1] \in (1 .. Nodes) \ {n}
    BY <1>3, FolderTypes DEF KeptNodes
  <2>2. idAt # 0 => idAt \in (1 .. Nodes) \ {n}
    BY <1>3, FolderTypes, FetchAssumption
  <2>3. \A o \in Takers : taker'[o].id # 0 => taker'[o].id = taker[o].id
    BY <1>6, <1>8
  <2> QED
    BY <1>1, <1>2, <1>4, <1>9, <2>1, <2>2, <2>3 DEF FolderHeld, FilesSynced, KeptLanded, LandedIntact
<1>14. HashedIsWritten'
  <2>1. ASSUME NEW o \in Takers, taker'[o].pc \in {"name", "stream", "publish"}
        PROVE  /\ taker'[o] = taker[o] /\ bytes'[taker[o].journal] = bytes[taker[o].journal]
               /\ durable'[taker[o].journal] = durable[taker[o].journal]
    <3>1. o # t /\ taker'[o] = taker[o] /\ taker[o].journal \in 1 .. Nodes
      BY <1>2, <1>6, <1>8, <1>9, <2>1, FetchAssumption DEF TakersSound, Sound, Closed, Fetching
    <3> QED
      BY <1>4, <3>1
  <2> QED
    BY <1>2, <2>1 DEF FolderHeld, HashedIsWritten, Doing
<1>15. PrefixHeld'
  <2>1. ASSUME ~cleared, NEW o \in Takers PROVE LockHeld!(o)'
    <3>1. CASE taker'[o].pc \notin Writing
      BY <3>1 DEF Writing
    <3>2. CASE taker'[o].pc \in Writing
      <4>1. taker'[o] = taker[o] /\ taker[o].pc \in Writing /\ LockHeld!(o) /\ taker[o].journal # 0
        BY <1>2, <1>6, <1>8, <2>1, <3>2 DEF PrefixHeld, LockHeld, Writing, TakersSound, Sound, Closed, Fetching
      <4>2. journalAt = n /\ UNCHANGED <<bytes, durable>>
        BY <1>4, <4>1
      <4> QED
        BY <1>1, <4>1, <4>2 DEF OwnBlocks, Of1, Of
    <3> QED
      BY <3>1, <3>2
  <2>2. JournalNamed => JournalNamed'
    <3>1. CASE journalAt = n /\ UNCHANGED <<bytes, durable>>
      BY <1>1, <3>1 DEF JournalNamed, OwnBlocks, Of1
    <3>2. CASE bytes'[n] = <<>> /\ durable'[n] = <<>>
      BY <1>1, <3>2 DEF JournalNamed, OwnBlocks, Of1
    <3> QED
      BY <1>4, <3>1, <3>2
  <2> QED
    BY <1>1, <1>2, <2>1, <2>2 DEF PrefixHeld, LockHeld
<1>16. FolderHeld'
  BY <1>10, <1>11, <1>12, <1>13, <1>14 DEF FolderHeld, FilesApart
<1>17. /\ taker[t].pc \in Landing /\ x.pc \in Landing /\ x.pc \notin {"unname", "saved"}
       /\ {journalAt', idAt', destAt'} \subseteq 0 .. Nodes
  BY <1>1, <1>3, <1>6, FolderTypes DEF Landing
<1> QED
  BY <1>1, <1>2, <1>4, <1>5, <1>6, <1>7, <1>15, <1>16, <1>17, FolderTypes, LandingKeeps

LEMMA OneMoreKept ==
  ASSUME NEW n, NEW d, kept' = kept \cup {<<n, d>>}
  PROVE  KeptNodes' = KeptNodes \cup {n}
<1>1. <<n, d>>[1] = n
  OBVIOUS
<1>2. KeptNodes' = {k[1] : k \in kept \cup {<<n, d>>}}
  BY DEF KeptNodes
<1>3. \A m : m \in KeptNodes' <=> \E k \in kept \cup {<<n, d>>} : m = k[1]
  BY <1>2
<1>4. \A m : m \in KeptNodes <=> \E k \in kept : m = k[1]
  BY DEF KeptNodes
<1> QED
  BY <1>1, <1>3, <1>4

LEMMA CloneKeeps == ASSUME FetchInv, NEW t \in Takers, Clone(t) PROVE FetchInv'
<1>1. /\ taker[t].pc = "open" /\ taker[t].via = "fetch" /\ taker[t] \in TakerRecords /\ Sound(taker[t])
      /\ UNCHANGED <<journalAt, idAt, misread, cleared>> /\ UNCHANGED fetched /\ UNCHANGED <<takes, mishaps>>
      /\ takes' \in Nat /\ mishaps' \in Nat /\ Of(t) \in Deliveries
  BY OneRecord DEF Clone, Doing, budget, Of
<1>2. CASE destAt # 0
  <2>1. Ends(t) /\ UNCHANGED folder
    BY <1>1, <1>2 DEF Clone, folder
  <2> QED
    BY <1>1, <2>1, FetchOver
<1>3. CASE destAt = 0
  <2> DEFINE n == NewNode
             x == [taker[t] EXCEPT !.pc = "saved"]
  <2>1. /\ NodeLeft /\ destAt' = n /\ kept' = kept \cup {<<n, Of(t)>>} /\ landed' = landed \cup {Of(t)}
        /\ bytes' = [bytes EXCEPT ![n] = Whole(Of(t))] /\ durable' = [durable EXCEPT ![n] = Whole(Of(t))]
        /\ taker' = [taker EXCEPT ![t] = x]
    BY <1>3 DEF Clone, Synced, Wrote, Moves
  <2>2. /\ n \in 1 .. Nodes /\ n # 0 /\ n \notin KeptNodes /\ n # journalAt /\ n # idAt
        /\ \A o \in Takers : n # taker[o].journal /\ n # taker[o].id
    BY <2>1, NewNodeFree
  <2> HIDE DEF n
  <2>3. Whole(Of(t)) \in Contents /\ Len(Whole(Of(t))) <= Blocks
    BY <1>1, ContentsKnown, FetchAssumption
  <2>4. /\ bytes' \in [1 .. Nodes -> Contents] /\ durable' \in [1 .. Nodes -> Contents]
        /\ \A m \in 1 .. Nodes : Len(bytes'[m]) <= Blocks /\ Len(durable'[m]) <= Blocks
        /\ \A m \in (1 .. Nodes) \ {n} : bytes'[m] = bytes[m] /\ durable'[m] = durable[m]
        /\ bytes'[n] = Whole(Of(t)) /\ durable'[n] = Whole(Of(t))
    <3>1. /\ bytes \in [1 .. Nodes -> Contents] /\ durable \in [1 .. Nodes -> Contents]
          /\ \A m \in 1 .. Nodes : Len(bytes[m]) <= Blocks /\ Len(durable[m]) <= Blocks
      BY FolderTypes
    <3> QED
      BY <2>1, <2>2, <2>3, <3>1, PutTypes
  <2>5. x \in TakerRecords
    BY <1>1, TakerEdits DEF Stages
  <2>6. /\ x.pc = "saved" /\ x.via = taker[t].via /\ x.delivery = Of(t) /\ x.delivery = taker[t].delivery
        /\ x.journal = taker[t].journal /\ x.id = taker[t].id /\ x.hashed = taker[t].hashed
    BY <1>1 DEF TakerRecords, Of
  <2> HIDE DEF x
  <2>7. Sound(x) /\ x.journal = 0 /\ x.id = 0
    BY <1>1, <2>6 DEF Sound, Closed, Fetching
  <2>8. FetchTypes /\ TakersSound /\ FolderHeld /\ PrefixHeld
    BY DEF FetchInv
  <2>9. taker'[t] = x /\ \A o \in Takers \ {t} : taker'[o] = taker[o]
    BY <2>1, <2>5, <2>7, <2>8, OneTaker
  <2>10. KeptNodes' = KeptNodes \cup {n}
    BY <2>1, OneMoreKept
  <2>11. FilesApart'
    <3>1. NamesApart'
      BY <1>1, <2>1, <2>2, <2>8, <2>10 DEF FolderHeld, FilesApart, NamesApart
    <3>2. HandlesApart'
      <4>1. 0 \notin KeptNodes
        BY FolderTypes
      <4> QED
        BY <1>1, <2>2, <2>6, <2>7, <2>8, <2>9, <2>10, <4>1 DEF FolderHeld, FilesApart, HandlesApart, Writing
    <3>3. JournalsExclusive'
      BY <2>7, <2>8, <2>9 DEF FolderHeld, FilesApart, JournalsExclusive, Doing
    <3> QED
      BY <3>1, <3>2, <3>3 DEF FilesApart
  <2>12. \A o \in Takers : /\ taker[o].id \in 0 .. Nodes /\ taker[o].journal \in 0 .. Nodes
                           /\ taker[o].id # 0 => taker[o].id \in (1 .. Nodes) \ {n}
                           /\ taker[o].journal # 0 => taker[o].journal \in (1 .. Nodes) \ {n}
    BY <2>2, <2>8, FetchAssumption DEF FetchTypes, TakerRecords
  <2>13. idAt # 0 => idAt \in (1 .. Nodes) \ {n}
    BY <2>2, FolderTypes, FetchAssumption
  <2>14. FilesSynced' /\ LandedIntact' /\ KeptLanded'
    <3>1. ASSUME NEW k \in kept' PROVE durable'[k[1]] = Whole(k[2]) /\ bytes'[k[1]] = Whole(k[2]) /\ k[2] \in landed'
      <4>1. CASE k = <<n, Of(t)>>
        BY <2>1, <2>4, <4>1
      <4>2. CASE k \in kept
        <5>1. k[1] \in (1 .. Nodes) \ {n}
          BY <2>2, <4>2, FolderTypes DEF KeptNodes
        <5> QED
          BY <2>1, <2>4, <2>8, <4>2, <5>1 DEF FolderHeld, FilesSynced, LandedIntact, KeptLanded
      <4> QED
        BY <2>1, <4>1, <4>2
    <3>2. \A o \in Takers : taker'[o].id # 0 => taker'[o].id = taker[o].id
      BY <2>7, <2>9
    <3>3. /\ idAt' # 0 => durable'[idAt'] = bytes'[idAt']
          /\ \A o \in Takers : taker'[o].id # 0 => durable'[taker'[o].id] = bytes'[taker'[o].id]
      BY <1>1, <2>4, <2>8, <2>12, <2>13, <3>2 DEF FolderHeld, FilesSynced
    <3> QED
      BY <3>1, <3>3 DEF FilesSynced, LandedIntact, KeptLanded
  <2>15. HashedIsWritten'
    <3>1. ASSUME NEW o \in Takers, taker'[o].pc \in {"name", "stream", "publish"}
          PROVE  /\ taker'[o] = taker[o] /\ bytes'[taker[o].journal] = bytes[taker[o].journal]
                 /\ durable'[taker[o].journal] = durable[taker[o].journal]
      <4>1. taker'[o] = taker[o] /\ taker[o].journal # 0
        BY <2>6, <2>8, <2>9, <3>1 DEF TakersSound, Sound, Closed, Fetching
      <4> QED
        BY <2>4, <2>12, <4>1
    <3> QED
      BY <2>8, <3>1 DEF FolderHeld, HashedIsWritten, Doing
  <2>16. PrefixHeld'
    <3>1. ASSUME ~cleared, NEW o \in Takers PROVE LockHeld!(o)'
      <4>1. CASE taker'[o].pc \notin Writing
        BY <4>1 DEF Writing
      <4>2. CASE taker'[o].pc \in Writing
        <5>1. taker'[o] = taker[o] /\ taker[o].pc \in Writing /\ LockHeld!(o) /\ taker[o].journal # 0 /\ Sound(taker[o])
          BY <2>6, <2>8, <2>9, <3>1, <4>2
             DEF PrefixHeld, LockHeld, Writing, TakersSound, Sound, Closed, Fetching
        <5>2. /\ bytes'[taker[o].journal] = bytes[taker[o].journal] /\ durable'[taker[o].journal] = durable[taker[o].journal]
              /\ taker[o].id # 0 => bytes'[taker[o].id] = bytes[taker[o].id]
          BY <2>4, <2>12, <5>1
        <5>3. taker[o].pc \in {"stream", "publish"} => taker[o].id # 0
          BY <5>1 DEF Sound
        <5> QED
          BY <1>1, <5>1, <5>2, <5>3 DEF OwnBlocks, Of1, Of
      <4> QED
        BY <4>1, <4>2
    <3>2. JournalNamed => JournalNamed'
      <4>1. journalAt # 0 => journalAt \in (1 .. Nodes) \ {n}
        BY <2>2, FolderTypes, FetchAssumption
      <4> QED
        BY <1>1, <2>4, <2>13, <4>1 DEF JournalNamed, OwnBlocks, Of1
    <3> QED
      BY <1>1, <2>8, <3>1, <3>2 DEF PrefixHeld, LockHeld
  <2>17. FolderHeld'
    BY <2>11, <2>14, <2>15 DEF FolderHeld
  <2>18. /\ kept' \subseteq (1 .. Nodes) \X Deliveries /\ landed \subseteq landed' /\ landed' \subseteq Deliveries
         /\ {journalAt', idAt', destAt'} \subseteq 0 .. Nodes /\ x.delivery \in landed'
         /\ taker[t].pc \in Landing /\ x.pc \in Landing
    BY <1>1, <2>1, <2>2, <2>6, FolderTypes DEF Landing
  <2> QED
    BY <1>1, <2>1, <2>4, <2>5, <2>6, <2>7, <2>16, <2>17, <2>18, FolderTypes, LandingKeeps
<1> QED
  BY <1>2, <1>3

LEMMA PublishKeeps == ASSUME FetchInv, NEW t \in Takers, Publish(t) PROVE FetchInv'
<1> DEFINE n == taker[t].journal
           verified == taker[t].hashed = Whole(Of(t)) /\ journalAt = n /\ destAt = 0
<1>1. /\ taker[t].pc = "publish" /\ taker[t].pc \in Writing
      /\ UNCHANGED <<bytes, durable, misread, cleared>> /\ UNCHANGED fetched /\ UNCHANGED <<takes, mishaps>>
  BY DEF Publish, Doing, Writing, budget
<1>2. WriterKnows(t)
  BY <1>1, WriterFinds
<1> USE DEF WriterKnows
<1>3. CASE ~verified \/ Len(taker[t].hashed) < Blocks
  <2>1. Len(Whole(Of(t))) = Blocks /\ Len(taker[t].hashed) \in Nat /\ Blocks \in Nat
    BY <1>2, ContentsKnown, FetchAssumption DEF Contents
  <2>2. /\ Ends(t) /\ UNCHANGED <<destAt, kept, landed>> /\ journalAt' \in {journalAt, 0} /\ idAt' \in {idAt, 0}
        /\ journalAt' # journalAt => journalAt = n
    BY <1>3, <2>1 DEF Publish
  <2>3. taker' = [taker EXCEPT ![t] = Resting] /\ Resting.pc = "idle" /\ Resting.via = "http" /\ Resting.pc \in Closed
    BY <2>2 DEF Ends, Turns, Resting, Closed
  <2> QED
    BY <1>1, <2>2, <2>3, RestingSound, WriterLeaves
<1>4. CASE verified /\ ~(Len(taker[t].hashed) < Blocks)
  <2> DEFINE x == [taker[t] EXCEPT !.pc = "unname"]
  <2>1. /\ journalAt' = 0 /\ destAt' = n /\ kept' = kept \cup {<<n, Of(t)>>} /\ landed' = landed \cup {Of(t)}
        /\ taker' = [taker EXCEPT ![t] = x] /\ idAt' = idAt
    BY <1>4 DEF Publish, Moves
  <2>2. x \in TakerRecords
    BY <1>2, TakerEdits DEF Stages
  <2>3. /\ x.pc = "unname" /\ x.via = taker[t].via /\ x.delivery = Of(t) /\ x.delivery = taker[t].delivery
        /\ x.journal = n /\ x.id = taker[t].id /\ x.hashed = taker[t].hashed
    BY <1>2 DEF TakerRecords, Of
  <2> HIDE DEF x
  <2>4. Sound(x)
    BY <1>1, <1>2, <2>3 DEF Sound, Closed, Fetching
  <2>5. FetchTypes /\ TakersSound /\ FolderHeld /\ PrefixHeld
    BY DEF FetchInv
  <2>6. taker'[t] = x /\ \A o \in Takers \ {t} : taker'[o] = taker[o]
    BY <2>1, <2>2, <2>4, <2>5, OneTaker
  <2>7. KeptNodes' = KeptNodes \cup {n}
    BY <2>1, OneMoreKept
  <2>8. /\ n \in 1 .. Nodes /\ n # 0 /\ bytes[n] = Whole(Of(t)) /\ durable[n] = Whole(Of(t)) /\ journalAt = n
        /\ \A o \in Takers \ {t} : taker[o].pc \in Writing => taker[o].journal # n
    BY <1>1, <1>2, <1>4, <2>5, OneWriter, FetchAssumption DEF FolderHeld, HashedIsWritten, Doing
  <2>9. NamesApart'
    BY <1>2, <2>1, <2>5, <2>7, <2>8 DEF FolderHeld, FilesApart, NamesApart
  <2>10. HandlesApart'
    <3>1. HandlesApart /\ TakersSound
      BY <2>5 DEF FolderHeld, FilesApart
    <3>2. \A o \in Takers : taker'[o].journal = taker[o].journal /\ taker'[o].id = taker[o].id
      BY <2>3, <2>6
    <3>3. \A o \in Takers : taker[o].id # n
      BY <2>8, <3>1 DEF HandlesApart
    <3> HIDE DEF n
    <3>4. \A o \in Takers : taker'[o].pc \in Writing => o # t /\ taker[o].pc \in Writing
      BY <2>3, <2>6 DEF Writing
    <3> QED
      BY <2>1, <2>7, <2>8, <3>1, <3>2, <3>3, <3>4 DEF HandlesApart
  <2>11. JournalsExclusive'
    <3>1. JournalsExclusive /\ ~Doing(t, "opened") /\ ~Doing(t, "opened")'
      BY <1>1, <2>3, <2>5, <2>6 DEF FolderHeld, FilesApart, Doing
    <3>2. \A o \in Takers : taker'[o].journal = taker[o].journal /\ Doing(o, "opened")' = Doing(o, "opened")
      BY <2>3, <2>6, <3>1 DEF Doing
    <3> HIDE DEF n
    <3> QED
      BY <3>1, <3>2 DEF JournalsExclusive
  <2>12. FilesSynced' /\ LandedIntact' /\ KeptLanded'
    <3>1. \A o \in Takers : taker'[o].id = taker[o].id
      BY <2>3, <2>6
    <3>2. ASSUME NEW k \in kept' PROVE durable'[k[1]] = Whole(k[2]) /\ bytes'[k[1]] = Whole(k[2]) /\ k[2] \in landed'
      <4>1. CASE k = <<n, Of(t)>>
        BY <1>1, <2>1, <2>8, <4>1
      <4>2. CASE k \in kept
        BY <1>1, <2>1, <2>5, <4>2 DEF FolderHeld, FilesSynced, LandedIntact, KeptLanded
      <4> QED
        BY <2>1, <4>1, <4>2
    <3> QED
      BY <1>1, <2>1, <2>5, <3>1, <3>2 DEF FolderHeld, FilesSynced, LandedIntact, KeptLanded
  <2>13. HashedIsWritten'
    BY <1>1, <2>3, <2>5, <2>6 DEF FolderHeld, HashedIsWritten, Doing
  <2>14. PrefixHeld'
    <3>1. ASSUME ~cleared, NEW o \in Takers PROVE taker'[o].pc \notin Writing
      BY <1>1, <2>3, <2>6, <3>1, OneWriter DEF Writing
    <3> QED
      BY <1>1, <2>1, <2>5, <3>1 DEF PrefixHeld, LockHeld, JournalNamed, Writing
  <2>15. FolderHeld'
    BY <2>9, <2>10, <2>11, <2>12, <2>13 DEF FolderHeld, FilesApart
  <2>16. /\ kept' \subseteq (1 .. Nodes) \X Deliveries /\ landed \subseteq landed' /\ landed' \subseteq Deliveries
         /\ {journalAt', idAt', destAt'} \subseteq 0 .. Nodes /\ x.delivery \in landed'
         /\ taker[t].pc \in Landing /\ x.pc \in Landing
    BY <1>1, <1>2, <2>1, <2>3, <2>8, FolderTypes, FetchAssumption DEF Landing
  <2> QED
    BY <1>1, <1>2, <2>1, <2>2, <2>3, <2>4, <2>14, <2>15, <2>16, FolderTypes, LandingKeeps
<1> QED
  BY <1>3, <1>4

LEMMA ProcessKilledKeeps == ASSUME FetchInv, NEW t \in Takers, ProcessKilled(t) PROVE FetchInv'
<1>1. takes \in Nat /\ mishaps \in Nat
  BY OneRecord
<1>2. takes' \in Nat /\ mishaps' \in Nat
  BY <1>1 DEF ProcessKilled, Mishap
<1> QED
  BY <1>2, FetchOver DEF ProcessKilled

LEMMA MishapCounts == ASSUME FetchInv, Mishap PROVE takes' \in Nat /\ mishaps' \in Nat
BY DEF FetchInv, FetchTypes, FetchTypeOK, Mishap

LEMMA PowerLostKeeps == ASSUME FetchInv, PowerLost PROVE FetchInv'
<1>1. /\ taker' = [t \in Takers |-> Resting] /\ bytes' = durable
      /\ UNCHANGED <<journalAt, idAt, destAt, kept, durable, landed, misread, cleared>>
      /\ UNCHANGED <<stage, sidecar, ticket>>
  BY DEF PowerLost, fetched
<1>2. FetchTypes /\ FolderHeld /\ PrefixHeld /\ StagesHeld /\ DeliveredIsKept
  BY DEF FetchInv
<1>3. takes' \in Nat /\ mishaps' \in Nat
  BY MishapCounts DEF PowerLost
<1>4. /\ \A t \in Takers : taker'[t] = Resting /\ Resting.pc = "idle" /\ Resting.journal = 0 /\ Resting.id = 0
      /\ Resting.via = "http"
  BY <1>1 DEF Resting
<1>5. FetchTypes' /\ TakersSound'
  BY <1>1, <1>2, <1>3, RestingSound DEF FetchTypes, FetchTypeOK, TakersSound
<1>6. FolderHeld'
  <2>1. 0 \notin KeptNodes /\ KeptNodes' = KeptNodes
    BY <1>1, FolderTypes DEF KeptNodes
  <2>2. FilesApart'
    BY <1>1, <1>2, <1>4, <2>1 DEF FolderHeld, FilesApart, NamesApart, HandlesApart, JournalsExclusive, Writing
  <2>3. FilesSynced' /\ KeptLanded' /\ LandedIntact' /\ HashedIsWritten'
    BY <1>1, <1>2, <1>4 DEF FolderHeld, FilesSynced, KeptLanded, LandedIntact, HashedIsWritten, Doing
  <2> QED
    BY <2>2, <2>3 DEF FolderHeld
<1>7. PrefixHeld'
  <2>1. LockHeld'
    BY <1>4 DEF LockHeld, Writing
  <2>2. idAt # 0 => bytes'[idAt] = bytes[idAt]
    BY <1>1, <1>2 DEF FolderHeld, FilesSynced
  <2>3. JournalNamed => JournalNamed'
    BY <1>1, <2>2 DEF JournalNamed, OwnBlocks
  <2> QED
    BY <1>1, <1>2, <2>1, <2>3 DEF PrefixHeld
<1>8. StagesHeld' /\ DeliveredIsKept'
  BY <1>1, <1>2, <1>4 DEF StagesHeld, DeliveredIsKept, StageKept, Doing
<1> QED
  BY <1>5, <1>6, <1>7, <1>8 DEF FetchInv

LEMMA UserKeeps == ASSUME FetchInv, UserMoves \/ UserClears PROVE FetchInv'
<1>1. /\ UNCHANGED <<idAt, kept, bytes, durable, landed, misread, taker>> /\ UNCHANGED <<stage, sidecar, ticket>>
      /\ journalAt' \in {journalAt, 0} /\ destAt' \in {destAt, 0}
  BY DEF UserMoves, UserClears, fetched
<1>2. FetchTypes /\ TakersSound /\ FolderHeld /\ PrefixHeld /\ StagesHeld /\ DeliveredIsKept
  BY DEF FetchInv
<1>3. takes' \in Nat /\ mishaps' \in Nat
  BY MishapCounts DEF UserMoves, UserClears
<1>4. FetchTypes' /\ TakersSound'
  <2>1. {journalAt', idAt', destAt'} \subseteq 0 .. Nodes
    BY <1>1, FolderTypes, FetchAssumption
  <2>2. cleared' \in BOOLEAN
    BY <1>2 DEF FetchTypes, FetchTypeOK, UserMoves, UserClears
  <2> QED
    BY <1>1, <1>2, <1>3, <2>1, <2>2 DEF FetchTypes, FetchTypeOK, TakersSound
<1>5. FolderHeld'
  <2>1. FilesApart'
    BY <1>1, <1>2 DEF FolderHeld, FilesApart, NamesApart, HandlesApart, JournalsExclusive, KeptNodes, Doing
  <2>2. FilesSynced' /\ KeptLanded' /\ LandedIntact' /\ HashedIsWritten'
    BY <1>1, <1>2 DEF FolderHeld, FilesSynced, KeptLanded, LandedIntact, HashedIsWritten, Doing
  <2> QED
    BY <2>1, <2>2 DEF FolderHeld
<1>6. PrefixHeld'
  <2>1. CASE cleared'
    BY <2>1 DEF PrefixHeld
  <2>2. CASE ~cleared'
    <3>1. ~cleared /\ journalAt' = journalAt
      BY <2>2 DEF UserMoves, UserClears
    <3> QED
      BY <1>1, <1>2, <3>1 DEF PrefixHeld, LockHeld, JournalNamed, OwnBlocks, Of1, Of
  <2> QED
    BY <2>1, <2>2
<1>7. StagesHeld' /\ DeliveredIsKept'
  BY <1>1, <1>2 DEF StagesHeld, DeliveredIsKept, StageKept, Doing, Of
<1> QED
  BY <1>4, <1>5, <1>6, <1>7 DEF FetchInv

LEMMA FetchInvKept == FetchInv /\ [FetchNext]_fvars => FetchInv'
<1> SUFFICES ASSUME FetchInv, [FetchNext]_fvars PROVE FetchInv'
  OBVIOUS
<1>1. CASE UNCHANGED fvars
  <2>1. UNCHANGED <<journalAt, idAt, destAt, kept, bytes, durable, stage, sidecar, ticket, taker, landed, misread,
                    cleared, takes, mishaps>>
    BY <1>1 DEF fvars
  <2>2. FetchTypes' = FetchTypes /\ TakersSound' = TakersSound /\ StagesHeld' = StagesHeld
        /\ DeliveredIsKept' = DeliveredIsKept
    BY <2>1 DEF FetchTypes, FetchTypeOK, TakersSound, StagesHeld, DeliveredIsKept, StageKept, Doing, Of
  <2>3. FolderHeld'
    BY <2>1 DEF FetchInv, FolderHeld, FilesApart, NamesApart, HandlesApart, JournalsExclusive, FilesSynced,
       HashedIsWritten, KeptLanded, LandedIntact, KeptNodes, Doing
  <2>4. PrefixHeld'
    BY <2>1 DEF FetchInv, PrefixHeld, LockHeld, JournalNamed, OwnBlocks, Of1, Of
  <2> QED
    BY <2>2, <2>3, <2>4 DEF FetchInv
<1>2. ASSUME NEW t \in Takers,
             \/ \E d \in Deliveries, resume \in BOOLEAN : Take(t, d, resume)
             \/ LockStage(t) \/ Plan(t) \/ Reach(t) \/ Mint(t) \/ SaveCapability(t)
             \/ Transport(t) \/ TransportFails(t) \/ Refused(t) \/ Joins(t) \/ RemoveStage(t) \/ RemoveCapability(t)
      PROVE  FetchInv'
  BY <1>2, TakeKeeps, LockStageKeeps, PlanKeeps, ReachKeeps, MintKeeps, SaveCapabilityKeeps, TransportKeeps,
     TransportFailsKeeps, RefusedKeeps, JoinsKeeps, RemoveStageKeeps, RemoveCapabilityKeeps
<1>3. ASSUME NEW t \in Takers,
             \/ Check(t) \/ Clone(t) \/ OpenJournal(t) \/ LockJournal(t) \/ Inspect(t) \/ OpenSource(t)
             \/ OpenIdentity(t) \/ WriteIdentity(t) \/ StreamBreaks(t) \/ SyncJournal(t) \/ Publish(t)
             \/ RemoveIdentity(t) \/ ProcessKilled(t)
             \/ \E b \in Deliveries \cup {Bad} : Stream(t, b)
      PROVE  FetchInv'
  BY <1>3, CheckKeeps, CloneKeeps, OpenJournalKeeps, LockJournalKeeps, InspectKeeps, OpenSourceKeeps,
     OpenIdentityKeeps, WriteIdentityKeeps, StreamBreaksKeeps, SyncJournalKeeps, PublishKeeps, RemoveIdentityKeeps,
     ProcessKilledKeeps, StreamKeeps
<1>4. CASE PowerLost \/ UserMoves \/ UserClears
  BY <1>4, PowerLostKeeps, UserKeeps
<1> QED
  BY <1>1, <1>2, <1>3, <1>4 DEF FetchNext

\* fetch.rs, receive.rs: whatever runs side by side, crashes or loses power, a
\* published file is whole and stays so, a journal is resumed for its own
\* delivery, and what a delivered ticket paid for is kept until it is saved.
THEOREM FetchKept == FetchSpec => []FetchHolds
<1>1. FetchInv => FetchHolds
  BY DEF FetchInv, FetchTypes, FolderHeld, PrefixHeld, FetchHolds, PrefixOwned
<1> QED
  BY <1>1, FetchInitInv, FetchInvKept, PTL DEF FetchSpec
==============================================================================
