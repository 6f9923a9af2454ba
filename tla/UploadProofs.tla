---------------------------- MODULE UploadProofs ----------------------------
(***************************************************************************)
(* Proofs about the two ends of an upload: the session registry of the      *)
(* port, for every number of sessions, links, tenants and finish attempts   *)
(* and every quota, and the client that ships drops and resumes sends.      *)
(***************************************************************************)
EXTENDS Sessions, Sender, SumsProofs

\* The session registry.

\* The types, with the lease counter an integer: that it never goes below
\* zero needs LeasesCounted.
Types == TypesButLeases /\ inFlight \in [Ids -> Int]

-----------------------------------------------------------------------------
\* What a creation learns too late is a set of sessions, and it only grows.
LEMMA LateGrows ==
  ASSUME late \in [Ids -> SUBSET Ids], NEW k \in Ids, NEW S, Misses(k, S)
  PROVE  /\ late' \in [Ids -> SUBSET Ids]
         /\ \A i \in Ids : late[i] \subseteq late'[i] /\ (pc[i] \in S => k \in late'[i])
  <1>1. ASSUME NEW i \in Ids
        PROVE  late'[i] \in SUBSET Ids /\ late[i] \subseteq late'[i] /\ (pc[i] \in S => k \in late'[i])
    BY DEF Misses
  <1>2. late' = [i \in Ids |-> late'[i]]
    BY DEF Misses
  <1> QED BY <1>1, <1>2

LEMMA RecordSeen ==
  ASSUME late \in [Ids -> SUBSET Ids], NEW k \in Ids, RecordPayload(k)
  PROVE  /\ seenReceived' = seenReceived /\ seenRetained' = seenRetained
         /\ late' \in [Ids -> SUBSET Ids] /\ \A i \in Ids : late[i] \subseteq late'[i]
  <1>1. seenReceived' = seenReceived /\ seenRetained' = seenRetained
        /\ (late' = late \/ Misses(k, {"counted", "read"}))
    BY DEF RecordPayload, KeepSeen
  <1> QED BY <1>1, LateGrows

\* Every step of every handler keeps the types.
LEMMA TypesInductive ==
  ASSUME Types, [Next]_vars
  PROVE  Types'
  <2> USE SessionsAssumption DEF Types, TypesButLeases, PcStates, FinStates
  <2>1. CASE UNCHANGED vars
    BY <2>1 DEF vars, store, request, usage, activity, gate, pins, answers, workers, senders
  <2>2. ASSUME NEW i \in Ids, Create(i) PROVE Types'
    <3>1. CASE PrepareSession(i)
      BY <3>1 DEF PrepareSession, store, request, usage, activity, gate, pins, answers, workers,
          senders
    <3>2. CASE TryAdmit(i)
      <4>1. activeAdmissions' \in Nat
        BY <3>2 DEF TryAdmit
      <4>2. pc' \in [Ids -> PcStates]
        <5>1. pc' = [pc EXCEPT ![i] = "refused"] \/ pc' = [pc EXCEPT ![i] = "admitted"]
          BY <3>2 DEF TryAdmit
        <5> QED BY <5>1
      <4>3. UNCHANGED <<store, adm, usage, activity, admissionClosed, commandsClosed, pins,
          answers, workers, senders>>
        BY <3>2 DEF TryAdmit
      <4> QED BY <4>1, <4>2, <4>3 DEF store, request, usage, activity, gate, pins, answers,
          workers, senders
    <3>3. CASE ReadReceived(i)
      <4>1. Received(TenantOfId(i)) \in SUBSET Ids
        BY DEF Received
      <4> QED BY <3>3, <4>1 DEF ReadReceived, store, request, usage, activity, gate, pins, answers,
          workers, senders
    <3>4. CASE ReadRetained(i)
      BY <3>4 DEF ReadRetained, store, request, usage, activity, gate, pins, answers, workers,
          senders
    <3>5. CASE InsertAdmitted(i)
      BY <3>5 DEF InsertAdmitted, ForgetUsage, store, request, usage, activity, gate, pins,
          answers, workers, senders
    <3>6. CASE InsertRefused(i)
      BY <3>6 DEF InsertRefused, ForgetUsage, DropAdmission, SatSub, store, request, usage,
          activity, gate, pins, answers, workers, senders
    <3>7. CASE ConfirmLink(i)
      BY <3>7 DEF ConfirmLink, store, request, usage, activity, gate, pins, answers, workers,
          senders
    <3>8. CASE ConfirmFailed(i)
      BY <3>8 DEF ConfirmFailed, DropAdmission, SatSub, store, request, usage, activity, gate,
          pins, answers, workers, senders
    <3>9. CASE CreateCancelled(i)
      BY <3>9 DEF CreateCancelled, DropAdmission, SatSub, store, request, usage, activity, gate,
          pins, answers, workers, senders
    <3>10. CASE SpawnWorker(i)
      BY <3>10 DEF SpawnWorker, store, request, usage, activity, gate, pins, answers, workers,
          senders
    <3>11. CASE CreateReplied(i)
      BY <3>11 DEF CreateReplied, DropAdmission, SatSub, store, request, usage, activity, gate,
          pins, answers, workers, senders
    <3> QED BY <2>2, <3>1, <3>2, <3>3, <3>4, <3>5, <3>6, <3>7, <3>8, <3>9, <3>10, <3>11 DEF Create
  <2>3. ASSUME NEW i \in Ids, Command(i) PROVE Types'
    <3>1. CASE CommandTouch(i)
      <4>1. inFlight' \in [Ids -> Int]
        BY <3>1 DEF CommandTouch, Touch
      <4>2. idle' \in [Ids -> BOOLEAN]
        BY <3>1 DEF CommandTouch, Touch
      <4>3. cmds' \in [Ids -> Nat]
        BY <3>1 DEF CommandTouch, Touch
      <4>4. UNCHANGED <<store, request, map, gate, pins, answers, workers, abort>>
        BY <3>1 DEF CommandTouch
      <4> QED BY <4>1, <4>2, <4>3, <4>4 DEF store, request, usage, activity, gate, pins, answers,
          workers, senders
    <3>2. CASE CommandEnd(i)
      <4>1. inFlight' \in [Ids -> Int]
        BY <3>2 DEF CommandEnd, DropLease
      <4>2. idle' \in [Ids -> BOOLEAN]
        BY <3>2 DEF CommandEnd, DropLease
      <4>3. cmds' \in [Ids -> Nat]
        BY <3>2 DEF CommandEnd, DropLease
      <4>4. UNCHANGED <<store, request, map, gate, pins, answers, workers, abort>>
        BY <3>2 DEF CommandEnd
      <4> QED BY <4>1, <4>2, <4>3, <4>4 DEF store, request, usage, activity, gate, pins, answers,
          workers, senders
    <3>3. CASE AbortSend(i)
      <4>1. inFlight' \in [Ids -> Int]
        BY <3>3 DEF AbortSend, Touch
      <4>2. idle' \in [Ids -> BOOLEAN]
        BY <3>3 DEF AbortSend, Touch
      <4>3. abort' \in [Ids -> {"idle", "sent", "answered", "done"}]
        <5>1. abort' = [abort EXCEPT ![i] = "sent"] \/ abort' = [abort EXCEPT ![i] = "answered"]
          BY <3>3 DEF AbortSend, Touch
        <5> QED BY <5>1
      <4>4. UNCHANGED <<store, request, map, gate, pins, answers, workers, cmds>>
        BY <3>3 DEF AbortSend
      <4> QED BY <4>1, <4>2, <4>3, <4>4 DEF store, request, usage, activity, gate, pins, answers,
          workers, senders
    <3>4. CASE AbortDropped(i)
      BY <3>4 DEF AbortDropped, DropLease, store, request, usage, activity, gate, pins, answers,
          workers, senders
    <3>5. CASE AbortRemove(i)
      BY <3>5 DEF AbortRemove, store, request, usage, activity, gate, pins, answers, workers,
          senders
    <3> QED BY <2>3, <3>1, <3>2, <3>3, <3>4, <3>5 DEF Command
  <2>4. ASSUME NEW i \in Ids, Worker(i) PROVE Types'
    <3>1. CASE WorkerBegin(i)
      <4>1. rows' \subseteq Ids
        BY <3>1 DEF WorkerBegin
      <4>2. seenReceived' = seenReceived /\ seenRetained' = seenRetained /\ late' \in [Ids -> SUBSET Ids]
        BY <3>1, LateGrows DEF WorkerBegin, KeepSeen
      <4>3. UNCHANGED <<links, tenantRows, disk, committed, pc, adm, activity, gate, pins, answers,
          workers, senders>>
        BY <3>1 DEF WorkerBegin
      <4> QED BY <4>1, <4>2, <4>3 DEF activity, gate, pins, answers, workers, senders
    <3>2. CASE WorkerPublish(i)
      BY <3>2 DEF WorkerPublish, store, request, usage, activity, gate, pins, answers, workers,
          senders
    <3>3. CASE WorkerInterrupted(i)
      <4>0. seenReceived' = seenReceived /\ seenRetained' = seenRetained /\ late' \in [Ids -> SUBSET Ids]
        BY <3>3, RecordSeen DEF WorkerInterrupted, EndPartially
      <4>1. disk' \in [Ids -> {"none", "published", "recorded", "deleted"}]
        <5>1. disk' = disk \/ disk' = [disk EXCEPT ![i] = "recorded"]
          BY <3>3 DEF WorkerInterrupted, EndPartially, RecordPayload
        <5> QED BY <5>1
      <4>2. rows' \subseteq Ids
        BY <3>3 DEF WorkerInterrupted, EndPartially, RecordPayload
      <4>3. worker' \in [Ids -> {"none", "running", "done", "suspended"}]
        BY <3>3 DEF WorkerInterrupted, EndPartially, RecordPayload
      <4>4. UNCHANGED <<links, tenantRows, committed, pc, adm, activity, gate, pins, answers,
          taken, senders>>
        BY <3>3 DEF WorkerInterrupted
      <4> QED BY <4>0, <4>1, <4>2, <4>3, <4>4 DEF store, request, usage, activity, gate, pins, answers,
          workers, senders
    <3>4. CASE WorkerSuspend(i)
      BY <3>4 DEF WorkerSuspend, store, request, usage, activity, gate, pins, answers, workers,
          senders
    <3>5. CASE WorkerAbort(i)
      <4>0. seenReceived' = seenReceived /\ seenRetained' = seenRetained /\ late' \in [Ids -> SUBSET Ids]
        BY <3>5, RecordSeen DEF WorkerAbort, EndPartially
      <4>1. disk' \in [Ids -> {"none", "published", "recorded", "deleted"}]
        <5>1. disk' = disk \/ disk' = [disk EXCEPT ![i] = "recorded"]
          BY <3>5 DEF WorkerAbort, DropLease, EndPartially, RecordPayload
        <5> QED BY <5>1
      <4>2. rows' \subseteq Ids
        BY <3>5 DEF WorkerAbort, DropLease, EndPartially, RecordPayload
      <4>3. worker' \in [Ids -> {"none", "running", "done", "suspended"}]
        BY <3>5 DEF WorkerAbort, DropLease, EndPartially, RecordPayload
      <4>4. inFlight' \in [Ids -> Int]
        BY <3>5 DEF WorkerAbort, DropLease, EndPartially, RecordPayload
      <4>5. idle' \in [Ids -> BOOLEAN]
        BY <3>5 DEF WorkerAbort, DropLease, EndPartially, RecordPayload
      <4>6. abort' \in [Ids -> {"idle", "sent", "answered", "done"}]
        BY <3>5 DEF WorkerAbort, DropLease, EndPartially, RecordPayload
      <4>7. UNCHANGED <<links, tenantRows, committed, pc, adm, map, gate, pins, answers, taken,
          cmds>>
        BY <3>5 DEF WorkerAbort
      <4> QED BY <4>0, <4>1, <4>2, <4>3, <4>4, <4>5, <4>6, <4>7 DEF store, request, usage, activity,
          gate, pins, answers, workers, senders
    <3> QED BY <2>4, <3>1, <3>2, <3>3, <3>4, <3>5 DEF Worker
  <2>5. ASSUME NEW i \in Ids, NEW a \in Attempts, FinishRequest(i, a) PROVE Types'
    <3>1. CASE FinishLook(i, a)
      BY <3>1 DEF FinishLook, SetFin, store, request, usage, activity, gate, pins, answers,
          workers, senders
    <3>2. CASE FinishTouch(i, a)
      <4>1. inFlight' \in [Ids -> Int]
        BY <3>2 DEF FinishTouch, SetFin, Touch
      <4>2. idle' \in [Ids -> BOOLEAN]
        BY <3>2 DEF FinishTouch, SetFin, Touch
      <4>3. fin' \in [Ids -> [Attempts -> FinStates]]
        <5>1. \E s \in FinStates : fin' = [fin EXCEPT ![i][a] = s]
          BY <3>2 DEF FinishTouch, SetFin, Touch
        <5> QED BY <5>1
      <4>4. UNCHANGED <<store, request, map, gate, pins, finished, aged, workers, senders>>
        BY <3>2 DEF FinishTouch
      <4> QED BY <4>1, <4>2, <4>3, <4>4 DEF store, request, usage, activity, gate, pins, answers,
          workers, senders
    <3>3. CASE FinishSend(i, a)
      <4>1. inFlight' \in [Ids -> Int]
        BY <3>3 DEF FinishSend, SetFin, DropLease
      <4>2. idle' \in [Ids -> BOOLEAN]
        BY <3>3 DEF FinishSend, SetFin, DropLease
      <4>3. fin' \in [Ids -> [Attempts -> FinStates]]
        BY <3>3 DEF FinishSend, SetFin, DropLease
      <4>4. UNCHANGED <<store, request, map, gate, pins, finished, aged, workers, senders>>
        BY <3>3 DEF FinishSend
      <4> QED BY <4>1, <4>2, <4>3, <4>4 DEF store, request, usage, activity, gate, pins, answers,
          workers, senders
    <3>4. CASE FinishDropped(i, a)
      BY <3>4 DEF FinishDropped, SetFin, DropLease, store, request, usage, activity, gate, pins,
          answers, workers, senders
    <3>5. CASE RememberFinished(i, a)
      <4>1. finished' \in Seq(Ids)
        BY <3>5 DEF RememberFinished, SetFin
      <4>2. aged' \subseteq Ids
        BY <3>5 DEF RememberFinished, SetFin
      <4>3. fin' \in [Ids -> [Attempts -> FinStates]]
        BY <3>5 DEF RememberFinished, SetFin
      <4>4. UNCHANGED <<store, request, activity, gate, pins, workers, senders>>
        BY <3>5 DEF RememberFinished
      <4> QED BY <4>1, <4>2, <4>3, <4>4 DEF store, request, usage, activity, gate, pins, answers,
          workers, senders
    <3>6. CASE UploadCompleted(i, a)
      BY <3>6 DEF UploadCompleted, SetFin, store, request, usage, activity, gate, pins, answers,
          workers, senders
    <3>7. CASE WorkerFinish(i, a)
      <4>0. seenReceived' = seenReceived /\ seenRetained' = seenRetained /\ late' \in [Ids -> SUBSET Ids]
        BY <3>7, RecordSeen DEF WorkerFinish
      <4>1. disk' \in [Ids -> {"none", "published", "recorded", "deleted"}]
        <5>1. disk' = disk \/ disk' = [disk EXCEPT ![i] = "recorded"]
          BY <3>7 DEF WorkerFinish, SetFin, DropLease, RecordPayload
        <5> QED BY <5>1
      <4>2. committed' \subseteq Ids
        BY <3>7 DEF WorkerFinish, SetFin, DropLease, RecordPayload
      <4>3. rows' \subseteq Ids
        BY <3>7 DEF WorkerFinish, SetFin, DropLease, RecordPayload
      <4>4. worker' \in [Ids -> {"none", "running", "done", "suspended"}]
        BY <3>7 DEF WorkerFinish, SetFin, DropLease, RecordPayload
      <4>5. fin' \in [Ids -> [Attempts -> FinStates]]
        BY <3>7 DEF WorkerFinish, SetFin, DropLease, RecordPayload
      <4>6. inFlight' \in [Ids -> Int]
        BY <3>7 DEF WorkerFinish, SetFin, DropLease, RecordPayload
      <4>7. idle' \in [Ids -> BOOLEAN]
        BY <3>7 DEF WorkerFinish, SetFin, DropLease, RecordPayload
      <4>8. UNCHANGED <<links, tenantRows, pc, adm, map, gate, pins, finished, aged, taken,
          senders>>
        BY <3>7 DEF WorkerFinish
      <4> QED BY <4>0, <4>1, <4>2, <4>3, <4>4, <4>5, <4>6, <4>7, <4>8 DEF store, request, usage,
          activity, gate, pins, answers, workers, senders
    <3>8. CASE WorkerFinishRefused(i, a)
      BY <3>8 DEF WorkerFinishRefused, SetFin, DropLease, store, request, usage, activity, gate,
          pins, answers, workers, senders
    <3> QED BY <2>5, <3>1, <3>2, <3>3, <3>4, <3>5, <3>6, <3>7, <3>8 DEF FinishRequest
  <2>6. ASSUME NEW l \in Links, LinkAdmin(l) PROVE Types'
    <3>1. CASE CloseLink(l)
      BY <3>1 DEF CloseLink, store, request, usage, activity, gate, pins, answers, workers, senders
    <3>2. CASE OpenLink(l)
      BY <3>2 DEF OpenLink, store, request, usage, activity, gate, pins, answers, workers, senders
    <3>3. CASE PinLink(l)
      BY <3>3 DEF PinLink, SetLinkOp, store, request, usage, activity, gate, pins, answers,
          workers, senders
    <3>4. CASE CheckLinkIdle(l)
      <4>1. pinnedLinks' \subseteq Links
        BY <3>4 DEF CheckLinkIdle, SetLinkOp, UnpinLink
      <4>2. linkOp' \in [Links -> {"none", "pinned", "checked", "fileless"}]
        <5>1. linkOp' = [linkOp EXCEPT ![l] = "none"] \/ linkOp' = [linkOp EXCEPT ![l] = "checked"]
          BY <3>4 DEF CheckLinkIdle, SetLinkOp, UnpinLink
        <5> QED BY <5>1
      <4>3. UNCHANGED <<store, request, activity, gate, pinned, tenantOp, outbound, answers,
          workers, senders>>
        BY <3>4 DEF CheckLinkIdle
      <4> QED BY <4>1, <4>2, <4>3 DEF store, request, usage, activity, gate, pins, answers,
          workers, senders
    <3>5. CASE LinkOpRefused(l)
      BY <3>5 DEF LinkOpRefused, SetLinkOp, UnpinLink, store, request, usage, activity, gate,
          pins, answers, workers, senders
    <3>6. CASE RemoveLink(l)
      <4>1. disk' \in [Ids -> {"none", "published", "recorded", "deleted"}]
        BY <3>6 DEF RemoveLink
      <4>2. links' \in [Links -> {"usable", "closed", "absent"}] /\ rows' \subseteq Ids /\ committed' \subseteq Ids
        BY <3>6 DEF RemoveLink
      <4>3. pinnedLinks' \subseteq Links /\ linkOp' \in [Links -> {"none", "pinned", "checked", "fileless"}]
        BY <3>6 DEF RemoveLink, UnpinLink, SetLinkOp
      <4>4. UNCHANGED <<tenantRows, request, activity, gate, pinned, tenantOp, outbound, answers,
          workers, senders>>
        BY <3>6 DEF RemoveLink
      <4> QED BY <4>1, <4>2, <4>3, <4>4 DEF request, usage, activity, gate, answers, workers, senders
    <3>7. CASE PurgeUploads(l)
      BY <3>7 DEF PurgeUploads, SetLinkOp, UnpinLink, store, request, usage, activity, gate, pins,
          answers, workers, senders
    <3>8. CASE LookForFiles(l)
      BY <3>8 DEF LookForFiles, SetLinkOp, store, request, usage, activity, gate, pins, answers,
          workers, senders
    <3> QED BY <2>6, <3>1, <3>2, <3>3, <3>4, <3>5, <3>6, <3>7, <3>8 DEF LinkAdmin
  <2>7. ASSUME NEW t \in Tenants, TenantAdmin(t) PROVE Types'
    <3>1. ASSUME NEW op \in {"create", "delete"}, PinTenant(t, op) PROVE Types'
      BY <3>1 DEF PinTenant, SetTenantOp, store, request, usage, activity, gate, pins, answers,
          workers, senders
    <3>2. CASE CreateTenant(t)
      BY <3>2 DEF CreateTenant, SetTenantOp, UnpinTenant, store, request, usage, activity, gate,
          pins, answers, workers, senders
    <3>3. CASE CountTenantLinks(t)
      <4>1. pinned' \subseteq Tenants
        BY <3>3 DEF CountTenantLinks, SetTenantOp, UnpinTenant
      <4>2. tenantOp' \in [Tenants -> {"none", "create", "delete", "counted", "checked", "purging"}]
        <5>1. tenantOp' = [tenantOp EXCEPT ![t] = "none"] \/ tenantOp' = [tenantOp EXCEPT ![t] = "counted"]
          BY <3>3 DEF CountTenantLinks, SetTenantOp, UnpinTenant
        <5> QED BY <5>1
      <4>3. UNCHANGED <<store, request, activity, gate, pinnedLinks, linkOp, outbound, answers,
          workers, senders>>
        BY <3>3 DEF CountTenantLinks
      <4> QED BY <4>1, <4>2, <4>3 DEF store, request, usage, activity, gate, pins, answers,
          workers, senders
    <3>4. CASE CheckTenantIdle(t)
      <4>1. pinned' \subseteq Tenants
        BY <3>4 DEF CheckTenantIdle, SetTenantOp, UnpinTenant
      <4>2. tenantOp' \in [Tenants -> {"none", "create", "delete", "counted", "checked", "purging"}]
        <5>1. tenantOp' = [tenantOp EXCEPT ![t] = "none"] \/ tenantOp' = [tenantOp EXCEPT ![t] = "checked"]
          BY <3>4 DEF CheckTenantIdle, SetTenantOp, UnpinTenant
        <5> QED BY <5>1
      <4>3. UNCHANGED <<store, request, activity, gate, pinnedLinks, linkOp, outbound, answers,
          workers, senders>>
        BY <3>4 DEF CheckTenantIdle
      <4> QED BY <4>1, <4>2, <4>3 DEF store, request, usage, activity, gate, pins, answers,
          workers, senders
    <3>5. CASE RemoveTenant(t)
      <4>1. tenantRows' \subseteq Tenants
        BY <3>5 DEF RemoveTenant, SetTenantOp, UnpinTenant
      <4>2. pinned' \subseteq Tenants
        BY <3>5 DEF RemoveTenant, SetTenantOp, UnpinTenant
      <4>3. tenantOp' \in [Tenants -> {"none", "create", "delete", "counted", "checked", "purging"}]
        <5>1. tenantOp' = [tenantOp EXCEPT ![t] = "none"] \/ tenantOp' = [tenantOp EXCEPT ![t] = "purging"]
          BY <3>5 DEF RemoveTenant, SetTenantOp, UnpinTenant
        <5> QED BY <5>1
      <4>4. UNCHANGED <<links, rows, disk, committed, request, activity, gate, pinnedLinks,
          linkOp, outbound, answers, workers, senders>>
        BY <3>5 DEF RemoveTenant
      <4> QED BY <4>1, <4>2, <4>3, <4>4 DEF store, request, usage, activity, gate, pins, answers,
          workers, senders
    <3>6. CASE PurgeEnds(t)
      BY <3>6 DEF PurgeEnds, SetTenantOp, UnpinTenant, store, request, usage, activity, gate,
          pins, answers, workers, senders
    <3>7. CASE BeginOutbound(t)
      BY <3>7 DEF BeginOutbound, store, request, usage, activity, gate, pins, answers, workers,
          senders
    <3>8. CASE EndOutbound(t)
      BY <3>8 DEF EndOutbound, store, request, usage, activity, gate, pins, answers, workers,
          senders
    <3> QED BY <2>7, <3>1, <3>2, <3>3, <3>4, <3>5, <3>6, <3>7, <3>8 DEF TenantAdmin
  <2>8. ASSUME NEW i \in Ids, GoIdle(i) PROVE Types'
    BY <2>8 DEF GoIdle, store, request, usage, activity, gate, pins, answers, workers, senders
  <2>9. CASE Sweep
    BY <2>9 DEF Sweep, Swept, store, request, usage, activity, gate, pins, answers, workers, senders
  <2>10. CASE FinishedExpires
    <3>1. finished' \in Seq(Ids)
      BY <2>10 DEF FinishedExpires
    <3>2. aged' \subseteq Ids
      BY <2>10 DEF FinishedExpires
    <3>3. UNCHANGED <<store, request, activity, gate, pins, fin, workers, senders>>
      BY <2>10 DEF FinishedExpires
    <3> QED BY <3>1, <3>2, <3>3 DEF store, request, usage, activity, gate, pins, answers, workers,
        senders
  <2>11. CASE RequestShutdown
    BY <2>11 DEF RequestShutdown, store, request, usage, activity, gate, pins, answers, workers,
        senders
  <2>12. CASE TakeHttp
    BY <2>12 DEF TakeHttp, store, request, usage, activity, gate, pins, answers, workers, senders
  <2> QED BY <2>1, <2>2, <2>3, <2>4, <2>5, <2>6, <2>7, <2>8, <2>9, <2>10, <2>11, <2>12 DEF Next

-----------------------------------------------------------------------------
\* The pins protect what they are for.  Exclusion follows from three facts
\* taken together: a handler past its pin keeps its pin, a pinned tenant or
\* link admits no session, and a link's tenant outlives the link.
PinsHeld ==
  /\ \A t \in Tenants : tenantOp[t] # "none" => t \in pinned
  /\ \A l \in Links : linkOp[l] # "none" => l \in pinnedLinks
LinkTenantExists ==
  \A l \in Links : links[l] # "absent" => TenantOf[l] \in tenantRows \cup {Default}
PinInv ==
  /\ PinsHeld /\ LinkTenantExists
  /\ TenantDeleteExclusive /\ LinkOpExclusive /\ RegisteredLinkExists

\* Every step keeps the exclusion invariant.
LEMMA PinInvInductive ==
  ASSUME Types, PinInv, [Next]_vars
  PROVE  PinInv'
  <2> USE SessionsAssumption DEF Types, TypesButLeases, PcStates, PinInv, PinsHeld,
          LinkTenantExists, TenantDeleteExclusive, LinkOpExclusive, RegisteredLinkExists,
          ActiveForTenant, ActiveForLink, TenantOfId
  <2>1. CASE UNCHANGED vars
    BY <2>1 DEF vars, store, request, usage, activity, gate, pins, answers, workers, senders
  <2>2. ASSUME NEW i \in Ids, Create(i) PROVE PinInv'
    <3>1. CASE PrepareSession(i)
      BY <3>1 DEF PrepareSession, store, request, usage, activity, gate, pins, answers, workers,
          senders
    <3>2. CASE TryAdmit(i)
      BY <3>2 DEF TryAdmit, store, request, usage, activity, gate, pins, answers, workers, senders
    <3>3. CASE ReadReceived(i)
      BY <3>3 DEF ReadReceived, store, request, usage, activity, gate, pins, answers, workers,
          senders
    <3>4. CASE ReadRetained(i)
      BY <3>4 DEF ReadRetained, store, request, usage, activity, gate, pins, answers, workers,
          senders
    <3>5. CASE InsertAdmitted(i)
      BY <3>5 DEF InsertAdmitted, ForgetUsage, InsertAdmissible, NotPinned, store, request, usage,
          activity, gate, pins, answers, workers, senders
    <3>6. CASE InsertRefused(i)
      BY <3>6 DEF InsertRefused, ForgetUsage, DropAdmission, SatSub, store, request, usage,
          activity, gate, pins, answers, workers, senders
    <3>7. CASE ConfirmLink(i)
      BY <3>7 DEF ConfirmLink, Usable, store, request, usage, activity, gate, pins, answers,
          workers, senders
    <3>8. CASE ConfirmFailed(i)
      BY <3>8 DEF ConfirmFailed, DropAdmission, SatSub, store, request, usage, activity, gate,
          pins, answers, workers, senders
    <3>9. CASE CreateCancelled(i)
      BY <3>9 DEF CreateCancelled, DropAdmission, SatSub, store, request, usage, activity, gate,
          pins, answers, workers, senders
    <3>10. CASE SpawnWorker(i)
      BY <3>10 DEF SpawnWorker, store, request, usage, activity, gate, pins, answers, workers,
          senders
    <3>11. CASE CreateReplied(i)
      BY <3>11 DEF CreateReplied, DropAdmission, SatSub, store, request, usage, activity, gate,
          pins, answers, workers, senders
    <3> QED BY <2>2, <3>1, <3>2, <3>3, <3>4, <3>5, <3>6, <3>7, <3>8, <3>9, <3>10, <3>11 DEF Create
  <2>3. ASSUME NEW i \in Ids, Command(i) PROVE PinInv'
    <3>1. CASE CommandTouch(i)
      BY <3>1 DEF CommandTouch, Touch, store, request, usage, activity, gate, pins, answers,
          workers, senders
    <3>2. CASE CommandEnd(i)
      BY <3>2 DEF CommandEnd, DropLease, store, request, usage, activity, gate, pins, answers,
          workers, senders
    <3>3. CASE AbortSend(i)
      BY <3>3 DEF AbortSend, Touch, store, request, usage, activity, gate, pins, answers, workers,
          senders
    <3>4. CASE AbortDropped(i)
      BY <3>4 DEF AbortDropped, DropLease, store, request, usage, activity, gate, pins, answers,
          workers, senders
    <3>5. CASE AbortRemove(i)
      BY <3>5 DEF AbortRemove, store, request, usage, activity, gate, pins, answers, workers,
          senders
    <3> QED BY <2>3, <3>1, <3>2, <3>3, <3>4, <3>5 DEF Command
  <2>4. ASSUME NEW i \in Ids, Worker(i) PROVE PinInv'
    <3>1. CASE WorkerBegin(i)
      BY <3>1 DEF WorkerBegin, store, request, usage, activity, gate, pins, answers, workers,
          senders
    <3>2. CASE WorkerPublish(i)
      BY <3>2 DEF WorkerPublish, store, request, usage, activity, gate, pins, answers, workers,
          senders
    <3>3. CASE WorkerInterrupted(i)
      BY <3>3 DEF WorkerInterrupted, EndPartially, RecordPayload, store, request, usage, activity,
          gate, pins, answers, workers, senders
    <3>4. CASE WorkerSuspend(i)
      BY <3>4 DEF WorkerSuspend, store, request, usage, activity, gate, pins, answers, workers,
          senders
    <3>5. CASE WorkerAbort(i)
      BY <3>5 DEF WorkerAbort, DropLease, EndPartially, RecordPayload, store, request, usage,
          activity, gate, pins, answers, workers, senders
    <3> QED BY <2>4, <3>1, <3>2, <3>3, <3>4, <3>5 DEF Worker
  <2>5. ASSUME NEW i \in Ids, NEW a \in Attempts, FinishRequest(i, a) PROVE PinInv'
    <3>1. CASE FinishLook(i, a)
      BY <3>1 DEF FinishLook, SetFin, store, request, usage, activity, gate, pins, answers,
          workers, senders
    <3>2. CASE FinishTouch(i, a)
      BY <3>2 DEF FinishTouch, SetFin, Touch, store, request, usage, activity, gate, pins,
          answers, workers, senders
    <3>3. CASE FinishSend(i, a)
      BY <3>3 DEF FinishSend, SetFin, DropLease, store, request, usage, activity, gate, pins,
          answers, workers, senders
    <3>4. CASE FinishDropped(i, a)
      BY <3>4 DEF FinishDropped, SetFin, DropLease, store, request, usage, activity, gate, pins,
          answers, workers, senders
    <3>5. CASE RememberFinished(i, a)
      BY <3>5 DEF RememberFinished, SetFin, store, request, usage, activity, gate, pins, answers,
          workers, senders
    <3>6. CASE UploadCompleted(i, a)
      BY <3>6 DEF UploadCompleted, SetFin, store, request, usage, activity, gate, pins, answers,
          workers, senders
    <3>7. CASE WorkerFinish(i, a)
      BY <3>7 DEF WorkerFinish, SetFin, DropLease, RecordPayload, store, request, usage, activity,
          gate, pins, answers, workers, senders
    <3>8. CASE WorkerFinishRefused(i, a)
      BY <3>8 DEF WorkerFinishRefused, SetFin, DropLease, store, request, usage, activity, gate,
          pins, answers, workers, senders
    <3> QED BY <2>5, <3>1, <3>2, <3>3, <3>4, <3>5, <3>6, <3>7, <3>8 DEF FinishRequest
  <2>6. ASSUME NEW l \in Links, LinkAdmin(l) PROVE PinInv'
    <3>1. CASE CloseLink(l)
      BY <3>1 DEF CloseLink, store, request, usage, activity, gate, pins, answers, workers, senders
    <3>2. CASE OpenLink(l)
      BY <3>2 DEF OpenLink, store, request, usage, activity, gate, pins, answers, workers, senders
    <3>3. CASE PinLink(l)
      BY <3>3 DEF PinLink, SetLinkOp, store, request, usage, activity, gate, pins, answers,
          workers, senders
    <3>4. CASE CheckLinkIdle(l)
      <4>1. CASE ActiveForLink(l) = {}
        <5>1. linkOp' = [linkOp EXCEPT ![l] = "checked"] /\ pinnedLinks' = pinnedLinks /\ linkOp[l] # "none"
          BY <3>4, <4>1 DEF CheckLinkIdle, SetLinkOp, UnpinLink
        <5>2. UNCHANGED <<store, request, activity, gate, pinned, tenantOp, outbound, answers,
            workers, senders>>
          BY <3>4 DEF CheckLinkIdle
        <5> QED BY <4>1, <5>1, <5>2 DEF store, request, usage, activity, gate, pins, answers,
            workers, senders
      <4>2. CASE ~(ActiveForLink(l) = {})
        <5>1. linkOp' = [linkOp EXCEPT ![l] = "none"] /\ pinnedLinks' = pinnedLinks \ {l}
          BY <3>4, <4>2 DEF CheckLinkIdle, SetLinkOp, UnpinLink
        <5>2. UNCHANGED <<store, request, activity, gate, pinned, tenantOp, outbound, answers,
            workers, senders>>
          BY <3>4 DEF CheckLinkIdle
        <5> QED BY <4>2, <5>1, <5>2 DEF store, request, usage, activity, gate, pins, answers,
            workers, senders
      <4> QED BY <4>1, <4>2
    <3>5. CASE LinkOpRefused(l)
      BY <3>5 DEF LinkOpRefused, SetLinkOp, UnpinLink, store, request, usage, activity, gate,
          pins, answers, workers, senders
    <3>6. CASE RemoveLink(l)
      BY <3>6 DEF RemoveLink, SetLinkOp, UnpinLink, store, request, usage, activity, gate, pins,
          answers, workers, senders
    <3>7. CASE PurgeUploads(l)
      BY <3>7 DEF PurgeUploads, SetLinkOp, UnpinLink, store, request, usage, activity, gate, pins,
          answers, workers, senders
    <3>8. CASE LookForFiles(l)
      BY <3>8 DEF LookForFiles, SetLinkOp, store, request, usage, activity, gate, pins, answers,
          workers, senders
    <3> QED BY <2>6, <3>1, <3>2, <3>3, <3>4, <3>5, <3>6, <3>7, <3>8 DEF LinkAdmin
  <2>7. ASSUME NEW t \in Tenants, TenantAdmin(t) PROVE PinInv'
    <3>1. ASSUME NEW op \in {"create", "delete"}, PinTenant(t, op) PROVE PinInv'
      BY <3>1 DEF PinTenant, SetTenantOp, store, request, usage, activity, gate, pins, answers,
          workers, senders
    <3>2. CASE CreateTenant(t)
      BY <3>2 DEF CreateTenant, SetTenantOp, UnpinTenant, store, request, usage, activity, gate,
          pins, answers, workers, senders
    <3>3. CASE CountTenantLinks(t)
      <4>1. CASE LinksOf(t) = {}
        <5>1. tenantOp' = [tenantOp EXCEPT ![t] = "counted"] /\ pinned' = pinned /\ tenantOp[t] # "none"
          BY <3>3, <4>1 DEF CountTenantLinks, SetTenantOp, UnpinTenant
        <5>2. UNCHANGED <<store, request, activity, gate, pinnedLinks, linkOp, outbound, answers,
            workers, senders>>
          BY <3>3 DEF CountTenantLinks
        <5> QED BY <4>1, <5>1, <5>2 DEF LinksOf, store, request, usage, activity, gate, pins,
            answers, workers, senders
      <4>2. CASE ~(LinksOf(t) = {})
        <5>1. pinned' = pinned \ {t} /\ tenantOp' = [tenantOp EXCEPT ![t] = "none"]
          BY <3>3, <4>2 DEF CountTenantLinks, SetTenantOp, UnpinTenant
        <5>2. UNCHANGED <<store, request, activity, gate, pinnedLinks, linkOp, outbound, answers,
            workers, senders>>
          BY <3>3 DEF CountTenantLinks
        <5> QED BY <4>2, <5>1, <5>2 DEF LinksOf, store, request, usage, activity, gate, pins,
            answers, workers, senders
      <4> QED BY <4>1, <4>2
    <3>4. CASE CheckTenantIdle(t)
      <4>1. CASE ActiveForTenant(t) = {} /\ outbound[t] = 0
        <5>1. tenantOp' = [tenantOp EXCEPT ![t] = "checked"] /\ pinned' = pinned /\ tenantOp[t] # "none"
          BY <3>4, <4>1 DEF CheckTenantIdle, SetTenantOp, UnpinTenant
        <5>2. UNCHANGED <<store, request, activity, gate, pinnedLinks, linkOp, outbound, answers,
            workers, senders>>
          BY <3>4 DEF CheckTenantIdle
        <5> QED BY <4>1, <5>1, <5>2 DEF store, request, usage, activity, gate, pins, answers,
            workers, senders
      <4>2. CASE ~(ActiveForTenant(t) = {} /\ outbound[t] = 0)
        <5>1. pinned' = pinned \ {t} /\ tenantOp' = [tenantOp EXCEPT ![t] = "none"]
          BY <3>4, <4>2 DEF CheckTenantIdle, SetTenantOp, UnpinTenant
        <5>2. UNCHANGED <<store, request, activity, gate, pinnedLinks, linkOp, outbound, answers,
            workers, senders>>
          BY <3>4 DEF CheckTenantIdle
        <5> QED BY <4>2, <5>1, <5>2 DEF store, request, usage, activity, gate, pins, answers,
            workers, senders
      <4> QED BY <4>1, <4>2
    <3>5. CASE RemoveTenant(t)
      <4>1. CASE LinksOf(t) = {}
        <5>1. tenantOp' = [tenantOp EXCEPT ![t] = "purging"] /\ pinned' = pinned /\ tenantOp[t] = "checked" /\ tenantRows' = tenantRows \ {t}
          BY <3>5, <4>1 DEF RemoveTenant, SetTenantOp, UnpinTenant
        <5>2. UNCHANGED <<links, rows, disk, committed, request, activity, gate, pinnedLinks,
            linkOp, outbound, answers, workers, senders>>
          BY <3>5 DEF RemoveTenant
        <5> QED BY <4>1, <5>1, <5>2 DEF LinksOf, store, request, usage, activity, gate, pins,
            answers, workers, senders
      <4>2. CASE ~(LinksOf(t) = {})
        <5>1. pinned' = pinned \ {t} /\ tenantOp' = [tenantOp EXCEPT ![t] = "none"] /\ tenantRows' = tenantRows
          BY <3>5, <4>2 DEF RemoveTenant, SetTenantOp, UnpinTenant
        <5>2. UNCHANGED <<links, rows, disk, committed, request, activity, gate, pinnedLinks,
            linkOp, outbound, answers, workers, senders>>
          BY <3>5 DEF RemoveTenant
        <5> QED BY <4>2, <5>1, <5>2 DEF LinksOf, store, request, usage, activity, gate, pins,
            answers, workers, senders
      <4> QED BY <4>1, <4>2
    <3>6. CASE PurgeEnds(t)
      BY <3>6 DEF PurgeEnds, SetTenantOp, UnpinTenant, store, request, usage, activity, gate,
          pins, answers, workers, senders
    <3>7. CASE BeginOutbound(t)
      BY <3>7 DEF BeginOutbound, store, request, usage, activity, gate, pins, answers, workers,
          senders
    <3>8. CASE EndOutbound(t)
      BY <3>8 DEF EndOutbound, store, request, usage, activity, gate, pins, answers, workers,
          senders
    <3> QED BY <2>7, <3>1, <3>2, <3>3, <3>4, <3>5, <3>6, <3>7, <3>8 DEF TenantAdmin
  <2>8. ASSUME NEW i \in Ids, GoIdle(i) PROVE PinInv'
    BY <2>8 DEF GoIdle, store, request, usage, activity, gate, pins, answers, workers, senders
  <2>9. CASE Sweep
    BY <2>9 DEF Sweep, Swept, store, request, usage, activity, gate, pins, answers, workers, senders
  <2>10. CASE FinishedExpires
    BY <2>10 DEF FinishedExpires, store, request, usage, activity, gate, pins, answers, workers,
        senders
  <2>11. CASE RequestShutdown
    BY <2>11 DEF RequestShutdown, store, request, usage, activity, gate, pins, answers, workers,
        senders
  <2>12. CASE TakeHttp
    BY <2>12 DEF TakeHttp, store, request, usage, activity, gate, pins, answers, workers, senders
  <2> QED BY <2>1, <2>2, <2>3, <2>4, <2>5, <2>6, <2>7, <2>8, <2>9, <2>10, <2>11, <2>12 DEF Next

-----------------------------------------------------------------------------
\* A request that has not spawned its worker has no command in flight.
Quiet ==
  \A i \in Ids : pc[i] \notin {"spawned", "live"} =>
    cmds[i] = 0 /\ abort[i] = "idle" /\ \A a \in Attempts : fin[i][a] = "idle"

\* Only a live session is sent commands.
LEMMA QuietInductive ==
  ASSUME Types, Quiet, [Next]_vars
  PROVE  Quiet'
  <2> USE SessionsAssumption DEF Types, TypesButLeases, PcStates, FinStates, Quiet
  <2>1. CASE UNCHANGED vars
    BY <2>1 DEF vars, store, request, usage, activity, gate, pins, answers, workers, senders
  <2>2. ASSUME NEW i \in Ids, Create(i) PROVE Quiet'
    <3>1. CASE PrepareSession(i)
      BY <3>1 DEF PrepareSession, store, request, usage, activity, gate, pins, answers, workers,
          senders
    <3>2. CASE TryAdmit(i)
      <4>1. pc[i] \notin {"spawned", "live"} /\ \A j \in Ids \ {i} : pc'[j] = pc[j]
        BY <3>2 DEF TryAdmit
      <4>2. UNCHANGED <<cmds, abort, fin>>
        BY <3>2 DEF TryAdmit, senders, answers
      <4> QED BY <4>1, <4>2
    <3>3. CASE ReadReceived(i)
      BY <3>3 DEF ReadReceived, store, request, usage, activity, gate, pins, answers, workers,
          senders
    <3>4. CASE ReadRetained(i)
      BY <3>4 DEF ReadRetained, store, request, usage, activity, gate, pins, answers, workers,
          senders
    <3>5. CASE InsertAdmitted(i)
      BY <3>5 DEF InsertAdmitted, ForgetUsage, store, request, usage, activity, gate, pins,
          answers, workers, senders
    <3>6. CASE InsertRefused(i)
      BY <3>6 DEF InsertRefused, ForgetUsage, DropAdmission, SatSub, store, request, usage,
          activity, gate, pins, answers, workers, senders
    <3>7. CASE ConfirmLink(i)
      BY <3>7 DEF ConfirmLink, store, request, usage, activity, gate, pins, answers, workers,
          senders
    <3>8. CASE ConfirmFailed(i)
      BY <3>8 DEF ConfirmFailed, DropAdmission, SatSub, store, request, usage, activity, gate,
          pins, answers, workers, senders
    <3>9. CASE CreateCancelled(i)
      BY <3>9 DEF CreateCancelled, DropAdmission, SatSub, store, request, usage, activity, gate,
          pins, answers, workers, senders
    <3>10. CASE SpawnWorker(i)
      BY <3>10 DEF SpawnWorker, store, request, usage, activity, gate, pins, answers, workers,
          senders
    <3>11. CASE CreateReplied(i)
      BY <3>11 DEF CreateReplied, DropAdmission, SatSub, store, request, usage, activity, gate,
          pins, answers, workers, senders
    <3> QED BY <2>2, <3>1, <3>2, <3>3, <3>4, <3>5, <3>6, <3>7, <3>8, <3>9, <3>10, <3>11 DEF Create
  <2>3. ASSUME NEW i \in Ids, Command(i) PROVE Quiet'
    <3>1. CASE CommandTouch(i)
      BY <3>1 DEF CommandTouch, Touch, store, request, usage, activity, gate, pins, answers,
          workers, senders
    <3>2. CASE CommandEnd(i)
      BY <3>2 DEF CommandEnd, DropLease, store, request, usage, activity, gate, pins, answers,
          workers, senders
    <3>3. CASE AbortSend(i)
      BY <3>3 DEF AbortSend, Touch, store, request, usage, activity, gate, pins, answers, workers,
          senders
    <3>4. CASE AbortDropped(i)
      BY <3>4 DEF AbortDropped, DropLease, store, request, usage, activity, gate, pins, answers,
          workers, senders
    <3>5. CASE AbortRemove(i)
      BY <3>5 DEF AbortRemove, store, request, usage, activity, gate, pins, answers, workers,
          senders
    <3> QED BY <2>3, <3>1, <3>2, <3>3, <3>4, <3>5 DEF Command
  <2>4. ASSUME NEW i \in Ids, Worker(i) PROVE Quiet'
    <3>1. CASE WorkerBegin(i)
      BY <3>1 DEF WorkerBegin, store, request, usage, activity, gate, pins, answers, workers,
          senders
    <3>2. CASE WorkerPublish(i)
      BY <3>2 DEF WorkerPublish, store, request, usage, activity, gate, pins, answers, workers,
          senders
    <3>3. CASE WorkerInterrupted(i)
      BY <3>3 DEF WorkerInterrupted, EndPartially, RecordPayload, store, request, usage, activity,
          gate, pins, answers, workers, senders
    <3>4. CASE WorkerSuspend(i)
      BY <3>4 DEF WorkerSuspend, store, request, usage, activity, gate, pins, answers, workers,
          senders
    <3>5. CASE WorkerAbort(i)
      BY <3>5 DEF WorkerAbort, DropLease, EndPartially, RecordPayload, store, request, usage,
          activity, gate, pins, answers, workers, senders
    <3> QED BY <2>4, <3>1, <3>2, <3>3, <3>4, <3>5 DEF Worker
  <2>5. ASSUME NEW i \in Ids, NEW a \in Attempts, FinishRequest(i, a) PROVE Quiet'
    <3>1. CASE FinishLook(i, a)
      BY <3>1 DEF FinishLook, SetFin, store, request, usage, activity, gate, pins, answers,
          workers, senders
    <3>2. CASE FinishTouch(i, a)
      <4>1. pc[i] \in {"spawned", "live"}
        BY <3>2 DEF FinishTouch
      <4>2. \A j \in Ids \ {i} : fin'[j] = fin[j]
        BY <3>2 DEF FinishTouch, SetFin
      <4>3. cmds' = cmds /\ abort' = abort /\ pc' = pc
        BY <3>2 DEF FinishTouch, senders, request
      <4> SUFFICES ASSUME NEW j \in Ids, pc[j] \notin {"spawned", "live"}
                   PROVE  cmds[j] = 0 /\ abort[j] = "idle" /\ \A b \in Attempts : fin'[j][b] = "idle"
        BY <4>3 DEF Quiet
      <4>4. j # i
        BY <4>1
      <4>5. fin'[j] = fin[j]
        BY <4>2, <4>4
      <4> HIDE DEF Types, TypesButLeases
      <4> QED BY <4>5 DEF Quiet
    <3>3. CASE FinishSend(i, a)
      BY <3>3 DEF FinishSend, SetFin, DropLease, store, request, usage, activity, gate, pins,
          answers, workers, senders
    <3>4. CASE FinishDropped(i, a)
      BY <3>4 DEF FinishDropped, SetFin, DropLease, store, request, usage, activity, gate, pins,
          answers, workers, senders
    <3>5. CASE RememberFinished(i, a)
      BY <3>5 DEF RememberFinished, SetFin, store, request, usage, activity, gate, pins, answers,
          workers, senders
    <3>6. CASE UploadCompleted(i, a)
      BY <3>6 DEF UploadCompleted, SetFin, store, request, usage, activity, gate, pins, answers,
          workers, senders
    <3>7. CASE WorkerFinish(i, a)
      BY <3>7 DEF WorkerFinish, SetFin, DropLease, RecordPayload, store, request, usage, activity,
          gate, pins, answers, workers, senders
    <3>8. CASE WorkerFinishRefused(i, a)
      BY <3>8 DEF WorkerFinishRefused, SetFin, DropLease, store, request, usage, activity, gate,
          pins, answers, workers, senders
    <3> QED BY <2>5, <3>1, <3>2, <3>3, <3>4, <3>5, <3>6, <3>7, <3>8 DEF FinishRequest
  <2>6. ASSUME NEW l \in Links, LinkAdmin(l) PROVE Quiet'
    <3>1. CASE CloseLink(l)
      BY <3>1 DEF CloseLink, store, request, usage, activity, gate, pins, answers, workers, senders
    <3>2. CASE OpenLink(l)
      BY <3>2 DEF OpenLink, store, request, usage, activity, gate, pins, answers, workers, senders
    <3>3. CASE PinLink(l)
      BY <3>3 DEF PinLink, SetLinkOp, store, request, usage, activity, gate, pins, answers,
          workers, senders
    <3>4. CASE CheckLinkIdle(l)
      BY <3>4 DEF CheckLinkIdle, SetLinkOp, UnpinLink, store, request, usage, activity, gate,
          pins, answers, workers, senders
    <3>5. CASE LinkOpRefused(l)
      BY <3>5 DEF LinkOpRefused, SetLinkOp, UnpinLink, store, request, usage, activity, gate,
          pins, answers, workers, senders
    <3>6. CASE RemoveLink(l)
      BY <3>6 DEF RemoveLink, SetLinkOp, UnpinLink, store, request, usage, activity, gate, pins,
          answers, workers, senders
    <3>7. CASE PurgeUploads(l)
      BY <3>7 DEF PurgeUploads, SetLinkOp, UnpinLink, store, request, usage, activity, gate, pins,
          answers, workers, senders
    <3>8. CASE LookForFiles(l)
      BY <3>8 DEF LookForFiles, SetLinkOp, store, request, usage, activity, gate, pins, answers,
          workers, senders
    <3> QED BY <2>6, <3>1, <3>2, <3>3, <3>4, <3>5, <3>6, <3>7, <3>8 DEF LinkAdmin
  <2>7. ASSUME NEW t \in Tenants, TenantAdmin(t) PROVE Quiet'
    <3>1. ASSUME NEW op \in {"create", "delete"}, PinTenant(t, op) PROVE Quiet'
      BY <3>1 DEF PinTenant, SetTenantOp, store, request, usage, activity, gate, pins, answers,
          workers, senders
    <3>2. CASE CreateTenant(t)
      BY <3>2 DEF CreateTenant, SetTenantOp, UnpinTenant, store, request, usage, activity, gate,
          pins, answers, workers, senders
    <3>3. CASE CountTenantLinks(t)
      BY <3>3 DEF CountTenantLinks, SetTenantOp, UnpinTenant, store, request, usage, activity,
          gate, pins, answers, workers, senders
    <3>4. CASE CheckTenantIdle(t)
      BY <3>4 DEF CheckTenantIdle, SetTenantOp, UnpinTenant, store, request, usage, activity,
          gate, pins, answers, workers, senders
    <3>5. CASE RemoveTenant(t)
      BY <3>5 DEF RemoveTenant, SetTenantOp, UnpinTenant, store, request, usage, activity, gate,
          pins, answers, workers, senders
    <3>6. CASE PurgeEnds(t)
      BY <3>6 DEF PurgeEnds, SetTenantOp, UnpinTenant, store, request, usage, activity, gate,
          pins, answers, workers, senders
    <3>7. CASE BeginOutbound(t)
      BY <3>7 DEF BeginOutbound, store, request, usage, activity, gate, pins, answers, workers,
          senders
    <3>8. CASE EndOutbound(t)
      BY <3>8 DEF EndOutbound, store, request, usage, activity, gate, pins, answers, workers,
          senders
    <3> QED BY <2>7, <3>1, <3>2, <3>3, <3>4, <3>5, <3>6, <3>7, <3>8 DEF TenantAdmin
  <2>8. ASSUME NEW i \in Ids, GoIdle(i) PROVE Quiet'
    BY <2>8 DEF GoIdle, store, request, usage, activity, gate, pins, answers, workers, senders
  <2>9. CASE Sweep
    BY <2>9 DEF Sweep, Swept, store, request, usage, activity, gate, pins, answers, workers, senders
  <2>10. CASE FinishedExpires
    BY <2>10 DEF FinishedExpires, store, request, usage, activity, gate, pins, answers, workers,
        senders
  <2>11. CASE RequestShutdown
    BY <2>11 DEF RequestShutdown, store, request, usage, activity, gate, pins, answers, workers,
        senders
  <2>12. CASE TakeHttp
    BY <2>12 DEF TakeHttp, store, request, usage, activity, gate, pins, answers, workers, senders
  <2> QED BY <2>1, <2>2, <2>3, <2>4, <2>5, <2>6, <2>7, <2>8, <2>9, <2>10, <2>11, <2>12 DEF Next

-----------------------------------------------------------------------------
(* Counting leases: a request takes one or returns one, never more.        *)

\* The finish leases of a session are finitely many.
LEMMA FinishLeasesFinite ==
  ASSUME Types, NEW i \in Ids
  PROVE  IsFiniteSet(FinishLeases(i)) /\ Cardinality(FinishLeases(i)) \in Nat
  <1>1. FinishLeases(i) \subseteq Attempts
    BY DEF FinishLeases
  <1> QED BY <1>1, FS_Subset, FS_CardinalityType, SessionsAssumption

\* An attempt that receives its lease is one more.
LEMMA LeaseTaken ==
  ASSUME Types, NEW i \in Ids, NEW a \in Attempts, NEW s \in {"touched", "sent"},
         fin' = [fin EXCEPT ![i][a] = s], fin[i][a] \notin {"touched", "sent"}
  PROVE  Cardinality(FinishLeases(i)') = Cardinality(FinishLeases(i)) + 1
  <1>1. FinishLeases(i)' = FinishLeases(i) \cup {a} /\ a \notin FinishLeases(i)
    BY DEF FinishLeases, Types, TypesButLeases
  <1> QED BY <1>1, FinishLeasesFinite, FS_AddElement

\* An attempt that ends is one fewer.
LEMMA LeaseReturned ==
  ASSUME Types, NEW i \in Ids, NEW a \in Attempts, NEW s \in FinStates \ {"touched", "sent"},
         fin' = [fin EXCEPT ![i][a] = s], fin[i][a] \in {"touched", "sent"}
  PROVE  Cardinality(FinishLeases(i)') = Cardinality(FinishLeases(i)) - 1
  <1>1. FinishLeases(i)' = FinishLeases(i) \ {a} /\ a \in FinishLeases(i)
    BY DEF FinishLeases, Types, TypesButLeases
  <1> QED BY <1>1, FinishLeasesFinite, FS_RemoveElement

\* An attempt that moves on without taking or returning changes nothing.
LEMMA LeaseKept ==
  ASSUME Types, NEW i \in Ids, NEW a \in Attempts, NEW s \in FinStates,
         fin' = [fin EXCEPT ![i][a] = s],
         fin[i][a] \in {"touched", "sent"} <=> s \in {"touched", "sent"}
  PROVE  FinishLeases(i)' = FinishLeases(i)
  BY DEF FinishLeases, Types, TypesButLeases

\* The terms of the balance are numbers.
LEMMA LeaseTerms ==
  ASSUME Types, LeasesCounted, NEW i \in Ids
  PROVE  /\ inFlight[i] = cmds[i] + Cardinality(FinishLeases(i)) + AbortLease(i)
         /\ Cardinality(FinishLeases(i)) \in Nat /\ AbortLease(i) \in Nat
         /\ cmds[i] \in Nat /\ inFlight[i] \in Int
  BY FinishLeasesFinite DEF LeasesCounted, AbortLease, Types, TypesButLeases

\* A step that leaves the leases of the other sessions alone has only to
\* balance the one it is about.
LEMMA LeasesBalance ==
  ASSUME Types, LeasesCounted, NEW i \in Ids,
         \A j \in Ids \ {i} : /\ inFlight'[j] = inFlight[j] /\ cmds'[j] = cmds[j]
                              /\ fin'[j] = fin[j] /\ abort'[j] = abort[j],
         inFlight'[i] = cmds'[i] + Cardinality(FinishLeases(i)') + AbortLease(i)'
  PROVE  LeasesCounted'
  <1>1. ASSUME NEW j \in Ids \ {i} PROVE FinishLeases(j)' = FinishLeases(j) /\ AbortLease(j)' = AbortLease(j)
    BY DEF FinishLeases, AbortLease
  <1> QED BY <1>1 DEF LeasesCounted

\* A step that touches no lease keeps the count.
LEMMA LeasesUntouched ==
  ASSUME LeasesCounted, UNCHANGED <<inFlight, cmds, fin, abort>>
  PROVE  LeasesCounted'
  BY DEF LeasesCounted, FinishLeases, AbortLease

\* Before the worker is spawned the counter is zero.
LEMMA QuietLeases ==
  ASSUME Types, Quiet, LeasesCounted, NEW i \in Ids, pc[i] \notin {"spawned", "live"}
  PROVE  inFlight[i] = 0
  <1>1. FinishLeases(i) = {}
    BY DEF Quiet, FinishLeases
  <1> QED BY <1>1, FS_EmptySet DEF Quiet, LeasesCounted, AbortLease

\* Every step keeps the leases balanced.
LEMMA LeasesInductive ==
  ASSUME Types, Quiet, LeasesCounted, [Next]_vars
  PROVE  LeasesCounted'
  <2> USE SessionsAssumption DEF Types, TypesButLeases
  <2>1. CASE UNCHANGED vars
    BY LeasesUntouched, <2>1 DEF vars, store, request, usage, activity, gate, pins, answers,
        workers, senders
  <2>2. ASSUME NEW i \in Ids, Create(i) PROVE LeasesCounted'
    <3>1. CASE InsertAdmitted(i)
      <4>1. inFlight[i] = 0
        <5>1. pc[i] \notin {"spawned", "live"}
          BY <3>1 DEF InsertAdmitted
        <5> HIDE DEF Types, TypesButLeases
        <5> QED BY <5>1, QuietLeases
      <4>2. inFlight' = inFlight
        BY <3>1, <4>1 DEF InsertAdmitted
      <4> QED BY <3>1, <4>2, LeasesUntouched DEF InsertAdmitted, store, request, usage, activity,
          gate, pins, answers, workers, senders
    <3>2. CASE PrepareSession(i) \/ TryAdmit(i) \/ ReadReceived(i) \/ ReadRetained(i) \/ InsertRefused(i) \/ ConfirmLink(i) \/ ConfirmFailed(i) \/ CreateCancelled(i) \/ SpawnWorker(i) \/ CreateReplied(i)
      BY LeasesUntouched, <3>2 DEF PrepareSession, TryAdmit, ReadReceived, ReadRetained,
          InsertRefused, ForgetUsage, DropAdmission, SatSub, ConfirmLink, ConfirmFailed,
          CreateCancelled, SpawnWorker, CreateReplied, store, request, usage, activity, gate,
          pins, answers, workers, senders
    <3> QED BY <2>2, <3>1, <3>2 DEF Create
  <2>3. ASSUME NEW i \in Ids, Command(i) PROVE LeasesCounted'
    <3>1. CASE CommandTouch(i)
      <4>1. inFlight' = [inFlight EXCEPT ![i] = @ + 1] /\ cmds' = [cmds EXCEPT ![i] = @ + 1] /\ UNCHANGED <<fin,
          abort>>
        BY <3>1 DEF CommandTouch, Touch, store, request, usage, activity, gate, pins, answers,
            workers, senders
      <4>2. FinishLeases(i)' = FinishLeases(i)
        BY <4>1 DEF FinishLeases
      <4>3. inFlight'[i] = cmds'[i] + Cardinality(FinishLeases(i)') + AbortLease(i)'
        <5>1. inFlight'[i] = inFlight[i] + 1 /\ cmds'[i] = cmds[i] + 1 /\ AbortLease(i)' = AbortLease(i)
          BY <4>1, <3>1 DEF AbortLease, CommandTouch
        <5>9. /\ inFlight[i] = cmds[i] + Cardinality(FinishLeases(i)) + AbortLease(i)
              /\ Cardinality(FinishLeases(i)) \in Nat /\ AbortLease(i) \in Nat
              /\ cmds[i] \in Nat /\ inFlight[i] \in Int
          BY LeaseTerms
        <5> HIDE DEF Types, TypesButLeases
        <5> QED BY <5>1, <4>2, <5>9
      <4> QED BY <4>1, <4>3, LeasesBalance
    <3>2. CASE CommandEnd(i)
      <4>1. inFlight' = [inFlight EXCEPT ![i] = @ - 1] /\ cmds' = [cmds EXCEPT ![i] = @ - 1] /\ UNCHANGED <<fin,
          abort>>
        BY <3>2 DEF CommandEnd, DropLease, store, request, usage, activity, gate, pins, answers,
            workers, senders
      <4>2. FinishLeases(i)' = FinishLeases(i)
        BY <4>1 DEF FinishLeases
      <4>3. inFlight'[i] = cmds'[i] + Cardinality(FinishLeases(i)') + AbortLease(i)'
        <5>1. inFlight'[i] = inFlight[i] - 1 /\ cmds'[i] = cmds[i] - 1 /\ AbortLease(i)' = AbortLease(i)
          BY <4>1, <3>2 DEF AbortLease, CommandEnd
        <5>9. /\ inFlight[i] = cmds[i] + Cardinality(FinishLeases(i)) + AbortLease(i)
              /\ Cardinality(FinishLeases(i)) \in Nat /\ AbortLease(i) \in Nat
              /\ cmds[i] \in Nat /\ inFlight[i] \in Int
          BY LeaseTerms
        <5> HIDE DEF Types, TypesButLeases
        <5> QED BY <5>1, <4>2, <5>9
      <4> QED BY <4>1, <4>3, LeasesBalance
    <3>3. CASE AbortSend(i)
      <4>0. abort[i] = "idle"
        BY <3>3 DEF AbortSend
      <4>1. UNCHANGED <<fin, cmds>>
        BY <3>3 DEF AbortSend, store, request, usage, activity, gate, pins, answers, workers,
            senders
      <4>5. \/ inFlight' = [inFlight EXCEPT ![i] = @ + 1] /\ abort' = [abort EXCEPT ![i] = "sent"]
            \/ inFlight' = inFlight /\ abort' = [abort EXCEPT ![i] = "answered"]
        BY <3>3 DEF AbortSend, Touch, store, request, usage, activity, gate, pins, answers,
            workers, senders
      <4>2. FinishLeases(i)' = FinishLeases(i)
        BY <4>1 DEF FinishLeases
      <4>3. inFlight'[i] = cmds'[i] + Cardinality(FinishLeases(i)') + AbortLease(i)'
        <5>1. \/ inFlight'[i] = inFlight[i] + 1 /\ AbortLease(i)' = AbortLease(i) + 1
              \/ inFlight'[i] = inFlight[i] /\ AbortLease(i)' = AbortLease(i)
          BY <4>0, <4>5 DEF AbortLease
        <5>2. cmds'[i] = cmds[i]
          BY <4>1
        <5>9. /\ inFlight[i] = cmds[i] + Cardinality(FinishLeases(i)) + AbortLease(i)
              /\ Cardinality(FinishLeases(i)) \in Nat /\ AbortLease(i) \in Nat
              /\ cmds[i] \in Nat /\ inFlight[i] \in Int
          BY LeaseTerms
        <5> HIDE DEF Types, TypesButLeases
        <5> QED BY <5>1, <5>2, <4>2, <5>9
      <4>4. \A j \in Ids \ {i} : /\ inFlight'[j] = inFlight[j] /\ cmds'[j] = cmds[j]
                                 /\ fin'[j] = fin[j] /\ abort'[j] = abort[j]
        BY <4>1, <4>5
      <4> HIDE DEF Types, TypesButLeases
      <4> QED BY <4>3, <4>4, LeasesBalance
    <3>4. CASE AbortDropped(i)
      <4>1. inFlight' = [inFlight EXCEPT ![i] = @ - 1]/\ abort' = [abort EXCEPT ![i] = "answered"] /\ UNCHANGED <<fin,
          cmds>>
        BY <3>4 DEF AbortDropped, DropLease, store, request, usage, activity, gate, pins, answers,
            workers, senders
      <4>2. FinishLeases(i)' = FinishLeases(i)
        BY <4>1 DEF FinishLeases
      <4>3. inFlight'[i] = cmds'[i] + Cardinality(FinishLeases(i)') + AbortLease(i)'
        <5>1. inFlight'[i] = inFlight[i] - 1 /\ cmds'[i] = cmds[i] /\ AbortLease(i)' = AbortLease(i) - 1
          BY <4>1, <3>4 DEF AbortLease, AbortDropped
        <5>9. /\ inFlight[i] = cmds[i] + Cardinality(FinishLeases(i)) + AbortLease(i)
              /\ Cardinality(FinishLeases(i)) \in Nat /\ AbortLease(i) \in Nat
              /\ cmds[i] \in Nat /\ inFlight[i] \in Int
          BY LeaseTerms
        <5> HIDE DEF Types, TypesButLeases
        <5> QED BY <5>1, <4>2, <5>9
      <4> QED BY <4>1, <4>3, LeasesBalance
    <3>5. CASE AbortRemove(i)
      <4>1. abort' = [abort EXCEPT ![i] = "done"] /\ UNCHANGED <<inFlight, fin, cmds>>
        BY <3>5 DEF AbortRemove, store, request, usage, activity, gate, pins, answers, workers,
            senders
      <4>2. FinishLeases(i)' = FinishLeases(i)
        BY <4>1 DEF FinishLeases
      <4>3. inFlight'[i] = cmds'[i] + Cardinality(FinishLeases(i)') + AbortLease(i)'
        <5>1. inFlight'[i] = inFlight[i] /\ cmds'[i] = cmds[i] /\ AbortLease(i)' = AbortLease(i)
          BY <4>1, <3>5 DEF AbortLease, AbortRemove
        <5>9. /\ inFlight[i] = cmds[i] + Cardinality(FinishLeases(i)) + AbortLease(i)
              /\ Cardinality(FinishLeases(i)) \in Nat /\ AbortLease(i) \in Nat
              /\ cmds[i] \in Nat /\ inFlight[i] \in Int
          BY LeaseTerms
        <5> HIDE DEF Types, TypesButLeases
        <5> QED BY <5>1, <4>2, <5>9
      <4> QED BY <4>1, <4>3, LeasesBalance
    <3> QED BY <2>3, <3>1, <3>2, <3>3, <3>4, <3>5 DEF Command
  <2>4. ASSUME NEW i \in Ids, Worker(i) PROVE LeasesCounted'
    <3>1. CASE WorkerAbort(i)
      <4>1. inFlight' = [inFlight EXCEPT ![i] = @ - 1]/\ abort' = [abort EXCEPT ![i] = "answered"] /\ UNCHANGED <<fin,
          cmds>>
        BY <3>1 DEF WorkerAbort, DropLease, EndPartially, RecordPayload, store, request, usage,
            activity, gate, pins, answers, workers, senders
      <4>2. FinishLeases(i)' = FinishLeases(i)
        BY <4>1 DEF FinishLeases
      <4>3. inFlight'[i] = cmds'[i] + Cardinality(FinishLeases(i)') + AbortLease(i)'
        <5>1. inFlight'[i] = inFlight[i] - 1 /\ cmds'[i] = cmds[i] /\ AbortLease(i)' = AbortLease(i) - 1
          BY <4>1, <3>1 DEF AbortLease, WorkerAbort
        <5>9. /\ inFlight[i] = cmds[i] + Cardinality(FinishLeases(i)) + AbortLease(i)
              /\ Cardinality(FinishLeases(i)) \in Nat /\ AbortLease(i) \in Nat
              /\ cmds[i] \in Nat /\ inFlight[i] \in Int
          BY LeaseTerms
        <5> HIDE DEF Types, TypesButLeases
        <5> QED BY <5>1, <4>2, <5>9
      <4> QED BY <4>1, <4>3, LeasesBalance
    <3>2. CASE WorkerBegin(i) \/ WorkerPublish(i) \/ WorkerInterrupted(i) \/ WorkerSuspend(i)
      BY LeasesUntouched, <3>2 DEF WorkerBegin, WorkerPublish, WorkerInterrupted, EndPartially,
          RecordPayload, WorkerSuspend, store, request, usage, activity, gate, pins, answers,
          workers, senders
    <3> QED BY <2>4, <3>1, <3>2 DEF Worker
  <2>5. ASSUME NEW i \in Ids, NEW a \in Attempts, FinishRequest(i, a) PROVE LeasesCounted'
    <3>1. CASE FinishLook(i, a)
      <4>1. PICK s \in {"ok", "looked"} : fin' = [fin EXCEPT ![i][a] = s]
        BY <3>1 DEF FinishLook, SetFin
      <4>2. FinishLeases(i)' = FinishLeases(i) /\ UNCHANGED <<inFlight, cmds, abort>>
        BY <3>1, <4>1, LeaseKept DEF FinishLook, FinStates, store, request, usage, activity, gate,
            pins, answers, workers, senders
      <4>3. inFlight'[i] = cmds'[i] + Cardinality(FinishLeases(i)') + AbortLease(i)'
        BY <4>2 DEF LeasesCounted, AbortLease
      <4> QED BY <4>1, <4>2, <4>3, LeasesBalance
    <3>2. CASE FinishTouch(i, a)
      <4>1. CASE i \in map
        <5>1. fin' = [fin EXCEPT ![i][a] = "touched"] /\ UNCHANGED <<cmds, abort>>
          BY <3>2, <4>1 DEF FinishTouch, SetFin, Touch, store, request, usage, activity, gate,
              pins, answers, workers, senders
        <5>2. inFlight' = [inFlight EXCEPT ![i] = @ + 1]
          BY <3>2, <4>1 DEF FinishTouch, SetFin, Touch, store, request, usage, activity, gate,
              pins, answers, workers, senders
        <5>3. Cardinality(FinishLeases(i)') = Cardinality(FinishLeases(i)) + 1
          BY <3>2, <4>1, <5>1, LeaseTaken DEF FinishTouch, FinStates
        <5>4. AbortLease(i)' = AbortLease(i)
          BY <5>1 DEF AbortLease
        <5>5. inFlight'[i] = cmds'[i] + Cardinality(FinishLeases(i)') + AbortLease(i)'
          <6>1. inFlight'[i] = inFlight[i] + 1 /\ cmds'[i] = cmds[i]
            BY <5>1, <5>2
          <6>9. /\ inFlight[i] = cmds[i] + Cardinality(FinishLeases(i)) + AbortLease(i)
                /\ Cardinality(FinishLeases(i)) \in Nat /\ AbortLease(i) \in Nat
                /\ cmds[i] \in Nat /\ inFlight[i] \in Int
            BY LeaseTerms
          <6> HIDE DEF Types, TypesButLeases
          <6> QED BY <6>1, <5>3, <5>4, <6>9
        <5> QED BY <5>1, <5>2, <5>5, LeasesBalance
      <4>2. CASE i \notin map
        <5>1. fin' = [fin EXCEPT ![i][a] = "notfound"] /\ UNCHANGED <<inFlight, cmds, abort>>
          BY <3>2, <4>2 DEF FinishTouch, SetFin, store, request, usage, activity, gate, pins,
              answers, workers, senders
        <5>2. FinishLeases(i)' = FinishLeases(i)
          BY <3>2, <5>1, LeaseKept DEF FinishTouch, FinStates
        <5>3. inFlight'[i] = cmds'[i] + Cardinality(FinishLeases(i)') + AbortLease(i)'
          BY <5>1, <5>2 DEF LeasesCounted, AbortLease
        <5> QED BY <5>1, <5>3, LeasesBalance
      <4> QED BY <4>1, <4>2
    <3>3. CASE FinishSend(i, a)
      <4>1. CASE i \notin map
        <5>1. fin' = [fin EXCEPT ![i][a] = "notfound"] /\ UNCHANGED <<cmds, abort>>
          BY <3>3, <4>1 DEF FinishSend, SetFin, DropLease, store, request, usage, activity, gate,
              pins, answers, workers, senders
        <5>2. inFlight' = [inFlight EXCEPT ![i] = @ - 1]
          BY <3>3, <4>1 DEF FinishSend, SetFin, DropLease, store, request, usage, activity, gate,
              pins, answers, workers, senders
        <5>3. Cardinality(FinishLeases(i)') = Cardinality(FinishLeases(i)) - 1
          BY <3>3, <4>1, <5>1, LeaseReturned DEF FinishSend, FinStates
        <5>4. AbortLease(i)' = AbortLease(i)
          BY <5>1 DEF AbortLease
        <5>5. inFlight'[i] = cmds'[i] + Cardinality(FinishLeases(i)') + AbortLease(i)'
          <6>1. inFlight'[i] = inFlight[i] - 1 /\ cmds'[i] = cmds[i]
            BY <5>1, <5>2
          <6>9. /\ inFlight[i] = cmds[i] + Cardinality(FinishLeases(i)) + AbortLease(i)
                /\ Cardinality(FinishLeases(i)) \in Nat /\ AbortLease(i) \in Nat
                /\ cmds[i] \in Nat /\ inFlight[i] \in Int
            BY LeaseTerms
          <6> HIDE DEF Types, TypesButLeases
          <6> QED BY <6>1, <5>3, <5>4, <6>9
        <5> QED BY <5>1, <5>2, <5>5, LeasesBalance
      <4>2. CASE i \in map /\ (~Usable(adm[i].link) \/ worker[i] # "running")
        <5>1. fin' = [fin EXCEPT ![i][a] = "gone"] /\ UNCHANGED <<cmds, abort>>
          BY <3>3, <4>2 DEF FinishSend, SetFin, DropLease, store, request, usage, activity, gate,
              pins, answers, workers, senders
        <5>2. inFlight' = [inFlight EXCEPT ![i] = @ - 1]
          BY <3>3, <4>2 DEF FinishSend, SetFin, DropLease, store, request, usage, activity, gate,
              pins, answers, workers, senders
        <5>3. Cardinality(FinishLeases(i)') = Cardinality(FinishLeases(i)) - 1
          BY <3>3, <4>2, <5>1, LeaseReturned DEF FinishSend, FinStates
        <5>4. AbortLease(i)' = AbortLease(i)
          BY <5>1 DEF AbortLease
        <5>5. inFlight'[i] = cmds'[i] + Cardinality(FinishLeases(i)') + AbortLease(i)'
          <6>1. inFlight'[i] = inFlight[i] - 1 /\ cmds'[i] = cmds[i]
            BY <5>1, <5>2
          <6>9. /\ inFlight[i] = cmds[i] + Cardinality(FinishLeases(i)) + AbortLease(i)
                /\ Cardinality(FinishLeases(i)) \in Nat /\ AbortLease(i) \in Nat
                /\ cmds[i] \in Nat /\ inFlight[i] \in Int
            BY LeaseTerms
          <6> HIDE DEF Types, TypesButLeases
          <6> QED BY <6>1, <5>3, <5>4, <6>9
        <5> QED BY <5>1, <5>2, <5>5, LeasesBalance
      <4>3. CASE i \in map /\ Usable(adm[i].link) /\ worker[i] = "running"
        <5>1. fin' = [fin EXCEPT ![i][a] = "sent"] /\ UNCHANGED <<cmds, abort>>
          BY <3>3, <4>3 DEF FinishSend, SetFin, DropLease, store, request, usage, activity, gate,
              pins, answers, workers, senders
        <5>2. inFlight' = [inFlight EXCEPT ![i] = @]
          BY <3>3, <4>3 DEF FinishSend, SetFin, DropLease, store, request, usage, activity, gate,
              pins, answers, workers, senders
        <5>3. Cardinality(FinishLeases(i)') = Cardinality(FinishLeases(i))
          BY <3>3, <4>3, <5>1, LeaseKept DEF FinishSend, FinStates
        <5>4. AbortLease(i)' = AbortLease(i)
          BY <5>1 DEF AbortLease
        <5>5. inFlight'[i] = cmds'[i] + Cardinality(FinishLeases(i)') + AbortLease(i)'
          <6>1. inFlight'[i] = inFlight[i] /\ cmds'[i] = cmds[i]
            BY <5>1, <5>2
          <6>9. /\ inFlight[i] = cmds[i] + Cardinality(FinishLeases(i)) + AbortLease(i)
                /\ Cardinality(FinishLeases(i)) \in Nat /\ AbortLease(i) \in Nat
                /\ cmds[i] \in Nat /\ inFlight[i] \in Int
            BY LeaseTerms
          <6> HIDE DEF Types, TypesButLeases
          <6> QED BY <6>1, <5>3, <5>4, <6>9
        <5> QED BY <5>1, <5>2, <5>5, LeasesBalance
      <4> QED BY <4>1, <4>2, <4>3
    <3>4. CASE FinishDropped(i, a)
      <4>1. fin' = [fin EXCEPT ![i][a] = "gone"] /\ UNCHANGED <<cmds, abort>>
        BY <3>4 DEF FinishDropped, SetFin, DropLease, store, request, usage, activity, gate, pins,
            answers, workers, senders
      <4>2. inFlight' = [inFlight EXCEPT ![i] = @ - 1]
        BY <3>4 DEF FinishDropped, SetFin, DropLease, store, request, usage, activity, gate, pins,
            answers, workers, senders
      <4>3. Cardinality(FinishLeases(i)') = Cardinality(FinishLeases(i)) - 1
        BY <3>4, <4>1, LeaseReturned DEF FinishDropped, FinStates
      <4>4. AbortLease(i)' = AbortLease(i)
        BY <4>1 DEF AbortLease
      <4>5. inFlight'[i] = cmds'[i] + Cardinality(FinishLeases(i)') + AbortLease(i)'
        <5>1. inFlight'[i] = inFlight[i] - 1 /\ cmds'[i] = cmds[i]
          BY <4>1, <4>2
        <5>9. /\ inFlight[i] = cmds[i] + Cardinality(FinishLeases(i)) + AbortLease(i)
              /\ Cardinality(FinishLeases(i)) \in Nat /\ AbortLease(i) \in Nat
              /\ cmds[i] \in Nat /\ inFlight[i] \in Int
          BY LeaseTerms
        <5> HIDE DEF Types, TypesButLeases
        <5> QED BY <5>1, <4>3, <4>4, <5>9
      <4> QED BY <4>1, <4>2, <4>5, LeasesBalance
    <3>5. CASE RememberFinished(i, a)
      <4>1. PICK s \in {"remembered"} : fin' = [fin EXCEPT ![i][a] = s]
        BY <3>5 DEF RememberFinished, SetFin
      <4>2. FinishLeases(i)' = FinishLeases(i) /\ UNCHANGED <<inFlight, cmds, abort>>
        BY <3>5, <4>1, LeaseKept DEF RememberFinished, FinStates, store, request, usage, activity,
            gate, pins, answers, workers, senders
      <4>3. inFlight'[i] = cmds'[i] + Cardinality(FinishLeases(i)') + AbortLease(i)'
        BY <4>2 DEF LeasesCounted, AbortLease
      <4> QED BY <4>1, <4>2, <4>3, LeasesBalance
    <3>6. CASE UploadCompleted(i, a)
      <4>1. PICK s \in {"ok"} : fin' = [fin EXCEPT ![i][a] = s]
        BY <3>6 DEF UploadCompleted, SetFin
      <4>2. FinishLeases(i)' = FinishLeases(i) /\ UNCHANGED <<inFlight, cmds, abort>>
        BY <3>6, <4>1, LeaseKept DEF UploadCompleted, FinStates, store, request, usage, activity,
            gate, pins, answers, workers, senders
      <4>3. inFlight'[i] = cmds'[i] + Cardinality(FinishLeases(i)') + AbortLease(i)'
        BY <4>2 DEF LeasesCounted, AbortLease
      <4> QED BY <4>1, <4>2, <4>3, LeasesBalance
    <3>7. CASE WorkerFinish(i, a)
      <4>1. fin' = [fin EXCEPT ![i][a] = "replied"] /\ UNCHANGED <<cmds, abort>>
        BY <3>7 DEF WorkerFinish, SetFin, DropLease, RecordPayload, store, request, usage,
            activity, gate, pins, answers, workers, senders
      <4>2. inFlight' = [inFlight EXCEPT ![i] = @ - 1]
        BY <3>7 DEF WorkerFinish, SetFin, DropLease, RecordPayload, store, request, usage,
            activity, gate, pins, answers, workers, senders
      <4>3. Cardinality(FinishLeases(i)') = Cardinality(FinishLeases(i)) - 1
        BY <3>7, <4>1, LeaseReturned DEF WorkerFinish, FinStates
      <4>4. AbortLease(i)' = AbortLease(i)
        BY <4>1 DEF AbortLease
      <4>5. inFlight'[i] = cmds'[i] + Cardinality(FinishLeases(i)') + AbortLease(i)'
        <5>1. inFlight'[i] = inFlight[i] - 1 /\ cmds'[i] = cmds[i]
          BY <4>1, <4>2
        <5>9. /\ inFlight[i] = cmds[i] + Cardinality(FinishLeases(i)) + AbortLease(i)
              /\ Cardinality(FinishLeases(i)) \in Nat /\ AbortLease(i) \in Nat
              /\ cmds[i] \in Nat /\ inFlight[i] \in Int
          BY LeaseTerms
        <5> HIDE DEF Types, TypesButLeases
        <5> QED BY <5>1, <4>3, <4>4, <5>9
      <4> QED BY <4>1, <4>2, <4>5, LeasesBalance
    <3>8. CASE WorkerFinishRefused(i, a)
      <4>1. fin' = [fin EXCEPT ![i][a] = "failed"] /\ UNCHANGED <<cmds, abort>>
        BY <3>8 DEF WorkerFinishRefused, SetFin, DropLease, store, request, usage, activity, gate,
            pins, answers, workers, senders
      <4>2. inFlight' = [inFlight EXCEPT ![i] = @ - 1]
        BY <3>8 DEF WorkerFinishRefused, SetFin, DropLease, store, request, usage, activity, gate,
            pins, answers, workers, senders
      <4>3. Cardinality(FinishLeases(i)') = Cardinality(FinishLeases(i)) - 1
        BY <3>8, <4>1, LeaseReturned DEF WorkerFinishRefused, FinStates
      <4>4. AbortLease(i)' = AbortLease(i)
        BY <4>1 DEF AbortLease
      <4>5. inFlight'[i] = cmds'[i] + Cardinality(FinishLeases(i)') + AbortLease(i)'
        <5>1. inFlight'[i] = inFlight[i] - 1 /\ cmds'[i] = cmds[i]
          BY <4>1, <4>2
        <5>9. /\ inFlight[i] = cmds[i] + Cardinality(FinishLeases(i)) + AbortLease(i)
              /\ Cardinality(FinishLeases(i)) \in Nat /\ AbortLease(i) \in Nat
              /\ cmds[i] \in Nat /\ inFlight[i] \in Int
          BY LeaseTerms
        <5> HIDE DEF Types, TypesButLeases
        <5> QED BY <5>1, <4>3, <4>4, <5>9
      <4> QED BY <4>1, <4>2, <4>5, LeasesBalance
    <3> QED BY <2>5, <3>1, <3>2, <3>3, <3>4, <3>5, <3>6, <3>7, <3>8 DEF FinishRequest
  <2>6. ASSUME NEW l \in Links, LinkAdmin(l) PROVE LeasesCounted'
    BY LeasesUntouched, <2>6 DEF LinkAdmin, CloseLink, OpenLink, PinLink, SetLinkOp,
        CheckLinkIdle, UnpinLink, LinkOpRefused, LookForFiles, RemoveLink, PurgeUploads, store, request, usage,
        activity, gate, pins, answers, workers, senders
  <2>7. ASSUME NEW t \in Tenants, TenantAdmin(t) PROVE LeasesCounted'
    BY LeasesUntouched, <2>7 DEF TenantAdmin, PinTenant, SetTenantOp, CreateTenant, UnpinTenant,
        CountTenantLinks, CheckTenantIdle, RemoveTenant, PurgeEnds, BeginOutbound, EndOutbound,
        store, request, usage, activity, gate, pins, answers, workers, senders
  <2>8. ASSUME NEW i \in Ids, GoIdle(i) PROVE LeasesCounted'
    BY LeasesUntouched, <2>8 DEF GoIdle, store, request, usage, activity, gate, pins, answers,
        workers, senders
  <2>9. CASE Sweep \/ FinishedExpires \/ RequestShutdown \/ TakeHttp
    BY LeasesUntouched, <2>9 DEF Sweep, FinishedExpires, RequestShutdown, TakeHttp, Swept, store,
        request, usage, activity, gate, pins, answers, workers, senders
  <2> QED BY <2>1, <2>2, <2>3, <2>4, <2>5, <2>6, <2>7, <2>8, <2>9 DEF Next

-----------------------------------------------------------------------------
(* Counting admissions.                                                    *)

Admitted == {i \in Ids : HoldsAdmission(i)}

\* The admissions held are finitely many.
LEMMA AdmittedFinite ==
  IsFiniteSet(Admitted) /\ Cardinality(Admitted) \in Nat
  <1>1. Admitted \subseteq Ids
    BY DEF Admitted
  <1> QED BY <1>1, FS_Subset, FS_CardinalityType, SessionsAssumption

\* A request that drops its guard lowers the count by one.
LEMMA AdmissionDropped ==
  ASSUME Types, AdmissionsCounted, NEW i \in Ids, HoldsAdmission(i), DropAdmission,
         NEW s \in {"refused", "live", "cancelled"}, pc' = [pc EXCEPT ![i] = s]
  PROVE  AdmissionsCounted'
  <1>1. Admitted' = Admitted \ {i} /\ i \in Admitted
    BY DEF Admitted, HoldsAdmission, Types, TypesButLeases
  <1>2. Cardinality(Admitted') = Cardinality(Admitted) - 1
    BY <1>1, AdmittedFinite, FS_RemoveElement
  <1>3. activeAdmissions = Cardinality(Admitted) /\ activeAdmissions \in Nat
    BY DEF AdmissionsCounted, Admitted, Types, TypesButLeases
  <1>4. Cardinality(Admitted) # 0
    BY <1>1, AdmittedFinite, FS_EmptySet
  <1>5. activeAdmissions' = activeAdmissions - 1
    BY <1>3, <1>4 DEF DropAdmission, SatSub
  <1> QED BY <1>2, <1>3, <1>5 DEF AdmissionsCounted, Admitted

\* A step that changes neither the holders nor the counter keeps the count.
LEMMA AdmissionsUntouched ==
  ASSUME AdmissionsCounted, UNCHANGED activeAdmissions,
         \A i \in Ids : HoldsAdmission(i)' <=> HoldsAdmission(i)
  PROVE  AdmissionsCounted'
  <1>1. Admitted' = Admitted
    BY DEF Admitted
  <1> QED BY <1>1 DEF AdmissionsCounted, Admitted

\* Every step keeps active_admissions equal to the guards out.
LEMMA AdmissionsInductive ==
  ASSUME Types, AdmissionsCounted, [Next]_vars
  PROVE  AdmissionsCounted'
  <2> USE SessionsAssumption DEF Types, TypesButLeases
  <2>1. CASE UNCHANGED vars
    BY AdmissionsUntouched, <2>1 DEF vars, store, request, usage, activity, gate, pins, answers,
        workers, senders, HoldsAdmission
  <2>2. ASSUME NEW i \in Ids, Create(i) PROVE AdmissionsCounted'
    <3>1. CASE TryAdmit(i)
      <4>1. CASE admissionClosed
        BY <3>1, <4>1, AdmissionsUntouched DEF TryAdmit, HoldsAdmission
      <4>2. CASE ~admissionClosed
        <5>1. pc' = [pc EXCEPT ![i] = "admitted"] /\ activeAdmissions' = activeAdmissions + 1 /\ pc[i] = "prepared"
          BY <3>1, <4>2 DEF TryAdmit
        <5>2. Admitted' = Admitted \cup {i} /\ i \notin Admitted
          BY <5>1 DEF Admitted, HoldsAdmission
        <5>3. Cardinality(Admitted') = Cardinality(Admitted) + 1
          BY <5>2, AdmittedFinite, FS_AddElement
        <5> QED BY <5>1, <5>3 DEF AdmissionsCounted, Admitted
      <4> QED BY <4>1, <4>2
    <3>2. CASE InsertRefused(i)
      <4>1. HoldsAdmission(i) /\ DropAdmission /\ pc' = [pc EXCEPT ![i] = "refused"]
        BY <3>2 DEF InsertRefused, HoldsAdmission
      <4> QED BY <4>1, AdmissionDropped
    <3>3. CASE ConfirmFailed(i)
      <4>1. HoldsAdmission(i) /\ DropAdmission /\ pc' = [pc EXCEPT ![i] = "refused"]
        BY <3>3 DEF ConfirmFailed, HoldsAdmission
      <4> QED BY <4>1, AdmissionDropped
    <3>4. CASE CreateCancelled(i)
      <4>1. HoldsAdmission(i) /\ DropAdmission /\ pc' = [pc EXCEPT ![i] = "cancelled"]
        BY <3>4 DEF CreateCancelled, HoldsAdmission
      <4> QED BY <4>1, AdmissionDropped
    <3>5. CASE CreateReplied(i)
      <4>1. HoldsAdmission(i) /\ DropAdmission /\ pc' = [pc EXCEPT ![i] = "live"]
        BY <3>5 DEF CreateReplied, HoldsAdmission
      <4> QED BY <4>1, AdmissionDropped
    <3>6. CASE PrepareSession(i) \/ ReadReceived(i) \/ ReadRetained(i) \/ InsertAdmitted(i) \/ ConfirmLink(i) \/ SpawnWorker(i)
      BY AdmissionsUntouched, <3>6 DEF PrepareSession, ReadReceived, ReadRetained, InsertAdmitted,
          ForgetUsage, ConfirmLink, SpawnWorker, store, request, usage, activity, gate, pins,
          answers, workers, senders, HoldsAdmission
    <3> QED BY <2>2, <3>1, <3>2, <3>3, <3>4, <3>5, <3>6 DEF Create
  <2>3. ASSUME NEW i \in Ids, Command(i) PROVE AdmissionsCounted'
    BY AdmissionsUntouched, <2>3 DEF Command, CommandTouch, Touch, CommandEnd, DropLease,
        AbortSend, AbortDropped, AbortRemove, store, request, usage, activity, gate, pins,
        answers, workers, senders, HoldsAdmission
  <2>4. ASSUME NEW i \in Ids, Worker(i) PROVE AdmissionsCounted'
    BY AdmissionsUntouched, <2>4 DEF Worker, WorkerBegin, WorkerPublish, WorkerInterrupted,
        EndPartially, RecordPayload, WorkerSuspend, WorkerAbort, DropLease, store, request, usage,
        activity, gate, pins, answers, workers, senders, HoldsAdmission
  <2>5. ASSUME NEW i \in Ids, NEW a \in Attempts, FinishRequest(i, a) PROVE AdmissionsCounted'
    BY AdmissionsUntouched, <2>5 DEF FinishRequest, FinishLook, SetFin, FinishTouch, Touch,
        FinishSend, DropLease, FinishDropped, RememberFinished, UploadCompleted, WorkerFinish,
        RecordPayload, WorkerFinishRefused, store, request, usage, activity, gate, pins, answers,
        workers, senders, HoldsAdmission
  <2>6. ASSUME NEW l \in Links, LinkAdmin(l) PROVE AdmissionsCounted'
    BY AdmissionsUntouched, <2>6 DEF LinkAdmin, CloseLink, OpenLink, PinLink, SetLinkOp,
        CheckLinkIdle, UnpinLink, LinkOpRefused, LookForFiles, RemoveLink, PurgeUploads, store, request, usage,
        activity, gate, pins, answers, workers, senders, HoldsAdmission
  <2>7. ASSUME NEW t \in Tenants, TenantAdmin(t) PROVE AdmissionsCounted'
    BY AdmissionsUntouched, <2>7 DEF TenantAdmin, PinTenant, SetTenantOp, CreateTenant,
        UnpinTenant, CountTenantLinks, CheckTenantIdle, RemoveTenant, PurgeEnds, BeginOutbound,
        EndOutbound, store, request, usage, activity, gate, pins, answers, workers, senders,
        HoldsAdmission
  <2>8. ASSUME NEW i \in Ids, GoIdle(i) PROVE AdmissionsCounted'
    BY AdmissionsUntouched, <2>8 DEF GoIdle, store, request, usage, activity, gate, pins, answers,
        workers, senders, HoldsAdmission
  <2>9. CASE Sweep \/ FinishedExpires \/ RequestShutdown \/ TakeHttp
    BY AdmissionsUntouched, <2>9 DEF Sweep, FinishedExpires, RequestShutdown, TakeHttp, Swept,
        store, request, usage, activity, gate, pins, answers, workers, senders, HoldsAdmission
  <2> QED BY <2>1, <2>2, <2>3, <2>4, <2>5, <2>6, <2>7, <2>8, <2>9 DEF Next

-----------------------------------------------------------------------------
\* Every step keeps the registry empty behind the shutdown checkpoint.
LEMMA CheckpointInductive ==
  ASSUME Types, NothingAfterCheckpoint, [Next]_vars
  PROVE  NothingAfterCheckpoint'
  <2> USE DEF NothingAfterCheckpoint
  <2>1. CASE UNCHANGED vars
    BY <2>1 DEF vars, store, request, usage, activity, gate, pins, answers, workers, senders
  <2>2. ASSUME NEW i \in Ids, Create(i) PROVE NothingAfterCheckpoint'
    <3>1. CASE InsertAdmitted(i)
      BY <3>1 DEF InsertAdmitted, InsertAdmissible, GateOpen, gate
    <3>2. CASE PrepareSession(i) \/ TryAdmit(i) \/ ReadReceived(i) \/ ReadRetained(i) \/ InsertRefused(i) \/ ConfirmLink(i) \/ ConfirmFailed(i) \/ CreateCancelled(i) \/ SpawnWorker(i) \/ CreateReplied(i)
      BY <3>2 DEF PrepareSession, TryAdmit, ReadReceived, ReadRetained, InsertRefused,
          ForgetUsage, DropAdmission, SatSub, ConfirmLink, ConfirmFailed, CreateCancelled,
          SpawnWorker, CreateReplied, store, request, usage, activity, gate, pins, answers,
          workers, senders
    <3> QED BY <2>2, <3>1, <3>2 DEF Create
  <2>3. ASSUME NEW i \in Ids, Command(i) PROVE NothingAfterCheckpoint'
    BY <2>3 DEF Command, CommandTouch, Touch, CommandEnd, DropLease, AbortSend, AbortDropped,
        AbortRemove, store, request, usage, activity, gate, pins, answers, workers, senders
  <2>4. ASSUME NEW i \in Ids, Worker(i) PROVE NothingAfterCheckpoint'
    BY <2>4 DEF Worker, WorkerBegin, WorkerPublish, WorkerInterrupted, EndPartially,
        RecordPayload, WorkerSuspend, WorkerAbort, DropLease, store, request, usage, activity,
        gate, pins, answers, workers, senders
  <2>5. ASSUME NEW i \in Ids, NEW a \in Attempts, FinishRequest(i, a) PROVE NothingAfterCheckpoint'
    BY <2>5 DEF FinishRequest, FinishLook, SetFin, FinishTouch, Touch, FinishSend, DropLease,
        FinishDropped, RememberFinished, UploadCompleted, WorkerFinish, RecordPayload,
        WorkerFinishRefused, store, request, usage, activity, gate, pins, answers, workers,
        senders
  <2>6. ASSUME NEW l \in Links, LinkAdmin(l) PROVE NothingAfterCheckpoint'
    BY <2>6 DEF LinkAdmin, CloseLink, OpenLink, PinLink, SetLinkOp, CheckLinkIdle, UnpinLink,
        LinkOpRefused, LookForFiles, RemoveLink, PurgeUploads, store, request, usage, activity, gate, pins,
        answers, workers, senders
  <2>7. ASSUME NEW t \in Tenants, TenantAdmin(t) PROVE NothingAfterCheckpoint'
    BY <2>7 DEF TenantAdmin, PinTenant, SetTenantOp, CreateTenant, UnpinTenant, CountTenantLinks,
        CheckTenantIdle, RemoveTenant, PurgeEnds, BeginOutbound, EndOutbound, store, request,
        usage, activity, gate, pins, answers, workers, senders
  <2>8. ASSUME NEW i \in Ids, GoIdle(i) PROVE NothingAfterCheckpoint'
    BY <2>8 DEF GoIdle, store, request, usage, activity, gate, pins, answers, workers, senders
  <2>9. CASE Sweep \/ FinishedExpires \/ RequestShutdown \/ TakeHttp
    BY <2>9 DEF Sweep, FinishedExpires, RequestShutdown, TakeHttp, Swept, store, request, usage,
        activity, gate, pins, answers, workers, senders
  <2> QED BY <2>1, <2>2, <2>3, <2>4, <2>5, <2>6, <2>7, <2>8, <2>9 DEF Next

-----------------------------------------------------------------------------
(* The reserved bytes of a tenant.                                         *)

\* What a creation counts, and what moved too late for it, is all there is to
\* count: a published file has a row, and a record or a row that a reading
\* has not seen came after it.
UsageSeen ==
  /\ \A i \in Ids : disk[i] = "published" /\ links[adm[i].link] # "absent" => i \in rows
  /\ \A i, j \in Ids : TenantOfId(j) = TenantOfId(i) =>
       /\ disk[j] = "recorded" /\ pc[i] \in {"counted", "read"} => j \in seenReceived[i] \cup late[i]
       /\ j \in rows /\ pc[i] = "read" => j \in seenRetained[i] \cup late[i]

\* The sum of the announced lengths in the table a.
Lengths(a, S) == MapThenSumSet(LAMBDA i : a[i].bytes, S)
Column(a) == [i \in Ids |-> a[i].bytes]

LEMMA LengthsTotal ==
  ASSUME NEW a, NEW S, S \subseteq Ids
  PROVE  Lengths(a, S) = Total(Column(a), S)
  <1> DEFINE f == Column(a)
             SumsUp(g) == g = [s \in SUBSET S |->
                                IF s = {} THEN 0 ELSE a[First(s)].bytes + g[s \ {First(s)}]]
             h == CHOOSE g : SumsUp(g)
             k == CHOOSE g : Computes(g, f, S)
  <1>1. Lengths(a, S) = h[S]
    BY DEF Lengths, MapThenSumSet, MapThenFoldSet, First
  <1>2. IsFiniteSet(S)
    BY SessionsAssumption, FS_Subset
  <1>3. Computes(k, f, S)
    BY <1>2, ComputesExists
  <1>4. \A s \in SUBSET S : s # {} => First(s) \in Ids /\ f[First(s)] = a[First(s)].bytes
    BY DEF First, Column
  <1> HIDE DEF k, f
  <1>5. SumsUp(k)
    BY <1>3, <1>4 DEF Computes, Step
  <1>6. SumsUp(h)
    BY <1>5
  <1> HIDE DEF h
  <1>7. Computes(h, f, S)
    BY <1>4, <1>6 DEF Computes, Step
  <1>8. h[S] = k[S]
    BY <1>2, <1>3, <1>7, ComputesAgree
  <1>9. Total(f, S) = k[S]
    BY TotalIs DEF k
  <1>10. QED
    BY <1>1, <1>8, <1>9 DEF f

LEMMA BytesTotal ==
  ASSUME NEW S, S \subseteq Ids
  PROVE  Bytes(S) = Total(Column(adm), S)
  <1>1. Bytes(S) = Lengths(adm, S)
    BY DEF Bytes, Lengths
  <1>2. QED
    BY <1>1, LengthsTotal

LEMMA BytesTotalPrime ==
  ASSUME \A t \in Tenants \cup {Default} : ActiveForTenant(t)' \subseteq Ids
  PROVE  \A t \in Tenants \cup {Default} :
           Bytes(ActiveForTenant(t))' = Total(Column(adm'), ActiveForTenant(t)')
  <1> SUFFICES ASSUME NEW t \in Tenants \cup {Default}
               PROVE  Bytes(ActiveForTenant(t))' = Total(Column(adm'), ActiveForTenant(t)')
    OBVIOUS
  <1>1. Bytes(ActiveForTenant(t))' = Lengths(adm', ActiveForTenant(t)')
    BY DEF Bytes, Lengths, MapThenSumSet, MapThenFoldSet
  <1>2. QED
    BY <1>1, LengthsTotal

LEMMA ColumnNat ==
  ASSUME Types PROVE \A i \in Ids : Column(adm)[i] \in Nat /\ Column(adm)[i] = adm[i].bytes
  BY SessionsAssumption DEF Types, TypesButLeases, Column

LEMMA BytesNat ==
  ASSUME Types, NEW S, S \subseteq Ids
  PROVE  Bytes(S) \in Nat
  <1>1. IsFiniteSet(S)
    BY SessionsAssumption, FS_Subset
  <1>2. QED
    BY <1>1, BytesTotal, ColumnNat, TotalNat

\* A registry that only shrinks reserves no more.
LEMMA QuotaShrinks ==
  ASSUME Types, ReservedWithinQuota, map' \subseteq map, adm' = adm
  PROVE  ReservedWithinQuota'
  <1>1. \A t : ActiveForTenant(t)' \subseteq ActiveForTenant(t) /\ ActiveForTenant(t) \subseteq Ids
    BY DEF ActiveForTenant, TenantOfId, Types, TypesButLeases
  <1>2. ASSUME NEW t \in Tenants \cup {Default} PROVE Bytes(ActiveForTenant(t))' <= MaxTotal
    <2> DEFINE R == ActiveForTenant(t)'
               S == ActiveForTenant(t)
    <2>1. R \subseteq S /\ S \subseteq Ids /\ IsFiniteSet(S) /\ IsFiniteSet(R)
      BY <1>1, SessionsAssumption, FS_Subset
    <2>2. Bytes(S)' = Total(Column(adm), R)
      BY <1>1, BytesTotalPrime
    <2>3. Bytes(S) = Total(Column(adm), S) /\ Bytes(S) <= MaxTotal
      BY <2>1, BytesTotal DEF ReservedWithinQuota
    <2> HIDE DEF R, S
    <2>4. \A i \in S : Column(adm)[i] \in Nat
      BY <2>1, ColumnNat
    <2>5. Total(Column(adm), R) <= Total(Column(adm), S)
      BY <2>1, <2>4, TotalMonotone
    <2>6. Total(Column(adm), R) \in Nat /\ Total(Column(adm), S) \in Nat
      BY <2>1, <2>4, TotalNat
    <2>7. QED
      BY <2>2, <2>3, <2>5, <2>6, SessionsAssumption DEF S
  <1>3. QED
    BY <1>2 DEF ReservedWithinQuota

\* insert_admitted adds a session only when its bytes still fit, under the
\* lock that holds the registry.
LEMMA QuotaInsert ==
  ASSUME Types, ReservedWithinQuota, NEW i \in Ids, WithinQuota(i), map' = map \cup {i}, adm' = adm
  PROVE  ReservedWithinQuota'
  <1>1. \A t : /\ ActiveForTenant(t)' \subseteq ActiveForTenant(t) \cup {i}
               /\ t # TenantOfId(i) => ActiveForTenant(t)' \subseteq ActiveForTenant(t)
               /\ ActiveForTenant(t) \subseteq Ids
    BY DEF ActiveForTenant, TenantOfId, Types, TypesButLeases
  <1>2. ASSUME NEW t \in Tenants \cup {Default} PROVE Bytes(ActiveForTenant(t))' <= MaxTotal
    <2> DEFINE R == ActiveForTenant(t)'
               S == ActiveForTenant(t)
    <2>1. R \subseteq Ids /\ S \subseteq Ids /\ IsFiniteSet(S) /\ IsFiniteSet(R)
      BY <1>1, SessionsAssumption, FS_Subset
    <2>2. Bytes(S)' = Total(Column(adm), R)
      BY <1>1, BytesTotalPrime
    <2>3. Bytes(S) = Total(Column(adm), S) /\ Bytes(S) <= MaxTotal
      BY <2>1, BytesTotal DEF ReservedWithinQuota
    <2>4. R \subseteq S \cup {i} /\ (t # TenantOfId(i) => R \subseteq S)
      BY <1>1
    <2>5. WithinQuota(i) /\ t = TenantOfId(i) =>
            adm[i].bytes <= SatSub(SatSub(SatSub(MaxTotal, Bytes(seenReceived[i])), Bytes(S)),
                                   Bytes(seenRetained[i] \ map))
      BY DEF WithinQuota
    <2>6. Bytes(seenReceived[i]) \in Nat /\ Bytes(seenRetained[i] \ map) \in Nat
      BY BytesNat DEF Types, TypesButLeases
    <2> HIDE DEF R, S
    <2>7. \A j \in Ids : Column(adm)[j] \in Nat
      BY ColumnNat
    <2>8. Total(Column(adm), R) \in Nat /\ Total(Column(adm), S) \in Nat
      BY <2>1, <2>7, TotalNat
    <2>9. CASE R \subseteq S
      <3>1. Total(Column(adm), R) <= Total(Column(adm), S)
        BY <2>1, <2>7, <2>9, TotalMonotone
      <3>2. QED
        BY <2>2, <2>3, <2>8, <3>1, SessionsAssumption DEF S
    <2>10. CASE ~ (R \subseteq S)
      <3>1. t = TenantOfId(i) /\ i \notin S
        BY <2>4, <2>10
      <3>2. Total(Column(adm), S \cup {i}) = Column(adm)[i] + Total(Column(adm), S)
        BY <2>1, <2>7, <3>1, TotalAdds
      <3>3. IsFiniteSet(S \cup {i}) /\ S \cup {i} \subseteq Ids
        BY <2>1, FS_AddElement
      <3>4. Total(Column(adm), R) <= Total(Column(adm), S \cup {i})
        BY <2>4, <2>7, <3>3, TotalMonotone
      <3>5. Column(adm)[i] = adm[i].bytes /\ adm[i].bytes \in Nat
        BY ColumnNat
      <3> DEFINE left == SatSub(MaxTotal, Bytes(seenReceived[i]))
                 b == adm[i].bytes
                 s == Total(Column(adm), S)
                 r == Bytes(seenRetained[i] \ map)
      <3>6. left \in Nat /\ left <= MaxTotal
        BY <2>6, SessionsAssumption DEF SatSub
      <3>7. b <= SatSub(SatSub(left, s), r)
        BY <2>3, <2>5, <3>1
      <3>8. b \in Nat /\ s \in Nat /\ r \in Nat /\ s <= MaxTotal /\ MaxTotal \in Nat
        BY <2>3, <2>6, <2>8, <3>5, SessionsAssumption
      <3>9. b + s <= MaxTotal
        <4> HIDE DEF left, b, s, r
        <4>1. QED
          BY <3>6, <3>7, <3>8 DEF SatSub
      <3>10. QED
        BY <2>2, <2>8, <3>2, <3>4, <3>5, <3>8, <3>9 DEF S
    <2>11. QED
      BY <2>9, <2>10
  <1>3. QED
    BY <1>2 DEF ReservedWithinQuota

\* Every step keeps the reserved bytes within the quota.
LEMMA QuotaInductive ==
  ASSUME Types, ReservedWithinQuota, [Next]_vars
  PROVE  ReservedWithinQuota'
  <2> DEFINE Shrinks == map' \subseteq map /\ adm' = adm
  <2>0. Shrinks => ReservedWithinQuota'
    BY QuotaShrinks
  <2>1. CASE UNCHANGED vars
    BY <2>0, <2>1 DEF vars, request, activity
  <2>2. ASSUME NEW i \in Ids, Create(i) PROVE ReservedWithinQuota'
    <3>1. CASE InsertAdmitted(i)
      <4>1. WithinQuota(i) /\ map' = map \cup {i} /\ adm' = adm
        BY <3>1 DEF InsertAdmitted, InsertAdmissible
      <4>2. QED
        BY <4>1, QuotaInsert
    <3>2. CASE PrepareSession(i) \/ TryAdmit(i) \/ ReadReceived(i) \/ ReadRetained(i)
               \/ InsertRefused(i) \/ ConfirmLink(i) \/ ConfirmFailed(i) \/ CreateCancelled(i)
               \/ SpawnWorker(i) \/ CreateReplied(i)
      <4>1. Shrinks
        BY <3>2 DEF PrepareSession, TryAdmit, ReadReceived, ReadRetained, InsertRefused, ConfirmLink,
           ConfirmFailed, CreateCancelled, SpawnWorker, CreateReplied, activity
      <4>2. QED
        BY <2>0, <4>1
    <3> QED BY <2>2, <3>1, <3>2 DEF Create
  <2>3. ASSUME NEW i \in Ids, Command(i) PROVE Shrinks
    BY <2>3 DEF Command, CommandTouch, CommandEnd, AbortSend, AbortDropped, AbortRemove, request,
       activity
  <2>4. ASSUME NEW i \in Ids, Worker(i) PROVE Shrinks
    BY <2>4 DEF Worker, WorkerBegin, WorkerPublish, WorkerInterrupted, WorkerSuspend, WorkerAbort,
       request, activity
  <2>5. ASSUME NEW i \in Ids, NEW a \in Attempts, FinishRequest(i, a) PROVE Shrinks
    BY <2>5 DEF FinishRequest, FinishLook, FinishTouch, FinishSend, FinishDropped,
       RememberFinished, UploadCompleted, WorkerFinish, WorkerFinishRefused, request, activity
  <2>6. ASSUME NEW l \in Links, LinkAdmin(l) PROVE Shrinks
    BY <2>6 DEF LinkAdmin, CloseLink, OpenLink, PinLink, CheckLinkIdle, LinkOpRefused,
       LookForFiles, RemoveLink, PurgeUploads, request, activity
  <2>7. ASSUME NEW t \in Tenants, TenantAdmin(t) PROVE Shrinks
    BY <2>7 DEF TenantAdmin, PinTenant, CreateTenant, CountTenantLinks, CheckTenantIdle,
       RemoveTenant, PurgeEnds, BeginOutbound, EndOutbound, request, activity
  <2>8. ASSUME NEW i \in Ids, GoIdle(i) PROVE Shrinks
    BY <2>8 DEF GoIdle, request
  <2>9. CASE Sweep \/ FinishedExpires \/ RequestShutdown \/ TakeHttp
    <3>1. Shrinks
      BY <2>9 DEF Sweep, FinishedExpires, RequestShutdown, TakeHttp, request, activity
    <3>2. QED
      BY <2>0, <3>1
  <2> QED BY <2>0, <2>1, <2>2, <2>3, <2>4, <2>5, <2>6, <2>7, <2>8, <2>9 DEF Next

-----------------------------------------------------------------------------
(* What a creation counts of its tenant.                                   *)

\* A step that moves no row, no record and no creation between its readings.
LEMMA UsageSeenStays ==
  ASSUME Types, UsageSeen, links' = links \/ (\A l \in Links : links'[l] = "absent" <=> links[l] = "absent"),
         rows' = rows, disk' = disk, adm' = adm,
         \A i \in Ids : pc'[i] \in {"counted", "read"} =>
           pc'[i] = pc[i] /\ seenReceived'[i] = seenReceived[i] /\ seenRetained'[i] = seenRetained[i]
           /\ late'[i] = late[i]
  PROVE  UsageSeen'
  <1>1. \A i \in Ids : adm[i].link \in Links /\ (links'[adm[i].link] = "absent" <=> links[adm[i].link] = "absent")
    BY DEF Types, TypesButLeases
  <1>2. ASSUME NEW i \in Ids PROVE (disk[i] = "published" /\ links[adm[i].link] # "absent" => i \in rows)'
    BY <1>1 DEF UsageSeen
  <1>3. ASSUME NEW i \in Ids, NEW j \in Ids, TenantOfId(j)' = TenantOfId(i)'
        PROVE  /\ (disk[j] = "recorded" /\ pc[i] \in {"counted", "read"} => j \in seenReceived[i] \cup late[i])'
               /\ (j \in rows /\ pc[i] = "read" => j \in seenRetained[i] \cup late[i])'
    BY <1>3 DEF UsageSeen, TenantOfId
  <1> QED BY <1>2, <1>3 DEF UsageSeen

\* The end of a worker: its payload is recorded before its row goes, and the
\* creations that have read too early learn of it.
LEMMA UsageSeenRecords ==
  ASSUME Types, UsageSeen, NEW k \in Ids, RecordPayload(k), rows' = rows \/ rows' = rows \ {k},
         links' = links, adm' = adm, pc' = pc
  PROVE  UsageSeen'
  <1>1. /\ seenReceived' = seenReceived /\ seenRetained' = seenRetained
        /\ \A i \in Ids : late[i] \subseteq late'[i]
    BY RecordSeen DEF Types, TypesButLeases
  <1>2. \A i \in Ids : i # k => disk'[i] = disk[i]
    BY DEF RecordPayload, Types, TypesButLeases
  <1>3. disk[k] = "published" /\ links[adm[k].link] # "absent" => disk'[k] = "recorded"
    BY DEF RecordPayload, Types, TypesButLeases
  <1>4. disk'[k] = disk[k]
        \/ (disk'[k] = "recorded" /\ \A i \in Ids : pc[i] \in {"counted", "read"} => k \in late'[i])
    BY DEF RecordPayload, Misses, Types, TypesButLeases
  <1>5. ASSUME NEW i \in Ids PROVE (disk[i] = "published" /\ links[adm[i].link] # "absent" => i \in rows)'
    BY <1>2, <1>3, <1>4 DEF UsageSeen
  <1>6. ASSUME NEW i \in Ids, NEW j \in Ids, TenantOfId(j)' = TenantOfId(i)'
        PROVE  /\ (disk[j] = "recorded" /\ pc[i] \in {"counted", "read"} => j \in seenReceived[i] \cup late[i])'
               /\ (j \in rows /\ pc[i] = "read" => j \in seenRetained[i] \cup late[i])'
    BY <1>1, <1>2, <1>4, <1>6 DEF UsageSeen, TenantOfId
  <1> QED BY <1>5, <1>6 DEF UsageSeen

\* Every step keeps the account complete.
LEMMA UsageSeenInductive ==
  ASSUME Types, UsageSeen, [Next]_vars
  PROVE  UsageSeen'
  <2> DEFINE Still == links' = links /\ rows' = rows /\ disk' = disk /\ adm' = adm /\ pc' = pc
                      /\ seenReceived' = seenReceived /\ seenRetained' = seenRetained /\ late' = late
  <2>0. Still => UsageSeen'
    BY UsageSeenStays
  <2>1. CASE UNCHANGED vars
    BY <2>0, <2>1 DEF vars, store, request, usage
  <2>2. ASSUME NEW i \in Ids, Create(i) PROVE UsageSeen'
    <3>1. CASE ReadReceived(i)
      <4>1. links' = links /\ rows' = rows /\ disk' = disk /\ adm' = adm
            /\ seenRetained' = seenRetained /\ late' = late
        BY <3>1 DEF ReadReceived, store
      <4>2. pc'[i] = "counted" /\ seenReceived'[i] = Received(TenantOfId(i))
            /\ \A n \in Ids : n # i => pc'[n] = pc[n] /\ seenReceived'[n] = seenReceived[n]
        BY <3>1 DEF ReadReceived, Types, TypesButLeases
      <4>3. ASSUME NEW n \in Ids, NEW j \in Ids, TenantOfId(j)' = TenantOfId(n)'
            PROVE  /\ (disk[j] = "recorded" /\ pc[n] \in {"counted", "read"} => j \in seenReceived[n] \cup late[n])'
                   /\ (j \in rows /\ pc[n] = "read" => j \in seenRetained[n] \cup late[n])'
        BY <4>1, <4>2, <4>3 DEF UsageSeen, TenantOfId, Received
      <4> QED BY <4>1, <4>3 DEF UsageSeen
    <3>2. CASE ReadRetained(i)
      <4>1. links' = links /\ rows' = rows /\ disk' = disk /\ adm' = adm
            /\ seenReceived' = seenReceived /\ late' = late
        BY <3>2 DEF ReadRetained, store
      <4>2. pc[i] = "counted" /\ pc'[i] = "read"
            /\ seenRetained'[i] = {j \in rows : TenantOfId(j) = TenantOfId(i)}
            /\ \A n \in Ids : n # i => pc'[n] = pc[n] /\ seenRetained'[n] = seenRetained[n]
        BY <3>2 DEF ReadRetained, Types, TypesButLeases
      <4>3. ASSUME NEW n \in Ids, NEW j \in Ids, TenantOfId(j)' = TenantOfId(n)'
            PROVE  /\ (disk[j] = "recorded" /\ pc[n] \in {"counted", "read"} => j \in seenReceived[n] \cup late[n])'
                   /\ (j \in rows /\ pc[n] = "read" => j \in seenRetained[n] \cup late[n])'
        BY <4>1, <4>2, <4>3 DEF UsageSeen, TenantOfId
      <4> QED BY <4>1, <4>3 DEF UsageSeen
    <3>3. CASE InsertAdmitted(i) \/ InsertRefused(i)
      <4>1. links' = links /\ rows' = rows /\ disk' = disk /\ adm' = adm
        BY <3>3 DEF InsertAdmitted, InsertRefused, store
      <4>2. \A n \in Ids : pc'[n] \in {"counted", "read"} =>
              pc'[n] = pc[n] /\ seenReceived'[n] = seenReceived[n] /\ seenRetained'[n] = seenRetained[n]
              /\ late'[n] = late[n]
        BY <3>3 DEF InsertAdmitted, InsertRefused, ForgetUsage, Types, TypesButLeases
      <4> QED BY <4>1, <4>2, UsageSeenStays
    <3>4. CASE PrepareSession(i) \/ TryAdmit(i) \/ ConfirmLink(i) \/ ConfirmFailed(i)
               \/ CreateCancelled(i) \/ SpawnWorker(i) \/ CreateReplied(i)
      <4>1. links' = links /\ rows' = rows /\ disk' = disk /\ adm' = adm
            /\ seenReceived' = seenReceived /\ seenRetained' = seenRetained /\ late' = late
        BY <3>4 DEF PrepareSession, TryAdmit, ConfirmLink, ConfirmFailed, CreateCancelled,
           SpawnWorker, CreateReplied, store, usage
      <4>2. \A n \in Ids : pc'[n] \in {"counted", "read"} => pc'[n] = pc[n]
        BY <3>4 DEF PrepareSession, TryAdmit, ConfirmLink, ConfirmFailed, CreateCancelled,
           SpawnWorker, CreateReplied, Types, TypesButLeases
      <4> QED BY <4>1, <4>2, UsageSeenStays
    <3> QED BY <2>2, <3>1, <3>2, <3>3, <3>4 DEF Create
  <2>3. ASSUME NEW i \in Ids, Command(i) PROVE Still
    BY <2>3 DEF Command, CommandTouch, CommandEnd, AbortSend, AbortDropped, AbortRemove, store,
       request, usage
  <2>4. ASSUME NEW k \in Ids, Worker(k) PROVE UsageSeen'
    <3>1. CASE WorkerBegin(k)
      <4>1. links' = links /\ disk' = disk /\ adm' = adm /\ pc' = pc /\ rows' = rows \cup {k}
            /\ seenReceived' = seenReceived /\ seenRetained' = seenRetained
        BY <3>1 DEF WorkerBegin, KeepSeen
      <4>2. \A i \in Ids : late[i] \subseteq late'[i] /\ (pc[i] = "read" => k \in late'[i])
        BY <3>1, LateGrows DEF WorkerBegin, Types, TypesButLeases
      <4>3. ASSUME NEW i \in Ids, NEW j \in Ids, TenantOfId(j)' = TenantOfId(i)'
            PROVE  /\ (disk[j] = "recorded" /\ pc[i] \in {"counted", "read"} => j \in seenReceived[i] \cup late[i])'
                   /\ (j \in rows /\ pc[i] = "read" => j \in seenRetained[i] \cup late[i])'
        BY <4>1, <4>2, <4>3 DEF UsageSeen, TenantOfId
      <4>4. ASSUME NEW i \in Ids PROVE (disk[i] = "published" /\ links[adm[i].link] # "absent" => i \in rows)'
        BY <4>1 DEF UsageSeen
      <4> QED BY <4>3, <4>4 DEF UsageSeen
    <3>2. CASE WorkerPublish(k)
      <4>1. links' = links /\ rows' = rows /\ adm' = adm /\ pc' = pc
            /\ seenReceived' = seenReceived /\ seenRetained' = seenRetained /\ late' = late
        BY <3>2 DEF WorkerPublish, request, usage
      <4>2. k \in rows /\ disk'[k] = "published" /\ \A i \in Ids : i # k => disk'[i] = disk[i]
        BY <3>2 DEF WorkerPublish, Types, TypesButLeases
      <4>3. ASSUME NEW i \in Ids, NEW j \in Ids, TenantOfId(j)' = TenantOfId(i)'
            PROVE  /\ (disk[j] = "recorded" /\ pc[i] \in {"counted", "read"} => j \in seenReceived[i] \cup late[i])'
                   /\ (j \in rows /\ pc[i] = "read" => j \in seenRetained[i] \cup late[i])'
        BY <4>1, <4>2, <4>3 DEF UsageSeen, TenantOfId
      <4>4. ASSUME NEW i \in Ids PROVE (disk[i] = "published" /\ links[adm[i].link] # "absent" => i \in rows)'
        BY <4>1, <4>2 DEF UsageSeen
      <4> QED BY <4>3, <4>4 DEF UsageSeen
    <3>3. CASE WorkerInterrupted(k) \/ WorkerAbort(k)
      <4>1. RecordPayload(k) /\ (rows' = rows \/ rows' = rows \ {k})
        BY <3>3 DEF WorkerInterrupted, WorkerAbort, EndPartially
      <4>2. links' = links /\ adm' = adm /\ pc' = pc
        BY <3>3 DEF WorkerInterrupted, WorkerAbort
      <4> QED BY <4>1, <4>2, UsageSeenRecords
    <3>4. CASE WorkerSuspend(k)
      BY <2>0, <3>4 DEF WorkerSuspend, store, request, usage
    <3> QED BY <2>4, <3>1, <3>2, <3>3, <3>4 DEF Worker
  <2>5. ASSUME NEW k \in Ids, NEW a \in Attempts, FinishRequest(k, a) PROVE UsageSeen'
    <3>1. CASE WorkerFinish(k, a)
      <4>1. RecordPayload(k) /\ rows' = rows \ {k} /\ links' = links /\ adm' = adm /\ pc' = pc
        BY <3>1 DEF WorkerFinish
      <4> QED BY <4>1, UsageSeenRecords
    <3>2. CASE FinishLook(k, a) \/ FinishTouch(k, a) \/ FinishSend(k, a) \/ FinishDropped(k, a)
               \/ RememberFinished(k, a) \/ UploadCompleted(k, a) \/ WorkerFinishRefused(k, a)
      BY <2>0, <3>2 DEF FinishLook, FinishTouch, FinishSend, FinishDropped, RememberFinished,
         UploadCompleted, WorkerFinishRefused, store, request, usage
    <3> QED BY <2>5, <3>1, <3>2 DEF FinishRequest
  <2>6. ASSUME NEW l \in Links, LinkAdmin(l) PROVE UsageSeen'
    <3>1. CASE CloseLink(l) \/ OpenLink(l)
      <4>1. \A m \in Links : links'[m] = "absent" <=> links[m] = "absent"
        BY <3>1 DEF CloseLink, OpenLink, Types, TypesButLeases
      <4>2. rows' = rows /\ disk' = disk /\ adm' = adm /\ pc' = pc
            /\ seenReceived' = seenReceived /\ seenRetained' = seenRetained /\ late' = late
        BY <3>1 DEF CloseLink, OpenLink, request, usage
      <4> QED BY <4>1, <4>2, UsageSeenStays
    <3>2. CASE PinLink(l) \/ CheckLinkIdle(l) \/ LinkOpRefused(l) \/ LookForFiles(l)
      BY <2>0, <3>2 DEF PinLink, CheckLinkIdle, LinkOpRefused, LookForFiles, store, request, usage
    <3>3. CASE RemoveLink(l)
      <4>1. adm' = adm /\ pc' = pc
            /\ seenReceived' = seenReceived /\ seenRetained' = seenRetained /\ late' = late
        BY <3>3 DEF RemoveLink, request, usage
      <4>2. rows' = {i \in rows : adm[i].link # l} /\ links'[l] = "absent"
            /\ \A m \in Links : m # l => links'[m] = links[m]
        BY <3>3 DEF RemoveLink, Types, TypesButLeases
      <4>3. \A i \in Ids : /\ adm[i].link # l => disk'[i] = disk[i]
                           /\ disk'[i] = "recorded" => disk[i] = "recorded"
        BY <3>3 DEF RemoveLink, Types, TypesButLeases
      <4>4. ASSUME NEW i \in Ids, NEW j \in Ids, TenantOfId(j)' = TenantOfId(i)'
            PROVE  /\ (disk[j] = "recorded" /\ pc[i] \in {"counted", "read"} => j \in seenReceived[i] \cup late[i])'
                   /\ (j \in rows /\ pc[i] = "read" => j \in seenRetained[i] \cup late[i])'
        BY <4>1, <4>2, <4>3, <4>4 DEF UsageSeen, TenantOfId
      <4>5. ASSUME NEW i \in Ids PROVE (disk[i] = "published" /\ links[adm[i].link] # "absent" => i \in rows)'
        <5>1. adm[i].link \in Links
          BY DEF Types, TypesButLeases
        <5> QED BY <4>1, <4>2, <4>3, <5>1 DEF UsageSeen
      <4> QED BY <4>4, <4>5 DEF UsageSeen
    <3>4. CASE PurgeUploads(l)
      <4>1. links' = links /\ rows' = rows /\ adm' = adm /\ pc' = pc
            /\ seenReceived' = seenReceived /\ seenRetained' = seenRetained /\ late' = late
        BY <3>4 DEF PurgeUploads, request, usage
      <4>2. \A i \in Ids : disk'[i] \in {"recorded", "published"} => disk'[i] = disk[i]
        BY <3>4 DEF PurgeUploads, Types, TypesButLeases
      <4>3. ASSUME NEW i \in Ids, NEW j \in Ids, TenantOfId(j)' = TenantOfId(i)'
            PROVE  /\ (disk[j] = "recorded" /\ pc[i] \in {"counted", "read"} => j \in seenReceived[i] \cup late[i])'
                   /\ (j \in rows /\ pc[i] = "read" => j \in seenRetained[i] \cup late[i])'
        BY <4>1, <4>2, <4>3 DEF UsageSeen, TenantOfId
      <4>4. ASSUME NEW i \in Ids PROVE (disk[i] = "published" /\ links[adm[i].link] # "absent" => i \in rows)'
        BY <4>1, <4>2 DEF UsageSeen
      <4> QED BY <4>3, <4>4 DEF UsageSeen
    <3> QED BY <2>6, <3>1, <3>2, <3>3, <3>4 DEF LinkAdmin
  <2>7. ASSUME NEW t \in Tenants, TenantAdmin(t) PROVE Still
    BY <2>7 DEF TenantAdmin, PinTenant, CreateTenant, CountTenantLinks, CheckTenantIdle,
       RemoveTenant, PurgeEnds, BeginOutbound, EndOutbound, store, request, usage
  <2>8. ASSUME NEW i \in Ids, GoIdle(i) PROVE Still
    BY <2>8 DEF GoIdle, store, request, usage
  <2>9. CASE Sweep \/ FinishedExpires \/ RequestShutdown \/ TakeHttp
    BY <2>0, <2>9 DEF Sweep, FinishedExpires, RequestShutdown, TakeHttp, store, request, usage
  <2> QED BY <2>0, <2>1, <2>2, <2>3, <2>4, <2>5, <2>6, <2>7, <2>8, <2>9 DEF Next

\* The sums are natural numbers, and a union sums to no more than its parts.
LEMMA BytesUnion ==
  ASSUME Types, NEW A, NEW B, A \subseteq Ids, B \subseteq Ids
  PROVE  Bytes(A \cup B) <= Bytes(A) + Bytes(B)
  <1>1. IsFiniteSet(A) /\ IsFiniteSet(B) /\ A \cup B \subseteq Ids
    BY SessionsAssumption, FS_Subset
  <1>2. Bytes(A) = Total(Column(adm), A) /\ Bytes(B) = Total(Column(adm), B)
        /\ Bytes(A \cup B) = Total(Column(adm), A \cup B)
    BY <1>1, BytesTotal
  <1>3. \A x \in A \cup B : Column(adm)[x] \in Nat
    BY <1>1, ColumnNat
  <1> QED BY <1>1, <1>2, <1>3, TotalUnion

LEMMA BytesGrow ==
  ASSUME Types, NEW A, NEW B, A \subseteq B, B \subseteq Ids
  PROVE  Bytes(A) <= Bytes(B)
  <1>1. IsFiniteSet(B) /\ A \subseteq Ids /\ A \in SUBSET B
    BY SessionsAssumption, FS_Subset
  <1>2. Bytes(A) = Total(Column(adm), A) /\ Bytes(B) = Total(Column(adm), B)
    BY <1>1, BytesTotal
  <1>3. \A x \in B : Column(adm)[x] \in Nat
    BY ColumnNat
  <1> QED BY <1>1, <1>2, <1>3, TotalMonotone

LEMMA BytesOne ==
  ASSUME Types, NEW i \in Ids PROVE Bytes({i}) = adm[i].bytes
  <1>1. IsFiniteSet({}) /\ {} \cup {i} = {i} /\ i \notin {}
    BY FS_EmptySet
  <1>2. \A x \in {} \cup {i} : Column(adm)[x] \in Nat
    BY ColumnNat
  <1>3. Total(Column(adm), {} \cup {i}) = Column(adm)[i] + Total(Column(adm), {})
    BY <1>1, <1>2, TotalAdds
  <1>4. Bytes({i}) = Total(Column(adm), {i})
    BY BytesTotal
  <1> QED BY <1>1, <1>3, <1>4, TotalEmpty, ColumnNat

\* What the insert lets through exceeds the quota only by what came late.
LEMMA OvershootBounded ==
  ASSUME Types, UsageSeen, NEW i \in Ids, pc[i] = "read", InsertAdmissible(i), adm[i].bytes > 0
  PROVE  Bytes(Held(TenantOfId(i)) \cup {i}) <= MaxTotal + Bytes(late[i] \ map)
  <1> DEFINE R == seenReceived[i]
             A == ActiveForTenant(TenantOfId(i))
             S == seenRetained[i] \ map
             L == late[i] \ map
             H == Held(TenantOfId(i)) \cup {i}
  <1>1. /\ R \subseteq Ids /\ A \subseteq Ids /\ S \subseteq Ids /\ L \subseteq Ids
        /\ H \subseteq ((((R \cup A) \cup S) \cup {i}) \cup L)
    <2>1. R \subseteq Ids /\ A \subseteq Ids /\ S \subseteq Ids /\ L \subseteq Ids
      BY DEF Types, TypesButLeases, ActiveForTenant
    <2>2. ASSUME NEW j \in Held(TenantOfId(i)) PROVE j \in ((R \cup A) \cup S) \cup L
      <3>1. j \in Ids /\ TenantOfId(j) = TenantOfId(i)
        BY DEF Held
      <3>2. j \in map \/ j \in rows \/ disk[j] = "recorded"
        BY <3>1 DEF Held, UsageSeen
      <3>3. j \in map => j \in A
        BY <3>1 DEF ActiveForTenant
      <3>4. j \in rows => j \in seenRetained[i] \cup late[i]
        BY <3>1 DEF UsageSeen
      <3>5. disk[j] = "recorded" => j \in seenReceived[i] \cup late[i]
        BY <3>1 DEF UsageSeen
      <3> QED BY <3>2, <3>3, <3>4, <3>5
    <2> QED BY <2>1, <2>2
  <1>2. adm[i].bytes <= SatSub(SatSub(SatSub(MaxTotal, Bytes(R)), Bytes(A)), Bytes(S))
    BY DEF InsertAdmissible, WithinQuota
  <1> HIDE DEF R, A, S, L, H
  <1>3. /\ Bytes(R) \in Nat /\ Bytes(A) \in Nat /\ Bytes(S) \in Nat /\ Bytes(L) \in Nat
        /\ Bytes({i}) \in Nat /\ Bytes(H) \in Nat
    BY <1>1, BytesNat
  <1>4. Bytes({i}) = adm[i].bytes
    BY BytesOne
  <1>5. Bytes(R) + Bytes(A) + Bytes(S) + Bytes({i}) <= MaxTotal
    BY <1>2, <1>3, <1>4, SessionsAssumption DEF SatSub
  <1>6. Bytes(H) <= Bytes((((R \cup A) \cup S) \cup {i}) \cup L)
    BY <1>1, BytesGrow
  <1>7. Bytes((((R \cup A) \cup S) \cup {i}) \cup L) <= Bytes(((R \cup A) \cup S) \cup {i}) + Bytes(L)
    BY <1>1, BytesUnion
  <1>8. Bytes(((R \cup A) \cup S) \cup {i}) <= Bytes((R \cup A) \cup S) + Bytes({i})
    BY <1>1, BytesUnion
  <1>9. Bytes((R \cup A) \cup S) <= Bytes(R \cup A) + Bytes(S)
    BY <1>1, BytesUnion
  <1>10. Bytes(R \cup A) <= Bytes(R) + Bytes(A)
    BY <1>1, BytesUnion
  <1>11. /\ Bytes(R \cup A) \in Nat /\ Bytes((R \cup A) \cup S) \in Nat
         /\ Bytes(((R \cup A) \cup S) \cup {i}) \in Nat
         /\ Bytes((((R \cup A) \cup S) \cup {i}) \cup L) \in Nat
    BY <1>1, BytesNat
  <1>12. Bytes(H) <= MaxTotal + Bytes(L)
    BY <1>3, <1>5, <1>6, <1>7, <1>8, <1>9, <1>10, <1>11, SessionsAssumption
  <1> QED BY <1>12 DEF H, L

-----------------------------------------------------------------------------
(* The theorems.                                                           *)

Inv ==
  /\ Types /\ PinInv /\ Quiet /\ LeasesCounted /\ AdmissionsCounted /\ NothingAfterCheckpoint
  /\ ReservedWithinQuota /\ UsageSeen

\* The initial states satisfy the invariant.
LEMMA InitInv == Init => Inv
  <1> SUFFICES ASSUME Init PROVE Inv
    OBVIOUS
  <1> USE SessionsAssumption
  <1>1. Types
    <2>1. finished \in Seq(Ids)
      BY DEF Init
    <2>2. links \in [Links -> {"usable", "closed", "absent"}]
      BY DEF Init
    <2>3. fin \in [Ids -> [Attempts -> FinStates]]
      BY DEF Init, FinStates
    <2>4. pc \in [Ids -> PcStates] /\ adm \in [Ids -> [link : Links, bytes : Sizes]]
      BY DEF Init, PcStates
    <2>5. /\ disk \in [Ids -> {"none", "published", "recorded", "deleted"}]
          /\ {seenReceived, seenRetained, late} \subseteq [Ids -> SUBSET Ids]
          /\ idle \in [Ids -> BOOLEAN] /\ inFlight \in [Ids -> Int] /\ cmds \in [Ids -> Nat]
      BY DEF Init
    <2>6. /\ tenantOp \in [Tenants -> {"none", "create", "delete", "counted", "checked", "purging"}]
          /\ linkOp \in [Links -> {"none", "pinned", "checked", "fileless"}] /\ outbound \in [Tenants -> Nat]
          /\ worker \in [Ids -> {"none", "running", "done", "suspended"}]
          /\ abort \in [Ids -> {"idle", "sent", "answered", "done"}]
      BY DEF Init
    <2>7. /\ {rows, committed, map, aged, taken} \subseteq SUBSET Ids
          /\ tenantRows \subseteq Tenants /\ pinned \subseteq Tenants /\ pinnedLinks \subseteq Links
          /\ {admissionClosed, commandsClosed} \subseteq BOOLEAN /\ activeAdmissions \in Nat
      BY DEF Init
    <2> QED BY <2>1, <2>2, <2>3, <2>4, <2>5, <2>6, <2>7 DEF Types, TypesButLeases
  <1>2. PinInv
    BY DEF Init, PinInv, PinsHeld, LinkTenantExists, TenantDeleteExclusive, LinkOpExclusive,
       RegisteredLinkExists
  <1>3. Quiet
    BY DEF Init, Quiet
  <1>4. LeasesCounted
    <2> SUFFICES ASSUME NEW i \in Ids
                 PROVE  inFlight[i] = cmds[i] + Cardinality(FinishLeases(i)) + AbortLease(i)
      BY DEF LeasesCounted
    <2>1. FinishLeases(i) = {}
      BY DEF Init, FinishLeases
    <2> QED BY <2>1, FS_EmptySet DEF Init, AbortLease
  <1>5. AdmissionsCounted
    <2>1. {i \in Ids : HoldsAdmission(i)} = {}
      BY DEF Init, HoldsAdmission
    <2>2. Cardinality({i \in Ids : HoldsAdmission(i)}) = 0
      BY <2>1, FS_EmptySet
    <2> QED BY <2>2 DEF Init, AdmissionsCounted
  <1>6. NothingAfterCheckpoint
    BY DEF Init, NothingAfterCheckpoint
  <1>7. ReservedWithinQuota
    <2>1. \A t \in Tenants \cup {Default} : ActiveForTenant(t) = {}
      BY DEF Init, ActiveForTenant
    <2>2. Bytes({}) = 0
      BY BytesTotal, TotalEmpty
    <2> QED BY <2>1, <2>2 DEF ReservedWithinQuota
  <1>8. UsageSeen
    BY DEF Init, UsageSeen
  <1> QED BY <1>1, <1>2, <1>3, <1>4, <1>5, <1>6, <1>7, <1>8 DEF Inv

\* The whole inductive invariant holds in every reachable state.
THEOREM Invariance == Spec => []Inv
  <1>1. Inv /\ [Next]_vars => Inv'
    <2> SUFFICES ASSUME Inv, [Next]_vars PROVE Inv'
      OBVIOUS
    <2>1. Types'
      BY TypesInductive DEF Inv
    <2>2. PinInv'
      BY PinInvInductive DEF Inv
    <2>3. Quiet'
      BY QuietInductive DEF Inv
    <2>4. LeasesCounted'
      BY LeasesInductive DEF Inv
    <2>5. AdmissionsCounted'
      BY AdmissionsInductive DEF Inv
    <2>6. NothingAfterCheckpoint'
      BY CheckpointInductive DEF Inv
    <2>7. ReservedWithinQuota'
      BY QuotaInductive DEF Inv
    <2>8. UsageSeen'
      BY UsageSeenInductive DEF Inv
    <2> QED BY <2>1, <2>2, <2>3, <2>4, <2>5, <2>6, <2>7, <2>8 DEF Inv
  <1> QED BY InitInv, <1>1, PTL DEF Spec

\* Type correctness: in_flight, which fetch_sub would wrap, stays a natural
\* number because it counts the leases that are out.
THEOREM TypeCorrect == Spec => []TypeOK
  <1>1. Inv => TypeOK
    <2> SUFFICES ASSUME Inv PROVE inFlight \in [Ids -> Nat]
      BY DEF Inv, Types, TypeOK
    <2>1. ASSUME NEW i \in Ids PROVE inFlight[i] \in Nat
      BY LeaseTerms DEF Inv
    <2> QED BY <2>1 DEF Inv, Types
  <1> QED BY <1>1, Invariance, PTL

\* delete_tenant and the link operations act alone: nothing is registered in
\* a tenant being purged or a link being removed, and a confirmed session
\* never outlives its link or tenant row.
THEOREM DeletionExclusive == Spec => []DeletionsAlone
  <1>1. Inv => DeletionsAlone
    BY DEF Inv, PinInv, DeletionsAlone
  <1> QED BY <1>1, Invariance, PTL

\* Leases and admissions are returned exactly once on every path.
THEOREM CountersExact == Spec => [](LeasesCounted /\ AdmissionsCounted)
  <1>1. Inv => LeasesCounted /\ AdmissionsCounted
    BY DEF Inv
  <1> QED BY <1>1, Invariance, PTL

\* insert_admitted, for any number of creations, any sizes and any quota:
\* the registered reservations of a tenant fit its quota; what a tenant holds
\* exceeds it at an admission at most by uploads that began or were recorded
\* after the usage was read and have left the registry; and the drain's
\* counter is the number of guards that are out.
THEOREM AdmissionBound == Spec => []AdmissionsBounded
  <1>1. Inv => AdmissionsBounded
    <2> SUFFICES ASSUME Inv PROVE OvershootIsLate
      BY DEF Inv, AdmissionsBounded
    <2>1. ASSUME NEW i \in Ids, pc[i] = "read", InsertAdmissible(i), adm[i].bytes > 0
          PROVE  Bytes(Held(TenantOfId(i)) \cup {i}) <= MaxTotal + Bytes(late[i] \ map)
      BY <2>1, OvershootBounded DEF Inv
    <2> QED BY <2>1 DEF OvershootIsLate
  <1> QED BY <1>1, Invariance, PTL

\* No session is registered behind the shutdown checkpoint.
THEOREM CheckpointFinal == Spec => []NothingAfterCheckpoint
  <1>1. Inv => NothingAfterCheckpoint
    BY DEF Inv
  <1> QED BY <1>1, Invariance, PTL

------------------------------------------------------------------------------
\* The sender.

Steps == {"idle", "opening", "recheck", "admitted", "older", "ready", "prepare", "open", "begin",
          "upload", "park", "cleanup"}
RunnerRecords ==
  [pc : Steps, op : {"none", "ship", "send", "resume"}, path : Paths \cup {NoPath},
   gen : 0 .. Cardinality(Runners), entry : Entries \cup {NoEntry}, older : SUBSET Entries,
   before : Versions, sent : Versions, http : HttpSessions \cup {NoSession}, resumed : BOOLEAN]
JournalRecords == [path : Paths \cup {NoPath}, http : HttpSessions \cup {NoSession}, root : Versions]
\* The values of the variables, in full.
SenderTypes == SenderTypeOK /\ runner \in [Runners -> RunnerRecords]

\* The stages in which a runner has claimed the entry of its journal.
Holding(r) ==
  \/ runner[r].pc \in {"older", "ready", "prepare", "open", "begin", "upload"}
  \/ At(r, "opening") /\ runner[r].op # "ship"
\* The stages after the files were looked at.
Prepared == {"open", "begin", "upload", "park"}

\* What a runner's stage says of the rest of its record.
StagesSound ==
  \A r \in Runners :
    /\ runner[r].pc \notin {"idle", "cleanup"} => runner[r].path \in Paths
    /\ runner[r].pc \in {"recheck", "admitted", "older"} => runner[r].op = "ship"
    /\ runner[r].pc = "ready" => runner[r].op # "ship"
    /\ runner[r].pc \in Prepared => runner[r].sent # 0
\* A flight has its lock file open, and it is still the one under that name.
LocksOpen ==
  \A r \in Runners :
    /\ InFlight(r) => runner[r].gen # 0 /\ runner[r].gen = lockFile[runner[r].path]
    /\ ~InFlight(r) => runner[r].gen = 0
FlightsSound == StagesSound /\ LocksOpen /\ OneFlight

\* A claim and its runner know each other, and a claimed entry is written.
ClaimsMutual ==
  /\ \A r \in Runners : Holding(r) => runner[r].entry \in Entries /\ claim[runner[r].entry] = r
  /\ \A e \in Entries : claim[e] # NoRunner => Holding(claim[e]) /\ runner[claim[e]].entry = e
EntriesWritten ==
  \A e \in Entries :
    /\ journal[e].path = NoPath => journal[e] = Unwritten
    /\ claim[e] # NoRunner => journal[e].path \in Paths
\* A session is one runner's, or one entry's that only its runner can resume.
SessionsApart ==
  /\ \A r, o \in Runners : r # o /\ runner[r].http = runner[o].http => runner[r].http = NoSession
  /\ \A e, f \in Entries : e # f /\ journal[e].http = journal[f].http => journal[e].http = NoSession
  /\ \A r \in Runners, e \in Entries :
       journal[e].http = runner[r].http /\ journal[e].http # NoSession => claim[e] = r

\* A version that is looked for again is the one that was sent.
VersionsAge == \A p \in Paths : content[p] <= writes[p]
DropsSealed ==
  \A r \in Runners :
    /\ runner[r].path \in Paths => runner[r].before <= writes[runner[r].path]
    /\ runner[r].pc \in Prepared /\ runner[r].before # 0
          /\ content[runner[r].path] = runner[r].before => runner[r].sent = runner[r].before
    /\ At(r, "park") => <<runner[r].path, runner[r].sent>> \in delivered
DropsHeld == VersionsAge /\ DropsSealed /\ ParkedWasSent

SenderInv ==
  /\ SenderTypes /\ FlightsSound /\ ClaimsMutual /\ EntriesWritten /\ SessionsApart
  /\ UploadsSpared /\ DropsHeld

LEMMA SenderInitInv == SenderInit => SenderInv
<1> SUFFICES ASSUME SenderInit PROVE SenderInv
  OBVIOUS
<1>1. Idle \in RunnerRecords
  <2>1. Cardinality(Runners) \in Nat
    BY SenderAssumption, FS_CardinalityType
  <2> QED
    BY <2>1, SenderAssumption DEF Idle, RunnerRecords, Steps, Versions
<1>2. SenderTypes
  <2>1. Cardinality(Runners) \in Nat
    BY SenderAssumption, FS_CardinalityType
  <2>2. starts \in Nat /\ kills \in Nat
    BY SenderAssumption DEF SenderInit
  <2>a. handed \in [Processes -> [Paths -> Versions]]
    <3>1. [p \in Paths |-> 0] \in [Paths -> Versions]
      BY SenderAssumption DEF Versions
    <3> QED
      BY <3>1 DEF SenderInit
  <2>b. content \in [Paths -> Versions] /\ writes \in [Paths -> Versions]
    BY SenderAssumption DEF SenderInit, Versions
  <2>c. lockFile \in [Paths -> 0 .. Cardinality(Runners)]
    BY <2>1 DEF SenderInit
  <2>3. /\ home \in [Runners -> Processes] /\ watching \in BOOLEAN
        /\ live \subseteq HttpSessions /\ delivered \subseteq Paths \X (Versions \ {0})
        /\ unsent \in BOOLEAN /\ crossed \in BOOLEAN
    BY DEF SenderInit
  <2>4. journal \in [Entries -> JournalRecords] /\ claim \in [Entries -> Runners \cup {NoRunner}]
    BY SenderAssumption DEF SenderInit, Versions, Unwritten, JournalRecords
  <2>5. runner \in [Runners -> RunnerRecords]
    BY <1>1 DEF SenderInit
  <2> QED
    BY <2>2, <2>a, <2>b, <2>c, <2>3, <2>4, <2>5 DEF SenderTypes, SenderTypeOK, JournalRecords
<1>3. FlightsSound
  BY DEF SenderInit, FlightsSound, StagesSound, LocksOpen, OneFlight, Idle, InFlight, Locked, At, Prepared
<1>4. ClaimsMutual /\ EntriesWritten
  BY SenderAssumption DEF SenderInit, ClaimsMutual, EntriesWritten, Holding, Idle, At, Unwritten
<1>5. SessionsApart /\ UploadsSpared
  BY DEF SenderInit, SessionsApart, UploadsSpared, Idle, Unwritten, At
<1>6. DropsHeld
  BY SenderAssumption DEF SenderInit, DropsHeld, VersionsAge, DropsSealed, ParkedWasSent, Idle, At, Prepared
<1> QED
  BY <1>2, <1>3, <1>4, <1>5, <1>6 DEF SenderInv

\* What the records are edited with.
LEMMA RunnersCounted == Cardinality(Runners) \in Nat /\ (\A r \in Runners : Cardinality(Runners) >= 1)
<1>1. Cardinality(Runners) \in Nat
  BY SenderAssumption, FS_CardinalityType
<1>2. \A r \in Runners : Cardinality(Runners) # 0
  BY SenderAssumption, FS_EmptySet
<1> QED
  BY <1>1, <1>2

LEMMA IdleIsOne == Idle \in RunnerRecords /\ Unwritten \in JournalRecords
  BY SenderAssumption, RunnersCounted DEF Idle, RunnerRecords, Steps, Versions, Unwritten, JournalRecords

LEMMA RunnerEdits ==
  ASSUME NEW x \in RunnerRecords, NEW step \in Steps
  PROVE  /\ [x EXCEPT !.pc = step] \in RunnerRecords
         /\ \A g \in 0 .. Cardinality(Runners) : [x EXCEPT !.pc = step, !.gen = g] \in RunnerRecords
         /\ \A e \in Entries, old \in SUBSET Entries :
              [x EXCEPT !.pc = step, !.entry = e, !.older = old] \in RunnerRecords
         /\ \A old \in SUBSET Entries : [x EXCEPT !.older = old] \in RunnerRecords
         /\ \A v \in Versions : [x EXCEPT !.pc = step, !.before = v] \in RunnerRecords
         /\ \A v \in Versions : [x EXCEPT !.pc = step, !.sent = v] \in RunnerRecords
         /\ \A s \in HttpSessions : [x EXCEPT !.pc = step, !.http = s] \in RunnerRecords
         /\ [x EXCEPT !.pc = step, !.entry = NoEntry, !.http = NoSession] \in RunnerRecords
  BY DEF RunnerRecords

LEMMA JournalEdits ==
  ASSUME NEW k \in JournalRecords
  PROVE  /\ [k EXCEPT !.http = NoSession, !.root = 0] \in JournalRecords
         /\ \A p \in Paths : [Unwritten EXCEPT !.path = p] \in JournalRecords
         /\ \A p \in Paths, s \in HttpSessions, v \in Versions :
              [path |-> p, http |-> s, root |-> v] \in JournalRecords
<1>1. 0 \in Versions
  BY SenderAssumption DEF Versions
<1>2. [k EXCEPT !.http = NoSession, !.root = 0] \in JournalRecords
  BY <1>1 DEF JournalRecords
<1>3. \A p \in Paths : [Unwritten EXCEPT !.path = p] \in JournalRecords
  BY <1>1 DEF JournalRecords, Unwritten
<1>4. \A p \in Paths, s \in HttpSessions, v \in Versions :
        [path |-> p, http |-> s, root |-> v] \in JournalRecords
  BY DEF JournalRecords
<1> QED
  BY <1>2, <1>3, <1>4

\* Refuse, Settle, Kill and the rest: runners that let go, their claims with
\* them, and of their entries no more than the session is forgotten.
Released(S) ==
  /\ runner' = [o \in Runners |-> IF o \in S THEN Idle ELSE runner[o]]
  /\ claim' = [e \in Entries |-> IF claim[e] \in S THEN NoRunner ELSE claim[e]]
  /\ journal' \in [Entries -> JournalRecords]
  /\ \A e \in Entries :
       /\ claim[e] \notin S => journal'[e] = journal[e]
       /\ claim[e] \in S =>
            \/ journal'[e] = Unwritten
            \/ journal'[e].path = journal[e].path /\ journal'[e].http \in {journal[e].http, NoSession}

LEMMA ReleaseKeeps ==
  ASSUME SenderInv, NEW S \in SUBSET Runners, Released(S),
         SenderTypeOK', lockFile' = lockFile, writes' = writes, delivered \subseteq delivered',
         \A p \in Paths : content'[p] \in {content[p], 0},
         ~crossed', ~unsent'
  PROVE  SenderInv'
<1> USE DEF Released
<1>1. /\ SenderTypes /\ StagesSound /\ LocksOpen /\ OneFlight /\ ClaimsMutual /\ EntriesWritten
      /\ SessionsApart /\ UploadsSpared /\ VersionsAge /\ DropsSealed
  BY DEF SenderInv, FlightsSound, DropsHeld
<1>2. SenderTypes'
  BY <1>1, IdleIsOne DEF SenderTypes
<1>3. /\ \A o \in Runners \ S : runner'[o] = runner[o]
      /\ \A o \in S : runner'[o] = Idle
  OBVIOUS
<1>4. FlightsSound'
  <2>1. StagesSound'
    BY <1>1, <1>3 DEF StagesSound, Idle, Prepared
  <2>2. LocksOpen'
    BY <1>1, <1>3 DEF LocksOpen, Idle, InFlight, Locked, At
  <2>3. OneFlight'
    BY <1>1, <1>3 DEF OneFlight, Idle, Locked
  <2> QED
    BY <2>1, <2>2, <2>3 DEF FlightsSound
<1>5. ClaimsMutual'
  <2>1. \A e \in Entries : claim'[e] # NoRunner => claim'[e] = claim[e] /\ claim[e] \in Runners \ S
    BY <1>1 DEF SenderTypes, SenderTypeOK
  <2>2. \A e \in Entries : claim[e] \in Runners \ S => claim'[e] = claim[e]
    OBVIOUS
  <2>3. \A o \in Runners : Holding(o)' => o \notin S /\ Holding(o)
    BY <1>3 DEF Holding, At, Idle
  <2>4. \A o \in Runners \ S : Holding(o) => Holding(o)'
    BY <1>3 DEF Holding, At
  <2>5. \A o \in Runners : Holding(o)' => runner'[o].entry \in Entries /\ claim'[runner'[o].entry] = o
    BY <1>1, <1>3, <2>2, <2>3 DEF ClaimsMutual
  <2>6. \A e \in Entries : claim'[e] # NoRunner => Holding(claim[e])' /\ runner'[claim[e]].entry = e
    BY <1>1, <1>3, <2>1, <2>4 DEF ClaimsMutual
  <2>7. \A e \in Entries : claim'[e] # NoRunner =>
          /\ \/ runner'[claim'[e]].pc \in {"older", "ready", "prepare", "open", "begin", "upload"}
             \/ runner'[claim'[e]].pc = "opening" /\ runner'[claim'[e]].op # "ship"
          /\ runner'[claim'[e]].entry = e
    BY <2>1, <2>6 DEF Holding, At
  <2> QED
    BY <2>5, <2>7 DEF ClaimsMutual, Holding, At
<1>6. EntriesWritten'
  BY <1>1, SenderAssumption DEF EntriesWritten, SenderTypes, SenderTypeOK, Unwritten, JournalRecords
<1>7. SessionsApart'
  <2>1. \A e \in Entries : journal'[e].http \in {journal[e].http, NoSession}
    BY DEF Unwritten
  <2>2. \A o \in Runners : runner'[o].http \in {runner[o].http, NoSession}
    BY <1>3 DEF Idle
  <2>3. \A o \in Runners : runner'[o].http # NoSession => o \notin S
    BY <1>3 DEF Idle
  <2> QED
    BY <1>1, <2>1, <2>2, <2>3 DEF SessionsApart
<1>8. UploadsSpared'
  <2> SUFFICES ASSUME NEW r \in Runners, At(r, "upload")'
               PROVE  journal'[runner'[r].entry].http = runner'[r].http
    BY DEF UploadsSpared
  <2>1. r \notin S /\ At(r, "upload") /\ runner'[r] = runner[r]
    BY <1>3 DEF At, Idle
  <2>2. runner[r].entry \in Entries /\ claim[runner[r].entry] = r
    BY <1>1, <2>1 DEF ClaimsMutual, Holding, At
  <2> QED
    BY <1>1, <2>1, <2>2 DEF UploadsSpared
<1>9. DropsHeld'
  <2>1. VersionsAge'
    <3>1. content \in [Paths -> Nat] /\ writes \in [Paths -> Nat]
      BY <1>1, SenderAssumption DEF SenderTypes, SenderTypeOK, Versions
    <3> QED
      BY <1>1, <3>1 DEF VersionsAge
  <2>2. DropsSealed'
    <3> SUFFICES ASSUME NEW r \in Runners
                 PROVE  /\ runner'[r].path \in Paths => runner'[r].before <= writes'[runner'[r].path]
                        /\ runner'[r].pc \in Prepared /\ runner'[r].before # 0
                             /\ content'[runner'[r].path] = runner'[r].before => runner'[r].sent = runner'[r].before
                        /\ runner'[r].pc = "park" => <<runner'[r].path, runner'[r].sent>> \in delivered'
      BY DEF DropsSealed, At
    <3>1. CASE r \in S
      BY <1>3, <3>1, SenderAssumption DEF Idle, Prepared
    <3>2. CASE r \notin S
      <4>1. runner'[r] = runner[r]
        BY <1>3, <3>2
      <4>2. runner[r].pc \in Prepared => runner[r].path \in Paths
        BY <1>1 DEF StagesSound, Prepared
      <4> QED
        BY <1>1, <4>1, <4>2 DEF DropsSealed, At
    <3> QED
      BY <3>1, <3>2
  <2> QED
    BY <2>1, <2>2 DEF DropsHeld, ParkedWasSent
<1> QED
  BY <1>2, <1>4, <1>5, <1>6, <1>7, <1>8, <1>9 DEF SenderInv

LEMMA RefuseReleases ==
  ASSUME SenderInv, NEW r \in Runners, Refuse(r)
  PROVE  Released({r})
<1>1. SenderTypes
  BY DEF SenderInv
<1>2. runner' = [o \in Runners |-> IF o \in {r} THEN Idle ELSE runner[o]]
  BY <1>1 DEF Refuse, Becomes, SenderTypes
<1>3. claim' = [e \in Entries |-> IF claim[e] \in {r} THEN NoRunner ELSE claim[e]]
  BY DEF Refuse
<1>4. journal' \in [Entries -> JournalRecords]
  BY <1>1, IdleIsOne DEF Refuse, SenderTypes, SenderTypeOK, JournalRecords
<1>5. \A e \in Entries : journal'[e] = IF claim[e] = r /\ runner[r].op = "send" THEN Unwritten ELSE journal[e]
  BY DEF Refuse
<1> QED
  BY <1>2, <1>3, <1>4, <1>5 DEF Released

LEMMA ClaimsOfOne ==
  ASSUME SenderInv, NEW r \in Runners, Holding(r)
  PROVE  runner[r].entry \in Entries /\ \A e \in Entries : claim[e] = r <=> e = runner[r].entry
<1>1. SenderTypes /\ ClaimsMutual
  BY DEF SenderInv
<1> QED
  BY <1>1, SenderAssumption DEF ClaimsMutual

LEMMA UnclaimedByOne ==
  ASSUME SenderInv, NEW r \in Runners, ~Holding(r)
  PROVE  \A e \in Entries : claim[e] # r
<1>1. SenderTypes /\ ClaimsMutual
  BY DEF SenderInv
<1> QED
  BY <1>1, SenderAssumption DEF ClaimsMutual

LEMMA SettleReleases ==
  ASSUME SenderInv, NEW r \in Runners, Holding(r), NEW error, Settle(r, error)
  PROVE  Released({r})
<1> DEFINE e == runner[r].entry
           kept == IF Stale(r, error) THEN [journal[e] EXCEPT !.http = NoSession, !.root = 0]
                   ELSE IF error \in {"pause", "retry"} THEN journal[e] ELSE Unwritten
<1>1. SenderTypes /\ e \in Entries /\ \A f \in Entries : claim[f] = r <=> f = e
  BY ClaimsOfOne DEF SenderInv
<1>2. runner' = [o \in Runners |-> IF o \in {r} THEN Idle ELSE runner[o]]
  BY <1>1 DEF Settle, Becomes, SenderTypes
<1>3. claim' = [f \in Entries |-> IF claim[f] \in {r} THEN NoRunner ELSE claim[f]]
  BY <1>1 DEF Settle, SenderTypes, SenderTypeOK
<1>4. journal' = [journal EXCEPT ![e] = kept]
  BY DEF Settle
<1>5. kept \in JournalRecords
  <2>1. journal[e] \in JournalRecords
    BY <1>1 DEF SenderTypes, SenderTypeOK, JournalRecords
  <2>2. [journal[e] EXCEPT !.http = NoSession, !.root = 0] \in JournalRecords
    BY <2>1, JournalEdits
  <2> QED
    BY <2>1, <2>2, IdleIsOne
<1>6. \/ kept = Unwritten
      \/ kept.path = journal[e].path /\ kept.http \in {journal[e].http, NoSession}
  BY <1>1 DEF SenderTypes, SenderTypeOK
<1> HIDE DEF kept, e
<1>7. journal \in [Entries -> JournalRecords]
  BY <1>1 DEF SenderTypes, SenderTypeOK, JournalRecords
<1>8. journal' \in [Entries -> JournalRecords] /\ journal'[e] = kept
      /\ \A f \in Entries \ {e} : journal'[f] = journal[f]
  BY <1>1, <1>4, <1>5, <1>7
<1>9. \A f \in Entries :
        /\ claim[f] \notin {r} => journal'[f] = journal[f]
        /\ claim[f] \in {r} =>
             \/ journal'[f] = Unwritten
             \/ journal'[f].path = journal[f].path /\ journal'[f].http \in {journal[f].http, NoSession}
  BY <1>1, <1>6, <1>8
<1> QED
  BY <1>2, <1>3, <1>8, <1>9 DEF Released

\* A runner that has no entry leaves none.
LEMMA LetGoReleases ==
  ASSUME SenderInv, NEW r \in Runners, ~Holding(r), Becomes(r, Idle), UNCHANGED <<journal, claim>>
  PROVE  Released({r})
<1>1. SenderTypes /\ \A e \in Entries : claim[e] # r
  BY UnclaimedByOne DEF SenderInv
<1>2. runner' = [o \in Runners |-> IF o \in {r} THEN Idle ELSE runner[o]]
  BY <1>1 DEF Becomes, SenderTypes
<1>3. claim' = [e \in Entries |-> IF claim[e] \in {r} THEN NoRunner ELSE claim[e]]
  BY <1>1 DEF SenderTypes, SenderTypeOK
<1> QED
  BY <1>1, <1>2, <1>3 DEF Released, SenderTypes, SenderTypeOK, JournalRecords

\* Abort: what a runner aborts is nobody else's session.
LEMMA AbortsOwn ==
  ASSUME SenderInv, NEW r \in Runners, Abort(r, runner[r].http)
  PROVE  ~crossed' /\ crossed' \in BOOLEAN /\ live' \subseteq HttpSessions
BY DEF SenderInv, SenderTypes, SenderTypeOK, SessionsApart, UploadsSpared, Abort

LEMMA AbortsUnclaimed ==
  ASSUME SenderInv, NEW r \in Runners, NEW e \in Entries, claim[e] = NoRunner, Abort(r, journal[e].http)
  PROVE  ~crossed' /\ crossed' \in BOOLEAN /\ live' \subseteq HttpSessions
BY SenderAssumption DEF SenderInv, SenderTypes, SenderTypeOK, SessionsApart, UploadsSpared, Abort

LEMMA ReleasedTypes ==
  ASSUME SenderInv, NEW S \in SUBSET Runners, Released(S)
  PROVE  /\ claim' \in [Entries -> Runners \cup {NoRunner}]
         /\ journal' \in [Entries -> [path : Paths \cup {NoPath}, http : HttpSessions \cup {NoSession},
                                      root : Versions]]
BY DEF SenderInv, SenderTypes, SenderTypeOK, Released, JournalRecords

LEMMA FailKeeps ==
  ASSUME SenderInv, NEW r \in Runners, Holding(r), NEW error, Fail(r, error),
         UNCHANGED <<home, watching, content, writes, handed, lockFile, delivered, unsent, starts, kills>>
  PROVE  SenderInv'
<1>1. Released({r})
  BY SettleReleases DEF Fail
<1>2. ~crossed /\ ~unsent /\ SenderTypeOK
  BY DEF SenderInv, UploadsSpared, SenderTypes, DropsHeld, ParkedWasSent
<1>3. ~crossed' /\ crossed' \in BOOLEAN /\ live' \subseteq HttpSessions
  <2>1. CASE Abort(r, runner[r].http)
    BY <2>1, AbortsOwn
  <2>2. CASE UNCHANGED <<live, crossed>>
    BY <2>2, <1>2 DEF SenderTypeOK
  <2> QED
    BY <2>1, <2>2 DEF Fail
<1>4. SenderTypeOK'
  BY <1>1, <1>2, <1>3, ReleasedTypes DEF SenderTypeOK
<1> QED
  BY <1>1, <1>2, <1>3, <1>4, ReleaseKeeps

LEMMA RefuseKeeps ==
  ASSUME SenderInv, NEW r \in Runners, Refuse(r),
         UNCHANGED <<home, watching, content, writes, handed, lockFile, live, delivered, unsent,
                     crossed, starts, kills>>
  PROVE  SenderInv'
<1>1. Released({r})
  BY RefuseReleases
<1>2. ~crossed /\ ~unsent /\ SenderTypeOK
  BY DEF SenderInv, UploadsSpared, SenderTypes, DropsHeld, ParkedWasSent
<1>4. SenderTypeOK'
  BY <1>1, <1>2, ReleasedTypes DEF SenderTypeOK
<1> QED
  BY <1>1, <1>2, <1>4, ReleaseKeeps

LEMMA LetGoKeeps ==
  ASSUME SenderInv, NEW r \in Runners, ~Holding(r), Becomes(r, Idle),
         UNCHANGED <<home, watching, content, writes, handed, lockFile, journal, claim, live, delivered,
                     unsent, crossed, starts, kills>>
  PROVE  SenderInv'
<1>1. Released({r})
  BY LetGoReleases
<1>2. ~crossed /\ ~unsent /\ SenderTypeOK
  BY DEF SenderInv, UploadsSpared, SenderTypes, DropsHeld, ParkedWasSent
<1>4. SenderTypeOK'
  BY <1>2 DEF SenderTypeOK
<1> QED
  BY <1>1, <1>2, <1>4, ReleaseKeeps

LEMMA ShipRefusedKeeps ==
  ASSUME SenderInv, NEW r \in Runners, ShipRefused(r)
  PROVE  SenderInv'
BY LetGoKeeps DEF ShipRefused, Holding, At

LEMMA CleanupKeeps ==
  ASSUME SenderInv, NEW r \in Runners, Cleanup(r)
  PROVE  SenderInv'
<1>1. Released({r})
  BY LetGoReleases DEF Cleanup, Holding, At
<1>2. ~crossed /\ ~unsent /\ SenderTypeOK
  BY DEF SenderInv, UploadsSpared, SenderTypes, DropsHeld, ParkedWasSent
<1>3. ~crossed' /\ crossed' \in BOOLEAN /\ live' \subseteq HttpSessions
  BY AbortsOwn DEF Cleanup
<1>4. SenderTypeOK'
  BY <1>2, <1>3 DEF SenderTypeOK, Cleanup
<1> QED
  BY <1>1, <1>2, <1>3, <1>4, ReleaseKeeps DEF Cleanup

LEMMA ParkKeeps ==
  ASSUME SenderInv, NEW r \in Runners, Park(r)
  PROVE  SenderInv'
<1> DEFINE p == runner[r].path
<1>1. Released({r})
  BY LetGoReleases DEF Park, Holding, At
<1>2. ~crossed /\ ~unsent /\ SenderTypeOK /\ p \in Paths /\ <<p, runner[r].sent>> \in delivered
  BY DEF SenderInv, UploadsSpared, SenderTypes, DropsHeld, DropsSealed, ParkedWasSent, Park, FlightsSound,
         StagesSound, At
<1>3. ~unsent' /\ (content' = content \/ content' = [content EXCEPT ![p] = 0])
  <2>1. runner[r].before # 0 /\ content[p] = runner[r].before => <<p, content[p]>> \in delivered
    BY <1>2 DEF SenderInv, DropsHeld, DropsSealed, Park, At, Prepared
  <2> QED
    BY <1>2, <2>1 DEF Park
<1>4. content' \in [Paths -> Versions] /\ \A q \in Paths : content'[q] \in {content[q], 0}
  BY <1>2, <1>3, SenderAssumption DEF SenderTypeOK, Versions
<1>5. SenderTypeOK'
  BY <1>2, <1>3, <1>4 DEF SenderTypeOK, Park
<1> QED
  BY <1>1, <1>2, <1>3, <1>4, <1>5, ReleaseKeeps DEF Park

LEMMA RemoveWatchKeeps ==
  ASSUME SenderInv, NEW c \in Processes, RemoveWatch(c)
  PROVE  SenderInv'
<1> DEFINE S == {o \in Runners : home[o] = c /\ runner[o].pc \in {"recheck", "admitted"}}
<1>1. S \in SUBSET Runners /\ \A o \in S : \A e \in Entries : claim[e] # o
  BY UnclaimedByOne DEF Holding, At
<1>2. ~crossed /\ ~unsent /\ SenderTypeOK
  BY DEF SenderInv, UploadsSpared, SenderTypes, DropsHeld, ParkedWasSent
<1>3. runner' = [o \in Runners |-> IF o \in S THEN Idle ELSE runner[o]]
  BY DEF RemoveWatch
<1>4. UNCHANGED <<journal, claim>> /\ \A e \in Entries : claim[e] \notin S
  BY <1>1 DEF RemoveWatch
<1> HIDE DEF S
<1>5. claim' = [e \in Entries |-> IF claim[e] \in S THEN NoRunner ELSE claim[e]]
  BY <1>2, <1>4 DEF SenderTypeOK
<1>6. Released(S)
  BY <1>2, <1>3, <1>4, <1>5 DEF Released, SenderTypeOK, JournalRecords
<1>7. SenderTypeOK'
  BY <1>2 DEF SenderTypeOK, RemoveWatch
<1> QED
  BY <1>1, <1>2, <1>6, <1>7, ReleaseKeeps DEF RemoveWatch

LEMMA KillKeeps ==
  ASSUME SenderInv, NEW c \in Processes, Kill(c)
  PROVE  SenderInv'
<1> DEFINE S == {o \in Runners : home[o] = c}
<1>2. ~crossed /\ ~unsent /\ SenderTypeOK
  BY DEF SenderInv, UploadsSpared, SenderTypes, DropsHeld, ParkedWasSent
<1>3. runner' = [o \in Runners |-> IF o \in S THEN Idle ELSE runner[o]]
  BY DEF Kill
<1>4. \A e \in Entries : claim[e] \in S <=> claim[e] # NoRunner /\ home[claim[e]] = c
  BY <1>2, SenderAssumption DEF SenderTypeOK
<1>5. claim' = [e \in Entries |-> IF claim[e] \in S THEN NoRunner ELSE claim[e]]
  BY <1>4 DEF Kill
<1>1. S \in SUBSET Runners
  OBVIOUS
<1> HIDE DEF S
<1>6. Released(S)
  BY <1>2, <1>3, <1>5 DEF Released, SenderTypeOK, JournalRecords, Kill
<1>7. SenderTypeOK'
  <2>1. [p \in Paths |-> 0] \in [Paths -> Versions]
    BY SenderAssumption DEF Versions
  <2>2. handed' \in [Processes -> [Paths -> Versions]]
    BY <1>2, <2>1 DEF SenderTypeOK, Kill
  <2>3. kills' \in Nat
    BY <1>2 DEF SenderTypeOK, Kill
  <2> QED
    BY <1>1, <1>2, <1>6, <2>2, <2>3, ReleasedTypes DEF SenderTypeOK, Kill
<1> QED
  BY <1>1, <1>2, <1>6, <1>7, ReleaseKeeps DEF Kill

\* What one runner's step leaves of the others.
LEMMA OneRunner ==
  ASSUME SenderInv, NEW r \in Runners, NEW x \in RunnerRecords, runner' = [runner EXCEPT ![r] = x]
  PROVE  /\ runner' \in [Runners -> RunnerRecords] /\ runner'[r] = x
         /\ \A o \in Runners \ {r} : runner'[o] = runner[o]
BY DEF SenderInv, SenderTypes

\* claim_across_processes: the lock file that is opened.
LEMMA LockOpened ==
  ASSUME SenderInv, NEW r \in Runners, NEW p \in Paths
  PROVE  /\ LockOf(p) \in 1 .. Cardinality(Runners)
         /\ lockFile[p] # 0 => LockOf(p) = lockFile[p]
<1>1. lockFile[p] \in 0 .. Cardinality(Runners) /\ LocksOpen
  BY DEF SenderInv, SenderTypes, SenderTypeOK, FlightsSound
<1>2. CASE lockFile[p] # 0
  BY <1>1, <1>2, RunnersCounted DEF LockOf
<1>3. CASE lockFile[p] = 0
  <2>1. 1 \in 1 .. Cardinality(Runners)
    BY RunnersCounted
  <2>2. \A o \in Runners : runner[o].path = p => runner[o].gen # 1
    BY <1>1, <1>3 DEF LocksOpen
  <2>3. NewLock(p) \in 1 .. Cardinality(Runners)
    BY <2>1, <2>2 DEF NewLock
  <2> QED
    BY <1>3, <2>3 DEF LockOf
<1> QED
  BY <1>2, <1>3

LEMMA AdmitKeeps ==
  ASSUME SenderInv, NEW r \in Runners, NEW p \in Paths, Admit(r, p)
  PROVE  SenderInv'
<1> DEFINE g == LockOf(p)
           x == [Idle EXCEPT !.op = "ship", !.path = p, !.before = content[p], !.pc = "opening", !.gen = g]
<1>1. /\ SenderTypes /\ FlightsSound /\ ClaimsMutual /\ EntriesWritten /\ SessionsApart
      /\ UploadsSpared /\ DropsHeld
  BY DEF SenderInv
<1>2. g \in 1 .. Cardinality(Runners) /\ (lockFile[p] # 0 => g = lockFile[p]) /\ content[p] \in Versions
  BY <1>1, LockOpened DEF SenderTypes, SenderTypeOK
<1>3. runner' = [runner EXCEPT ![r] = x] /\ lockFile' = [lockFile EXCEPT ![p] = g]
  BY DEF Admit, OpenLock, Becomes, Idle
<1> HIDE DEF g
<1>4. x \in RunnerRecords
  <2>1. g \in 0 .. Cardinality(Runners) /\ "opening" \in Steps
    BY <1>2, RunnersCounted DEF Steps
  <2> QED
    BY <1>2, <2>1, IdleIsOne DEF RunnerRecords
<1>5. /\ x.pc = "opening" /\ x.op = "ship" /\ x.path = p /\ x.gen = g /\ x.before = content[p]
      /\ x.http = NoSession
  BY DEF Idle
<1> HIDE DEF x
<1>6. /\ runner' \in [Runners -> RunnerRecords] /\ runner'[r] = x
      /\ \A o \in Runners \ {r} : runner'[o] = runner[o]
  BY <1>3, <1>4, OneRunner
<1>7. At(r, "idle") /\ UNCHANGED <<home, watching, content, writes, handed, journal, claim, live,
                                   delivered, unsent, crossed, starts, kills>>
  BY DEF Admit
<1>8. SenderTypes'
  <2>1. lockFile' \in [Paths -> 0 .. Cardinality(Runners)]
    BY <1>1, <1>2, <1>3, RunnersCounted DEF SenderTypes, SenderTypeOK
  <2> QED
    BY <1>1, <1>6, <1>7, <2>1 DEF SenderTypes, SenderTypeOK
<1>9. FlightsSound'
  <2>1. StagesSound'
    BY <1>1, <1>5, <1>6 DEF FlightsSound, StagesSound, Prepared
  <2>2. LocksOpen'
    <3>1. lockFile'[p] = g /\ \A q \in Paths \ {p} : lockFile'[q] = lockFile[q]
      BY <1>1, <1>3 DEF SenderTypes, SenderTypeOK
    <3>2. InFlight(r)' /\ runner'[r].gen # 0 /\ runner'[r].gen = lockFile'[runner'[r].path]
      BY <1>2, <1>5, <1>6, <3>1 DEF InFlight, At
    <3>3. \A o \in Runners \ {r} : InFlight(o) => runner[o].path \in Paths
      BY <1>1 DEF FlightsSound, StagesSound, InFlight, Locked, At
    <3>4. \A o \in Runners \ {r} : InFlight(o) => runner[o].gen = lockFile'[runner[o].path]
      BY <1>1, <1>2, <3>1, <3>3 DEF FlightsSound, LocksOpen
    <3> QED
      BY <1>1, <1>6, <3>2, <3>4 DEF FlightsSound, LocksOpen, InFlight, Locked, At
  <2>3. OneFlight'
    BY <1>1, <1>5, <1>6 DEF FlightsSound, OneFlight, Locked
  <2> QED
    BY <2>1, <2>2, <2>3 DEF FlightsSound
<1>10. ClaimsMutual' /\ EntriesWritten'
  <2>1. \A e \in Entries : claim[e] \in Runners \cup {NoRunner} /\ claim[e] # r
    BY <1>1, <1>7, UnclaimedByOne DEF SenderTypes, SenderTypeOK, Holding, At
  <2> QED
    BY <1>1, <1>5, <1>6, <1>7, <2>1 DEF ClaimsMutual, EntriesWritten, Holding, At
<1>11. SessionsApart' /\ UploadsSpared'
  BY <1>1, <1>5, <1>6, <1>7 DEF SessionsApart, UploadsSpared, At
<1>12. DropsHeld'
  BY <1>1, <1>2, <1>5, <1>6, <1>7 DEF DropsHeld, VersionsAge, DropsSealed, ParkedWasSent, Prepared, At
<1> QED
  BY <1>8, <1>9, <1>10, <1>11, <1>12 DEF SenderInv

LEMMA SingleFlightKeeps ==
  ASSUME SenderInv, NEW r \in Runners, SingleFlight(r)
  PROVE  SenderInv'
<1> DEFINE p == runner[r].path
           g == LockOf(p)
           x == [runner[r] EXCEPT !.pc = "opening", !.gen = g]
<1>1. /\ SenderTypes /\ FlightsSound /\ ClaimsMutual /\ EntriesWritten /\ SessionsApart
      /\ UploadsSpared /\ DropsHeld
  BY DEF SenderInv
<1>2. CASE Refuse(r) /\ UNCHANGED lockFile
  BY <1>2, RefuseKeeps DEF SingleFlight
<1>3. CASE OpenLock(r, runner[r]) /\ UNCHANGED <<journal, claim>>
  <2>1. p \in Paths /\ runner[r] \in RunnerRecords /\ runner[r].op # "ship" /\ At(r, "ready")
    BY <1>1 DEF SenderTypes, FlightsSound, StagesSound, SingleFlight, At
  <2>2. g \in 1 .. Cardinality(Runners) /\ (lockFile[p] # 0 => g = lockFile[p])
    BY <2>1, LockOpened
  <2>3. runner' = [runner EXCEPT ![r] = x] /\ lockFile' = [lockFile EXCEPT ![p] = g]
    BY <1>3 DEF OpenLock, Becomes
  <2> HIDE DEF g
  <2>4. x \in RunnerRecords
    <3>1. g \in 0 .. Cardinality(Runners) /\ "opening" \in Steps
      BY <2>2, RunnersCounted DEF Steps
    <3> QED
      BY <2>1, <3>1, RunnerEdits
  <2>5. /\ x.pc = "opening" /\ x.op # "ship" /\ x.path = p /\ x.gen = g
        /\ x.before = runner[r].before /\ x.http = runner[r].http /\ x.entry = runner[r].entry
    BY <2>1 DEF RunnerRecords
  <2> HIDE DEF x
  <2>6. /\ runner' \in [Runners -> RunnerRecords] /\ runner'[r] = x
        /\ \A o \in Runners \ {r} : runner'[o] = runner[o]
    BY <2>3, <2>4, OneRunner
  <2>7. UNCHANGED <<home, watching, content, writes, handed, journal, claim, live,
                    delivered, unsent, crossed, starts, kills>>
    BY <1>3 DEF SingleFlight
  <2>8. SenderTypes'
    <3>1. lockFile' \in [Paths -> 0 .. Cardinality(Runners)]
      BY <1>1, <2>1, <2>2, <2>3, RunnersCounted DEF SenderTypes, SenderTypeOK
    <3> QED
      BY <1>1, <2>6, <2>7, <3>1 DEF SenderTypes, SenderTypeOK
  <2>9. FlightsSound'
    <3>1. StagesSound'
      BY <1>1, <2>1, <2>5, <2>6 DEF FlightsSound, StagesSound, Prepared
    <3>2. LocksOpen'
      <4>1. lockFile'[p] = g /\ \A q \in Paths \ {p} : lockFile'[q] = lockFile[q]
        BY <1>1, <2>1, <2>3 DEF SenderTypes, SenderTypeOK
      <4>2. InFlight(r)' /\ runner'[r].gen # 0 /\ runner'[r].gen = lockFile'[runner'[r].path]
        BY <2>2, <2>5, <2>6, <4>1 DEF InFlight, At
      <4>3. \A o \in Runners \ {r} : InFlight(o) => runner[o].path \in Paths
        BY <1>1 DEF FlightsSound, StagesSound, InFlight, Locked, At
      <4>4. \A o \in Runners \ {r} : InFlight(o) => runner[o].gen = lockFile'[runner[o].path]
        BY <1>1, <2>2, <4>1, <4>3 DEF FlightsSound, LocksOpen
      <4> QED
        BY <1>1, <2>6, <4>2, <4>4 DEF FlightsSound, LocksOpen, InFlight, Locked, At
    <3>3. OneFlight'
      BY <1>1, <2>5, <2>6 DEF FlightsSound, OneFlight, Locked
    <3> QED
      BY <3>1, <3>2, <3>3 DEF FlightsSound
  <2>10. ClaimsMutual' /\ EntriesWritten'
    <3>1. \A e \in Entries : claim[e] \in Runners \cup {NoRunner}
      BY <1>1 DEF SenderTypes, SenderTypeOK
    <3> QED
      BY <1>1, <2>1, <2>5, <2>6, <2>7, <3>1 DEF ClaimsMutual, EntriesWritten, Holding, At
  <2>11. SessionsApart' /\ UploadsSpared'
    BY <1>1, <2>5, <2>6, <2>7 DEF SessionsApart, UploadsSpared, At
  <2>12. DropsHeld'
    BY <1>1, <2>1, <2>5, <2>6, <2>7 DEF DropsHeld, VersionsAge, DropsSealed, ParkedWasSent, Prepared, At
  <2> QED
    BY <2>8, <2>9, <2>10, <2>11, <2>12 DEF SenderInv
<1> QED
  BY <1>2, <1>3 DEF SingleFlight

\* A step of a flight that goes on under its lock.
LEMMA FlightGoesOn ==
  ASSUME SenderInv, NEW r \in Runners, NEW x \in RunnerRecords, runner' = [runner EXCEPT ![r] = x],
         lockFile' = lockFile, Locked(r), x.path = runner[r].path, x.gen = runner[r].gen, x.op = runner[r].op,
         x.pc \in {"admitted", "older", "prepare", "open", "begin", "upload", "park"},
         x.pc \in {"admitted", "older"} => x.op = "ship",
         x.pc \in Prepared => x.sent # 0
  PROVE  FlightsSound'
<1>1. StagesSound /\ LocksOpen /\ OneFlight
  BY DEF SenderInv, FlightsSound
<1>2. runner'[r] = x /\ \A o \in Runners \ {r} : runner'[o] = runner[o]
  BY OneRunner
<1>3. StagesSound'
  BY <1>1, <1>2 DEF StagesSound, Locked, Prepared
<1>4. LocksOpen'
  BY <1>1, <1>2 DEF LocksOpen, InFlight, Locked, At
<1>5. OneFlight'
  BY <1>1, <1>2 DEF OneFlight, Locked
<1> QED
  BY <1>3, <1>4, <1>5 DEF FlightsSound

\* A step of a runner that keeps its entry claimed.
LEMMA ClaimGoesOn ==
  ASSUME SenderInv, NEW r \in Runners, NEW x \in RunnerRecords, runner' = [runner EXCEPT ![r] = x],
         claim' = claim, Holding(r), x.entry = runner[r].entry,
         x.pc \in {"older", "prepare", "open", "begin", "upload"}
  PROVE  ClaimsMutual'
<1>1. ClaimsMutual /\ \A e \in Entries : claim[e] \in Runners \cup {NoRunner}
  BY DEF SenderInv, SenderTypes, SenderTypeOK
<1>2. runner'[r] = x /\ \A o \in Runners \ {r} : runner'[o] = runner[o]
  BY OneRunner
<1> QED
  BY <1>1, <1>2 DEF ClaimsMutual, Holding, At

\* A step of a runner without an entry.
LEMMA NoClaimGoesOn ==
  ASSUME SenderInv, NEW r \in Runners, NEW x \in RunnerRecords, runner' = [runner EXCEPT ![r] = x],
         claim' = claim, ~Holding(r),
         x.pc \in {"idle", "recheck", "admitted", "park", "cleanup"}
  PROVE  ClaimsMutual'
<1>1. ClaimsMutual /\ \A e \in Entries : claim[e] \in Runners \cup {NoRunner} /\ claim[e] # r
  BY UnclaimedByOne DEF SenderInv, SenderTypes, SenderTypeOK
<1>2. runner'[r] = x /\ \A o \in Runners \ {r} : runner'[o] = runner[o]
  BY OneRunner
<1> QED
  BY <1>1, <1>2 DEF ClaimsMutual, Holding, At

\* A step that leaves the versions of the drops as they are.
LEMMA DropsGoOn ==
  ASSUME SenderInv, NEW r \in Runners, NEW x \in RunnerRecords, runner' = [runner EXCEPT ![r] = x],
         content' = content, writes' = writes, delivered \subseteq delivered', unsent' = unsent,
         x.path \in Paths => x.before <= writes[x.path],
         x.pc \in Prepared /\ x.before # 0 /\ content[x.path] = x.before => x.sent = x.before,
         x.pc = "park" => <<x.path, x.sent>> \in delivered'
  PROVE  DropsHeld'
<1>1. VersionsAge /\ DropsSealed /\ ParkedWasSent
  BY DEF SenderInv, DropsHeld
<1>2. runner'[r] = x /\ \A o \in Runners \ {r} : runner'[o] = runner[o]
  BY OneRunner
<1>3. DropsSealed'
  BY <1>1, <1>2 DEF DropsSealed, At
<1> QED
  BY <1>1, <1>3 DEF DropsHeld, VersionsAge, ParkedWasSent

\* A step of a runner whose session, and whose stage of uploading, is as it was.
LEMMA SessionsGoOn ==
  ASSUME SenderInv, NEW r \in Runners, NEW x \in RunnerRecords, runner' = [runner EXCEPT ![r] = x],
         UNCHANGED <<journal, claim, crossed>>, x.http = runner[r].http \/ x.http = NoSession, x.pc # "upload"
  PROVE  EntriesWritten' /\ SessionsApart' /\ UploadsSpared'
<1>1. EntriesWritten /\ SessionsApart /\ UploadsSpared
  BY DEF SenderInv
<1>2. runner'[r] = x /\ \A o \in Runners \ {r} : runner'[o] = runner[o]
  BY OneRunner
<1> QED
  BY <1>1, <1>2 DEF EntriesWritten, SessionsApart, UploadsSpared, At

LEMMA LockFlightKeeps ==
  ASSUME SenderInv, NEW r \in Runners, LockFlight(r)
  PROVE  SenderInv'
<1> DEFINE step == IF runner[r].op = "ship" THEN "recheck" ELSE "prepare"
           x == [runner[r] EXCEPT !.pc = step]
           blocked == \E o \in Runners : Locked(o) /\ runner[o].path = runner[r].path
                                           /\ runner[o].gen = runner[r].gen
<1>1. CASE Refuse(r)
  BY <1>1, RefuseKeeps DEF LockFlight
<1>2. CASE ~blocked /\ Goes(r, step) /\ UNCHANGED <<journal, claim>>
  <2>1. SenderTypes /\ FlightsSound /\ ClaimsMutual /\ runner[r] \in RunnerRecords /\ At(r, "opening")
    BY DEF SenderInv, SenderTypes, LockFlight
  <2>2. runner' = [runner EXCEPT ![r] = x]
    BY <1>2, <2>1 DEF Goes, SenderTypes
  <2>3. x \in RunnerRecords
    BY <2>1, RunnerEdits DEF Steps
  <2>4. /\ x.pc = step /\ x.op = runner[r].op /\ x.path = runner[r].path /\ x.gen = runner[r].gen
        /\ x.before = runner[r].before /\ x.http = runner[r].http /\ x.entry = runner[r].entry
        /\ x.sent = runner[r].sent
    BY <2>1 DEF RunnerRecords
  <2> HIDE DEF x
  <2>5. /\ runner' \in [Runners -> RunnerRecords] /\ runner'[r] = x
        /\ \A o \in Runners \ {r} : runner'[o] = runner[o]
    BY <2>2, <2>3, OneRunner
  <2>6. UNCHANGED <<home, watching, content, writes, handed, lockFile, journal, claim, live,
                    delivered, unsent, crossed, starts, kills>>
    BY <1>2 DEF LockFlight
  <2>7. SenderTypes'
    BY <2>1, <2>5, <2>6 DEF SenderTypes, SenderTypeOK
  <2>8. FlightsSound'
    <3>1. StagesSound'
      BY <2>1, <2>4, <2>5 DEF FlightsSound, StagesSound, Prepared, At
    <3>2. LocksOpen'
      BY <2>1, <2>4, <2>5, <2>6 DEF FlightsSound, LocksOpen, InFlight, Locked, At
    <3>3. \A o \in Runners \ {r} : Locked(o) => runner[o].path # runner[r].path
      BY <1>2, <2>1 DEF FlightsSound, LocksOpen, InFlight
    <3>4. OneFlight'
      BY <2>1, <2>4, <2>5, <3>3 DEF FlightsSound, OneFlight, Locked
    <3> QED
      BY <3>1, <3>2, <3>4 DEF FlightsSound
  <2>9. ClaimsMutual'
    <3>1. \A e \in Entries : claim[e] \in Runners \cup {NoRunner}
      BY <2>1 DEF SenderTypes, SenderTypeOK
    <3> QED
      BY <2>1, <2>4, <2>5, <2>6, <3>1 DEF ClaimsMutual, Holding, At
  <2>10. EntriesWritten' /\ SessionsApart' /\ UploadsSpared'
    BY <2>2, <2>3, <2>4, <2>6, SessionsGoOn
  <2>11. DropsHeld'
    BY <2>1, <2>2, <2>3, <2>4, <2>6, DropsGoOn DEF SenderInv, DropsHeld, DropsSealed, Prepared
  <2> QED
    BY <2>7, <2>8, <2>9, <2>10, <2>11 DEF SenderInv
<1> QED
  BY <1>1, <1>2 DEF LockFlight

LEMMA RecheckKeeps ==
  ASSUME SenderInv, NEW r \in Runners, Recheck(r)
  PROVE  SenderInv'
<1> DEFINE x == [runner[r] EXCEPT !.pc = "admitted"]
           heard == [handed EXCEPT ![home[r]][runner[r].path] = runner[r].before]
<1>1. CASE ~watching
  BY <1>1, LetGoKeeps DEF Recheck, Holding, At
<1>2. CASE watching
  <2>1. /\ SenderTypes /\ FlightsSound /\ ClaimsMutual /\ runner[r] \in RunnerRecords /\ At(r, "recheck")
        /\ Locked(r) /\ ~Holding(r) /\ runner[r].path \in Paths /\ runner[r].op = "ship"
    BY DEF SenderInv, SenderTypes, Recheck, FlightsSound, StagesSound, Locked, Holding, At
  <2>2. runner' = [runner EXCEPT ![r] = x] /\ handed' = heard
    BY <1>2, <2>1 DEF Recheck, Goes, SenderTypes
  <2>3. x \in RunnerRecords
    BY <2>1, RunnerEdits DEF Steps
  <2>4. /\ x.pc = "admitted" /\ x.op = runner[r].op /\ x.path = runner[r].path /\ x.gen = runner[r].gen
        /\ x.before = runner[r].before /\ x.http = runner[r].http
    BY <2>1 DEF RunnerRecords
  <2> HIDE DEF x
  <2>5. UNCHANGED <<home, watching, content, writes, lockFile, journal, claim, live,
                    delivered, unsent, crossed, starts, kills>>
    BY <1>2 DEF Recheck
  <2>6. SenderTypes'
    <3>1. handed' \in [Processes -> [Paths -> Versions]]
      <4>1. home[r] \in Processes /\ runner[r].before \in Versions /\ handed[home[r]] \in [Paths -> Versions]
        BY <2>1 DEF SenderTypes, SenderTypeOK, RunnerRecords
      <4>2. [handed[home[r]] EXCEPT ![runner[r].path] = runner[r].before] \in [Paths -> Versions]
        BY <2>1, <4>1
      <4>3. handed' = [handed EXCEPT ![home[r]] = [handed[home[r]] EXCEPT ![runner[r].path] = runner[r].before]]
        BY <2>1, <2>2, <4>1 DEF SenderTypes, SenderTypeOK
      <4> QED
        BY <2>1, <4>1, <4>2, <4>3 DEF SenderTypes, SenderTypeOK
    <3> HIDE DEF heard
    <3> QED
      BY <2>1, <2>2, <2>3, <2>5, <3>1, OneRunner DEF SenderTypes, SenderTypeOK
  <2>7. FlightsSound'
    BY <2>1, <2>2, <2>3, <2>4, <2>5, FlightGoesOn DEF Prepared
  <2>8. ClaimsMutual'
    BY <2>1, <2>2, <2>3, <2>4, <2>5, NoClaimGoesOn
  <2>9. EntriesWritten' /\ SessionsApart' /\ UploadsSpared'
    BY <2>2, <2>3, <2>4, <2>5, SessionsGoOn
  <2>10. DropsHeld'
    BY <2>1, <2>2, <2>3, <2>4, <2>5, DropsGoOn DEF SenderInv, DropsHeld, DropsSealed, Prepared
  <2> QED
    BY <2>6, <2>7, <2>8, <2>9, <2>10 DEF SenderInv
<1> QED
  BY <1>1, <1>2

LEMMA ShipKeeps ==
  ASSUME SenderInv, NEW r \in Runners, NEW e \in Entries, Ship(r, e)
  PROVE  SenderInv'
<1> DEFINE old == {o \in Entries : journal[o].path = runner[r].path /\ Pending(o)}
           x == [runner[r] EXCEPT !.pc = "older", !.entry = e, !.older = old]
           k == [Unwritten EXCEPT !.path = runner[r].path]
<1>1. /\ SenderTypes /\ FlightsSound /\ ClaimsMutual /\ EntriesWritten /\ SessionsApart /\ UploadsSpared
      /\ DropsHeld /\ runner[r] \in RunnerRecords /\ At(r, "admitted") /\ Locked(r)
      /\ runner[r].path \in Paths /\ runner[r].op = "ship"
      /\ claim[e] = NoRunner /\ journal[e] = Unwritten
  BY DEF SenderInv, SenderTypes, Ship, Fresh, FlightsSound, StagesSound, Locked, At
<1>2. /\ runner' = [runner EXCEPT ![r] = x] /\ claim' = [claim EXCEPT ![e] = r]
      /\ journal' = [journal EXCEPT ![e] = k]
  BY <1>1 DEF Ship, Write, SenderTypes
<1>3. x \in RunnerRecords
  <2>1. old \in SUBSET Entries
    OBVIOUS
  <2> HIDE DEF old
  <2> QED
    BY <1>1, <2>1, RunnerEdits DEF Steps
<1>4. /\ x.pc = "older" /\ x.op = runner[r].op /\ x.path = runner[r].path /\ x.gen = runner[r].gen
      /\ x.before = runner[r].before /\ x.http = runner[r].http /\ x.entry = e
  BY <1>1 DEF RunnerRecords
<1>5. k \in JournalRecords /\ k.http = NoSession /\ k.path = runner[r].path
  BY <1>1, JournalEdits, IdleIsOne DEF Unwritten
<1> HIDE DEF x, k, old
<1>6. /\ runner' \in [Runners -> RunnerRecords] /\ runner'[r] = x
      /\ \A o \in Runners \ {r} : runner'[o] = runner[o]
  BY <1>2, <1>3, OneRunner
<1>7. UNCHANGED <<home, watching, content, writes, handed, lockFile, live, delivered, unsent, crossed,
                  starts, kills>>
  BY DEF Ship
<1>8. /\ claim' \in [Entries -> Runners \cup {NoRunner}] /\ journal' \in [Entries -> JournalRecords]
      /\ claim'[e] = r /\ journal'[e] = k
      /\ \A f \in Entries \ {e} : claim'[f] = claim[f] /\ journal'[f] = journal[f]
  BY <1>1, <1>2, <1>5 DEF SenderTypes, SenderTypeOK, JournalRecords
<1>9. SenderTypes'
  BY <1>1, <1>6, <1>7, <1>8 DEF SenderTypes, SenderTypeOK, JournalRecords
<1>10. FlightsSound'
  BY <1>1, <1>2, <1>3, <1>4, <1>7, FlightGoesOn DEF Prepared
<1>11. ClaimsMutual'
  <2>1. \A f \in Entries : claim[f] \in Runners \cup {NoRunner} /\ claim[f] # r
    BY <1>1, UnclaimedByOne DEF SenderTypes, SenderTypeOK, Holding, At
  <2> QED
    BY <1>1, <1>4, <1>6, <1>8, <2>1, SenderAssumption DEF ClaimsMutual, Holding, At
<1>12. EntriesWritten'
  BY <1>1, <1>5, <1>8, SenderAssumption DEF EntriesWritten
<1>13. SessionsApart'
  BY <1>1, <1>4, <1>5, <1>6, <1>8 DEF SessionsApart
<1>14. UploadsSpared'
  <2>1. \A o \in Runners : At(o, "upload") => runner[o].entry \in Entries \ {e}
    BY <1>1, SenderAssumption DEF ClaimsMutual, Holding, At
  <2> QED
    BY <1>1, <1>4, <1>6, <1>7, <1>8, <2>1 DEF UploadsSpared, At
<1>15. DropsHeld'
  BY <1>1, <1>2, <1>3, <1>4, <1>7, DropsGoOn DEF SenderInv, DropsHeld, DropsSealed, Prepared
<1> QED
  BY <1>9, <1>10, <1>11, <1>12, <1>13, <1>14, <1>15 DEF SenderInv

LEMMA ForgetOlderKeeps ==
  ASSUME SenderInv, NEW r \in Runners, NEW o \in Entries, ForgetOlder(r, o)
  PROVE  SenderInv'
<1> DEFINE x == [runner[r] EXCEPT !.older = runner[r].older \ {o}]
<1>1. /\ SenderTypes /\ FlightsSound /\ ClaimsMutual /\ EntriesWritten /\ SessionsApart /\ UploadsSpared
      /\ DropsHeld /\ runner[r] \in RunnerRecords /\ At(r, "older") /\ Locked(r) /\ Holding(r)
      /\ runner[r].op = "ship"
  BY DEF SenderInv, SenderTypes, ForgetOlder, FlightsSound, StagesSound, Locked, Holding, At
<1>2. runner' = [runner EXCEPT ![r] = x]
  BY <1>1 DEF ForgetOlder, SenderTypes
<1>3. x \in RunnerRecords
  BY <1>1, RunnerEdits DEF RunnerRecords
<1>4. /\ x.pc = "older" /\ x.op = runner[r].op /\ x.path = runner[r].path /\ x.gen = runner[r].gen
      /\ x.before = runner[r].before /\ x.http = runner[r].http /\ x.entry = runner[r].entry
  BY <1>1 DEF RunnerRecords, At
<1> HIDE DEF x
<1>5. /\ runner' \in [Runners -> RunnerRecords] /\ runner'[r] = x
      /\ \A c \in Runners \ {r} : runner'[c] = runner[c]
  BY <1>2, <1>3, OneRunner
<1>6. UNCHANGED <<home, watching, content, writes, handed, lockFile, claim, delivered, unsent, starts, kills>>
  BY DEF ForgetOlder
<1>7. FlightsSound' /\ ClaimsMutual'
  BY <1>1, <1>2, <1>3, <1>4, <1>6, FlightGoesOn, ClaimGoesOn DEF Prepared
<1>8. DropsHeld'
  BY <1>1, <1>2, <1>3, <1>4, <1>6, DropsGoOn DEF SenderInv, DropsHeld, DropsSealed, Prepared
<1>9. CASE UNCHANGED <<journal, live, crossed>>
  <2>1. SenderTypes'
    BY <1>1, <1>5, <1>6, <1>9 DEF SenderTypes, SenderTypeOK
  <2>2. EntriesWritten' /\ SessionsApart' /\ UploadsSpared'
    BY <1>2, <1>3, <1>4, <1>6, <1>9, SessionsGoOn
  <2> QED
    BY <1>7, <1>8, <2>1, <2>2 DEF SenderInv
<1>10. CASE Pending(o) /\ Abort(r, journal[o].http) /\ journal' = [journal EXCEPT ![o] = Unwritten]
  <2>1. claim[o] = NoRunner /\ ~crossed' /\ crossed' \in BOOLEAN /\ live' \subseteq HttpSessions
    BY <1>10, AbortsUnclaimed DEF Pending
  <2>2. /\ journal' \in [Entries -> JournalRecords] /\ journal'[o] = Unwritten
        /\ \A f \in Entries \ {o} : journal'[f] = journal[f]
    BY <1>1, <1>10, IdleIsOne DEF SenderTypes, SenderTypeOK, JournalRecords
  <2>3. SenderTypes'
    BY <1>1, <1>5, <1>6, <2>1, <2>2 DEF SenderTypes, SenderTypeOK, JournalRecords
  <2>4. EntriesWritten'
    BY <1>1, <1>6, <2>1, <2>2 DEF EntriesWritten
  <2>5. SessionsApart'
    BY <1>1, <1>4, <1>5, <1>6, <2>2 DEF SessionsApart, Unwritten
  <2>6. UploadsSpared'
    <3>1. \A c \in Runners : At(c, "upload") => runner[c].entry \in Entries \ {o}
      BY <1>1, <2>1, SenderAssumption DEF ClaimsMutual, Holding, At
    <3> QED
      BY <1>1, <1>4, <1>5, <2>1, <2>2, <3>1 DEF UploadsSpared, At
  <2> QED
    BY <1>7, <1>8, <2>3, <2>4, <2>5, <2>6 DEF SenderInv
<1> QED
  BY <1>9, <1>10 DEF ForgetOlder

LEMMA FingerprintKeeps ==
  ASSUME SenderInv, NEW r \in Runners, Fingerprint(r)
  PROVE  SenderInv'
<1> DEFINE v == content[runner[r].path]
           x == [runner[r] EXCEPT !.pc = "prepare", !.before = v]
<1>1. /\ SenderTypes /\ FlightsSound /\ ClaimsMutual /\ EntriesWritten /\ SessionsApart /\ UploadsSpared
      /\ DropsHeld /\ runner[r] \in RunnerRecords /\ At(r, "older") /\ Locked(r) /\ Holding(r)
      /\ runner[r].path \in Paths
  BY DEF SenderInv, SenderTypes, Fingerprint, FlightsSound, StagesSound, Locked, Holding, At
<1>2. runner' = [runner EXCEPT ![r] = x]
  BY <1>1 DEF Fingerprint, SenderTypes
<1>3. v \in Versions /\ v <= writes[runner[r].path]
  BY <1>1 DEF SenderTypes, SenderTypeOK, DropsHeld, VersionsAge
<1> HIDE DEF v
<1>4. x \in RunnerRecords
  BY <1>1, <1>3, RunnerEdits DEF Steps
<1>5. /\ x.pc = "prepare" /\ x.op = runner[r].op /\ x.path = runner[r].path /\ x.gen = runner[r].gen
      /\ x.before = v /\ x.http = runner[r].http /\ x.entry = runner[r].entry
  BY <1>1 DEF RunnerRecords, At
<1> HIDE DEF x
<1>6. UNCHANGED <<home, watching, content, writes, handed, lockFile, journal, claim, live, delivered,
                  unsent, crossed, starts, kills>>
  BY DEF Fingerprint
<1>7. SenderTypes'
  BY <1>1, <1>2, <1>4, <1>6, OneRunner DEF SenderTypes, SenderTypeOK
<1>8. FlightsSound' /\ ClaimsMutual'
  BY <1>1, <1>2, <1>4, <1>5, <1>6, FlightGoesOn, ClaimGoesOn DEF Prepared
<1>9. EntriesWritten' /\ SessionsApart' /\ UploadsSpared'
  BY <1>2, <1>4, <1>5, <1>6, SessionsGoOn
<1>10. DropsHeld'
  BY <1>2, <1>3, <1>4, <1>5, <1>6, DropsGoOn DEF Prepared
<1> QED
  BY <1>7, <1>8, <1>9, <1>10 DEF SenderInv

\* The flights while a runner outside of one stays outside.
LEMMA GroundGoesOn ==
  ASSUME SenderInv, NEW r \in Runners, NEW x \in RunnerRecords, runner' = [runner EXCEPT ![r] = x],
         lockFile' = lockFile, x.pc \in {"ready", "cleanup"}, x.gen = 0,
         x.pc = "ready" => x.path \in Paths /\ x.op # "ship"
  PROVE  FlightsSound'
<1>1. StagesSound /\ LocksOpen /\ OneFlight
  BY DEF SenderInv, FlightsSound
<1>2. runner'[r] = x /\ \A o \in Runners \ {r} : runner'[o] = runner[o]
  BY OneRunner
<1>3. StagesSound'
  BY <1>1, <1>2 DEF StagesSound, Prepared
<1>4. LocksOpen'
  BY <1>1, <1>2 DEF LocksOpen, InFlight, Locked, At
<1>5. OneFlight'
  BY <1>1, <1>2 DEF OneFlight, Locked
<1> QED
  BY <1>3, <1>4, <1>5 DEF FlightsSound

\* StartSend and StartResume: an idle runner takes the claim of an entry.
LEMMA ClaimTaken ==
  ASSUME SenderInv, NEW r \in Runners, NEW x \in RunnerRecords, runner' = [runner EXCEPT ![r] = x],
         NEW e \in Entries, At(r, "idle"), claim[e] = NoRunner, claim' = [claim EXCEPT ![e] = r],
         x.pc = "ready", x.entry = e
  PROVE  /\ claim' \in [Entries -> Runners \cup {NoRunner}] /\ claim'[e] = r
         /\ \A f \in Entries \ {e} : claim'[f] = claim[f]
         /\ \A f \in Entries : claim[f] # r
         /\ ClaimsMutual'
<1>1. ClaimsMutual /\ claim \in [Entries -> Runners \cup {NoRunner}]
  BY DEF SenderInv, SenderTypes, SenderTypeOK
<1>2. runner'[r] = x /\ \A o \in Runners \ {r} : runner'[o] = runner[o]
  BY OneRunner
<1>3. \A f \in Entries : claim[f] # r
  BY UnclaimedByOne DEF Holding, At
<1>4. /\ claim' \in [Entries -> Runners \cup {NoRunner}] /\ claim'[e] = r
      /\ \A f \in Entries \ {e} : claim'[f] = claim[f]
  BY <1>1
<1>5. ClaimsMutual'
  BY <1>1, <1>2, <1>3, <1>4, SenderAssumption DEF ClaimsMutual, Holding, At
<1> QED
  BY <1>3, <1>4, <1>5

LEMMA StartSendKeeps ==
  ASSUME SenderInv, NEW r \in Runners, NEW p \in Paths, NEW e \in Entries, StartSend(r, p, e)
  PROVE  SenderInv'
<1> DEFINE x == [Idle EXCEPT !.pc = "ready", !.op = "send", !.path = p, !.entry = e]
           k == [Unwritten EXCEPT !.path = p]
<1>1. /\ SenderTypes /\ ClaimsMutual /\ EntriesWritten /\ SessionsApart /\ UploadsSpared /\ At(r, "idle")
      /\ claim[e] = NoRunner /\ journal[e] = Unwritten
  BY DEF SenderInv, StartSend, Fresh
<1>2. /\ runner' = [runner EXCEPT ![r] = x] /\ claim' = [claim EXCEPT ![e] = r]
      /\ journal' = [journal EXCEPT ![e] = k]
  BY DEF StartSend, Write, Becomes
<1>3. x \in RunnerRecords
  BY IdleIsOne DEF RunnerRecords, Steps
<1>4. /\ x.pc = "ready" /\ x.op = "send" /\ x.path = p /\ x.gen = 0 /\ x.before = 0
      /\ x.http = NoSession /\ x.entry = e
  BY DEF Idle
<1>5. k \in JournalRecords /\ k.http = NoSession /\ k.path = p
  BY JournalEdits, IdleIsOne DEF Unwritten
<1> HIDE DEF x, k
<1>6. /\ runner' \in [Runners -> RunnerRecords] /\ runner'[r] = x
      /\ \A o \in Runners \ {r} : runner'[o] = runner[o]
  BY <1>2, <1>3, OneRunner
<1>7. UNCHANGED <<home, watching, content, writes, handed, lockFile, live, delivered, unsent, crossed, kills>>
      /\ starts > 0 /\ starts' = starts - 1
  BY DEF StartSend, Starts
<1>8. /\ claim' \in [Entries -> Runners \cup {NoRunner}] /\ claim'[e] = r
      /\ \A f \in Entries \ {e} : claim'[f] = claim[f]
      /\ ClaimsMutual'
  BY <1>1, <1>2, <1>3, <1>4, ClaimTaken
<1>9. /\ journal' \in [Entries -> JournalRecords] /\ journal'[e] = k
      /\ \A f \in Entries \ {e} : journal'[f] = journal[f]
  BY <1>1, <1>2, <1>5 DEF SenderTypes, SenderTypeOK, JournalRecords
<1>10. SenderTypes'
  BY <1>1, <1>6, <1>7, <1>8, <1>9 DEF SenderTypes, SenderTypeOK, JournalRecords
<1>11. FlightsSound'
  BY <1>2, <1>3, <1>4, <1>7, GroundGoesOn
<1>12. EntriesWritten'
  BY <1>1, <1>5, <1>8, <1>9, SenderAssumption DEF EntriesWritten
<1>13. SessionsApart'
  BY <1>1, <1>4, <1>5, <1>6, <1>8, <1>9 DEF SessionsApart
<1>14. UploadsSpared'
  <2>1. \A o \in Runners : At(o, "upload") => runner[o].entry \in Entries \ {e}
    BY <1>1, SenderAssumption DEF ClaimsMutual, Holding, At
  <2> QED
    BY <1>1, <1>4, <1>6, <1>7, <1>9, <2>1 DEF UploadsSpared, At
<1>15. DropsHeld'
  <2>1. 0 <= writes[p]
    BY <1>1 DEF SenderTypes, SenderTypeOK, Versions
  <2> QED
    BY <1>2, <1>3, <1>4, <1>7, <2>1, DropsGoOn DEF Prepared
<1> QED
  BY <1>8, <1>10, <1>11, <1>12, <1>13, <1>14, <1>15 DEF SenderInv

LEMMA StartResumeKeeps ==
  ASSUME SenderInv, NEW r \in Runners, NEW e \in Entries, StartResume(r, e)
  PROVE  SenderInv'
<1> DEFINE p == journal[e].path
           v == content[p]
           s == journal[e].http
           b == s # NoSession
           x == [Idle EXCEPT !.pc = "ready", !.op = "resume", !.path = p, !.entry = e, !.before = v,
                             !.http = s, !.resumed = b]
<1>1. /\ SenderTypes /\ ClaimsMutual /\ EntriesWritten /\ SessionsApart /\ UploadsSpared /\ At(r, "idle")
      /\ claim[e] = NoRunner /\ journal[e] # Unwritten
  BY DEF SenderInv, StartResume, Pending
<1>2. runner' = [runner EXCEPT ![r] = x] /\ claim' = [claim EXCEPT ![e] = r]
  BY DEF StartResume, Becomes
<1>3. p \in Paths /\ s \in HttpSessions \cup {NoSession} /\ b \in BOOLEAN
  BY <1>1 DEF SenderTypes, SenderTypeOK, EntriesWritten
<1>4. v \in Versions /\ v <= writes[p]
  <2>1. v \in Versions
    BY <1>1, <1>3 DEF SenderTypes, SenderTypeOK
  <2>2. v <= writes[p]
    BY <1>3 DEF SenderInv, DropsHeld, VersionsAge
  <2> QED
    BY <2>1, <2>2
<1>5. s = journal[e].http
  OBVIOUS
<1> HIDE DEF p, v, s, b
<1>6. x \in RunnerRecords
  BY <1>3, <1>4, IdleIsOne DEF RunnerRecords, Steps
<1>7. /\ x.pc = "ready" /\ x.op = "resume" /\ x.path = p /\ x.gen = 0 /\ x.before = v
      /\ x.http = s /\ x.entry = e
  BY DEF Idle
<1> HIDE DEF x
<1>8. /\ runner' \in [Runners -> RunnerRecords] /\ runner'[r] = x
      /\ \A o \in Runners \ {r} : runner'[o] = runner[o]
  BY <1>2, <1>6, OneRunner
<1>9. UNCHANGED <<home, watching, content, writes, handed, lockFile, journal, live, delivered, unsent,
                  crossed, kills>>
      /\ starts > 0 /\ starts' = starts - 1
  BY DEF StartResume, Starts
<1>10. /\ claim' \in [Entries -> Runners \cup {NoRunner}] /\ claim'[e] = r
       /\ \A f \in Entries \ {e} : claim'[f] = claim[f]
       /\ ClaimsMutual'
  BY <1>1, <1>2, <1>6, <1>7, ClaimTaken
<1>11. SenderTypes'
  BY <1>1, <1>8, <1>9, <1>10 DEF SenderTypes, SenderTypeOK
<1>12. FlightsSound'
  BY <1>2, <1>3, <1>6, <1>7, <1>9, GroundGoesOn
<1>13. EntriesWritten'
  <2>1. journal[e].path \in Paths
    BY <1>3 DEF p
  <2> QED
    BY <1>1, <1>9, <1>10, <2>1 DEF EntriesWritten
<1>14. SessionsApart'
  <2>1. \A o \in Runners : runner[o].http = s /\ s # NoSession => FALSE
    BY <1>1, <1>5, SenderAssumption DEF SessionsApart
  <2>2. \A f \in Entries \ {e} : journal[f].http = s => s = NoSession
    BY <1>1, <1>5 DEF SessionsApart
  <2>3. \A c, o \in Runners : c # o /\ runner'[c].http = runner'[o].http => runner'[c].http = NoSession
    BY <1>1, <1>7, <1>8, <2>1 DEF SessionsApart
  <2>4. \A c \in Runners, f \in Entries :
          journal[f].http = runner'[c].http /\ journal[f].http # NoSession => claim'[f] = c
    BY <1>1, <1>5, <1>7, <1>8, <1>10, <2>1, <2>2 DEF SessionsApart
  <2> QED
    BY <1>1, <1>9, <2>3, <2>4 DEF SessionsApart
<1>15. UploadsSpared'
  BY <1>1, <1>7, <1>8, <1>9 DEF UploadsSpared, At
<1>16. DropsHeld'
  BY <1>2, <1>4, <1>6, <1>7, <1>9, DropsGoOn DEF Prepared
<1> QED
  BY <1>10, <1>11, <1>12, <1>13, <1>14, <1>15, <1>16 DEF SenderInv

\* An entry that nobody holds is forgotten.
LEMMA Unwrites ==
  ASSUME SenderInv, NEW e \in Entries, claim[e] = NoRunner, journal' = [journal EXCEPT ![e] = Unwritten]
  PROVE  /\ journal' \in [Entries -> JournalRecords] /\ journal'[e] = Unwritten
         /\ \A f \in Entries \ {e} : journal'[f] = journal[f]
         /\ \A o \in Runners : At(o, "upload") => journal'[runner[o].entry] = journal[runner[o].entry]
<1>1. SenderTypes /\ ClaimsMutual
  BY DEF SenderInv
<1>2. /\ journal' \in [Entries -> JournalRecords] /\ journal'[e] = Unwritten
      /\ \A f \in Entries \ {e} : journal'[f] = journal[f]
  BY <1>1, IdleIsOne DEF SenderTypes, SenderTypeOK, JournalRecords
<1>3. \A o \in Runners : At(o, "upload") => runner[o].entry \in Entries \ {e}
  BY <1>1, SenderAssumption DEF ClaimsMutual, Holding, At
<1> QED
  BY <1>2, <1>3

LEMMA ForgetKeeps ==
  ASSUME SenderInv, NEW r \in Runners, NEW e \in Entries, Forget(r, e)
  PROVE  SenderInv'
<1> DEFINE s == journal[e].http
           x == [Idle EXCEPT !.pc = "cleanup", !.http = s]
<1>1. /\ SenderTypes /\ ClaimsMutual /\ EntriesWritten /\ SessionsApart /\ UploadsSpared /\ At(r, "idle")
      /\ claim[e] = NoRunner
  BY DEF SenderInv, Forget, Pending
<1>2. runner' = [runner EXCEPT ![r] = x] /\ journal' = [journal EXCEPT ![e] = Unwritten]
  BY DEF Forget, Becomes
<1>3. s \in HttpSessions \cup {NoSession} /\ s = journal[e].http
  BY <1>1 DEF SenderTypes, SenderTypeOK
<1> HIDE DEF s
<1>4. x \in RunnerRecords
  BY <1>3, IdleIsOne DEF RunnerRecords, Steps
<1>5. x.pc = "cleanup" /\ x.path = NoPath /\ x.gen = 0 /\ x.http = s
  BY DEF Idle
<1> HIDE DEF x
<1>6. /\ runner' \in [Runners -> RunnerRecords] /\ runner'[r] = x
      /\ \A o \in Runners \ {r} : runner'[o] = runner[o]
  BY <1>2, <1>4, OneRunner
<1>7. UNCHANGED <<home, watching, content, writes, handed, lockFile, claim, live, delivered, unsent,
                  crossed, kills>>
      /\ starts > 0 /\ starts' = starts - 1
  BY DEF Forget, Starts
<1>8. /\ journal' \in [Entries -> JournalRecords] /\ journal'[e] = Unwritten
      /\ \A f \in Entries \ {e} : journal'[f] = journal[f]
      /\ \A o \in Runners : At(o, "upload") => journal'[runner[o].entry] = journal[runner[o].entry]
  BY <1>1, <1>2, Unwrites
<1>9. SenderTypes'
  BY <1>1, <1>6, <1>7, <1>8 DEF SenderTypes, SenderTypeOK, JournalRecords
<1>10. FlightsSound'
  BY <1>2, <1>4, <1>5, <1>7, GroundGoesOn
<1>11. ClaimsMutual'
  BY <1>1, <1>2, <1>4, <1>5, <1>7, NoClaimGoesOn DEF Holding, At
<1>12. EntriesWritten'
  BY <1>1, <1>7, <1>8 DEF EntriesWritten
<1>13. SessionsApart'
  <2>1. \A o \in Runners : runner[o].http = s /\ s # NoSession => FALSE
    BY <1>1, <1>3, SenderAssumption DEF SessionsApart
  <2>2. \A f \in Entries \ {e} : journal[f].http = s => s = NoSession
    BY <1>1, <1>3 DEF SessionsApart
  <2>3. journal'[e].http = NoSession
    BY <1>8 DEF Unwritten
  <2>4. \A c, o \in Runners : c # o /\ runner'[c].http = runner'[o].http => runner'[c].http = NoSession
    BY <1>1, <1>5, <1>6, <2>1 DEF SessionsApart
  <2>5. \A f, g \in Entries : f # g /\ journal'[f].http = journal'[g].http => journal'[f].http = NoSession
    BY <1>1, <1>8, <2>3 DEF SessionsApart
  <2>6. \A c \in Runners, f \in Entries :
          journal'[f].http = runner'[c].http /\ journal'[f].http # NoSession => claim[f] = c
    BY <1>1, <1>5, <1>6, <1>8, <2>2, <2>3 DEF SessionsApart
  <2> QED
    BY <1>7, <2>4, <2>5, <2>6 DEF SessionsApart
<1>14. UploadsSpared'
  BY <1>1, <1>5, <1>6, <1>7, <1>8 DEF UploadsSpared, At
<1>15. DropsHeld'
  BY <1>2, <1>4, <1>5, <1>7, DropsGoOn, SenderAssumption DEF Prepared
<1> QED
  BY <1>9, <1>10, <1>11, <1>12, <1>13, <1>14, <1>15 DEF SenderInv

LEMMA AbandonKeeps ==
  ASSUME SenderInv, NEW e \in Entries, Abandon(e)
  PROVE  SenderInv'
<1>1. /\ SenderTypes /\ FlightsSound /\ ClaimsMutual /\ EntriesWritten /\ SessionsApart /\ UploadsSpared
      /\ DropsHeld /\ claim[e] = NoRunner
  BY DEF SenderInv, Abandon, Pending
<1>2. UNCHANGED <<home, watching, content, writes, handed, lockFile, claim, live, runner, delivered, unsent,
                  crossed, starts, kills>>
  BY DEF Abandon
<1>3. /\ journal' \in [Entries -> JournalRecords] /\ journal'[e] = Unwritten
      /\ \A f \in Entries \ {e} : journal'[f] = journal[f]
      /\ \A o \in Runners : At(o, "upload") => journal'[runner[o].entry] = journal[runner[o].entry]
  BY <1>1, Unwrites DEF Abandon
<1>4. SenderTypes'
  BY <1>1, <1>2, <1>3 DEF SenderTypes, SenderTypeOK, JournalRecords
<1>5. FlightsSound'
  BY <1>1, <1>2 DEF FlightsSound, StagesSound, LocksOpen, OneFlight, InFlight, Locked, At
<1>6. ClaimsMutual' /\ EntriesWritten'
  BY <1>1, <1>2, <1>3 DEF ClaimsMutual, EntriesWritten, Holding, At
<1>7. SessionsApart'
  BY <1>1, <1>2, <1>3 DEF SessionsApart, Unwritten
<1>8. UploadsSpared'
  BY <1>1, <1>2, <1>3 DEF UploadsSpared, At
<1>9. DropsHeld'
  BY <1>1, <1>2 DEF DropsHeld, VersionsAge, DropsSealed, ParkedWasSent, At
<1> QED
  BY <1>4, <1>5, <1>6, <1>7, <1>8, <1>9 DEF SenderInv

LEMMA PrepareKeeps ==
  ASSUME SenderInv, NEW r \in Runners, Prepare(r)
  PROVE  SenderInv'
<1> DEFINE now == content[runner[r].path]
           step == IF runner[r].resumed THEN "begin" ELSE "open"
           x == [runner[r] EXCEPT !.pc = step, !.sent = now]
<1>1. /\ SenderTypes /\ runner[r] \in RunnerRecords /\ At(r, "prepare") /\ Locked(r) /\ Holding(r)
      /\ runner[r].path \in Paths
  BY DEF SenderInv, SenderTypes, Prepare, FlightsSound, StagesSound, Locked, Holding, At
<1>2. CASE Fail(r, "retry") \/ Fail(r, "changed")
  BY <1>1, <1>2, FailKeeps DEF Prepare
<1>3. CASE now # 0 /\ runner' = [runner EXCEPT ![r].pc = step, ![r].sent = now]
           /\ UNCHANGED <<journal, claim, live, crossed>>
  <2>1. runner' = [runner EXCEPT ![r] = x]
    BY <1>1, <1>3 DEF SenderTypes
  <2>2. now \in Versions /\ now # 0 /\ step \in {"begin", "open"}
    BY <1>1, <1>3 DEF SenderTypes, SenderTypeOK
  <2>3. now = content[runner[r].path]
    OBVIOUS
  <2> HIDE DEF now, step
  <2>4. x \in RunnerRecords
    BY <1>1, <2>2, RunnerEdits DEF Steps
  <2>5. /\ x.pc = step /\ x.op = runner[r].op /\ x.path = runner[r].path /\ x.gen = runner[r].gen
        /\ x.before = runner[r].before /\ x.http = runner[r].http /\ x.entry = runner[r].entry /\ x.sent = now
    BY <1>1 DEF RunnerRecords
  <2> HIDE DEF x
  <2>6. UNCHANGED <<home, watching, content, writes, handed, lockFile, journal, claim, live, delivered,
                    unsent, crossed, starts, kills>>
    BY <1>3 DEF Prepare
  <2>7. SenderTypes'
    BY <1>1, <2>1, <2>4, <2>6, OneRunner DEF SenderTypes, SenderTypeOK
  <2>8. FlightsSound' /\ ClaimsMutual'
    BY <1>1, <2>1, <2>2, <2>4, <2>5, <2>6, FlightGoesOn, ClaimGoesOn
  <2>9. EntriesWritten' /\ SessionsApart' /\ UploadsSpared'
    BY <2>1, <2>2, <2>4, <2>5, <2>6, SessionsGoOn
  <2>10. DropsHeld'
    <3>1. runner[r].path \in Paths => runner[r].before <= writes[runner[r].path]
      BY DEF SenderInv, DropsHeld, DropsSealed
    <3> QED
      BY <2>1, <2>2, <2>3, <2>4, <2>5, <2>6, <3>1, DropsGoOn
  <2> QED
    BY <2>7, <2>8, <2>9, <2>10 DEF SenderInv
<1> QED
  BY <1>2, <1>3 DEF Prepare

\* Push and Finish: the send ended well.
LEMMA SentKeeps ==
  ASSUME SenderInv, NEW r \in Runners, runner[r].pc \in {"open", "upload"}, Sent(r), live' \subseteq live,
         UNCHANGED <<home, watching, content, writes, handed, lockFile, unsent, crossed, starts, kills>>
  PROVE  SenderInv'
<1> DEFINE e == runner[r].entry
           x == [runner[r] EXCEPT !.pc = "park", !.entry = NoEntry, !.http = NoSession]
<1>1. /\ SenderTypes /\ FlightsSound /\ ClaimsMutual /\ EntriesWritten /\ SessionsApart /\ UploadsSpared
      /\ DropsHeld /\ runner[r] \in RunnerRecords /\ Locked(r) /\ Holding(r)
      /\ runner[r].path \in Paths /\ runner[r].sent # 0 /\ runner[r].pc \in Prepared
  BY DEF SenderInv, SenderTypes, FlightsSound, StagesSound, Locked, Holding, At, Prepared
<1>2. e \in Entries /\ \A f \in Entries : claim[f] = r <=> f = e
  BY <1>1, ClaimsOfOne
<1>3. /\ runner' = [runner EXCEPT ![r] = x] /\ claim' = [claim EXCEPT ![e] = NoRunner]
      /\ journal' = [journal EXCEPT ![e] = Unwritten]
  BY <1>1 DEF Sent, SenderTypes
<1>4. x \in RunnerRecords
  BY <1>1, RunnerEdits DEF Steps
<1>5. /\ x.pc = "park" /\ x.op = runner[r].op /\ x.path = runner[r].path /\ x.gen = runner[r].gen
      /\ x.before = runner[r].before /\ x.http = NoSession /\ x.sent = runner[r].sent
  BY <1>1 DEF RunnerRecords
<1>6. e = runner[r].entry
  OBVIOUS
<1> HIDE DEF x, e
<1>7. /\ runner' \in [Runners -> RunnerRecords] /\ runner'[r] = x
      /\ \A o \in Runners \ {r} : runner'[o] = runner[o]
  BY <1>3, <1>4, OneRunner
<1>8. /\ claim' \in [Entries -> Runners \cup {NoRunner}] /\ journal' \in [Entries -> JournalRecords]
      /\ claim'[e] = NoRunner /\ journal'[e] = Unwritten
      /\ \A f \in Entries \ {e} : claim'[f] = claim[f] /\ journal'[f] = journal[f]
  BY <1>1, <1>2, <1>3, IdleIsOne DEF SenderTypes, SenderTypeOK, JournalRecords
<1>9. /\ <<x.path, x.sent>> \in delivered' /\ delivered \subseteq delivered'
      /\ delivered' \subseteq Paths \X (Versions \ {0})
  <2>1. delivered' = delivered \cup {<<runner[r].path, runner[r].sent>>}
    BY DEF Sent, Arrives
  <2>2. runner[r].sent \in Versions \ {0}
    BY <1>1 DEF RunnerRecords
  <2> QED
    BY <1>1, <1>5, <2>1, <2>2 DEF SenderTypes, SenderTypeOK
<1>10. SenderTypes'
  BY <1>1, <1>7, <1>8, <1>9 DEF SenderTypes, SenderTypeOK, JournalRecords
<1>11. FlightsSound'
  BY <1>1, <1>3, <1>4, <1>5, FlightGoesOn
<1>12. ClaimsMutual'
  <2>1. \A f \in Entries : claim[f] \in Runners \cup {NoRunner}
    BY <1>1 DEF SenderTypes, SenderTypeOK
  <2>2. \A o \in Runners \ {r} : Holding(o) => runner[o].entry \in Entries \ {e}
    BY <1>1, <1>2 DEF ClaimsMutual
  <2> QED
    BY <1>1, <1>2, <1>5, <1>7, <1>8, <2>1, <2>2 DEF ClaimsMutual, Holding, At
<1>13. EntriesWritten'
  BY <1>1, <1>8 DEF EntriesWritten
<1>14. SessionsApart'
  BY <1>1, <1>2, <1>5, <1>7, <1>8 DEF SessionsApart, Unwritten
<1>15. UploadsSpared'
  <2>1. \A o \in Runners \ {r} : At(o, "upload") => runner[o].entry \in Entries \ {e}
    BY <1>1, <1>2 DEF ClaimsMutual, Holding, At
  <2> QED
    BY <1>1, <1>5, <1>7, <1>8, <2>1 DEF UploadsSpared, At
<1>16. DropsHeld'
  <2>1. /\ x.path \in Paths => x.before <= writes[x.path]
        /\ x.before # 0 /\ content[x.path] = x.before => x.sent = x.before
    BY <1>1, <1>5 DEF DropsHeld, DropsSealed
  <2> QED
    BY <1>3, <1>4, <1>9, <2>1, DropsGoOn
<1> QED
  BY <1>10, <1>11, <1>12, <1>13, <1>14, <1>15, <1>16 DEF SenderInv

LEMMA PushKeeps ==
  ASSUME SenderInv, NEW r \in Runners, Push(r)
  PROVE  SenderInv'
BY SentKeeps DEF Push, At

LEMMA FinishKeeps ==
  ASSUME SenderInv, NEW r \in Runners, Finish(r)
  PROVE  SenderInv'
<1>1. /\ SenderTypes /\ FlightsSound /\ Holding(r) /\ runner[r].pc = "upload" /\ ~crossed /\ ~unsent
      /\ runner[r].path \in Paths /\ runner[r].sent \in Versions \ {0}
  BY DEF SenderInv, SenderTypes, FlightsSound, StagesSound, Finish, Holding, At, UploadsSpared, DropsHeld,
         ParkedWasSent, Prepared, RunnerRecords
<1>2. UNCHANGED <<home, watching, content, writes, handed, lockFile, unsent, starts, kills>>
  BY DEF Finish
<1>3. CASE runner[r].http \notin live
  BY <1>1, <1>3, FailKeeps DEF Finish
<1>4. CASE live' = live \ {runner[r].http} /\ UNCHANGED crossed /\ Sent(r)
  BY <1>1, <1>2, <1>4, SentKeeps
<1>5. CASE live' = live \ {runner[r].http} /\ UNCHANGED crossed /\ Arrives(r) /\ Settle(r, "retry")
  <2>1. Released({r})
    BY <1>1, <1>5, SettleReleases
  <2>2. delivered' \subseteq Paths \X (Versions \ {0}) /\ delivered \subseteq delivered'
    BY <1>1, <1>5 DEF Arrives, SenderTypes, SenderTypeOK
  <2>3. SenderTypeOK'
    BY <1>1, <1>2, <1>5, <2>1, <2>2, ReleasedTypes DEF SenderTypes, SenderTypeOK
  <2> QED
    BY <1>1, <1>2, <1>5, <2>1, <2>2, <2>3, ReleaseKeeps
<1> QED
  BY <1>3, <1>4, <1>5 DEF Finish

LEMMA CreateSessionKeeps ==
  ASSUME SenderInv, NEW r \in Runners, NEW s \in HttpSessions, CreateSession(r, s)
  PROVE  SenderInv'
<1> DEFINE x == [runner[r] EXCEPT !.pc = "begin", !.http = s]
<1>1. /\ SenderTypes /\ FlightsSound /\ ClaimsMutual /\ EntriesWritten /\ SessionsApart /\ UploadsSpared
      /\ DropsHeld /\ runner[r] \in RunnerRecords /\ Locked(r) /\ Holding(r) /\ At(r, "open")
      /\ runner[r].sent # 0
  BY DEF SenderInv, SenderTypes, FlightsSound, StagesSound, CreateSession, Locked, Holding, At, Prepared
<1>2. runner' = [runner EXCEPT ![r] = x]
  BY <1>1 DEF CreateSession, SenderTypes
<1>3. x \in RunnerRecords
  BY <1>1, RunnerEdits DEF Steps
<1>4. /\ x.pc = "begin" /\ x.op = runner[r].op /\ x.path = runner[r].path /\ x.gen = runner[r].gen
      /\ x.before = runner[r].before /\ x.http = s /\ x.entry = runner[r].entry /\ x.sent = runner[r].sent
  BY <1>1 DEF RunnerRecords
<1> HIDE DEF x
<1>5. /\ runner' \in [Runners -> RunnerRecords] /\ runner'[r] = x
      /\ \A o \in Runners \ {r} : runner'[o] = runner[o]
  BY <1>2, <1>3, OneRunner
<1>6. UNCHANGED <<home, watching, content, writes, handed, lockFile, journal, claim, delivered, unsent,
                  crossed, starts, kills>>
      /\ live' = live \cup {s}
  BY DEF CreateSession
<1>7. SenderTypes'
  BY <1>1, <1>5, <1>6 DEF SenderTypes, SenderTypeOK
<1>8. FlightsSound' /\ ClaimsMutual'
  BY <1>1, <1>2, <1>3, <1>4, <1>6, FlightGoesOn, ClaimGoesOn
<1>9. EntriesWritten' /\ SessionsApart' /\ UploadsSpared'
  <2>1. (\A o \in Runners : runner[o].http # s) /\ \A e \in Entries : journal[e].http # s
    BY DEF CreateSession
  <2>2. SessionsApart'
    BY <1>1, <1>4, <1>5, <1>6, <2>1 DEF SessionsApart
  <2> QED
    BY <1>1, <1>4, <1>5, <1>6, <2>2 DEF EntriesWritten, UploadsSpared, At
<1>10. DropsHeld'
  <2>1. /\ x.path \in Paths => x.before <= writes[x.path]
        /\ x.before # 0 /\ content[x.path] = x.before => x.sent = x.before
    BY <1>1, <1>4 DEF DropsHeld, DropsSealed, At, Prepared
  <2> QED
    BY <1>2, <1>3, <1>4, <1>6, <2>1, DropsGoOn
<1> QED
  BY <1>7, <1>8, <1>9, <1>10 DEF SenderInv

LEMMA BeginKeeps ==
  ASSUME SenderInv, NEW r \in Runners, Begin(r)
  PROVE  SenderInv'
<1> DEFINE e == runner[r].entry
           s == runner[r].http
           k == [path |-> runner[r].path, http |-> s, root |-> runner[r].sent]
           x == [runner[r] EXCEPT !.pc = "upload"]
<1>1. /\ SenderTypes /\ FlightsSound /\ ClaimsMutual /\ EntriesWritten /\ SessionsApart /\ UploadsSpared
      /\ DropsHeld /\ runner[r] \in RunnerRecords /\ Locked(r) /\ Holding(r) /\ At(r, "begin")
      /\ runner[r].sent # 0 /\ runner[r].path \in Paths
  BY DEF SenderInv, SenderTypes, FlightsSound, StagesSound, Begin, Locked, Holding, At, Prepared
<1>2. CASE s \notin live
  BY <1>1, <1>2, FailKeeps DEF Begin
<1>3. CASE s \in live
  <2>1. /\ runner' = [runner EXCEPT ![r] = x] /\ journal' = [journal EXCEPT ![e] = k]
        /\ UNCHANGED <<home, watching, content, writes, handed, lockFile, claim, live, delivered, unsent,
                       crossed, starts, kills>>
    BY <1>1, <1>3 DEF Begin, Goes, SenderTypes
  <2>2. s \in HttpSessions /\ s # NoSession
    BY <1>1, <1>3, SenderAssumption DEF SenderTypes, SenderTypeOK
  <2>3. e \in Entries /\ \A f \in Entries : claim[f] = r <=> f = e
    BY <1>1, ClaimsOfOne
  <2>4. k \in JournalRecords /\ k.http = s /\ k.path = runner[r].path
    BY <1>1, <2>2, JournalEdits, IdleIsOne DEF RunnerRecords
  <2>5. x \in RunnerRecords
    BY <1>1, RunnerEdits DEF Steps
  <2>6. /\ x.pc = "upload" /\ x.op = runner[r].op /\ x.path = runner[r].path /\ x.gen = runner[r].gen
        /\ x.before = runner[r].before /\ x.http = s /\ x.entry = e /\ x.sent = runner[r].sent
    BY <1>1 DEF RunnerRecords
  <2>7. e = runner[r].entry /\ s = runner[r].http
    OBVIOUS
  <2> HIDE DEF x, k, e, s
  <2>8. /\ runner' \in [Runners -> RunnerRecords] /\ runner'[r] = x
        /\ \A o \in Runners \ {r} : runner'[o] = runner[o]
    BY <2>1, <2>5, OneRunner
  <2>9. /\ journal' \in [Entries -> JournalRecords] /\ journal'[e] = k
        /\ \A f \in Entries \ {e} : journal'[f] = journal[f]
    BY <1>1, <2>1, <2>3, <2>4 DEF SenderTypes, SenderTypeOK, JournalRecords
  <2>10. SenderTypes'
    BY <1>1, <2>1, <2>8, <2>9 DEF SenderTypes, SenderTypeOK, JournalRecords
  <2>11. FlightsSound' /\ ClaimsMutual'
    BY <1>1, <2>1, <2>5, <2>6, <2>7, FlightGoesOn, ClaimGoesOn
  <2>12. EntriesWritten'
    BY <1>1, <2>1, <2>3, <2>4, <2>9, SenderAssumption DEF EntriesWritten
  <2>13. SessionsApart'
    <3>1. \A o \in Runners : runner'[o].http = runner[o].http
      BY <2>6, <2>7, <2>8
    <3>2. \A f \in Entries \ {e} : journal[f].http # s
      BY <1>1, <2>2, <2>3, <2>7 DEF SessionsApart
    <3>3. \A o \in Runners \ {r} : runner[o].http # s
      BY <1>1, <2>2, <2>7 DEF SessionsApart
    <3> QED
      BY <1>1, <2>1, <2>3, <2>4, <2>9, <3>1, <3>2, <3>3 DEF SessionsApart
  <2>14. UploadsSpared'
    <3>1. \A o \in Runners \ {r} : At(o, "upload") => runner[o].entry \in Entries \ {e}
      BY <1>1, <2>3 DEF ClaimsMutual, Holding, At
    <3> QED
      BY <1>1, <2>1, <2>4, <2>6, <2>8, <2>9, <3>1 DEF UploadsSpared, At
  <2>15. DropsHeld'
    <3>1. /\ x.path \in Paths => x.before <= writes[x.path]
          /\ x.before # 0 /\ content[x.path] = x.before => x.sent = x.before
      BY <1>1, <2>6 DEF DropsHeld, DropsSealed, At, Prepared
    <3> QED
      BY <2>1, <2>5, <2>6, <3>1, DropsGoOn
  <2> QED
    BY <2>10, <2>11, <2>12, <2>13, <2>14, <2>15 DEF SenderInv
<1> QED
  BY <1>2, <1>3

LEMMA BreaksKeeps ==
  ASSUME SenderInv, NEW r \in Runners, Breaks(r)
  PROVE  SenderInv'
BY FailKeeps DEF Breaks, Holding

LEMMA PruneKeeps ==
  ASSUME SenderInv, NEW p \in Paths, Prune(p)
  PROVE  SenderInv'
<1>1. /\ SenderTypes /\ FlightsSound /\ ClaimsMutual /\ EntriesWritten /\ SessionsApart /\ UploadsSpared
      /\ DropsHeld
  BY DEF SenderInv
<1>2. UNCHANGED <<home, watching, content, writes, handed, journal, claim, live, runner, delivered, unsent,
                  crossed, starts, kills>>
      /\ lockFile' = [lockFile EXCEPT ![p] = 0]
  BY DEF Prune
<1>3. \A o \in Runners : ~InFlight(o)
  BY DEF Prune, Leased, InFlight, Locked, At
<1>4. SenderTypes'
  BY <1>1, <1>2, RunnersCounted DEF SenderTypes, SenderTypeOK
<1>5. FlightsSound'
  BY <1>1, <1>2, <1>3 DEF FlightsSound, StagesSound, LocksOpen, OneFlight, InFlight, Locked, At
<1>6. ClaimsMutual' /\ EntriesWritten' /\ SessionsApart' /\ UploadsSpared' /\ DropsHeld'
  BY <1>1, <1>2 DEF ClaimsMutual, EntriesWritten, SessionsApart, UploadsSpared, DropsHeld, VersionsAge,
     DropsSealed, ParkedWasSent, Holding, At
<1> QED
  BY <1>4, <1>5, <1>6 DEF SenderInv

LEMMA SessionExpiresKeeps ==
  ASSUME SenderInv, NEW s \in HttpSessions, SessionExpires(s)
  PROVE  SenderInv'
<1>1. /\ SenderTypes /\ FlightsSound /\ ClaimsMutual /\ EntriesWritten /\ SessionsApart /\ UploadsSpared
      /\ DropsHeld
  BY DEF SenderInv
<1>2. UNCHANGED <<home, watching, content, writes, handed, lockFile, journal, claim, runner, delivered,
                  unsent, crossed, starts, kills>>
      /\ live' = live \ {s}
  BY DEF SessionExpires
<1>3. SenderTypes'
  BY <1>1, <1>2 DEF SenderTypes, SenderTypeOK
<1>4. FlightsSound'
  BY <1>1, <1>2 DEF FlightsSound, StagesSound, LocksOpen, OneFlight, InFlight, Locked, At
<1>5. ClaimsMutual' /\ EntriesWritten' /\ SessionsApart' /\ UploadsSpared' /\ DropsHeld'
  BY <1>1, <1>2 DEF ClaimsMutual, EntriesWritten, SessionsApart, UploadsSpared, DropsHeld, VersionsAge,
     DropsSealed, ParkedWasSent, Holding, At
<1> QED
  BY <1>3, <1>4, <1>5 DEF SenderInv

LEMMA WriteDropKeeps ==
  ASSUME SenderInv, NEW p \in Paths, WriteDrop(p)
  PROVE  SenderInv'
<1>1. /\ SenderTypes /\ FlightsSound /\ ClaimsMutual /\ EntriesWritten /\ SessionsApart /\ UploadsSpared
      /\ DropsHeld
  BY DEF SenderInv
<1>2. UNCHANGED <<home, watching, handed, lockFile, journal, claim, live, runner, delivered, unsent,
                  crossed, starts, kills>>
      /\ writes' = [writes EXCEPT ![p] = writes[p] + 1] /\ content' = [content EXCEPT ![p] = writes[p] + 1]
  BY DEF WriteDrop
<1>3. /\ writes[p] + 1 \in Versions
      /\ content \in [Paths -> Versions] /\ writes \in [Paths -> Versions]
      /\ Versions \subseteq Nat
  BY <1>1, SenderAssumption DEF SenderTypes, SenderTypeOK, Versions, WriteDrop
<1>4. /\ content' \in [Paths -> Versions] /\ writes' \in [Paths -> Versions]
      /\ content'[p] = writes[p] + 1 /\ writes'[p] = writes[p] + 1
      /\ \A q \in Paths \ {p} : content'[q] = content[q] /\ writes'[q] = writes[q]
  BY <1>2, <1>3
<1>5. SenderTypes'
  BY <1>1, <1>2, <1>4 DEF SenderTypes, SenderTypeOK
<1>6. FlightsSound'
  BY <1>1, <1>2 DEF FlightsSound, StagesSound, LocksOpen, OneFlight, InFlight, Locked, At
<1>7. ClaimsMutual' /\ EntriesWritten' /\ SessionsApart' /\ UploadsSpared'
  BY <1>1, <1>2 DEF ClaimsMutual, EntriesWritten, SessionsApart, UploadsSpared, Holding, At
<1>8. VersionsAge' /\ ParkedWasSent'
  <2>1. writes[p] + 1 \in Nat
    BY <1>3
  <2>2. content'[p] <= writes'[p]
    BY <1>4, <2>1
  <2>3. \A q \in Paths \ {p} : content'[q] <= writes'[q]
    BY <1>1, <1>4 DEF DropsHeld, VersionsAge
  <2> QED
    BY <1>1, <1>2, <2>2, <2>3 DEF DropsHeld, VersionsAge, ParkedWasSent
<1>9. DropsSealed'
  <2> SUFFICES ASSUME NEW r \in Runners
               PROVE  /\ runner[r].path \in Paths => runner[r].before <= writes'[runner[r].path]
                      /\ runner[r].pc \in Prepared /\ runner[r].before # 0
                           /\ content'[runner[r].path] = runner[r].before => runner[r].sent = runner[r].before
                      /\ runner[r].pc = "park" => <<runner[r].path, runner[r].sent>> \in delivered
    BY <1>2 DEF DropsSealed, At
  <2>1. /\ runner[r].before \in Nat
        /\ runner[r].path \in Paths => runner[r].before <= writes[runner[r].path]
        /\ runner[r].pc \in Prepared => runner[r].path \in Paths
        /\ runner[r].pc = "park" => <<runner[r].path, runner[r].sent>> \in delivered
    <3>1. runner[r] \in RunnerRecords
      BY <1>1 DEF SenderTypes
    <3> QED
      BY <1>1, <1>3, <3>1 DEF RunnerRecords, DropsHeld, DropsSealed, FlightsSound, StagesSound, Prepared, At
  <2>2. CASE runner[r].path = p
    <3>1. writes[p] \in Nat /\ runner[r].before <= writes[p]
      BY <1>3, <2>1, <2>2
    <3> QED
      BY <1>4, <2>1, <2>2, <3>1
  <2>3. CASE runner[r].path # p
    BY <1>1, <1>4, <2>1, <2>3 DEF DropsHeld, DropsSealed
  <2> QED
    BY <2>2, <2>3
<1> QED
  BY <1>5, <1>6, <1>7, <1>8, <1>9 DEF SenderInv, DropsHeld

LEMMA SenderNextInv == SenderInv /\ [SenderNext]_svars => SenderInv'
<1> SUFFICES ASSUME SenderInv, [SenderNext]_svars PROVE SenderInv'
  OBVIOUS
<1>1. CASE UNCHANGED svars
  <2>1. UNCHANGED <<home, watching, content, writes, handed, lockFile, journal, claim, live, runner,
                    delivered, unsent, crossed, starts, kills>>
    BY <1>1 DEF svars
  <2> QED
    BY <2>1 DEF SenderInv, SenderTypes, SenderTypeOK, FlightsSound, StagesSound, LocksOpen, OneFlight,
       InFlight, Locked, ClaimsMutual, EntriesWritten, SessionsApart, UploadsSpared, DropsHeld, VersionsAge,
       DropsSealed, ParkedWasSent, Holding, At
<1>2. ASSUME NEW r \in Runners,
             \/ SingleFlight(r) \/ LockFlight(r) \/ Recheck(r) \/ ShipRefused(r) \/ Fingerprint(r)
             \/ Cleanup(r) \/ Prepare(r) \/ Push(r) \/ Begin(r) \/ Finish(r) \/ Breaks(r) \/ Park(r)
      PROVE  SenderInv'
  BY <1>2, SingleFlightKeeps, LockFlightKeeps, RecheckKeeps, ShipRefusedKeeps, FingerprintKeeps,
     CleanupKeeps, PrepareKeeps, PushKeeps, BeginKeeps, FinishKeeps, BreaksKeeps, ParkKeeps
<1>3. ASSUME NEW r \in Runners, NEW p \in Paths, Admit(r, p) \/ \E e \in Entries : StartSend(r, p, e)
      PROVE  SenderInv'
  BY <1>3, AdmitKeeps, StartSendKeeps
<1>4. ASSUME NEW r \in Runners, NEW e \in Entries,
             Ship(r, e) \/ ForgetOlder(r, e) \/ StartResume(r, e) \/ Forget(r, e)
      PROVE  SenderInv'
  BY <1>4, ShipKeeps, ForgetOlderKeeps, StartResumeKeeps, ForgetKeeps
<1>5. ASSUME NEW r \in Runners, NEW s \in HttpSessions, CreateSession(r, s) PROVE SenderInv'
  BY <1>5, CreateSessionKeeps
<1>6. ASSUME NEW p \in Paths, Prune(p) \/ WriteDrop(p) PROVE SenderInv'
  BY <1>6, PruneKeeps, WriteDropKeeps
<1>7. ASSUME NEW c \in Processes, RemoveWatch(c) \/ Kill(c) PROVE SenderInv'
  BY <1>7, RemoveWatchKeeps, KillKeeps
<1>8. ASSUME NEW e \in Entries, Abandon(e) PROVE SenderInv'
  BY <1>8, AbandonKeeps
<1>9. ASSUME NEW s \in HttpSessions, SessionExpires(s) PROVE SenderInv'
  BY <1>9, SessionExpiresKeeps
<1> QED
  BY <1>1, <1>2, <1>3, <1>4, <1>5, <1>6, <1>7, <1>8, <1>9 DEF SenderNext

\* try_admit, single_flight, prune_flight_files, claim, forget_send_of and
\* park_if_unchanged: for any number of runners, processes, paths, entries and
\* sessions, whoever dies and whatever is written meanwhile, one runner sends a
\* path, no runner takes another's entry or session, and what is moved into
\* shipped was delivered as it is.
THEOREM SenderKept == SenderSpec => []SenderHolds
<1>1. SenderInit => SenderInv
  BY SenderInitInv
<1>2. SenderInv /\ [SenderNext]_svars => SenderInv'
  BY SenderNextInv
<1>3. SenderInv => SenderHolds
  BY DEF SenderInv, SenderTypes, FlightsSound, DropsHeld, SenderHolds
<1> QED
  BY <1>1, <1>2, <1>3, PTL DEF SenderSpec
==============================================================================
