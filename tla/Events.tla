------------------------------- MODULE Events -------------------------------
(***************************************************************************)
(* What leaves a tenant's deliveries as evidence and as messages: the      *)
(* signed event chain and recipient evidence (server/src/store/evidence.rs,*)
(* server/src/api/evidence.rs), the delivery webhook with its queue and    *)
(* attempts (server/src/store/webhooks.rs, event_worker of                 *)
(* server/src/api/outbound/workflows.rs), and the notification             *)
(* destinations with their outcomes (server/src/store/notifications.rs,    *)
(* server/src/notify.rs, server/src/notify/routing.rs).                    *)
(*                                                                         *)
(* One tenant.  An event is its position in the chain, the id the store    *)
(* hands out; its link is the position of its predecessor.                 *)
(***************************************************************************)
EXTENDS Integers, Sequences, FiniteSets, FiniteSetsExt

CONSTANTS
  Devices,        \* recipient devices that report evidence
  Sends,          \* notifications on their way to the destination
  MaxEvents,      \* bound: length of the chain
  MaxHookRev,     \* bound: saves of the webhook
  MaxDestRev,     \* bound: saves of the notification destination
  AttemptLimit,   \* attempts before an attempt is dead (12)
  QueueBatch,     \* events queued per pass (100)
  MaxReplays,     \* bound
  MaxWorkerBoots  \* bound: restarts of the process

ASSUME EventsAssumption ==
  {MaxEvents, MaxHookRev, MaxDestRev, AttemptLimit, QueueBatch} \subseteq Nat \ {0}
  /\ {MaxReplays, MaxWorkerBoots} \subseteq Nat

VARIABLES
  chain,     \* delivery_events: previous_hash, as the position it names
  evidence,  \* delivery_evidence: <<device, kind>>
  hook,      \* delivery_webhooks: rev, enabled, cursor; from: the chain when saved
  attempt,   \* delivery_webhook_attempts by event and revision
  worker,    \* event_worker: the attempts of this pass, the one being sent
  received,  \* <<event, revision>> pairs the receiver answered with success
  replays, workerBoots,
  cursor,    \* an exporting client: the checkpoint it has reached
  target,    \* notification_destinations: rev, enabled, outcome
  sends      \* per notification: the destination revision it was resolved with

hooks    == <<hook, attempt, worker, received, replays, workerBoots>>
notes    == <<target, sends>>
evars    == <<chain, evidence, hook, attempt, worker, received, replays, workerBoots, cursor, target, sends>>

Last == Len(chain)
\* The rows of the attempts: an event and the revision of the webhook.
Keys == (1 .. MaxEvents) \X (1 .. MaxHookRev)
NoAttempt == [status |-> "none", tries |-> 0, due |-> FALSE]
Rest == [pc |-> "rest", list |-> {}, event |-> 0, rev |-> 0, tries |-> 0]

EventsInit ==
  /\ chain = << >> /\ evidence = {}
  /\ hook = [rev |-> 0, enabled |-> FALSE, cursor |-> 0, from |-> 0]
  /\ attempt = [k \in Keys |-> NoAttempt]
  /\ worker = Rest /\ received = {} /\ replays = 0 /\ workerBoots = 0 /\ cursor = 0
  /\ target = [rev |-> 0, enabled |-> FALSE, outcome |-> "none", of |-> 0]
  /\ sends = [n \in Sends |-> 0]

-----------------------------------------------------------------------------
(* The chain and the evidence.                                             *)

\* delivery_event, inside its caller's transaction: linked to the tenant's
\* latest event.
Linked == Append(chain, Last)

\* Every other transaction of the tenant that records an event.
RecordEvent ==
  /\ Last < MaxEvents
  /\ chain' = Linked
  /\ UNCHANGED <<evidence, hooks, cursor, notes>>

\* record_delivery_evidence: acceptance needs the device's verification, and
\* the first statement of its kind is an event; a repeat is only answered.
SubmitEvidence(d, kind) ==
  /\ <<d, kind>> \notin evidence
  /\ kind = "accepted" => <<d, "verified">> \in evidence
  /\ Last < MaxEvents
  /\ evidence' = evidence \cup {<<d, kind>>}
  /\ chain' = Linked
  /\ UNCHANGED <<hooks, cursor, notes>>

\* purge_delivery_evidence
PurgeEvidence ==
  /\ evidence # {} /\ Last < MaxEvents
  /\ evidence' = {} /\ chain' = Linked
  /\ UNCHANGED <<hooks, cursor, notes>>

\* delivery_event_export from the client's checkpoint to a terminal it fixed
\* or to the latest event: a page of linked events, never past the terminal.
PageEnds(start, terminal) ==
  {e \in start + 1 .. terminal : \A i \in start + 1 .. e : chain[i] = i - 1}
ExportPage(terminal) ==
  /\ cursor < terminal /\ terminal <= Last
  /\ PageEnds(cursor, terminal) # {}
  /\ cursor' \in PageEnds(cursor, terminal)
  /\ UNCHANGED <<chain, evidence, hooks, notes>>

-----------------------------------------------------------------------------
(* The webhook.                                                            *)

\* save_delivery_webhook: pending attempts are superseded, the cursor moves to
\* the end of the chain, and the change itself is the first new event.
SaveHook(enabled) ==
  /\ hook.rev < MaxHookRev /\ Last < MaxEvents
  /\ hook' = [rev |-> hook.rev + 1, enabled |-> enabled, cursor |-> Last, from |-> Last]
  /\ attempt' = [k \in DOMAIN attempt |->
                   IF attempt[k].status = "pending"
                   THEN [attempt[k] EXCEPT !.status = "superseded"] ELSE attempt[k]]
  /\ chain' = Linked
  /\ UNCHANGED <<evidence, worker, received, replays, workerBoots, cursor, notes>>

\* The events past the cursor that one pass queues.
Batch == {e \in hook.cursor + 1 .. Last : e <= hook.cursor + QueueBatch}

\* Mutant: the cursor moves to the end of the chain, past the batch.
QueueToEnd ==
  /\ worker.pc = "rest" /\ hook.enabled /\ Batch # {}
  /\ attempt' = [k \in DOMAIN attempt |->
                   IF k[1] \in Batch /\ k[2] = hook.rev /\ attempt[k].status = "none"
                   THEN [status |-> "pending", tries |-> 0, due |-> TRUE] ELSE attempt[k]]
  /\ hook' = [hook EXCEPT !.cursor = Last]
  /\ UNCHANGED <<chain, evidence, worker, received, replays, workerBoots, cursor, notes>>

\* queue_delivery_webhooks; a row that a replay already made stays as it is.
Queue ==
  /\ worker.pc = "rest" /\ hook.enabled /\ Batch # {}
  /\ attempt' = [k \in DOMAIN attempt |->
                   IF k[1] \in Batch /\ k[2] = hook.rev /\ attempt[k].status = "none"
                   THEN [status |-> "pending", tries |-> 0, due |-> TRUE] ELSE attempt[k]]
  /\ hook' = [hook EXCEPT !.cursor = Max(Batch)]
  /\ UNCHANGED <<chain, evidence, worker, received, replays, workerBoots, cursor, notes>>

Due == {e \in 1 .. Last : hook.enabled /\ attempt[<<e, hook.rev>>].status = "pending"
                          /\ attempt[<<e, hook.rev>>].due}

\* due_delivery_webhooks, after the queue has nothing more to add this pass.
ListDue ==
  /\ worker.pc = "rest" /\ Due # {}
  /\ worker' = [Rest EXCEPT !.pc = "pass", !.list = {<<e, hook.rev, attempt[<<e, hook.rev>>].tries>> :
                                                       e \in Due}]
  /\ UNCHANGED <<chain, evidence, hook, attempt, received, replays, workerBoots, cursor, notes>>

\* The oldest attempt of the pass, if its hook is still the one it was
\* queued for, is sent; otherwise it is skipped.
TakeNext ==
  /\ worker.pc = "pass" /\ worker.list # {}
  /\ \E a \in worker.list :
       /\ \A b \in worker.list : a[1] <= b[1]
       /\ worker' = IF hook.enabled /\ hook.rev = a[2]
                    THEN [pc |-> "sent", list |-> worker.list \ {a}, event |-> a[1],
                          rev |-> a[2], tries |-> a[3]]
                    ELSE [worker EXCEPT !.list = worker.list \ {a}]
  /\ UNCHANGED <<chain, evidence, hook, attempt, received, replays, workerBoots, cursor, notes>>

EndPass ==
  /\ worker.pc = "pass" /\ worker.list = {}
  /\ worker' = Rest
  /\ UNCHANGED <<chain, evidence, hook, attempt, received, replays, workerBoots, cursor, notes>>

\* The receiver takes the event; its answer may still be lost.
ReceiverTakes ==
  /\ worker.pc = "sent"
  /\ received' = received \cup {<<worker.event, worker.rev>>}
  /\ UNCHANGED <<chain, evidence, hook, attempt, worker, replays, workerBoots, cursor, notes>>

\* Mutant: the answer is written whatever became of the row.
FinishedAnyway(ok) ==
  [attempt EXCEPT ![<<worker.event, worker.rev>>] =
     [status |-> IF ok THEN "delivered"
                 ELSE IF worker.tries + 1 >= AttemptLimit THEN "dead" ELSE "pending",
      tries |-> worker.tries + 1, due |-> FALSE]]


\* finish_delivery_webhook, on the row as it was listed: one that was
\* superseded or is at another attempt is left alone.
Finished(ok) ==
  LET k == <<worker.event, worker.rev>> IN
  IF attempt[k].status = "pending" /\ attempt[k].tries = worker.tries
  THEN [attempt EXCEPT ![k] =
          [status |-> IF ok THEN "delivered"
                      ELSE IF worker.tries + 1 >= AttemptLimit THEN "dead" ELSE "pending",
           tries |-> worker.tries + 1, due |-> FALSE]]
  ELSE attempt

Answer(ok) ==
  /\ worker.pc = "sent" /\ (ok => <<worker.event, worker.rev>> \in received)
  /\ attempt' = Finished(ok)
  /\ worker' = [Rest EXCEPT !.pc = "pass", !.list = worker.list]
  /\ UNCHANGED <<chain, evidence, hook, received, replays, workerBoots, cursor, notes>>

\* Mutant: off by one, the last attempt is never due again.
BackoffShort(e, v) ==
  /\ attempt[<<e, v>>].status = "pending" /\ ~attempt[<<e, v>>].due
  /\ attempt[<<e, v>>].tries + 1 < AttemptLimit
  /\ attempt' = [attempt EXCEPT ![<<e, v>>].due = TRUE]
  /\ UNCHANGED <<chain, evidence, hook, worker, received, replays, workerBoots, cursor, notes>>

\* webhook_retry_delay passes.
Backoff(e, v) ==
  /\ attempt[<<e, v>>].status = "pending" /\ ~attempt[<<e, v>>].due
  /\ attempt' = [attempt EXCEPT ![<<e, v>>].due = TRUE]
  /\ UNCHANGED <<chain, evidence, hook, worker, received, replays, workerBoots, cursor, notes>>

\* replay_delivery_webhook
Replay(e) ==
  /\ hook.enabled /\ e \in 1 .. Last /\ replays < MaxReplays
  /\ attempt' = [attempt EXCEPT ![<<e, hook.rev>>] =
                   [status |-> "pending", tries |-> 0, due |-> TRUE]]
  /\ replays' = replays + 1
  /\ UNCHANGED <<chain, evidence, hook, worker, received, workerBoots, cursor, notes>>

\* The process restarts: the pass is forgotten, every send in flight is lost.
RestartWorker ==
  /\ workerBoots < MaxWorkerBoots /\ workerBoots' = workerBoots + 1
  /\ worker.pc # "rest" \/ \E n \in Sends : sends[n] # 0
  /\ worker' = Rest /\ sends' = [n \in Sends |-> 0]
  /\ UNCHANGED <<chain, evidence, hook, attempt, received, replays, cursor, target>>

-----------------------------------------------------------------------------
(* Notifications.                                                          *)

\* api/notifications.rs save and save_notification_destination: the revision
\* read must still be current; the outcome is reset.
SaveDestination(enabled) ==
  /\ target.rev < MaxDestRev
  /\ target' = [rev |-> target.rev + 1, enabled |-> enabled, outcome |-> "none", of |-> 0]
  /\ UNCHANGED <<chain, evidence, hooks, cursor, sends>>

\* send_policy resolves the rules of the policy to enabled destinations.
SendNotification(n) ==
  /\ sends[n] = 0 /\ target.rev > 0 /\ target.enabled
  /\ sends' = [sends EXCEPT ![n] = target.rev]
  /\ UNCHANGED <<chain, evidence, hooks, cursor, target>>

\* Mutant: the outcome is recorded for the destination, whatever its revision.
OutcomeAnyRevision(n, r) == [target EXCEPT !.outcome = r, !.of = sends[n]]

\* record_notification_outcome: only for the revision that was used.
Outcome(n, r) == IF target.rev = sends[n] THEN [target EXCEPT !.outcome = r, !.of = sends[n]] ELSE target

\* send_destination ends, by an answer, its one retry or its deadline.
NotificationEnds(n, r) ==
  /\ sends[n] # 0
  /\ target' = Outcome(n, r)
  /\ sends' = [sends EXCEPT ![n] = 0]
  /\ UNCHANGED <<chain, evidence, hooks, cursor>>

ChainNext ==
  \/ RecordEvent \/ PurgeEvidence
  \/ \E d \in Devices, kind \in {"verified", "accepted"} : SubmitEvidence(d, kind)
  \/ \E terminal \in 1 .. Last : ExportPage(terminal)

HookNext ==
  \/ RecordEvent \/ \E enabled \in BOOLEAN : SaveHook(enabled)
  \/ Queue \/ ListDue \/ TakeNext \/ EndPass \/ ReceiverTakes
  \/ \E ok \in BOOLEAN : Answer(ok)
  \/ \E e \in 1 .. MaxEvents, v \in 1 .. MaxHookRev : Backoff(e, v)
  \/ \E e \in 1 .. MaxEvents : Replay(e)
  \/ RestartWorker

NoteNext ==
  \/ \E enabled \in BOOLEAN : SaveDestination(enabled)
  \/ \E n \in Sends : SendNotification(n) \/ \E r \in {"sent", "failed"} : NotificationEnds(n, r)

EventsNext == ChainNext \/ HookNext \/ NoteNext

EventsSpec == EventsInit /\ [][EventsNext]_evars

\* event_worker runs its loop every two seconds, every send ends within its
\* timeout, and the retry delay passes.
EventsFairness ==
  /\ WF_evars(Queue) /\ WF_evars(ListDue) /\ WF_evars(TakeNext) /\ WF_evars(EndPass)
  /\ WF_evars(\E ok \in BOOLEAN : Answer(ok))
  /\ \A e \in 1 .. MaxEvents, v \in 1 .. MaxHookRev : WF_evars(Backoff(e, v))

-----------------------------------------------------------------------------
(* Properties.                                                             *)

EventsTypeOK ==
  /\ chain \in Seq(0 .. MaxEvents) /\ Len(chain) <= MaxEvents
  /\ evidence \subseteq Devices \X {"verified", "accepted"}
  /\ hook \in [rev : 0 .. MaxHookRev, enabled : BOOLEAN, cursor : 0 .. MaxEvents,
               from : 0 .. MaxEvents]
  /\ attempt \in [Keys ->
                    [status : {"none", "pending", "delivered", "dead", "superseded"},
                     tries : 0 .. AttemptLimit, due : BOOLEAN]]
  /\ worker.pc \in {"rest", "pass", "sent"}
  /\ received \subseteq Keys
  /\ replays \in 0 .. MaxReplays /\ workerBoots \in 0 .. MaxWorkerBoots /\ cursor \in 0 .. MaxEvents
  /\ target \in [rev : 0 .. MaxDestRev, enabled : BOOLEAN, outcome : {"none", "sent", "failed"},
               of : 0 .. MaxDestRev]
  /\ sends \in [Sends -> 0 .. MaxDestRev]

\* queue_delivery_webhooks: no event recorded since the webhook was saved is
\* skipped.  Everything up to the cursor has an attempt under the current
\* revision, whatever the batch limit, replays and restarts.
NoEventSkipped ==
  hook.enabled => \A e \in hook.from + 1 .. hook.cursor : attempt[<<e, hook.rev>>].status # "none"

\* Only what the receiver accepted under that configuration is called
\* delivered, and a superseded attempt stays superseded: finish_delivery_webhook
\* must not write a late answer over a row that changed under it.
AttemptsHonest ==
  \A k \in DOMAIN attempt :
    /\ attempt[k].status = "delivered" => k \in received
    /\ k[2] < hook.rev => attempt[k].status # "pending"

\* record_notification_outcome: the outcome shown for a destination is that of
\* a send that used its current settings.
OutcomeIsCurrent == target.outcome # "none" => target.of = target.rev

\* The three together: no event is skipped, and no late answer passes for a
\* delivery or an outcome of the current configuration.
MessagesHonest == NoEventSkipped /\ AttemptsHonest /\ OutcomeIsCurrent
\* With the type invariant, by which no attempt goes past its limit of tries.
EventsHold == EventsTypeOK /\ MessagesHonest

\* Every event queued for the current webhook settles: delivered, dead, or
\* superseded by a change of the webhook (event_worker, Backoff).
WebhooksSettle ==
  []<>(hook.enabled /\ hook.rev > 0 => \A e \in 1 .. MaxEvents : attempt[<<e, hook.rev>>].status # "pending")
=============================================================================
