----------------------------- MODULE PortProofs -----------------------------
(***************************************************************************)
(* Proofs about what leaves and enters by the port: the evidence chain, the*)
(* credentials, the trade routes, and native pushes.                       *)
(***************************************************************************)
EXTENDS Events, Credentials, Routes, Push, TLAPS

\* The evidence chain.

Listed == (1 .. MaxEvents) \X (1 .. MaxHookRev) \X Int
Statuses == {"none", "pending", "delivered", "dead", "superseded"}
Attempts == [status : Statuses, tries : Int, due : BOOLEAN]
Hooks == [rev : 0 .. MaxHookRev, enabled : BOOLEAN, cursor : Int, from : Int]
Targets == [rev : 0 .. MaxDestRev, enabled : BOOLEAN, outcome : {"none", "sent", "failed"},
            of : Int]

\* The chain, the webhook and the notification destination.
HookTypes ==
  /\ chain \in Seq(Int) /\ Len(chain) <= MaxEvents
  /\ hook \in Hooks /\ (hook.enabled => hook.rev # 0)
  /\ 0 <= hook.from /\ hook.cursor <= Len(chain)
  /\ target \in Targets /\ sends \in [Sends -> Int]

\* A pass of the worker, and its send under way, are about rows of the table.
WorkerTypes ==
  /\ worker.pc = "pass" \/ worker.pc = "sent" => worker.list \subseteq Listed
  /\ worker.pc = "sent" => <<worker.event, worker.rev>> \in Keys /\ worker.tries \in Int

AttemptTypes == attempt \in [Keys -> Attempts]

EventsInv == HookTypes /\ AttemptTypes /\ WorkerTypes /\ MessagesHonest

LEMMA EventsInitInv ==
  ASSUME EventsInit
  PROVE  EventsInv
  <1> USE EventsAssumption DEF EventsInit
  <1>1. HookTypes
    <2>1. chain \in Seq(Int) /\ Len(chain) = 0
      OBVIOUS
    <2>2. hook \in Hooks /\ target \in Targets
      BY DEF Hooks, Targets
    <2>3. hook.enabled = FALSE /\ hook.from = 0 /\ hook.cursor = 0 /\ sends \in [Sends -> Int]
      OBVIOUS
    <2> HIDE DEF EventsInit
    <2> QED BY <2>1, <2>2, <2>3 DEF HookTypes
  <1>2. AttemptTypes
    <2>1. NoAttempt \in Attempts
      BY DEF NoAttempt, Attempts, Statuses
    <2>2. attempt = [k \in Keys |-> NoAttempt]
      OBVIOUS
    <2> HIDE DEF EventsInit
    <2> QED BY <2>1, <2>2 DEF AttemptTypes
  <1>3. WorkerTypes
    BY DEF WorkerTypes, Rest
  <1>4. MessagesHonest
    <2>1. \A k \in Keys : attempt[k] = NoAttempt
      OBVIOUS
    <2>2. DOMAIN attempt = Keys
      OBVIOUS
    <2>3. AttemptsHonest
      BY <2>1, <2>2 DEF AttemptsHonest, NoAttempt
    <2>4. NoEventSkipped /\ OutcomeIsCurrent
      BY DEF NoEventSkipped, OutcomeIsCurrent
    <2> QED BY <2>3, <2>4 DEF MessagesHonest
  <1> QED BY <1>1, <1>2, <1>3, <1>4 DEF EventsInv

-----------------------------------------------------------------------------
\* An event more, or evidence, leaves the messages as they are.
LEMMA ChainGrows ==
  ASSUME EventsInv, UNCHANGED <<hook, attempt, worker, received, target, sends>>,
         chain' = chain \/ (Last < MaxEvents /\ chain' = Linked)
  PROVE  EventsInv'
  <1>1. chain' \in Seq(Int) /\ Len(chain') <= MaxEvents /\ Len(chain) <= Len(chain')
    <2>1. chain \in Seq(Int) /\ Len(chain) <= MaxEvents /\ MaxEvents \in Nat /\ Len(chain) \in Nat
      BY EventsAssumption DEF EventsInv, HookTypes
    <2>2. CASE chain' = Linked /\ Last < MaxEvents
      BY <2>1, <2>2 DEF Linked, Last
    <2> QED BY <2>1, <2>2
  <1>2. hook.cursor <= Len(chain')
    BY <1>1 DEF EventsInv, HookTypes, Hooks
  <1> QED BY <1>1, <1>2 DEF EventsInv, HookTypes, AttemptTypes, WorkerTypes, MessagesHonest,
      NoEventSkipped, AttemptsHonest, OutcomeIsCurrent

\* Only the worker's own state changes.
LEMMA WorkerSteps ==
  ASSUME EventsInv, WorkerTypes', UNCHANGED <<chain, hook, attempt, target, sends>>,
         received \subseteq received'
  PROVE  EventsInv'
  BY DEF EventsInv, HookTypes, AttemptTypes, MessagesHonest, NoEventSkipped, AttemptsHonest,
     OutcomeIsCurrent

\* A row of the table is rewritten: it is not forgotten, a delivered one was
\* received, and a pending one was pending or is of the current revision.
LEMMA RowsChange ==
  ASSUME EventsInv, WorkerTypes', AttemptTypes',
         UNCHANGED <<chain, hook, received, target, sends>>,
         \A k \in Keys :
           \/ attempt'[k].status = attempt[k].status
           \/ /\ attempt'[k].status # "none"
              /\ attempt'[k].status = "delivered" => k \in received
              /\ attempt'[k].status = "pending" => attempt[k].status = "pending" \/ k[2] = hook.rev
  PROVE  EventsInv'
  <1>1. DOMAIN attempt = Keys /\ DOMAIN attempt' = Keys
    BY DEF EventsInv, AttemptTypes
  <1>2. hook.rev \in Int /\ \A k \in Keys : k[2] \in Int
    BY EventsAssumption DEF EventsInv, HookTypes, Hooks, Keys
  <1>3. AttemptsHonest'
    BY <1>1, <1>2 DEF EventsInv, MessagesHonest, AttemptsHonest
  <1>4. NoEventSkipped'
    <2> SUFFICES ASSUME hook.enabled, NEW e \in hook.from + 1 .. hook.cursor
                 PROVE  attempt'[<<e, hook.rev>>].status # "none"
      BY DEF NoEventSkipped
    <2>1. attempt[<<e, hook.rev>>].status # "none"
      BY DEF EventsInv, MessagesHonest, NoEventSkipped
    <2>2. <<e, hook.rev>> \in Keys
      <3>1. hook.from \in Int /\ hook.cursor \in Int /\ hook.rev \in 0 .. MaxHookRev
        BY DEF EventsInv, HookTypes, Hooks
      <3>2. 0 <= hook.from /\ hook.cursor <= Len(chain) /\ Len(chain) \in Nat /\ Len(chain) <= MaxEvents
            /\ hook.rev # 0 /\ MaxEvents \in Nat /\ MaxHookRev \in Nat
        BY EventsAssumption DEF EventsInv, HookTypes
      <3>3. e \in 1 .. MaxEvents /\ hook.rev \in 1 .. MaxHookRev
        BY <3>1, <3>2
      <3> QED BY <3>3 DEF Keys
    <2> QED BY <2>1, <2>2
  <1>5. OutcomeIsCurrent'
    BY DEF EventsInv, MessagesHonest, OutcomeIsCurrent
  <1> QED BY <1>3, <1>4, <1>5 DEF EventsInv, HookTypes, MessagesHonest

-----------------------------------------------------------------------------
\* A set of integers with a largest one has a Max.
LEMMA MaxIsLargest ==
  ASSUME NEW S \in SUBSET Int, NEW m \in S, \A e \in S : e <= m
  PROVE  Max(S) \in S /\ \A e \in S : e <= Max(S)
  <1>1. \E x \in S : \A y \in S : x >= y
    <2>1. \A y \in S : m >= y
      OBVIOUS
    <2> QED BY <2>1
  <1>2. Max(S) \in S /\ \A e \in S : Max(S) >= e
    BY <1>1 DEF Max
  <1> QED BY <1>2

\* What a pass queues has a last event.
LEMMA QueuedIsLargest ==
  ASSUME EventsInv, Queue
  PROVE  Max(Batch) \in Batch /\ \A e \in Batch : e <= Max(Batch)
  <1>1. /\ hook.from \in Int /\ hook.cursor \in Int /\ hook.rev \in 1 .. MaxHookRev /\ hook.enabled
        /\ 0 <= hook.from /\ hook.cursor <= Len(chain) /\ QueueBatch \in Nat
        /\ MaxEvents \in Nat /\ Len(chain) \in Nat /\ Len(chain) <= MaxEvents
    BY EventsAssumption DEF EventsInv, HookTypes, Hooks, Queue
  <1>2. hook.cursor + 1 <= Len(chain) /\ 0 < QueueBatch /\ Batch \in SUBSET Int
    BY <1>1, EventsAssumption DEF Batch, Last, Queue
  <1>3. CASE Len(chain) <= hook.cursor + QueueBatch
    <2>1. Len(chain) \in Batch /\ \A e \in Batch : e <= Len(chain)
      BY <1>1, <1>2, <1>3 DEF Batch, Last
    <2> QED BY <1>2, <2>1, MaxIsLargest
  <1>4. CASE hook.cursor + QueueBatch < Len(chain)
    <2>1. /\ hook.cursor + QueueBatch \in Batch
          /\ \A e \in Batch : e <= hook.cursor + QueueBatch
      BY <1>1, <1>2, <1>4 DEF Batch, Last
    <2> QED BY <1>2, <2>1, MaxIsLargest
  <1> QED BY <1>1, <1>3, <1>4

\* queue_delivery_webhooks leaves no gap below its cursor.
LEMMA QueueKeeps ==
  ASSUME EventsInv, Queue
  PROVE  EventsInv'
  <1> DEFINE entry == [status |-> "pending", tries |-> 0, due |-> TRUE]
  <1>1. /\ hook.from \in Int /\ hook.cursor \in Int /\ hook.rev \in 1 .. MaxHookRev /\ hook.enabled
        /\ 0 <= hook.from /\ hook.cursor <= Len(chain) /\ QueueBatch \in Nat
        /\ MaxEvents \in Nat /\ Len(chain) \in Nat /\ Len(chain) <= MaxEvents
    BY EventsAssumption DEF EventsInv, HookTypes, Hooks, Queue
  <1>2. Max(Batch) \in Batch /\ \A e \in Batch : e <= Max(Batch)
    BY QueuedIsLargest
  <1>3. hook' = [hook EXCEPT !.cursor = Max(Batch)]
    BY DEF Queue
  <1>4. Max(Batch) \in Int /\ Max(Batch) <= Len(chain) /\ Max(Batch) <= hook.cursor + QueueBatch
    <2>1. \A e \in Batch : e \in Int /\ e <= Len(chain) /\ e <= hook.cursor + QueueBatch
      BY <1>1 DEF Batch, Last
    <2> QED BY <1>2, <2>1
  <1>5. hook' \in Hooks /\ hook'.cursor = Max(Batch) /\ hook'.from = hook.from
        /\ hook'.rev = hook.rev /\ hook'.enabled
    BY <1>1, <1>3, <1>4 DEF EventsInv, HookTypes, Hooks
  <1>6. attempt' = [k \in Keys |-> IF k[1] \in Batch /\ k[2] = hook.rev /\ attempt[k].status = "none"
                                   THEN entry ELSE attempt[k]]
    BY DEF Queue, EventsInv, AttemptTypes
  <1>7. AttemptTypes'
    <2>1. entry \in Attempts
      BY DEF Attempts, Statuses
    <2> QED BY <1>6, <2>1 DEF EventsInv, AttemptTypes
  <1>8. NoEventSkipped'
    <2> SUFFICES ASSUME NEW e \in hook.from + 1 .. Max(Batch)
                 PROVE  attempt'[<<e, hook.rev>>].status # "none"
      BY <1>5 DEF NoEventSkipped
    <2>1. e \in 1 .. MaxEvents /\ <<e, hook.rev>> \in Keys
      BY <1>1, <1>4 DEF Keys
    <2>2. CASE e <= hook.cursor
      <3>1. attempt[<<e, hook.rev>>].status # "none"
        BY <1>1, <2>2 DEF EventsInv, MessagesHonest, NoEventSkipped
      <3> QED BY <1>6, <2>1, <3>1
    <2>3. CASE e > hook.cursor
      <3>1. e \in Batch
        BY <1>1, <1>4, <2>3 DEF Batch, Last
      <3> QED BY <1>6, <2>1, <3>1
    <2> QED BY <1>1, <2>2, <2>3
  <1>9. AttemptsHonest'
    <2> SUFFICES ASSUME NEW k \in Keys
                 PROVE  /\ attempt'[k].status = "delivered" => k \in received
                        /\ k[2] < hook.rev => attempt'[k].status # "pending"
      BY <1>5, <1>7 DEF Queue, AttemptsHonest, AttemptTypes
    <2>1. /\ attempt[k].status = "delivered" => k \in received
          /\ k[2] < hook.rev => attempt[k].status # "pending"
      BY DEF EventsInv, AttemptTypes, MessagesHonest, AttemptsHonest
    <2>2. CASE k[1] \in Batch /\ k[2] = hook.rev /\ attempt[k].status = "none"
      BY <1>1, <1>6, <2>2
    <2>3. CASE attempt'[k] = attempt[k]
      BY <2>1, <2>3
    <2> QED BY <1>6, <2>2, <2>3
  <1>10. UNCHANGED <<chain, worker, target, sends>>
    BY DEF Queue, notes
  <1>11. HookTypes'
    <2>1. HookTypes /\ hook'.rev # 0 /\ 0 <= hook'.from /\ hook'.cursor <= Len(chain)
      BY <1>1, <1>4, <1>5 DEF EventsInv
    <2> QED BY <1>5, <1>10, <2>1 DEF HookTypes
  <1> QED BY <1>7, <1>8, <1>9, <1>10, <1>11 DEF EventsInv, WorkerTypes, MessagesHonest,
      OutcomeIsCurrent

\* save_delivery_webhook supersedes what is pending and starts behind the chain.
LEMMA SaveKeeps ==
  ASSUME EventsInv, NEW enabled \in BOOLEAN, SaveHook(enabled)
  PROVE  EventsInv'
  <1>1. /\ hook.rev \in 0 .. MaxHookRev /\ hook.rev < MaxHookRev /\ MaxHookRev \in Nat
        /\ chain \in Seq(Int) /\ Len(chain) \in Nat /\ Len(chain) < MaxEvents /\ MaxEvents \in Nat
    BY EventsAssumption DEF EventsInv, HookTypes, Hooks, SaveHook, Last
  <1>2. hook' = [rev |-> hook.rev + 1, enabled |-> enabled, cursor |-> Len(chain), from |-> Len(chain)]
    BY DEF SaveHook, Last
  <1>3. hook' \in Hooks /\ hook'.rev = hook.rev + 1 /\ hook'.from = Len(chain) /\ hook'.cursor = Len(chain)
    BY <1>1, <1>2 DEF Hooks
  <1>4. chain' \in Seq(Int) /\ Len(chain') = Len(chain) + 1
    BY <1>1 DEF SaveHook, Linked, Last
  <1>5. attempt' = [k \in Keys |-> IF attempt[k].status = "pending"
                                   THEN [attempt[k] EXCEPT !.status = "superseded"] ELSE attempt[k]]
    BY DEF SaveHook, EventsInv, AttemptTypes
  <1>6. \A k \in Keys : attempt'[k] \in Attempts /\ attempt'[k].status # "pending"
                         /\ (attempt'[k].status = "delivered" => k \in received)
    <2> SUFFICES ASSUME NEW k \in Keys
                 PROVE  attempt'[k] \in Attempts /\ attempt'[k].status # "pending"
                        /\ (attempt'[k].status = "delivered" => k \in received)
      OBVIOUS
    <2>1. attempt[k] \in Attempts /\ (attempt[k].status = "delivered" => k \in received)
      BY DEF EventsInv, AttemptTypes, MessagesHonest, AttemptsHonest
    <2>2. CASE attempt[k].status = "pending"
      <3>1. attempt'[k] = [attempt[k] EXCEPT !.status = "superseded"]
        BY <1>5, <2>2
      <3> QED BY <2>1, <3>1 DEF Attempts, Statuses
    <2>3. CASE attempt[k].status # "pending"
      BY <1>5, <2>1, <2>3
    <2> QED BY <2>2, <2>3
  <1>7. AttemptTypes'
    BY <1>5, <1>6 DEF AttemptTypes
  <1>8. UNCHANGED <<received, worker, target, sends>>
    BY DEF SaveHook, notes
  <1>9. NoEventSkipped'
    <2>1. \A e \in hook'.from + 1 .. hook'.cursor : FALSE
      BY <1>1, <1>3
    <2> QED BY <2>1 DEF NoEventSkipped
  <1>10. AttemptsHonest'
    BY <1>5, <1>6, <1>8 DEF AttemptsHonest
  <1>11. HookTypes'
    <2>1. HookTypes /\ hook'.rev # 0 /\ 0 <= hook'.from /\ hook'.cursor <= Len(chain')
          /\ Len(chain') <= MaxEvents
      BY <1>1, <1>3, <1>4 DEF EventsInv
    <2> QED BY <1>3, <1>4, <1>8, <2>1 DEF HookTypes
  <1> QED BY <1>7, <1>8, <1>9, <1>10, <1>11 DEF EventsInv, WorkerTypes, MessagesHonest,
      OutcomeIsCurrent

\* finish_delivery_webhook writes an answer over the row it was sent for only.
LEMMA AnswerKeeps ==
  ASSUME EventsInv, NEW good \in BOOLEAN, Answer(good)
  PROVE  EventsInv'
  <1> DEFINE key == <<worker.event, worker.rev>>
             entry == [status |-> IF good THEN "delivered"
                                ELSE IF worker.tries + 1 >= AttemptLimit THEN "dead" ELSE "pending",
                     tries |-> worker.tries + 1, due |-> FALSE]
  <1>1. worker.pc = "sent" /\ key \in Keys /\ worker.tries \in Int /\ (good => key \in received)
    BY DEF Answer, EventsInv, WorkerTypes
  <1>2. attempt' = Finished(good) /\ UNCHANGED <<chain, hook, received, target, sends>>
    BY DEF Answer, notes
  <1>3. entry \in Attempts /\ entry.status \in {"delivered", "dead", "pending"}
        /\ (entry.status = "delivered" => good)
    BY <1>1 DEF Attempts, Statuses
  <1>4. \/ attempt' = attempt
        \/ attempt[key].status = "pending" /\ attempt' = [attempt EXCEPT ![key] = entry]
    BY <1>2 DEF Finished
  <1>5. AttemptTypes'
    BY <1>1, <1>3, <1>4 DEF EventsInv, AttemptTypes
  <1>6. \A k \in Keys : \/ attempt'[k] = attempt[k]
                        \/ k = key /\ attempt[k].status = "pending" /\ attempt'[k] = entry
    <2> HIDE DEF key, entry
    <2> QED BY <1>1, <1>4 DEF EventsInv, AttemptTypes
  <1>7. WorkerTypes'
    BY <1>1 DEF Answer, EventsInv, WorkerTypes, Rest
  <1>8. \A k \in Keys :
           \/ attempt'[k].status = attempt[k].status
           \/ /\ attempt'[k].status # "none"
              /\ attempt'[k].status = "delivered" => k \in received
              /\ attempt'[k].status = "pending" => attempt[k].status = "pending" \/ k[2] = hook.rev
    <2> HIDE DEF key, entry
    <2> QED BY <1>1, <1>3, <1>6
  <1> QED BY <1>2, <1>5, <1>7, <1>8, RowsChange

\* webhook_retry_delay, and replay_delivery_webhook.
LEMMA DueKeeps ==
  ASSUME EventsInv,
         \/ \E e \in 1 .. MaxEvents, v \in 1 .. MaxHookRev : Backoff(e, v)
         \/ \E e \in 1 .. MaxEvents : Replay(e)
  PROVE  EventsInv'
  <1>1. ASSUME NEW e \in 1 .. MaxEvents, NEW v \in 1 .. MaxHookRev, Backoff(e, v)
        PROVE  EventsInv'
    <2>1. <<e, v>> \in Keys
      BY DEF Keys
    <2>2. attempt' = [attempt EXCEPT ![<<e, v>>] = [attempt[<<e, v>>] EXCEPT !.due = TRUE]]
      BY <1>1, <2>1 DEF Backoff, EventsInv, AttemptTypes
    <2>3. /\ [attempt[<<e, v>>] EXCEPT !.due = TRUE] \in Attempts
          /\ [attempt[<<e, v>>] EXCEPT !.due = TRUE].status = attempt[<<e, v>>].status
      BY <2>1 DEF EventsInv, AttemptTypes, Attempts
    <2>4. AttemptTypes' /\ \A k \in Keys : attempt'[k].status = attempt[k].status
      BY <2>1, <2>2, <2>3 DEF EventsInv, AttemptTypes
    <2>5. WorkerTypes' /\ UNCHANGED <<chain, hook, received, target, sends>>
      BY <1>1 DEF Backoff, EventsInv, WorkerTypes, notes
    <2> QED BY <2>4, <2>5, RowsChange
  <1>2. ASSUME NEW e \in 1 .. MaxEvents, Replay(e)
        PROVE  EventsInv'
    <2> DEFINE entry == [status |-> "pending", tries |-> 0, due |-> TRUE]
    <2>1. hook.rev \in 1 .. MaxHookRev
      BY <1>2, EventsAssumption DEF Replay, EventsInv, HookTypes, Hooks
    <2>2. <<e, hook.rev>> \in Keys
      BY <2>1 DEF Keys
    <2>3. attempt' = [attempt EXCEPT ![<<e, hook.rev>>] = entry]
      BY <1>2 DEF Replay
    <2>4. entry \in Attempts /\ entry.status = "pending"
      BY DEF Attempts, Statuses
    <2>5. AttemptTypes'
      BY <2>2, <2>3, <2>4 DEF EventsInv, AttemptTypes
    <2>6. WorkerTypes' /\ UNCHANGED <<chain, hook, received, target, sends>>
      BY <1>2 DEF Replay, EventsInv, WorkerTypes, notes
    <2>7. \A k \in Keys : \/ attempt'[k] = attempt[k]
                          \/ attempt'[k].status = "pending" /\ k[2] = hook.rev
      <3>1. <<e, hook.rev>>[2] = hook.rev
        OBVIOUS
      <3>2. attempt'[<<e, hook.rev>>] = entry
        BY <2>2, <2>3 DEF EventsInv, AttemptTypes
      <3>3. \A k \in Keys : k # <<e, hook.rev>> => attempt'[k] = attempt[k]
        BY <2>3 DEF EventsInv, AttemptTypes
      <3> SUFFICES ASSUME NEW k \in Keys
                   PROVE  \/ attempt'[k] = attempt[k]
                          \/ attempt'[k].status = "pending" /\ k[2] = hook.rev
        OBVIOUS
      <3>4. CASE k # <<e, hook.rev>>
        BY <3>3, <3>4
      <3>5. CASE k = <<e, hook.rev>>
        <4>1. k[2] = hook.rev
          BY <3>1, <3>5
        <4>2. attempt'[k].status = "pending"
          <5>1. attempt'[k] = entry
            BY <3>2, <3>5
          <5> QED BY <2>4, <5>1
        <4> QED BY <4>1, <4>2
      <3> QED BY <3>4, <3>5
    <2> QED BY <2>5, <2>6, <2>7, RowsChange
  <1> QED BY <1>1, <1>2

\* The passes of event_worker and what its sends find.
LEMMA PassKeeps ==
  ASSUME EventsInv, ListDue \/ TakeNext \/ EndPass \/ ReceiverTakes \/ RestartWorker
  PROVE  EventsInv'
  <1>1. CASE ListDue
    <2>1. hook.enabled /\ hook.rev \in 1 .. MaxHookRev
      <3>1. hook.enabled
        BY <1>1 DEF ListDue, Due
      <3>2. hook.rev \in 0 .. MaxHookRev /\ hook.rev # 0 /\ MaxHookRev \in Nat
        BY <3>1, EventsAssumption DEF EventsInv, HookTypes, Hooks
      <3> QED BY <3>1, <3>2
    <2>2. MaxEvents \in Nat /\ Len(chain) \in Nat /\ Len(chain) <= MaxEvents
      BY EventsAssumption DEF EventsInv, HookTypes
    <2>3. \A e \in Due : <<e, hook.rev, attempt[<<e, hook.rev>>].tries>> \in Listed
      <3> SUFFICES ASSUME NEW e \in Due
                   PROVE  <<e, hook.rev, attempt[<<e, hook.rev>>].tries>> \in Listed
        OBVIOUS
      <3>1. e \in 1 .. MaxEvents
        BY <2>2 DEF Due, Last
      <3>2. <<e, hook.rev>> \in Keys
        BY <2>1, <3>1 DEF Keys
      <3>3. attempt[<<e, hook.rev>>].tries \in Int
        BY <3>2 DEF EventsInv, AttemptTypes, Attempts
      <3> QED BY <2>1, <3>1, <3>3 DEF Listed
    <2>4. worker'.pc = "pass" /\ worker'.list \subseteq Listed
      BY <1>1, <2>3 DEF ListDue, Rest
    <2> QED BY <1>1, <2>4, WorkerSteps DEF ListDue, WorkerTypes, notes
  <1>2. CASE TakeNext
    <2>1. PICK a \in worker.list :
            worker' = IF hook.enabled /\ hook.rev = a[2]
                      THEN [pc |-> "sent", list |-> worker.list \ {a}, event |-> a[1],
                            rev |-> a[2], tries |-> a[3]]
                      ELSE [worker EXCEPT !.list = worker.list \ {a}]
      BY <1>2 DEF TakeNext
    <2>2. worker.list \subseteq Listed /\ worker.pc = "pass"
      BY <1>2 DEF TakeNext, EventsInv, WorkerTypes
    <2>3. <<a[1], a[2]>> \in Keys /\ a[3] \in Int
      BY <2>2 DEF Listed, Keys
    <2>4. CASE worker' = [worker EXCEPT !.list = worker.list \ {a}]
      <3>1. worker'.pc = worker.pc /\ (worker'.list = worker.list \ {a})
        BY <2>4 DEF EventsInv, HookTypes
      <3>2. WorkerTypes'
        BY <2>2, <3>1 DEF WorkerTypes
      <3> QED BY <1>2, <3>2, WorkerSteps DEF TakeNext, notes
    <2>5. CASE worker' = [pc |-> "sent", list |-> worker.list \ {a}, event |-> a[1],
                          rev |-> a[2], tries |-> a[3]]
      <3>1. WorkerTypes'
        BY <2>2, <2>3, <2>5 DEF WorkerTypes
      <3> QED BY <1>2, <3>1, WorkerSteps DEF TakeNext, notes
    <2> QED BY <2>1, <2>4, <2>5
  <1>3. CASE EndPass \/ ReceiverTakes \/ RestartWorker
    <2>1. CASE EndPass
      BY <2>1, WorkerSteps DEF EndPass, Rest, WorkerTypes, notes
    <2>2. CASE ReceiverTakes
      BY <2>2, WorkerSteps DEF ReceiverTakes, EventsInv, WorkerTypes, notes
    <2>3. CASE RestartWorker
      <3>1. WorkerTypes' /\ sends' \in [Sends -> Int]
        BY <2>3 DEF RestartWorker, Rest, WorkerTypes
      <3>2. UNCHANGED <<chain, hook, attempt, received, target>>
        BY <2>3 DEF RestartWorker
      <3> QED BY <3>1, <3>2 DEF EventsInv, HookTypes, AttemptTypes, MessagesHonest,
              NoEventSkipped, AttemptsHonest, OutcomeIsCurrent
    <2> QED BY <1>3, <2>1, <2>2, <2>3
  <1> QED BY <1>1, <1>2, <1>3

\* record_notification_outcome writes for the revision that was used only.
LEMMA NotesKeep ==
  ASSUME EventsInv, NoteNext
  PROVE  EventsInv'
  <1>1. target \in Targets /\ sends \in [Sends -> Int] /\ OutcomeIsCurrent
    BY DEF EventsInv, HookTypes, MessagesHonest
  <1>2. target' \in Targets /\ sends' \in [Sends -> Int] /\ OutcomeIsCurrent'
    <2>1. ASSUME NEW enabled \in BOOLEAN, SaveDestination(enabled)
          PROVE  target' \in Targets /\ sends' \in [Sends -> Int] /\ OutcomeIsCurrent'
      BY <1>1, <2>1, EventsAssumption DEF SaveDestination, Targets, OutcomeIsCurrent
    <2>2. ASSUME NEW n \in Sends, SendNotification(n)
          PROVE  target' \in Targets /\ sends' \in [Sends -> Int] /\ OutcomeIsCurrent'
      BY <1>1, <2>2, EventsAssumption DEF SendNotification, Targets, OutcomeIsCurrent
    <2>3. ASSUME NEW n \in Sends, NEW r \in {"sent", "failed"}, NotificationEnds(n, r)
          PROVE  target' \in Targets /\ sends' \in [Sends -> Int] /\ OutcomeIsCurrent'
      <3>1. sends[n] \in Int /\ sends' \in [Sends -> Int] /\ target' = Outcome(n, r)
        BY <1>1, <2>3 DEF NotificationEnds
      <3>2. CASE target.rev = sends[n]
        <4>1. target' = [target EXCEPT !.outcome = r, !.of = sends[n]]
          BY <3>1, <3>2 DEF Outcome
        <4>2. target'.of = sends[n] /\ target'.rev = target.rev /\ target' \in Targets
          BY <1>1, <3>1, <4>1 DEF Targets
        <4> QED BY <3>1, <3>2, <4>2 DEF OutcomeIsCurrent
      <3>3. CASE target.rev # sends[n]
        BY <1>1, <3>1, <3>3 DEF Outcome, OutcomeIsCurrent
      <3> QED BY <3>2, <3>3
    <2> QED BY <2>1, <2>2, <2>3 DEF NoteNext
  <1>3. UNCHANGED <<chain, hook, attempt, worker, received>>
    BY DEF NoteNext, SaveDestination, SendNotification, NotificationEnds, hooks
  <1> QED BY <1>2, <1>3 DEF EventsInv, HookTypes, AttemptTypes, WorkerTypes, MessagesHonest,
      NoEventSkipped, AttemptsHonest

LEMMA EventsInvKept ==
  ASSUME EventsInv, [EventsNext]_evars
  PROVE  EventsInv'
  <1>1. CASE UNCHANGED evars
    BY <1>1, ChainGrows DEF evars
  <1>2. CASE ChainNext \/ RecordEvent
    BY <1>2, ChainGrows DEF ChainNext, RecordEvent, PurgeEvidence, SubmitEvidence, ExportPage, hooks, notes
  <1>3. CASE \E enabled \in BOOLEAN : SaveHook(enabled)
    BY <1>3, SaveKeeps
  <1>4. CASE \E good \in BOOLEAN : Answer(good)
    BY <1>4, AnswerKeeps
  <1> QED BY <1>1, <1>2, <1>3, <1>4, QueueKeeps, PassKeeps, DueKeeps, NotesKeep
      DEF EventsNext, HookNext

-----------------------------------------------------------------------------
\* The types.  A pending attempt has not used up its tries.
Resendable ==
  {a \in [status : Statuses, tries : 0 .. AttemptLimit, due : BOOLEAN] :
     a.status = "pending" => a.tries < AttemptLimit}
EventsTyped == EventsTypeOK /\ attempt \in [Keys -> Resendable]

LEMMA EventsInitTyped ==
  ASSUME EventsInit
  PROVE  EventsTyped
  <1> USE EventsAssumption DEF EventsInit
  <1>1. NoAttempt \in Resendable
    BY DEF NoAttempt, Resendable, Statuses
  <1>2. attempt \in [Keys -> Resendable]
    BY <1>1
  <1>3. attempt \in [Keys -> [status : Statuses, tries : 0 .. AttemptLimit, due : BOOLEAN]]
    BY <1>2 DEF Resendable
  <1>4. /\ chain \in Seq(0 .. MaxEvents) /\ Len(chain) <= MaxEvents
        /\ evidence \subseteq Devices \X {"verified", "accepted"} /\ received \subseteq Keys
        /\ worker.pc \in {"rest", "pass", "sent"}
    BY DEF Rest
  <1>5. /\ hook \in [rev : 0 .. MaxHookRev, enabled : BOOLEAN, cursor : 0 .. MaxEvents,
                     from : 0 .. MaxEvents]
        /\ target \in [rev : 0 .. MaxDestRev, enabled : BOOLEAN,
                       outcome : {"none", "sent", "failed"}, of : 0 .. MaxDestRev]
    OBVIOUS
  <1>6. /\ replays \in 0 .. MaxReplays /\ workerBoots \in 0 .. MaxWorkerBoots
        /\ cursor \in 0 .. MaxEvents /\ sends \in [Sends -> 0 .. MaxDestRev]
    OBVIOUS
  <1> QED BY <1>2, <1>3, <1>4, <1>5, <1>6 DEF EventsTyped, EventsTypeOK, Statuses

\* Every write of the table leaves an attempt that may be sent again some try.
LEMMA AttemptsTyped ==
  ASSUME EventsInv, EventsTyped, [EventsNext]_evars
  PROVE  attempt' \in [Keys -> Resendable]
  <1> DEFINE fresh == [status |-> "pending", tries |-> 0, due |-> TRUE]
  <1>1. attempt \in [Keys -> Resendable] /\ fresh \in Resendable
    BY EventsAssumption DEF EventsTyped, Resendable, Statuses
  <1>2. CASE attempt' = attempt
    BY <1>1, <1>2
  <1>3. ASSUME NEW enabled \in BOOLEAN, SaveHook(enabled)
        PROVE  attempt' \in [Keys -> Resendable]
    <2>1. \A k \in Keys : [attempt[k] EXCEPT !.status = "superseded"] \in Resendable
      BY <1>1 DEF Resendable, Statuses
    <2>2. attempt' = [k \in Keys |-> IF attempt[k].status = "pending"
                                     THEN [attempt[k] EXCEPT !.status = "superseded"]
                                     ELSE attempt[k]]
      BY <1>1, <1>3 DEF SaveHook
    <2> QED BY <1>1, <2>1, <2>2
  <1>4. CASE Queue
    <2>1. attempt' = [k \in Keys |-> IF k[1] \in Batch /\ k[2] = hook.rev /\ attempt[k].status = "none"
                                     THEN fresh ELSE attempt[k]]
      BY <1>1, <1>4 DEF Queue
    <2> QED BY <1>1, <2>1
  <1>5. ASSUME NEW good \in BOOLEAN, Answer(good)
        PROVE  attempt' \in [Keys -> Resendable]
    <2> DEFINE key == <<worker.event, worker.rev>>
               entry == [status |-> IF good THEN "delivered"
                                    ELSE IF worker.tries + 1 >= AttemptLimit THEN "dead" ELSE "pending",
                         tries |-> worker.tries + 1, due |-> FALSE]
    <2>1. key \in Keys
      BY <1>5 DEF Answer, EventsInv, WorkerTypes
    <2>2. \/ attempt' = attempt
          \/ /\ attempt[key].status = "pending" /\ attempt[key].tries = worker.tries
             /\ attempt' = [attempt EXCEPT ![key] = entry]
      BY <1>5 DEF Answer, Finished
    <2>3. attempt[key].status = "pending" /\ attempt[key].tries = worker.tries
            => worker.tries \in 0 .. AttemptLimit - 1
      <3>1. attempt[key] \in Resendable
        BY <1>1, <2>1
      <3> QED BY <3>1, EventsAssumption DEF Resendable
    <2>4. worker.tries \in 0 .. AttemptLimit - 1 => entry \in Resendable
      BY EventsAssumption DEF Resendable, Statuses
    <2> HIDE DEF key, entry
    <2> QED BY <1>1, <2>1, <2>2, <2>3, <2>4
  <1>6. ASSUME NEW e \in 1 .. MaxEvents, NEW v \in 1 .. MaxHookRev, Backoff(e, v)
        PROVE  attempt' \in [Keys -> Resendable]
    <2>1. <<e, v>> \in Keys
      BY DEF Keys
    <2>2. [attempt[<<e, v>>] EXCEPT !.due = TRUE] \in Resendable
      BY <1>1, <2>1 DEF Resendable
    <2>3. attempt' = [attempt EXCEPT ![<<e, v>>] = [attempt[<<e, v>>] EXCEPT !.due = TRUE]]
      BY <1>1, <1>6, <2>1 DEF Backoff
    <2> QED BY <1>1, <2>1, <2>2, <2>3
  <1>7. ASSUME NEW e \in 1 .. MaxEvents, Replay(e)
        PROVE  attempt' \in [Keys -> Resendable]
    <2>1. attempt' = [attempt EXCEPT ![<<e, hook.rev>>] = fresh]
      BY <1>7 DEF Replay
    <2> QED BY <1>1, <2>1
  <1>8. ChainNext \/ NoteNext => attempt' = attempt
    BY DEF ChainNext, RecordEvent, PurgeEvidence, SubmitEvidence, ExportPage, NoteNext,
       SaveDestination, SendNotification, NotificationEnds, hooks
  <1>9. RecordEvent \/ ListDue \/ TakeNext \/ EndPass \/ ReceiverTakes \/ RestartWorker
          => attempt' = attempt
    BY DEF RecordEvent, ListDue, TakeNext, EndPass, ReceiverTakes, RestartWorker, hooks
  <1> QED BY <1>2, <1>3, <1>4, <1>5, <1>6, <1>7, <1>8, <1>9 DEF EventsNext, HookNext, evars

\* Every step keeps the types.
LEMMA EventsTypesKept ==
  ASSUME EventsInv, EventsTyped, [EventsNext]_evars
  PROVE  EventsTyped'
  <1>1. attempt' \in [Keys -> Resendable]
    BY AttemptsTyped
  <1>2. attempt' \in [Keys -> [status : Statuses, tries : 0 .. AttemptLimit, due : BOOLEAN]]
    BY <1>1 DEF Resendable
  <1>3. chain' \in Seq(0 .. MaxEvents) /\ Len(chain') <= MaxEvents
    <2>1. chain \in Seq(0 .. MaxEvents) /\ Len(chain) <= MaxEvents /\ MaxEvents \in Nat
      BY EventsAssumption DEF EventsTyped, EventsTypeOK
    <2>2. Last < MaxEvents => Linked \in Seq(0 .. MaxEvents) /\ Len(Linked) <= MaxEvents
      BY <2>1 DEF Linked, Last
    <2>3. chain' = chain \/ (Last < MaxEvents /\ chain' = Linked)
      BY DEF EventsNext, ChainNext, HookNext, NoteNext, RecordEvent, PurgeEvidence, SubmitEvidence,
         ExportPage, SaveHook, Queue, ListDue, TakeNext, EndPass, ReceiverTakes, Answer, Backoff,
         Replay, RestartWorker, SaveDestination, SendNotification, NotificationEnds, evars
    <2> QED BY <2>1, <2>2, <2>3
  <1>4. evidence' \subseteq Devices \X {"verified", "accepted"}
    <2>1. \/ evidence' = evidence \/ evidence' = {}
          \/ \E d \in Devices, kind \in {"verified", "accepted"} : evidence' = evidence \cup {<<d, kind>>}
      BY DEF EventsNext, ChainNext, HookNext, NoteNext, RecordEvent, PurgeEvidence, SubmitEvidence,
         ExportPage, SaveHook, Queue, ListDue, TakeNext, EndPass, ReceiverTakes, Answer, Backoff,
         Replay, RestartWorker, SaveDestination, SendNotification, NotificationEnds, evars
    <2> QED BY <2>1 DEF EventsTyped, EventsTypeOK
  <1>5. cursor' \in 0 .. MaxEvents
    <2>1. cursor \in 0 .. MaxEvents /\ Len(chain) \in Nat /\ Len(chain) <= MaxEvents /\ MaxEvents \in Nat
      BY EventsAssumption DEF EventsTyped, EventsTypeOK
    <2>2. cursor' = cursor \/ \E terminal \in 1 .. Last : cursor' \in PageEnds(cursor, terminal)
      BY DEF EventsNext, ChainNext, HookNext, NoteNext, RecordEvent, PurgeEvidence, SubmitEvidence,
         ExportPage, SaveHook, Queue, ListDue, TakeNext, EndPass, ReceiverTakes, Answer, Backoff,
         Replay, RestartWorker, SaveDestination, SendNotification, NotificationEnds, evars
    <2>3. \A terminal \in 1 .. Last : PageEnds(cursor, terminal) \subseteq 0 .. MaxEvents
      BY <2>1 DEF PageEnds, Last
    <2> QED BY <2>1, <2>2, <2>3
  <1>6. hook' \in [rev : 0 .. MaxHookRev, enabled : BOOLEAN, cursor : 0 .. MaxEvents,
                   from : 0 .. MaxEvents]
    <2> DEFINE Shape == [rev : 0 .. MaxHookRev, enabled : BOOLEAN, cursor : 0 .. MaxEvents,
                         from : 0 .. MaxEvents]
    <2>1. /\ hook \in Shape /\ Len(chain) \in Nat /\ Len(chain) <= MaxEvents
          /\ MaxEvents \in Nat /\ MaxHookRev \in Nat
      BY EventsAssumption DEF EventsTyped, EventsTypeOK
    <2>2. CASE hook' = hook
      BY <2>1, <2>2
    <2>3. ASSUME NEW enabled \in BOOLEAN, SaveHook(enabled)
          PROVE  hook' \in Shape
      BY <2>1, <2>3 DEF SaveHook, Last
    <2>4. CASE Queue
      <3>1. Max(Batch) \in Batch
        BY <2>4, QueuedIsLargest
      <3>2. Max(Batch) \in 0 .. MaxEvents
        BY <2>1, <3>1 DEF Batch, Last
      <3> QED BY <2>1, <2>4, <3>2 DEF Queue
    <2>5. ChainNext \/ NoteNext => hook' = hook
      BY DEF ChainNext, RecordEvent, PurgeEvidence, SubmitEvidence, ExportPage, NoteNext,
         SaveDestination, SendNotification, NotificationEnds, hooks
    <2>6. RecordEvent \/ ListDue \/ TakeNext \/ EndPass \/ ReceiverTakes \/ RestartWorker
            \/ (\E good \in BOOLEAN : Answer(good))
            \/ (\E e \in 1 .. MaxEvents, v \in 1 .. MaxHookRev : Backoff(e, v))
            \/ (\E e \in 1 .. MaxEvents : Replay(e)) => hook' = hook
      BY DEF RecordEvent, ListDue, TakeNext, EndPass, ReceiverTakes, RestartWorker, Answer, Backoff,
         Replay, hooks
    <2> QED BY <2>2, <2>3, <2>4, <2>5, <2>6 DEF EventsNext, HookNext, evars
  <1>7. /\ worker'.pc \in {"rest", "pass", "sent"} /\ received' \subseteq Keys
        /\ replays' \in 0 .. MaxReplays /\ workerBoots' \in 0 .. MaxWorkerBoots
    <2>1. /\ worker.pc \in {"rest", "pass", "sent"} /\ received \subseteq Keys
          /\ replays \in 0 .. MaxReplays /\ workerBoots \in 0 .. MaxWorkerBoots
          /\ MaxReplays \in Nat /\ MaxWorkerBoots \in Nat
      BY EventsAssumption DEF EventsTyped, EventsTypeOK
    <2>2. CASE UNCHANGED <<worker, received, replays, workerBoots>>
      BY <2>1, <2>2
    <2>3. CASE ListDue \/ TakeNext \/ EndPass \/ (\E good \in BOOLEAN : Answer(good))
      <3>1. UNCHANGED <<received, replays, workerBoots>>
        BY <2>3 DEF ListDue, TakeNext, EndPass, Answer
      <3>2. ListDue => worker'.pc = "pass"
        BY DEF ListDue, Rest
      <3>4. EndPass => worker'.pc = "rest"
        BY DEF EndPass, Rest
      <3>5. ASSUME NEW good \in BOOLEAN, Answer(good) PROVE worker'.pc = "pass"
        BY <3>5 DEF Answer
      <3>3. ASSUME TakeNext PROVE worker'.pc \in {"sent", "pass"}
        <4>1. PICK a \in worker.list :
                worker' = IF hook.enabled /\ hook.rev = a[2]
                          THEN [pc |-> "sent", list |-> worker.list \ {a}, event |-> a[1],
                                rev |-> a[2], tries |-> a[3]]
                          ELSE [worker EXCEPT !.list = worker.list \ {a}]
          BY <3>3 DEF TakeNext
        <4>2. worker.pc = "pass"
          BY <3>3 DEF TakeNext
        <4>3. CASE worker' = [worker EXCEPT !.list = worker.list \ {a}]
          <5>1. worker'.pc = worker.pc
            BY <4>3
          <5> QED BY <4>2, <5>1
        <4>4. CASE worker' = [pc |-> "sent", list |-> worker.list \ {a}, event |-> a[1],
                              rev |-> a[2], tries |-> a[3]]
          BY <4>4
        <4> QED BY <4>1, <4>3, <4>4
      <3> QED BY <2>1, <2>3, <3>1, <3>2, <3>3, <3>4, <3>5
    <2>4. CASE ReceiverTakes
      <3>1. <<worker.event, worker.rev>> \in Keys
        BY <2>4 DEF ReceiverTakes, EventsInv, WorkerTypes
      <3> QED BY <2>1, <2>4, <3>1 DEF ReceiverTakes
    <2>5. CASE \E e \in 1 .. MaxEvents : Replay(e)
      BY <2>1, <2>5 DEF Replay
    <2>6. CASE RestartWorker
      BY <2>1, <2>6 DEF RestartWorker, Rest
    <2>7. ChainNext \/ NoteNext => UNCHANGED <<worker, received, replays, workerBoots>>
      BY DEF ChainNext, RecordEvent, PurgeEvidence, SubmitEvidence, ExportPage, NoteNext,
         SaveDestination, SendNotification, NotificationEnds, hooks
    <2>9. CASE HookNext
      <3>2. CASE \/ RecordEvent \/ (\E enabled \in BOOLEAN : SaveHook(enabled)) \/ Queue
                 \/ (\E e \in 1 .. MaxEvents, v \in 1 .. MaxHookRev : Backoff(e, v))
        <4>1. UNCHANGED <<worker, received, replays, workerBoots>>
          BY <3>2 DEF RecordEvent, SaveHook, Queue, Backoff, hooks
        <4> QED BY <2>2, <4>1
      <3>3. CASE ListDue \/ TakeNext \/ EndPass \/ (\E good \in BOOLEAN : Answer(good))
        BY <2>3, <3>3
      <3>4. CASE ReceiverTakes
        BY <2>4, <3>4
      <3>5. CASE \E e \in 1 .. MaxEvents : Replay(e)
        BY <2>5, <3>5
      <3>6. CASE RestartWorker
        BY <2>6, <3>6
      <3> QED BY <2>9, <3>2, <3>3, <3>4, <3>5, <3>6, Zenon DEF HookNext
    <2>10. CASE UNCHANGED evars
      <3>1. UNCHANGED <<worker, received, replays, workerBoots>>
        BY <2>10 DEF evars
      <3> QED BY <2>2, <3>1
    <2> QED BY <2>2, <2>7, <2>9, <2>10 DEF EventsNext
  <1>8. /\ target' \in [rev : 0 .. MaxDestRev, enabled : BOOLEAN,
                        outcome : {"none", "sent", "failed"}, of : 0 .. MaxDestRev]
        /\ sends' \in [Sends -> 0 .. MaxDestRev]
    <2> DEFINE Shape == [rev : 0 .. MaxDestRev, enabled : BOOLEAN,
                         outcome : {"none", "sent", "failed"}, of : 0 .. MaxDestRev]
    <2>1. target \in Shape /\ sends \in [Sends -> 0 .. MaxDestRev] /\ MaxDestRev \in Nat
      BY EventsAssumption DEF EventsTyped, EventsTypeOK
    <2>2. CASE UNCHANGED notes
      BY <2>1, <2>2 DEF notes
    <2>3. ASSUME NEW enabled \in BOOLEAN, SaveDestination(enabled)
          PROVE  target' \in Shape /\ sends' \in [Sends -> 0 .. MaxDestRev]
      BY <2>1, <2>3 DEF SaveDestination
    <2>4. ASSUME NEW n \in Sends, SendNotification(n)
          PROVE  target' \in Shape /\ sends' \in [Sends -> 0 .. MaxDestRev]
      BY <2>1, <2>4 DEF SendNotification
    <2>5. ASSUME NEW n \in Sends, NEW r \in {"sent", "failed"}, NotificationEnds(n, r)
          PROVE  target' \in Shape /\ sends' \in [Sends -> 0 .. MaxDestRev]
      <3>1. target' = target \/ target' = [target EXCEPT !.outcome = r, !.of = sends[n]]
        BY <2>5 DEF NotificationEnds, Outcome
      <3>2. target' \in Shape
        BY <2>1, <3>1
      <3> QED BY <2>1, <2>5, <3>2 DEF NotificationEnds
    <2>6. CASE RestartWorker
      BY <2>1, <2>6 DEF RestartWorker
    <2>7. ChainNext => UNCHANGED notes
      BY DEF ChainNext, RecordEvent, PurgeEvidence, SubmitEvidence, ExportPage, notes
    <2>8. HookNext /\ ~RestartWorker => UNCHANGED notes
      BY DEF HookNext, RecordEvent, SaveHook, Queue, ListDue, TakeNext, EndPass, ReceiverTakes, Answer,
         Backoff, Replay, notes
    <2> QED BY <2>2, <2>3, <2>4, <2>5, <2>6, <2>7, <2>8 DEF EventsNext, NoteNext, HookNext, evars, notes
  <1> QED BY <1>1, <1>2, <1>3, <1>4, <1>5, <1>6, <1>7, <1>8 DEF EventsTyped, EventsTypeOK, Statuses

\* Whatever is restarted, replayed, reconfigured or answered late: no event is
\* skipped, only what was received is called delivered, superseded attempts
\* stay so, an outcome is that of the current settings, and no attempt goes
\* past its limit (queue_delivery_webhooks, finish_delivery_webhook,
\* save_delivery_webhook, record_notification_outcome).
THEOREM EventsHonest == EventsSpec => []EventsHold
  <1>1. EventsInit => EventsInv /\ EventsTyped
    BY EventsInitInv, EventsInitTyped
  <1>2. EventsInv /\ EventsTyped /\ [EventsNext]_evars => (EventsInv /\ EventsTyped)'
    BY EventsInvKept, EventsTypesKept
  <1>3. EventsInv /\ EventsTyped => EventsHold
    BY DEF EventsInv, EventsTyped, EventsHold
  <1> QED BY <1>1, <1>2, <1>3, PTL DEF EventsSpec

------------------------------------------------------------------------------
\* Credentials.

\* Credentials are minted in order, and both ends only move on: the sender is
\* never ahead of the receiver, nor, while no refresh has dropped a pending
\* credential, further behind the last minted one than the pending row covers.
Chain ==
  /\ pending \in {0, minted} /\ mine.cred <= minted /\ peer.cred <= minted
  /\ peer.state # "none" => mine.cred <= peer.cred
  /\ ~dropped => IF pending = 0 THEN mine.cred = minted ELSE mine.cred >= minted - 1

\* A port has a credential before the other one can know it, and rotates none
\* before it is enrolled.
EnrolInv ==
  /\ mine.state = "none" => minted = 0 /\ peer.state = "none"
  /\ mine.state # "none" => mine.cred >= 1
  /\ peer.state = "none" => minted <= 1 /\ pending = 0 /\ ~mine.enrolled
  /\ mine.enrolled => mine.state # "none"
  /\ (invite = "open" => peer.state = "none") /\ (invite = "redeemed" => peer.state # "none")

\* What a call under way has read is no newer than what is current.
Tries == {"retry", "moved", "clear", "ask", "granted", "close"}
CallInv(c) ==
  /\ call[c].pc # "idle" => mine.state # "none" /\ 1 <= call[c].old /\ call[c].old <= mine.cred
  /\ call[c].pc \notin {"idle", "enroll", "enrolled"} => mine.enrolled
  /\ call[c].pc = "enrolled" => call[c].reply # "none" /\ peer.state # "none"
  /\ call[c].pc \in Tries => call[c].old <= call[c].next /\ call[c].next <= minted
  /\ call[c].pc \in {"moved", "granted"} => call[c].next <= peer.cred
  /\ call[c].pc = "close" => call[c].next <= mine.cred

\* What no call's step takes from the others: credentials only grow.
Grows ==
  /\ mine.cred <= mine'.cred /\ peer.cred <= peer'.cred /\ minted <= minted'
  /\ mine.state # "none" => mine'.state # "none"
  /\ peer.state # "none" => peer'.state # "none"
  /\ mine.enrolled => mine'.enrolled

CredentialsInv ==
  /\ CredentialsTypeOK /\ EnrolInv /\ Chain
  /\ \A c \in Calls : CallInv(c)

LEMMA CredentialsInitInv ==
  ASSUME CredentialsInit
  PROVE  CredentialsInv
  <1>a. 0 \in 0 .. MaxCred /\ 0 \in 0 .. MaxLosses /\ 0 \in 0 .. MaxEdits
    BY CredentialsAssumption
  <1>b. peer \in Peers /\ mine \in Mines
    BY <1>a DEF CredentialsInit, Peers, Mines, PermissionStates
  <1>c. Quiet \in CallRecords
    BY <1>a DEF Quiet, CallRecords
  <1>d. call \in [Calls -> CallRecords]
    BY <1>c DEF CredentialsInit
  <1>e. invite \in {"open", "redeemed", "gone"} /\ dropped \in BOOLEAN
    BY DEF CredentialsInit
  <1>1. CredentialsTypeOK
    BY <1>a, <1>b, <1>d, <1>e DEF CredentialsInit, CredentialsTypeOK
  <1>2. /\ invite = "open" /\ peer.state = "none" /\ peer.cred = 0 /\ mine.state = "none"
        /\ mine.cred = 0 /\ ~mine.enrolled /\ pending = 0 /\ minted = 0
        /\ \A c \in Calls : call[c].pc = "idle"
    BY DEF CredentialsInit, Quiet
  <1> QED BY <1>1, <1>2 DEF CredentialsInv, EnrolInv, Chain, CallInv, Tries

-----------------------------------------------------------------------------
\* Every step keeps the types.
Pcs == {"idle", "enroll", "enrolled", "status", "answered", "refused", "retry", "moved", "clear",
        "mint", "ask", "granted", "close"}

\* The ways a call's record is updated.
LEMMA CallUpdates ==
  ASSUME NEW k \in CallRecords, NEW p \in Pcs, NEW n \in 0 .. MaxCred,
         NEW r \in PermissionStates \cup {"none"}
  PROVE  /\ [k EXCEPT !.pc = p] \in CallRecords
         /\ [k EXCEPT !.pc = p, !.old = n] \in CallRecords
         /\ [k EXCEPT !.pc = p, !.next = n] \in CallRecords
         /\ [k EXCEPT !.pc = p, !.reply = r] \in CallRecords
  BY DEF CallRecords, Pcs

LEMMA CredentialsTypesKept ==
  ASSUME CredentialsTypeOK, EnrolInv, [CredentialsNext]_cvars
  PROVE  CredentialsTypeOK'
  <1> USE CredentialsAssumption DEF CredentialsTypeOK, EndCall, At
  <1>q. Quiet \in CallRecords
    BY DEF Quiet, CallRecords
  <1>1. CASE UNCHANGED cvars
    BY <1>1 DEF cvars
  <1>2. CASE InvitationExpires
    BY <1>2 DEF InvitationExpires
  <1>3. CASE SenderDies
    BY <1>q, <1>3 DEF SenderDies
  <1>4. ASSUME NEW to \in PermissionStates, UpdateMine(to) \/ UpdatePeer(to)
        PROVE  CredentialsTypeOK'
    <2>1. mine' \in Mines /\ peer' \in Peers
      BY <1>4 DEF UpdateMine, UpdatePeer, Mines, Peers
    <2> QED BY <1>4, <2>1 DEF UpdateMine, UpdatePeer
  <1>5. ASSUME NEW c \in Calls, AcceptInvitation(c)
        PROVE  CredentialsTypeOK'
    <2>1. minted' \in 0 .. MaxCred
      BY <1>5 DEF AcceptInvitation, EnrolInv
    <2>2. mine' \in Mines
      BY <1>5, <2>1 DEF AcceptInvitation, Mines, PermissionStates
    <2>3. [Quiet EXCEPT !.pc = "enroll", !.old = minted'] \in CallRecords
      BY <1>q, <2>1, CallUpdates DEF Pcs
    <2> QED BY <1>5, <2>1, <2>2, <2>3 DEF AcceptInvitation
  <1>6. ASSUME NEW c \in Calls, NEW expected \in BOOLEAN, PeerEnrolls(c, expected)
        PROVE  CredentialsTypeOK'
    <2>1. peer' \in Peers /\ invite' \in {"open", "redeemed", "gone"}
      BY <1>6 DEF PeerEnrolls, Peers, CallRecords, PermissionStates
    <2>2. call' \in [Calls -> CallRecords]
      BY <1>6, <2>1, CallUpdates DEF PeerEnrolls, Peers, Pcs
    <2> QED BY <1>6, <2>1, <2>2 DEF PeerEnrolls
  <1>7. ASSUME NEW c \in Calls, PeerRefusesEnrolment(c) \/ FinishEnrolment(c)
        PROVE  CredentialsTypeOK'
    <2>1. mine' \in Mines
      BY <1>7 DEF PeerRefusesEnrolment, FinishEnrolment, Mines, CallRecords
    <2> QED BY <1>q, <1>7, <2>1 DEF PeerRefusesEnrolment, FinishEnrolment
  <1>8. ASSUME NEW c \in Calls, BeginRefresh(c) \/ PeerStatus(c) \/ TryPending(c) \/ PeerStatusNext(c)
        PROVE  CredentialsTypeOK'
    <2>1. CASE BeginRefresh(c)
      <3>1. call' \in [Calls -> CallRecords]
        <4>1. mine.cred \in 0 .. MaxCred
          BY DEF Mines
        <4> QED BY <1>q, <2>1, <4>1, CallUpdates DEF BeginRefresh, Pcs
      <3> QED BY <2>1, <3>1 DEF BeginRefresh
    <2>2. CASE PeerStatus(c)
      <3>1. call' \in [Calls -> CallRecords]
        <4>1. peer.state \in PermissionStates \cup {"none"}
          BY DEF Peers
        <4> QED BY <2>2, <4>1, CallUpdates DEF PeerStatus, Pcs
      <3> QED BY <2>2, <3>1 DEF PeerStatus
    <2>3. CASE TryPending(c)
      <3>1. call' \in [Calls -> CallRecords]
        <4>1. call[c] \in CallRecords
              /\ [call[c] EXCEPT !.pc = "retry", !.next = pending] \in CallRecords
          BY CallUpdates DEF Pcs
        <4> QED BY <1>q, <2>3, <4>1 DEF TryPending
      <3> QED BY <2>3, <3>1 DEF TryPending
    <2>4. CASE PeerStatusNext(c)
      <3>1. call' \in [Calls -> CallRecords]
        <4>1. peer.state \in PermissionStates \cup {"none"}
          BY DEF Peers
        <4>2. call[c] \in CallRecords
              /\ [call[c] EXCEPT !.pc = "moved", !.reply = peer.state] \in CallRecords
          BY <4>1, CallUpdates DEF Pcs
        <4> QED BY <1>q, <2>4, <4>2 DEF PeerStatusNext
      <3> QED BY <2>4, <3>1 DEF PeerStatusNext
    <2> QED BY <1>8, <2>1, <2>2, <2>3, <2>4
  <1>9. ASSUME NEW c \in Calls, AdoptMoved(c) \/ AdoptGranted(c)
        PROVE  CredentialsTypeOK'
    <2>1. mine' \in Mines
      BY <1>9 DEF AdoptMoved, AdoptGranted, Rotated, Mines, CallRecords
    <2>2. call' \in [Calls -> CallRecords]
      BY <1>q, <1>9 DEF AdoptMoved, AdoptGranted, CallRecords
    <2> QED BY <1>9, <2>1, <2>2 DEF AdoptMoved, AdoptGranted
  <1>10. ASSUME NEW c \in Calls, ClearMoved(c) \/ ClearGranted(c)
        PROVE  CredentialsTypeOK'
    <2>1. call' \in [Calls -> CallRecords]
      BY <1>q, <1>10 DEF ClearMoved, ClearGranted, CallRecords
    <2>2. dropped' \in BOOLEAN
      BY <1>10 DEF ClearMoved, ClearGranted
    <2> QED BY <1>10, <2>1, <2>2 DEF ClearMoved, ClearGranted
  <1>11. ASSUME NEW c \in Calls, Contact(c)
        PROVE  CredentialsTypeOK'
    <2>1. mine' \in Mines
      BY <1>11 DEF Contact, Mines, CallRecords, PermissionStates
    <2> QED BY <1>q, <1>11, <2>1 DEF Contact
  <1>12. ASSUME NEW c \in Calls, BeginRotate(c)
        PROVE  CredentialsTypeOK'
    <2>1. call' \in [Calls -> CallRecords]
      <3>1. mine.cred \in 0 .. MaxCred
        BY DEF Mines
      <3> QED BY <1>q, <1>12, <3>1, CallUpdates DEF BeginRotate, Pcs
    <2> QED BY <1>12, <2>1 DEF BeginRotate
  <1>13. ASSUME NEW c \in Calls, PendingRotation(c)
        PROVE  CredentialsTypeOK'
    <2>1. minted' \in 0 .. MaxCred /\ pending' \in 0 .. MaxCred
      BY <1>13 DEF PendingRotation
    <2>2. call' \in [Calls -> CallRecords]
      BY <1>13, <2>1, CallUpdates DEF PendingRotation, Pcs
    <2> QED BY <1>13, <2>1, <2>2 DEF PendingRotation
  <1>14. ASSUME NEW c \in Calls, PeerRotates(c)
        PROVE  CredentialsTypeOK'
    <2>1. peer' \in Peers
      BY <1>14 DEF PeerRotates, Peers, CallRecords
    <2>2. call' \in [Calls -> CallRecords]
      BY <1>q, <1>14 DEF PeerRotates, CallRecords
    <2> QED BY <1>14, <2>1, <2>2 DEF PeerRotates
  <1>15. ASSUME NEW c \in Calls, LoseCall(c)
        PROVE  CredentialsTypeOK'
    BY <1>q, <1>15 DEF LoseCall
  <1> QED BY <1>1, <1>2, <1>3, <1>4, <1>5, <1>6, <1>7, <1>8, <1>9, <1>10, <1>11, <1>12, <1>13,
      <1>14, <1>15 DEF CredentialsNext

-----------------------------------------------------------------------------
\* What the numbers are.
LEMMA CredentialsNat ==
  ASSUME CredentialsTypeOK, CredentialsTypeOK'
  PROVE  /\ {mine.cred, peer.cred, pending, minted} \subseteq Int
         /\ {mine'.cred, peer'.cred, pending', minted'} \subseteq Int
         /\ \A c \in Calls : call[c].old \in Int /\ call[c].next \in Int
  BY CredentialsAssumption DEF CredentialsTypeOK, Mines, Peers, CallRecords

\* A step in which call c alone moves: the others keep what they know.
LEMMA CallSteps1 ==
  ASSUME CredentialsInv, CredentialsTypeOK', NEW c \in Calls, Grows,
         \A d \in Calls \ {c} : call'[d] = call[d],
         EnrolInv', Chain', CallInv(c)'
  PROVE  CredentialsInv'
  <1>1. /\ {mine.cred, peer.cred, pending, minted} \subseteq Int
        /\ {mine'.cred, peer'.cred, pending', minted'} \subseteq Int
        /\ \A d \in Calls : call[d].old \in Int /\ call[d].next \in Int
    BY CredentialsNat DEF CredentialsInv
  <1>2. \A d \in Calls \ {c} : CallInv(d)'
    BY <1>1 DEF CredentialsInv, CallInv, Grows, Tries
  <1> QED BY <1>2 DEF CredentialsInv

\* Calls end, or an operator or the clock acts: nobody's credential changes.
LEMMA CredentialsStay ==
  ASSUME CredentialsInv, CredentialsTypeOK', UNCHANGED <<pending, minted, dropped>>,
         mine'.cred = mine.cred, mine'.enrolled = mine.enrolled, peer'.cred = peer.cred,
         (mine'.state = "none") = (mine.state = "none"),
         (peer'.state = "none") = (peer.state = "none"),
         invite' \in {invite, "gone"},
         \A c \in Calls : call'[c] \in {call[c], Quiet}
  PROVE  CredentialsInv'
  <1>1. EnrolInv' /\ Chain'
    BY DEF CredentialsInv, EnrolInv, Chain
  <1>2. \A c \in Calls : CallInv(c)'
    BY DEF CredentialsInv, CallInv, Quiet, Tries
  <1> QED BY <1>1, <1>2 DEF CredentialsInv

\* Every step keeps the invariant, however calls overlap.
LEMMA CredentialsInvKept ==
  ASSUME CredentialsInv, CredentialsTypeOK', [CredentialsNext]_cvars
  PROVE  CredentialsInv'
  <1> USE CredentialsAssumption
  <1> DEFINE Only(c) == \A d \in Calls \ {c} : call'[d] = call[d]
  <1>n. /\ CredentialsTypeOK /\ EnrolInv /\ Chain /\ \A c \in Calls : CallInv(c)
        /\ {mine.cred, peer.cred, pending, minted} \subseteq Int
        /\ {mine'.cred, peer'.cred, pending', minted'} \subseteq Int
        /\ \A c \in Calls : call[c].old \in Int /\ call[c].next \in Int
    BY CredentialsNat DEF CredentialsInv
  <1>r. /\ mine \in Mines /\ peer \in Peers /\ call \in [Calls -> CallRecords]
        /\ mine' \in Mines /\ peer' \in Peers
    BY <1>n DEF CredentialsTypeOK
  <1>1. CASE UNCHANGED cvars
    BY <1>1, CredentialsStay DEF cvars
  <1>2. CASE InvitationExpires
    BY <1>2, CredentialsStay DEF InvitationExpires
  <1>3. CASE SenderDies
    BY <1>3, CredentialsStay DEF SenderDies
  <1>4. ASSUME NEW to \in PermissionStates, UpdateMine(to) \/ UpdatePeer(to)
        PROVE  CredentialsInv'
    <2>1. CASE UpdateMine(to)
      <3>1. mine'.cred = mine.cred /\ mine'.enrolled = mine.enrolled /\ mine'.state = to
        BY <1>r, <2>1 DEF UpdateMine, Mines
      <3>2. mine.state # "none" /\ to # "none"
        BY <2>1 DEF UpdateMine, Update
      <3>3. UNCHANGED <<invite, peer, pending, call, minted, dropped>>
        BY <2>1 DEF UpdateMine
      <3> QED BY <3>1, <3>2, <3>3, CredentialsStay
    <2>2. CASE UpdatePeer(to)
      <3>1. peer'.cred = peer.cred /\ peer'.state = to
        BY <1>r, <2>2 DEF UpdatePeer, Peers
      <3>2. peer.state # "none" /\ to # "none"
        BY <2>2 DEF UpdatePeer, Update
      <3>3. UNCHANGED <<invite, mine, pending, call, minted, dropped>>
        BY <2>2 DEF UpdatePeer
      <3> QED BY <3>1, <3>2, <3>3, CredentialsStay
    <2> QED BY <1>4, <2>1, <2>2
  <1>5. ASSUME NEW c \in Calls, AcceptInvitation(c)
        PROVE  CredentialsInv'
    <2>1. /\ Only(c) /\ call'[c].pc = "enroll" /\ call'[c].old = minted'
          /\ mine.state = "none" /\ minted' = minted + 1 /\ UNCHANGED <<invite, peer, pending, dropped>>
          /\ mine' = [state |-> "pending_approval", enrolled |-> FALSE, remote |-> "none", cred |-> minted']
      BY <1>r, <1>5 DEF AcceptInvitation, Quiet
    <2>2. minted = 0 /\ peer.state = "none" /\ pending = 0 /\ ~mine.enrolled
      BY <1>n, <2>1 DEF EnrolInv
    <2>3. mine'.cred = 1 /\ mine'.state = "pending_approval" /\ ~mine'.enrolled /\ minted' = 1
      BY <2>1, <2>2
    <2>4. EnrolInv' /\ Chain' /\ Grows
      BY <1>n, <2>1, <2>2, <2>3 DEF EnrolInv, Chain, Grows
    <2>5. CallInv(c)'
      BY <2>1, <2>3 DEF CallInv, Tries
    <2> QED BY <2>1, <2>4, <2>5, CallSteps1
  <1>6. ASSUME NEW c \in Calls, BeginRefresh(c) \/ BeginRotate(c)
        PROVE  CredentialsInv'
    <2>1. /\ Only(c) /\ call'[c].pc \in {"status", "enroll", "mint"} /\ call'[c].old = mine.cred
          /\ call'[c].pc # "enroll" => mine.enrolled
          /\ UNCHANGED <<invite, peer, mine, pending, minted, dropped>>
      <3>1. CASE BeginRefresh(c)
        BY <1>r, <3>1 DEF BeginRefresh, Quiet
      <3>2. CASE BeginRotate(c)
        BY <1>r, <3>2 DEF BeginRotate, Quiet
      <3> QED BY <1>6, <3>1, <3>2
    <2>2. mine.state # "none"
      BY <1>n, <1>6 DEF BeginRefresh, BeginRotate, EnrolInv
    <2>3. EnrolInv' /\ Chain' /\ Grows
      BY <1>n, <2>1 DEF EnrolInv, Chain, Grows
    <2>4. CallInv(c)'
      BY <1>n, <2>1, <2>2 DEF CallInv, Tries, EnrolInv
    <2> QED BY <2>1, <2>3, <2>4, CallSteps1
  <1>7. ASSUME NEW c \in Calls, NEW expected \in BOOLEAN, PeerEnrolls(c, expected)
        PROVE  CredentialsInv'
    <2>1. /\ Only(c) /\ call[c].pc = "enroll" /\ call'[c].pc = "enrolled"
          /\ call'[c].old = call[c].old /\ call'[c].reply = peer'.state
          /\ UNCHANGED <<mine, pending, minted, dropped>>
      BY <1>r, <1>7 DEF PeerEnrolls, CallRecords
    <2>2. mine.state # "none" /\ 1 <= call[c].old /\ call[c].old <= mine.cred
      BY <1>n, <2>1 DEF CallInv
    <2>3. CASE invite = "open"
      <3>1. peer.state = "none" /\ minted <= 1 /\ pending = 0 /\ ~mine.enrolled /\ mine.cred <= minted
        BY <1>n, <2>3 DEF EnrolInv, Chain
      <3>2. peer'.cred = call[c].old /\ peer'.state # "none" /\ invite' = "redeemed"
        BY <1>7, <2>3 DEF PeerEnrolls
      <3>3. peer'.cred = mine.cred /\ mine.cred = 1 /\ minted = 1
        BY <1>n, <2>2, <3>1, <3>2
      <3>4. peer.cred <= peer'.cred
        BY <1>n, <3>3 DEF Chain
      <3>5. EnrolInv' /\ Chain' /\ Grows
        BY <1>n, <2>1, <2>2, <3>1, <3>2, <3>3, <3>4 DEF EnrolInv, Chain, Grows
      <3>6. CallInv(c)'
        BY <2>1, <2>2, <3>2 DEF CallInv, Tries
      <3> QED BY <2>1, <3>5, <3>6, CallSteps1
    <2>4. CASE invite # "open"
      <3>1. UNCHANGED <<invite, peer>> /\ invite = "redeemed" /\ peer.cred = call[c].old
        BY <1>7, <2>4 DEF PeerEnrolls
      <3>2. peer.state # "none"
        BY <1>n, <3>1 DEF EnrolInv
      <3>5. EnrolInv' /\ Chain' /\ Grows
        BY <1>n, <2>1, <3>1 DEF EnrolInv, Chain, Grows
      <3>6. CallInv(c)'
        BY <2>1, <2>2, <3>1, <3>2 DEF CallInv, Tries
      <3> QED BY <2>1, <3>5, <3>6, CallSteps1
    <2> QED BY <2>3, <2>4
  <1>8. ASSUME NEW c \in Calls, PeerRefusesEnrolment(c) \/ LoseCall(c)
        PROVE  CredentialsInv'
    BY <1>r, <1>8, CredentialsStay DEF PeerRefusesEnrolment, LoseCall, EndCall
  <1>9. ASSUME NEW c \in Calls, FinishEnrolment(c)
        PROVE  CredentialsInv'
    <2>1. /\ Only(c) /\ call[c].pc = "enrolled" /\ call'[c].pc = "idle"
          /\ UNCHANGED <<invite, peer, pending, minted, dropped>>
      BY <1>r, <1>9 DEF FinishEnrolment, EndCall, Quiet
    <2>2. mine.state # "none" /\ peer.state # "none" /\ call[c].reply # "none"
      BY <1>n, <2>1 DEF CallInv
    <2>3. mine'.cred = mine.cred /\ mine'.state # "none" /\ (mine.enrolled => mine'.enrolled)
      BY <1>r, <1>9, <2>2 DEF FinishEnrolment, Mines
    <2>4. EnrolInv' /\ Chain' /\ Grows
      BY <1>n, <2>1, <2>2, <2>3 DEF EnrolInv, Chain, Grows
    <2>5. CallInv(c)'
      BY <2>1 DEF CallInv, Tries
    <2> QED BY <2>1, <2>4, <2>5, CallSteps1
  <1>10. ASSUME NEW c \in Calls, PeerStatus(c) \/ TryPending(c) \/ PeerStatusNext(c)
        PROVE  CredentialsInv'
    <2>1. Only(c) /\ UNCHANGED <<invite, peer, mine, pending, minted, dropped>>
      BY <1>r, <1>10 DEF PeerStatus, TryPending, PeerStatusNext, EndCall
    <2>2. EnrolInv' /\ Chain' /\ Grows
      BY <1>n, <2>1 DEF EnrolInv, Chain, Grows
    <2>3. CASE PeerStatus(c)
      <3>1. call[c].pc = "status" /\ call'[c].pc \in {"answered", "refused"} /\ call'[c].old = call[c].old
        BY <1>r, <2>3 DEF PeerStatus, CallRecords
      <3>2. CallInv(c)'
        BY <1>n, <2>1, <3>1 DEF CallInv, Tries
      <3> QED BY <2>1, <2>2, <3>2, CallSteps1
    <2>4. CASE TryPending(c)
      <3>1. /\ call[c].pc = "refused"
            /\ \/ call'[c].pc = "idle"
               \/ /\ call'[c].pc = "retry" /\ call'[c].old = call[c].old
                  /\ call'[c].next = pending /\ pending # 0
        <4>1. CASE pending = 0
          BY <1>r, <2>4, <4>1 DEF TryPending, EndCall, Quiet
        <4>2. CASE pending # 0
          <5>1. call[c].pc = "refused" /\ call'[c] = [call[c] EXCEPT !.pc = "retry", !.next = pending]
            BY <1>r, <2>4, <4>2 DEF TryPending
          <5>2. call[c] \in CallRecords
            BY <1>r
          <5> QED BY <4>2, <5>1, <5>2 DEF CallRecords
        <4> QED BY <4>1, <4>2
      <3>2. CallInv(c)'
        BY <1>n, <2>1, <3>1 DEF CallInv, Tries, Chain
      <3> QED BY <2>1, <2>2, <3>2, CallSteps1
    <2>5. CASE PeerStatusNext(c)
      <3>1. /\ call[c].pc = "retry"
            /\ \/ call'[c].pc = "idle"
               \/ /\ call'[c].pc = "moved" /\ call'[c].old = call[c].old
                  /\ call'[c].next = call[c].next /\ peer.cred = call[c].next
        <4>1. CASE peer.cred # call[c].next
          BY <1>r, <2>5, <4>1 DEF PeerStatusNext, EndCall, Quiet
        <4>2. CASE peer.cred = call[c].next
          <5>1. call[c].pc = "retry" /\ call'[c] = [call[c] EXCEPT !.pc = "moved", !.reply = peer.state]
            BY <1>r, <2>5, <4>2 DEF PeerStatusNext
          <5>2. call[c] \in CallRecords
            BY <1>r
          <5> QED BY <4>2, <5>1, <5>2 DEF CallRecords
        <4> QED BY <4>1, <4>2
      <3>2. CallInv(c)'
        BY <1>n, <2>1, <3>1 DEF CallInv, Tries
      <3> QED BY <2>1, <2>2, <3>2, CallSteps1
    <2> QED BY <1>10, <2>3, <2>4, <2>5
  <1>11. ASSUME NEW c \in Calls, AdoptMoved(c) \/ AdoptGranted(c)
        PROVE  CredentialsInv'
    <2>1. /\ Only(c) /\ call[c].pc \in {"moved", "granted"}
          /\ \/ call'[c].pc = "idle"
             \/ /\ call'[c].pc = "clear" \/ (call'[c].pc = "close" /\ Rotates(c))
                /\ call'[c].old = call[c].old /\ call'[c].next = call[c].next
          /\ UNCHANGED <<invite, peer, pending, minted, dropped>>
      <3>1. CASE AdoptMoved(c)
        BY <1>r, <3>1 DEF AdoptMoved, At, CallRecords
      <3>2. CASE AdoptGranted(c)
        BY <1>r, <3>2 DEF AdoptGranted, At, EndCall, Quiet, CallRecords
      <3> QED BY <1>11, <3>1, <3>2
    <2>2. /\ mine.state # "none" /\ mine.enrolled /\ 1 <= call[c].old
          /\ call[c].old <= mine.cred /\ call[c].old <= call[c].next
          /\ call[c].next <= minted /\ call[c].next <= peer.cred
      BY <1>n, <2>1 DEF CallInv, Tries
    <2>3. mine'.cred = (IF Rotates(c) THEN call[c].next ELSE mine.cred)
          /\ mine'.state = mine.state /\ mine'.enrolled = mine.enrolled
      BY <1>r, <1>11 DEF AdoptMoved, AdoptGranted, Rotated, Mines
    <2>4. Rotates(c) => mine.cred <= call[c].next
      BY <1>n, <2>2 DEF Rotates
    <2>5. mine.cred <= mine'.cred /\ mine'.cred <= minted
          /\ (peer.state # "none" => mine'.cred <= peer.cred)
      BY <1>n, <2>2, <2>3, <2>4 DEF Chain
    <2>6. EnrolInv' /\ Chain' /\ Grows
      BY <1>n, <2>1, <2>2, <2>3, <2>5 DEF EnrolInv, Chain, Grows
    <2>7. CallInv(c)'
      BY <1>n, <2>1, <2>2, <2>3, <2>5 DEF CallInv, Tries
    <2> QED BY <2>1, <2>6, <2>7, CallSteps1
  <1>12. ASSUME NEW c \in Calls, ClearMoved(c) \/ ClearGranted(c)
        PROVE  CredentialsInv'
    <2>1. /\ Only(c) /\ UNCHANGED <<invite, peer, mine, minted>>
          /\ pending' = IF pending = call[c].next THEN 0 ELSE pending
          /\ \/ call'[c].pc = "answered" /\ call'[c].old = call[c].old
             \/ call'[c].pc = "idle"
      <3>1. CASE ClearMoved(c)
        BY <1>r, <3>1 DEF ClearMoved, At, CallRecords
      <3>2. CASE ClearGranted(c)
        BY <1>r, <3>2 DEF ClearGranted, EndCall, Quiet
      <3> QED BY <1>12, <3>1, <3>2
    <2>2. call[c].pc \in {"clear", "close"}
      BY <1>12 DEF ClearMoved, ClearGranted
    <2>3. ~dropped' /\ pending = call[c].next /\ pending # 0 => mine.cred = minted
      <3>1. CASE ClearMoved(c)
        <4>1. dropped' = (dropped \/ (pending = call[c].next /\ mine.cred # pending))
          BY <3>1 DEF ClearMoved
        <4> QED BY <1>n, <4>1 DEF Chain
      <3>2. CASE ClearGranted(c)
        BY <1>n, <2>2, <3>2 DEF ClearGranted, CallInv, Chain
      <3> QED BY <1>12, <3>1, <3>2
    <2>4. ~dropped' => ~dropped
      <3>1. CASE ClearMoved(c)
        BY <1>n, <3>1 DEF ClearMoved, CredentialsTypeOK
      <3>2. CASE ClearGranted(c)
        BY <3>2 DEF ClearGranted
      <3> QED BY <1>12, <3>1, <3>2
    <2>5. EnrolInv' /\ Chain' /\ Grows
      BY <1>n, <2>1, <2>3, <2>4 DEF EnrolInv, Chain, Grows
    <2>6. CallInv(c)'
      BY <1>n, <2>1, <2>2 DEF CallInv, Tries
    <2> QED BY <2>1, <2>5, <2>6, CallSteps1
  <1>13. ASSUME NEW c \in Calls, Contact(c)
        PROVE  CredentialsInv'
    <2>1. /\ Only(c) /\ call[c].pc = "answered" /\ call'[c].pc = "idle"
          /\ UNCHANGED <<invite, peer, pending, minted, dropped>>
      BY <1>r, <1>13 DEF Contact, EndCall, Quiet
    <2>2. mine'.cred = mine.cred /\ mine'.enrolled = mine.enrolled
          /\ ((mine'.state = "none") <=> (mine.state = "none"))
      BY <1>r, <1>13 DEF Contact, Mines
    <2>3. EnrolInv' /\ Chain' /\ Grows
      BY <1>n, <2>1, <2>2 DEF EnrolInv, Chain, Grows
    <2>4. CallInv(c)'
      BY <2>1 DEF CallInv, Tries
    <2> QED BY <2>1, <2>3, <2>4, CallSteps1
  <1>14. ASSUME NEW c \in Calls, PendingRotation(c)
        PROVE  CredentialsInv'
    <2>1. /\ Only(c) /\ call[c].pc = "mint" /\ call'[c].pc = "ask"
          /\ call'[c].old = call[c].old /\ call'[c].next = pending'
          /\ UNCHANGED <<invite, peer, mine, dropped>>
      BY <1>r, <1>14 DEF PendingRotation, CallRecords
    <2>2. /\ minted' = IF pending = 0 THEN minted + 1 ELSE minted
          /\ pending' = IF pending = 0 THEN minted' ELSE pending
      BY <1>14 DEF PendingRotation
    <2>3. mine.enrolled /\ mine.state # "none" /\ 1 <= call[c].old /\ call[c].old <= mine.cred
      BY <1>n, <2>1 DEF CallInv
    <2>4. mine.cred <= minted /\ pending' = minted' /\ minted <= minted' /\ peer.state # "none"
      BY <1>n, <2>2, <2>3 DEF Chain, EnrolInv
    <2>5. EnrolInv' /\ Chain' /\ Grows
      BY <1>n, <2>1, <2>2, <2>3, <2>4 DEF EnrolInv, Chain, Grows
    <2>6. CallInv(c)'
      BY <1>n, <2>1, <2>3, <2>4 DEF CallInv, Tries
    <2> QED BY <2>1, <2>5, <2>6, CallSteps1
  <1>15. ASSUME NEW c \in Calls, PeerRotates(c)
        PROVE  CredentialsInv'
    <2>1. Only(c) /\ call[c].pc = "ask" /\ UNCHANGED <<invite, mine, pending, minted, dropped>>
      BY <1>r, <1>15 DEF PeerRotates, At, EndCall
    <2>2. /\ mine.enrolled /\ mine.state # "none" /\ 1 <= call[c].old /\ call[c].old <= mine.cred
          /\ call[c].old <= call[c].next /\ call[c].next <= minted
      BY <1>n, <2>1 DEF CallInv, Tries
    <2>3. CASE UNCHANGED peer /\ call'[c].pc = "idle"
      <3>1. EnrolInv' /\ Chain' /\ Grows
        BY <1>n, <2>1, <2>3 DEF EnrolInv, Chain, Grows
      <3>2. CallInv(c)'
        BY <2>3 DEF CallInv, Tries
      <3> QED BY <2>1, <3>1, <3>2, CallSteps1
    <2>4. CASE /\ peer.cred \in {call[c].old, call[c].next}
               /\ peer' = [peer EXCEPT !.cred = call[c].next]
               /\ call' = [call EXCEPT ![c].pc = "granted"]
      <3>1. peer'.state = peer.state /\ peer'.cred = call[c].next
        BY <1>r, <2>4 DEF Peers
      <3>2. call'[c].pc = "granted" /\ call'[c].old = call[c].old /\ call'[c].next = call[c].next
        BY <1>r, <2>4 DEF CallRecords
      <3>3. peer.cred <= peer'.cred
        BY <1>n, <2>2, <2>4, <3>1
      <3>4. EnrolInv' /\ Chain' /\ Grows
        BY <1>n, <2>1, <2>2, <3>1, <3>3 DEF EnrolInv, Chain, Grows
      <3>5. CallInv(c)'
        BY <1>n, <2>1, <2>2, <3>1, <3>2 DEF CallInv, Tries
      <3> QED BY <2>1, <3>4, <3>5, CallSteps1
    <2> QED BY <1>r, <1>15, <2>3, <2>4 DEF PeerRotates, At, EndCall, Quiet
  <1> QED BY <1>1, <1>2, <1>3, <1>4, <1>5, <1>6, <1>7, <1>8, <1>9, <1>10, <1>11, <1>12, <1>13,
      <1>14, <1>15 DEF CredentialsNext

-----------------------------------------------------------------------------
\* rotate, refresh_route_inner, clear_trade_rotation: whatever calls overlap and
\* are lost, the credential the receiver expects is on the sender's disk, as
\* current or as pending, unless a refresh has dropped a pending credential that
\* it had not made the current one.  That is the one way to lose a route: the run
\* trade_rotation takes it.
THEOREM CredentialKept ==
  CredentialsSpec => [](CredentialsTypeOK /\ (dropped \/ CredentialsHold))
  <1>1. CredentialsInit => CredentialsInv
    BY CredentialsInitInv
  <1>2. CredentialsInv /\ [CredentialsNext]_cvars => CredentialsInv'
    BY CredentialsTypesKept, CredentialsInvKept DEF CredentialsInv
  <1>3. CredentialsInv => CredentialsTypeOK /\ (dropped \/ CredentialsHold)
    <2> SUFFICES ASSUME CredentialsInv, ~dropped, peer.state # "none"
                 PROVE  peer.cred \in {mine.cred, pending}
      BY DEF CredentialsInv, CredentialsHold, CredentialRecoverable
    <2> QED BY CredentialsAssumption
        DEF CredentialsInv, CredentialsTypeOK, Mines, Peers, Chain
  <1> QED BY <1>1, <1>2, <1>3, PTL DEF CredentialsSpec

------------------------------------------------------------------------------
\* Trade routes.

\* What the sender believes is behind what the receiver recorded: a receipt it
\* holds or writes exists, and the receiver knows every route that is bound.
BeliefInv ==
  /\ export.receipt \/ export.pc \in {"record", "complete"} => inbound.receipt
  /\ bound.row \/ export.pc = "bind" => inbound.row

\* No bytes before the binding, no withdrawal without one, and an
\* acknowledgement under way is as good as one recorded.
BindingInv ==
  /\ export.pc = "send" \/ courier.pc # "idle" => bound.row
  /\ courier.ok => inbound.revoked /\ ~LiveSession

RoutesInv == RoutesTypeOK /\ BeliefInv /\ BindingInv /\ DeliveredOnce /\ WithdrawalStops

LEMMA RoutesInitInv ==
  ASSUME RoutesInit
  PROVE  RoutesInv
  <1> USE RoutesAssumption DEF RoutesInit
  <1>1. order \in Orders /\ bound \in Bindings
    BY DEF Orders, Bindings
  <1>2. export \in Exports /\ courier \in Couriers /\ inbound \in Inbounds
    BY DEF Exports, Couriers, Inbounds, Unanswered, NoControl
  <1>3. RoutesTypeOK
    <2>1. /\ terms \in [state : {"active", "paused", "revoked"}, cancel : BOOLEAN]
          /\ session \in [Uploads -> {"none", "live", "removed", "ended"}]
      OBVIOUS
    <2>2. access \in {"active", "closed"} /\ whole \subseteq Uploads /\ late \in BOOLEAN
      OBVIOUS
    <2>3. changes \in 0 .. MaxChanges
      OBVIOUS
    <2> HIDE DEF RoutesInit
    <2> QED BY <1>1, <1>2, <2>1, <2>2, <2>3 DEF RoutesTypeOK
  <1>4. BeliefInv /\ BindingInv /\ DeliveredOnce /\ WithdrawalStops
    BY DEF BeliefInv, BindingInv, DeliveredOnce, WithdrawalStops, Unanswered, NoControl,
       LiveSession
  <1> QED BY <1>3, <1>4 DEF RoutesInv

-----------------------------------------------------------------------------
\* Every step keeps the types.
LEMMA RoutesTypesKept ==
  ASSUME RoutesTypeOK, [RoutesNext]_rvars
  PROVE  RoutesTypeOK'
  <1> USE RoutesAssumption DEF RoutesTypeOK, sending, receiving
  <1>1. CASE UNCHANGED rvars
    BY <1>1 DEF rvars
  <1>2. CASE ClaimExport
    <2>1. MaxTries \in Nat /\ order.attempts \in 0 .. MaxTries
      BY DEF Orders
    <2>2. order.attempts + 1 \in 0 .. MaxTries
      BY <1>2, <2>1 DEF ClaimExport
    <2>3. order' \in Orders
      BY <1>2, <2>2 DEF ClaimExport, Orders
    <2>4. export' \in Exports
      BY <1>2, <2>2 DEF ClaimExport, Exports, Unanswered
    <2> QED BY <1>2, <2>3, <2>4 DEF ClaimExport
  <1>3. CASE PeerAdmits
    <2>1. inbound' \in Inbounds
      BY <1>3 DEF PeerAdmits, Inbounds
    <2>2. export' \in Exports
      BY <1>3 DEF PeerAdmits, Exports, Inbounds
    <2> QED BY <1>3, <2>1, <2>2 DEF PeerAdmits
  <1>4. CASE Bind
    <2>1. bound' \in Bindings
      BY <1>4 DEF Bind, Bindings, Orders
    <2>2. export' \in Exports
      BY <1>4 DEF Bind, Exports
    <2> QED BY <1>4, <2>1, <2>2 DEF Bind
  <1>5. CASE AbortPrior
    BY <1>5 DEF AbortPrior
  <1>6. CASE SendEnds \/ PeerConfirms \/ ExchangeLost
    <2>1. export' \in Exports
      BY <1>6 DEF SendEnds, PeerConfirms, ExchangeLost, Exports
    <2> QED BY <1>6, <2>1 DEF SendEnds, PeerConfirms, ExchangeLost
  <1>7. CASE RecordReceipt
    <2>1. order' \in Orders
      BY <1>7 DEF RecordReceipt, Orders, Running
    <2>2. export' \in Exports
      BY <1>7 DEF RecordReceipt, Exports
    <2> QED BY <1>7, <2>1, <2>2 DEF RecordReceipt
  <1>8. CASE CompleteExport
    <2>1. order' \in Orders
      BY <1>8 DEF CompleteExport, Orders
    <2>2. export' \in Exports
      <3>1. Unanswered \in Exports /\ [export EXCEPT !.pc = "failed"] \in Exports
        BY DEF Exports, Unanswered
      <3> QED BY <1>8, <3>1 DEF CompleteExport
    <2> QED BY <1>8, <2>1, <2>2 DEF CompleteExport
  <1>9. CASE ExportFails
    <2>1. order' \in Orders
      BY <1>9 DEF ExportFails, FailExport, Orders
    <2>2. export' \in Exports
      BY <1>9 DEF ExportFails, FailExport, Exports, Unanswered
    <2> QED BY <1>9, <2>1, <2>2 DEF ExportFails
  <1>10. CASE SenderCrash
    <2>1. export' \in Exports /\ courier' \in Couriers
      BY <1>10 DEF SenderCrash, Exports, Couriers, Unanswered, NoControl
    <2> QED BY <1>10, <2>1 DEF SenderCrash
  <1>11. ASSUME NEW s \in Uploads,
                OpenSession(s) \/ CompleteRoute(s) \/ SweepSession(s) \/ WorkerEnds(s)
         PROVE  RoutesTypeOK'
    <2>1. inbound' \in Inbounds
      BY <1>11 DEF OpenSession, CompleteRoute, SweepSession, WorkerEnds, Inbounds
    <2>2. late' \in BOOLEAN
      BY <1>11 DEF OpenSession, CompleteRoute, SweepSession, WorkerEnds, Inbounds
    <2>3. session' \in [Uploads -> {"none", "live", "removed", "ended"}] /\ whole' \subseteq Uploads
      BY <1>11 DEF OpenSession, CompleteRoute, SweepSession, WorkerEnds
    <2>4. UNCHANGED <<order, terms, bound, export, courier, access, changes>>
      BY <1>11 DEF OpenSession, CompleteRoute, SweepSession, WorkerEnds
    <2> QED BY <2>1, <2>2, <2>3, <2>4
  <1>12. ASSUME NEW cancel \in BOOLEAN, CloseAccess(cancel)
         PROVE  RoutesTypeOK'
    <2>1. inbound' \in Inbounds
      BY <1>12 DEF CloseAccess, Inbounds
    <2> QED BY <1>12, <2>1 DEF CloseAccess
  <1>13. ASSUME NEW cancel \in BOOLEAN, NEW state \in {"active", "paused", "revoked"},
                UpdateTerms(state, cancel)
         PROVE  RoutesTypeOK'
    <2>1. bound' \in Bindings
      BY <1>13 DEF UpdateTerms, Bindings, Orders
    <2> QED BY <1>13, <2>1 DEF UpdateTerms
  <1>14. CASE CancelOrder
    <2>1. order' \in Orders
      BY <1>14 DEF CancelOrder, Orders
    <2> QED BY <1>14, <2>1 DEF CancelOrder
  <1>15. CASE ClaimRevocation
    <2>1. bound' \in Bindings /\ courier' \in Couriers
      BY <1>15 DEF ClaimRevocation, Bindings, Couriers, NoControl
    <2> QED BY <1>15, <2>1 DEF ClaimRevocation
  <1>16. CASE PeerRevokes
    <2>1. inbound' \in Inbounds /\ courier' \in Couriers
      BY <1>16 DEF PeerRevokes, Inbounds, Couriers
    <2> QED BY <1>16, <2>1 DEF PeerRevokes
  <1>17. CASE ControlLost
    <2>1. courier' \in Couriers
      BY <1>17 DEF ControlLost, Couriers
    <2> QED BY <1>17, <2>1 DEF ControlLost
  <1>18. CASE FinishRevocation
    <2>1. bound' \in Bindings /\ courier' \in Couriers
      BY <1>18 DEF FinishRevocation, Bindings, Couriers, NoControl
    <2> QED BY <1>18, <2>1 DEF FinishRevocation
  <1>19. CASE ControlDue
    <2>1. bound' \in Bindings
      BY <1>19 DEF ControlDue, Bindings
    <2> QED BY <1>19, <2>1 DEF ControlDue
  <1> QED BY <1>1, <1>2, <1>3, <1>4, <1>5, <1>6, <1>7, <1>8, <1>9, <1>10, <1>11, <1>12, <1>13,
      <1>14, <1>15, <1>16, <1>17, <1>18, <1>19 DEF RoutesNext

-----------------------------------------------------------------------------
\* A step that leaves the receiver's recorded state, the bindings and the
\* courier alone keeps everything but what the exporter believes.
LEMMA ExporterAlone ==
  ASSUME RoutesInv, UNCHANGED <<bound, courier, receiving>>,
         order'.receipt \/ order'.done => inbound.receipt
  PROVE  DeliveredOnce' /\ WithdrawalStops' /\ (courier.ok => inbound.revoked /\ ~LiveSession)'
  BY DEF RoutesInv, BindingInv, DeliveredOnce, WithdrawalStops, LiveSession, receiving

LEMMA RoutesInvKept ==
  ASSUME RoutesInv, RoutesTypeOK', [RoutesNext]_rvars
  PROVE  RoutesInv'
  <1> USE DEF RoutesInv, BeliefInv, BindingInv, sending, receiving, Unanswered, NoControl,
      Orders, Bindings, Exports, Couriers, Inbounds
  <1>1. CASE UNCHANGED rvars
    BY <1>1 DEF rvars, DeliveredOnce, WithdrawalStops, LiveSession
  <1>2. CASE ClaimExport
    BY <1>2, ExporterAlone DEF ClaimExport, RoutesTypeOK, DeliveredOnce
  <1>3. CASE PeerAdmits
    BY <1>3 DEF PeerAdmits, RoutesTypeOK, DeliveredOnce, WithdrawalStops, LiveSession
  <1>4. CASE Bind
    BY <1>4 DEF Bind, RoutesTypeOK, DeliveredOnce, WithdrawalStops, LiveSession
  <1>5. CASE AbortPrior
    BY <1>5 DEF AbortPrior, RoutesTypeOK, DeliveredOnce, WithdrawalStops, LiveSession
  <1>6. CASE SendEnds \/ PeerConfirms
    BY <1>6, ExporterAlone DEF SendEnds, PeerConfirms, RoutesTypeOK, DeliveredOnce
  <1>7. CASE RecordReceipt
    BY <1>7, ExporterAlone DEF RecordReceipt, RoutesTypeOK, DeliveredOnce
  <1>8. CASE CompleteExport
    BY <1>8, ExporterAlone DEF CompleteExport, RoutesTypeOK, DeliveredOnce
  <1>9. CASE ExchangeLost
    BY <1>9, ExporterAlone DEF ExchangeLost, RoutesTypeOK, DeliveredOnce
  <1>10. CASE ExportFails
    BY <1>10, ExporterAlone DEF ExportFails, FailExport, RoutesTypeOK, DeliveredOnce
  <1>11. CASE SenderCrash
    BY <1>11 DEF SenderCrash, RoutesTypeOK, DeliveredOnce, WithdrawalStops, LiveSession
  <1>12. ASSUME NEW s \in Uploads, OpenSession(s)
         PROVE  RoutesInv'
    BY <1>12 DEF OpenSession, RoutesTypeOK, DeliveredOnce, WithdrawalStops, LiveSession
  <1>13. ASSUME NEW s \in Uploads, CompleteRoute(s)
         PROVE  RoutesInv'
    BY <1>13 DEF CompleteRoute, RoutesTypeOK, DeliveredOnce, WithdrawalStops, LiveSession
  <1>14. ASSUME NEW s \in Uploads, SweepSession(s) \/ WorkerEnds(s)
         PROVE  RoutesInv'
    BY <1>14 DEF SweepSession, WorkerEnds, RoutesTypeOK, DeliveredOnce, WithdrawalStops,
       LiveSession
  <1>15. ASSUME NEW cancel \in BOOLEAN, CloseAccess(cancel)
         PROVE  RoutesInv'
    BY <1>15 DEF CloseAccess, RoutesTypeOK, DeliveredOnce, WithdrawalStops, LiveSession
  <1>16. ASSUME NEW cancel \in BOOLEAN, NEW state \in {"active", "paused", "revoked"},
                UpdateTerms(state, cancel)
         PROVE  RoutesInv'
    BY <1>16 DEF UpdateTerms, RoutesTypeOK, DeliveredOnce, WithdrawalStops, LiveSession
  <1>17. CASE CancelOrder
    BY <1>17, ExporterAlone DEF CancelOrder, RoutesTypeOK, DeliveredOnce
  <1>18. CASE ClaimRevocation
    BY <1>18 DEF ClaimRevocation, RoutesTypeOK, DeliveredOnce, WithdrawalStops, LiveSession
  <1>19. CASE PeerRevokes
    <2>1. inbound'.revoked
      BY <1>19 DEF PeerRevokes, RoutesTypeOK
    <2>2. ~LiveSession'
      BY <1>19 DEF PeerRevokes, RoutesTypeOK, LiveSession
    <2> QED BY <1>19, <2>1, <2>2 DEF PeerRevokes, RoutesTypeOK, DeliveredOnce, WithdrawalStops
  <1>20. CASE ControlLost
    BY <1>20 DEF ControlLost, RoutesTypeOK, DeliveredOnce, WithdrawalStops, LiveSession
  <1>21. CASE FinishRevocation
    BY <1>21 DEF FinishRevocation, RoutesTypeOK, DeliveredOnce, WithdrawalStops, LiveSession
  <1>22. CASE ControlDue
    BY <1>22 DEF ControlDue, RoutesTypeOK, DeliveredOnce, WithdrawalStops, LiveSession
  <1> QED BY <1>1, <1>2, <1>3, <1>4, <1>5, <1>6, <1>7, <1>8, <1>9, <1>10, <1>11, <1>12, <1>13,
      <1>14, <1>15, <1>16, <1>17, <1>18, <1>19, <1>20, <1>21, <1>22 DEF RoutesNext

THEOREM RoutesInvariance == RoutesSpec => []RoutesInv
  <1>1. RoutesInit => RoutesInv
    BY RoutesInitInv
  <1>2. RoutesInv /\ [RoutesNext]_rvars => RoutesInv'
    BY RoutesTypesKept, RoutesInvKept DEF RoutesInv
  <1> QED BY <1>1, <1>2, PTL DEF RoutesSpec

\* However often a delivery is retried, lost or withdrawn, the receiver records
\* it in full at most once, under its receipt, and the sender calls it
\* delivered only then (export and complete_route).
THEOREM RoutesDeliverOnce == RoutesSpec => []DeliveredOnce
  <1>1. RoutesInv => DeliveredOnce
    BY DEF RoutesInv
  <1> QED BY <1>1, RoutesInvariance, PTL

\* Nothing is sent before the binding is stored, and an acknowledged
\* withdrawal is final at the receiver (bind_outbound_route,
\* revoke_inbound_route).
THEOREM RoutesWithdraw == RoutesSpec => []RoutesHold
  <1>1. RoutesInv => RoutesHold
    BY DEF RoutesInv, RoutesHold
  <1> QED BY <1>1, RoutesInvariance, PTL

------------------------------------------------------------------------------
\* Native pushes.

Sweeping == swp.pc \in {"report", "delete", "discard", "rmdir"}
Unused == pass.id # NoPush /\ ~pass.used

\* Ids in the tables and in memory were handed out; those whose push has not
\* sent a manifest yet name no staging and were never announced.
Unstaged(s) == s \notin {stagedBy, row.stage, swp.row.stage} /\ announced[s] = 0
IdsHeld ==
  /\ {row.id, row.stage, stagedBy, swp.row.id, swp.row.stage, reg.id, pass.id, recv.id, opening}
       \subseteq created \cup {NoPush}
  /\ \A s \in Pushes \ created : announced[s] = 0
  /\ opening # NoPush =>
       /\ Unstaged(opening) /\ opening \notin {row.id, swp.row.id, pass.id}
  /\ Unused => Unstaged(pass.id)
  /\ recv.pc = "connected" => Unstaged(recv.id)

\* The directory lock and the registration belong to the push that is being
\* opened, waits for its connection or receives, and the row names it.
LockHeld ==
  /\ lock \in Pushes => dir
  /\ opening # NoPush => lock = opening /\ (reg.id = opening => ~reg.parked)
  /\ Unused => lock = pass.id /\ row.id = pass.id /\ (reg.id = pass.id => ~reg.parked)
  /\ recv.pc # "none" => /\ recv.id # NoPush /\ lock = recv.id /\ row.id = recv.id
                         /\ reg.id = recv.id /\ reg.connected /\ ~reg.parked
                         /\ opening = NoPush /\ ~Unused
  /\ recv.pc = "none" => recv.id = NoPush /\ ~reg.connected
  /\ lock = Sweeper => Sweeping

\* What a row says its staging holds is there.
RowHeld ==
  /\ row.full <=> row.stage # NoPush
  /\ row.full => row.stage = stagedBy /\ row.id # NoPush
  /\ row.full => \A e \in Entries : disk[e] # "none"
  /\ row.full => \A e \in Entries : disk[e] = "staged" => e \in journal
  /\ row.full => \A e \in Entries : row.prog[e] = 2 => disk[e] = "published"
  /\ row.full /\ ~row.committed => dir
  /\ row.committed => row.full /\ named = Entries /\ \A e \in Entries : disk[e] = "published"

\* The row that a sweep read: its push will not come back, and a push that took
\* its staging over is registered, or the sweep holds the lock that keeps one out.
SweepHeld ==
  swp.pc # "rest" =>
    /\ swp.row.id # NoPush /\ ~swp.row.committed /\ reg.id # swp.row.id
    /\ swp.row.full <=> swp.row.stage # NoPush
    /\ row.id = swp.row.id => row.full = swp.row.full /\ ~row.committed
    /\ swp.pc = "picked" => row.id \in {NoPush, swp.row.id} \/ reg.id # NoPush \/ row.committed
    /\ lock = Sweeper => row.id \in {NoPush, swp.row.id} \/ row.committed
    /\ Sweeping => lock # swp.row.id
    /\ swp.pc \in {"report", "discard"} => swp.row.full
    /\ swp.pc = "discard" => row.id # swp.row.id
    /\ swp.pc = "rmdir" => lock = Sweeper /\ (swp.row.full => row.id # swp.row.id)
    /\ Sweeping /\ swp.row.full /\ row.full /\ ~row.committed /\ row.stage = swp.row.stage
         => lock = Sweeper /\ swp.pc \in {"report", "delete"} /\ row.id = swp.row.id

\* An entry whose row, progress and file are kept in step: each while the push
\* receives, and those that its last checkpoint has yet to write.
Moving(e) == recv.pc = "ready" \/ (recv.pc = "dropping" /\ e \in recv.dirty \cup ck.plan)
EntryHeld ==
  /\ recv.pc = "ready" => row.full
  /\ recv.pc = "connected" => recv.dirty = {}
  /\ \A e \in Entries : Moving(e) =>
       /\ row.full /\ row.prog[e] <= recv.mem[e]
       /\ recv.mem[e] = 2 <=> disk[e] = "published"
  /\ recv.pc = "ready" => \A e \in Entries : recv.marker[e] <= row.prog[e]
  /\ \A e \in Entries :
       /\ rail[e] = "publishing" => recv.mem[e] = 1
       /\ rail[e] = "returned" => recv.mem[e] = 2
       /\ recv.pc # "ready" => rail[e] \in RailEnded

\* A checkpoint on its way writes progress that the entry has not fallen behind.
CheckHeld ==
  /\ ck.by \in Entries => recv.pc = "ready" /\ rail[ck.by] \in {"waiting", "active"}
  /\ ck.by = DropStep => recv.pc = "dropping"
  /\ ck.by = NoPush => ck.plan = {}
  /\ \A e \in ck.plan : /\ ck.at[e] <= recv.mem[e]
                        /\ row.prog[e] <= ck.at[e]
                        /\ ck.written => row.prog[e] = ck.at[e]

\* One rail commits, when every object is complete.
CommitHeld ==
  /\ recv.pc = "none" => ~recv.succeeded
  /\ recv.pc \in {"none", "connected"} => recv.complete = {} /\ ~recv.committing
  /\ recv.pc = "ready" => \A e \in recv.complete : recv.mem[e] = 2
  /\ recv.pc # "none" /\ ~recv.committing => announced[recv.id] = 0
  /\ \A e \in Entries : rail[e] = "committing" =>
       /\ recv.committing /\ recv.complete = Entries /\ announced[recv.id] = 0
       /\ \A f \in Entries \ {e} : rail[f] # "committing"
  /\ recv.succeeded => row.committed
  /\ \A s \in Pushes : announced[s] <= 1

PushInv == PushTypeOK /\ IdsHeld /\ LockHeld /\ RowHeld /\ JournalUntilRecorded /\ SweepHeld
           /\ EntryHeld /\ CheckHeld /\ CommitHeld

LEMMA PushRecords ==
  /\ Zero \in [Entries -> 0 .. 2] /\ NoRecord \in Rows /\ NoReg \in Regs /\ NoPass \in Passes
  /\ NoReceive \in Receives /\ NoCheckpoint \in Checkpoints /\ Resting \in Sweeps
<1>1. Zero \in [Entries -> 0 .. 2]
  BY DEF Zero
<1>2. NoRecord \in Rows
  BY <1>1 DEF NoRecord, Rows
<1> QED
  BY <1>1, <1>2 DEF NoReg, NoPass, NoReceive, NoCheckpoint, Resting, Regs, Passes, Receives,
     Checkpoints, Sweeps


LEMMA PushTypesKept == PushInv /\ [PushNext]_pvars => PushTypeOK'
<1> SUFFICES ASSUME PushInv, [PushNext]_pvars PROVE PushTypeOK'
  OBVIOUS
<1> USE PushAssumption DEF PushInv
<1>1. ASSUME NEW s \in Pushes, LockDirectory(s) PROVE PushTypeOK'
  <2> QED
    BY <1>1 DEF LockDirectory, PushTypeOK, tables, tree, memory, work
<1>2. ASSUME NEW s \in Pushes, RegisterPush(s) PROVE PushTypeOK'
  <2>1. reg' \in Regs
    <3>1. reg' = reg \/ reg' = [NoReg EXCEPT !.id = s]
      BY <1>2 DEF RegisterPush
    <3> QED
      BY <3>1, PushRecords DEF PushTypeOK, Regs
  <2> QED
    BY <1>2, <2>1 DEF RegisterPush, Unlock, Registered, NoReg, PushTypeOK, tables, tree, memory,
       work
<1>3. ASSUME NEW s \in Pushes, PersistPush(s) PROVE PushTypeOK'
  <2>1. row' \in Rows
    BY <1>3 DEF PersistPush, PushTypeOK, Rows
  <2>2. pass' \in Passes
    BY <1>3 DEF PersistPush, PushTypeOK, Passes
  <2> QED
    BY <1>3, <2>1, <2>2 DEF PersistPush, PushTypeOK, tables, tree, memory, work
<1>4. ASSUME NEW s \in Pushes, PersistFails(s) PROVE PushTypeOK'
  <2>1. reg' \in Regs
    BY <1>4 DEF PersistFails, Unlock, NoReg, PushTypeOK, Regs
  <2> QED
    BY <1>4, <2>1 DEF PersistFails, Unlock, NoReg, PushTypeOK, tables, tree, memory, work
<1>5. ASSUME NEW s \in Pushes, IssueFails(s) PROVE PushTypeOK'
  <2>1. row' \in Rows
    BY <1>5 DEF IssueFails, Unlock, Park, PushTypeOK, Rows
  <2>2. reg' \in Regs
    BY <1>5 DEF IssueFails, Unlock, Park, PushTypeOK, Regs
  <2> QED
    BY <1>5, <2>1, <2>2 DEF IssueFails, Unlock, Park, PushTypeOK, tables, tree, memory, work
<1>6. ASSUME Connect PROVE PushTypeOK'
  <2>1. reg' \in Regs
    BY <1>6 DEF Connect, NoReceive, Zero, PushTypeOK, Regs
  <2>2. pass' \in Passes
    BY <1>6 DEF Connect, NoReceive, Zero, PushTypeOK, Passes
  <2>3. recv' \in Receives
    <3>1. recv' = [NoReceive EXCEPT !.id = pass.id, !.pc = "connected"]
      BY <1>6 DEF Connect
    <3>2. pass.id \in Pushes \cup {NoPush}
      BY DEF PushTypeOK, Passes
    <3> QED
      BY <3>1, <3>2, PushRecords DEF Receives
  <2>4. rail' \in [Entries -> RailSteps]
    BY <1>6 DEF Connect, NoReceive, Zero, PushTypeOK, RailSteps
  <2> QED
    BY <1>6, <2>1, <2>2, <2>3, <2>4 DEF Connect, NoReceive, Zero, PushTypeOK, tables, tree,
       memory, work
<1>7. ASSUME Manifest PROVE PushTypeOK'
  <2> DEFINE mem == IF row.full THEN [x \in Entries |-> Restored(x)] ELSE Zero
  <2>1. mem \in [Entries -> 0 .. 2]
    BY PushRecords DEF Restored, PushTypeOK, Rows
  <2>2. /\ row' = [NoRecord EXCEPT !.id = recv.id, !.full = TRUE, !.stage = stagedBy', !.prog = mem]
        /\ recv' = [recv EXCEPT !.pc = "ready", !.mem = mem, !.marker = mem]
    BY <1>7 DEF Manifest
  <2> HIDE DEF mem
  <2>3. recv.id \in Pushes \cup {NoPush} /\ stagedBy' \in Pushes \cup {NoPush}
    BY <1>7 DEF Manifest, PushTypeOK, Receives
  <2>4. row' \in Rows
    BY <2>1, <2>2, <2>3, PushRecords DEF Rows
  <2>5. recv' \in Receives
    BY <2>1, <2>2 DEF PushTypeOK, Receives
  <2>6. disk' \in [Entries -> {"none", "staged", "published"}] /\ journal' \subseteq Entries
    BY <1>7 DEF Manifest, PushTypeOK
  <2> QED
    BY <1>7, <2>3, <2>4, <2>5, <2>6 DEF Manifest, PushTypeOK, memory
<1>8. ASSUME NEW e \in Entries, ChooseSink(e) PROVE PushTypeOK'
  <2>1. rail' \in [Entries -> RailSteps]
    BY <1>8 DEF ChooseSink, Live, PushTypeOK, RailSteps
  <2> QED
    BY <1>8, <2>1 DEF ChooseSink, Live, PushTypeOK, tables, tree, memory, work
<1>9. ASSUME NEW e \in Entries, Place(e) PROVE PushTypeOK'
  <2>1. recv' \in Receives
    <3>1. recv' = [recv EXCEPT !.mem = [recv.mem EXCEPT ![e] = 1], !.dirty = recv.dirty \cup {e}]
      BY <1>9 DEF Place, PushTypeOK, Receives
    <3>2. [recv.mem EXCEPT ![e] = 1] \in [Entries -> 0 .. 2] /\ recv.dirty \cup {e} \in SUBSET Entries
      BY DEF PushTypeOK, Receives
    <3> QED
      BY <3>1, <3>2 DEF PushTypeOK, Receives
  <2> QED
    BY <1>9, <2>1 DEF Place, Live, PushTypeOK, tables, tree, memory, work
<1>10. ASSUME NEW e \in Entries, TakeObject(e) PROVE PushTypeOK'
  <2>1. rail' \in [Entries -> RailSteps]
    BY <1>10 DEF TakeObject, Live, PushTypeOK, RailSteps
  <2> QED
    BY <1>10, <2>1 DEF TakeObject, Live, PushTypeOK, tables, tree, memory, work
<1>11. ASSUME NEW e \in Entries, PublishObject(e) PROVE PushTypeOK'
  <2>1. recv' \in Receives
    BY <1>11 DEF PublishObject, PushTypeOK, Receives
  <2>2. rail' \in [Entries -> RailSteps]
    BY <1>11 DEF PublishObject, PushTypeOK, RailSteps
  <2>3. disk' \in [Entries -> {"none", "staged", "published"}]
    BY <1>11 DEF PublishObject, PushTypeOK
  <2> QED
    BY <1>11, <2>1, <2>2, <2>3 DEF PublishObject, PushTypeOK, tables, tree, memory, work
<1>12. ASSUME NEW e \in Entries, NEW due \in BOOLEAN, CountObject(e, due) PROVE PushTypeOK'
  <2>1. recv' \in Receives
    BY <1>12 DEF CountObject, PushTypeOK, Receives
  <2>2. rail' \in [Entries -> RailSteps]
    BY <1>12 DEF CountObject, PushTypeOK, RailSteps
  <2> QED
    BY <1>12, <2>1, <2>2 DEF CountObject, PushTypeOK, tables, tree, memory, work
<1>13. ASSUME NEW e \in Entries, DecideCommit(e) PROVE PushTypeOK'
  <2>1. recv' \in Receives
    BY <1>13 DEF DecideCommit, PushTypeOK, Receives
  <2>2. rail' \in [Entries -> RailSteps]
    BY <1>13 DEF DecideCommit, PushTypeOK, RailSteps
  <2> QED
    BY <1>13, <2>1, <2>2 DEF DecideCommit, PushTypeOK, tables, tree, memory, work
<1>14. ASSUME NEW e \in Entries, CommitPush(e) PROVE PushTypeOK'
  <2>1. row' \in Rows
    BY <1>14 DEF CommitPush, PushTypeOK, Rows
  <2>2. recv' \in Receives
    BY <1>14 DEF CommitPush, PushTypeOK, Receives
  <2>3. rail' \in [Entries -> RailSteps]
    BY <1>14 DEF CommitPush, PushTypeOK, RailSteps
  <2>4. announced' \in [Pushes -> Nat]
    <3>1. announced' = [announced EXCEPT ![recv.id] = announced[recv.id] + 1]
      BY <1>14 DEF CommitPush
    <3>2. announced \in [Pushes -> Nat]
      BY DEF PushTypeOK
    <3>3. CASE recv.id \in Pushes
      <4>1. announced[recv.id] + 1 \in Nat
        BY <3>2, <3>3
      <4> QED
        BY <3>1, <3>2, <3>3, <4>1
    <3>4. CASE recv.id \notin Pushes
      BY <3>1, <3>2, <3>4
    <3> QED
      BY <3>3, <3>4
  <2> QED
    BY <1>14, <2>1, <2>2, <2>3, <2>4 DEF CommitPush, PushTypeOK, tables, tree, memory, work
<1>15. ASSUME NEW e \in Entries, RailFails(e) PROVE PushTypeOK'
  <2>1. rail' \in [Entries -> RailSteps]
    BY <1>15 DEF RailFails, PushTypeOK, RailSteps
  <2> QED
    BY <1>15, <2>1 DEF RailFails, PushTypeOK, tables, tree, memory, work
<1>16. ASSUME NEW by \in Entries \cup {DropStep}, BeginCheckpoint(by) PROVE PushTypeOK'
  <2>1. recv' \in Receives
    BY <1>16 DEF BeginCheckpoint, PushTypeOK, Receives
  <2>2. ck' \in Checkpoints
    BY <1>16 DEF BeginCheckpoint, PushTypeOK, Checkpoints, Receives
  <2> QED
    BY <1>16, <2>1, <2>2 DEF BeginCheckpoint, PushTypeOK, tables, tree, memory, work
<1>17. ASSUME WriteCheckpoint PROVE PushTypeOK'
  <2>1. row' \in Rows
    BY <1>17 DEF WriteCheckpoint, PushTypeOK, Rows, Checkpoints
  <2>2. ck' \in Checkpoints
    BY <1>17 DEF WriteCheckpoint, PushTypeOK, Checkpoints, Receives
  <2> QED
    BY <1>17, <2>1, <2>2 DEF WriteCheckpoint, PushTypeOK, tables, tree, memory, work
<1>18. ASSUME CheckpointFails PROVE PushTypeOK'
  <2>1. recv' \in Receives
    <3>1. ck.plan \subseteq Entries /\ recv.dirty \cup ck.plan \in SUBSET Entries
      BY DEF PushTypeOK, Checkpoints, Receives
    <3>2. recv' = [recv EXCEPT !.dirty = recv.dirty \cup ck.plan,
                               !.pc = IF ck.by = DropStep THEN "dropped" ELSE recv.pc]
      BY <1>18 DEF CheckpointFails, PushTypeOK, Receives
    <3> QED
      BY <3>1, <3>2 DEF PushTypeOK, Receives
  <2>2. ck' \in Checkpoints
    BY <1>18 DEF CheckpointFails, NoCheckpoint, Zero, PushTypeOK, Checkpoints, Receives
  <2>3. rail' \in [Entries -> RailSteps]
    BY <1>18 DEF CheckpointFails, NoCheckpoint, Zero, PushTypeOK, RailSteps
  <2> QED
    BY <1>18, <2>1, <2>2, <2>3 DEF CheckpointFails, NoCheckpoint, Zero, PushTypeOK, tables, tree,
       memory, work
<1>19. ASSUME NEW f \in SUBSET Entries, EndCheckpoint(f) PROVE PushTypeOK'
  <2>1. recv' \in Receives
    <3> DEFINE marker == [x \in Entries |-> IF x \in Unmoved THEN recv.mem[x] ELSE recv.marker[x]]
               dirty == recv.dirty \cup (ck.plan \ Unmoved)
    <3>1. marker \in [Entries -> 0 .. 2] /\ dirty \in SUBSET Entries
      BY DEF PushTypeOK, Checkpoints, Receives
    <3>2. recv' = [recv EXCEPT !.marker = marker, !.dirty = dirty,
                               !.pc = IF ck.by = DropStep THEN "dropped" ELSE recv.pc]
      BY <1>19 DEF EndCheckpoint, PushTypeOK, Receives
    <3> HIDE DEF marker, dirty
    <3> QED
      BY <3>1, <3>2 DEF PushTypeOK, Receives
  <2>2. ck' \in Checkpoints
    BY <1>19 DEF EndCheckpoint, Unmoved, NoCheckpoint, Zero, PushTypeOK, Checkpoints, Receives
  <2>3. rail' \in [Entries -> RailSteps]
    BY <1>19 DEF EndCheckpoint, Unmoved, NoCheckpoint, Zero, PushTypeOK, RailSteps
  <2> QED
    BY <1>19, <2>1, <2>2, <2>3 DEF EndCheckpoint, Unmoved, NoCheckpoint, Zero, PushTypeOK, tables,
       tree, memory, work
<1>20. ASSUME Dropping PROVE PushTypeOK'
  <2>1. recv' \in Receives
    BY <1>20 DEF Dropping, RailEnded, PushTypeOK, Receives
  <2> QED
    BY <1>20, <2>1 DEF Dropping, RailEnded, PushTypeOK, tables, tree, memory, work
<1>21. ASSUME Retained PROVE PushTypeOK'
  <2>1. reg' \in Regs
    BY <1>21 DEF Retained, Unlock, Unregister, Park, NoReg, NoPass, NoReceive, PushTypeOK, Regs
  <2>2. pass' \in Passes
    BY <1>21 DEF Retained, Unlock, Unregister, Park, NoReg, NoPass, NoReceive, PushTypeOK, Passes
  <2>3. recv' \in Receives
    BY <1>21, PushRecords DEF Retained
  <2> QED
    BY <1>21, <2>1, <2>2, <2>3 DEF Retained, Unlock, Unregister, Park, NoReg, NoPass, NoReceive,
       PushTypeOK, tables, tree, memory, work
<1>22. ASSUME NEW r \in BOOLEAN, NEW d \in BOOLEAN, Cleared(r, d) PROVE PushTypeOK'
  <2>1. row' \in Rows
    BY <1>22 DEF Cleared, Unlock, Unregister, NoReg, NoPass, NoReceive, NoRecord, Zero,
       PushTypeOK, Rows
  <2>2. reg' \in Regs
    BY <1>22 DEF Cleared, Unlock, Unregister, NoReg, NoPass, NoReceive, NoRecord, Zero,
       PushTypeOK, Regs
  <2>3. pass' \in Passes
    BY <1>22 DEF Cleared, Unlock, Unregister, NoReg, NoPass, NoReceive, NoRecord, Zero,
       PushTypeOK, Passes
  <2>4. recv' \in Receives
    BY <1>22 DEF Cleared, Unlock, Unregister, NoReg, NoPass, NoReceive, NoRecord, Zero,
       PushTypeOK, Receives
  <2>5. disk' \in [Entries -> {"none", "staged", "published"}]
    BY <1>22 DEF Cleared, Unlock, Unregister, NoReg, NoPass, NoReceive, NoRecord, Zero, PushTypeOK
  <2> QED
    BY <1>22, <2>1, <2>2, <2>3, <2>4, <2>5 DEF Cleared, Unlock, Unregister, NoReg, NoPass,
       NoReceive, NoRecord, Zero, PushTypeOK, tables, tree, memory, work
<1>23. ASSUME CancelPush PROVE PushTypeOK'
  <2>1. recv' \in Receives
    BY <1>23 DEF CancelPush, PushTypeOK, Receives
  <2> QED
    BY <1>23, <2>1 DEF CancelPush, PushTypeOK, tables, tree, memory, work
<1>24. ASSUME AbortUnconnected PROVE PushTypeOK'
  <2>1. reg' \in Regs
    BY <1>24 DEF AbortUnconnected, Unlock, Park, NoPass, PushTypeOK, Regs
  <2>2. pass' \in Passes
    BY <1>24 DEF AbortUnconnected, Unlock, Park, NoPass, PushTypeOK, Passes
  <2> QED
    BY <1>24, <2>1, <2>2 DEF AbortUnconnected, Unlock, Park, NoPass, PushTypeOK, tables, tree,
       memory, work
<1>25. ASSUME NEW to \in {"closed", "expired", "removed"}, CloseLink(to) PROVE PushTypeOK'
  <2> QED
    BY <1>25 DEF CloseLink, PushTypeOK, tables, tree, memory, work
<1>26. ASSUME ReopenLink PROVE PushTypeOK'
  <2> QED
    BY <1>26 DEF ReopenLink, PushTypeOK, tables, tree, memory, work
<1>27. ASSUME SweepIdle PROVE PushTypeOK'
  <2>1. reg' \in Regs
    BY <1>27 DEF SweepIdle, NoReg, Registered, PushTypeOK, Regs
  <2> QED
    BY <1>27, <2>1 DEF SweepIdle, NoReg, Registered, PushTypeOK, tables, tree, memory, work
<1>28. ASSUME SweepTicket PROVE PushTypeOK'
  <2>1. reg' \in Regs
    BY <1>28 DEF SweepTicket, Unlock, Park, NoPass, PushTypeOK, Regs
  <2>2. pass' \in Passes
    BY <1>28 DEF SweepTicket, Unlock, Park, NoPass, PushTypeOK, Passes
  <2>3. recv' \in Receives
    BY <1>28 DEF SweepTicket, Unlock, Park, NoPass, PushTypeOK, Receives
  <2> QED
    BY <1>28, <2>1, <2>2, <2>3 DEF SweepTicket, Unlock, Park, NoPass, PushTypeOK, tables, tree,
       memory, work
<1>29. ASSUME Age PROVE PushTypeOK'
  <2>1. row' \in Rows
    BY <1>29 DEF Age, PushTypeOK, Rows
  <2> QED
    BY <1>29, <2>1 DEF Age, PushTypeOK, tables, tree, memory, work
<1>30. ASSUME SweepPick PROVE PushTypeOK'
  <2>1. swp' \in Sweeps
    BY <1>30 DEF SweepPick, Registered, PushTypeOK, Sweeps, Rows
  <2> QED
    BY <1>30, <2>1 DEF SweepPick, Registered, PushTypeOK, tables, tree, memory, work
<1>31. ASSUME SweepLock PROVE PushTypeOK'
  <2>1. swp' \in Sweeps
    <3>1. swp' = Resting \/ \E p \in {"report", "rmdir", "delete"} : swp' = [swp EXCEPT !.pc = p]
      BY <1>31 DEF SweepLock
    <3> QED
      BY <3>1, PushRecords DEF PushTypeOK, Sweeps
  <2> QED
    BY <1>31, <2>1 DEF SweepLock, Registered, Resting, NoRecord, Zero, PushTypeOK, tables, tree,
       memory, work
<1>32. ASSUME SweepReport PROVE PushTypeOK'
  <2>1. swp' \in Sweeps
    BY <1>32 DEF SweepReport, PushTypeOK, Sweeps, Rows
  <2> QED
    BY <1>32, <2>1 DEF SweepReport, PushTypeOK, tables, tree, memory, work
<1>33. ASSUME SweepDelete PROVE PushTypeOK'
  <2>1. row' \in Rows
    BY <1>33 DEF SweepDelete, NoRecord, Zero, Unlock, Resting, PushTypeOK, Rows
  <2>2. swp' \in Sweeps
    BY <1>33 DEF SweepDelete, NoRecord, Zero, Unlock, Resting, PushTypeOK, Sweeps, Rows
  <2> QED
    BY <1>33, <2>1, <2>2 DEF SweepDelete, NoRecord, Zero, Unlock, Resting, PushTypeOK, tables,
       tree, memory, work
<1>34. ASSUME SweepDiscard PROVE PushTypeOK'
  <2>1. swp' \in Sweeps
    BY <1>34 DEF SweepDiscard, Discarded, Unlock, Resting, NoRecord, Zero, PushTypeOK, Sweeps,
       Rows
  <2>2. disk' \in [Entries -> {"none", "staged", "published"}]
    BY <1>34 DEF SweepDiscard, Discarded, Unlock, Resting, NoRecord, Zero, PushTypeOK
  <2> QED
    BY <1>34, <2>1, <2>2 DEF SweepDiscard, Discarded, Unlock, Resting, NoRecord, Zero, PushTypeOK,
       tables, tree, memory, work
<1>35. ASSUME SweepRemove PROVE PushTypeOK'
  <2>1. swp' \in Sweeps
    BY <1>35 DEF SweepRemove, Unlock, Resting, NoRecord, Zero, PushTypeOK, Sweeps, Rows
  <2> QED
    BY <1>35, <2>1 DEF SweepRemove, Unlock, Resting, NoRecord, Zero, PushTypeOK, tables, tree,
       memory, work
<1>36. ASSUME SweepFails PROVE PushTypeOK'
  <2>1. swp' \in Sweeps
    BY <1>36 DEF SweepFails, Unlock, Resting, NoRecord, Zero, PushTypeOK, Sweeps, Rows
  <2> QED
    BY <1>36, <2>1 DEF SweepFails, Unlock, Resting, NoRecord, Zero, PushTypeOK, tables, tree,
       memory, work
<1>37. ASSUME PushBoot PROVE PushTypeOK'
  <2>1. row' \in Rows
    BY <1>37 DEF PushBoot, NoRecord, Zero, Discarded, NoReg, NoPass, NoReceive, NoCheckpoint,
       Resting, PushTypeOK, Rows
  <2>2. reg' \in Regs
    <3>1. reg' = NoReg \/ reg' = [id |-> row.id, parked |-> TRUE, connected |-> FALSE]
      BY <1>37 DEF PushBoot
    <3>2. row.id \in Pushes \cup {NoPush}
      BY DEF PushTypeOK, Rows
    <3>3. [id |-> row.id, parked |-> TRUE, connected |-> FALSE] \in Regs
      BY <3>2 DEF Regs
    <3> QED
      BY <3>1, <3>3, PushRecords
  <2>3. pass' \in Passes
    BY <1>37 DEF PushBoot, NoRecord, Zero, Discarded, NoReg, NoPass, NoReceive, NoCheckpoint,
       Resting, PushTypeOK, Passes
  <2>4. recv' \in Receives
    BY <1>37 DEF PushBoot, NoRecord, Zero, Discarded, NoReg, NoPass, NoReceive, NoCheckpoint,
       Resting, PushTypeOK, Receives
  <2>5. ck' \in Checkpoints
    BY <1>37 DEF PushBoot, NoRecord, Zero, Discarded, NoReg, NoPass, NoReceive, NoCheckpoint,
       Resting, PushTypeOK, Checkpoints, Receives
  <2>6. swp' \in Sweeps
    BY <1>37 DEF PushBoot, NoRecord, Zero, Discarded, NoReg, NoPass, NoReceive, NoCheckpoint,
       Resting, PushTypeOK, Sweeps, Rows
  <2>7. rail' \in [Entries -> RailSteps]
    BY <1>37 DEF PushBoot, NoRecord, Zero, Discarded, NoReg, NoPass, NoReceive, NoCheckpoint,
       Resting, PushTypeOK, RailSteps
  <2>8. disk' \in [Entries -> {"none", "staged", "published"}]
    BY <1>37 DEF PushBoot, NoRecord, Zero, Discarded, NoReg, NoPass, NoReceive, NoCheckpoint,
       Resting, PushTypeOK
  <2> QED
    BY <1>37, <2>1, <2>2, <2>3, <2>4, <2>5, <2>6, <2>7, <2>8 DEF PushBoot, NoRecord, Zero,
       Discarded, NoReg, NoPass, NoReceive, NoCheckpoint, Resting, PushTypeOK, tables, tree,
       memory, work
<1>38. ASSUME UNCHANGED pvars PROVE PushTypeOK'
  BY <1>38 DEF PushTypeOK, pvars
<1> QED
  BY <1>1, <1>2, <1>3, <1>4, <1>5, <1>6, <1>7, <1>8, <1>9, <1>10, <1>11, <1>12, <1>13, <1>14,
     <1>15, <1>16, <1>17, <1>18, <1>19, <1>20, <1>21, <1>22, <1>23, <1>24, <1>25, <1>26, <1>27,
     <1>28, <1>29, <1>30, <1>31, <1>32, <1>33, <1>34, <1>35, <1>36, <1>37, <1>38 DEF PushNext

LEMMA IdsKept == PushInv /\ [PushNext]_pvars => IdsHeld'
<1> SUFFICES ASSUME PushInv, [PushNext]_pvars PROVE IdsHeld'
  OBVIOUS
<1> USE PushAssumption DEF PushInv
<1>1. ASSUME NEW s \in Pushes, LockDirectory(s) PROVE IdsHeld'
  BY <1>1 DEF LockDirectory, tables, work, PushTypeOK, IdsHeld, LockHeld, Unstaged, Unused
<1>2. ASSUME NEW s \in Pushes, RegisterPush(s) PROVE IdsHeld'
  BY <1>2 DEF RegisterPush, Unlock, Registered, NoReg, tables, tree, work, PushTypeOK, IdsHeld,
     LockHeld, Unstaged, Unused
<1>3. ASSUME NEW s \in Pushes, PersistPush(s) PROVE IdsHeld'
  BY <1>3 DEF PersistPush, tree, work, PushTypeOK, Rows, IdsHeld, LockHeld, Unstaged, Unused
<1>4. ASSUME NEW s \in Pushes, PersistFails(s) PROVE IdsHeld'
  BY <1>4 DEF PersistFails, Unlock, NoReg, tables, tree, work, PushTypeOK, IdsHeld, LockHeld,
     Unstaged, Unused
<1>5. ASSUME NEW s \in Pushes, IssueFails(s) PROVE IdsHeld'
  BY <1>5 DEF IssueFails, Unlock, Park, tree, work, PushTypeOK, Rows, Regs, IdsHeld, LockHeld,
     Unstaged, Unused
<1>6. ASSUME Connect PROVE IdsHeld'
  BY <1>6 DEF Connect, NoReceive, Zero, tables, tree, PushTypeOK, Regs, Passes, Receives, IdsHeld,
     LockHeld, Unstaged, Unused
<1>7. ASSUME Manifest PROVE IdsHeld'
  BY <1>7 DEF Manifest, Restored, NoRecord, Zero, memory, PushTypeOK, Rows, Receives, IdsHeld,
     LockHeld, Unstaged, Unused
<1>8. ASSUME NEW e \in Entries, ChooseSink(e) PROVE IdsHeld'
  BY <1>8 DEF ChooseSink, tables, tree, memory, IdsHeld, Unstaged, Unused
<1>9. ASSUME NEW e \in Entries, Place(e) PROVE IdsHeld'
  BY <1>9 DEF Place, Live, tables, tree, memory, PushTypeOK, Receives, IdsHeld, LockHeld,
     Unstaged, Unused
<1>10. ASSUME NEW e \in Entries, TakeObject(e) PROVE IdsHeld'
  BY <1>10 DEF TakeObject, tables, tree, memory, IdsHeld, Unstaged, Unused
<1>11. ASSUME NEW e \in Entries, PublishObject(e) PROVE IdsHeld'
  BY <1>11 DEF PublishObject, tables, memory, PushTypeOK, Receives, RailSteps, IdsHeld, LockHeld,
     Unstaged, Unused
<1>12. ASSUME NEW e \in Entries, NEW due \in BOOLEAN, CountObject(e, due) PROVE IdsHeld'
  BY <1>12 DEF CountObject, tables, tree, memory, PushTypeOK, Receives, RailSteps, IdsHeld,
     LockHeld, Unstaged, Unused
<1>13. ASSUME NEW e \in Entries, DecideCommit(e) PROVE IdsHeld'
  BY <1>13 DEF DecideCommit, tables, tree, memory, PushTypeOK, Receives, RailSteps, IdsHeld,
     LockHeld, Unstaged, Unused
<1>14. ASSUME NEW e \in Entries, CommitPush(e) PROVE IdsHeld'
  <2>1. /\ recv.pc # "none" /\ recv.id \in Pushes /\ recv.pc = "ready"
    BY <1>14 DEF CommitPush, LockHeld, EntryHeld, RailEnded, PushTypeOK, Receives
  <2>2. \A s \in Pushes : s # recv.id => announced'[s] = announced[s]
    BY <1>14, <2>1 DEF CommitPush, PushTypeOK
  <2>3. recv.id \in created /\ (Unused => pass.id # recv.id) /\ opening = NoPush
    BY <2>1 DEF IdsHeld, LockHeld, PushTypeOK, Receives
  <2>4. /\ row'.id = row.id /\ row'.stage = row.stage /\ recv'.id = recv.id /\ recv'.pc = "ready"
        /\ swp' = swp /\ stagedBy' = stagedBy /\ reg' = reg /\ pass' = pass /\ opening' = opening
        /\ created' = created
    BY <1>14, <2>1 DEF CommitPush, PushTypeOK, Rows, Receives, tree, memory
  <2> QED
    BY <2>1, <2>2, <2>3, <2>4 DEF IdsHeld, Unstaged, Unused, PushTypeOK, Passes
<1>15. ASSUME NEW e \in Entries, RailFails(e) PROVE IdsHeld'
  BY <1>15 DEF RailFails, tables, tree, memory, IdsHeld, Unstaged, Unused
<1>16. ASSUME NEW by \in Entries \cup {DropStep}, BeginCheckpoint(by) PROVE IdsHeld'
  BY <1>16 DEF BeginCheckpoint, tables, tree, memory, PushTypeOK, Receives, IdsHeld, LockHeld,
     Unstaged, Unused
<1>17. ASSUME WriteCheckpoint PROVE IdsHeld'
  BY <1>17 DEF WriteCheckpoint, tree, memory, PushTypeOK, Rows, Checkpoints, IdsHeld, LockHeld,
     Unstaged, Unused
<1>18. ASSUME CheckpointFails PROVE IdsHeld'
  BY <1>18 DEF CheckpointFails, NoCheckpoint, Zero, tables, tree, memory, PushTypeOK, Receives,
     RailSteps, IdsHeld, LockHeld, Unstaged, Unused
<1>19. ASSUME NEW f \in SUBSET Entries, EndCheckpoint(f) PROVE IdsHeld'
  BY <1>19 DEF EndCheckpoint, Unmoved, NoCheckpoint, Zero, tables, memory, PushTypeOK, Receives,
     RailSteps, IdsHeld, LockHeld, Unstaged, Unused
<1>20. ASSUME Dropping PROVE IdsHeld'
  BY <1>20 DEF Dropping, RailEnded, tables, tree, memory, PushTypeOK, Receives, IdsHeld, LockHeld,
     Unstaged, Unused
<1>21. ASSUME Retained PROVE IdsHeld'
  BY <1>21 DEF Retained, Unlock, Unregister, Park, NoReg, NoPass, NoReceive, tables, tree,
     PushTypeOK, Regs, IdsHeld, LockHeld, Unstaged, Unused
<1>22. ASSUME NEW r \in BOOLEAN, NEW d \in BOOLEAN, Cleared(r, d) PROVE IdsHeld'
  BY <1>22 DEF Cleared, Unlock, Unregister, NoReg, NoPass, NoReceive, NoRecord, Zero, PushTypeOK,
     IdsHeld, LockHeld, Unstaged, Unused
<1>23. ASSUME CancelPush PROVE IdsHeld'
  BY <1>23 DEF CancelPush, tables, tree, memory, PushTypeOK, Receives, IdsHeld, LockHeld,
     Unstaged, Unused
<1>24. ASSUME AbortUnconnected PROVE IdsHeld'
  BY <1>24 DEF AbortUnconnected, Unlock, Park, NoPass, tables, tree, work, PushTypeOK, Regs,
     IdsHeld, LockHeld, Unstaged, Unused
<1>25. ASSUME NEW to \in {"closed", "expired", "removed"}, CloseLink(to) PROVE IdsHeld'
  BY <1>25 DEF CloseLink, tree, memory, work, IdsHeld, Unstaged, Unused
<1>26. ASSUME ReopenLink PROVE IdsHeld'
  BY <1>26 DEF ReopenLink, tree, memory, work, IdsHeld, Unstaged, Unused
<1>27. ASSUME SweepIdle PROVE IdsHeld'
  BY <1>27 DEF SweepIdle, NoReg, Registered, tables, tree, work, PushTypeOK, IdsHeld, LockHeld,
     Unstaged, Unused
<1>28. ASSUME SweepTicket PROVE IdsHeld'
  BY <1>28 DEF SweepTicket, Unlock, Park, NoPass, tables, tree, PushTypeOK, Regs, Receives,
     IdsHeld, LockHeld, Unstaged, Unused
<1>29. ASSUME Age PROVE IdsHeld'
  BY <1>29 DEF Age, tree, memory, work, PushTypeOK, Rows, IdsHeld, LockHeld, Unstaged, Unused
<1>30. ASSUME SweepPick PROVE IdsHeld'
  BY <1>30 DEF SweepPick, Registered, tables, tree, memory, work, PushTypeOK, IdsHeld, LockHeld,
     Unstaged, Unused
<1>31. ASSUME SweepLock PROVE IdsHeld'
  BY <1>31 DEF SweepLock, Registered, Resting, NoRecord, Zero, tables, tree, memory, work,
     PushTypeOK, Sweeps, IdsHeld, LockHeld, Unstaged, Unused
<1>32. ASSUME SweepReport PROVE IdsHeld'
  BY <1>32 DEF SweepReport, tree, memory, work, PushTypeOK, Sweeps, IdsHeld, LockHeld, Unstaged,
     Unused
<1>33. ASSUME SweepDelete PROVE IdsHeld'
  BY <1>33 DEF SweepDelete, NoRecord, Zero, Unlock, Resting, tree, memory, work, PushTypeOK,
     Sweeps, IdsHeld, LockHeld, Unstaged, Unused
<1>34. ASSUME SweepDiscard PROVE IdsHeld'
  BY <1>34 DEF SweepDiscard, Discarded, Unlock, Resting, NoRecord, Zero, tables, memory, work,
     PushTypeOK, Sweeps, IdsHeld, LockHeld, Unstaged, Unused
<1>35. ASSUME SweepRemove PROVE IdsHeld'
  BY <1>35 DEF SweepRemove, Unlock, Resting, NoRecord, Zero, tables, memory, work, PushTypeOK,
     Sweeps, IdsHeld, LockHeld, Unstaged, Unused
<1>36. ASSUME SweepFails PROVE IdsHeld'
  BY <1>36 DEF SweepFails, Unlock, Resting, NoRecord, Zero, tables, tree, memory, work,
     PushTypeOK, IdsHeld, LockHeld, Unstaged, Unused
<1>37. ASSUME PushBoot PROVE IdsHeld'
  BY <1>37 DEF PushBoot, NoRecord, Zero, Discarded, NoReg, NoPass, NoReceive, NoCheckpoint,
     Resting, PushTypeOK, IdsHeld, LockHeld, Unstaged, Unused
<1>38. ASSUME UNCHANGED pvars PROVE IdsHeld'
  BY <1>38 DEF pvars, IdsHeld, Unstaged, Unused
<1> QED
  BY <1>1, <1>2, <1>3, <1>4, <1>5, <1>6, <1>7, <1>8, <1>9, <1>10, <1>11, <1>12, <1>13, <1>14,
     <1>15, <1>16, <1>17, <1>18, <1>19, <1>20, <1>21, <1>22, <1>23, <1>24, <1>25, <1>26, <1>27,
     <1>28, <1>29, <1>30, <1>31, <1>32, <1>33, <1>34, <1>35, <1>36, <1>37, <1>38 DEF PushNext

LEMMA LocksKept == PushInv /\ [PushNext]_pvars => LockHeld'
<1> SUFFICES ASSUME PushInv, [PushNext]_pvars PROVE LockHeld'
  OBVIOUS
<1> USE PushAssumption DEF PushInv
<1>1. ASSUME NEW s \in Pushes, LockDirectory(s) PROVE LockHeld'
  BY <1>1 DEF LockDirectory, tables, work, PushTypeOK, IdsHeld, LockHeld, Unused, SweepHeld,
     Sweeping
<1>2. ASSUME NEW s \in Pushes, RegisterPush(s) PROVE LockHeld'
  BY <1>2 DEF RegisterPush, Unlock, Registered, NoReg, tables, tree, work, PushTypeOK, IdsHeld,
     LockHeld, Unused, SweepHeld, Sweeping
<1>3. ASSUME NEW s \in Pushes, PersistPush(s) PROVE LockHeld'
  BY <1>3 DEF PersistPush, tree, work, PushTypeOK, Rows, IdsHeld, LockHeld, Unused, SweepHeld,
     Sweeping
<1>4. ASSUME NEW s \in Pushes, PersistFails(s) PROVE LockHeld'
  BY <1>4 DEF PersistFails, Unlock, NoReg, tables, tree, work, PushTypeOK, IdsHeld, LockHeld,
     Unused, SweepHeld, Sweeping
<1>5. ASSUME NEW s \in Pushes, IssueFails(s) PROVE LockHeld'
  BY <1>5 DEF IssueFails, Unlock, Park, tree, work, PushTypeOK, Rows, Regs, IdsHeld, LockHeld,
     Unused, SweepHeld, Sweeping
<1>6. ASSUME Connect PROVE LockHeld'
  <2>1. recv'.id = pass.id /\ recv'.pc = "connected" /\ reg' = [reg EXCEPT !.connected = TRUE]
    BY <1>6, PushRecords DEF Connect, Receives
  <2>2. reg'.id = reg.id /\ reg'.connected /\ reg'.parked = reg.parked
    BY <2>1 DEF PushTypeOK, Regs
  <2>3. pass' = [pass EXCEPT !.used = TRUE] /\ pass'.used
    BY <1>6 DEF Connect, PushTypeOK, Passes
  <2> QED
    BY <1>6, <2>1, <2>2, <2>3 DEF Connect, LockHeld, Unused, IdsHeld, Sweeping, PushTypeOK, Rows,
       tables, tree
<1>7. ASSUME Manifest PROVE LockHeld'
  BY <1>7 DEF Manifest, Restored, NoRecord, Zero, memory, PushTypeOK, Rows, Receives, IdsHeld,
     LockHeld, Unused, SweepHeld, Sweeping
<1>8. ASSUME NEW e \in Entries, ChooseSink(e) PROVE LockHeld'
  BY <1>8 DEF ChooseSink, tables, tree, memory, LockHeld, Unused, Sweeping
<1>9. ASSUME NEW e \in Entries, Place(e) PROVE LockHeld'
  BY <1>9 DEF Place, Live, tables, tree, memory, PushTypeOK, Receives, IdsHeld, LockHeld, Unused,
     SweepHeld, Sweeping
<1>10. ASSUME NEW e \in Entries, TakeObject(e) PROVE LockHeld'
  BY <1>10 DEF TakeObject, tables, tree, memory, LockHeld, Unused, Sweeping
<1>11. ASSUME NEW e \in Entries, PublishObject(e) PROVE LockHeld'
  BY <1>11 DEF PublishObject, tables, memory, PushTypeOK, Receives, RailSteps, IdsHeld, LockHeld,
     Unused, SweepHeld, Sweeping
<1>12. ASSUME NEW e \in Entries, NEW due \in BOOLEAN, CountObject(e, due) PROVE LockHeld'
  BY <1>12 DEF CountObject, tables, tree, memory, PushTypeOK, Receives, RailSteps, IdsHeld,
     LockHeld, Unused, SweepHeld, Sweeping
<1>13. ASSUME NEW e \in Entries, DecideCommit(e) PROVE LockHeld'
  BY <1>13 DEF DecideCommit, tables, tree, memory, PushTypeOK, Receives, RailSteps, IdsHeld,
     LockHeld, Unused, SweepHeld, Sweeping
<1>14. ASSUME NEW e \in Entries, CommitPush(e) PROVE LockHeld'
  BY <1>14 DEF CommitPush, tree, memory, PushTypeOK, Rows, Receives, RailSteps, IdsHeld, LockHeld,
     Unused, SweepHeld, Sweeping
<1>15. ASSUME NEW e \in Entries, RailFails(e) PROVE LockHeld'
  BY <1>15 DEF RailFails, tables, tree, memory, LockHeld, Unused, Sweeping
<1>16. ASSUME NEW by \in Entries \cup {DropStep}, BeginCheckpoint(by) PROVE LockHeld'
  BY <1>16 DEF BeginCheckpoint, tables, tree, memory, PushTypeOK, Receives, IdsHeld, LockHeld,
     Unused, SweepHeld, Sweeping
<1>17. ASSUME WriteCheckpoint PROVE LockHeld'
  BY <1>17 DEF WriteCheckpoint, tree, memory, PushTypeOK, Rows, Checkpoints, IdsHeld, LockHeld,
     Unused, SweepHeld, Sweeping
<1>18. ASSUME CheckpointFails PROVE LockHeld'
  <2>1. recv'.id = recv.id /\ recv.pc # "none" /\ recv'.pc # "none"
    BY <1>18 DEF CheckpointFails, CheckHeld, PushTypeOK, Receives, Checkpoints
  <2> QED
    BY <1>18, <2>1 DEF CheckpointFails, LockHeld, Unused, Sweeping, tables, tree, memory
<1>19. ASSUME NEW f \in SUBSET Entries, EndCheckpoint(f) PROVE LockHeld'
  <2>1. recv'.id = recv.id /\ recv.pc # "none" /\ recv'.pc # "none"
    BY <1>19 DEF EndCheckpoint, CheckHeld, PushTypeOK, Receives, Checkpoints
  <2> QED
    BY <1>19, <2>1 DEF EndCheckpoint, LockHeld, Unused, Sweeping, tables, tree, memory
<1>20. ASSUME Dropping PROVE LockHeld'
  BY <1>20 DEF Dropping, RailEnded, tables, tree, memory, PushTypeOK, Receives, IdsHeld, LockHeld,
     Unused, SweepHeld, Sweeping
<1>21. ASSUME Retained PROVE LockHeld'
  BY <1>21 DEF Retained, Unlock, Unregister, Park, NoReg, NoPass, NoReceive, tables, tree,
     PushTypeOK, Regs, IdsHeld, LockHeld, Unused, SweepHeld, Sweeping
<1>22. ASSUME NEW r \in BOOLEAN, NEW d \in BOOLEAN, Cleared(r, d) PROVE LockHeld'
  BY <1>22 DEF Cleared, Unlock, Unregister, NoReg, NoPass, NoReceive, NoRecord, Zero, PushTypeOK,
     IdsHeld, LockHeld, Unused, SweepHeld, Sweeping
<1>23. ASSUME CancelPush PROVE LockHeld'
  BY <1>23 DEF CancelPush, tables, tree, memory, PushTypeOK, Receives, IdsHeld, LockHeld, Unused,
     SweepHeld, Sweeping
<1>24. ASSUME AbortUnconnected PROVE LockHeld'
  BY <1>24 DEF AbortUnconnected, Unlock, Park, NoPass, tables, tree, work, PushTypeOK, Regs,
     IdsHeld, LockHeld, Unused, SweepHeld, Sweeping
<1>25. ASSUME NEW to \in {"closed", "expired", "removed"}, CloseLink(to) PROVE LockHeld'
  BY <1>25 DEF CloseLink, tree, memory, work, LockHeld, Unused, Sweeping
<1>26. ASSUME ReopenLink PROVE LockHeld'
  BY <1>26 DEF ReopenLink, tree, memory, work, LockHeld, Unused, Sweeping
<1>27. ASSUME SweepIdle PROVE LockHeld'
  BY <1>27 DEF SweepIdle, NoReg, Registered, tables, tree, work, PushTypeOK, IdsHeld, LockHeld,
     Unused, SweepHeld, Sweeping
<1>28. ASSUME SweepTicket PROVE LockHeld'
  BY <1>28 DEF SweepTicket, Unlock, Park, NoPass, tables, tree, PushTypeOK, Regs, Receives,
     IdsHeld, LockHeld, Unused, SweepHeld, Sweeping
<1>29. ASSUME Age PROVE LockHeld'
  BY <1>29 DEF Age, tree, memory, work, PushTypeOK, Rows, IdsHeld, LockHeld, Unused, SweepHeld,
     Sweeping
<1>30. ASSUME SweepPick PROVE LockHeld'
  BY <1>30 DEF SweepPick, Registered, tables, tree, memory, work, PushTypeOK, IdsHeld, LockHeld,
     Unused, SweepHeld, Sweeping
<1>31. ASSUME SweepLock PROVE LockHeld'
  BY <1>31 DEF SweepLock, Registered, Resting, NoRecord, Zero, tables, tree, memory, work,
     PushTypeOK, Sweeps, IdsHeld, LockHeld, Unused, SweepHeld, Sweeping
<1>32. ASSUME SweepReport PROVE LockHeld'
  BY <1>32 DEF SweepReport, tree, memory, work, PushTypeOK, Sweeps, IdsHeld, LockHeld, Unused,
     SweepHeld, Sweeping
<1>33. ASSUME SweepDelete PROVE LockHeld'
  BY <1>33 DEF SweepDelete, NoRecord, Zero, Unlock, Resting, tree, memory, work, PushTypeOK,
     Sweeps, IdsHeld, LockHeld, Unused, SweepHeld, Sweeping
<1>34. ASSUME SweepDiscard PROVE LockHeld'
  BY <1>34 DEF SweepDiscard, Discarded, Unlock, Resting, NoRecord, Zero, tables, memory, work,
     PushTypeOK, Sweeps, IdsHeld, LockHeld, Unused, SweepHeld, Sweeping
<1>35. ASSUME SweepRemove PROVE LockHeld'
  BY <1>35 DEF SweepRemove, Unlock, Resting, NoRecord, Zero, tables, memory, work, PushTypeOK,
     Sweeps, IdsHeld, LockHeld, Unused, SweepHeld, Sweeping
<1>36. ASSUME SweepFails PROVE LockHeld'
  BY <1>36 DEF SweepFails, Unlock, Resting, NoRecord, Zero, tables, tree, memory, work,
     PushTypeOK, IdsHeld, LockHeld, Unused, SweepHeld, Sweeping
<1>37. ASSUME PushBoot PROVE LockHeld'
  BY <1>37 DEF PushBoot, NoRecord, Zero, Discarded, NoReg, NoPass, NoReceive, NoCheckpoint,
     Resting, PushTypeOK, IdsHeld, LockHeld, Unused, SweepHeld, Sweeping
<1>38. ASSUME UNCHANGED pvars PROVE LockHeld'
  BY <1>38 DEF pvars, LockHeld, Unused, Sweeping
<1> QED
  BY <1>1, <1>2, <1>3, <1>4, <1>5, <1>6, <1>7, <1>8, <1>9, <1>10, <1>11, <1>12, <1>13, <1>14,
     <1>15, <1>16, <1>17, <1>18, <1>19, <1>20, <1>21, <1>22, <1>23, <1>24, <1>25, <1>26, <1>27,
     <1>28, <1>29, <1>30, <1>31, <1>32, <1>33, <1>34, <1>35, <1>36, <1>37, <1>38 DEF PushNext

LEMMA RowKept == PushInv /\ [PushNext]_pvars => RowHeld'
<1> SUFFICES ASSUME PushInv, [PushNext]_pvars PROVE RowHeld'
  OBVIOUS
<1> USE PushAssumption DEF PushInv
<1>1. ASSUME NEW s \in Pushes, LockDirectory(s) PROVE RowHeld'
  BY <1>1 DEF LockDirectory, tables, work, PushTypeOK, IdsHeld, LockHeld, RowHeld, SweepHeld,
     Sweeping, EntryHeld, Moving, CheckHeld, CommitHeld, Unused
<1>2. ASSUME NEW s \in Pushes, RegisterPush(s) PROVE RowHeld'
  BY <1>2 DEF RegisterPush, tables, tree, RowHeld
<1>3. ASSUME NEW s \in Pushes, PersistPush(s) PROVE RowHeld'
  BY <1>3 DEF PersistPush, tree, work, PushTypeOK, Rows, IdsHeld, LockHeld, RowHeld, SweepHeld,
     Sweeping, EntryHeld, Moving, CheckHeld, CommitHeld, Unused
<1>4. ASSUME NEW s \in Pushes, PersistFails(s) PROVE RowHeld'
  BY <1>4 DEF PersistFails, tables, tree, RowHeld
<1>5. ASSUME NEW s \in Pushes, IssueFails(s) PROVE RowHeld'
  BY <1>5 DEF IssueFails, Unlock, Park, tree, work, PushTypeOK, Rows, Regs, IdsHeld, LockHeld,
     RowHeld, SweepHeld, Sweeping, EntryHeld, Moving, CheckHeld, CommitHeld, Unused
<1>6. ASSUME Connect PROVE RowHeld'
  BY <1>6 DEF Connect, tables, tree, RowHeld
<1>7. ASSUME Manifest PROVE RowHeld'
  BY <1>7 DEF Manifest, Restored, NoRecord, Zero, memory, PushTypeOK, Rows, Receives, IdsHeld,
     LockHeld, RowHeld, SweepHeld, Sweeping, EntryHeld, Moving, CheckHeld, CommitHeld, Unused
<1>8. ASSUME NEW e \in Entries, ChooseSink(e) PROVE RowHeld'
  BY <1>8 DEF ChooseSink, tables, tree, RowHeld
<1>9. ASSUME NEW e \in Entries, Place(e) PROVE RowHeld'
  BY <1>9 DEF Place, tables, tree, RowHeld
<1>10. ASSUME NEW e \in Entries, TakeObject(e) PROVE RowHeld'
  BY <1>10 DEF TakeObject, tables, tree, RowHeld
<1>11. ASSUME NEW e \in Entries, PublishObject(e) PROVE RowHeld'
  BY <1>11 DEF PublishObject, tables, memory, PushTypeOK, Receives, RailSteps, IdsHeld, LockHeld,
     RowHeld, SweepHeld, Sweeping, EntryHeld, Moving, CheckHeld, CommitHeld, Unused
<1>12. ASSUME NEW e \in Entries, NEW due \in BOOLEAN, CountObject(e, due) PROVE RowHeld'
  BY <1>12 DEF CountObject, tables, tree, RowHeld
<1>13. ASSUME NEW e \in Entries, DecideCommit(e) PROVE RowHeld'
  BY <1>13 DEF DecideCommit, tables, tree, RowHeld
<1>14. ASSUME NEW e \in Entries, CommitPush(e) PROVE RowHeld'
  <2>1. recv.pc = "ready" /\ recv.complete = Entries
    BY <1>14 DEF CommitPush, EntryHeld, CommitHeld, RailEnded
  <2>2. \A x \in Entries : disk[x] = "published"
    BY <2>1 DEF CommitHeld, EntryHeld, Moving
  <2>3. /\ row'.full /\ row.full /\ row'.id = row.id /\ row'.stage = row.stage
        /\ row'.prog = row.prog
    BY <1>14, <2>1 DEF CommitPush, EntryHeld, PushTypeOK, Rows
  <2> QED
    BY <1>14, <2>2, <2>3 DEF CommitPush, RowHeld, tree
<1>15. ASSUME NEW e \in Entries, RailFails(e) PROVE RowHeld'
  BY <1>15 DEF RailFails, tables, tree, RowHeld
<1>16. ASSUME NEW by \in Entries \cup {DropStep}, BeginCheckpoint(by) PROVE RowHeld'
  BY <1>16 DEF BeginCheckpoint, tables, tree, RowHeld
<1>17. ASSUME WriteCheckpoint PROVE RowHeld'
  BY <1>17 DEF WriteCheckpoint, tree, memory, PushTypeOK, Rows, Regs, Passes, Receives, RailSteps,
     Checkpoints, Sweeps, IdsHeld, LockHeld, RowHeld, SweepHeld, Sweeping, EntryHeld, Moving,
     CheckHeld, CommitHeld, Unused
<1>18. ASSUME CheckpointFails PROVE RowHeld'
  BY <1>18 DEF CheckpointFails, tables, tree, RowHeld
<1>19. ASSUME NEW f \in SUBSET Entries, EndCheckpoint(f) PROVE RowHeld'
  BY <1>19 DEF EndCheckpoint, Unmoved, NoCheckpoint, Zero, tables, memory, PushTypeOK, Receives,
     RailSteps, IdsHeld, LockHeld, RowHeld, SweepHeld, Sweeping, EntryHeld, Moving, CheckHeld,
     CommitHeld, Unused
<1>20. ASSUME Dropping PROVE RowHeld'
  BY <1>20 DEF Dropping, tables, tree, RowHeld
<1>21. ASSUME Retained PROVE RowHeld'
  BY <1>21 DEF Retained, tables, tree, RowHeld
<1>22. ASSUME NEW r \in BOOLEAN, NEW d \in BOOLEAN, Cleared(r, d) PROVE RowHeld'
  BY <1>22 DEF Cleared, Unlock, Unregister, NoReg, NoPass, NoReceive, NoRecord, Zero, PushTypeOK,
     IdsHeld, LockHeld, RowHeld, SweepHeld, Sweeping, EntryHeld, Moving, CheckHeld, CommitHeld,
     Unused
<1>23. ASSUME CancelPush PROVE RowHeld'
  BY <1>23 DEF CancelPush, tables, tree, RowHeld
<1>24. ASSUME AbortUnconnected PROVE RowHeld'
  BY <1>24 DEF AbortUnconnected, tables, tree, RowHeld
<1>25. ASSUME NEW to \in {"closed", "expired", "removed"}, CloseLink(to) PROVE RowHeld'
  BY <1>25 DEF CloseLink, tree, RowHeld
<1>26. ASSUME ReopenLink PROVE RowHeld'
  BY <1>26 DEF ReopenLink, tree, RowHeld
<1>27. ASSUME SweepIdle PROVE RowHeld'
  BY <1>27 DEF SweepIdle, tables, tree, RowHeld
<1>28. ASSUME SweepTicket PROVE RowHeld'
  BY <1>28 DEF SweepTicket, tables, tree, RowHeld
<1>29. ASSUME Age PROVE RowHeld'
  BY <1>29 DEF Age, tree, memory, work, PushTypeOK, Rows, IdsHeld, LockHeld, RowHeld, SweepHeld,
     Sweeping, EntryHeld, Moving, CheckHeld, CommitHeld, Unused
<1>30. ASSUME SweepPick PROVE RowHeld'
  BY <1>30 DEF SweepPick, tables, tree, RowHeld
<1>31. ASSUME SweepLock PROVE RowHeld'
  BY <1>31 DEF SweepLock, tables, tree, RowHeld
<1>32. ASSUME SweepReport PROVE RowHeld'
  BY <1>32 DEF SweepReport, tree, memory, work, PushTypeOK, Sweeps, IdsHeld, LockHeld, RowHeld,
     SweepHeld, Sweeping, EntryHeld, Moving, CheckHeld, CommitHeld, Unused
<1>33. ASSUME SweepDelete PROVE RowHeld'
  BY <1>33 DEF SweepDelete, NoRecord, Zero, Unlock, Resting, tree, memory, work, PushTypeOK,
     Sweeps, IdsHeld, LockHeld, RowHeld, SweepHeld, Sweeping, EntryHeld, Moving, CheckHeld,
     CommitHeld, Unused
<1>34. ASSUME SweepDiscard PROVE RowHeld'
  BY <1>34 DEF SweepDiscard, Discarded, Unlock, Resting, NoRecord, Zero, tables, memory, work,
     PushTypeOK, Sweeps, IdsHeld, LockHeld, RowHeld, SweepHeld, Sweeping, EntryHeld, Moving,
     CheckHeld, CommitHeld, Unused
<1>35. ASSUME SweepRemove PROVE RowHeld'
  BY <1>35 DEF SweepRemove, Unlock, Resting, NoRecord, Zero, tables, memory, work, PushTypeOK,
     Sweeps, IdsHeld, LockHeld, RowHeld, SweepHeld, Sweeping, EntryHeld, Moving, CheckHeld,
     CommitHeld, Unused
<1>36. ASSUME SweepFails PROVE RowHeld'
  BY <1>36 DEF SweepFails, tables, tree, RowHeld
<1>37. ASSUME PushBoot PROVE RowHeld'
  BY <1>37 DEF PushBoot, NoRecord, Zero, Discarded, NoReg, NoPass, NoReceive, NoCheckpoint,
     Resting, PushTypeOK, IdsHeld, LockHeld, RowHeld, SweepHeld, Sweeping, EntryHeld, Moving,
     CheckHeld, CommitHeld, Unused
<1>38. ASSUME UNCHANGED pvars PROVE RowHeld'
  BY <1>38 DEF pvars, RowHeld
<1> QED
  BY <1>1, <1>2, <1>3, <1>4, <1>5, <1>6, <1>7, <1>8, <1>9, <1>10, <1>11, <1>12, <1>13, <1>14,
     <1>15, <1>16, <1>17, <1>18, <1>19, <1>20, <1>21, <1>22, <1>23, <1>24, <1>25, <1>26, <1>27,
     <1>28, <1>29, <1>30, <1>31, <1>32, <1>33, <1>34, <1>35, <1>36, <1>37, <1>38 DEF PushNext

LEMMA JournalKept == PushInv /\ [PushNext]_pvars => JournalUntilRecorded'
<1> SUFFICES ASSUME PushInv, [PushNext]_pvars PROVE JournalUntilRecorded'
  OBVIOUS
<1> USE PushAssumption DEF PushInv
<1>1. ASSUME NEW s \in Pushes, LockDirectory(s) PROVE JournalUntilRecorded'
  BY <1>1 DEF LockDirectory, tables, JournalUntilRecorded
<1>2. ASSUME NEW s \in Pushes, RegisterPush(s) PROVE JournalUntilRecorded'
  BY <1>2 DEF RegisterPush, tables, tree, JournalUntilRecorded
<1>3. ASSUME NEW s \in Pushes, PersistPush(s) PROVE JournalUntilRecorded'
  BY <1>3 DEF PersistPush, tree, work, PushTypeOK, Rows, LockHeld, RowHeld, SweepHeld, Sweeping,
     EntryHeld, Moving, CheckHeld, CommitHeld, JournalUntilRecorded, Unused
<1>4. ASSUME NEW s \in Pushes, PersistFails(s) PROVE JournalUntilRecorded'
  BY <1>4 DEF PersistFails, tables, tree, JournalUntilRecorded
<1>5. ASSUME NEW s \in Pushes, IssueFails(s) PROVE JournalUntilRecorded'
  BY <1>5 DEF IssueFails, Unlock, Park, tree, work, PushTypeOK, Rows, Regs, LockHeld, RowHeld,
     SweepHeld, Sweeping, EntryHeld, Moving, CheckHeld, CommitHeld, JournalUntilRecorded, Unused
<1>6. ASSUME Connect PROVE JournalUntilRecorded'
  BY <1>6 DEF Connect, tables, tree, JournalUntilRecorded
<1>7. ASSUME Manifest PROVE JournalUntilRecorded'
  BY <1>7 DEF Manifest, Restored, NoRecord, Zero, memory, PushTypeOK, Rows, Receives, LockHeld,
     RowHeld, SweepHeld, Sweeping, EntryHeld, Moving, CheckHeld, CommitHeld, JournalUntilRecorded,
     Unused
<1>8. ASSUME NEW e \in Entries, ChooseSink(e) PROVE JournalUntilRecorded'
  BY <1>8 DEF ChooseSink, tables, tree, JournalUntilRecorded
<1>9. ASSUME NEW e \in Entries, Place(e) PROVE JournalUntilRecorded'
  BY <1>9 DEF Place, tables, tree, JournalUntilRecorded
<1>10. ASSUME NEW e \in Entries, TakeObject(e) PROVE JournalUntilRecorded'
  BY <1>10 DEF TakeObject, tables, tree, JournalUntilRecorded
<1>11. ASSUME NEW e \in Entries, PublishObject(e) PROVE JournalUntilRecorded'
  BY <1>11 DEF PublishObject, tables, memory, PushTypeOK, Receives, RailSteps, LockHeld, RowHeld,
     SweepHeld, Sweeping, EntryHeld, Moving, CheckHeld, CommitHeld, JournalUntilRecorded, Unused
<1>12. ASSUME NEW e \in Entries, NEW due \in BOOLEAN, CountObject(e, due) PROVE JournalUntilRecorded'
  BY <1>12 DEF CountObject, tables, tree, JournalUntilRecorded
<1>13. ASSUME NEW e \in Entries, DecideCommit(e) PROVE JournalUntilRecorded'
  BY <1>13 DEF DecideCommit, tables, tree, JournalUntilRecorded
<1>14. ASSUME NEW e \in Entries, CommitPush(e) PROVE JournalUntilRecorded'
  BY <1>14 DEF CommitPush, tree, memory, PushTypeOK, Rows, Receives, RailSteps, LockHeld, RowHeld,
     SweepHeld, Sweeping, EntryHeld, Moving, CheckHeld, CommitHeld, JournalUntilRecorded, Unused
<1>15. ASSUME NEW e \in Entries, RailFails(e) PROVE JournalUntilRecorded'
  BY <1>15 DEF RailFails, tables, tree, JournalUntilRecorded
<1>16. ASSUME NEW by \in Entries \cup {DropStep}, BeginCheckpoint(by) PROVE JournalUntilRecorded'
  BY <1>16 DEF BeginCheckpoint, tables, tree, JournalUntilRecorded
<1>17. ASSUME WriteCheckpoint PROVE JournalUntilRecorded'
  BY <1>17 DEF WriteCheckpoint, tree, memory, PushTypeOK, Rows, Checkpoints, LockHeld, RowHeld,
     SweepHeld, Sweeping, EntryHeld, Moving, CheckHeld, CommitHeld, JournalUntilRecorded, Unused
<1>18. ASSUME CheckpointFails PROVE JournalUntilRecorded'
  BY <1>18 DEF CheckpointFails, tables, tree, JournalUntilRecorded
<1>19. ASSUME NEW f \in SUBSET Entries, EndCheckpoint(f) PROVE JournalUntilRecorded'
  BY <1>19 DEF EndCheckpoint, Unmoved, NoCheckpoint, Zero, tables, memory, PushTypeOK, Receives,
     RailSteps, LockHeld, RowHeld, SweepHeld, Sweeping, EntryHeld, Moving, CheckHeld, CommitHeld,
     JournalUntilRecorded, Unused
<1>20. ASSUME Dropping PROVE JournalUntilRecorded'
  BY <1>20 DEF Dropping, tables, tree, JournalUntilRecorded
<1>21. ASSUME Retained PROVE JournalUntilRecorded'
  BY <1>21 DEF Retained, tables, tree, JournalUntilRecorded
<1>22. ASSUME NEW r \in BOOLEAN, NEW d \in BOOLEAN, Cleared(r, d) PROVE JournalUntilRecorded'
  BY <1>22 DEF Cleared, Unlock, Unregister, NoReg, NoPass, NoReceive, NoRecord, Zero, PushTypeOK,
     LockHeld, RowHeld, SweepHeld, Sweeping, EntryHeld, Moving, CheckHeld, CommitHeld,
     JournalUntilRecorded, Unused
<1>23. ASSUME CancelPush PROVE JournalUntilRecorded'
  BY <1>23 DEF CancelPush, tables, tree, JournalUntilRecorded
<1>24. ASSUME AbortUnconnected PROVE JournalUntilRecorded'
  BY <1>24 DEF AbortUnconnected, tables, tree, JournalUntilRecorded
<1>25. ASSUME NEW to \in {"closed", "expired", "removed"}, CloseLink(to) PROVE JournalUntilRecorded'
  BY <1>25 DEF CloseLink, tree, JournalUntilRecorded
<1>26. ASSUME ReopenLink PROVE JournalUntilRecorded'
  BY <1>26 DEF ReopenLink, tree, JournalUntilRecorded
<1>27. ASSUME SweepIdle PROVE JournalUntilRecorded'
  BY <1>27 DEF SweepIdle, tables, tree, JournalUntilRecorded
<1>28. ASSUME SweepTicket PROVE JournalUntilRecorded'
  BY <1>28 DEF SweepTicket, tables, tree, JournalUntilRecorded
<1>29. ASSUME Age PROVE JournalUntilRecorded'
  BY <1>29 DEF Age, tree, memory, work, PushTypeOK, Rows, LockHeld, RowHeld, SweepHeld, Sweeping,
     EntryHeld, Moving, CheckHeld, CommitHeld, JournalUntilRecorded, Unused
<1>30. ASSUME SweepPick PROVE JournalUntilRecorded'
  BY <1>30 DEF SweepPick, tables, tree, JournalUntilRecorded
<1>31. ASSUME SweepLock PROVE JournalUntilRecorded'
  BY <1>31 DEF SweepLock, tables, tree, JournalUntilRecorded
<1>32. ASSUME SweepReport PROVE JournalUntilRecorded'
  BY <1>32 DEF SweepReport, tree, memory, work, PushTypeOK, Sweeps, LockHeld, RowHeld, SweepHeld,
     Sweeping, EntryHeld, Moving, CheckHeld, CommitHeld, JournalUntilRecorded, Unused
<1>33. ASSUME SweepDelete PROVE JournalUntilRecorded'
  BY <1>33 DEF SweepDelete, NoRecord, Zero, Unlock, Resting, tree, memory, work, PushTypeOK,
     Sweeps, LockHeld, RowHeld, SweepHeld, Sweeping, EntryHeld, Moving, CheckHeld, CommitHeld,
     JournalUntilRecorded, Unused
<1>34. ASSUME SweepDiscard PROVE JournalUntilRecorded'
  BY <1>34 DEF SweepDiscard, Discarded, Unlock, Resting, NoRecord, Zero, tables, memory, work,
     PushTypeOK, Sweeps, LockHeld, RowHeld, SweepHeld, Sweeping, EntryHeld, Moving, CheckHeld,
     CommitHeld, JournalUntilRecorded, Unused
<1>35. ASSUME SweepRemove PROVE JournalUntilRecorded'
  BY <1>35 DEF SweepRemove, tables, JournalUntilRecorded
<1>36. ASSUME SweepFails PROVE JournalUntilRecorded'
  BY <1>36 DEF SweepFails, tables, tree, JournalUntilRecorded
<1>37. ASSUME PushBoot PROVE JournalUntilRecorded'
  BY <1>37 DEF PushBoot, NoRecord, Zero, Discarded, NoReg, NoPass, NoReceive, NoCheckpoint,
     Resting, PushTypeOK, LockHeld, RowHeld, SweepHeld, Sweeping, EntryHeld, Moving, CheckHeld,
     CommitHeld, JournalUntilRecorded, Unused
<1>38. ASSUME UNCHANGED pvars PROVE JournalUntilRecorded'
  BY <1>38 DEF pvars, JournalUntilRecorded
<1> QED
  BY <1>1, <1>2, <1>3, <1>4, <1>5, <1>6, <1>7, <1>8, <1>9, <1>10, <1>11, <1>12, <1>13, <1>14,
     <1>15, <1>16, <1>17, <1>18, <1>19, <1>20, <1>21, <1>22, <1>23, <1>24, <1>25, <1>26, <1>27,
     <1>28, <1>29, <1>30, <1>31, <1>32, <1>33, <1>34, <1>35, <1>36, <1>37, <1>38 DEF PushNext

LEMMA SweepKept ==
  ASSUME "persist" \notin PushFaults PROVE PushInv /\ [PushNext]_pvars => SweepHeld'
<1> SUFFICES ASSUME "persist" \notin PushFaults, PushInv, [PushNext]_pvars PROVE SweepHeld'
  OBVIOUS
<1> USE PushAssumption DEF PushInv
<1>1. ASSUME NEW s \in Pushes, LockDirectory(s) PROVE SweepHeld'
  BY <1>1 DEF LockDirectory, tables, work, PushTypeOK, IdsHeld, LockHeld, RowHeld, SweepHeld,
     Sweeping, Unused, Unstaged, CommitHeld
<1>2. ASSUME NEW s \in Pushes, RegisterPush(s) PROVE SweepHeld'
  BY <1>2 DEF RegisterPush, Unlock, Registered, NoReg, tables, tree, work, PushTypeOK, IdsHeld,
     LockHeld, RowHeld, SweepHeld, Sweeping, Unused, Unstaged, CommitHeld
<1>3. ASSUME NEW s \in Pushes, PersistPush(s) PROVE SweepHeld'
  BY <1>3 DEF PersistPush, tree, work, PushTypeOK, Rows, IdsHeld, LockHeld, RowHeld, SweepHeld,
     Sweeping, Unused, Unstaged, CommitHeld
<1>4. ASSUME NEW s \in Pushes, PersistFails(s) PROVE SweepHeld'
  BY <1>4 DEF PersistFails, Unlock, NoReg, tables, tree, work, PushTypeOK, IdsHeld, LockHeld,
     RowHeld, SweepHeld, Sweeping, Unused, Unstaged, CommitHeld
<1>5. ASSUME NEW s \in Pushes, IssueFails(s) PROVE SweepHeld'
  BY <1>5 DEF IssueFails, Unlock, Park, tree, work, PushTypeOK, Rows, Regs, IdsHeld, LockHeld,
     RowHeld, SweepHeld, Sweeping, Unused, Unstaged, CommitHeld
<1>6. ASSUME Connect PROVE SweepHeld'
  BY <1>6 DEF Connect, NoReceive, Zero, tables, tree, PushTypeOK, Regs, Passes, Receives, IdsHeld,
     LockHeld, RowHeld, SweepHeld, Sweeping, Unused, Unstaged, CommitHeld
<1>7. ASSUME Manifest PROVE SweepHeld'
  <2>1. /\ recv.id # NoPush /\ row.id = recv.id /\ reg.id = recv.id /\ lock = recv.id
        /\ Unstaged(recv.id)
    BY <1>7 DEF Manifest, LockHeld, IdsHeld
  <2>2. /\ row'.id = recv.id /\ row'.full /\ ~row'.committed
        /\ row'.stage = IF row.full THEN stagedBy ELSE recv.id
    BY <1>7, PushRecords DEF Manifest, Rows, NoRecord
  <2>3. reg' = reg /\ lock' = lock /\ swp' = swp
    BY <1>7 DEF Manifest, memory
  <2>4. row.full => row.stage = stagedBy
    BY DEF RowHeld
  <2>5. recv.id # Sweeper
    BY <2>1 DEF PushTypeOK, Receives
  <2>6. swp.pc # "rest" => swp.row.id # recv.id
    BY <2>1 DEF SweepHeld
  <2> QED
    BY <2>1, <2>2, <2>3, <2>4, <2>5, <2>6, <1>7 DEF Manifest, SweepHeld, Sweeping, Unstaged
<1>8. ASSUME NEW e \in Entries, ChooseSink(e) PROVE SweepHeld'
  BY <1>8 DEF ChooseSink, tables, memory, SweepHeld, Sweeping
<1>9. ASSUME NEW e \in Entries, Place(e) PROVE SweepHeld'
  BY <1>9 DEF Place, tables, memory, SweepHeld, Sweeping
<1>10. ASSUME NEW e \in Entries, TakeObject(e) PROVE SweepHeld'
  BY <1>10 DEF TakeObject, tables, memory, SweepHeld, Sweeping
<1>11. ASSUME NEW e \in Entries, PublishObject(e) PROVE SweepHeld'
  BY <1>11 DEF PublishObject, tables, memory, SweepHeld, Sweeping
<1>12. ASSUME NEW e \in Entries, NEW due \in BOOLEAN, CountObject(e, due) PROVE SweepHeld'
  BY <1>12 DEF CountObject, tables, memory, SweepHeld, Sweeping
<1>13. ASSUME NEW e \in Entries, DecideCommit(e) PROVE SweepHeld'
  BY <1>13 DEF DecideCommit, tables, memory, SweepHeld, Sweeping
<1>14. ASSUME NEW e \in Entries, CommitPush(e) PROVE SweepHeld'
  BY <1>14 DEF CommitPush, tree, memory, PushTypeOK, Rows, Receives, RailSteps, IdsHeld, LockHeld,
     RowHeld, SweepHeld, Sweeping, Unused, Unstaged, CommitHeld
<1>15. ASSUME NEW e \in Entries, RailFails(e) PROVE SweepHeld'
  BY <1>15 DEF RailFails, tables, memory, SweepHeld, Sweeping
<1>16. ASSUME NEW by \in Entries \cup {DropStep}, BeginCheckpoint(by) PROVE SweepHeld'
  BY <1>16 DEF BeginCheckpoint, tables, memory, SweepHeld, Sweeping
<1>17. ASSUME WriteCheckpoint PROVE SweepHeld'
  BY <1>17 DEF WriteCheckpoint, tree, memory, PushTypeOK, Rows, Checkpoints, IdsHeld, LockHeld,
     RowHeld, SweepHeld, Sweeping, Unused, Unstaged, CommitHeld
<1>18. ASSUME CheckpointFails PROVE SweepHeld'
  BY <1>18 DEF CheckpointFails, tables, memory, SweepHeld, Sweeping
<1>19. ASSUME NEW f \in SUBSET Entries, EndCheckpoint(f) PROVE SweepHeld'
  BY <1>19 DEF EndCheckpoint, tables, memory, SweepHeld, Sweeping
<1>20. ASSUME Dropping PROVE SweepHeld'
  BY <1>20 DEF Dropping, tables, memory, SweepHeld, Sweeping
<1>21. ASSUME Retained PROVE SweepHeld'
  BY <1>21 DEF Retained, Unlock, Unregister, Park, NoReg, NoPass, NoReceive, tables, tree,
     PushTypeOK, Regs, IdsHeld, LockHeld, RowHeld, SweepHeld, Sweeping, Unused, Unstaged,
     CommitHeld
<1>22. ASSUME NEW r \in BOOLEAN, NEW d \in BOOLEAN, Cleared(r, d) PROVE SweepHeld'
  <2>1. recv.id # NoPush /\ row.id = recv.id /\ reg.id = recv.id /\ lock = recv.id /\ row.committed
    BY <1>22 DEF Cleared, LockHeld, CommitHeld
  <2>2. row' = NoRecord \/ row' = row
    BY <1>22 DEF Cleared
  <2>3. reg'.id = NoPush /\ lock' = NoPush /\ swp' = swp
    BY <1>22, <2>1, PushRecords DEF Cleared, Unregister, Unlock, NoReg
  <2>4. NoRecord.id = NoPush /\ ~NoRecord.full
    BY DEF NoRecord
  <2>5. recv.id # Sweeper
    BY <2>1 DEF PushTypeOK, Receives
  <2>6. swp.pc # "rest" => swp.row.id # recv.id /\ swp.pc # "rmdir" /\ swp.row.id # NoPush
    BY <2>1, <2>5 DEF SweepHeld
  <2> QED
    BY <2>1, <2>2, <2>3, <2>4, <2>5, <2>6 DEF SweepHeld, Sweeping
<1>23. ASSUME CancelPush PROVE SweepHeld'
  BY <1>23 DEF CancelPush, tables, memory, SweepHeld, Sweeping
<1>24. ASSUME AbortUnconnected PROVE SweepHeld'
  BY <1>24 DEF AbortUnconnected, Unlock, Park, NoPass, tables, tree, work, PushTypeOK, Regs,
     IdsHeld, LockHeld, RowHeld, SweepHeld, Sweeping, Unused, Unstaged, CommitHeld
<1>25. ASSUME NEW to \in {"closed", "expired", "removed"}, CloseLink(to) PROVE SweepHeld'
  BY <1>25 DEF CloseLink, memory, SweepHeld, Sweeping
<1>26. ASSUME ReopenLink PROVE SweepHeld'
  BY <1>26 DEF ReopenLink, memory, SweepHeld, Sweeping
<1>27. ASSUME SweepIdle PROVE SweepHeld'
  BY <1>27 DEF SweepIdle, NoReg, Registered, tables, tree, work, PushTypeOK, IdsHeld, LockHeld,
     RowHeld, SweepHeld, Sweeping, Unused, Unstaged, CommitHeld
<1>28. ASSUME SweepTicket PROVE SweepHeld'
  BY <1>28 DEF SweepTicket, Unlock, Park, NoPass, tables, tree, PushTypeOK, Regs, Receives,
     IdsHeld, LockHeld, RowHeld, SweepHeld, Sweeping, Unused, Unstaged, CommitHeld
<1>29. ASSUME Age PROVE SweepHeld'
  BY <1>29 DEF Age, tree, memory, work, PushTypeOK, Rows, IdsHeld, LockHeld, RowHeld, SweepHeld,
     Sweeping, Unused, Unstaged, CommitHeld
<1>30. ASSUME SweepPick PROVE SweepHeld'
  BY <1>30 DEF SweepPick, Registered, tables, tree, memory, work, PushTypeOK, IdsHeld, LockHeld,
     RowHeld, SweepHeld, Sweeping, Unused, Unstaged, CommitHeld
<1>31. ASSUME SweepLock PROVE SweepHeld'
  BY <1>31 DEF SweepLock, Registered, Resting, NoRecord, Zero, tables, tree, memory, work,
     PushTypeOK, Sweeps, IdsHeld, LockHeld, RowHeld, SweepHeld, Sweeping, Unused, Unstaged,
     CommitHeld
<1>32. ASSUME SweepReport PROVE SweepHeld'
  BY <1>32 DEF SweepReport, tree, memory, work, PushTypeOK, Sweeps, IdsHeld, LockHeld, RowHeld,
     SweepHeld, Sweeping, Unused, Unstaged, CommitHeld
<1>33. ASSUME SweepDelete PROVE SweepHeld'
  BY <1>33 DEF SweepDelete, NoRecord, Zero, Unlock, Resting, tree, memory, work, PushTypeOK,
     Sweeps, IdsHeld, LockHeld, RowHeld, SweepHeld, Sweeping, Unused, Unstaged, CommitHeld
<1>34. ASSUME SweepDiscard PROVE SweepHeld'
  BY <1>34 DEF SweepDiscard, Discarded, Unlock, Resting, NoRecord, Zero, tables, memory, work,
     PushTypeOK, Sweeps, IdsHeld, LockHeld, RowHeld, SweepHeld, Sweeping, Unused, Unstaged,
     CommitHeld
<1>35. ASSUME SweepRemove PROVE SweepHeld'
  BY <1>35 DEF SweepRemove, Unlock, Resting, NoRecord, Zero, tables, memory, work, PushTypeOK,
     Sweeps, IdsHeld, LockHeld, RowHeld, SweepHeld, Sweeping, Unused, Unstaged, CommitHeld
<1>36. ASSUME SweepFails PROVE SweepHeld'
  BY <1>36 DEF SweepFails, Unlock, Resting, NoRecord, Zero, tables, tree, memory, work,
     PushTypeOK, IdsHeld, LockHeld, RowHeld, SweepHeld, Sweeping, Unused, Unstaged, CommitHeld
<1>37. ASSUME PushBoot PROVE SweepHeld'
  BY <1>37 DEF PushBoot, NoRecord, Zero, Discarded, NoReg, NoPass, NoReceive, NoCheckpoint,
     Resting, PushTypeOK, IdsHeld, LockHeld, RowHeld, SweepHeld, Sweeping, Unused, Unstaged,
     CommitHeld
<1>38. ASSUME UNCHANGED pvars PROVE SweepHeld'
  BY <1>38 DEF pvars, SweepHeld, Sweeping
<1> QED
  BY <1>1, <1>2, <1>3, <1>4, <1>5, <1>6, <1>7, <1>8, <1>9, <1>10, <1>11, <1>12, <1>13, <1>14,
     <1>15, <1>16, <1>17, <1>18, <1>19, <1>20, <1>21, <1>22, <1>23, <1>24, <1>25, <1>26, <1>27,
     <1>28, <1>29, <1>30, <1>31, <1>32, <1>33, <1>34, <1>35, <1>36, <1>37, <1>38 DEF PushNext

LEMMA EntriesKept == PushInv /\ [PushNext]_pvars => EntryHeld'
<1> SUFFICES ASSUME PushInv, [PushNext]_pvars PROVE EntryHeld'
  OBVIOUS
<1> USE PushAssumption DEF PushInv
<1>1. ASSUME NEW s \in Pushes, LockDirectory(s) PROVE EntryHeld'
  BY <1>1 DEF LockDirectory, tables, work, EntryHeld, Moving
<1>2. ASSUME NEW s \in Pushes, RegisterPush(s) PROVE EntryHeld'
  BY <1>2 DEF RegisterPush, tables, tree, work, EntryHeld, Moving
<1>3. ASSUME NEW s \in Pushes, PersistPush(s) PROVE EntryHeld'
  BY <1>3 DEF PersistPush, tree, work, PushTypeOK, Rows, LockHeld, RowHeld, SweepHeld, Sweeping,
     EntryHeld, Moving, CheckHeld, CommitHeld, RailEnded, Unused
<1>4. ASSUME NEW s \in Pushes, PersistFails(s) PROVE EntryHeld'
  BY <1>4 DEF PersistFails, tables, tree, work, EntryHeld, Moving
<1>5. ASSUME NEW s \in Pushes, IssueFails(s) PROVE EntryHeld'
  BY <1>5 DEF IssueFails, Unlock, Park, tree, work, PushTypeOK, Rows, Regs, LockHeld, RowHeld,
     SweepHeld, Sweeping, EntryHeld, Moving, CheckHeld, CommitHeld, RailEnded, Unused
<1>6. ASSUME Connect PROVE EntryHeld'
  BY <1>6 DEF Connect, NoReceive, Zero, tables, tree, PushTypeOK, Regs, Passes, Receives,
     LockHeld, RowHeld, SweepHeld, Sweeping, EntryHeld, Moving, CheckHeld, CommitHeld, RailEnded,
     Unused
<1>7. ASSUME Manifest PROVE EntryHeld'
  BY <1>7 DEF Manifest, Restored, NoRecord, Zero, memory, PushTypeOK, Rows, Receives, LockHeld,
     RowHeld, SweepHeld, Sweeping, EntryHeld, Moving, CheckHeld, CommitHeld, RailEnded, Unused
<1>8. ASSUME NEW e \in Entries, ChooseSink(e) PROVE EntryHeld'
  BY <1>8 DEF ChooseSink, Live, tables, tree, memory, PushTypeOK, RailSteps, LockHeld, RowHeld,
     SweepHeld, Sweeping, EntryHeld, Moving, CheckHeld, CommitHeld, RailEnded, Unused
<1>9. ASSUME NEW e \in Entries, Place(e) PROVE EntryHeld'
  BY <1>9 DEF Place, Live, tables, tree, memory, PushTypeOK, Rows, Regs, Passes, Receives,
     RailSteps, Checkpoints, Sweeps, LockHeld, RowHeld, SweepHeld, Sweeping, EntryHeld, Moving,
     CheckHeld, CommitHeld, RailEnded, Unused
<1>10. ASSUME NEW e \in Entries, TakeObject(e) PROVE EntryHeld'
  BY <1>10 DEF TakeObject, Live, tables, tree, memory, PushTypeOK, Rows, Regs, Passes, Receives,
     RailSteps, Checkpoints, Sweeps, LockHeld, RowHeld, SweepHeld, Sweeping, EntryHeld, Moving,
     CheckHeld, CommitHeld, RailEnded, Unused
<1>11. ASSUME NEW e \in Entries, PublishObject(e) PROVE EntryHeld'
  BY <1>11 DEF PublishObject, tables, memory, PushTypeOK, Rows, Regs, Passes, Receives, RailSteps,
     Checkpoints, Sweeps, LockHeld, RowHeld, SweepHeld, Sweeping, EntryHeld, Moving, CheckHeld,
     CommitHeld, RailEnded, Unused
<1>12. ASSUME NEW e \in Entries, NEW due \in BOOLEAN, CountObject(e, due) PROVE EntryHeld'
  BY <1>12 DEF CountObject, tables, tree, memory, PushTypeOK, Receives, RailSteps, LockHeld,
     RowHeld, SweepHeld, Sweeping, EntryHeld, Moving, CheckHeld, CommitHeld, RailEnded, Unused
<1>13. ASSUME NEW e \in Entries, DecideCommit(e) PROVE EntryHeld'
  BY <1>13 DEF DecideCommit, tables, tree, memory, PushTypeOK, Receives, RailSteps, LockHeld,
     RowHeld, SweepHeld, Sweeping, EntryHeld, Moving, CheckHeld, CommitHeld, RailEnded, Unused
<1>14. ASSUME NEW e \in Entries, CommitPush(e) PROVE EntryHeld'
  BY <1>14 DEF CommitPush, tree, memory, PushTypeOK, Rows, Receives, RailSteps, LockHeld, RowHeld,
     SweepHeld, Sweeping, EntryHeld, Moving, CheckHeld, CommitHeld, RailEnded, Unused
<1>15. ASSUME NEW e \in Entries, RailFails(e) PROVE EntryHeld'
  BY <1>15 DEF RailFails, tables, tree, memory, PushTypeOK, RailSteps, LockHeld, RowHeld,
     SweepHeld, Sweeping, EntryHeld, Moving, CheckHeld, CommitHeld, RailEnded, Unused
<1>16. ASSUME NEW by \in Entries \cup {DropStep}, BeginCheckpoint(by) PROVE EntryHeld'
  BY <1>16 DEF BeginCheckpoint, tables, tree, memory, PushTypeOK, Receives, LockHeld, RowHeld,
     SweepHeld, Sweeping, EntryHeld, Moving, CheckHeld, CommitHeld, RailEnded, Unused
<1>17. ASSUME WriteCheckpoint PROVE EntryHeld'
  BY <1>17 DEF WriteCheckpoint, tree, memory, PushTypeOK, Rows, Regs, Passes, Receives, RailSteps,
     Checkpoints, Sweeps, LockHeld, RowHeld, SweepHeld, Sweeping, EntryHeld, Moving, CheckHeld,
     CommitHeld, RailEnded, Unused
<1>18. ASSUME CheckpointFails PROVE EntryHeld'
  BY <1>18 DEF CheckpointFails, NoCheckpoint, Zero, tables, tree, memory, PushTypeOK, Rows, Regs,
     Passes, Receives, RailSteps, Checkpoints, Sweeps, LockHeld, RowHeld, SweepHeld, Sweeping,
     EntryHeld, Moving, CheckHeld, CommitHeld, RailEnded, Unused
<1>19. ASSUME NEW f \in SUBSET Entries, EndCheckpoint(f) PROVE EntryHeld'
  BY <1>19 DEF EndCheckpoint, Unmoved, NoCheckpoint, Zero, tables, memory, PushTypeOK, Rows, Regs,
     Passes, Receives, RailSteps, Checkpoints, Sweeps, LockHeld, RowHeld, SweepHeld, Sweeping,
     EntryHeld, Moving, CheckHeld, CommitHeld, RailEnded, Unused
<1>20. ASSUME Dropping PROVE EntryHeld'
  <2>1. /\ recv'.mem = recv.mem /\ recv'.marker = recv.marker
        /\ recv'.pc = IF recv.succeeded THEN "dropped" ELSE "dropping"
        /\ recv'.dirty = IF recv.pc = "ready" /\ ~recv.succeeded THEN Entries ELSE recv.dirty
    BY <1>20 DEF Dropping, PushTypeOK, Receives
  <2>2. \A x \in Entries : rail[x] \in RailEnded
    BY <1>20 DEF Dropping
  <2>3. row' = row /\ disk' = disk /\ rail' = rail /\ ck' = ck /\ ck.plan = {}
    BY <1>20 DEF Dropping, tables, tree, CheckHeld
  <2>4. recv.pc = "connected" => recv.dirty = {}
    BY DEF EntryHeld
  <2> QED
    BY <1>20, <2>1, <2>2, <2>3, <2>4 DEF Dropping, EntryHeld, Moving, RailEnded
<1>21. ASSUME Retained PROVE EntryHeld'
  BY <1>21 DEF Retained, Unlock, Unregister, Park, NoReg, NoPass, NoReceive, tables, tree,
     PushTypeOK, Regs, LockHeld, RowHeld, SweepHeld, Sweeping, EntryHeld, Moving, CheckHeld,
     CommitHeld, RailEnded, Unused
<1>22. ASSUME NEW r \in BOOLEAN, NEW d \in BOOLEAN, Cleared(r, d) PROVE EntryHeld'
  BY <1>22 DEF Cleared, Unlock, Unregister, NoReg, NoPass, NoReceive, NoRecord, Zero, PushTypeOK,
     LockHeld, RowHeld, SweepHeld, Sweeping, EntryHeld, Moving, CheckHeld, CommitHeld, RailEnded,
     Unused
<1>23. ASSUME CancelPush PROVE EntryHeld'
  BY <1>23 DEF CancelPush, tables, tree, memory, PushTypeOK, Receives, LockHeld, RowHeld,
     SweepHeld, Sweeping, EntryHeld, Moving, CheckHeld, CommitHeld, RailEnded, Unused
<1>24. ASSUME AbortUnconnected PROVE EntryHeld'
  BY <1>24 DEF AbortUnconnected, tables, tree, work, EntryHeld, Moving
<1>25. ASSUME NEW to \in {"closed", "expired", "removed"}, CloseLink(to) PROVE EntryHeld'
  BY <1>25 DEF CloseLink, tree, work, EntryHeld, Moving
<1>26. ASSUME ReopenLink PROVE EntryHeld'
  BY <1>26 DEF ReopenLink, tree, work, EntryHeld, Moving
<1>27. ASSUME SweepIdle PROVE EntryHeld'
  BY <1>27 DEF SweepIdle, tables, tree, work, EntryHeld, Moving
<1>28. ASSUME SweepTicket PROVE EntryHeld'
  BY <1>28 DEF SweepTicket, Unlock, Park, NoPass, tables, tree, PushTypeOK, Regs, Receives,
     LockHeld, RowHeld, SweepHeld, Sweeping, EntryHeld, Moving, CheckHeld, CommitHeld, RailEnded,
     Unused
<1>29. ASSUME Age PROVE EntryHeld'
  BY <1>29 DEF Age, tree, memory, work, PushTypeOK, Rows, LockHeld, RowHeld, SweepHeld, Sweeping,
     EntryHeld, Moving, CheckHeld, CommitHeld, RailEnded, Unused
<1>30. ASSUME SweepPick PROVE EntryHeld'
  BY <1>30 DEF SweepPick, tables, tree, work, EntryHeld, Moving
<1>31. ASSUME SweepLock PROVE EntryHeld'
  BY <1>31 DEF SweepLock, tables, tree, work, EntryHeld, Moving
<1>32. ASSUME SweepReport PROVE EntryHeld'
  BY <1>32 DEF SweepReport, tree, work, EntryHeld, Moving
<1>33. ASSUME SweepDelete PROVE EntryHeld'
  BY <1>33 DEF SweepDelete, NoRecord, Zero, Unlock, Resting, tree, memory, work, PushTypeOK,
     Sweeps, LockHeld, RowHeld, SweepHeld, Sweeping, EntryHeld, Moving, CheckHeld, CommitHeld,
     RailEnded, Unused
<1>34. ASSUME SweepDiscard PROVE EntryHeld'
  BY <1>34 DEF SweepDiscard, Discarded, Unlock, Resting, NoRecord, Zero, tables, memory, work,
     PushTypeOK, Sweeps, LockHeld, RowHeld, SweepHeld, Sweeping, EntryHeld, Moving, CheckHeld,
     CommitHeld, RailEnded, Unused
<1>35. ASSUME SweepRemove PROVE EntryHeld'
  BY <1>35 DEF SweepRemove, tables, work, EntryHeld, Moving
<1>36. ASSUME SweepFails PROVE EntryHeld'
  BY <1>36 DEF SweepFails, tables, tree, work, EntryHeld, Moving
<1>37. ASSUME PushBoot PROVE EntryHeld'
  BY <1>37 DEF PushBoot, NoRecord, Zero, Discarded, NoReg, NoPass, NoReceive, NoCheckpoint,
     Resting, PushTypeOK, LockHeld, RowHeld, SweepHeld, Sweeping, EntryHeld, Moving, CheckHeld,
     CommitHeld, RailEnded, Unused
<1>38. ASSUME UNCHANGED pvars PROVE EntryHeld'
  BY <1>38 DEF pvars, EntryHeld, Moving
<1> QED
  BY <1>1, <1>2, <1>3, <1>4, <1>5, <1>6, <1>7, <1>8, <1>9, <1>10, <1>11, <1>12, <1>13, <1>14,
     <1>15, <1>16, <1>17, <1>18, <1>19, <1>20, <1>21, <1>22, <1>23, <1>24, <1>25, <1>26, <1>27,
     <1>28, <1>29, <1>30, <1>31, <1>32, <1>33, <1>34, <1>35, <1>36, <1>37, <1>38 DEF PushNext

LEMMA ChecksKept == PushInv /\ [PushNext]_pvars => CheckHeld'
<1> SUFFICES ASSUME PushInv, [PushNext]_pvars PROVE CheckHeld'
  OBVIOUS
<1> USE PushAssumption DEF PushInv
<1>1. ASSUME NEW s \in Pushes, LockDirectory(s) PROVE CheckHeld'
  BY <1>1 DEF LockDirectory, tables, work, CheckHeld
<1>2. ASSUME NEW s \in Pushes, RegisterPush(s) PROVE CheckHeld'
  BY <1>2 DEF RegisterPush, tables, work, CheckHeld
<1>3. ASSUME NEW s \in Pushes, PersistPush(s) PROVE CheckHeld'
  BY <1>3 DEF PersistPush, tree, work, PushTypeOK, Rows, LockHeld, RowHeld, SweepHeld, Sweeping,
     EntryHeld, Moving, CheckHeld, RailEnded, Unused
<1>4. ASSUME NEW s \in Pushes, PersistFails(s) PROVE CheckHeld'
  BY <1>4 DEF PersistFails, tables, work, CheckHeld
<1>5. ASSUME NEW s \in Pushes, IssueFails(s) PROVE CheckHeld'
  BY <1>5 DEF IssueFails, Unlock, Park, tree, work, PushTypeOK, Rows, Regs, LockHeld, RowHeld,
     SweepHeld, Sweeping, EntryHeld, Moving, CheckHeld, RailEnded, Unused
<1>6. ASSUME Connect PROVE CheckHeld'
  BY <1>6 DEF Connect, NoReceive, Zero, tables, tree, PushTypeOK, Rows, Regs, Passes, Receives,
     RailSteps, Checkpoints, Sweeps, LockHeld, RowHeld, SweepHeld, Sweeping, EntryHeld, Moving,
     CheckHeld, RailEnded, Unused
<1>7. ASSUME Manifest PROVE CheckHeld'
  BY <1>7 DEF Manifest, Restored, NoRecord, Zero, memory, PushTypeOK, Rows, Regs, Passes,
     Receives, RailSteps, Checkpoints, Sweeps, LockHeld, RowHeld, SweepHeld, Sweeping, EntryHeld,
     Moving, CheckHeld, RailEnded, Unused
<1>8. ASSUME NEW e \in Entries, ChooseSink(e) PROVE CheckHeld'
  BY <1>8 DEF ChooseSink, Live, tables, tree, memory, PushTypeOK, RailSteps, LockHeld, RowHeld,
     SweepHeld, Sweeping, EntryHeld, Moving, CheckHeld, RailEnded, Unused
<1>9. ASSUME NEW e \in Entries, Place(e) PROVE CheckHeld'
  BY <1>9 DEF Place, Live, tables, tree, memory, PushTypeOK, Rows, Regs, Passes, Receives,
     RailSteps, Checkpoints, Sweeps, LockHeld, RowHeld, SweepHeld, Sweeping, EntryHeld, Moving,
     CheckHeld, RailEnded, Unused
<1>10. ASSUME NEW e \in Entries, TakeObject(e) PROVE CheckHeld'
  BY <1>10 DEF TakeObject, Live, tables, tree, memory, PushTypeOK, RailSteps, LockHeld, RowHeld,
     SweepHeld, Sweeping, EntryHeld, Moving, CheckHeld, RailEnded, Unused
<1>11. ASSUME NEW e \in Entries, PublishObject(e) PROVE CheckHeld'
  BY <1>11 DEF PublishObject, tables, memory, PushTypeOK, Rows, Regs, Passes, Receives, RailSteps,
     Checkpoints, Sweeps, LockHeld, RowHeld, SweepHeld, Sweeping, EntryHeld, Moving, CheckHeld,
     RailEnded, Unused
<1>12. ASSUME NEW e \in Entries, NEW due \in BOOLEAN, CountObject(e, due) PROVE CheckHeld'
  BY <1>12 DEF CountObject, tables, tree, memory, PushTypeOK, Receives, RailSteps, LockHeld,
     RowHeld, SweepHeld, Sweeping, EntryHeld, Moving, CheckHeld, RailEnded, Unused
<1>13. ASSUME NEW e \in Entries, DecideCommit(e) PROVE CheckHeld'
  BY <1>13 DEF DecideCommit, tables, tree, memory, PushTypeOK, Receives, RailSteps, LockHeld,
     RowHeld, SweepHeld, Sweeping, EntryHeld, Moving, CheckHeld, RailEnded, Unused
<1>14. ASSUME NEW e \in Entries, CommitPush(e) PROVE CheckHeld'
  BY <1>14 DEF CommitPush, tree, memory, PushTypeOK, Rows, Receives, RailSteps, LockHeld, RowHeld,
     SweepHeld, Sweeping, EntryHeld, Moving, CheckHeld, RailEnded, Unused
<1>15. ASSUME NEW e \in Entries, RailFails(e) PROVE CheckHeld'
  BY <1>15 DEF RailFails, tables, tree, memory, PushTypeOK, RailSteps, LockHeld, RowHeld,
     SweepHeld, Sweeping, EntryHeld, Moving, CheckHeld, RailEnded, Unused
<1>16. ASSUME NEW by \in Entries \cup {DropStep}, BeginCheckpoint(by) PROVE CheckHeld'
  BY <1>16 DEF BeginCheckpoint, tables, tree, memory, PushTypeOK, Receives, LockHeld, RowHeld,
     SweepHeld, Sweeping, EntryHeld, Moving, CheckHeld, RailEnded, Unused
<1>17. ASSUME WriteCheckpoint PROVE CheckHeld'
  BY <1>17 DEF WriteCheckpoint, tree, memory, PushTypeOK, Rows, Checkpoints, LockHeld, RowHeld,
     SweepHeld, Sweeping, EntryHeld, Moving, CheckHeld, RailEnded, Unused
<1>18. ASSUME CheckpointFails PROVE CheckHeld'
  BY <1>18 DEF CheckpointFails, NoCheckpoint, Zero, tables, tree, memory, PushTypeOK, Receives,
     RailSteps, LockHeld, RowHeld, SweepHeld, Sweeping, EntryHeld, Moving, CheckHeld, RailEnded,
     Unused
<1>19. ASSUME NEW f \in SUBSET Entries, EndCheckpoint(f) PROVE CheckHeld'
  BY <1>19 DEF EndCheckpoint, Unmoved, NoCheckpoint, Zero, tables, memory, PushTypeOK, Receives,
     RailSteps, LockHeld, RowHeld, SweepHeld, Sweeping, EntryHeld, Moving, CheckHeld, RailEnded,
     Unused
<1>20. ASSUME Dropping PROVE CheckHeld'
  BY <1>20 DEF Dropping, RailEnded, tables, tree, memory, PushTypeOK, Receives, LockHeld, RowHeld,
     SweepHeld, Sweeping, EntryHeld, Moving, CheckHeld, RailEnded, Unused
<1>21. ASSUME Retained PROVE CheckHeld'
  BY <1>21 DEF Retained, Unlock, Unregister, Park, NoReg, NoPass, NoReceive, tables, tree,
     PushTypeOK, Rows, Regs, Passes, Receives, RailSteps, Checkpoints, Sweeps, LockHeld, RowHeld,
     SweepHeld, Sweeping, EntryHeld, Moving, CheckHeld, RailEnded, Unused
<1>22. ASSUME NEW r \in BOOLEAN, NEW d \in BOOLEAN, Cleared(r, d) PROVE CheckHeld'
  BY <1>22 DEF Cleared, Unlock, Unregister, NoReg, NoPass, NoReceive, NoRecord, Zero, PushTypeOK,
     Rows, Regs, Passes, Receives, RailSteps, Checkpoints, Sweeps, LockHeld, RowHeld, SweepHeld,
     Sweeping, EntryHeld, Moving, CheckHeld, RailEnded, Unused
<1>23. ASSUME CancelPush PROVE CheckHeld'
  BY <1>23 DEF CancelPush, tables, tree, memory, PushTypeOK, Receives, LockHeld, RowHeld,
     SweepHeld, Sweeping, EntryHeld, Moving, CheckHeld, RailEnded, Unused
<1>24. ASSUME AbortUnconnected PROVE CheckHeld'
  BY <1>24 DEF AbortUnconnected, tables, work, CheckHeld
<1>25. ASSUME NEW to \in {"closed", "expired", "removed"}, CloseLink(to) PROVE CheckHeld'
  BY <1>25 DEF CloseLink, work, CheckHeld
<1>26. ASSUME ReopenLink PROVE CheckHeld'
  BY <1>26 DEF ReopenLink, work, CheckHeld
<1>27. ASSUME SweepIdle PROVE CheckHeld'
  BY <1>27 DEF SweepIdle, tables, work, CheckHeld
<1>28. ASSUME SweepTicket PROVE CheckHeld'
  BY <1>28 DEF SweepTicket, Unlock, Park, NoPass, tables, tree, PushTypeOK, Regs, Receives,
     LockHeld, RowHeld, SweepHeld, Sweeping, EntryHeld, Moving, CheckHeld, RailEnded, Unused
<1>29. ASSUME Age PROVE CheckHeld'
  BY <1>29 DEF Age, tree, memory, work, PushTypeOK, Rows, LockHeld, RowHeld, SweepHeld, Sweeping,
     EntryHeld, Moving, CheckHeld, RailEnded, Unused
<1>30. ASSUME SweepPick PROVE CheckHeld'
  BY <1>30 DEF SweepPick, tables, work, CheckHeld
<1>31. ASSUME SweepLock PROVE CheckHeld'
  BY <1>31 DEF SweepLock, tables, work, CheckHeld
<1>32. ASSUME SweepReport PROVE CheckHeld'
  BY <1>32 DEF SweepReport, work, CheckHeld
<1>33. ASSUME SweepDelete PROVE CheckHeld'
  BY <1>33 DEF SweepDelete, NoRecord, Zero, Unlock, Resting, tree, memory, work, PushTypeOK, Rows,
     Regs, Passes, Receives, RailSteps, Checkpoints, Sweeps, LockHeld, RowHeld, SweepHeld,
     Sweeping, EntryHeld, Moving, CheckHeld, RailEnded, Unused
<1>34. ASSUME SweepDiscard PROVE CheckHeld'
  BY <1>34 DEF SweepDiscard, tables, work, CheckHeld
<1>35. ASSUME SweepRemove PROVE CheckHeld'
  BY <1>35 DEF SweepRemove, tables, work, CheckHeld
<1>36. ASSUME SweepFails PROVE CheckHeld'
  BY <1>36 DEF SweepFails, tables, work, CheckHeld
<1>37. ASSUME PushBoot PROVE CheckHeld'
  BY <1>37 DEF PushBoot, NoRecord, Zero, Discarded, NoReg, NoPass, NoReceive, NoCheckpoint,
     Resting, PushTypeOK, LockHeld, RowHeld, SweepHeld, Sweeping, EntryHeld, Moving, CheckHeld,
     RailEnded, Unused
<1>38. ASSUME UNCHANGED pvars PROVE CheckHeld'
  BY <1>38 DEF pvars, CheckHeld
<1> QED
  BY <1>1, <1>2, <1>3, <1>4, <1>5, <1>6, <1>7, <1>8, <1>9, <1>10, <1>11, <1>12, <1>13, <1>14,
     <1>15, <1>16, <1>17, <1>18, <1>19, <1>20, <1>21, <1>22, <1>23, <1>24, <1>25, <1>26, <1>27,
     <1>28, <1>29, <1>30, <1>31, <1>32, <1>33, <1>34, <1>35, <1>36, <1>37, <1>38 DEF PushNext

LEMMA CommitsKept == PushInv /\ [PushNext]_pvars => CommitHeld'
<1> SUFFICES ASSUME PushInv, [PushNext]_pvars PROVE CommitHeld'
  OBVIOUS
<1> USE PushAssumption DEF PushInv
<1>1. ASSUME NEW s \in Pushes, LockDirectory(s) PROVE CommitHeld'
  BY <1>1 DEF LockDirectory, tables, work, CommitHeld
<1>2. ASSUME NEW s \in Pushes, RegisterPush(s) PROVE CommitHeld'
  BY <1>2 DEF RegisterPush, tables, work, CommitHeld
<1>3. ASSUME NEW s \in Pushes, PersistPush(s) PROVE CommitHeld'
  BY <1>3 DEF PersistPush, tree, work, PushTypeOK, Rows, IdsHeld, LockHeld, RowHeld, SweepHeld,
     Sweeping, EntryHeld, Moving, CheckHeld, CommitHeld, RailEnded, Unstaged, Unused
<1>4. ASSUME NEW s \in Pushes, PersistFails(s) PROVE CommitHeld'
  BY <1>4 DEF PersistFails, tables, work, CommitHeld
<1>5. ASSUME NEW s \in Pushes, IssueFails(s) PROVE CommitHeld'
  BY <1>5 DEF IssueFails, Unlock, Park, tree, work, PushTypeOK, Rows, Regs, IdsHeld, LockHeld,
     RowHeld, SweepHeld, Sweeping, EntryHeld, Moving, CheckHeld, CommitHeld, RailEnded, Unstaged,
     Unused
<1>6. ASSUME Connect PROVE CommitHeld'
  BY <1>6 DEF Connect, NoReceive, Zero, tables, tree, PushTypeOK, Regs, Passes, Receives, IdsHeld,
     LockHeld, RowHeld, SweepHeld, Sweeping, EntryHeld, Moving, CheckHeld, CommitHeld, RailEnded,
     Unstaged, Unused
<1>7. ASSUME Manifest PROVE CommitHeld'
  BY <1>7 DEF Manifest, Restored, NoRecord, Zero, memory, PushTypeOK, Rows, Receives, IdsHeld,
     LockHeld, RowHeld, SweepHeld, Sweeping, EntryHeld, Moving, CheckHeld, CommitHeld, RailEnded,
     Unstaged, Unused
<1>8. ASSUME NEW e \in Entries, ChooseSink(e) PROVE CommitHeld'
  BY <1>8 DEF ChooseSink, Live, tables, tree, memory, PushTypeOK, RailSteps, IdsHeld, LockHeld,
     RowHeld, SweepHeld, Sweeping, EntryHeld, Moving, CheckHeld, CommitHeld, RailEnded, Unstaged,
     Unused
<1>9. ASSUME NEW e \in Entries, Place(e) PROVE CommitHeld'
  BY <1>9 DEF Place, Live, tables, tree, memory, PushTypeOK, Receives, IdsHeld, LockHeld, RowHeld,
     SweepHeld, Sweeping, EntryHeld, Moving, CheckHeld, CommitHeld, RailEnded, Unstaged, Unused
<1>10. ASSUME NEW e \in Entries, TakeObject(e) PROVE CommitHeld'
  BY <1>10 DEF TakeObject, Live, tables, tree, memory, PushTypeOK, RailSteps, IdsHeld, LockHeld,
     RowHeld, SweepHeld, Sweeping, EntryHeld, Moving, CheckHeld, CommitHeld, RailEnded, Unstaged,
     Unused
<1>11. ASSUME NEW e \in Entries, PublishObject(e) PROVE CommitHeld'
  BY <1>11 DEF PublishObject, tables, memory, PushTypeOK, Receives, RailSteps, IdsHeld, LockHeld,
     RowHeld, SweepHeld, Sweeping, EntryHeld, Moving, CheckHeld, CommitHeld, RailEnded, Unstaged,
     Unused
<1>12. ASSUME NEW e \in Entries, NEW due \in BOOLEAN, CountObject(e, due) PROVE CommitHeld'
  BY <1>12 DEF CountObject, tables, tree, memory, PushTypeOK, Receives, RailSteps, IdsHeld,
     LockHeld, RowHeld, SweepHeld, Sweeping, EntryHeld, Moving, CheckHeld, CommitHeld, RailEnded,
     Unstaged, Unused
<1>13. ASSUME NEW e \in Entries, DecideCommit(e) PROVE CommitHeld'
  BY <1>13 DEF DecideCommit, tables, tree, memory, PushTypeOK, Receives, RailSteps, IdsHeld,
     LockHeld, RowHeld, SweepHeld, Sweeping, EntryHeld, Moving, CheckHeld, CommitHeld, RailEnded,
     Unstaged, Unused
<1>14. ASSUME NEW e \in Entries, CommitPush(e) PROVE CommitHeld'
  BY <1>14 DEF CommitPush, tree, memory, PushTypeOK, Rows, Receives, RailSteps, IdsHeld, LockHeld,
     RowHeld, SweepHeld, Sweeping, EntryHeld, Moving, CheckHeld, CommitHeld, RailEnded, Unstaged,
     Unused
<1>15. ASSUME NEW e \in Entries, RailFails(e) PROVE CommitHeld'
  BY <1>15 DEF RailFails, tables, tree, memory, PushTypeOK, RailSteps, IdsHeld, LockHeld, RowHeld,
     SweepHeld, Sweeping, EntryHeld, Moving, CheckHeld, CommitHeld, RailEnded, Unstaged, Unused
<1>16. ASSUME NEW by \in Entries \cup {DropStep}, BeginCheckpoint(by) PROVE CommitHeld'
  BY <1>16 DEF BeginCheckpoint, tables, tree, memory, PushTypeOK, Receives, IdsHeld, LockHeld,
     RowHeld, SweepHeld, Sweeping, EntryHeld, Moving, CheckHeld, CommitHeld, RailEnded, Unstaged,
     Unused
<1>17. ASSUME WriteCheckpoint PROVE CommitHeld'
  BY <1>17 DEF WriteCheckpoint, tree, memory, PushTypeOK, Rows, Checkpoints, IdsHeld, LockHeld,
     RowHeld, SweepHeld, Sweeping, EntryHeld, Moving, CheckHeld, CommitHeld, RailEnded, Unstaged,
     Unused
<1>18. ASSUME CheckpointFails PROVE CommitHeld'
  BY <1>18 DEF CheckpointFails, NoCheckpoint, Zero, tables, tree, memory, PushTypeOK, Receives,
     RailSteps, IdsHeld, LockHeld, RowHeld, SweepHeld, Sweeping, EntryHeld, Moving, CheckHeld,
     CommitHeld, RailEnded, Unstaged, Unused
<1>19. ASSUME NEW f \in SUBSET Entries, EndCheckpoint(f) PROVE CommitHeld'
  BY <1>19 DEF EndCheckpoint, Unmoved, NoCheckpoint, Zero, tables, memory, PushTypeOK, Receives,
     RailSteps, IdsHeld, LockHeld, RowHeld, SweepHeld, Sweeping, EntryHeld, Moving, CheckHeld,
     CommitHeld, RailEnded, Unstaged, Unused
<1>20. ASSUME Dropping PROVE CommitHeld'
  BY <1>20 DEF Dropping, RailEnded, tables, tree, memory, PushTypeOK, Receives, IdsHeld, LockHeld,
     RowHeld, SweepHeld, Sweeping, EntryHeld, Moving, CheckHeld, CommitHeld, RailEnded, Unstaged,
     Unused
<1>21. ASSUME Retained PROVE CommitHeld'
  BY <1>21 DEF Retained, Unlock, Unregister, Park, NoReg, NoPass, NoReceive, tables, tree,
     PushTypeOK, Regs, IdsHeld, LockHeld, RowHeld, SweepHeld, Sweeping, EntryHeld, Moving,
     CheckHeld, CommitHeld, RailEnded, Unstaged, Unused
<1>22. ASSUME NEW r \in BOOLEAN, NEW d \in BOOLEAN, Cleared(r, d) PROVE CommitHeld'
  BY <1>22 DEF Cleared, Unlock, Unregister, NoReg, NoPass, NoReceive, NoRecord, Zero, PushTypeOK,
     IdsHeld, LockHeld, RowHeld, SweepHeld, Sweeping, EntryHeld, Moving, CheckHeld, CommitHeld,
     RailEnded, Unstaged, Unused
<1>23. ASSUME CancelPush PROVE CommitHeld'
  BY <1>23 DEF CancelPush, tables, tree, memory, PushTypeOK, Receives, IdsHeld, LockHeld, RowHeld,
     SweepHeld, Sweeping, EntryHeld, Moving, CheckHeld, CommitHeld, RailEnded, Unstaged, Unused
<1>24. ASSUME AbortUnconnected PROVE CommitHeld'
  BY <1>24 DEF AbortUnconnected, tables, work, CommitHeld
<1>25. ASSUME NEW to \in {"closed", "expired", "removed"}, CloseLink(to) PROVE CommitHeld'
  BY <1>25 DEF CloseLink, work, CommitHeld
<1>26. ASSUME ReopenLink PROVE CommitHeld'
  BY <1>26 DEF ReopenLink, work, CommitHeld
<1>27. ASSUME SweepIdle PROVE CommitHeld'
  BY <1>27 DEF SweepIdle, tables, work, CommitHeld
<1>28. ASSUME SweepTicket PROVE CommitHeld'
  BY <1>28 DEF SweepTicket, Unlock, Park, NoPass, tables, tree, PushTypeOK, Regs, Receives,
     IdsHeld, LockHeld, RowHeld, SweepHeld, Sweeping, EntryHeld, Moving, CheckHeld, CommitHeld,
     RailEnded, Unstaged, Unused
<1>29. ASSUME Age PROVE CommitHeld'
  BY <1>29 DEF Age, tree, memory, work, PushTypeOK, Rows, IdsHeld, LockHeld, RowHeld, SweepHeld,
     Sweeping, EntryHeld, Moving, CheckHeld, CommitHeld, RailEnded, Unstaged, Unused
<1>30. ASSUME SweepPick PROVE CommitHeld'
  BY <1>30 DEF SweepPick, tables, work, CommitHeld
<1>31. ASSUME SweepLock PROVE CommitHeld'
  BY <1>31 DEF SweepLock, tables, work, CommitHeld
<1>32. ASSUME SweepReport PROVE CommitHeld'
  BY <1>32 DEF SweepReport, work, CommitHeld
<1>33. ASSUME SweepDelete PROVE CommitHeld'
  BY <1>33 DEF SweepDelete, NoRecord, Zero, Unlock, Resting, tree, memory, work, PushTypeOK,
     Sweeps, IdsHeld, LockHeld, RowHeld, SweepHeld, Sweeping, EntryHeld, Moving, CheckHeld,
     CommitHeld, RailEnded, Unstaged, Unused
<1>34. ASSUME SweepDiscard PROVE CommitHeld'
  BY <1>34 DEF SweepDiscard, tables, work, CommitHeld
<1>35. ASSUME SweepRemove PROVE CommitHeld'
  BY <1>35 DEF SweepRemove, tables, work, CommitHeld
<1>36. ASSUME SweepFails PROVE CommitHeld'
  BY <1>36 DEF SweepFails, tables, work, CommitHeld
<1>37. ASSUME PushBoot PROVE CommitHeld'
  BY <1>37 DEF PushBoot, NoRecord, Zero, Discarded, NoReg, NoPass, NoReceive, NoCheckpoint,
     Resting, PushTypeOK, IdsHeld, LockHeld, RowHeld, SweepHeld, Sweeping, EntryHeld, Moving,
     CheckHeld, CommitHeld, RailEnded, Unstaged, Unused
<1>38. ASSUME UNCHANGED pvars PROVE CommitHeld'
  BY <1>38 DEF pvars, CommitHeld
<1> QED
  BY <1>1, <1>2, <1>3, <1>4, <1>5, <1>6, <1>7, <1>8, <1>9, <1>10, <1>11, <1>12, <1>13, <1>14,
     <1>15, <1>16, <1>17, <1>18, <1>19, <1>20, <1>21, <1>22, <1>23, <1>24, <1>25, <1>26, <1>27,
     <1>28, <1>29, <1>30, <1>31, <1>32, <1>33, <1>34, <1>35, <1>36, <1>37, <1>38 DEF PushNext

LEMMA PushInitInv == PushInit => PushInv
<1> SUFFICES ASSUME PushInit PROVE PushInv
  OBVIOUS
<1> USE PushAssumption DEF PushInit
<1>1. PushTypeOK
  <2>1. /\ row \in Rows /\ reg \in Regs /\ pass \in Passes /\ recv \in Receives
        /\ ck \in Checkpoints /\ swp \in Sweeps
    BY PushRecords
  <2>2. disk \in [Entries -> {"none", "staged", "published"}] /\ rail \in [Entries -> RailSteps]
    BY DEF RailSteps
  <2>3. announced \in [Pushes -> Nat] /\ pushBoots \in 0 .. MaxPushBoots
    BY DEF PushTypeOK
  <2> QED
    BY <2>1, <2>2, <2>3 DEF PushTypeOK
<1>2. IdsHeld /\ LockHeld
  BY DEF IdsHeld, LockHeld, Unused, Unstaged, NoRecord, NoReg, NoPass, NoReceive, Resting,
     Sweeping
<1>3. RowHeld /\ JournalUntilRecorded /\ SweepHeld
  BY DEF RowHeld, JournalUntilRecorded, SweepHeld, NoRecord, Resting
<1>4. EntryHeld /\ CheckHeld /\ CommitHeld
  BY DEF EntryHeld, CheckHeld, CommitHeld, Moving, RailEnded, NoReceive, NoCheckpoint
<1> QED
  BY <1>1, <1>2, <1>3, <1>4 DEF PushInv

LEMMA PushInvHolds == PushInv => PushHolds
<1> SUFFICES ASSUME PushInv PROVE PushHolds
  OBVIOUS
<1>1. PushTypeOK /\ JournalUntilRecorded
  BY DEF PushInv
<1>2. Resumable
  BY DEF PushInv, RowHeld, Resumable
<1>3. MarkersCommitted
  BY DEF PushInv, EntryHeld, LockHeld, MarkersCommitted
<1>4. CompletedOnce
  BY DEF PushInv, CommitHeld, RowHeld, CompletedOnce
<1> QED
  BY <1>1, <1>2, <1>3, <1>4 DEF PushHolds

\* create_push_session, run_checkpoint, finish_object and sweep_push_staging: for
\* any number of pushes and files, in every order of their rails, checkpoints,
\* sweeps and restarts, a push finds the files its row names, a publication
\* journal outlives the rows that need it, markers stay behind the rows, and a
\* push is announced once, whole.  A failing persist_push is left out: it drops
\* the registration of a key whose row still names staging, under a sweep that
\* read the row before.
THEOREM PushKept == ASSUME "persist" \notin PushFaults PROVE PushSpec => []PushHolds
<1>1. PushInit => PushInv
  BY PushInitInv
<1>2. PushInv /\ [PushNext]_pvars => PushInv'
  BY PushTypesKept, IdsKept, LocksKept, RowKept, JournalKept, SweepKept, EntriesKept, ChecksKept,
     CommitsKept DEF PushInv
<1> QED
  BY <1>1, <1>2, PushInvHolds, PTL DEF PushSpec
==============================================================================
