------------------------------- MODULE Routes -------------------------------
(***************************************************************************)
(* One delivery sent over a trade route: the exporter of the sending port  *)
(* (export of server/src/api/outbound/workflows/routes.rs), its binding and*)
(* receipt (server/src/store/routes.rs, trade.rs), the receiving port's    *)
(* admission, sessions and receipt, and the control worker that carries a  *)
(* withdrawal to the receiver.                                             *)
(*                                                                         *)
(* The two ports fail apart: a request may be handled and its reply lost,  *)
(* the sender may die between any two steps, and a session the receiver    *)
(* took may outlive the attempt that opened it.                            *)
(***************************************************************************)
EXTENDS Integers

CONSTANTS
  Uploads, NoUpload, \* session ids of the receiver; each is created once
  MaxTries,          \* bound: attempts of the job
  MaxChanges         \* bound: permission changes by the operators

ASSUME RoutesAssumption ==
  NoUpload \notin Uploads /\ {MaxTries, MaxChanges} \subseteq Nat \ {0}

VARIABLES
  order,   \* the delivery job: state, attempts, receipt (recorded), done (this destination)
  terms,   \* the sender's side of the trade route: state, cancel (cancel_active)
  bound,   \* outbound_routes: row, revocation, ack, due
  export,  \* the exporter: pc, its attempt, what the receiver answered
  courier, \* the control worker: pc, whether acknowledged
  access,  \* the receiver's side of the route: active or closed
  inbound, \* inbound_routes: row, session, receipt, revoked
  session, \* the receiver's sessions: none, live, removed, ended
  whole,   \* the sessions whose upload was recorded in full
  late,    \* a receipt was issued after the route was revoked
  changes

rvars == <<order, terms, bound, export, courier, access, inbound, session, whole, late, changes>>
sending   == <<order, terms, bound>>
receiving == <<access, inbound, session, whole, late>>

Unanswered == [pc |-> "idle", try |-> 0, receipt |-> FALSE, prior |-> NoUpload]
NoControl == [pc |-> "idle", ok |-> FALSE]

RoutesInit ==
  /\ order = [state |-> "retrying", attempts |-> 0, receipt |-> FALSE, done |-> FALSE]
  /\ terms = [state |-> "active", cancel |-> FALSE]
  /\ bound = [row |-> FALSE, revocation |-> FALSE, ack |-> FALSE, due |-> TRUE]
  /\ export = Unanswered /\ courier = NoControl /\ access = "active"
  /\ inbound = [row |-> FALSE, session |-> NoUpload, receipt |-> FALSE, revoked |-> FALSE]
  /\ session = [s \in Uploads |-> "none"]
  /\ whole = {} /\ late = FALSE /\ changes = 0

\* The row of the running attempt, which every write of it is conditional on.
Running == order.state = "exporting" /\ order.attempts = export.try
\* check_destination
MayDeliver ==
  /\ ~bound.revocation /\ ~bound.ack
  /\ terms.state = "active" \/ (bound.row /\ ~terms.cancel)
\* Whether the registry of the receiver still has the route's session.
LiveSession == inbound.session # NoUpload /\ session[inbound.session] = "live"

-----------------------------------------------------------------------------
(* The exporter.                                                           *)

\* The job is claimed for an attempt; a dead process left it exporting.
ClaimExport ==
  /\ export.pc = "idle" /\ order.attempts < MaxTries
  /\ order.state \in {"retrying", "exporting"} /\ ~order.done
  /\ order' = [order EXCEPT !.state = "exporting", !.attempts = @ + 1]
  /\ export' = [Unanswered EXCEPT !.pc = "command", !.try = order.attempts + 1]
  /\ UNCHANGED <<terms, bound, courier, receiving, changes>>

\* fail_delivery_destination and the job's retry.
FailExport ==
  /\ order' = IF Running THEN [order EXCEPT !.state = "retrying"] ELSE order
  /\ export' = Unanswered

\* receive_route_authorized: one row per operation.  An existing row is
\* answered even when the receiver has closed the route meanwhile.
PeerAdmits ==
  /\ export.pc = "command" /\ (inbound.row \/ access = "active")
  /\ inbound' = [inbound EXCEPT !.row = TRUE]
  /\ export' = [export EXCEPT !.pc = IF inbound.revoked THEN "failed" ELSE "bind",
                              !.receipt = inbound.receipt,
                              !.prior = IF LiveSession THEN inbound.session ELSE NoUpload]
  /\ UNCHANGED <<sending, courier, access, session, whole, late, changes>>

\* Mutant: the transfer starts, and the binding is written with its receipt.
BindAfterwards ==
  /\ export.pc = "bind"
  /\ bound' = [bound EXCEPT !.row = @ \/ export.receipt]
  /\ export' = [export EXCEPT !.pc = IF export.receipt THEN "record" ELSE "send"]
  /\ UNCHANGED <<order, terms, courier, receiving, changes>>

\* bind_outbound_route, whatever became of the job, then queue_cancelled: a
\* route closed with cancel_active has the new row revoked at once.
Bind ==
  /\ export.pc = "bind"
  /\ LET cancelled == terms.state # "active" /\ terms.cancel /\ ~order.done /\ ~bound.ack
     IN bound' = [bound EXCEPT !.row = TRUE, !.revocation = @ \/ cancelled,
                               !.due = @ \/ (cancelled /\ ~bound.revocation)]
  /\ export' = [export EXCEPT !.pc = IF export.receipt THEN "record" ELSE "send"]
  /\ UNCHANGED <<order, terms, courier, receiving, changes>>

\* create_session: admission reads the route; a live session is resumed.
\* (Progress::cancelled is asked first and every 250 ms.)
OpenSession(s) ==
  /\ export.pc = "send" /\ Running /\ MayDeliver
  /\ session[s] = "none" /\ ~inbound.receipt /\ ~inbound.revoked /\ ~LiveSession
  /\ session' = [session EXCEPT ![s] = "live"]
  /\ inbound' = [inbound EXCEPT !.session = s]
  /\ UNCHANGED <<sending, export, courier, access, whole, late, changes>>

\* The client aborts the session of an earlier attempt: a native push, or one
\* whose begin was refused.  The worker ends before the session is removed.
AbortPrior ==
  /\ export.pc = "send" /\ export.prior # NoUpload /\ session[export.prior] = "live"
  /\ session' = [session EXCEPT ![export.prior] = "ended"]
  /\ UNCHANGED <<sending, export, courier, access, inbound, whole, late, changes>>

\* The transfer ends, whole or not, known or not.
SendEnds ==
  /\ export.pc = "send"
  /\ export' = [export EXCEPT !.pc = "confirm"]
  /\ UNCHANGED <<sending, courier, receiving, changes>>

\* Mutant: a transfer that was not refused is taken for delivered.
PeerConfirmsAny ==
  /\ export.pc = "confirm"
  /\ export' = [export EXCEPT !.pc = IF ~inbound.revoked THEN "record" ELSE "failed"]
  /\ UNCHANGED <<sending, courier, receiving, changes>>

\* The second command: only a receipt counts.
PeerConfirms ==
  /\ export.pc = "confirm"
  /\ export' = [export EXCEPT !.pc = IF inbound.receipt /\ ~inbound.revoked THEN "record"
                                     ELSE "failed"]
  /\ UNCHANGED <<sending, courier, receiving, changes>>

\* record_route_receipt
RecordReceipt ==
  /\ export.pc = "record"
  /\ order' = [order EXCEPT !.receipt = @ \/ Running]
  /\ export' = [export EXCEPT !.pc = IF Running THEN "complete" ELSE "failed"]
  /\ UNCHANGED <<terms, bound, courier, receiving, changes>>

\* complete_delivery_export
CompleteExport ==
  /\ export.pc = "complete"
  /\ IF Running /\ MayDeliver
     THEN /\ order' = [order EXCEPT !.state = "ready", !.done = TRUE]
          /\ export' = Unanswered
     ELSE export' = [export EXCEPT !.pc = "failed"] /\ UNCHANGED order
  /\ UNCHANGED <<terms, bound, courier, receiving, changes>>

\* An exchange with the receiver fails or its reply is lost.
ExchangeLost ==
  /\ export.pc \in {"command", "bind", "confirm"}
  /\ export' = [export EXCEPT !.pc = "failed"]
  /\ UNCHANGED <<sending, courier, receiving, changes>>
ExportFails ==
  /\ export.pc = "failed"
  /\ FailExport
  /\ UNCHANGED <<terms, bound, courier, receiving, changes>>

\* The sending process dies and starts again.
SenderCrash ==
  /\ export.pc # "idle" \/ courier.pc # "idle"
  /\ export' = Unanswered /\ courier' = NoControl
  /\ UNCHANGED <<sending, receiving, changes>>

-----------------------------------------------------------------------------
(* The receiver.                                                           *)

\* Mutant: the commit asks for a receipt but not whether the route is revoked.
CompleteRouteRevoked(s) ==
  /\ session[s] = "live" /\ ~inbound.receipt
  /\ session' = [session EXCEPT ![s] = "ended"] /\ whole' = whole \cup {s}
  /\ inbound' = [inbound EXCEPT !.receipt = TRUE] /\ late' = (late \/ inbound.revoked)
  /\ UNCHANGED <<sending, export, courier, access, changes>>

\* finish, with complete_route in its transaction: the route bound to the
\* session gets its receipt, once, and refuses the commit when revoked.
CompleteRoute(s) ==
  /\ session[s] = "live" /\ inbound.session = s
  /\ ~inbound.receipt /\ ~inbound.revoked
  /\ session' = [session EXCEPT ![s] = "ended"] /\ whole' = whole \cup {s}
  /\ inbound' = [inbound EXCEPT !.receipt = TRUE] /\ late' = (late \/ inbound.revoked)
  /\ UNCHANGED <<sending, export, courier, access, changes>>

\* Sessions::sweep; the worker has yet to end.
SweepSession(s) ==
  /\ session[s] = "live"
  /\ session' = [session EXCEPT ![s] = "removed"]
  /\ UNCHANGED <<sending, export, courier, access, inbound, whole, late, changes>>

\* A worker without its sender records what it published, if anything, as a
\* partial upload; it joins the route only if the route is still bound to it.
WorkerEnds(s) ==
  /\ session[s] = "removed"
  /\ session' = [session EXCEPT ![s] = "ended"]
  /\ UNCHANGED <<sending, export, courier, access, inbound, whole, late, changes>>

\* update at the receiver: closing with cancel_active revokes what has no
\* receipt, and the handler aborts the sessions.
CloseAccess(cancel) ==
  /\ access = "active" /\ changes < MaxChanges /\ changes' = changes + 1
  /\ access' = "closed"
  /\ inbound' = [inbound EXCEPT !.revoked = @ \/ (cancel /\ inbound.row /\ ~inbound.receipt)]
  /\ UNCHANGED <<sending, export, courier, session, whole, late>>

-----------------------------------------------------------------------------
(* Withdrawal.                                                             *)

\* The job is cancelled in whatever state it is.
CancelOrder ==
  /\ order.state # "cancelled"
  /\ order' = [order EXCEPT !.state = "cancelled"]
  /\ UNCHANGED <<terms, bound, export, courier, receiving, changes>>

\* update_trade_route at the sender, with queue_cancelled.
UpdateTerms(state, cancel) ==
  /\ changes < MaxChanges /\ changes' = changes + 1 /\ terms.state # "revoked"
  /\ terms' = [state |-> state, cancel |-> cancel]
  /\ LET queued == state # "active" /\ cancel /\ bound.row /\ ~order.done
                     /\ ~bound.revocation /\ ~bound.ack
     IN bound' = [bound EXCEPT !.revocation = @ \/ queued, !.due = @ \/ queued]
  /\ UNCHANGED <<order, export, courier, receiving>>

\* Mutant: only a queued revocation is claimed, not that of a cancelled job.
WithdrawnQueued == bound.revocation

\* What claim_route_revocation looks for (the end of the job's grant is left
\* out: like a cancellation, it only makes the row eligible).
Withdrawn == bound.revocation \/ order.state = "cancelled"

\* claim_route_revocation: one attempt, not due again for five minutes.  The
\* control worker alone claims, so its attempt number is left out.
ClaimRevocation ==
  /\ courier.pc = "idle" /\ bound.row /\ ~bound.ack /\ bound.due /\ Withdrawn
  /\ bound' = [bound EXCEPT !.revocation = TRUE, !.due = FALSE]
  /\ courier' = [NoControl EXCEPT !.pc = "sent"]
  /\ UNCHANGED <<order, terms, export, receiving, changes>>

\* Mutant: the receiver acknowledges a revocation of a delivered route
\* without recording it.
PeerRevokesOpen ==
  /\ courier.pc = "sent"
  /\ inbound' = [inbound EXCEPT !.revoked = @ \/ (inbound.row /\ ~LiveSession)]
  /\ courier' = [courier EXCEPT !.pc = "answered", !.ok = TRUE]
  /\ UNCHANGED <<sending, export, access, session, whole, late, changes>>

\* revoke: the row is marked, and the session of the row that was read is
\* aborted before the acknowledgement is signed.
PeerRevokes ==
  /\ courier.pc = "sent"
  /\ inbound' = [inbound EXCEPT !.revoked = @ \/ inbound.row]
  /\ IF LiveSession
     THEN session' = [session EXCEPT ![inbound.session] = "ended"] ELSE UNCHANGED session
  /\ courier' = [courier EXCEPT !.pc = "answered", !.ok = TRUE]
  /\ UNCHANGED <<sending, export, access, whole, late, changes>>

\* The receiver is unreachable or its answer is lost.
ControlLost ==
  /\ courier.pc \in {"sent", "answered"}
  /\ courier' = [courier EXCEPT !.pc = "answered", !.ok = FALSE]
  /\ UNCHANGED <<sending, export, receiving, changes>>

\* finish_route_revocation.
FinishRevocation ==
  /\ courier.pc = "answered"
  /\ bound' = [bound EXCEPT !.ack = courier.ok, !.due = FALSE]
  /\ courier' = NoControl
  /\ UNCHANGED <<order, terms, export, receiving, changes>>

\* next_attempt passes.
ControlDue ==
  /\ bound.row /\ ~bound.due /\ ~bound.ack
  /\ bound' = [bound EXCEPT !.due = TRUE]
  /\ UNCHANGED <<order, terms, export, courier, receiving, changes>>

RoutesNext ==
  \/ ClaimExport \/ PeerAdmits \/ Bind \/ AbortPrior \/ SendEnds \/ PeerConfirms
  \/ RecordReceipt \/ CompleteExport \/ ExchangeLost \/ ExportFails \/ SenderCrash
  \/ \E s \in Uploads : OpenSession(s) \/ CompleteRoute(s) \/ SweepSession(s) \/ WorkerEnds(s)
  \/ \E cancel \in BOOLEAN : CloseAccess(cancel) \/
       \E state \in {"active", "paused", "revoked"} : UpdateTerms(state, cancel)
  \/ CancelOrder \/ ClaimRevocation \/ PeerRevokes \/ ControlLost \/ FinishRevocation
  \/ ControlDue

RoutesSpec == RoutesInit /\ [][RoutesNext]_rvars

\* The control worker polls every two seconds and its retry delay passes; of
\* the exchanges it repeats for ever, one gets through.
RoutesFairness ==
  /\ WF_rvars(ClaimRevocation) /\ WF_rvars(FinishRevocation) /\ WF_rvars(ControlDue)
  /\ WF_rvars(courier.pc = "sent" /\ (PeerRevokes \/ ControlLost))
  /\ SF_rvars(courier.pc = "answered" /\ courier.ok /\ FinishRevocation)
  /\ SF_rvars(PeerRevokes)

-----------------------------------------------------------------------------
(* Properties.                                                             *)

Orders == [state : {"exporting", "retrying", "ready", "cancelled"}, attempts : 0 .. MaxTries,
           receipt : BOOLEAN, done : BOOLEAN]
Bindings == [row : BOOLEAN, revocation : BOOLEAN, ack : BOOLEAN, due : BOOLEAN]
Exports == [pc : {"idle", "command", "bind", "send", "confirm", "record", "complete", "failed"},
            try : 0 .. MaxTries, receipt : BOOLEAN, prior : Uploads \cup {NoUpload}]
Couriers == [pc : {"idle", "sent", "answered"}, ok : BOOLEAN]
Inbounds == [row : BOOLEAN, session : Uploads \cup {NoUpload}, receipt : BOOLEAN,
             revoked : BOOLEAN]

\* The type invariant of one delivery over one route.
RoutesTypeOK ==
  /\ order \in Orders
  /\ terms \in [state : {"active", "paused", "revoked"}, cancel : BOOLEAN]
  /\ bound \in Bindings /\ export \in Exports /\ courier \in Couriers
  /\ access \in {"active", "closed"} /\ inbound \in Inbounds
  /\ session \in [Uploads -> {"none", "live", "removed", "ended"}]
  /\ whole \subseteq Uploads /\ late \in BOOLEAN /\ changes \in 0 .. MaxChanges

\* export, "A lost finish response does not turn a verified remote receipt into
\* a second upload": however often the delivery is retried, the receiver
\* records it in full at most once, under its receipt, and the sender calls it
\* delivered only then.
DeliveredOnce ==
  /\ \A s, t \in whole : s = t
  /\ whole # {} => inbound.receipt
  /\ order.receipt \/ order.done => inbound.receipt

\* Bytes go to the receiver only after the binding that a withdrawal needs is
\* on disk, and an acknowledged withdrawal is final there: the route is
\* revoked, nothing bound to it is still being received, and no receipt
\* follows (bind_outbound_route, revoke_inbound_route).
WithdrawalStops ==
  /\ (\E s \in Uploads : session[s] # "none") => bound.row
  /\ bound.ack => inbound.revoked /\ ~LiveSession
  /\ ~late

\* With the type invariant, by which a stale answer never forges a state of the
\* delivery, the terms or the inbound row.
RoutesHold == RoutesTypeOK /\ WithdrawalStops

\* control_worker: the withdrawal of a delivery that was bound reaches the
\* receiver, through lost answers and restarts, whatever the exporter is doing.
WithdrawalReaches ==
  bound.row /\ (bound.revocation \/ order.state = "cancelled") ~> bound.ack
=============================================================================
