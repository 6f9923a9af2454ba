------------------------------- MODULE Grants -------------------------------
(***************************************************************************)
(* One outbound grant and everything that serves it: the grant row, its    *)
(* per-file counters and fetch tickets (server/src/store/outbound.rs), the *)
(* HTTP file, batch and bundle streams (server/src/api/outbound.rs) and the*)
(* native fetch sessions (server/src/api/serve.rs), against revocation,    *)
(* rotation, holds, expiry, the sweeps and restarts.                       *)
(*                                                                         *)
(* A store call is one transaction, so one step; so is one poll of a body, *)
(* but for the batch, whose poll awaits between its gate and its frame.    *)
(* A stream holds a cancellation token from Gate on.  Tokens live in a map *)
(* by link key (outbound_stream_cancels): the model keeps, per request,    *)
(* whether the token it holds is still in the map ("listed"), cancelled, or*)
(* was taken out of the map uncancelled ("orphan").                        *)
(***************************************************************************)
EXTENDS Integers, FiniteSets, FiniteSetsExt

CONSTANTS
  Files,
  Requests, NoRequest, \* downloads and fetch sessions; each runs once
  Tickets, NoTicket,
  Holders,        \* recipient devices
  Profiles,       \* per behaviour: the routes clients use, and bounds on the
                  \* link keys (one per rotation), the job's releases and restarts
  MaxDownloads,   \* outbound_grants.max_downloads
  MaxActive       \* MAX_ACTIVE_PER_GRANT (16)

ASSUME GrantsAssumption ==
  /\ NoRequest \notin Requests /\ NoTicket \notin Tickets
  /\ IsFiniteSet(Files) /\ Files # {}
  /\ IsFiniteSet(Requests) /\ IsFiniteSet(Tickets)
  /\ Profiles \subseteq [routes : SUBSET {"file", "batch", "bundle", "fetch"},
                         keys : Nat \ {0}, revs : Nat, restarts : Nat]
  /\ {MaxDownloads, MaxActive} \subseteq Nat \ {0}

VARIABLES
  profile,   \* what this behaviour is about
  grant,     \* the row: present, key, revoked, open (released), rev, expired
  count,     \* outbound_grant_files.downloads
  ticket,    \* outbound_fetch_tickets
  req,       \* the requests in progress
  leases,    \* signed leases a client holds: <<request that got it, file>>
  counted,   \* app.counted_leases
  server,    \* the serve registry holds the grant's server
  handlers,  \* withdrawals committed whose streams are not yet cancelled
  withdrawn, \* link keys whose withdrawal has been answered
  whole,     \* batches and bundles handed out to their last byte
  unreserved,\* a recording that held no reservation has been made
  restarts

db       == <<grant, count, ticket>>
client   == <<profile, leases, whole, unreserved>>
admin    == <<handlers, withdrawn, restarts>>
gvars    == <<profile, grant, count, ticket, req, leases, counted, server, handlers, withdrawn, whole,
              unreserved, restarts>>

Idle == [pc |-> "idle", kind |-> "file", key |-> 0, gate |-> "none", files |-> {},
         lease |-> NoRequest, ticket |-> NoTicket, sent |-> {}, recorded |-> {}]
NoRow == [live |-> FALSE, holder |-> NoTicket, key |-> 0, rev |-> 0, expired |-> FALSE,
          admitted |-> FALSE, delivered |-> FALSE]

GrantsInit ==
  /\ profile \in Profiles
  /\ grant = [present |-> TRUE, key |-> 1, revoked |-> FALSE, open |-> TRUE, rev |-> 0,
              expired |-> FALSE]
  /\ count = [f \in Files |-> 0]
  /\ ticket = [t \in Tickets |-> NoRow]
  /\ req = [r \in Requests |-> Idle]
  /\ leases = {} /\ counted = {} /\ server = FALSE
  /\ handlers = {} /\ withdrawn = {}
  /\ whole = 0 /\ unreserved = FALSE /\ restarts = 0

-----------------------------------------------------------------------------
(* What the store and the registries answer.                               *)

Downloads == Min({count[f] : f \in Files})
\* readable_grant: the link key finds an unrevoked, unexpired row
Readable == grant.present /\ ~grant.revoked /\ ~grant.expired
\* delivery_access_in, on the key a request read earlier
Accessible(k) == Readable /\ grant.key = k /\ grant.open
\* grant_is_exhausted
Spent(f) == count[f] >= MaxDownloads
\* DownloadLease::passes_spent
PassesSpent(l) == l \in counted

\* open: between two polls.  polled: a poll of a batch is past its gate.
Holding == {"claimed", "gated", "admitted", "open", "polled"}
Streaming(r) == req[r].pc \in {"open", "polled"}
Claims(k) == {r \in Requests : req[r].key = k /\ req[r].pc \in Holding}
\* The names in outbound_active: one for all rails of a ticket, one per
\* leased file request, one per route otherwise.
ClaimName(r) ==
  CASE req[r].kind = "fetch" -> <<"quic", req[r].ticket>>
    [] req[r].lease # NoRequest -> <<"leased", r>>
    [] req[r].kind = "file" -> <<"file", req[r].files>>
    [] OTHER -> <<req[r].kind, 0>>

Undelivered(t) == ticket[t].live /\ ~ticket[t].expired /\ ~ticket[t].delivered
\* The reservations a mint or an admission counts against the limit.
Reserves(t, h, k, v) ==
  /\ Undelivered(t)
  /\ \/ ticket[t].admitted
     \/ ticket[t].key = k /\ ticket[t].rev = v /\ ticket[t].holder # h
Reserved(h, k, v, except) ==
  Cardinality({t \in Tickets \ except : Reserves(t, h, k, v)})

\* Mutant: the limit is checked on the grant's count alone.
CanRecordLoose(fs) == grant.present /\ Downloads < MaxDownloads

\* record_download, one transaction: refused as a whole when the row is gone
\* or any file is at the limit.
CanRecord(fs) == grant.present /\ Downloads < MaxDownloads /\ \A f \in fs : ~Spent(f)
Counted(fs) == [f \in Files |-> IF f \in fs THEN count[f] + 1 ELSE count[f]]

\* cancel_grant_streams for the keys in ks
Cancel(ks) ==
  [r \in Requests |-> IF req[r].key \in ks /\ req[r].gate = "listed"
                      THEN [req[r] EXCEPT !.gate = "cancelled"] ELSE req[r]]
\* The keys cancel_stale_grant_streams finds no longer admitting.
StaleKeys == {k \in 1 .. grant.key : ~Accessible(k)}
\* StreamGate::stopped.  extend_outbound_grant moves a deadline out only while
\* it lies ahead, and the gate rereads one that has passed: expired is final.
Stopped(r) == req[r].gate = "cancelled" \/ grant.expired

\* Mutant: any download that ends takes the key's token out of the map.
EndedAlways(r, table) ==
  [q \in Requests |->
     IF q = r THEN [Idle EXCEPT !.pc = "done"]
     ELSE IF req[r].pc \in Holding /\ table[q].key = req[r].key /\ table[q].gate = "listed"
          THEN [table[q] EXCEPT !.gate = "orphan"] ELSE table[q]]

\* Dropping a request's ActiveDownload: the last one of the key takes the
\* key's token out of the map.
Ended(r, table) ==
  LET k == req[r].key
      last == req[r].pc \in Holding /\ Claims(k) = {r}
  IN [q \in Requests |->
        IF q = r THEN [Idle EXCEPT !.pc = "done"]
        ELSE IF last /\ table[q].key = k /\ table[q].gate = "listed"
             THEN [table[q] EXCEPT !.gate = "orphan"] ELSE table[q]]

\* The body is gone; its record is spawned.
Recording(r) ==
  [Ended(r, req) EXCEPT ![r] = [req[r] EXCEPT !.pc = "recording", !.gate = "none"]]

-----------------------------------------------------------------------------
(* The HTTP routes.                                                        *)

\* active_download_grant and the checks before the claim: one file, with or
\* without a lease that this key issued.
FileRequest(r, f, l) ==
  /\ "file" \in profile.routes /\ req[r].pc = "idle" /\ Readable
  /\ l = NoRequest \/ <<l, f>> \in leases
  /\ ~Spent(f) \/ PassesSpent(l)
  /\ l # NoRequest \/ grant.open
  /\ req' = [req EXCEPT ![r] = [Idle EXCEPT !.pc = "read", !.key = grant.key, !.files = {f},
                                            !.lease = l]]
  /\ UNCHANGED <<db, client, counted, server, admin>>

\* outbound_batch and outbound_bundle up to the claim.
ManyRequest(r, kind) ==
  /\ kind \in profile.routes \cap {"batch", "bundle"} /\ req[r].pc = "idle"
  /\ Accessible(grant.key) /\ Downloads < MaxDownloads
  /\ \A f \in Files : ~Spent(f)
  /\ req' = [req EXCEPT ![r] = [Idle EXCEPT !.pc = "read", !.kind = kind, !.key = grant.key,
                                            !.files = Files]]
  /\ UNCHANGED <<db, client, counted, server, admin>>

\* ActiveDownload::claim, and claim_slot for a rail of a fetch: a name is
\* held once, except that a later rail joins its fetch's slot.
Claim(r) ==
  /\ req[r].pc = "read"
  /\ LET held == {ClaimName(q) : q \in Claims(req[r].key)} IN
     IF ClaimName(r) \in held
     THEN req[r].kind = "fetch"
     ELSE Cardinality(held) < MaxActive
  /\ req' = [req EXCEPT ![r].pc = "claimed"]
  /\ UNCHANGED <<db, client, counted, server, admin>>

\* StreamGate::for_grant.  The token is taken before access is checked again.
\* An unleased file request is redirected instead (Redirect); at the expiry
\* edge it would reach an audit that refuses it.
Gate(r) ==
  /\ req[r].pc = "claimed" /\ (req[r].kind # "file" \/ req[r].lease # NoRequest)
  /\ req' = [req EXCEPT ![r].pc = "gated", ![r].gate = "listed"]
  /\ UNCHANGED <<db, client, counted, server, admin>>

\* outbound_file_inner without a lease: probe, audit, then a redirect that
\* carries a fresh lease.
Redirect(r) ==
  /\ req[r].pc = "claimed" /\ req[r].kind = "file" /\ req[r].lease = NoRequest
  /\ Accessible(req[r].key)
  /\ leases' = leases \cup {<<r, f>> : f \in req[r].files}
  /\ req' = Ended(r, req)
  /\ UNCHANGED <<profile, db, whole, unreserved, counted, server, admin>>

\* audit_download_request, after which the body is handed to the transport;
\* a bundle records first.
Audit(r) ==
  /\ req[r].pc = "gated" /\ req[r].kind # "fetch" /\ Accessible(req[r].key)
  /\ req' = [req EXCEPT ![r].pc = IF req[r].kind = "bundle" THEN "admitted" ELSE "open"]
  /\ UNCHANGED <<db, client, counted, server, admin>>

\* outbound_bundle records every file before the response.
BundleRecord(r) ==
  /\ req[r].pc = "admitted" /\ CanRecord(Files)
  /\ count' = Counted(Files) /\ unreserved' = TRUE
  /\ leases' = leases \cup {<<r, f>> : f \in Files} /\ counted' = counted \cup {r}
  /\ req' = [req EXCEPT ![r].pc = "open", ![r].recorded = Files]
  /\ UNCHANGED <<profile, grant, ticket, whole, server, admin>>

\* A poll of BundleReader that reaches the end of the archive.
BundleEnd(r) ==
  /\ Streaming(r) /\ req[r].kind = "bundle" /\ ~Stopped(r)
  /\ whole' = whole + 1
  /\ req' = Ended(r, req)
  /\ UNCHANGED <<profile, db, leases, unreserved, counted, server, admin>>

\* record_delivered at the start of a poll: the covered files, once they
\* fill the coalescing window (which the model leaves open).
BatchRecord(r) ==
  /\ req[r].pc = "open" /\ req[r].kind = "batch"
  /\ LET due == req[r].sent \ req[r].recorded IN
     /\ due # {} /\ CanRecord(due)
     /\ count' = Counted(due)
  /\ unreserved' = TRUE
  /\ req' = [req EXCEPT ![r].recorded = req[r].sent]
  /\ UNCHANGED <<profile, grant, ticket, leases, whole, counted, server, admin>>

\* The gate of a poll of the batch stream; the next frame is awaited after it.
BatchPoll(r) ==
  /\ req[r].pc = "open" /\ req[r].kind = "batch" /\ ~Stopped(r)
  /\ req' = [req EXCEPT ![r].pc = "polled"]
  /\ UNCHANGED <<db, client, counted, server, admin>>

\* The frame goes out, whatever happened since the gate.  It covers the end of
\* f, not the last file.
BatchFrame(r, f) ==
  /\ req[r].pc = "polled" /\ req[r].kind = "batch"
  /\ f \in Files \ req[r].sent /\ req[r].sent \cup {f} # Files
  /\ req' = [req EXCEPT ![r].pc = "open", ![r].sent = @ \cup {f}]
  /\ UNCHANGED <<db, client, counted, server, admin>>

\* Mutant: the last frame goes out, and a refused record is only logged.
BatchEndUnrecorded(r) ==
  /\ req[r].pc = "polled" /\ req[r].kind = "batch" /\ Cardinality(Files \ req[r].sent) = 1
  /\ count' = IF CanRecord(Files \ req[r].recorded)
              THEN Counted(Files \ req[r].recorded) ELSE count
  /\ unreserved' = TRUE /\ whole' = whole + 1
  /\ req' = Ended(r, [req EXCEPT ![r].recorded = Files, ![r].sent = Files])
  /\ UNCHANGED <<profile, grant, ticket, leases, counted, server, admin>>

\* The poll that reaches the last byte: the chunks that are left are validated
\* and the rest is recorded, both awaited after the gate, before the frame is
\* returned; the client may be gone by then.  The known-length body need not
\* be polled again.
BatchEnd(r) ==
  /\ req[r].pc = "polled" /\ req[r].kind = "batch" /\ Cardinality(Files \ req[r].sent) = 1
  /\ CanRecord(Files \ req[r].recorded)
  /\ count' = Counted(Files \ req[r].recorded)
  /\ unreserved' = TRUE /\ whole' \in {whole, whole + 1}
  /\ req' = Ended(r, [req EXCEPT ![r].recorded = Files, ![r].sent = Files])
  /\ UNCHANGED <<profile, grant, ticket, leases, counted, server, admin>>

\* RecordingStream on the last frame: claim_download_count, and a spawned
\* record for the first retrieval of its lease.  The frame goes out first.
FileEnd(r) ==
  /\ Streaming(r) /\ req[r].kind = "file" /\ ~Stopped(r)
  /\ LET first == req[r].lease \notin counted
     IN req' = IF first THEN Recording(r) ELSE Ended(r, req)
  /\ counted' = counted \cup ({req[r].lease} \ {NoRequest})
  /\ UNCHANGED <<db, client, server, admin>>

\* The spawned record; a refusal is only logged.
FileRecord(r) ==
  /\ req[r].pc = "recording" /\ req[r].kind = "file"
  /\ count' = IF CanRecord(req[r].files) THEN Counted(req[r].files) ELSE count
  /\ unreserved' = (unreserved \/ CanRecord(req[r].files))
  /\ req' = [req EXCEPT ![r] = [Idle EXCEPT !.pc = "done"]]
  /\ UNCHANGED <<profile, grant, ticket, leases, whole, counted, server, admin>>

\* A request that is refused, fails, is stopped by its gate or abandoned by
\* its client.
Drop(r) ==
  /\ req[r].pc \in {"read"} \cup Holding
  /\ req' = Ended(r, req)
  /\ UNCHANGED <<db, client, counted, server, admin>>

-----------------------------------------------------------------------------
(* Native fetches.                                                         *)

\* Mutant: the mint leaves other holders' unadmitted tickets out of the count.
MintFetchAdmittedOnly(t, h) ==
  /\ "fetch" \in profile.routes /\ ~ticket[t].live /\ Readable /\ grant.open
  /\ Downloads + Cardinality({u \in Tickets : Undelivered(u) /\ ticket[u].admitted})
       < MaxDownloads
  /\ server' = TRUE
  /\ ticket' = [ticket EXCEPT ![t] =
       [live |-> TRUE, holder |-> h, key |-> grant.key, rev |-> grant.rev,
        expired |-> FALSE, admitted |-> FALSE, delivered |-> FALSE]]
  /\ UNCHANGED <<grant, count, req, client, counted, admin>>

\* mint_fetch and put_fetch_ticket: the server is built, then one
\* transaction takes the reservation and replaces the holder's unadmitted
\* tickets.  (The grant read before the build is checked again by the insert.)
MintFetch(t, h) ==
  /\ "fetch" \in profile.routes /\ ~ticket[t].live /\ Readable /\ grant.open
  /\ Downloads + Reserved(h, grant.key, grant.rev, {}) < MaxDownloads
  /\ server' = TRUE
  /\ ticket' = [u \in Tickets |->
       IF u = t
       THEN [live |-> TRUE, holder |-> h, key |-> grant.key, rev |-> grant.rev,
             expired |-> FALSE, admitted |-> FALSE, delivered |-> FALSE]
       ELSE IF ticket[u].holder = h /\ Undelivered(u) /\ ~ticket[u].admitted
            THEN NoRow ELSE ticket[u]]
  /\ UNCHANGED <<grant, count, req, client, counted, admin>>

\* admit_fetch up to the slot: the ticket and its grant are read, the keys
\* compared, and the registry must hold a server.
PresentTicket(r, t) ==
  /\ "fetch" \in profile.routes /\ req[r].pc = "idle"
  /\ ticket[t].live /\ grant.present /\ ticket[t].key = grant.key
  /\ Readable /\ Downloads < MaxDownloads /\ server
  /\ req' = [req EXCEPT ![r] = [Idle EXCEPT !.pc = "read", !.kind = "fetch", !.key = grant.key,
                                            !.files = Files, !.ticket = t]]
  /\ UNCHANGED <<db, client, counted, server, admin>>

\* admit_fetch_ticket, after the gate: every other reservation still counts.
AdmitTicket(r) ==
  /\ req[r].pc = "gated" /\ req[r].kind = "fetch"
  /\ LET t == req[r].ticket IN
     /\ ticket[t].live /\ ~ticket[t].expired /\ Accessible(req[r].key)
     /\ ticket[t].key = req[r].key /\ ticket[t].rev = grant.rev
     /\ Downloads + Reserved(ticket[t].holder, ticket[t].key, ticket[t].rev, {t}) < MaxDownloads
     /\ ticket' = [ticket EXCEPT ![t].admitted = TRUE]
  /\ req' = [req EXCEPT ![r].pc = "open"]
  /\ UNCHANGED <<grant, count, client, counted, server, admin>>

\* The session's observer: the hold is dropped, and a report that reached the
\* final cursor has its record spawned.  The session asks its access between
\* frames; the report of the last one comes later.
FetchEnd(r) ==
  /\ Streaming(r) /\ req[r].kind = "fetch"
  /\ req' = Recording(r)
  /\ UNCHANGED <<db, client, counted, server, admin>>

\* record_fetch_download: counters and delivered_at in one transaction.
FetchRecord(r) ==
  /\ req[r].pc = "recording" /\ req[r].kind = "fetch"
  /\ LET t == req[r].ticket
         ok == CanRecord(Files) /\ ticket[t].live
     IN /\ count' = IF ok THEN Counted(Files) ELSE count
        /\ ticket' = IF ok THEN [ticket EXCEPT ![t].delivered = TRUE] ELSE ticket
        /\ unreserved' = (unreserved \/ (ok /\ (~Undelivered(t) \/ ~ticket[t].admitted)))
  /\ req' = [req EXCEPT ![r] = [Idle EXCEPT !.pc = "done"]]
  /\ UNCHANGED <<profile, grant, leases, whole, counted, server, admin>>

-----------------------------------------------------------------------------
(* Operators, time, sweeps and restarts.                                   *)

\* delete_outbound_grant and the automation and job revocations: the store
\* first, then the streams.  A repeat cancels again.
Revoke ==
  /\ grant.present /\ ~grant.revoked
  /\ grant' = [grant EXCEPT !.revoked = TRUE]
  /\ handlers' = handlers \cup {"revoke"}
  /\ UNCHANGED <<count, ticket, req, client, counted, server, withdrawn, restarts>>

\* cancel_grant_streams on the key of the row read back by id.
RevokeAnswers ==
  /\ "revoke" \in handlers
  /\ req' = IF grant.present THEN Cancel({grant.key}) ELSE req
  /\ handlers' = handlers \ {"revoke"} /\ withdrawn' = withdrawn \cup {grant.key}
  /\ UNCHANGED <<db, client, counted, server, restarts>>

\* update_outbound_grant, rotate: a new key, then cancel_stale_grant_streams.
Rotate ==
  /\ grant.present /\ ~grant.revoked /\ grant.key < profile.keys
  /\ grant' = [grant EXCEPT !.key = @ + 1]
  /\ handlers' = handlers \cup {"rotate"}
  /\ UNCHANGED <<count, ticket, req, client, counted, server, withdrawn, restarts>>

\* Reprocessing a job, saving its project or suspending it closes access
\* without a revocation; those paths call cancel_stale_grant_streams too.
Hold ==
  /\ grant.present /\ grant.open /\ grant.rev < profile.revs
  /\ grant' = [grant EXCEPT !.open = FALSE]
  /\ handlers' = handlers \cup {"hold"}
  /\ UNCHANGED <<count, ticket, req, client, counted, server, withdrawn, restarts>>

\* The end of either handler: every key that no longer admits is cancelled.
StaleAnswers(op) ==
  /\ op \in handlers \cap {"rotate", "hold"}
  /\ req' = Cancel(StaleKeys)
  /\ handlers' = handlers \ {op} /\ withdrawn' = withdrawn \cup StaleKeys
  /\ UNCHANGED <<db, client, counted, server, restarts>>

\* The job is released again, under a later project revision.
Release ==
  /\ grant.present /\ ~grant.open /\ grant.rev < profile.revs
  /\ grant' = [grant EXCEPT !.open = TRUE, !.rev = @ + 1]
  /\ withdrawn' = withdrawn \ (IF grant.revoked THEN {} ELSE {grant.key})
  /\ UNCHANGED <<count, ticket, req, client, counted, server, handlers, restarts>>

\* The deadline passes, however often extend_outbound_grant moved it.  A
\* ticket's own deadline is never past the grant's.
Expire ==
  /\ ~grant.expired
  /\ grant' = [grant EXCEPT !.expired = TRUE]
  /\ ticket' = [t \in Tickets |-> [ticket[t] EXCEPT !.expired = ticket[t].live]]
  /\ UNCHANGED <<count, req, client, counted, server, admin>>

\* CAPABILITY_TTL_SECS pass.
ExpireTicket(t) ==
  /\ ticket[t].live /\ ~ticket[t].expired
  /\ ticket' = [ticket EXCEPT ![t].expired = TRUE]
  /\ UNCHANGED <<grant, count, req, client, counted, server, admin>>

\* The short sweep: cancel_stale_grant_streams, and serve::prune, which keeps
\* the servers of servable grants only.
ShortSweep ==
  /\ req' = Cancel(StaleKeys)
  /\ server' = (server /\ Readable /\ Downloads < MaxDownloads)
  /\ UNCHANGED <<db, client, counted, admin>>

\* prune_fetch_tickets
PruneTicket(t) ==
  /\ ticket[t].live /\ ticket[t].expired
  /\ ticket' = [ticket EXCEPT ![t] = NoRow]
  /\ UNCHANGED <<grant, count, req, client, counted, server, admin>>

\* purge_expired_revoked_grants
PurgeGrant ==
  /\ grant.present /\ grant.revoked /\ grant.expired
  /\ grant' = [grant EXCEPT !.present = FALSE]
  /\ ticket' = [t \in Tickets |-> NoRow]
  /\ UNCHANGED <<count, req, client, counted, server, admin>>

\* The process dies: streams, handlers and what memory held are gone.
Restart ==
  /\ restarts < profile.restarts /\ restarts' = restarts + 1
  /\ req' = [r \in Requests |-> IF req[r].pc = "idle" THEN req[r]
                                ELSE [Idle EXCEPT !.pc = "done"]]
  /\ counted' = {} /\ server' = FALSE /\ handlers' = {}
  /\ UNCHANGED <<db, client, withdrawn>>

\* serve::warm after a boot: a server for every unexpired ticket.
Warm ==
  /\ ~server /\ Readable /\ \E t \in Tickets : ticket[t].live /\ ~ticket[t].expired
  /\ server' = TRUE
  /\ UNCHANGED <<db, req, client, counted, admin>>

GrantsNext ==
  \/ \E r \in Requests :
       \/ \E f \in Files, l \in Requests \cup {NoRequest} : FileRequest(r, f, l)
       \/ \E kind \in {"batch", "bundle"} : ManyRequest(r, kind)
       \/ \E t \in Tickets : PresentTicket(r, t)
       \/ \E f \in Files : BatchFrame(r, f)
       \/ BatchPoll(r)
       \/ Claim(r) \/ Gate(r) \/ Redirect(r) \/ Audit(r)
       \/ BundleRecord(r) \/ BundleEnd(r)
       \/ BatchRecord(r) \/ BatchEnd(r)
       \/ FileEnd(r) \/ FileRecord(r)
       \/ AdmitTicket(r) \/ FetchEnd(r) \/ FetchRecord(r)
       \/ Drop(r)
  \/ \E t \in Tickets : ExpireTicket(t) \/ PruneTicket(t) \/ \E h \in Holders : MintFetch(t, h)
  \/ Revoke \/ RevokeAnswers \/ Rotate \/ Hold \/ Release
  \/ \E op \in {"rotate", "hold"} : StaleAnswers(op)
  \/ Expire \/ ShortSweep \/ PurgeGrant \/ Restart \/ Warm

GrantsSpec == GrantsInit /\ [][GrantsNext]_gvars

-----------------------------------------------------------------------------
(* Properties.                                                             *)

GrantsTypeOK ==
  /\ grant \in [present : BOOLEAN, key : 1 .. profile.keys, revoked : BOOLEAN, open : BOOLEAN,
                rev : 0 .. profile.revs, expired : BOOLEAN]
  /\ count \in [Files -> 0 .. MaxDownloads]
  /\ ticket \in [Tickets -> [live : BOOLEAN, holder : Holders \cup {NoTicket},
                             key : 0 .. profile.keys, rev : 0 .. profile.revs, expired : BOOLEAN,
                             admitted : BOOLEAN, delivered : BOOLEAN]]
  /\ req \in [Requests -> [pc : {"idle", "read", "claimed", "gated", "admitted", "open",
                                 "polled", "recording", "done"},
                           kind : {"file", "batch", "bundle", "fetch"}, key : 0 .. profile.keys,
                           gate : {"none", "listed", "cancelled", "orphan"},
                           files : SUBSET Files, lease : Requests \cup {NoRequest},
                           ticket : Tickets \cup {NoTicket}, sent : SUBSET Files,
                           recorded : SUBSET Files]]
  /\ profile \in Profiles
  /\ leases \subseteq Requests \X Files /\ counted \subseteq Requests
  /\ server \in BOOLEAN /\ unreserved \in BOOLEAN
  /\ handlers \subseteq {"revoke", "rotate", "hold"} /\ withdrawn \subseteq 1 .. profile.keys
  /\ whole \in Nat /\ restarts \in 0 .. profile.restarts

\* delete_outbound_grant, cancel_stale_grant_streams: once a revocation, a
\* rotation or a hold has been answered, no stream of that link key passes its
\* gate again, however its admission interleaved with the withdrawal and with
\* other streams' ends.  A stream stops at its next frame, as the code says,
\* but for a poll of a batch that is past its gate, which hands its frame out
\* after the answer, and records the batch if it is the last one.
WithdrawnStops ==
  \A r \in Requests : Streaming(r) /\ req[r].key \in withdrawn => Stopped(r)

\* A stream that serves always holds a token a later withdrawal can reach,
\* or one already cancelled: ending another download of the same link must
\* not take it out of the map (ActiveDownload::drop).
StreamsReachable ==
  \A r \in Requests : Streaming(r) => req[r].gate \in {"listed", "cancelled"}

\* outbound_batch and outbound_bundle, the record that "enforces
\* max_downloads": bodies handed out whole over these two routes are counted
\* on every file, so there are never more of them than the limit, however
\* many race.
WholeDeliveriesCounted ==
  /\ \A f \in Files : whole <= count[f]
  /\ whole <= MaxDownloads

\* put_fetch_ticket and admit_fetch_ticket: while only reserved fetches have
\* been recorded, the recorded downloads and the reservations that may still
\* be delivered (admitted, or mintable under the current key and release)
\* fit the limit together, across replacement, rotation and re-release.
ReservationsFit ==
  ~unreserved =>
    Downloads + Cardinality({t \in Tickets :
                  Undelivered(t) /\ (ticket[t].admitted \/
                    (ticket[t].key = grant.key /\ ticket[t].rev = grant.rev))})
      <= MaxDownloads

\* complete_outbound_download, record_fetch_reservation: deliveries are counted
\* for whole files only, and the tickets issued fit the grant's limit.
DownloadLimitHolds == GrantsTypeOK /\ WholeDeliveriesCounted /\ ReservationsFit
=============================================================================
