------------------------------- MODULE Shares -------------------------------
(***************************************************************************)
(* How a delivery link comes to be from files of the outbound library      *)
(* (server/src/api/outbound.rs): a page's preparation, which runs detached *)
(* from its request and holds its session's one slot, and an automation    *)
(* client's share, which may be sent again under the same operation id     *)
(* (api/outbound/automation.rs); against deletes and uploads in the        *)
(* library, preparations that hang, requests that are dropped, a revoked   *)
(* token and restarts.                                                     *)
(*                                                                         *)
(* One tenant, one session and one operation id.  The insert of a grant is *)
(* one transaction.  A source is there or not: that an unchanged length    *)
(* may hide another content is left to the downloads, which verify.        *)
(***************************************************************************)
EXTENDS Integers, FiniteSets

CONSTANTS
  Calls, NoCall,   \* requests for a link; each runs once
  Pages,           \* which of them come from a page, per behaviour
  Paths,           \* files of the library
  GrantPermits,    \* LIBRARY_GRANT_CONCURRENCY (4)
  MaxShareEvents   \* deletes, uploads, hangs, drops, revocations, crashes

ASSUME SharesAssumption ==
  /\ NoCall \notin Calls /\ Pages \subseteq SUBSET Calls
  /\ IsFiniteSet(Calls) /\ IsFiniteSet(Paths) /\ Paths # {}
  /\ GrantPermits \in Nat \ {0} /\ MaxShareEvents \in Nat

VARIABLES
  pages,      \* the calls that come from a page; the others share the operation
  call,       \* per call: where it is, its files, the generation it read
  registry,   \* GrantPreparationRegistry: by_id, and the session's slot
  shareLock,  \* the call that has the operation's stripe of SHARE_LOCKS
  mutation,   \* the tenant's library_mutation_lock: its generation, who has it
  shelves,    \* the files that are there
  links,      \* outbound_grants: <<call, files>>, unrevoked
  operation,  \* automation_operations: the calls recorded under the id
  tokenLive,  \* the automation token is neither revoked nor expired
  shareEvents

shvars == <<pages, call, registry, shareLock, mutation, shelves, links, operation, tokenLive,
            shareEvents>>
kept   == <<pages, operation, tokenLive>>

\* aged: no progress for PREPARATION_STALE_SECS, or finished for PREPARATION_TTL_SECS.
NewCall == [pc |-> "idle", files |-> {}, gen |-> 0, settled |-> FALSE, aged |-> FALSE,
            dropped |-> FALSE, told |-> "none"]
NewRegistry == [byId |-> {}, slot |-> NoCall]

SharesInit ==
  /\ pages \in Pages /\ call = [c \in Calls |-> NewCall] /\ registry = NewRegistry
  /\ shareLock = NoCall /\ mutation = [gen |-> 0, users |-> {}]
  /\ shelves = Paths /\ links = {} /\ operation = {} /\ tokenLive = TRUE /\ shareEvents = 0

At(c, where) == call[c].pc = where
Becomes(c, k) == call' = [call EXCEPT ![c] = k]
Event == shareEvents < MaxShareEvents /\ shareEvents' = shareEvents + 1
Calm == UNCHANGED shareEvents

\* sweep_preparations.
Swept(reg) ==
  LET left == {c \in reg.byId : ~call[c].aged} IN
  [byId |-> left, slot |-> IF reg.slot \in left THEN reg.slot ELSE NoCall]
Preparing(c) == c \in registry.byId /\ ~call[c].settled
\* outbound_grant_permits.
PermitFree ==
  Cardinality({c \in Calls : call[c].pc \in {"permitted", "selected", "hashed", "walking", "walked"}
                             /\ ~call[c].dropped}) < GrantPermits
Unlocked(c) == shareLock' = IF shareLock = c THEN NoCall ELSE shareLock
\* A request that ends with an answer, and a preparation's pipeline.
Answered(c, what) ==
  Becomes(c, [call[c] EXCEPT !.told = IF call[c].dropped THEN "none" ELSE what,
                             !.pc = IF c \in pages THEN "prepared" ELSE "over"])
\* The last holder of the tenant's lock takes the generation with it.
Left(c) ==
  [gen |-> IF mutation.users \subseteq {c} THEN 0 ELSE mutation.gen, users |-> mutation.users \ {c}]

----------------------------------------------------------------------------
\* begin_grant_preparation: one preparation at a time for a session.
BeginPreparation(c) ==
  /\ c \in pages /\ At(c, "idle") /\ Calm
  /\ LET reg == Swept(registry) IN
     /\ reg.slot # NoCall => call[reg.slot].settled
     /\ registry' = [byId |-> reg.byId \cup {c}, slot |-> c]
  /\ Becomes(c, [call[c] EXCEPT !.pc = "queued"])
  /\ UNCHANGED <<kept, shareLock, mutation, shelves, links>>
\* outbound_grant_preparation sweeps, as does a refused begin.
PollPreparation ==
  /\ registry # Swept(registry) /\ registry' = Swept(registry) /\ Calm
  /\ UNCHANGED <<kept, call, shareLock, mutation, shelves, links>>

\* automation_share up to its stripe.
SendShare(c) ==
  /\ c \notin pages /\ At(c, "idle") /\ tokenLive /\ Calm
  /\ Becomes(c, [call[c] EXCEPT !.pc = "queued"])
  /\ UNCHANGED <<kept, registry, shareLock, mutation, shelves, links>>
\* Under the stripe: the token again, an operation recorded before, a permit.
LockShare(c) ==
  /\ c \notin pages /\ At(c, "queued") /\ shareLock = NoCall /\ Calm
  /\ IF tokenLive /\ operation = {} /\ PermitFree
     THEN shareLock' = c /\ Becomes(c, [call[c] EXCEPT !.pc = "permitted"])
     ELSE /\ Answered(c, IF tokenLive /\ operation # {} THEN "link" ELSE "error")
          /\ UNCHANGED shareLock
  /\ UNCHANGED <<kept, registry, mutation, shelves, links>>
\* prepare_grant_files.
TakePermit(c) ==
  /\ c \in pages /\ At(c, "queued") /\ Calm
  /\ IF PermitFree THEN Becomes(c, [call[c] EXCEPT !.pc = "permitted"]) ELSE Answered(c, "error")
  /\ UNCHANGED <<kept, registry, shareLock, mutation, shelves, links>>

\* create_library_grant: the selection, then a hash of each file.
SelectSources(c, files) ==
  /\ At(c, "permitted") /\ files # {} /\ files \subseteq shelves /\ Calm
  /\ Becomes(c, [call[c] EXCEPT !.pc = "selected", !.files = files, !.aged = FALSE])
  /\ UNCHANGED <<kept, registry, shareLock, mutation, shelves, links>>
HashSources(c) ==
  /\ At(c, "selected") /\ call[c].files \subseteq shelves /\ Calm
  /\ Becomes(c, [call[c] EXCEPT !.pc = "hashed", !.aged = FALSE])
  /\ UNCHANGED <<kept, registry, shareLock, mutation, shelves, links>>
\* Nothing to select, a file that went, a failed read, a catalog not written.
SharingFails(c) ==
  /\ call[c].pc \in {"permitted", "selected", "hashed"} /\ Event
  /\ Answered(c, "error") /\ Unlocked(c)
  /\ UNCHANGED <<kept, registry, mutation, shelves, links>>

\* Mutant: the worker lets the tenant's lock go between its two looks.
ReadGenerationReleased(c) ==
  /\ At(c, "hashed") /\ Calm
  /\ Becomes(c, [call[c] EXCEPT !.pc = "walking", !.gen = mutation.gen])
  /\ UNCHANGED <<kept, registry, shareLock, mutation, shelves, links>>
\* The blocking worker: the tenant's generation, and only then a look at each
\* source, without the lock.
ReadGeneration(c) ==
  /\ At(c, "hashed") /\ Calm
  /\ Becomes(c, [call[c] EXCEPT !.pc = "walking", !.gen = mutation.gen])
  /\ mutation' = [mutation EXCEPT !.users = @ \cup {c}]
  /\ UNCHANGED <<kept, registry, shareLock, shelves, links>>
WalkSources(c) ==
  /\ At(c, "walking") /\ Calm
  /\ IF call[c].files \subseteq shelves
     THEN Becomes(c, [call[c] EXCEPT !.pc = "walked"]) /\ UNCHANGED <<shareLock, mutation>>
     ELSE Answered(c, "error") /\ Unlocked(c) /\ mutation' = Left(c)
  /\ UNCHANGED <<kept, registry, shelves, links>>
\* Mutant: what the first look saw is inserted.
InsertLinkUnseen(c) ==
  /\ At(c, "walked") /\ Calm /\ mutation' = Left(c) /\ Unlocked(c)
  /\ LET stored == c \in pages \/ (tokenLive /\ operation = {}) IN
     /\ links' = IF stored THEN links \cup {<<c, call[c].files>>} ELSE links
     /\ operation' = IF stored /\ c \notin pages THEN operation \cup {c} ELSE operation
     /\ Answered(c, IF stored THEN "link" ELSE "error")
  /\ UNCHANGED <<pages, tokenLive, registry, shelves>>
\* Under the lock: a second look if a file was deleted meanwhile, and the
\* transaction, which for a share wants its token live and its operation new.
InsertLink(c) ==
  /\ At(c, "walked") /\ Calm /\ mutation' = Left(c) /\ Unlocked(c)
  /\ LET whole == mutation.gen = call[c].gen \/ call[c].files \subseteq shelves
         stored == whole /\ (c \in pages \/ (tokenLive /\ operation = {})) IN
     /\ links' = IF stored THEN links \cup {<<c, call[c].files>>} ELSE links
     /\ operation' = IF stored /\ c \notin pages THEN operation \cup {c} ELSE operation
     /\ Answered(c, IF stored THEN "link" ELSE "error")
  /\ UNCHANGED <<pages, tokenLive, registry, shelves>>

\* run_grant_preparation: the outcome, then the slot.
SettlePreparation(c) ==
  /\ At(c, "prepared") /\ Calm
  /\ Becomes(c, [call[c] EXCEPT !.pc = "settled", !.settled = TRUE, !.aged = FALSE])
  /\ UNCHANGED <<kept, registry, shareLock, mutation, shelves, links>>
\* Mutant: the session's slot is freed, whose ever it is.
ReleaseSlotAny(c) ==
  /\ At(c, "settled") /\ Calm
  /\ registry' = Swept([registry EXCEPT !.slot = NoCall])
  /\ Becomes(c, [call[c] EXCEPT !.pc = "over"])
  /\ UNCHANGED <<kept, shareLock, mutation, shelves, links>>
\* release_preparation_slot.
ReleaseSlot(c) ==
  /\ At(c, "settled") /\ Calm
  /\ registry' = Swept([registry EXCEPT !.slot = IF registry.slot = c THEN NoCall ELSE @])
  /\ Becomes(c, [call[c] EXCEPT !.pc = "over"])
  /\ UNCHANGED <<kept, shareLock, mutation, shelves, links>>

----------------------------------------------------------------------------
\* A preparation hangs for longer than the sweep allows, or has been over for
\* longer than it is kept.
PreparationAges(c) ==
  /\ c \in registry.byId /\ ~call[c].aged /\ Event
  /\ call[c].pc \in {"queued", "permitted", "selected", "hashed", "walking", "walked", "over"}
  /\ Becomes(c, [call[c] EXCEPT !.aged = TRUE])
  /\ UNCHANGED <<kept, registry, shareLock, mutation, shelves, links>>
\* The client of a share goes away: its handler is dropped where it waits, and
\* the stripe and the permit with it; a blocking insert runs on.
ShareDropped(c) ==
  /\ c \notin pages /\ ~call[c].dropped /\ Event
  /\ call[c].pc \in {"queued", "permitted", "selected", "hashed", "walking", "walked"}
  /\ Becomes(c, [call[c] EXCEPT !.dropped = TRUE,
                               !.pc = IF @ \in {"walking", "walked"} THEN @ ELSE "over"])
  /\ Unlocked(c) /\ UNCHANGED <<kept, registry, mutation, shelves, links>>
\* delete_outbound_file: under the tenant's lock, and not while a live grant
\* has the file.
DeleteSource(f) ==
  /\ f \in shelves /\ \A l \in links : f \notin l[2]
  /\ Event /\ shelves' = shelves \ {f}
  /\ mutation' = [mutation EXCEPT !.gen = IF mutation.users = {} THEN 0 ELSE @ + 1]
  /\ UNCHANGED <<kept, call, registry, shareLock, links>>
\* upload_outbound_file.
UploadSource(f) ==
  /\ f \notin shelves /\ shelves' = shelves \cup {f} /\ Event
  /\ UNCHANGED <<kept, call, registry, shareLock, mutation, links>>
\* delete_outbound_grant.
RevokeLink(l) ==
  /\ l \in links /\ links' = links \ {l} /\ Event
  /\ UNCHANGED <<kept, call, registry, shareLock, mutation, shelves>>
\* delete_automation_token, or its deadline.
RevokeToken ==
  /\ tokenLive /\ tokenLive' = FALSE /\ Event
  /\ UNCHANGED <<pages, call, registry, shareLock, mutation, shelves, links, operation>>
\* Everything but the files and the database.
ServerRestarts ==
  /\ Event /\ registry' = NewRegistry /\ shareLock' = NoCall
  /\ mutation' = [gen |-> 0, users |-> {}]
  /\ call' = [c \in Calls |-> IF At(c, "idle") THEN call[c] ELSE [call[c] EXCEPT !.pc = "over"]]
  /\ UNCHANGED <<kept, shelves, links>>

----------------------------------------------------------------------------
SharesNext ==
  \/ \E c \in Calls :
       \/ BeginPreparation(c) \/ SendShare(c) \/ LockShare(c) \/ TakePermit(c)
       \/ \E files \in SUBSET Paths : SelectSources(c, files)
       \/ HashSources(c) \/ SharingFails(c) \/ ReadGeneration(c) \/ WalkSources(c)
       \/ InsertLink(c) \/ SettlePreparation(c) \/ ReleaseSlot(c)
       \/ PreparationAges(c) \/ ShareDropped(c)
  \/ PollPreparation \/ RevokeToken \/ ServerRestarts
  \/ \E f \in Paths : DeleteSource(f) \/ UploadSource(f)
  \/ \E l \in links : RevokeLink(l)
SharesSpec == SharesInit /\ [][SharesNext]_shvars

----------------------------------------------------------------------------
\* The type invariant.
SharesTypeOK ==
  /\ pages \in Pages /\ registry.byId \subseteq pages
  /\ {registry.slot, shareLock} \subseteq Calls \cup {NoCall}
  /\ mutation.gen \in 0 .. MaxShareEvents /\ mutation.users \subseteq Calls
  /\ shelves \subseteq Paths /\ links \subseteq Calls \X SUBSET Paths
  /\ operation \subseteq Calls \ pages /\ tokenLive \in BOOLEAN
  /\ shareEvents \in 0 .. MaxShareEvents

\* library_mutation_lock: a live link never names a library file that a delete
\* took, however the delete meets the link's preparation.
SourcesKept ==
  \A l \in links : l[2] \subseteq shelves
\* sweep_preparations, release_preparation_slot: what runs for a session and is
\* still listed has the session's slot, so there is one of it; a preparation
\* given up as hung does not take its successor's slot when it ends after all.
SlotHeld ==
  \A c \in Calls : Preparing(c) => registry.slot = c
\* automation_share: an operation makes one link, whoever sends it again while
\* an insert of it runs on, and a client that is told of a link has one made.
OneLinkPerOperation ==
  /\ Cardinality(operation) <= 1
  /\ \A c \in Calls \ pages : call[c].told = "link" => operation # {}

SharesHold == SharesTypeOK /\ SourcesKept /\ SlotHeld /\ OneLinkPerOperation
=============================================================================
