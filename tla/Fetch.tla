------------------------------- MODULE Fetch -------------------------------
(***************************************************************************)
(* How a client takes a delivery (client/core fetch.rs and receive.rs): a  *)
(* QUIC fetch into a stage that a saved capability owns, or HTTP, and the  *)
(* landing of a verified file at its destination through a journal that a  *)
(* later run resumes.                                                      *)
(*                                                                         *)
(* Deliveries of one file each share a destination path.  A file is a node *)
(* that paths name and handles hold; its bytes are a sequence of blocks,   *)
(* each the delivery it is part of.  What a node held when it was synced   *)
(* survives a power loss; names do, too.                                   *)
(***************************************************************************)
EXTENDS Integers, Sequences, FiniteSets

CONSTANTS
  Takers,                 \* receives, each in a process of its own
  Deliveries, NoDelivery,
  Bad,                    \* a block that belongs to none of them
  Blocks,                 \* blocks of a file
  Nodes,                  \* how many files exist at once: 1 .. Nodes
  MaxTakes,               \* receives that start
  MaxMishaps              \* crashes, power losses, moved or removed files,
                          \* bad blocks

ASSUME FetchAssumption ==
  /\ NoDelivery \notin Deliveries /\ Bad \notin Deliveries
  /\ Blocks \in Nat \ {0, 1} /\ Nodes \in Nat \ {0, 1} /\ MaxTakes \in Nat /\ MaxMishaps \in Nat

VARIABLES
  journalAt, idAt, destAt,  \* the node at .vot-<name>.journal, at .vot-<name>.id
                            \* and at the destination, 0 for none
  kept,       \* published nodes with their delivery, moved away or not
  bytes,      \* per node: its blocks; an identity file has the one it names
  durable,    \* per node: the blocks a power loss leaves
  stage,      \* per delivery: the bundle beside the destination
  sidecar,    \* per delivery: whether its capability is saved
  ticket,     \* per delivery: the server's ticket
  taker,      \* per receive: what it does
  landed,     \* deliveries whose file was published
  misread,    \* history: whether a resumed prefix was another delivery's
  cleared,    \* history: whether the user removed a journal
  takes, mishaps

fvars == <<journalAt, idAt, destAt, kept, bytes, durable, stage, sidecar, ticket, taker, landed, misread, cleared,
           takes, mishaps>>
folder == <<journalAt, idAt, destAt, kept, bytes, durable, landed, misread, cleared>>
fetched == <<stage, sidecar, ticket>>
budget == <<takes, mishaps>>

Resting == [pc |-> "idle", delivery |-> NoDelivery, via |-> "http", resume |-> FALSE, owned |-> FALSE,
            renew |-> FALSE, joined |-> FALSE, journal |-> 0, id |-> 0, match |-> FALSE, hashed |-> <<>>]

\* Nothing is there, or a short journal of a delivery and its identity.
FetchInit ==
  /\ \E d \in Deliveries \cup {NoDelivery} :
       LET left == d # NoDelivery IN
       /\ journalAt = (IF left THEN 1 ELSE 0) /\ idAt = (IF left THEN 2 ELSE 0)
       /\ bytes = [n \in 1 .. Nodes |-> IF left /\ n <= 2 THEN <<d>> ELSE <<>>]
  /\ durable = bytes /\ destAt = 0 /\ kept = {}
  /\ stage = [d \in Deliveries |-> "none"] /\ sidecar = [d \in Deliveries |-> FALSE]
  /\ ticket = [d \in Deliveries |-> "none"]
  /\ taker = [t \in Takers |-> Resting]
  /\ landed = {} /\ misread = FALSE /\ cleared = FALSE /\ takes = MaxTakes /\ mishaps = MaxMishaps

Whole(d) == [i \in 1 .. Blocks |-> d]
Doing(t, pc) == taker[t].pc = pc
Of(t) == taker[t].delivery
Turns(t, next) == taker' = [taker EXCEPT ![t] = next]
Moves(t, pc) == taker' = [taker EXCEPT ![t].pc = pc]
Ends(t) == Turns(t, Resting)
Mishap == mishaps > 0 /\ mishaps' = mishaps - 1 /\ UNCHANGED takes

----------------------------------------------------------------------------
\* try_fetch_with_resume_mode.

\* FetchLock of a stage is held until the fetch returns.
StageHeld(d) == \E t \in Takers : Of(t) = d /\ taker[t].via = "fetch" /\ ~Doing(t, "lock")
HasStageState(d) == stage[d] # "none" \/ sidecar[d]
OverHttp(t) == Turns(t, [taker[t] EXCEPT !.via = "http", !.pc = "check", !.owned = FALSE])

\* receive and resume; without a device key, over HTTP at once.
Take(t, d, resume) ==
  /\ Doing(t, "idle") /\ takes > 0 /\ takes' = takes - 1
  /\ \E via \in {"fetch", "http"} :
       Turns(t, [Resting EXCEPT !.pc = IF via = "fetch" THEN "lock" ELSE "check", !.via = via,
                                !.delivery = d, !.resume = resume])
  /\ UNCHANGED <<folder, fetched, mishaps>>

LockStage(t) ==
  /\ Doing(t, "lock")
  /\ \/ ~HasStageState(Of(t)) /\ OverHttp(t)  \* nothing serves, or no stage can be here
     \/ StageHeld(Of(t)) /\ Ends(t)
     \/ ~StageHeld(Of(t)) /\ Turns(t, [taker[t] EXCEPT !.pc = "plan", !.owned = sidecar[Of(t)]])
  /\ UNCHANGED <<folder, fetched, budget>>

\* reusable_file: a file at the destination is this delivery's, byte for byte.
MayReuse(t) == taker[t].resume \/ taker[t].owned
Reusable(t) == MayReuse(t) /\ bytes[destAt] = Whole(Of(t))
Taken(t) == destAt # 0 /\ ~Reusable(t)

\* owned_stage_is_complete looks at the content, stage_is_stale_complete at the
\* resume store: a bundle is "full" with it and "whole" without.
\* Mutant: a whole stage is stale, whoever owns it.
PlanStale(t) ==
  /\ Doing(t, "plan")
  /\ IF Taken(t) THEN Ends(t) /\ UNCHANGED stage
     ELSE /\ stage' = [stage EXCEPT ![Of(t)] = IF @ = "whole" THEN "none" ELSE @]
          /\ IF taker[t].owned /\ stage[Of(t)] = "full"
             THEN Turns(t, [taker[t] EXCEPT !.pc = "check", !.joined = TRUE])
             ELSE Moves(t, "reach")
  /\ UNCHANGED <<folder, sidecar, ticket, budget>>
Plan(t) ==
  /\ Doing(t, "plan")
  /\ IF Taken(t) THEN Ends(t) /\ UNCHANGED stage
     ELSE /\ stage' = [stage EXCEPT ![Of(t)] = IF @ = "whole" /\ ~taker[t].owned THEN "none" ELSE @]
          /\ IF taker[t].owned /\ stage[Of(t)] \in {"full", "whole"}
             THEN Turns(t, [taker[t] EXCEPT !.pc = "check", !.joined = TRUE])
             ELSE Moves(t, "reach")
  /\ UNCHANGED <<folder, sidecar, ticket, budget>>

\* The endpoint, the space and the probe; a cancel, another identity.
Reach(t) ==
  /\ Doing(t, "reach")
  /\ \/ ~taker[t].owned /\ OverHttp(t)
     \/ Ends(t)
     \/ Moves(t, IF taker[t].owned /\ ~taker[t].renew THEN "transport" ELSE "mint")
  /\ UNCHANGED <<folder, fetched, budget>>

\* mint_fetch: a delivered ticket is not replaced (the grant's limit is one).
Mint(t) ==
  /\ Doing(t, "mint")
  /\ \/ ~taker[t].owned /\ OverHttp(t) /\ UNCHANGED ticket
     \/ Ends(t) /\ UNCHANGED ticket
     \/ ticket[Of(t)] # "delivered" /\ ticket' = [ticket EXCEPT ![Of(t)] = "reserved"] /\ Moves(t, "save")
  /\ UNCHANGED <<folder, stage, sidecar, budget>>
SaveCapability(t) ==
  /\ Doing(t, "save")
  /\ \/ Moves(t, "transport") /\ sidecar' = [sidecar EXCEPT ![Of(t)] = TRUE]
     \/ Ends(t) /\ UNCHANGED sidecar
  /\ UNCHANGED <<folder, stage, ticket, budget>>

\* fetch_bundle_with_seams: the objects arrive and the saver gets the file.
Transport(t) ==
  /\ Doing(t, "transport") /\ ticket[Of(t)] = "reserved"
  /\ \/ stage[Of(t)] = "none" /\ stage' = [stage EXCEPT ![Of(t)] = "part"] /\ UNCHANGED taker
     \/ stage[Of(t)] \in {"part", "full"} /\ stage' = [stage EXCEPT ![Of(t)] = "full"] /\ Moves(t, "check")
  /\ UNCHANGED <<folder, sidecar, ticket, budget>>
\* It fails: the stage stays unless no retry can resume it.
TransportFails(t) ==
  /\ Doing(t, "transport") /\ Ends(t)
  /\ stage' \in {stage, [stage EXCEPT ![Of(t)] = "none"]}
  /\ UNCHANGED <<folder, sidecar, ticket, budget>>
\* The capability is refused: the lock goes, and the fetch starts over once.
Refused(t) ==
  /\ Doing(t, "transport") /\ taker[t].owned /\ ~taker[t].renew
  /\ Turns(t, [taker[t] EXCEPT !.pc = "lock", !.renew = TRUE, !.owned = FALSE])
  /\ UNCHANGED <<folder, fetched, budget>>
\* The transport ends while the saver works.
Joins(t) ==
  /\ taker[t].via = "fetch" /\ ~taker[t].joined /\ stage[Of(t)] = "full"
  /\ taker[t].pc \notin {"lock", "plan", "reach", "mint", "save", "transport"}
  /\ stage' = [stage EXCEPT ![Of(t)] = "whole"]
  /\ ticket' = [ticket EXCEPT ![Of(t)] = "delivered"]
  /\ taker' = [taker EXCEPT ![t].joined = TRUE]
  /\ UNCHANGED <<folder, sidecar, budget>>

\* The files are saved: the stage is removed, then the capability.  A
\* transport that failed at its end leaves both.
RemoveStage(t) ==
  /\ Doing(t, "saved")
  /\ \/ taker[t].joined /\ stage' = [stage EXCEPT ![Of(t)] = "none"] /\ Moves(t, "forget")
     \/ ~taker[t].joined /\ UNCHANGED stage /\ Ends(t)
  /\ UNCHANGED <<folder, sidecar, ticket, budget>>
RemoveCapability(t) ==
  /\ Doing(t, "forget") /\ Ends(t)
  /\ sidecar' = [sidecar EXCEPT ![Of(t)] = FALSE]
  /\ UNCHANGED <<folder, stage, ticket, budget>>

----------------------------------------------------------------------------
\* Landing: materialize_entries, receive_over_http_inner, write_verified.

Handles == UNION {{taker[t].journal, taker[t].id} : t \in Takers}
Free(n) == n \notin {journalAt, idAt, destAt} \cup {k[1] : k \in kept} \cup Handles
NewNode == CHOOSE n \in 1 .. Nodes : Free(n)
NodeLeft == \E n \in 1 .. Nodes : Free(n)  \* bound
Wrote(n, blocks) == bytes' = [bytes EXCEPT ![n] = blocks]
Synced(n, blocks) == Wrote(n, blocks) /\ durable' = [durable EXCEPT ![n] = blocks]
Landed(t) == IF taker[t].via = "fetch" THEN Moves(t, "saved") ELSE Ends(t)

\* The file may be there already, and be this delivery's.
Check(t) ==
  /\ Doing(t, "check")
  /\ IF Taken(t) THEN Ends(t) ELSE IF destAt # 0 THEN Landed(t) ELSE Moves(t, "open")
  /\ UNCHANGED <<folder, fetched, budget>>

\* clone::publish: a copy of the staged object, verified, synced, named.
Clone(t) ==
  /\ Doing(t, "open") /\ taker[t].via = "fetch"
  /\ IF destAt # 0 THEN Ends(t) /\ UNCHANGED <<destAt, kept, landed, bytes, durable>>
     ELSE /\ NodeLeft /\ destAt' = NewNode /\ Synced(NewNode, Whole(Of(t)))
          /\ kept' = kept \cup {<<NewNode, Of(t)>>} /\ landed' = landed \cup {Of(t)}
          /\ Moves(t, "saved")
  /\ UNCHANGED <<journalAt, idAt, misread, cleared, fetched, budget>>

\* open_journal, in two steps: open, then lock_journal.
OpenJournal(t) ==
  LET n == IF journalAt = 0 THEN NewNode ELSE journalAt IN
  /\ Doing(t, "open")
  /\ journalAt' = n
  /\ IF journalAt = 0 THEN NodeLeft /\ Synced(n, <<>>) ELSE UNCHANGED <<bytes, durable>>
  /\ Turns(t, [taker[t] EXCEPT !.pc = "opened", !.journal = n])
  /\ UNCHANGED <<idAt, destAt, kept, landed, misread, cleared, fetched, budget>>
JournalLocked(n) == \E t \in Takers : taker[t].journal = n /\ ~Doing(t, "opened")
\* Mutant: the path is not compared with what was locked.
LockJournalUnread(t) ==
  /\ Doing(t, "opened")
  /\ IF JournalLocked(taker[t].journal) THEN Ends(t) ELSE Moves(t, "inspect")
  /\ UNCHANGED <<folder, fetched, budget>>
LockJournal(t) ==
  /\ Doing(t, "opened")
  /\ IF JournalLocked(taker[t].journal) \/ journalAt # taker[t].journal THEN Ends(t) ELSE Moves(t, "inspect")
  /\ UNCHANGED <<folder, fetched, budget>>

\* The destination, read_identity, feed_partial.
Inspect(t) ==
  LET match == idAt # 0 /\ bytes[idAt] = <<Of(t)>>
      prefix == bytes[taker[t].journal]
      resumed == IF match /\ Len(prefix) < Blocks THEN prefix ELSE <<>> IN
  /\ Doing(t, "inspect")
  /\ IF destAt # 0 THEN Ends(t) /\ UNCHANGED misread
     ELSE /\ Turns(t, [taker[t] EXCEPT !.pc = "source", !.id = idAt, !.match = match, !.hashed = resumed])
          /\ misread' = (misread \/ \E i \in DOMAIN resumed : resumed[i] \notin {Of(t), Bad})
  /\ UNCHANGED <<journalAt, idAt, destAt, kept, bytes, durable, landed, cleared, fetched, budget>>

\* The source opens where it was asked to, or gives the whole file.
OpenSource(t) ==
  /\ Doing(t, "source")
  /\ \/ Moves(t, "identity")
     \/ taker[t].via = "http" /\ Turns(t, [taker[t] EXCEPT !.pc = "identity", !.hashed = <<>>])
     \/ Ends(t)
  /\ UNCHANGED <<folder, fetched, budget>>

\* The identity file is the one that was read, or a new one.  Unless it names
\* this delivery, the journal is emptied and synced first; a new file is empty.
\* Mutant: emptied, not synced.
Emptied(files, blocks) == [n \in 1 .. Nodes |-> IF n \in files THEN <<>> ELSE blocks[n]]
ResetJournalUnsynced(files) == bytes' = Emptied(files, bytes) /\ UNCHANGED durable
ResetJournal(files) == bytes' = Emptied(files, bytes) /\ durable' = Emptied(files, durable)
OpenIdentity(t) ==
  LET created == taker[t].id = 0
      id == IF created THEN NewNode ELSE taker[t].id IN
  /\ Doing(t, "identity")
  /\ IF (created /\ idAt # 0) \/ (~created /\ ~taker[t].match /\ idAt # id)
     THEN Ends(t) /\ UNCHANGED <<idAt, bytes, durable>>
     ELSE /\ created => NodeLeft
          /\ idAt' = IF created THEN id ELSE idAt
          /\ Turns(t, [taker[t] EXCEPT !.id = id, !.pc = IF taker[t].match THEN "stream" ELSE "name"])
          /\ IF taker[t].match THEN Wrote(taker[t].journal, taker[t].hashed) /\ UNCHANGED durable
             ELSE ResetJournal({taker[t].journal} \cup (IF created THEN {id} ELSE {}))
  /\ UNCHANGED <<journalAt, destAt, kept, landed, misread, cleared, fetched, budget>>
WriteIdentity(t) ==
  /\ Doing(t, "name")
  /\ IF idAt # taker[t].id THEN Ends(t) /\ UNCHANGED <<bytes, durable>>
     ELSE Synced(taker[t].id, <<Of(t)>>) /\ Turns(t, [taker[t] EXCEPT !.pc = "stream", !.hashed = <<>>])
  /\ UNCHANGED <<journalAt, idAt, destAt, kept, landed, misread, cleared, fetched, budget>>

\* hash_copy: a block is hashed and written at its offset.
WriteAt(blocks, k, b) ==
  [i \in 1 .. (IF k > Len(blocks) THEN k ELSE Len(blocks)) |->
     IF i = k THEN b ELSE IF i <= Len(blocks) THEN blocks[i] ELSE Bad]
Stream(t, b) ==
  /\ Doing(t, "stream") /\ Len(taker[t].hashed) < Blocks
  /\ IF b = Bad THEN taker[t].via = "http" /\ Mishap ELSE b = Of(t) /\ UNCHANGED budget
  /\ Wrote(taker[t].journal, WriteAt(bytes[taker[t].journal], Len(taker[t].hashed) + 1, b))
  /\ taker' = [taker EXCEPT ![t].hashed = Append(@, b)]
  /\ UNCHANGED <<journalAt, idAt, destAt, kept, durable, landed, misread, cleared, fetched>>
\* A cancel or an error keeps the partial; the identity of a journal that is
\* no longer at its path goes.
StreamBreaks(t) ==
  /\ Doing(t, "stream") /\ Ends(t)
  /\ idAt' = IF journalAt # taker[t].journal /\ idAt = taker[t].id THEN 0 ELSE idAt
  /\ UNCHANGED <<journalAt, destAt, kept, bytes, durable, landed, misread, cleared, fetched, budget>>

\* write_verified: the stream ended, perhaps early, and the journal is synced.
\* Mutant: it is left to the system.
SyncJournalLater(t) ==
  /\ Doing(t, "stream") /\ Moves(t, "publish")
  /\ UNCHANGED <<folder, fetched, budget>>
SyncJournal(t) ==
  /\ Doing(t, "stream") /\ Moves(t, "publish")
  /\ durable' = [durable EXCEPT ![taker[t].journal] = bytes[taker[t].journal]]
  /\ UNCHANGED <<journalAt, idAt, destAt, kept, bytes, landed, misread, cleared, fetched, budget>>

\* PendingFile::publish, verify_and_rename.  A short file stays; another
\* failure removes what is still this receive's.
Publish(t) ==
  LET n == taker[t].journal
      verified == taker[t].hashed = Whole(Of(t)) /\ journalAt = n /\ destAt = 0 IN
  /\ Doing(t, "publish")
  /\ \/ /\ verified
        /\ journalAt' = 0 /\ destAt' = n
        /\ kept' = kept \cup {<<n, Of(t)>>} /\ landed' = landed \cup {Of(t)}
        /\ Moves(t, "unname") /\ UNCHANGED idAt
     \/ /\ ~verified /\ Len(taker[t].hashed) = Blocks
        /\ journalAt' = IF journalAt = n THEN 0 ELSE journalAt
        /\ idAt' = IF idAt = taker[t].id THEN 0 ELSE idAt
        /\ Ends(t) /\ UNCHANGED <<destAt, kept, landed>>
     \/ Len(taker[t].hashed) < Blocks /\ Ends(t) /\ UNCHANGED <<journalAt, idAt, destAt, kept, landed>>
  /\ UNCHANGED <<bytes, durable, misread, cleared, fetched, budget>>
RemoveIdentity(t) ==
  /\ Doing(t, "unname")
  /\ idAt' = IF idAt = taker[t].id THEN 0 ELSE idAt
  /\ IF taker[t].via = "fetch" THEN Turns(t, [taker[t] EXCEPT !.pc = "saved", !.journal = 0, !.id = 0]) ELSE Ends(t)
  /\ UNCHANGED <<journalAt, destAt, kept, bytes, durable, landed, misread, cleared, fetched, budget>>

----------------------------------------------------------------------------
\* What happens around it.

ProcessKilled(t) ==
  /\ ~Doing(t, "idle") /\ Mishap /\ Ends(t)
  /\ UNCHANGED <<folder, fetched>>
PowerLost ==
  /\ Mishap
  /\ taker' = [t \in Takers |-> Resting]
  /\ bytes' = durable
  /\ UNCHANGED <<journalAt, idAt, destAt, kept, durable, landed, misread, cleared, fetched>>
\* The user moves the file away, or clears a leftover.
UserMoves ==
  /\ destAt # 0 /\ Mishap /\ destAt' = 0
  /\ UNCHANGED <<journalAt, idAt, kept, bytes, durable, landed, misread, cleared, fetched, taker>>
UserClears ==
  /\ journalAt # 0 /\ Mishap /\ journalAt' = 0 /\ cleared' = TRUE
  /\ UNCHANGED <<idAt, destAt, kept, bytes, durable, landed, misread, fetched, taker>>

FetchNext ==
  \/ \E t \in Takers :
       \/ \E d \in Deliveries, resume \in BOOLEAN : Take(t, d, resume)
       \/ LockStage(t) \/ Plan(t) \/ Reach(t) \/ Mint(t) \/ SaveCapability(t)
       \/ Transport(t) \/ TransportFails(t) \/ Refused(t) \/ Joins(t) \/ RemoveStage(t) \/ RemoveCapability(t)
       \/ Check(t) \/ Clone(t) \/ OpenJournal(t) \/ LockJournal(t) \/ Inspect(t) \/ OpenSource(t)
       \/ OpenIdentity(t) \/ WriteIdentity(t) \/ StreamBreaks(t) \/ SyncJournal(t) \/ Publish(t)
       \/ RemoveIdentity(t) \/ ProcessKilled(t)
       \/ \E b \in Deliveries \cup {Bad} : Stream(t, b)
  \/ PowerLost \/ UserMoves \/ UserClears

FetchSpec == FetchInit /\ [][FetchNext]_fvars

----------------------------------------------------------------------------
\* Properties.

\* The values of the variables.
FetchTypeOK ==
  /\ {journalAt, idAt, destAt} \subseteq 0 .. Nodes
  /\ kept \subseteq (1 .. Nodes) \X Deliveries
  /\ \A n \in 1 .. Nodes : Len(bytes[n]) <= Blocks /\ Len(durable[n]) <= Blocks
  /\ stage \in [Deliveries -> {"none", "part", "full", "whole"}]
  /\ sidecar \in [Deliveries -> BOOLEAN]
  /\ ticket \in [Deliveries -> {"none", "reserved", "delivered"}]
  /\ landed \subseteq Deliveries /\ misread \in BOOLEAN /\ cleared \in BOOLEAN /\ takes \in Nat /\ mishaps \in Nat

\* write_verified, clone::publish: a published file has the announced bytes
\* and keeps them, whoever still has a handle of it or loses power.
LandedIntact == \A k \in kept : bytes[k[1]] = Whole(k[2])

\* prepare_verified: a prefix is resumed only for the delivery it came from,
\* unless the user took the journal away from a receive under way.
PrefixOwned == misread => cleared

\* try_fetch_with_resume_mode: what a delivered ticket paid for is there to be
\* saved until it was.
DeliveredIsKept ==
  \A d \in Deliveries : ticket[d] = "delivered" /\ d \notin landed => sidecar[d] /\ stage[d] \in {"full", "whole"}

\* fetch.rs, receive.rs: a published file is whole and stays so, a journal is
\* resumed for its own delivery, and a delivered ticket's bundle is not lost.
FetchHolds == FetchTypeOK /\ LandedIntact /\ PrefixOwned /\ DeliveredIsKept
=============================================================================
