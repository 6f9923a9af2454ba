------------------------------ MODULE Sender -------------------------------
(***************************************************************************)
(* How a client sends (client/core): a watch folder whose settled drops    *)
(* are handed out and shipped (watch.rs), the journal from which a cut     *)
(* send is resumed (journal.rs), and the HTTP session it drives (ffi.rs,   *)
(* transfer.rs, send_http.rs).                                             *)
(*                                                                         *)
(* The app and the command line share one state folder.  A runner is a     *)
(* thread of one of them: it ships an admitted drop, sends, resumes or     *)
(* forgets.  A drop is its path and the version of its content, which is   *)
(* what fingerprint tells apart.  A runner holds a shared lease of the     *)
(* state folder from the moment it opens a lock file of it.                *)
(***************************************************************************)
EXTENDS Integers, FiniteSets

CONSTANTS
  Runners, NoRunner,
  Processes,
  Paths, NoPath,
  Entries, NoEntry,       \* journal ids
  HttpSessions, NoSession,
  MaxVersion,             \* versions a drop goes through
  Budgets                 \* how many sends, resumes and forgets start, and
                          \* how many processes die

ASSUME SenderAssumption ==
  /\ NoRunner \notin Runners /\ NoPath \notin Paths
  /\ NoEntry \notin Entries /\ NoSession \notin HttpSessions
  /\ IsFiniteSet(Runners)
  /\ MaxVersion \in Nat \ {0} /\ Budgets \subseteq [starts : Nat, kills : Nat]

VARIABLES
  home,      \* the process of each runner
  watching,  \* whether watches.json names the folder
  content,      \* per path: the version in the folder, 0 once it was moved
  writes,    \* per path: the versions written so far
  handed,    \* per process and path: the version its watcher handed out
  lockFile,  \* per path: the generation of its flight lock file, 0 for none
  journal,   \* per entry: its file
  claim,     \* per entry: the runner that holds its claim
  live,      \* the sessions the server has
  runner,    \* per runner: what it does
  delivered, \* versions of drops the server has
  unsent,    \* history: whether a version was moved to shipped unsent
  crossed,   \* history: whether an abort hit a session another runner has
  starts, kills \* what is left of the budget

svars == <<home, watching, content, writes, handed, lockFile, journal, claim, live, runner,
           delivered, unsent, crossed, starts, kills>>

Unwritten == [path |-> NoPath, http |-> NoSession, root |-> 0]
Idle == [pc |-> "idle", op |-> "none", path |-> NoPath, gen |-> 0, entry |-> NoEntry, older |-> {},
         before |-> 0, sent |-> 0, http |-> NoSession, resumed |-> FALSE]

SenderInit ==
  /\ home \in [Runners -> Processes]
  /\ watching = TRUE
  /\ content = [p \in Paths |-> 1] /\ writes = content
  /\ handed = [c \in Processes |-> [p \in Paths |-> 0]]
  /\ lockFile = [p \in Paths |-> 0]
  /\ journal = [e \in Entries |-> Unwritten]
  /\ claim = [e \in Entries |-> NoRunner]
  /\ live = {}
  /\ runner = [r \in Runners |-> Idle]
  /\ delivered = {} /\ unsent = FALSE /\ crossed = FALSE
  /\ \E b \in Budgets : starts = b.starts /\ kills = b.kills

At(r, pc) == runner[r].pc = pc
Becomes(r, next) == runner' = [runner EXCEPT ![r] = next]
Goes(r, pc) == runner' = [runner EXCEPT ![r].pc = pc]
Starts == starts > 0 /\ starts' = starts - 1

\* The stages with the path in its process's set, and those with the lock too.
Locked(r) == runner[r].pc \in
  {"recheck", "admitted", "older", "prepare", "open", "begin", "upload", "park"}
InFlight(r) == Locked(r) \/ At(r, "opening")
\* The stages with a lease of the state folder.
Leased(r) == runner[r].pc \notin {"idle", "cleanup"}

----------------------------------------------------------------------------
\* Flights: one send per path, across the threads and the processes.

\* claim_across_processes: the lock file, created when there is none.
NewLock(p) == CHOOSE g \in 1 .. Cardinality(Runners) :
                \A o \in Runners : runner[o].path = p => runner[o].gen # g
LockOf(p) == IF lockFile[p] = 0 THEN NewLock(p) ELSE lockFile[p]
OpenLock(r, next) ==
  /\ lockFile' = [lockFile EXCEPT ![next.path] = LockOf(next.path)]
  /\ Becomes(r, [next EXCEPT !.pc = "opening", !.gen = LockOf(next.path)])

\* IN_FLIGHT of the runner's process names the path.
Known(r, p) == \E o \in Runners : home[o] = home[r] /\ InFlight(o) /\ runner[o].path = p
\* WATCH_IN_FLIGHT has reached WATCH_CAPACITY.
PermitTaken(r) == \E o \in Runners : home[o] = home[r] /\ InFlight(o) /\ runner[o].op = "ship"

\* scan, try_admit: a settled drop that this watcher has not handed out.
Admit(r, p) ==
  /\ At(r, "idle") /\ watching
  /\ content[p] # 0 /\ handed[home[r]][p] # content[p]
  /\ ~PermitTaken(r) /\ ~Known(r, p)
  /\ OpenLock(r, [Idle EXCEPT !.op = "ship", !.path = p, !.before = content[p]])
  /\ UNCHANGED <<home, watching, content, writes, handed, journal, claim, live, delivered, unsent, crossed, starts, kills>>

\* run_send: a send or a resume claims its path (single_flight).  A send that
\* is refused forgets its entry.
Refuse(r) ==
  /\ Becomes(r, Idle)
  /\ claim' = [e \in Entries |-> IF claim[e] = r THEN NoRunner ELSE claim[e]]
  /\ journal' = [e \in Entries |-> IF claim[e] = r /\ runner[r].op = "send" THEN Unwritten ELSE journal[e]]
SingleFlight(r) ==
  /\ At(r, "ready")
  /\ IF Known(r, runner[r].path) THEN Refuse(r) /\ UNCHANGED lockFile
     ELSE OpenLock(r, runner[r]) /\ UNCHANGED <<journal, claim>>
  /\ UNCHANGED <<home, watching, content, writes, handed, live, delivered, unsent, crossed, starts, kills>>

LockFlight(r) ==
  /\ At(r, "opening")
  /\ IF \E o \in Runners : Locked(o) /\ runner[o].path = runner[r].path /\ runner[o].gen = runner[r].gen
     THEN Refuse(r)
     ELSE Goes(r, IF runner[r].op = "ship" THEN "recheck" ELSE "prepare") /\ UNCHANGED <<journal, claim>>
  /\ UNCHANGED <<home, watching, content, writes, handed, lockFile, live, delivered, unsent, crossed, starts, kills>>

\* try_admit: the watch is looked up again, then the listener has the drop.
Recheck(r) ==
  /\ At(r, "recheck")
  /\ IF watching
     THEN Goes(r, "admitted") /\ handed' = [handed EXCEPT ![home[r]][runner[r].path] = runner[r].before]
     ELSE Becomes(r, Idle) /\ UNCHANGED handed
  /\ UNCHANGED <<home, watching, content, writes, lockFile, journal, claim, live, delivered, unsent, crossed, starts, kills>>

\* prune_flight_files: alone in the state folder, so no open lock file goes.
\* Mutant: the lock files that nobody holds.
PruneFree(p) ==
  /\ lockFile[p] # 0
  /\ \A o \in Runners : ~(Locked(o) /\ runner[o].path = p /\ runner[o].gen = lockFile[p])
  /\ lockFile' = [lockFile EXCEPT ![p] = 0]
  /\ UNCHANGED <<home, watching, content, writes, handed, journal, claim, live, runner, delivered, unsent, crossed, starts, kills>>
Prune(p) ==
  /\ lockFile[p] # 0 /\ \A o \in Runners : ~Leased(o)
  /\ lockFile' = [lockFile EXCEPT ![p] = 0]
  /\ UNCHANGED <<home, watching, content, writes, handed, journal, claim, live, runner, delivered, unsent, crossed, starts, kills>>

----------------------------------------------------------------------------
\* The journal.

Fresh(e) == journal[e] = Unwritten /\ claim[e] = NoRunner /\ \A o \in Runners : e \notin runner[o].older
Pending(e) == journal[e] # Unwritten /\ claim[e] = NoRunner
Write(e, p) == journal' = [journal EXCEPT ![e] = [Unwritten EXCEPT !.path = p]]

\* The client ends a session at the server.
Abort(r, s) ==
  /\ live' = live \ {s}
  /\ crossed' = (crossed \/ \E o \in Runners \ {r} : s # NoSession /\ runner[o].http = s)

\* ship: the admission, the credentials of its watch, record_claimed, and the
\* entries forget_send_of will look at.
Ship(r, e) ==
  /\ At(r, "admitted") /\ watching /\ Fresh(e)
  /\ Write(e, runner[r].path)
  /\ claim' = [claim EXCEPT ![e] = r]
  /\ runner' = [runner EXCEPT ![r].pc = "older", ![r].entry = e,
                  ![r].older = {o \in Entries : journal[o].path = runner[r].path /\ Pending(o)}]
  /\ UNCHANGED <<home, watching, content, writes, handed, lockFile, live, delivered, unsent, crossed, starts, kills>>
ShipRefused(r) ==
  /\ At(r, "admitted") /\ ~watching
  /\ Becomes(r, Idle)
  /\ UNCHANGED <<home, watching, content, writes, handed, lockFile, journal, claim, live, delivered, unsent, crossed, starts, kills>>

\* forget_send_of: under its claim, the session of an older entry is aborted
\* and the entry forgotten; one that is claimed, if only by a listing, stays.
\* Mutant: whoever holds the claim.
ForgetOlderClaimed(r, o) ==
  /\ At(r, "older") /\ o \in runner[r].older
  /\ Abort(r, journal[o].http)
  /\ journal' = [journal EXCEPT ![o] = Unwritten]
  /\ runner' = [runner EXCEPT ![r].older = @ \ {o}]
  /\ UNCHANGED <<home, watching, content, writes, handed, lockFile, claim, delivered, unsent, starts, kills>>
ForgetOlder(r, o) ==
  /\ At(r, "older") /\ o \in runner[r].older
  /\ \/ Pending(o) /\ Abort(r, journal[o].http) /\ journal' = [journal EXCEPT ![o] = Unwritten]
     \/ UNCHANGED <<journal, live, crossed>>
  /\ runner' = [runner EXCEPT ![r].older = @ \ {o}]
  /\ UNCHANGED <<home, watching, content, writes, handed, lockFile, claim, delivered, unsent, starts, kills>>

\* ship: the fingerprint that the drop must still have when it is parked.
Fingerprint(r) ==
  /\ At(r, "older") /\ runner[r].older = {}
  /\ runner' = [runner EXCEPT ![r].pc = "prepare", ![r].before = content[runner[r].path]]
  /\ UNCHANGED <<home, watching, content, writes, handed, lockFile, journal, claim, live, delivered, unsent, crossed, starts, kills>>

\* send of a single path.
StartSend(r, p, e) ==
  /\ At(r, "idle") /\ Fresh(e) /\ Starts
  /\ Write(e, p) /\ claim' = [claim EXCEPT ![e] = r]
  /\ Becomes(r, [Idle EXCEPT !.pc = "ready", !.op = "send", !.path = p, !.entry = e])
  /\ UNCHANGED <<home, watching, content, writes, handed, lockFile, live, delivered, unsent, crossed, kills>>

\* resume: the claim, the entry, the fingerprint.
StartResume(r, e) ==
  /\ At(r, "idle") /\ Pending(e) /\ Starts
  /\ claim' = [claim EXCEPT ![e] = r]
  /\ Becomes(r, [Idle EXCEPT !.pc = "ready", !.op = "resume", !.path = journal[e].path, !.entry = e,
                   !.before = content[journal[e].path], !.http = journal[e].http,
                   !.resumed = journal[e].http # NoSession])
  /\ UNCHANGED <<home, watching, content, writes, handed, lockFile, journal, live, delivered, unsent, crossed, kills>>

\* forget: the entry under its claim, its session afterwards by a thread.
\* Mutant: a claimed one too.
ForgetRunning(r, e) ==
  /\ At(r, "idle") /\ journal[e] # Unwritten /\ Starts
  /\ journal' = [journal EXCEPT ![e] = Unwritten]
  /\ Becomes(r, [Idle EXCEPT !.pc = "cleanup", !.http = journal[e].http])
  /\ UNCHANGED <<home, watching, content, writes, handed, lockFile, claim, live, delivered, unsent, crossed, kills>>
Forget(r, e) ==
  /\ At(r, "idle") /\ Pending(e) /\ Starts
  /\ journal' = [journal EXCEPT ![e] = Unwritten]
  /\ Becomes(r, [Idle EXCEPT !.pc = "cleanup", !.http = journal[e].http])
  /\ UNCHANGED <<home, watching, content, writes, handed, lockFile, claim, live, delivered, unsent, crossed, kills>>
Cleanup(r) ==
  /\ At(r, "cleanup")
  /\ Abort(r, runner[r].http)
  /\ Becomes(r, Idle)
  /\ UNCHANGED <<home, watching, content, writes, handed, lockFile, journal, claim, delivered, unsent, starts, kills>>

\* pending: an entry past its retention.
Abandon(e) ==
  /\ Pending(e)
  /\ journal' = [journal EXCEPT ![e] = Unwritten]
  /\ UNCHANGED <<home, watching, content, writes, handed, lockFile, claim, live, runner, delivered, unsent, crossed, starts, kills>>

----------------------------------------------------------------------------
\* run_send.

\* run_send after an error: a stale session is cleared from the entry, and the
\* entry is forgotten unless it is worth another run.
Stale(r, error) == error = "changed" \/ (error = "gone" /\ runner[r].resumed)
Settle(r, error) ==
  /\ journal' = [journal EXCEPT ![runner[r].entry] =
                   IF Stale(r, error) THEN [@ EXCEPT !.http = NoSession, !.root = 0]
                   ELSE IF error \in {"pause", "retry"} THEN @ ELSE Unwritten]
  /\ claim' = [claim EXCEPT ![runner[r].entry] = NoRunner]
  /\ Becomes(r, Idle)

\* send_with_session, resume_error_needs_abort: the session is aborted unless
\* the journal can resume it or the server has it no more.
Fail(r, error) ==
  /\ Settle(r, error)
  /\ IF \/ error \in {"pause", "retry"} /\ journal[runner[r].entry].http = runner[r].http
        \/ error = "gone" /\ runner[r].resumed
     THEN UNCHANGED <<live, crossed>>
     ELSE Abort(r, runner[r].http)

\* prepare: the files as they are now, and for a resume the root they make.
Prepare(r) ==
  LET now == content[runner[r].path]
      changed == runner[r].resumed /\ now # journal[runner[r].entry].root IN
  /\ At(r, "prepare")
  /\ \/ now = 0 /\ Fail(r, "retry")
     \/ now # 0 /\ changed /\ Fail(r, "changed")
     \/ /\ now # 0 /\ ~changed
        /\ runner' = [runner EXCEPT ![r].pc = IF runner[r].resumed THEN "begin" ELSE "open", ![r].sent = now]
        /\ UNCHANGED <<journal, claim, live, crossed>>
  /\ UNCHANGED <<home, watching, content, writes, handed, lockFile, delivered, unsent, starts, kills>>

\* The send ended well: settle drops the entry, the path stays in flight.
Arrives(r) == delivered' = delivered \cup {<<runner[r].path, runner[r].sent>>}
Sent(r) ==
  /\ Arrives(r)
  /\ journal' = [journal EXCEPT ![runner[r].entry] = Unwritten]
  /\ claim' = [claim EXCEPT ![runner[r].entry] = NoRunner]
  /\ runner' = [runner EXCEPT ![r].pc = "park", ![r].entry = NoEntry, ![r].http = NoSession]

\* try_push took it.
Push(r) ==
  /\ At(r, "open") /\ Sent(r)
  /\ UNCHANGED <<home, watching, content, writes, handed, lockFile, live, unsent, crossed, starts, kills>>

CreateSession(r, s) ==
  /\ At(r, "open") /\ s \notin live
  /\ \A o \in Runners : runner[o].http # s
  /\ \A e \in Entries : journal[e].http # s
  /\ live' = live \cup {s}
  /\ runner' = [runner EXCEPT ![r].pc = "begin", ![r].http = s]
  /\ UNCHANGED <<home, watching, content, writes, handed, lockFile, journal, claim, delivered, unsent, crossed, starts, kills>>

\* begin, and mark_http after the first one.
Begin(r) ==
  /\ At(r, "begin")
  /\ IF runner[r].http \in live
     THEN /\ Goes(r, "upload")
          /\ journal' = [journal EXCEPT ![runner[r].entry] =
                           [path |-> runner[r].path, http |-> runner[r].http, root |-> runner[r].sent]]
          /\ UNCHANGED <<claim, live, crossed>>
     ELSE Fail(r, "gone")
  /\ UNCHANGED <<home, watching, content, writes, handed, lockFile, delivered, unsent, starts, kills>>

\* The chunks and the finish, whose reply may be lost.
Finish(r) ==
  /\ At(r, "upload")
  /\ IF runner[r].http \in live
     THEN /\ live' = live \ {runner[r].http} /\ UNCHANGED crossed
          /\ Sent(r) \/ (Arrives(r) /\ Settle(r, "retry"))
     ELSE Fail(r, "gone") /\ UNCHANGED delivered
  /\ UNCHANGED <<home, watching, content, writes, handed, lockFile, unsent, starts, kills>>

\* A pause, a cancel, an error that may or may not go differently next time.
Breaks(r) ==
  /\ runner[r].pc \in {"prepare", "open", "begin", "upload"}
  /\ \E error \in {"pause", "cancel", "retry", "fatal"} : Fail(r, error)
  /\ UNCHANGED <<home, watching, content, writes, handed, lockFile, delivered, unsent, starts, kills>>

\* park_if_unchanged, then the flight is over.  A write between its look at
\* the drop and the rename is not modelled.
\* Mutant: a drop is moved as it is.
ParkAnyway(r) ==
  LET p == runner[r].path IN
  /\ At(r, "park")
  /\ IF (runner[r].op = "ship" \/ (runner[r].op = "resume" /\ watching)) /\ content[p] # 0
     THEN /\ unsent' = (unsent \/ <<p, content[p]>> \notin delivered)
          /\ content' = [content EXCEPT ![p] = 0]
     ELSE UNCHANGED <<unsent, content>>
  /\ Becomes(r, Idle)
  /\ UNCHANGED <<home, watching, writes, handed, lockFile, journal, claim, live, delivered, crossed, starts, kills>>
Park(r) ==
  LET p == runner[r].path IN
  /\ At(r, "park")
  /\ IF /\ runner[r].op = "ship" \/ (runner[r].op = "resume" /\ watching)
        /\ runner[r].before # 0 /\ content[p] = runner[r].before
     THEN /\ unsent' = (unsent \/ <<p, content[p]>> \notin delivered)
          /\ content' = [content EXCEPT ![p] = 0]
     ELSE UNCHANGED <<unsent, content>>
  /\ Becomes(r, Idle)
  /\ UNCHANGED <<home, watching, writes, handed, lockFile, journal, claim, live, delivered, crossed, starts, kills>>

----------------------------------------------------------------------------
\* What happens around it.

\* A drop is written, perhaps again under a name that was moved.
WriteDrop(p) ==
  /\ writes[p] < MaxVersion
  /\ writes' = [writes EXCEPT ![p] = @ + 1]
  /\ content' = [content EXCEPT ![p] = writes[p] + 1]
  /\ UNCHANGED <<home, watching, handed, lockFile, journal, claim, live, runner, delivered, unsent, crossed, starts, kills>>

\* remove_watch by a process, which lets go of its waiting admissions.
RemoveWatch(c) ==
  /\ watching /\ watching' = FALSE
  /\ runner' = [r \in Runners |->
       IF home[r] = c /\ runner[r].pc \in {"recheck", "admitted"} THEN Idle ELSE runner[r]]
  /\ UNCHANGED <<home, content, writes, handed, lockFile, journal, claim, live, delivered, unsent, crossed, starts, kills>>

\* The server sweeps a session.
SessionExpires(s) ==
  /\ s \in live /\ live' = live \ {s}
  /\ UNCHANGED <<home, watching, content, writes, handed, lockFile, journal, claim, runner, delivered, unsent, crossed, starts, kills>>

\* Its locks go with a process; the journal and the lock files stay.
Kill(c) ==
  /\ kills > 0 /\ kills' = kills - 1
  /\ runner' = [r \in Runners |-> IF home[r] = c THEN Idle ELSE runner[r]]
  /\ claim' = [e \in Entries |-> IF claim[e] # NoRunner /\ home[claim[e]] = c THEN NoRunner ELSE claim[e]]
  /\ handed' = [handed EXCEPT ![c] = [p \in Paths |-> 0]]
  /\ UNCHANGED <<home, watching, content, writes, lockFile, journal, live, delivered, unsent, crossed, starts>>

SenderNext ==
  \/ \E r \in Runners :
       \/ SingleFlight(r) \/ LockFlight(r) \/ Recheck(r) \/ ShipRefused(r) \/ Fingerprint(r) \/ Cleanup(r)
       \/ Prepare(r) \/ Push(r) \/ Begin(r) \/ Finish(r) \/ Breaks(r) \/ Park(r)
       \/ \E p \in Paths : Admit(r, p) \/ \E e \in Entries : StartSend(r, p, e)
       \/ \E e \in Entries : Ship(r, e) \/ ForgetOlder(r, e) \/ StartResume(r, e) \/ Forget(r, e)
       \/ \E s \in HttpSessions : CreateSession(r, s)
  \/ \E p \in Paths : Prune(p) \/ WriteDrop(p)
  \/ \E c \in Processes : RemoveWatch(c) \/ Kill(c)
  \/ \E e \in Entries : Abandon(e)
  \/ \E s \in HttpSessions : SessionExpires(s)

SenderSpec == SenderInit /\ [][SenderNext]_svars

----------------------------------------------------------------------------
\* Properties.

Versions == 0 .. MaxVersion
\* The values of the variables.
SenderTypeOK ==
  /\ home \in [Runners -> Processes] /\ watching \in BOOLEAN
  /\ content \in [Paths -> Versions] /\ writes \in [Paths -> Versions]
  /\ handed \in [Processes -> [Paths -> Versions]]
  /\ lockFile \in [Paths -> 0 .. Cardinality(Runners)]
  /\ journal \in [Entries -> [path : Paths \cup {NoPath}, http : HttpSessions \cup {NoSession}, root : Versions]]
  /\ claim \in [Entries -> Runners \cup {NoRunner}]
  /\ live \subseteq HttpSessions
  /\ delivered \subseteq Paths \X (Versions \ {0})
  /\ unsent \in BOOLEAN /\ crossed \in BOOLEAN /\ starts \in Nat /\ kills \in Nat

\* single_flight, try_admit, prune_flight_files: one runner per path in both
\* processes.
OneFlight == \A r, o \in Runners : r # o /\ Locked(r) /\ Locked(o) => runner[r].path # runner[o].path

\* claim, forget_send_of, forget, pending: an upload under way keeps the entry
\* that resumes it after a crash, and no other runner aborts its session.
UploadsSpared ==
  /\ ~crossed
  /\ \A r \in Runners : At(r, "upload") => journal[runner[r].entry].http = runner[r].http

\* park_if_unchanged: what is moved into shipped was delivered as it is.
ParkedWasSent == ~unsent

\* watch.rs, journal.rs, ffi.rs: one runner per path in both processes, an
\* upload keeps its entry and its session, and only what was delivered moves.
SenderHolds == SenderTypeOK /\ OneFlight /\ UploadsSpared /\ ParkedWasSent
=============================================================================
