----------------------------- MODULE Ownership -----------------------------
(***************************************************************************)
(* Who may write to the receiving storage: the writer lock with its        *)
(* heartbeat record (server/src/lease.rs), the receiving state built on it *)
(* (Active and Destinations of server/src/receiving.rs), the boot and the  *)
(* administrator's check that open it, and the keeper that ends a port     *)
(* which lost it (server/src/app.rs, server/src/api/admin.rs).             *)
(*                                                                         *)
(* Several ports share one storage.  Its private folder has generations:   *)
(* each holds one lock file and one record, and replacing the folder makes *)
(* a new one.  The storage is qualified already; a port's mount of it may  *)
(* go away and come back.                                                  *)
(***************************************************************************)
EXTENDS Integers, FiniteSets

CONSTANTS
  Ports,          \* instances configured with this receiving storage
  NoPort,
  MaxStorageFaults \* lost locks, replaced folders, remounts and crashes

ASSUME OwnershipAssumption ==
  /\ NoPort \notin Ports
  /\ MaxStorageFaults \in Nat

VARIABLES
  visible,   \* the generation of .vot-stage a path reaches
  locked,    \* per generation: the port whose lock the storage's server keeps
  record,    \* per generation: the holder the record names
  mounted,   \* per port: whether the path leads to the qualified storage
  port,      \* per port: its process
  renewal,   \* per port: its renewal under way
  doubt,     \* per port, history: whether its ownership ended unseen
  faultsLeft

ovars == <<visible, locked, record, mounted, port, renewal, doubt, faultsLeft>>

Generations == 1 .. MaxStorageFaults + 1

\* down: no process.  unready: administration only (receiving is an error).
\* locking .. sweep: the steps of opening.  receiving: the state is installed.
\* dropped: the opening failed and its state was dropped.  exiting: the keeper
\* suspends the sessions.
Opening == {"locking", "recording", "probing", "recovering", "restoring", "restored", "sweep"}
Stopped == [pc |-> "down", by |-> "boot", gen |-> 0, stop |-> FALSE]

OwnershipInit ==
  /\ visible = 1
  /\ locked = [g \in Generations |-> NoPort]
  /\ record = [g \in Generations |-> NoPort]
  /\ mounted = [p \in Ports |-> TRUE]
  /\ port = [p \in Ports |-> Stopped]
  /\ renewal = [p \in Ports |-> "rest"]
  /\ doubt = [p \in Ports |-> "none"]
  /\ faultsLeft = MaxStorageFaults

Pc(p, at) == port[p].pc = at
Go(p, to) == port' = [port EXCEPT ![p].pc = to]
Holds(p) == port[p].gen # 0 /\ locked[port[p].gen] = p

\* Drop of Guard: the record if it is its own, then the lock.
Unlocked(p) == [g \in Generations |-> IF g = port[p].gen /\ locked[g] = p THEN NoPort ELSE locked[g]]
Unrecorded(p) == [g \in Generations |-> IF g = port[p].gen /\ record[g] = p THEN NoPort ELSE record[g]]
DropGuard(p) ==
  /\ locked' = Unlocked(p) /\ record' = Unrecorded(p)
  /\ doubt' = [doubt EXCEPT ![p] = "none"]

----------------------------------------------------------------------------
\* Opening.

\* build: Destinations::configured.  Without the qualified storage the port
\* serves administration only.
StartProcess(p) ==
  /\ Pc(p, "down")
  /\ port' = [port EXCEPT ![p].pc = IF mounted[p] THEN "locking" ELSE "unready"]
  /\ UNCHANGED <<visible, locked, record, mounted, renewal, doubt, faultsLeft>>

\* check_receiving_storage: an administrator opens a storage that is back.
CheckStorage(p) ==
  /\ Pc(p, "unready") /\ mounted[p]
  /\ port' = [port EXCEPT ![p].pc = "locking", ![p].by = "admin"]
  /\ UNCHANGED <<visible, locked, record, mounted, renewal, doubt, faultsLeft>>

\* An opening that fails ends the boot, or only the administrator's request.
Refused(p) == [port EXCEPT ![p] = [Stopped EXCEPT !.pc = IF port[p].by = "admin" THEN "unready" ELSE "down"]]

\* Guard::acquire: the folder and its lock file, and the lock without waiting.
AcquireLock(p) ==
  /\ Pc(p, "locking")
  /\ IF locked[visible] = NoPort
     THEN /\ locked' = [locked EXCEPT ![visible] = p]
          /\ port' = [port EXCEPT ![p].pc = "recording", ![p].gen = visible]
     ELSE port' = Refused(p) /\ UNCHANGED locked
  /\ UNCHANGED <<visible, record, mounted, renewal, doubt, faultsLeft>>

\* Whatever the record says is replaced.
AcquireRecord(p) ==
  /\ Pc(p, "recording")
  /\ IF visible = port[p].gen /\ Holds(p)
     THEN /\ record' = [record EXCEPT ![port[p].gen] = p]
          /\ Go(p, "probing")
          /\ UNCHANGED <<locked, doubt>>
     ELSE DropGuard(p) /\ port' = Refused(p)
  /\ UNCHANGED <<visible, mounted, renewal, faultsLeft>>

\* Destinations::probe.
Probe(p) ==
  /\ Pc(p, "probing")
  /\ IF mounted[p]
     THEN Go(p, "recovering") /\ UNCHANGED <<locked, record, doubt>>
     ELSE DropGuard(p) /\ port' = Refused(p)
  /\ UNCHANGED <<visible, mounted, renewal, faultsLeft>>

\* during_recovery: a renewal before the work, some beside it, one after it.
BeginRecovery(p) ==
  /\ Pc(p, "recovering") /\ renewal[p] = "done"
  /\ Go(p, "restoring")
  /\ renewal' = [renewal EXCEPT ![p] = "rest"]
  /\ UNCHANGED <<visible, locked, record, mounted, doubt, faultsLeft>>
SessionsRestored(p) ==
  /\ Pc(p, "restoring") /\ renewal[p] = "rest"
  /\ Go(p, "restored")
  /\ UNCHANGED <<visible, locked, record, mounted, renewal, doubt, faultsLeft>>
EndRecovery(p) ==
  /\ Pc(p, "restored") /\ renewal[p] = "done"
  /\ Go(p, "sweep")
  /\ renewal' = [renewal EXCEPT ![p] = "rest"]
  /\ UNCHANGED <<visible, locked, record, mounted, doubt, faultsLeft>>

\* A recovery whose renewal failed.  The state is dropped with its guard, under
\* the workers it resumed: they are stopped, and go on with the call they are in
\* until the process ends.
RecoveryFails(p) ==
  /\ port[p].pc \in {"recovering", "restored"} /\ port[p].stop
  /\ DropGuard(p)
  /\ port' = [port EXCEPT ![p].pc = "dropped", ![p].gen = 0]
  /\ UNCHANGED <<visible, mounted, renewal, faultsLeft>>

\* clean_staging, then the state is installed.
Install(p) ==
  /\ Pc(p, "sweep")
  /\ Go(p, "receiving")
  /\ UNCHANGED <<visible, locked, record, mounted, renewal, doubt, faultsLeft>>

----------------------------------------------------------------------------
\* Active::renew, by the recovery's monitor or by the keeper.

RenewalDue(p) ==
  port[p].pc \in {"recovering", "restoring", "restored", "receiving"} /\ ~port[p].stop

\* What the history knows of an ownership that ended before a renewal began.
BeginRenewal(p) ==
  /\ RenewalDue(p) /\ renewal[p] = "rest"
  /\ renewal' = [renewal EXCEPT ![p] = "current"]
  /\ doubt' = [doubt EXCEPT ![p] = IF @ = "new" THEN "old" ELSE @]
  /\ UNCHANGED <<visible, locked, record, mounted, port, faultsLeft>>

\* Mutant: a renewal that fails is left to the next one.
RenewStepRetried(p, at, ok, to) ==
  /\ renewal[p] = at
  /\ renewal' = [renewal EXCEPT ![p] = IF ok THEN to ELSE "rest"]
  /\ UNCHANGED port
RenewStep(p, at, ok, to) ==
  /\ renewal[p] = at
  /\ IF ok
     THEN renewal' = [renewal EXCEPT ![p] = to] /\ UNCHANGED port
     ELSE /\ renewal' = [renewal EXCEPT ![p] = "rest"]
          /\ port' = [port EXCEPT ![p].stop = TRUE]

\* check_current.
RenewCurrent(p) ==
  /\ RenewStep(p, "current", mounted[p], "namespace")
  /\ UNCHANGED <<visible, locked, record, mounted, doubt, faultsLeft>>
\* check_namespace: the folder and the lock file a path reaches are the held ones.
RenewNamespace(p) ==
  /\ RenewStep(p, "namespace", visible = port[p].gen, "lock")
  /\ UNCHANGED <<visible, locked, record, mounted, doubt, faultsLeft>>
\* Mutant: the held handle is trusted.
RenewLockTrusted(p) ==
  /\ RenewStep(p, "lock", TRUE, "read")
  /\ UNCHANGED <<visible, locked, record, mounted, doubt, faultsLeft>>
\* check_lock: I/O on the held handle fails when the storage lost the lock.
RenewLock(p) ==
  /\ RenewStep(p, "lock", Holds(p), "read")
  /\ UNCHANGED <<visible, locked, record, mounted, doubt, faultsLeft>>
RenewRead(p) ==
  /\ RenewStep(p, "read", record[port[p].gen] = p, "write")
  /\ UNCHANGED <<visible, locked, record, mounted, doubt, faultsLeft>>
RenewWrite(p) ==
  /\ renewal[p] = "write"
  /\ record' = [record EXCEPT ![port[p].gen] = p]
  /\ renewal' = [renewal EXCEPT ![p] = IF port[p].pc \in {"recovering", "restored"} THEN "done" ELSE "rest"]
  /\ doubt' = [doubt EXCEPT ![p] = IF @ = "old" THEN "none" ELSE @]
  /\ UNCHANGED <<visible, locked, mounted, port, faultsLeft>>

\* lease_keeper: a failed renewal, or the lease_lost that an administrator's
\* request set, suspends the sessions and ends the process.
KeeperStops(p) ==
  /\ \/ Pc(p, "dropped") /\ port[p].by = "admin"
     \/ Pc(p, "receiving") /\ port[p].stop
  /\ Go(p, "exiting")
  /\ UNCHANGED <<visible, locked, record, mounted, renewal, doubt, faultsLeft>>

\* Process exit: the kernel releases the lock, the record stays.
ProcessEnds(p) ==
  /\ port' = [port EXCEPT ![p] = Stopped]
  /\ renewal' = [renewal EXCEPT ![p] = "rest"]
  /\ locked' = Unlocked(p)
  /\ doubt' = [doubt EXCEPT ![p] = "none"]
  /\ UNCHANGED <<visible, record, mounted>>
KeeperExits(p) == Pc(p, "exiting") /\ ProcessEnds(p) /\ UNCHANGED faultsLeft
\* A boot returns its error.
BootEnds(p) == Pc(p, "dropped") /\ port[p].by = "boot" /\ ProcessEnds(p) /\ UNCHANGED faultsLeft

----------------------------------------------------------------------------
\* What happens to the storage and the processes.

Strikes == faultsLeft > 0 /\ faultsLeft' = faultsLeft - 1
Doubtful(ps) == [p \in Ports |-> IF p \in ps THEN "new" ELSE doubt[p]]

ProcessDies(p) == ~Pc(p, "down") /\ Strikes /\ ProcessEnds(p)

\* The storage's server gives up a lock: an expired NFS lease, a server that
\* restarted.
LockLost(p) ==
  /\ Strikes /\ Holds(p)
  /\ locked' = Unlocked(p)
  /\ doubt' = Doubtful({p})
  /\ UNCHANGED <<visible, record, mounted, port, renewal>>

\* Somebody replaces the private folder.
FolderReplaced ==
  /\ Strikes /\ visible < MaxStorageFaults + 1
  /\ visible' = visible + 1
  /\ doubt' = Doubtful({p \in Ports : port[p].gen # 0})
  /\ UNCHANGED <<locked, record, mounted, port, renewal>>

MountLost(p) ==
  /\ Strikes /\ mounted[p]
  /\ mounted' = [mounted EXCEPT ![p] = FALSE]
  /\ UNCHANGED <<visible, locked, record, port, renewal, doubt>>
MountReturns(p) ==
  /\ ~mounted[p]
  /\ mounted' = [mounted EXCEPT ![p] = TRUE]
  /\ UNCHANGED <<visible, locked, record, port, renewal, doubt, faultsLeft>>

OwnershipNext ==
  \/ FolderReplaced
  \/ \E p \in Ports :
       \/ StartProcess(p) \/ CheckStorage(p) \/ AcquireLock(p) \/ AcquireRecord(p) \/ Probe(p)
       \/ BeginRecovery(p) \/ SessionsRestored(p) \/ EndRecovery(p) \/ RecoveryFails(p) \/ Install(p)
       \/ BeginRenewal(p) \/ RenewCurrent(p) \/ RenewNamespace(p) \/ RenewLock(p)
       \/ RenewRead(p) \/ RenewWrite(p)
       \/ KeeperStops(p) \/ KeeperExits(p) \/ BootEnds(p)
       \/ ProcessDies(p) \/ LockLost(p) \/ MountLost(p) \/ MountReturns(p)

OwnershipSpec == OwnershipInit /\ [][OwnershipNext]_ovars

\* A process runs, a supervisor starts it again, the mount comes back, and an
\* administrator then opens the storage.  Nobody else owes a step.
Runs(p) ==
  \/ StartProcess(p) \/ CheckStorage(p) \/ MountReturns(p)
  \/ AcquireLock(p) \/ AcquireRecord(p) \/ Probe(p)
  \/ BeginRecovery(p) \/ EndRecovery(p) \/ RecoveryFails(p) \/ Install(p)
  \/ BeginRenewal(p) \/ RenewCurrent(p) \/ RenewNamespace(p) \/ RenewLock(p)
  \/ RenewRead(p) \/ RenewWrite(p) \/ KeeperStops(p) \/ KeeperExits(p) \/ BootEnds(p)
OwnershipFairness ==
  \A p \in Ports : WF_ovars(Runs(p)) /\ WF_ovars(MountReturns(p)) /\ SF_ovars(SessionsRestored(p))

----------------------------------------------------------------------------
\* Properties.

Processes ==
  [pc : Opening \cup {"down", "unready", "receiving", "dropped", "exiting"},
   by : {"boot", "admin"}, gen : Generations \cup {0}, stop : BOOLEAN]

\* The values of the variables; only an open state has a guard.
OwnershipTypeOK ==
  /\ visible \in Generations
  /\ locked \in [Generations -> Ports \cup {NoPort}]
  /\ record \in [Generations -> Ports \cup {NoPort}]
  /\ mounted \in [Ports -> BOOLEAN]
  /\ port \in [Ports -> Processes]
  /\ renewal \in [Ports -> {"rest", "current", "namespace", "lock", "read", "write", "done"}]
  /\ doubt \in [Ports -> {"none", "new", "old"}]
  /\ faultsLeft \in 0 .. MaxStorageFaults

\* Workers of this port may write: a renewal that failed stops the next call of a
\* worker, not the one that is past check_live.
MayWrite(p) == port[p].pc \in {"restoring", "restored", "sweep", "receiving", "dropped", "exiting"}

\* Drop of Active: workers that a failed opening resumed outlive its guard.
Leftover(p) == port[p].pc \in {"dropped", "exiting"} /\ port[p].gen = 0 /\ port[p].stop

\* Guard, renew, during_recovery: a port with workers that may write owns the
\* storage's lock in the folder a path reaches to the end of its process, unless
\* the lock was taken since the last renewal that the port passed began.  The
\* one exception is a failed opening (docs/deployment.md knows of none): its
\* workers are without the lock, but none of their calls starts any more.
WritersOwn ==
  \A p \in Ports :
    MayWrite(p) /\ doubt[p] = "none" => Leftover(p) \/ (Holds(p) /\ visible = port[p].gen)

\* lease_keeper, Guard::acquire: a port that lost its ownership lets go of the
\* storage, and when nothing more happens to it one port receives for good.
OwnershipSettles ==
  /\ \A p \in Ports : (port[p].gen # 0 /\ doubt[p] # "none") ~> (port[p].gen = 0)
  /\ <>[](\E p \in Ports : Pc(p, "receiving") /\ ~port[p].stop /\ Holds(p))

\* Guard, lease_keeper: no writer without the lock but the leftovers of a failed
\* opening, and well-typed ownership.
OwnershipHolds == OwnershipTypeOK /\ WritersOwn
=============================================================================
