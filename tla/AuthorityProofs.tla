--------------------------- MODULE AuthorityProofs ---------------------------
(***************************************************************************)
(* Proofs about who may act: the ports that may write to the storage, and  *)
(* the identities that may act in a tenant.                                *)
(***************************************************************************)
EXTENDS Ownership, Accounts, FiniteSetTheorems, TLAPS

\* Ownership of the storage.

\* A guard exists exactly in the states that were reached through the lock.
Unguarded == {"down", "unready", "locking", "dropped"}
GuardKept ==
  \A p \in Ports :
    /\ port[p].pc \in Unguarded => port[p].gen = 0
    /\ port[p].pc \notin Unguarded \cup {"exiting"} => port[p].gen # 0
    /\ port[p].gen = 0 => doubt[p] = "none"
    /\ port[p].pc \in {"dropped", "exiting"} => port[p].stop
\* Nothing happened to an ownership of which nothing is known.
Undoubted ==
  \A p \in Ports : port[p].gen # 0 /\ doubt[p] = "none" => Holds(p) /\ visible = port[p].gen
\* Only an open state is renewed, and a failed renewal was the last.
RenewalsOpen == \A p \in Ports : renewal[p] # "rest" => RenewalDue(p)
\* What a renewal has passed since it began holds unless it was struck again.
RenewalPassed ==
  \A p \in Ports : doubt[p] = "old" =>
    /\ renewal[p] \in {"lock", "read", "write"} => visible = port[p].gen
    /\ renewal[p] \in {"read", "write"} => Holds(p)
OwnershipInv ==
  OwnershipTypeOK /\ GuardKept /\ Undoubted /\ RenewalsOpen /\ RenewalPassed

LEMMA OwnershipInitInv == OwnershipInit => OwnershipInv
  BY OwnershipAssumption
  DEF OwnershipInit, OwnershipInv, OwnershipTypeOK, GuardKept, Undoubted, RenewalsOpen,
      RenewalPassed, Unguarded, Generations, Processes, Opening, Stopped, Holds

LEMMA GenerationsNat == Generations \subseteq Nat /\ 0 \notin Generations /\ 1 \in Generations
  BY OwnershipAssumption DEF Generations

LEMMA ProcessEdits ==
  ASSUME NEW k \in Processes, NEW at \in Opening \cup {"down", "unready", "receiving", "dropped", "exiting"},
         NEW g \in Generations \cup {0}
  PROVE  /\ [k EXCEPT !.pc = at] \in Processes
         /\ [k EXCEPT !.pc = at, !.by = "admin"] \in Processes
         /\ [k EXCEPT !.pc = at, !.gen = g] \in Processes
         /\ [k EXCEPT !.stop = TRUE] \in Processes
         /\ Stopped \in Processes /\ [Stopped EXCEPT !.pc = at] \in Processes
  BY DEF Processes, Opening, Stopped

LEMMA FolderReplacedKeeps ==
  ASSUME OwnershipInv, FolderReplaced PROVE OwnershipInv'
  <1>1. OwnershipTypeOK /\ GuardKept /\ Undoubted /\ RenewalsOpen /\ RenewalPassed
    BY DEF OwnershipInv
  <1> USE <1>1, GenerationsNat, OwnershipAssumption DEF OwnershipTypeOK, Pc, Go
  <1>2. OwnershipTypeOK'
    BY DEF FolderReplaced, Strikes, Doubtful, Generations
  <1>3. GuardKept'
    BY <1>2 DEF GuardKept, Unguarded, Stopped, Processes, RenewalsOpen, RenewalDue,
       FolderReplaced, Strikes, Doubtful
  <1>4. Undoubted'
    BY <1>2 DEF GuardKept, Undoubted, RenewalsOpen, RenewalPassed, RenewalDue, Unguarded, Holds,
       Stopped, Processes, FolderReplaced, Strikes, Doubtful
  <1>5. RenewalsOpen'
    BY <1>2 DEF RenewalsOpen, RenewalDue, Stopped, Processes, FolderReplaced, Strikes, Doubtful
  <1>6. RenewalPassed'
    BY <1>2 DEF GuardKept, RenewalPassed, RenewalsOpen, RenewalDue, Unguarded, Holds, Stopped,
       Processes, FolderReplaced, Strikes, Doubtful
  <1>7. QED
    BY <1>2, <1>3, <1>4, <1>5, <1>6 DEF OwnershipInv

LEMMA StartProcessKeeps ==
  ASSUME OwnershipInv, NEW p \in Ports, StartProcess(p) PROVE OwnershipInv'
  <1>1. OwnershipTypeOK /\ GuardKept /\ Undoubted /\ RenewalsOpen /\ RenewalPassed
    BY DEF OwnershipInv
  <1> USE <1>1, GenerationsNat, OwnershipAssumption DEF OwnershipTypeOK, Pc, Go
  <1>p. port[p] \in Processes
    OBVIOUS
  <1>2. OwnershipTypeOK'
    BY <1>p, ProcessEdits DEF Generations, Opening, StartProcess
  <1>3. GuardKept'
    BY <1>2 DEF GuardKept, Unguarded, Stopped, Processes, RenewalsOpen, RenewalDue, StartProcess
  <1>4. Undoubted'
    BY <1>2 DEF GuardKept, Undoubted, RenewalsOpen, RenewalPassed, RenewalDue, Unguarded, Holds,
       Stopped, Processes, StartProcess
  <1>5. RenewalsOpen'
    BY <1>2 DEF RenewalsOpen, RenewalDue, Stopped, Processes, StartProcess
  <1>6. RenewalPassed'
    BY <1>2 DEF GuardKept, RenewalPassed, RenewalsOpen, RenewalDue, Unguarded, Holds, Stopped,
       Processes, StartProcess
  <1>7. QED
    BY <1>2, <1>3, <1>4, <1>5, <1>6 DEF OwnershipInv

LEMMA CheckStorageKeeps ==
  ASSUME OwnershipInv, NEW p \in Ports, CheckStorage(p) PROVE OwnershipInv'
  <1>1. OwnershipTypeOK /\ GuardKept /\ Undoubted /\ RenewalsOpen /\ RenewalPassed
    BY DEF OwnershipInv
  <1> USE <1>1, GenerationsNat, OwnershipAssumption DEF OwnershipTypeOK, Pc, Go
  <1>p. port[p] \in Processes
    OBVIOUS
  <1>2. OwnershipTypeOK'
    BY <1>p, ProcessEdits DEF Generations, Opening, CheckStorage
  <1>3. GuardKept'
    BY <1>2 DEF GuardKept, Unguarded, Stopped, Processes, RenewalsOpen, RenewalDue, CheckStorage
  <1>4. Undoubted'
    BY <1>2 DEF GuardKept, Undoubted, RenewalsOpen, RenewalPassed, RenewalDue, Unguarded, Holds,
       Stopped, Processes, CheckStorage
  <1>5. RenewalsOpen'
    BY <1>2 DEF RenewalsOpen, RenewalDue, Stopped, Processes, CheckStorage
  <1>6. RenewalPassed'
    BY <1>2 DEF GuardKept, RenewalPassed, RenewalsOpen, RenewalDue, Unguarded, Holds, Stopped,
       Processes, CheckStorage
  <1>7. QED
    BY <1>2, <1>3, <1>4, <1>5, <1>6 DEF OwnershipInv

LEMMA AcquireLockKeeps ==
  ASSUME OwnershipInv, NEW p \in Ports, AcquireLock(p) PROVE OwnershipInv'
  <1>1. OwnershipTypeOK /\ GuardKept /\ Undoubted /\ RenewalsOpen /\ RenewalPassed
    BY DEF OwnershipInv
  <1> USE <1>1, GenerationsNat, OwnershipAssumption DEF OwnershipTypeOK, Pc, Go
  <1>p. port[p] \in Processes
    OBVIOUS
  <1>r. Refused(p) \in [Ports -> Processes]
    BY <1>p, ProcessEdits DEF Refused
  <1>g. port' = Refused(p) \/ port' = [port EXCEPT ![p].pc = "recording", ![p].gen = visible]
    BY DEF AcquireLock
  <1>e. [port[p] EXCEPT !.pc = "recording", !.gen = visible] \in Processes
    BY <1>p, ProcessEdits DEF Opening
  <1>t. port' \in [Ports -> Processes]
    BY <1>p, <1>r, <1>g, <1>e
  <1>2. OwnershipTypeOK'
    BY <1>t DEF AcquireLock
  <1>o. /\ \A o \in Ports : o # p => port'[o] = port[o]
        /\ \/ port'[p].pc \in {"down", "unready"} /\ port'[p].gen = 0
           \/ /\ port'[p].pc = "recording" /\ port'[p].gen = visible
              /\ locked' = [locked EXCEPT ![visible] = p]
        /\ doubt' = doubt /\ visible' = visible
    BY <1>p DEF AcquireLock, Refused, Stopped, Processes
  <1>n. doubt[p] = "none"
    BY DEF AcquireLock, GuardKept, Unguarded
  <1>3. GuardKept'
    BY <1>o, <1>n DEF GuardKept, Unguarded
  <1>l. \A o \in Ports : o # p /\ Holds(o) => Holds(o)'
    BY <1>o DEF AcquireLock, Holds, Processes
  <1>4. Undoubted'
    BY <1>o, <1>l DEF Undoubted, Holds
  <1>5. RenewalsOpen'
    <2>1. Pc(p, "locking") /\ renewal' = renewal
      BY DEF AcquireLock
    <2>2. renewal[p] = "rest"
      BY <2>1 DEF RenewalsOpen, RenewalDue
    <2>3. \A o \in Ports \ {p} : port'[o] = port[o]
      BY <1>g, <1>p DEF Refused
    <2> QED
      BY <2>1, <2>2, <2>3 DEF RenewalsOpen, RenewalDue
  <1>6. RenewalPassed'
    BY <1>2 DEF GuardKept, RenewalPassed, RenewalsOpen, RenewalDue, Unguarded, Holds, Stopped,
       Processes, AcquireLock, Refused
  <1>7. QED
    BY <1>2, <1>3, <1>4, <1>5, <1>6 DEF OwnershipInv

LEMMA AcquireRecordKeeps ==
  ASSUME OwnershipInv, NEW p \in Ports, AcquireRecord(p) PROVE OwnershipInv'
  <1>1. OwnershipTypeOK /\ GuardKept /\ Undoubted /\ RenewalsOpen /\ RenewalPassed
    BY DEF OwnershipInv
  <1> USE <1>1, GenerationsNat, OwnershipAssumption DEF OwnershipTypeOK, Pc, Go
  <1>p. port[p] \in Processes
    OBVIOUS
  <1>r. Refused(p) \in [Ports -> Processes]
    BY <1>p, ProcessEdits DEF Refused
  <1>g. port' = Refused(p) \/ port' = [port EXCEPT ![p].pc = "probing"]
    BY DEF AcquireRecord
  <1>e. [port[p] EXCEPT !.pc = "probing"] \in Processes
    BY <1>p, ProcessEdits DEF Opening
  <1>t. port' \in [Ports -> Processes]
    BY <1>p, <1>r, <1>g, <1>e
  <1>q. renewal[p] = "rest"
    BY DEF AcquireRecord, RenewalsOpen, RenewalDue
  <1>2. OwnershipTypeOK'
    BY <1>t DEF AcquireRecord, DropGuard, Unlocked, Unrecorded
  <1>3. GuardKept'
    BY <1>2 DEF GuardKept, Unguarded, Stopped, Processes, RenewalsOpen, RenewalDue, AcquireRecord,
       Refused, DropGuard, Unlocked, Unrecorded
  <1>4. Undoubted'
    BY <1>2 DEF GuardKept, Undoubted, RenewalsOpen, RenewalPassed, RenewalDue, Unguarded, Holds,
       Stopped, Processes, AcquireRecord, Refused, DropGuard, Unlocked, Unrecorded
  <1>5. RenewalsOpen'
    BY <1>2, <1>q DEF RenewalsOpen, RenewalDue, AcquireRecord, DropGuard, Refused
  <1>6. RenewalPassed'
    BY <1>2 DEF GuardKept, RenewalPassed, RenewalsOpen, RenewalDue, Unguarded, Holds, Stopped,
       Processes, AcquireRecord, Refused, DropGuard, Unlocked, Unrecorded
  <1>7. QED
    BY <1>2, <1>3, <1>4, <1>5, <1>6 DEF OwnershipInv

LEMMA ProbeKeeps ==
  ASSUME OwnershipInv, NEW p \in Ports, Probe(p) PROVE OwnershipInv'
  <1>1. OwnershipTypeOK /\ GuardKept /\ Undoubted /\ RenewalsOpen /\ RenewalPassed
    BY DEF OwnershipInv
  <1> USE <1>1, GenerationsNat, OwnershipAssumption DEF OwnershipTypeOK, Pc, Go
  <1>p. port[p] \in Processes
    OBVIOUS
  <1>r. Refused(p) \in [Ports -> Processes]
    BY <1>p, ProcessEdits DEF Refused
  <1>g. port' = Refused(p) \/ port' = [port EXCEPT ![p].pc = "recovering"]
    BY DEF Probe
  <1>e. [port[p] EXCEPT !.pc = "recovering"] \in Processes
    BY <1>p, ProcessEdits DEF Opening
  <1>t. port' \in [Ports -> Processes]
    BY <1>p, <1>r, <1>g, <1>e
  <1>2. OwnershipTypeOK'
    BY <1>t DEF Probe, DropGuard, Unlocked, Unrecorded
  <1>3. GuardKept'
    BY <1>2 DEF GuardKept, Unguarded, Stopped, Processes, RenewalsOpen, RenewalDue, Probe,
       Refused, DropGuard, Unlocked, Unrecorded
  <1>4. Undoubted'
    <2>1. \A q \in Ports : q # p => port'[q] = port[q] /\ doubt'[q] = doubt[q]
      BY DEF Probe, DropGuard, Refused
    <2>2. \A q \in Ports : q # p /\ Holds(q) => Holds(q)'
      BY <2>1 DEF Probe, DropGuard, Unlocked, Holds, Processes
    <2>3. \/ port'[p].gen = 0
          \/ port'[p].gen = port[p].gen /\ doubt' = doubt /\ locked' = locked
      BY <1>p DEF Probe, Refused, Stopped, Processes
    <2>4. visible' = visible
      BY DEF Probe
    <2> QED
      BY <2>1, <2>2, <2>3, <2>4 DEF Undoubted, Holds
  <1>q. renewal[p] = "rest" /\ renewal' = renewal /\ visible' = visible
    BY DEF Probe, RenewalsOpen, RenewalDue
  <1>o. \A q \in Ports : q # p => port'[q] = port[q] /\ doubt'[q] = doubt[q]
    BY DEF Probe, DropGuard, Refused
  <1>5. RenewalsOpen'
    BY <1>q, <1>o DEF RenewalsOpen, RenewalDue
  <1>6. RenewalPassed'
    <2>1. \A q \in Ports : q # p /\ Holds(q) => Holds(q)'
      BY <1>o DEF Probe, DropGuard, Unlocked, Holds, Processes
    <2> QED
      BY <1>q, <1>o, <2>1 DEF RenewalPassed
  <1>7. QED
    BY <1>2, <1>3, <1>4, <1>5, <1>6 DEF OwnershipInv

LEMMA BeginRecoveryKeeps ==
  ASSUME OwnershipInv, NEW p \in Ports, BeginRecovery(p) PROVE OwnershipInv'
  <1>1. OwnershipTypeOK /\ GuardKept /\ Undoubted /\ RenewalsOpen /\ RenewalPassed
    BY DEF OwnershipInv
  <1> USE <1>1, GenerationsNat, OwnershipAssumption DEF OwnershipTypeOK, Pc, Go
  <1>p. port[p] \in Processes
    OBVIOUS
  <1>2. OwnershipTypeOK'
    BY <1>p, ProcessEdits DEF Generations, Opening, BeginRecovery
  <1>3. GuardKept'
    BY <1>2 DEF GuardKept, Unguarded, Stopped, Processes, RenewalsOpen, RenewalDue, BeginRecovery
  <1>4. Undoubted'
    BY <1>2 DEF GuardKept, Undoubted, RenewalsOpen, RenewalPassed, RenewalDue, Unguarded, Holds,
       Stopped, Processes, BeginRecovery
  <1>5. RenewalsOpen'
    BY <1>2 DEF RenewalsOpen, RenewalDue, Stopped, Processes, BeginRecovery
  <1>6. RenewalPassed'
    BY <1>2 DEF GuardKept, RenewalPassed, RenewalsOpen, RenewalDue, Unguarded, Holds, Stopped,
       Processes, BeginRecovery
  <1>7. QED
    BY <1>2, <1>3, <1>4, <1>5, <1>6 DEF OwnershipInv

LEMMA SessionsRestoredKeeps ==
  ASSUME OwnershipInv, NEW p \in Ports, SessionsRestored(p) PROVE OwnershipInv'
  <1>1. OwnershipTypeOK /\ GuardKept /\ Undoubted /\ RenewalsOpen /\ RenewalPassed
    BY DEF OwnershipInv
  <1> USE <1>1, GenerationsNat, OwnershipAssumption DEF OwnershipTypeOK, Pc, Go
  <1>p. port[p] \in Processes
    OBVIOUS
  <1>2. OwnershipTypeOK'
    BY <1>p, ProcessEdits DEF Generations, Opening, SessionsRestored
  <1>3. GuardKept'
    BY <1>2 DEF GuardKept, Unguarded, Stopped, Processes, RenewalsOpen, RenewalDue, SessionsRestored
  <1>4. Undoubted'
    BY <1>2 DEF GuardKept, Undoubted, RenewalsOpen, RenewalPassed, RenewalDue, Unguarded, Holds,
       Stopped, Processes, SessionsRestored
  <1>5. RenewalsOpen'
    BY <1>2 DEF RenewalsOpen, RenewalDue, Stopped, Processes, SessionsRestored
  <1>6. RenewalPassed'
    BY <1>2 DEF GuardKept, RenewalPassed, RenewalsOpen, RenewalDue, Unguarded, Holds, Stopped,
       Processes, SessionsRestored
  <1>7. QED
    BY <1>2, <1>3, <1>4, <1>5, <1>6 DEF OwnershipInv

LEMMA EndRecoveryKeeps ==
  ASSUME OwnershipInv, NEW p \in Ports, EndRecovery(p) PROVE OwnershipInv'
  <1>1. OwnershipTypeOK /\ GuardKept /\ Undoubted /\ RenewalsOpen /\ RenewalPassed
    BY DEF OwnershipInv
  <1> USE <1>1, GenerationsNat, OwnershipAssumption DEF OwnershipTypeOK, Pc, Go
  <1>p. port[p] \in Processes
    OBVIOUS
  <1>2. OwnershipTypeOK'
    BY <1>p, ProcessEdits DEF Generations, Opening, EndRecovery
  <1>3. GuardKept'
    BY <1>2 DEF GuardKept, Unguarded, Stopped, Processes, RenewalsOpen, RenewalDue, EndRecovery
  <1>4. Undoubted'
    BY <1>2 DEF GuardKept, Undoubted, RenewalsOpen, RenewalPassed, RenewalDue, Unguarded, Holds,
       Stopped, Processes, EndRecovery
  <1>5. RenewalsOpen'
    BY <1>2 DEF RenewalsOpen, RenewalDue, Stopped, Processes, EndRecovery
  <1>6. RenewalPassed'
    BY <1>2 DEF GuardKept, RenewalPassed, RenewalsOpen, RenewalDue, Unguarded, Holds, Stopped,
       Processes, EndRecovery
  <1>7. QED
    BY <1>2, <1>3, <1>4, <1>5, <1>6 DEF OwnershipInv

LEMMA RecoveryFailsKeeps ==
  ASSUME OwnershipInv, NEW p \in Ports, RecoveryFails(p) PROVE OwnershipInv'
  <1>1. OwnershipTypeOK /\ GuardKept /\ Undoubted /\ RenewalsOpen /\ RenewalPassed
    BY DEF OwnershipInv
  <1> USE <1>1, GenerationsNat, OwnershipAssumption DEF OwnershipTypeOK, Pc, Go
  <1>p. port[p] \in Processes
    OBVIOUS
  <1>2. OwnershipTypeOK'
    BY <1>p, ProcessEdits DEF Generations, Opening, RecoveryFails, DropGuard, Unlocked, Unrecorded
  <1>3. GuardKept'
    BY <1>2 DEF GuardKept, Unguarded, Stopped, Processes, RenewalsOpen, RenewalDue, RecoveryFails,
       DropGuard, Unlocked, Unrecorded
  <1>4. Undoubted'
    BY <1>2 DEF GuardKept, Undoubted, RenewalsOpen, RenewalPassed, RenewalDue, Unguarded, Holds,
       Stopped, Processes, RecoveryFails, DropGuard, Unlocked, Unrecorded
  <1>5. RenewalsOpen'
    BY <1>2 DEF RenewalsOpen, RenewalDue, Stopped, Processes, RecoveryFails, DropGuard, Unlocked,
       Unrecorded
  <1>6. RenewalPassed'
    BY <1>2 DEF GuardKept, RenewalPassed, RenewalsOpen, RenewalDue, Unguarded, Holds, Stopped,
       Processes, RecoveryFails, DropGuard, Unlocked, Unrecorded
  <1>7. QED
    BY <1>2, <1>3, <1>4, <1>5, <1>6 DEF OwnershipInv

LEMMA InstallKeeps ==
  ASSUME OwnershipInv, NEW p \in Ports, Install(p) PROVE OwnershipInv'
  <1>1. OwnershipTypeOK /\ GuardKept /\ Undoubted /\ RenewalsOpen /\ RenewalPassed
    BY DEF OwnershipInv
  <1> USE <1>1, GenerationsNat, OwnershipAssumption DEF OwnershipTypeOK, Pc, Go
  <1>p. port[p] \in Processes
    OBVIOUS
  <1>2. OwnershipTypeOK'
    BY <1>p, ProcessEdits DEF Generations, Opening, Install
  <1>3. GuardKept'
    BY <1>2 DEF GuardKept, Unguarded, Stopped, Processes, RenewalsOpen, RenewalDue, Install
  <1>4. Undoubted'
    BY <1>2 DEF GuardKept, Undoubted, RenewalsOpen, RenewalPassed, RenewalDue, Unguarded, Holds,
       Stopped, Processes, Install
  <1>5. RenewalsOpen'
    BY <1>2 DEF RenewalsOpen, RenewalDue, Stopped, Processes, Install
  <1>6. RenewalPassed'
    BY <1>2 DEF GuardKept, RenewalPassed, RenewalsOpen, RenewalDue, Unguarded, Holds, Stopped,
       Processes, Install
  <1>7. QED
    BY <1>2, <1>3, <1>4, <1>5, <1>6 DEF OwnershipInv

LEMMA BeginRenewalKeeps ==
  ASSUME OwnershipInv, NEW p \in Ports, BeginRenewal(p) PROVE OwnershipInv'
  <1>1. OwnershipTypeOK /\ GuardKept /\ Undoubted /\ RenewalsOpen /\ RenewalPassed
    BY DEF OwnershipInv
  <1> USE <1>1, GenerationsNat, OwnershipAssumption DEF OwnershipTypeOK, Pc, Go
  <1>p. port[p] \in Processes
    OBVIOUS
  <1>2. OwnershipTypeOK'
    BY <1>p, ProcessEdits DEF Generations, Opening, BeginRenewal
  <1>3. GuardKept'
    BY <1>2 DEF GuardKept, Unguarded, Stopped, Processes, RenewalsOpen, RenewalDue, BeginRenewal
  <1>4. Undoubted'
    BY <1>2 DEF GuardKept, Undoubted, RenewalsOpen, RenewalPassed, RenewalDue, Unguarded, Holds,
       Stopped, Processes, BeginRenewal
  <1>5. RenewalsOpen'
    BY <1>2 DEF RenewalsOpen, RenewalDue, Stopped, Processes, BeginRenewal
  <1>6. RenewalPassed'
    BY <1>2 DEF GuardKept, RenewalPassed, RenewalsOpen, RenewalDue, Unguarded, Holds, Stopped,
       Processes, BeginRenewal
  <1>7. QED
    BY <1>2, <1>3, <1>4, <1>5, <1>6 DEF OwnershipInv

LEMMA RenewCurrentKeeps ==
  ASSUME OwnershipInv, NEW p \in Ports, RenewCurrent(p) PROVE OwnershipInv'
  <1>1. OwnershipTypeOK /\ GuardKept /\ Undoubted /\ RenewalsOpen /\ RenewalPassed
    BY DEF OwnershipInv
  <1> USE <1>1, GenerationsNat, OwnershipAssumption DEF OwnershipTypeOK, Pc, Go
  <1>p. port[p] \in Processes
    OBVIOUS
  <1>2. OwnershipTypeOK'
    BY <1>p, ProcessEdits DEF Generations, Opening, RenewCurrent, RenewStep
  <1>3. GuardKept'
    BY <1>2 DEF GuardKept, Unguarded, Stopped, Processes, RenewalsOpen, RenewalDue, RenewCurrent,
       RenewStep
  <1>4. Undoubted'
    BY <1>2 DEF GuardKept, Undoubted, RenewalsOpen, RenewalPassed, RenewalDue, Unguarded, Holds,
       Stopped, Processes, RenewCurrent, RenewStep
  <1>5. RenewalsOpen'
    BY <1>2 DEF RenewalsOpen, RenewalDue, Stopped, Processes, RenewCurrent, RenewStep
  <1>6. RenewalPassed'
    BY <1>2 DEF GuardKept, RenewalPassed, RenewalsOpen, RenewalDue, Unguarded, Holds, Stopped,
       Processes, RenewCurrent, RenewStep
  <1>7. QED
    BY <1>2, <1>3, <1>4, <1>5, <1>6 DEF OwnershipInv

LEMMA RenewNamespaceKeeps ==
  ASSUME OwnershipInv, NEW p \in Ports, RenewNamespace(p) PROVE OwnershipInv'
  <1>1. OwnershipTypeOK /\ GuardKept /\ Undoubted /\ RenewalsOpen /\ RenewalPassed
    BY DEF OwnershipInv
  <1> USE <1>1, GenerationsNat, OwnershipAssumption DEF OwnershipTypeOK, Pc, Go
  <1>p. port[p] \in Processes
    OBVIOUS
  <1>2. OwnershipTypeOK'
    BY <1>p, ProcessEdits DEF Generations, Opening, RenewNamespace, RenewStep
  <1>3. GuardKept'
    BY <1>2 DEF GuardKept, Unguarded, Stopped, Processes, RenewalsOpen, RenewalDue,
       RenewNamespace, RenewStep
  <1>4. Undoubted'
    BY <1>2 DEF GuardKept, Undoubted, RenewalsOpen, RenewalPassed, RenewalDue, Unguarded, Holds,
       Stopped, Processes, RenewNamespace, RenewStep
  <1>5. RenewalsOpen'
    BY <1>2 DEF RenewalsOpen, RenewalDue, Stopped, Processes, RenewNamespace, RenewStep
  <1>6. RenewalPassed'
    BY <1>2 DEF GuardKept, RenewalPassed, RenewalsOpen, RenewalDue, Unguarded, Holds, Stopped,
       Processes, RenewNamespace, RenewStep
  <1>7. QED
    BY <1>2, <1>3, <1>4, <1>5, <1>6 DEF OwnershipInv

LEMMA RenewLockKeeps ==
  ASSUME OwnershipInv, NEW p \in Ports, RenewLock(p) PROVE OwnershipInv'
  <1>1. OwnershipTypeOK /\ GuardKept /\ Undoubted /\ RenewalsOpen /\ RenewalPassed
    BY DEF OwnershipInv
  <1> USE <1>1, GenerationsNat, OwnershipAssumption DEF OwnershipTypeOK, Pc, Go
  <1>p. port[p] \in Processes
    OBVIOUS
  <1>2. OwnershipTypeOK'
    BY <1>p, ProcessEdits DEF Generations, Opening, RenewLock, RenewStep
  <1>3. GuardKept'
    BY <1>2 DEF GuardKept, Unguarded, Stopped, Processes, RenewalsOpen, RenewalDue, RenewLock,
       RenewStep
  <1>4. Undoubted'
    BY <1>2 DEF GuardKept, Undoubted, RenewalsOpen, RenewalPassed, RenewalDue, Unguarded, Holds,
       Stopped, Processes, RenewLock, RenewStep
  <1>5. RenewalsOpen'
    BY <1>2 DEF RenewalsOpen, RenewalDue, Stopped, Processes, RenewLock, RenewStep
  <1>6. RenewalPassed'
    BY <1>2 DEF GuardKept, RenewalPassed, RenewalsOpen, RenewalDue, Unguarded, Holds, Stopped,
       Processes, RenewLock, RenewStep
  <1>7. QED
    BY <1>2, <1>3, <1>4, <1>5, <1>6 DEF OwnershipInv

LEMMA RenewReadKeeps ==
  ASSUME OwnershipInv, NEW p \in Ports, RenewRead(p) PROVE OwnershipInv'
  <1>1. OwnershipTypeOK /\ GuardKept /\ Undoubted /\ RenewalsOpen /\ RenewalPassed
    BY DEF OwnershipInv
  <1> USE <1>1, GenerationsNat, OwnershipAssumption DEF OwnershipTypeOK, Pc, Go
  <1>p. port[p] \in Processes
    OBVIOUS
  <1>2. OwnershipTypeOK'
    BY <1>p, ProcessEdits DEF Generations, Opening, RenewRead, RenewStep
  <1>3. GuardKept'
    BY <1>2 DEF GuardKept, Unguarded, Stopped, Processes, RenewalsOpen, RenewalDue, RenewRead,
       RenewStep
  <1>4. Undoubted'
    BY <1>2 DEF GuardKept, Undoubted, RenewalsOpen, RenewalPassed, RenewalDue, Unguarded, Holds,
       Stopped, Processes, RenewRead, RenewStep
  <1>5. RenewalsOpen'
    BY <1>2 DEF RenewalsOpen, RenewalDue, Stopped, Processes, RenewRead, RenewStep
  <1>6. RenewalPassed'
    BY <1>2 DEF GuardKept, RenewalPassed, RenewalsOpen, RenewalDue, Unguarded, Holds, Stopped,
       Processes, RenewRead, RenewStep
  <1>7. QED
    BY <1>2, <1>3, <1>4, <1>5, <1>6 DEF OwnershipInv

LEMMA RenewWriteKeeps ==
  ASSUME OwnershipInv, NEW p \in Ports, RenewWrite(p) PROVE OwnershipInv'
  <1>1. OwnershipTypeOK /\ GuardKept /\ Undoubted /\ RenewalsOpen /\ RenewalPassed
    BY DEF OwnershipInv
  <1> USE <1>1, GenerationsNat, OwnershipAssumption DEF OwnershipTypeOK, Pc, Go
  <1>p. port[p] \in Processes
    OBVIOUS
  <1>2. OwnershipTypeOK'
    BY <1>p, ProcessEdits DEF Generations, Opening, RenewWrite
  <1>3. GuardKept'
    BY <1>2 DEF GuardKept, Unguarded, Stopped, Processes, RenewalsOpen, RenewalDue, RenewWrite
  <1>4. Undoubted'
    BY <1>2 DEF GuardKept, Undoubted, RenewalsOpen, RenewalPassed, RenewalDue, Unguarded, Holds,
       Stopped, Processes, RenewWrite
  <1>5. RenewalsOpen'
    BY <1>2 DEF RenewalsOpen, RenewalDue, Stopped, Processes, RenewWrite
  <1>6. RenewalPassed'
    BY <1>2 DEF GuardKept, RenewalPassed, RenewalsOpen, RenewalDue, Unguarded, Holds, Stopped,
       Processes, RenewWrite
  <1>7. QED
    BY <1>2, <1>3, <1>4, <1>5, <1>6 DEF OwnershipInv

LEMMA KeeperStopsKeeps ==
  ASSUME OwnershipInv, NEW p \in Ports, KeeperStops(p) PROVE OwnershipInv'
  <1>1. OwnershipTypeOK /\ GuardKept /\ Undoubted /\ RenewalsOpen /\ RenewalPassed
    BY DEF OwnershipInv
  <1> USE <1>1, GenerationsNat, OwnershipAssumption DEF OwnershipTypeOK, Pc, Go
  <1>p. port[p] \in Processes
    OBVIOUS
  <1>2. OwnershipTypeOK'
    BY <1>p, ProcessEdits DEF Generations, Opening, KeeperStops
  <1>3. GuardKept'
    BY <1>2 DEF GuardKept, Unguarded, Stopped, Processes, RenewalsOpen, RenewalDue, KeeperStops
  <1>4. Undoubted'
    BY <1>2 DEF GuardKept, Undoubted, RenewalsOpen, RenewalPassed, RenewalDue, Unguarded, Holds,
       Stopped, Processes, KeeperStops
  <1>5. RenewalsOpen'
    BY <1>2 DEF RenewalsOpen, RenewalDue, Stopped, Processes, KeeperStops
  <1>6. RenewalPassed'
    BY <1>2 DEF GuardKept, RenewalPassed, RenewalsOpen, RenewalDue, Unguarded, Holds, Stopped,
       Processes, KeeperStops
  <1>7. QED
    BY <1>2, <1>3, <1>4, <1>5, <1>6 DEF OwnershipInv

LEMMA KeeperExitsKeeps ==
  ASSUME OwnershipInv, NEW p \in Ports, KeeperExits(p) PROVE OwnershipInv'
  <1>1. OwnershipTypeOK /\ GuardKept /\ Undoubted /\ RenewalsOpen /\ RenewalPassed
    BY DEF OwnershipInv
  <1> USE <1>1, GenerationsNat, OwnershipAssumption DEF OwnershipTypeOK, Pc, Go
  <1>p. port[p] \in Processes
    OBVIOUS
  <1>2. OwnershipTypeOK'
    BY <1>p, ProcessEdits DEF Generations, Opening, KeeperExits, ProcessEnds, Unlocked
  <1>3. GuardKept'
    BY <1>2 DEF GuardKept, Unguarded, Stopped, Processes, RenewalsOpen, RenewalDue, KeeperExits,
       ProcessEnds, Unlocked
  <1>4. Undoubted'
    BY <1>2 DEF GuardKept, Undoubted, RenewalsOpen, RenewalPassed, RenewalDue, Unguarded, Holds,
       Stopped, Processes, KeeperExits, ProcessEnds, Unlocked
  <1>5. RenewalsOpen'
    BY <1>2 DEF RenewalsOpen, RenewalDue, Stopped, Processes, KeeperExits, ProcessEnds, Unlocked
  <1>6. RenewalPassed'
    BY <1>2 DEF GuardKept, RenewalPassed, RenewalsOpen, RenewalDue, Unguarded, Holds, Stopped,
       Processes, KeeperExits, ProcessEnds, Unlocked
  <1>7. QED
    BY <1>2, <1>3, <1>4, <1>5, <1>6 DEF OwnershipInv

LEMMA BootEndsKeeps ==
  ASSUME OwnershipInv, NEW p \in Ports, BootEnds(p) PROVE OwnershipInv'
  <1>1. OwnershipTypeOK /\ GuardKept /\ Undoubted /\ RenewalsOpen /\ RenewalPassed
    BY DEF OwnershipInv
  <1> USE <1>1, GenerationsNat, OwnershipAssumption DEF OwnershipTypeOK, Pc, Go
  <1>p. port[p] \in Processes
    OBVIOUS
  <1>2. OwnershipTypeOK'
    BY <1>p, ProcessEdits DEF Generations, Opening, BootEnds, ProcessEnds, Unlocked
  <1>3. GuardKept'
    BY <1>2 DEF GuardKept, Unguarded, Stopped, Processes, RenewalsOpen, RenewalDue, BootEnds,
       ProcessEnds, Unlocked
  <1>4. Undoubted'
    BY <1>2 DEF GuardKept, Undoubted, RenewalsOpen, RenewalPassed, RenewalDue, Unguarded, Holds,
       Stopped, Processes, BootEnds, ProcessEnds, Unlocked
  <1>5. RenewalsOpen'
    BY <1>2 DEF RenewalsOpen, RenewalDue, Stopped, Processes, BootEnds, ProcessEnds, Unlocked
  <1>6. RenewalPassed'
    BY <1>2 DEF GuardKept, RenewalPassed, RenewalsOpen, RenewalDue, Unguarded, Holds, Stopped,
       Processes, BootEnds, ProcessEnds, Unlocked
  <1>7. QED
    BY <1>2, <1>3, <1>4, <1>5, <1>6 DEF OwnershipInv

LEMMA ProcessDiesKeeps ==
  ASSUME OwnershipInv, NEW p \in Ports, ProcessDies(p) PROVE OwnershipInv'
  <1>1. OwnershipTypeOK /\ GuardKept /\ Undoubted /\ RenewalsOpen /\ RenewalPassed
    BY DEF OwnershipInv
  <1> USE <1>1, GenerationsNat, OwnershipAssumption DEF OwnershipTypeOK, Pc, Go
  <1>p. port[p] \in Processes
    OBVIOUS
  <1>f. faultsLeft' \in 0 .. MaxStorageFaults
    BY DEF ProcessDies, Strikes
  <1>t. port' \in [Ports -> Processes]
    BY <1>p, ProcessEdits DEF ProcessDies, ProcessEnds
  <1>2. OwnershipTypeOK'
    BY <1>f, <1>t DEF ProcessDies, ProcessEnds, Unlocked
  <1>3. GuardKept'
    BY <1>2 DEF GuardKept, Unguarded, Stopped, Processes, RenewalsOpen, RenewalDue, ProcessDies,
       Strikes, ProcessEnds, Unlocked
  <1>4. Undoubted'
    BY <1>2 DEF GuardKept, Undoubted, RenewalsOpen, RenewalPassed, RenewalDue, Unguarded, Holds,
       Stopped, Processes, ProcessDies, Strikes, ProcessEnds, Unlocked
  <1>5. RenewalsOpen'
    BY <1>2 DEF RenewalsOpen, RenewalDue, Stopped, Processes, ProcessDies, Strikes, ProcessEnds,
       Unlocked
  <1>6. RenewalPassed'
    BY <1>2 DEF GuardKept, RenewalPassed, RenewalsOpen, RenewalDue, Unguarded, Holds, Stopped,
       Processes, ProcessDies, Strikes, ProcessEnds, Unlocked
  <1>7. QED
    BY <1>2, <1>3, <1>4, <1>5, <1>6 DEF OwnershipInv

LEMMA LockLostKeeps ==
  ASSUME OwnershipInv, NEW p \in Ports, LockLost(p) PROVE OwnershipInv'
  <1>1. OwnershipTypeOK /\ GuardKept /\ Undoubted /\ RenewalsOpen /\ RenewalPassed
    BY DEF OwnershipInv
  <1> USE <1>1, GenerationsNat, OwnershipAssumption DEF OwnershipTypeOK, Pc, Go
  <1>p. port[p] \in Processes
    OBVIOUS
  <1>f. faultsLeft' \in 0 .. MaxStorageFaults
    BY DEF LockLost, Strikes
  <1>t. port' \in [Ports -> Processes]
    BY <1>p, ProcessEdits DEF LockLost
  <1>2. OwnershipTypeOK'
    BY <1>f, <1>t DEF LockLost, Doubtful, Unlocked
  <1>3. GuardKept'
    BY <1>2 DEF GuardKept, Holds, Doubtful, LockLost
  <1>4. Undoubted'
    BY <1>2 DEF GuardKept, Undoubted, RenewalsOpen, RenewalPassed, RenewalDue, Unguarded, Holds,
       Stopped, Processes, LockLost, Strikes, Doubtful, Unlocked
  <1>5. RenewalsOpen'
    BY <1>2 DEF RenewalsOpen, RenewalDue, Stopped, Processes, LockLost, Strikes, Doubtful, Unlocked
  <1>6. RenewalPassed'
    BY <1>2 DEF GuardKept, RenewalPassed, RenewalsOpen, RenewalDue, Unguarded, Holds, Stopped,
       Processes, LockLost, Strikes, Doubtful, Unlocked
  <1>7. QED
    BY <1>2, <1>3, <1>4, <1>5, <1>6 DEF OwnershipInv

LEMMA MountLostKeeps ==
  ASSUME OwnershipInv, NEW p \in Ports, MountLost(p) PROVE OwnershipInv'
  <1>1. OwnershipTypeOK /\ GuardKept /\ Undoubted /\ RenewalsOpen /\ RenewalPassed
    BY DEF OwnershipInv
  <1> USE <1>1, GenerationsNat, OwnershipAssumption DEF OwnershipTypeOK, Pc, Go
  <1>p. port[p] \in Processes
    OBVIOUS
  <1>f. faultsLeft' \in 0 .. MaxStorageFaults
    BY DEF MountLost, Strikes
  <1>t. port' \in [Ports -> Processes]
    BY <1>p, ProcessEdits DEF MountLost
  <1>2. OwnershipTypeOK'
    BY <1>f, <1>t DEF MountLost
  <1>3. GuardKept'
    BY <1>2 DEF GuardKept, Unguarded, Stopped, Processes, RenewalsOpen, RenewalDue, MountLost,
       Strikes
  <1>4. Undoubted'
    BY <1>2 DEF GuardKept, Undoubted, RenewalsOpen, RenewalPassed, RenewalDue, Unguarded, Holds,
       Stopped, Processes, MountLost, Strikes
  <1>5. RenewalsOpen'
    BY <1>2 DEF RenewalsOpen, RenewalDue, Stopped, Processes, MountLost, Strikes
  <1>6. RenewalPassed'
    BY <1>2 DEF GuardKept, RenewalPassed, RenewalsOpen, RenewalDue, Unguarded, Holds, Stopped,
       Processes, MountLost, Strikes
  <1>7. QED
    BY <1>2, <1>3, <1>4, <1>5, <1>6 DEF OwnershipInv

LEMMA MountReturnsKeeps ==
  ASSUME OwnershipInv, NEW p \in Ports, MountReturns(p) PROVE OwnershipInv'
  <1>1. OwnershipTypeOK /\ GuardKept /\ Undoubted /\ RenewalsOpen /\ RenewalPassed
    BY DEF OwnershipInv
  <1> USE <1>1, GenerationsNat, OwnershipAssumption DEF OwnershipTypeOK, Pc, Go
  <1>p. port[p] \in Processes
    OBVIOUS
  <1>2. OwnershipTypeOK'
    BY <1>p, ProcessEdits DEF Generations, Opening, MountReturns
  <1>3. GuardKept'
    BY <1>2 DEF GuardKept, Unguarded, Stopped, Processes, RenewalsOpen, RenewalDue, MountReturns
  <1>4. Undoubted'
    BY <1>2 DEF GuardKept, Undoubted, RenewalsOpen, RenewalPassed, RenewalDue, Unguarded, Holds,
       Stopped, Processes, MountReturns
  <1>5. RenewalsOpen'
    BY <1>2 DEF RenewalsOpen, RenewalDue, Stopped, Processes, MountReturns
  <1>6. RenewalPassed'
    BY <1>2 DEF GuardKept, RenewalPassed, RenewalsOpen, RenewalDue, Unguarded, Holds, Stopped,
       Processes, MountReturns
  <1>7. QED
    BY <1>2, <1>3, <1>4, <1>5, <1>6 DEF OwnershipInv

LEMMA OwnershipStepInv == OwnershipInv /\ [OwnershipNext]_ovars => OwnershipInv'
  <1>1. ASSUME OwnershipInv, UNCHANGED ovars PROVE OwnershipInv'
    BY <1>1 DEF ovars, OwnershipInv, OwnershipTypeOK, GuardKept, Undoubted, RenewalsOpen,
       RenewalPassed, RenewalDue, Holds
  <1>2. QED
    BY <1>1, FolderReplacedKeeps, StartProcessKeeps, CheckStorageKeeps, AcquireLockKeeps,
       AcquireRecordKeeps, ProbeKeeps, BeginRecoveryKeeps, SessionsRestoredKeeps,
       EndRecoveryKeeps, RecoveryFailsKeeps, InstallKeeps, BeginRenewalKeeps, RenewCurrentKeeps,
       RenewNamespaceKeeps, RenewLockKeeps, RenewReadKeeps, RenewWriteKeeps, KeeperStopsKeeps,
       BootEndsKeeps, KeeperExitsKeeps, ProcessDiesKeeps, LockLostKeeps, MountLostKeeps, MountReturnsKeeps
    DEF OwnershipNext

\* Guard, lease_keeper: a port with workers that may write has the storage's
\* lock in the folder a path reaches, unless it was taken since its last renewal
\* began, or its opening failed and left workers behind, which are stopped;
\* whatever the ports and however often locks, folders and mounts are lost.
THEOREM OwnershipKept == OwnershipSpec => []OwnershipHolds
  <1>1. OwnershipInv => OwnershipHolds
    BY DEF OwnershipInv, OwnershipHolds, WritersOwn, Undoubted, GuardKept, MayWrite, Leftover,
       Unguarded
  <1>2. QED
    BY OwnershipInitInv, OwnershipStepInv, <1>1, PTL DEF OwnershipSpec

------------------------------------------------------------------------------
\* Accounts.

Stages == {"idle", "away", "discover", "exchange", "claims", "provisioned", "grants", "upsert", "issue"}
Onward == {"idle", "away", "exchange"}
SignInRecords ==
  [pc : Stages, then : Onward, key : 0 .. 2, desktop : BOOLEAN, grouped : BOOLEAN, id : Identities]
VisitRecords ==
  [pc : {"idle", "admitted", "operating", "acting", "changing", "changed", "minting"}, id : Identities]
TokenRecords ==
  [n : 1 .. MaxTokens, by : Subjects \cup {Local}, live : BOOLEAN, era : 0 .. MaxRevocations,
   born : 0 .. MaxRevocations]
\* The values of the variables, in full.
RowTypes ==
  /\ principal \in [Subjects -> [row : BOOLEAN, cv : Versions, blocked : BOOLEAN]]
  /\ tomb \in [Subjects -> Versions] /\ revoked \in [Subjects -> 0 .. MaxRevocations]
PortTypes ==
  /\ topic \in Topics /\ members \subseteq Subjects
  /\ tenant \in [now : 0 .. MaxIncarnations, last : 0 .. MaxIncarnations]
  /\ removal \in {"none", "pinned", "idle", "purging"}
  /\ password \in 1 .. MaxPasswords \cup {1}
  /\ slot \in [state : {"empty", "discovering", "ready", "failed", "cooled"}, key : 0 .. 2]
  /\ idpKey \in 1 .. 2
SignInTypes == signin \in [SignIns -> SignInRecords]
VisitTypes == visit \in [Visits -> VisitRecords]
CookieTypes == handoffs \subseteq Identities /\ cookies \subseteq [id : Identities, password : Nat]
TokenTypes == tokens \subseteq TokenRecords
AccountsTypes == RowTypes /\ PortTypes /\ SignInTypes /\ VisitTypes /\ CookieTypes /\ TokenTypes

\* The version of a row, or of the tombstone it left, is bounded by the
\* revocations: every creation needs a purge, and a purge a revocation.
VersionsHeld ==
  \A s \in Subjects :
    /\ principal[s].row => 1 <= principal[s].cv /\ principal[s].cv <= 2 * revoked[s] + 1
    /\ principal[s].row /\ principal[s].blocked => principal[s].cv <= 2 * revoked[s]
    /\ ~principal[s].row => tomb[s] <= 2 * revoked[s]

\* What the rows say of an identity that was handed out: its version was the
\* subject's at some time, and is the present one only if no revocation came since.
Vouched(id) ==
  /\ id.who = id.subject
  /\ id.subject # Local =>
       /\ 1 <= id.cv
       /\ id.era <= revoked[id.subject]
       /\ principal[id.subject].row =>
            /\ id.cv <= principal[id.subject].cv
            /\ id.cv = principal[id.subject].cv => id.era = revoked[id.subject]
       /\ ~principal[id.subject].row => id.cv <= tomb[id.subject]
IssuingVouched == \A f \in SignIns : At(f, "issue") => Vouched(signin[f].id)
VisitsVouched == \A v \in Visits : Vouched(visit[v].id)
HandoffsVouched == \A id \in handoffs : Vouched(id)
CookiesVouched == \A c \in cookies : Vouched(c.id)
IdentitiesVouched == IssuingVouched /\ VisitsVouched /\ HandoffsVouched /\ CookiesVouched
\* A sign-in has a subject before it has a row.
SubjectsNamed ==
  \A f \in SignIns :
    signin[f].pc \in {"claims", "provisioned", "grants", "upsert"} =>
      signin[f].id.subject \in Subjects /\ signin[f].id.who = signin[f].id.subject

TokensHeld ==
  /\ \A t \in LiveTokens : t.by # Local => t.born = revoked[t.by] /\ t.era <= t.born
  /\ IsFiniteSet(LiveTokens) /\ Cardinality(LiveTokens) <= TokenCap

\* A request that acts in the tenant keeps its removal out from its operation
\* on, and acts in the incarnation it was granted.
Tenancy ==
  \A v \in Visits : visit[v].id.acts = "tenant" =>
    /\ visit[v].pc \notin {"idle", "admitted"} => removal \notin {"idle", "purging"}
    /\ visit[v].pc \notin {"idle", "admitted", "operating"} =>
         visit[v].id.grant = tenant.now /\ tenant.now # 0

AccountsInv ==
  /\ AccountsTypes /\ VersionsHeld /\ IdentitiesVouched /\ SubjectsNamed /\ TokensHeld /\ Tenancy
  /\ DiscoveryClaimed

----------------------------------------------------------------------------
LEMMA AccountsBounds ==
  /\ TokenCap \in Nat /\ MaxRevocations \in Nat /\ MaxIncarnations \in Nat \ {0}
  /\ MaxPasswords \in Nat /\ MaxTokens \in Nat
  BY AccountsAssumption

LEMMA TopicNamed ==
  ASSUME AccountsInv
  PROVE  /\ topic.signins \subseteq SignIns /\ topic.visits \subseteq Visits
         /\ topic.claims \subseteq BOOLEAN /\ topic.revocations \in 0 .. MaxRevocations
  BY AccountsAssumption DEF AccountsInv, AccountsTypes, PortTypes

LEMMA LocalAdminNamed == LocalAdmin \in Identities /\ LocalAdmin.subject = Local /\ LocalAdmin.who = Local
  BY AccountsBounds DEF LocalAdmin, Identities, Versions

LEMMA NoneNamed == NotSigning \in SignInRecords /\ NotVisiting \in VisitRecords
  BY LocalAdminNamed DEF NotSigning, NotVisiting, SignInRecords, VisitRecords, Stages, Onward

LEMMA AccountsInitInv == AccountsInit => AccountsInv
<1> SUFFICES ASSUME AccountsInit PROVE AccountsInv
  OBVIOUS
<1>1. NotSigning \in SignInRecords /\ NotVisiting \in VisitRecords /\ Vouched(LocalAdmin)
  BY LocalAdminNamed, NoneNamed DEF Vouched
<1>2. LiveTokens = {} /\ IsFiniteSet(LiveTokens) /\ Cardinality(LiveTokens) = 0
  BY FS_EmptySet DEF AccountsInit, LiveTokens
<1>3. AccountsTypes
  <2>1. /\ signin \in [SignIns -> SignInRecords] /\ visit \in [Visits -> VisitRecords]
    BY <1>1 DEF AccountsInit
  <2>2. /\ topic \in Topics /\ handoffs = {} /\ cookies = {} /\ tokens = {} /\ members = {}
        /\ removal = "none" /\ password = 1 /\ idpKey = 1
    BY DEF AccountsInit
  <2>3. /\ principal \in [Subjects -> [row : BOOLEAN, cv : Versions, blocked : BOOLEAN]]
        /\ tomb \in [Subjects -> Versions] /\ revoked \in [Subjects -> 0 .. MaxRevocations]
    BY AccountsBounds DEF AccountsInit, NoRow, Versions
  <2>4. slot \in [state : {"empty", "discovering", "ready", "failed", "cooled"}, key : 0 .. 2]
    BY DEF AccountsInit
  <2>5. tenant \in [now : 0 .. MaxIncarnations, last : 0 .. MaxIncarnations]
    BY AccountsBounds DEF AccountsInit
  <2>6. QED
    BY <2>1, <2>2, <2>3, <2>4, <2>5
    DEF AccountsTypes, RowTypes, PortTypes, SignInTypes, VisitTypes, CookieTypes, TokenTypes
<1>4. IdentitiesVouched /\ SubjectsNamed
  BY <1>1 DEF AccountsInit, IdentitiesVouched, IssuingVouched, VisitsVouched, HandoffsVouched,
      CookiesVouched, SubjectsNamed, NotSigning, NotVisiting, At
<1>5. VersionsHeld /\ Tenancy /\ DiscoveryClaimed
  BY AccountsBounds
  DEF AccountsInit, VersionsHeld, Tenancy, DiscoveryClaimed, NoRow, NotVisiting, LocalAdmin
<1>6. TokensHeld
  BY <1>2, AccountsBounds DEF TokensHeld
<1>7. QED
  BY <1>3, <1>4, <1>5, <1>6 DEF AccountsInv


\* What one step may do to the row, the tombstone and the revocations of a
\* subject: keep them or unblock, revoke, purge, create.
Advances ==
  \A s \in Subjects :
    \/ /\ principal'[s].row = principal[s].row
       /\ principal[s].row => principal'[s].cv = principal[s].cv
       /\ principal'[s].row /\ principal'[s].blocked => principal[s].blocked
       /\ ~principal[s].row => tomb'[s] = tomb[s]
       /\ revoked'[s] = revoked[s]
    \/ /\ principal[s].row /\ principal'[s].row /\ principal'[s].cv = principal[s].cv + 1
       /\ revoked'[s] = revoked[s] + 1 /\ revoked'[s] <= MaxRevocations
    \/ /\ principal[s].row /\ principal[s].blocked /\ ~principal'[s].row
       /\ tomb'[s] = principal[s].cv /\ revoked'[s] = revoked[s]
    \/ /\ ~principal[s].row /\ principal'[s].row /\ ~principal'[s].blocked
       /\ principal'[s].cv = tomb[s] + 1 /\ revoked'[s] = revoked[s]


LEMMA FreshVersions ==
  ASSUME AccountsInv, NEW s \in Subjects PROVE FreshVersion(s) = tomb[s] + 1
  BY DEF AccountsInv, AccountsTypes, RowTypes, Versions, FreshVersion

LEMMA RowsAdvance == AccountsInv /\ [AccountsNext]_avars => Advances
<1> SUFFICES ASSUME AccountsInv, [AccountsNext]_avars PROVE Advances
  OBVIOUS
<1>1. /\ topic.signins \subseteq SignIns /\ topic.visits \subseteq Visits
     /\ topic.revocations \in 0 .. MaxRevocations /\ topic.claims \subseteq BOOLEAN
     /\ principal \in [Subjects -> [row : BOOLEAN, cv : Versions, blocked : BOOLEAN]]
     /\ tomb \in [Subjects -> Versions] /\ revoked \in [Subjects -> 0 .. MaxRevocations]
     /\ Versions \subseteq Nat
  BY TopicNamed, AccountsBounds, LocalAdminNamed, NoneNamed DEF AccountsInv, AccountsTypes, PortTypes, RowTypes, Versions
<1>2. CASE UNCHANGED <<principal, tomb, revoked>>
  BY <1>1, <1>2, AccountsBounds DEF Advances
<1>3. CASE CooldownPasses
  BY <1>3, <1>2 DEF CooldownPasses
<1>4. CASE KeyRolls
  BY <1>4, <1>2 DEF KeyRolls
<1>5. ASSUME NEW f \in SignIns, NEW d \in BOOLEAN, SsoStart(f, d) PROVE Advances
  BY <1>5, <1>2 DEF SsoStart
<1>6. ASSUME NEW f \in SignIns, Discovered(f) PROVE Advances
  BY <1>6, <1>2 DEF Discovered
<1>7. ASSUME NEW f \in SignIns, SsoCallback(f) PROVE Advances
  BY <1>7, <1>2 DEF SsoCallback
<1>8. ASSUME NEW f \in SignIns, TokenExchange(f) PROVE Advances
  BY <1>8, <1>2 DEF TokenExchange
<1>9. ASSUME NEW f \in SignIns, MergeGroups(f) PROVE Advances
  BY <1>9, <1>2 DEF MergeGroups
<1>10. ASSUME NEW f \in SignIns, CheckProvisioned(f) PROVE Advances
  BY <1>10, <1>2 DEF CheckProvisioned
<1>11. ASSUME NEW f \in SignIns, ReadTenants(f) PROVE Advances
  BY <1>11, <1>2 DEF ReadTenants
<1>12. ASSUME NEW f \in SignIns, FinishLogin(f) PROVE Advances
  <2> DEFINE u == signin[f].id.subject
  <2>1. u \in Subjects
    BY <1>1, <1>12 DEF FinishLogin, At, SubjectsNamed, AccountsInv
  <2>2. /\ principal' = [principal EXCEPT ![u] = Upserted(u)] /\ tomb' = [tomb EXCEPT ![u] = 0]
        /\ revoked' = revoked
    BY <1>1, <1>12 DEF FinishLogin
  <2> HIDE DEF u
  <2>3. /\ principal[u].row => Upserted(u) = principal[u]
        /\ ~principal[u].row =>
             Upserted(u).row /\ ~Upserted(u).blocked /\ Upserted(u).cv = tomb[u] + 1
    BY <2>1, FreshVersions DEF Upserted, NoRow
  <2>4. ASSUME NEW s \in Subjects, s # u
        PROVE  principal'[s] = principal[s] /\ tomb'[s] = tomb[s] /\ revoked'[s] = revoked[s]
    BY <2>1, <2>2, <2>4
  <2>5. principal'[u] = Upserted(u) /\ tomb'[u] = 0 /\ revoked'[u] = revoked[u]
    BY <1>1, <2>1, <2>2
  <2>6. QED
    BY <2>1, <2>3, <2>4, <2>5 DEF Advances
<1>13. ASSUME NEW f \in SignIns, SignedIn(f) PROVE Advances
  BY <1>13, <1>2 DEF SignedIn
<1>14. ASSUME NEW f \in SignIns, AdminLogin(f) PROVE Advances
  BY <1>14, <1>2 DEF AdminLogin
<1>15. ASSUME NEW id \in handoffs, SsoExchange(id) PROVE Advances
  BY <1>15, <1>2 DEF SsoExchange
<1>16. ASSUME NEW s \in Subjects, CreateUser(s) PROVE Advances
  <2>1. /\ ~principal[s].row /\ revoked' = revoked
        /\ principal'[s] = [NoRow EXCEPT !.row = TRUE, !.cv = FreshVersion(s)]
        /\ \A o \in Subjects \ {s} : principal'[o] = principal[o] /\ tomb'[o] = tomb[o]
    BY <1>1, <1>16 DEF CreateUser
  <2>2. principal'[s].row /\ ~principal'[s].blocked /\ principal'[s].cv = tomb[s] + 1
    BY <2>1, FreshVersions DEF NoRow
  <2>3. QED
    BY <1>1, <2>1, <2>2 DEF Advances
<1>17. ASSUME NEW s \in Subjects, RevokePrincipal(s) PROVE Advances
  <2>1. /\ principal[s].row /\ revoked[s] < topic.revocations
        /\ principal' = [principal EXCEPT ![s].cv = @ + 1, ![s].blocked = TRUE]
        /\ revoked' = [revoked EXCEPT ![s] = @ + 1]
    BY <1>17 DEF RevokePrincipal
  <2>2. principal'[s].row /\ principal'[s].cv = principal[s].cv + 1
    BY <1>1, <2>1
  <2>3. revoked'[s] = revoked[s] + 1 /\ revoked'[s] <= MaxRevocations
    BY <1>1, <2>1, AccountsBounds
  <2>4. ASSUME NEW o \in Subjects, o # s
        PROVE  principal'[o] = principal[o] /\ revoked'[o] = revoked[o] /\ tomb'[o] = tomb[o]
    <3>1. principal'[o] = principal[o]
      BY <1>1, <2>1, <2>4
    <3>2. revoked'[o] = revoked[o] /\ tomb' = tomb
      BY <1>1, <2>1, <2>4, <1>17 DEF RevokePrincipal
    <3>3. QED
      BY <3>1, <3>2
  <2>5. QED
    BY <1>1, <2>1, <2>2, <2>3, <2>4 DEF Advances
<1>18. ASSUME NEW s \in Subjects, UnblockPrincipal(s) PROVE Advances
  BY <1>1, <1>18 DEF UnblockPrincipal, Advances
<1>19. ASSUME NEW s \in Subjects, PurgePrincipal(s) PROVE Advances
  BY <1>1, <1>19 DEF PurgePrincipal, NoRow, Advances
<1>20. ASSUME NEW S \in SUBSET Subjects, ChangeGroup(S) PROVE Advances
  BY <1>20, <1>2 DEF ChangeGroup
<1>21. ASSUME NEW b \in BOOLEAN, Restart(b) PROVE Advances
  <2>1. CASE ~b
    BY <2>1, <1>21, <1>2 DEF Restart
  <2>2. CASE b
    <3>1. /\ tomb' = tomb /\ \A s \in Subjects : revoked[s] < topic.revocations
          /\ principal' = [s \in Subjects |->
               IF principal[s].row THEN [principal[s] EXCEPT !.cv = @ + 1, !.blocked = TRUE] ELSE NoRow]
          /\ revoked' = [s \in Subjects |-> IF principal[s].row THEN revoked[s] + 1 ELSE revoked[s]]
      BY <2>2, <1>21 DEF Restart
    <3>2. ASSUME NEW s \in Subjects, principal[s].row
          PROVE  /\ principal'[s].row /\ principal'[s].cv = principal[s].cv + 1
                 /\ revoked'[s] = revoked[s] + 1 /\ revoked'[s] <= MaxRevocations
      <4>1. principal'[s] = [principal[s] EXCEPT !.cv = @ + 1, !.blocked = TRUE]
        BY <3>1, <3>2
      <4>2. principal'[s].row /\ principal'[s].cv = principal[s].cv + 1
        BY <1>1, <3>2, <4>1
      <4>3. revoked'[s] = revoked[s] + 1 /\ revoked[s] < topic.revocations
        BY <3>1, <3>2
      <4>4. revoked'[s] <= MaxRevocations
        BY <1>1, <4>3, AccountsBounds
      <4>5. QED
        BY <4>2, <4>3, <4>4
    <3>3. ASSUME NEW s \in Subjects, ~principal[s].row
          PROVE  /\ ~principal'[s].row /\ principal'[s].row = principal[s].row
                 /\ revoked'[s] = revoked[s] /\ tomb'[s] = tomb[s]
      <4>1. principal'[s] = NoRow /\ revoked'[s] = revoked[s]
        BY <3>1, <3>3
      <4>2. QED
        BY <1>1, <3>1, <3>3, <4>1 DEF NoRow
    <3>4. QED
      BY <1>1, <3>2, <3>3 DEF Advances
  <2>3. QED
    BY <2>1, <2>2
<1>22. ASSUME NEW v \in Visits, NEW c \in cookies, VisitBegins(v, c) PROVE Advances
  BY <1>22, <1>2 DEF VisitBegins, VisitUnchanged
<1>23. ASSUME NEW v \in Visits, TenantOperation(v) PROVE Advances
  BY <1>23, <1>2 DEF TenantOperation, VisitUnchanged
<1>24. ASSUME NEW v \in Visits, CheckGrants(v) PROVE Advances
  BY <1>24, <1>2 DEF CheckGrants, VisitUnchanged
<1>25. ASSUME NEW v \in Visits, SwitchTenant(v) PROVE Advances
  BY <1>25, <1>2 DEF SwitchTenant, VisitUnchanged
<1>26. ASSUME NEW v \in Visits, VerifyCurrent(v) PROVE Advances
  BY <1>26, <1>2 DEF VerifyCurrent, VisitUnchanged
<1>27. ASSUME NEW v \in Visits, SetPassword(v) PROVE Advances
  BY <1>27, <1>2 DEF SetPassword, VisitUnchanged
<1>28. ASSUME NEW v \in Visits, PasswordChanged(v) PROVE Advances
  BY <1>28, <1>2 DEF PasswordChanged, VisitUnchanged
<1>29. ASSUME NEW v \in Visits, CountTokens(v) PROVE Advances
  BY <1>29, <1>2 DEF CountTokens, VisitUnchanged
<1>30. ASSUME NEW v \in Visits, InsertToken(v) PROVE Advances
  BY <1>30, <1>2 DEF InsertToken, VisitUnchanged
<1>31. ASSUME NEW v \in Visits, VisitEnds(v) PROVE Advances
  BY <1>31, <1>2 DEF VisitEnds, VisitUnchanged
<1>32. ASSUME NEW t \in LiveTokens, DeleteToken(t) PROVE Advances
  BY <1>32, <1>2 DEF DeleteToken, VisitUnchanged
<1>33. CASE CreateTenant
  BY <1>33, <1>2 DEF CreateTenant, TenantUnchanged
<1>34. CASE PinTenant
  BY <1>34, <1>2 DEF PinTenant, TenantUnchanged
<1>35. CASE CheckOperations
  BY <1>35, <1>2 DEF CheckOperations, TenantUnchanged
<1>36. CASE RemoveTenant
  BY <1>36, <1>2 DEF RemoveTenant, TenantUnchanged
<1>37. CASE PurgeEnds
  BY <1>37, <1>2 DEF PurgeEnds, TenantUnchanged
<1>38. CASE UNCHANGED avars
  BY <1>38, <1>2 DEF avars
<1>39. QED
  BY <1>1, <1>2, <1>3, <1>4, <1>5, <1>6, <1>7, <1>8, <1>9, <1>10, <1>11, <1>12, <1>13, <1>14,
     <1>15, <1>16, <1>17, <1>18, <1>19, <1>20, <1>21, <1>22, <1>23, <1>24, <1>25, <1>26, <1>27,
     <1>28, <1>29, <1>30, <1>31, <1>32, <1>33, <1>34, <1>35, <1>36, <1>37,
     <1>38 DEF AccountsNext


LEMMA VersionsKept ==
  ASSUME AccountsInv, Advances PROVE VersionsHeld'
  BY AccountsBounds DEF AccountsInv, AccountsTypes, RowTypes, VersionsHeld, Advances, Versions

\* Whatever happens to the rows, an identity remains vouched for.
LEMMA VouchedKept ==
  ASSUME AccountsInv, Advances, NEW id \in Identities, Vouched(id)
  PROVE  Vouched(id)'
<1>1. CASE id.subject = Local
  BY <1>1 DEF Vouched
<1>2. CASE id.subject # Local
  <2>1. id.subject \in Subjects /\ id.cv \in Int /\ id.era \in Int
    BY <1>2 DEF Identities, Versions
  <2>2. /\ principal[id.subject].cv \in Int /\ tomb[id.subject] \in Int
        /\ revoked[id.subject] \in Int
    BY <2>1 DEF AccountsInv, AccountsTypes, RowTypes, Versions
  <2>3. QED
    BY <1>2, <2>1, <2>2 DEF Vouched, Advances
<1>3. QED
  BY <1>1, <1>2


\* An identity with another version, grant or place is an identity.
LEMMA IdentityChanged ==
  ASSUME NEW id \in Identities
  PROVE  /\ \A cv \in Versions, era \in 0 .. MaxRevocations :
              [id EXCEPT !.cv = cv, !.era = era] \in Identities
         /\ \A role \in {"admin", "viewer"} : [id EXCEPT !.role = role] \in Identities
         /\ \A grant \in 0 .. MaxIncarnations : [id EXCEPT !.grant = grant] \in Identities
         /\ \A acts \in {"default", "tenant"} : [id EXCEPT !.acts = acts] \in Identities
         /\ \A grant \in 0 .. MaxIncarnations, acts \in {"default", "tenant"} :
              [id EXCEPT !.grant = grant, !.acts = acts] \in Identities
         /\ \A s \in Subjects : [id EXCEPT !.subject = s, !.who = s] \in Identities
  BY DEF Identities

LEMMA UpsertedTyped ==
  ASSUME AccountsInv, NEW s \in Subjects
  PROVE  Upserted(s) \in [row : BOOLEAN, cv : Versions, blocked : BOOLEAN]
<1>1. /\ principal[s] \in [row : BOOLEAN, cv : Versions, blocked : BOOLEAN]
      /\ tomb[s] \in Nat /\ revoked[s] \in 0 .. MaxRevocations
      /\ ~principal[s].row => tomb[s] <= 2 * revoked[s]
  BY DEF AccountsInv, AccountsTypes, RowTypes, VersionsHeld, Versions
<1>2. ~principal[s].row => FreshVersion(s) \in Versions
  BY <1>1, AccountsBounds, FreshVersions DEF Versions
<1>3. QED
  BY <1>1, <1>2 DEF Upserted, NoRow


LEMMA RowTypesKept == AccountsInv /\ [AccountsNext]_avars => RowTypes'
<1> SUFFICES ASSUME AccountsInv, [AccountsNext]_avars PROVE RowTypes'
  OBVIOUS
<1>1. /\ topic.signins \subseteq SignIns /\ topic.visits \subseteq Visits
     /\ topic.revocations \in 0 .. MaxRevocations /\ topic.claims \subseteq BOOLEAN
     /\ principal \in [Subjects -> [row : BOOLEAN, cv : Versions, blocked : BOOLEAN]]
     /\ tomb \in [Subjects -> Versions] /\ revoked \in [Subjects -> 0 .. MaxRevocations]
     /\ Versions \subseteq Nat
  BY TopicNamed, AccountsBounds, LocalAdminNamed, NoneNamed DEF AccountsInv, AccountsTypes, PortTypes, RowTypes, Versions
<1>2. CASE UNCHANGED <<principal, tomb, revoked>>
  BY <1>1, <1>2 DEF RowTypes
<1>3. CASE CooldownPasses
  BY <1>3, <1>2 DEF CooldownPasses
<1>4. CASE KeyRolls
  BY <1>4, <1>2 DEF KeyRolls
<1>5. ASSUME NEW f \in SignIns, NEW d \in BOOLEAN, SsoStart(f, d) PROVE RowTypes'
  BY <1>5, <1>2 DEF SsoStart
<1>6. ASSUME NEW f \in SignIns, Discovered(f) PROVE RowTypes'
  BY <1>6, <1>2 DEF Discovered
<1>7. ASSUME NEW f \in SignIns, SsoCallback(f) PROVE RowTypes'
  BY <1>7, <1>2 DEF SsoCallback
<1>8. ASSUME NEW f \in SignIns, TokenExchange(f) PROVE RowTypes'
  BY <1>8, <1>2 DEF TokenExchange
<1>9. ASSUME NEW f \in SignIns, MergeGroups(f) PROVE RowTypes'
  BY <1>9, <1>2 DEF MergeGroups
<1>10. ASSUME NEW f \in SignIns, CheckProvisioned(f) PROVE RowTypes'
  BY <1>10, <1>2 DEF CheckProvisioned
<1>11. ASSUME NEW f \in SignIns, ReadTenants(f) PROVE RowTypes'
  BY <1>11, <1>2 DEF ReadTenants
<1>12. ASSUME NEW f \in SignIns, FinishLogin(f) PROVE RowTypes'
  <2> DEFINE u == signin[f].id.subject
  <2>1. u \in Subjects
    BY <1>1, <1>12 DEF FinishLogin, At, SubjectsNamed, AccountsInv
  <2>2. /\ principal' = [principal EXCEPT ![u] = Upserted(u)] /\ tomb' = [tomb EXCEPT ![u] = 0]
        /\ revoked' = revoked
    BY <1>12 DEF FinishLogin
  <2> HIDE DEF u
  <2>3. Upserted(u) \in [row : BOOLEAN, cv : Versions, blocked : BOOLEAN] /\ 0 \in Versions
    BY <2>1, UpsertedTyped, AccountsBounds DEF Versions
  <2>4. QED
    BY <1>1, <2>1, <2>2, <2>3 DEF RowTypes
<1>13. ASSUME NEW f \in SignIns, SignedIn(f) PROVE RowTypes'
  BY <1>13, <1>2 DEF SignedIn
<1>14. ASSUME NEW f \in SignIns, AdminLogin(f) PROVE RowTypes'
  BY <1>14, <1>2 DEF AdminLogin
<1>15. ASSUME NEW id \in handoffs, SsoExchange(id) PROVE RowTypes'
  BY <1>15, <1>2 DEF SsoExchange
<1>16. ASSUME NEW s \in Subjects, CreateUser(s) PROVE RowTypes'
  <2>1. /\ ~principal[s].row /\ revoked' = revoked /\ tomb' = [tomb EXCEPT ![s] = 0]
        /\ principal' = [principal EXCEPT ![s] = [NoRow EXCEPT !.row = TRUE, !.cv = FreshVersion(s)]]
    BY <1>16 DEF CreateUser
  <2>2. principal' = [principal EXCEPT ![s] = Upserted(s)]
    BY <2>1 DEF Upserted
  <2>3. Upserted(s) \in [row : BOOLEAN, cv : Versions, blocked : BOOLEAN] /\ 0 \in Versions
    BY UpsertedTyped, AccountsBounds DEF Versions
  <2>4. QED
    BY <1>1, <2>1, <2>2, <2>3 DEF RowTypes
<1>17. ASSUME NEW s \in Subjects, RevokePrincipal(s) PROVE RowTypes'
  <2>1. /\ principal[s].row /\ revoked[s] < topic.revocations /\ tomb' = tomb
        /\ principal' = [principal EXCEPT ![s].cv = @ + 1, ![s].blocked = TRUE]
        /\ revoked' = [revoked EXCEPT ![s] = @ + 1]
    BY <1>17 DEF RevokePrincipal
  <2>2. principal[s].cv + 1 \in Versions /\ revoked[s] + 1 \in 0 .. MaxRevocations
    BY <1>1, <2>1, AccountsBounds DEF AccountsInv, VersionsHeld, Versions
  <2>3. [principal[s] EXCEPT !.cv = @ + 1, !.blocked = TRUE]
           \in [row : BOOLEAN, cv : Versions, blocked : BOOLEAN]
    BY <1>1, <2>2
  <2>4. principal' = [principal EXCEPT ![s] = [principal[s] EXCEPT !.cv = @ + 1, !.blocked = TRUE]]
    BY <1>1, <2>1
  <2>5. QED
    BY <1>1, <2>1, <2>2, <2>3, <2>4 DEF RowTypes
<1>18. ASSUME NEW s \in Subjects, UnblockPrincipal(s) PROVE RowTypes'
  BY <1>1, <1>18 DEF UnblockPrincipal, RowTypes
<1>19. ASSUME NEW s \in Subjects, PurgePrincipal(s) PROVE RowTypes'
  <2>1. NoRow \in [row : BOOLEAN, cv : Versions, blocked : BOOLEAN]
    BY AccountsBounds DEF NoRow, Versions
  <2>2. QED
    BY <1>1, <2>1, <1>19 DEF PurgePrincipal, RowTypes
<1>20. ASSUME NEW S \in SUBSET Subjects, ChangeGroup(S) PROVE RowTypes'
  BY <1>20, <1>2 DEF ChangeGroup
<1>21. ASSUME NEW b \in BOOLEAN, Restart(b) PROVE RowTypes'
  <2>1. CASE ~b
    BY <2>1, <1>21, <1>2 DEF Restart
  <2>2. CASE b
    <3>1. /\ tomb' = tomb /\ \A s \in Subjects : revoked[s] < topic.revocations
          /\ principal' = [s \in Subjects |->
               IF principal[s].row THEN [principal[s] EXCEPT !.cv = @ + 1, !.blocked = TRUE] ELSE NoRow]
          /\ revoked' = [s \in Subjects |-> IF principal[s].row THEN revoked[s] + 1 ELSE revoked[s]]
      BY <2>2, <1>21 DEF Restart
    <3>2. ASSUME NEW s \in Subjects, principal[s].row
          PROVE  /\ [principal[s] EXCEPT !.cv = @ + 1, !.blocked = TRUE]
                       \in [row : BOOLEAN, cv : Versions, blocked : BOOLEAN]
                 /\ revoked[s] + 1 \in 0 .. MaxRevocations
      <4>1. revoked[s] < topic.revocations /\ principal[s].cv <= 2 * revoked[s] + 1
        BY <3>1, <3>2 DEF AccountsInv, VersionsHeld
      <4>2. principal[s].cv \in Nat /\ revoked[s] \in 0 .. MaxRevocations
        BY <1>1
      <4>3. principal[s].cv + 1 \in Versions /\ revoked[s] + 1 \in 0 .. MaxRevocations
        BY <1>1, <4>1, <4>2, AccountsBounds DEF Versions
      <4>4. QED
        BY <1>1, <4>3
    <3>3. NoRow \in [row : BOOLEAN, cv : Versions, blocked : BOOLEAN]
      BY AccountsBounds DEF NoRow, Versions
    <3>4. QED
      BY <1>1, <3>1, <3>2, <3>3 DEF RowTypes
  <2>3. QED
    BY <2>1, <2>2
<1>22. ASSUME NEW v \in Visits, NEW c \in cookies, VisitBegins(v, c) PROVE RowTypes'
  BY <1>22, <1>2 DEF VisitBegins, VisitUnchanged
<1>23. ASSUME NEW v \in Visits, TenantOperation(v) PROVE RowTypes'
  BY <1>23, <1>2 DEF TenantOperation, VisitUnchanged
<1>24. ASSUME NEW v \in Visits, CheckGrants(v) PROVE RowTypes'
  BY <1>24, <1>2 DEF CheckGrants, VisitUnchanged
<1>25. ASSUME NEW v \in Visits, SwitchTenant(v) PROVE RowTypes'
  BY <1>25, <1>2 DEF SwitchTenant, VisitUnchanged
<1>26. ASSUME NEW v \in Visits, VerifyCurrent(v) PROVE RowTypes'
  BY <1>26, <1>2 DEF VerifyCurrent, VisitUnchanged
<1>27. ASSUME NEW v \in Visits, SetPassword(v) PROVE RowTypes'
  BY <1>27, <1>2 DEF SetPassword, VisitUnchanged
<1>28. ASSUME NEW v \in Visits, PasswordChanged(v) PROVE RowTypes'
  BY <1>28, <1>2 DEF PasswordChanged, VisitUnchanged
<1>29. ASSUME NEW v \in Visits, CountTokens(v) PROVE RowTypes'
  BY <1>29, <1>2 DEF CountTokens, VisitUnchanged
<1>30. ASSUME NEW v \in Visits, InsertToken(v) PROVE RowTypes'
  BY <1>30, <1>2 DEF InsertToken, VisitUnchanged
<1>31. ASSUME NEW v \in Visits, VisitEnds(v) PROVE RowTypes'
  BY <1>31, <1>2 DEF VisitEnds, VisitUnchanged
<1>32. ASSUME NEW t \in LiveTokens, DeleteToken(t) PROVE RowTypes'
  BY <1>32, <1>2 DEF DeleteToken, VisitUnchanged
<1>33. CASE CreateTenant
  BY <1>33, <1>2 DEF CreateTenant, TenantUnchanged
<1>34. CASE PinTenant
  BY <1>34, <1>2 DEF PinTenant, TenantUnchanged
<1>35. CASE CheckOperations
  BY <1>35, <1>2 DEF CheckOperations, TenantUnchanged
<1>36. CASE RemoveTenant
  BY <1>36, <1>2 DEF RemoveTenant, TenantUnchanged
<1>37. CASE PurgeEnds
  BY <1>37, <1>2 DEF PurgeEnds, TenantUnchanged
<1>38. CASE UNCHANGED avars
  BY <1>38, <1>2 DEF avars
<1>39. QED
  BY <1>1, <1>2, <1>3, <1>4, <1>5, <1>6, <1>7, <1>8, <1>9, <1>10, <1>11, <1>12, <1>13, <1>14,
     <1>15, <1>16, <1>17, <1>18, <1>19, <1>20, <1>21, <1>22, <1>23, <1>24, <1>25, <1>26, <1>27,
     <1>28, <1>29, <1>30, <1>31, <1>32, <1>33, <1>34, <1>35, <1>36, <1>37,
     <1>38 DEF AccountsNext


LEMMA SignInBegun ==
  ASSUME NEW x \in SignInRecords, NEW pc \in Stages, NEW then \in Onward, NEW desktop \in BOOLEAN
  PROVE  /\ [x EXCEPT !.pc = pc] \in SignInRecords
         /\ [x EXCEPT !.pc = pc, !.desktop = desktop] \in SignInRecords
         /\ [x EXCEPT !.pc = pc, !.then = then, !.desktop = desktop] \in SignInRecords
  BY DEF SignInRecords

LEMMA SignInClaims ==
  ASSUME NEW x \in SignInRecords, NEW pc \in Stages, NEW grouped \in BOOLEAN, NEW id \in Identities
  PROVE  [x EXCEPT !.pc = pc, !.grouped = grouped, !.id = id] \in SignInRecords
  BY DEF SignInRecords



\* The identity a sign-in ends with.
LoginIdentity(f) ==
  [signin[f].id EXCEPT !.cv = Upserted(signin[f].id.subject).cv,
                       !.era = revoked[signin[f].id.subject]]
LEMMA LoginIdentified ==
  ASSUME AccountsInv, NEW f \in SignIns, At(f, "upsert")
  PROVE  /\ LoginIdentity(f) \in Identities
         /\ signin[f].id.subject \in Subjects
         /\ LoginIdentity(f).subject = signin[f].id.subject
         /\ LoginIdentity(f).who = signin[f].id.subject
         /\ LoginIdentity(f).cv = Upserted(signin[f].id.subject).cv
         /\ LoginIdentity(f).era = revoked[signin[f].id.subject]
<1>1. signin[f].id \in Identities /\ revoked \in [Subjects -> 0 .. MaxRevocations]
  BY DEF AccountsInv, AccountsTypes, SignInTypes, SignInRecords, RowTypes
<1>2. signin[f].id.subject \in Subjects /\ signin[f].id.who = signin[f].id.subject
  BY DEF At, AccountsInv, SubjectsNamed
<1>3. Upserted(signin[f].id.subject).cv \in Versions
  BY <1>2, UpsertedTyped
<1>4. QED
  BY <1>1, <1>2, <1>3 DEF LoginIdentity, Identities

LEMMA PortTypesKept == AccountsInv /\ [AccountsNext]_avars => PortTypes'
<1> SUFFICES ASSUME AccountsInv, [AccountsNext]_avars PROVE PortTypes'
  OBVIOUS
<1>1. /\ topic.signins \subseteq SignIns /\ topic.visits \subseteq Visits
     /\ topic.revocations \in 0 .. MaxRevocations /\ topic.claims \subseteq BOOLEAN
     /\ PortTypes
  BY TopicNamed, AccountsBounds, LocalAdminNamed, NoneNamed DEF AccountsInv, AccountsTypes, PortTypes, SignInTypes
<1>2. CASE UNCHANGED <<topic, members, tenant, removal, password, slot, idpKey>>
  BY <1>1, <1>2, AccountsBounds DEF PortTypes
<1>3. CASE CooldownPasses
  BY <1>1, <1>3 DEF CooldownPasses, PortTypes
<1>4. CASE KeyRolls
  BY <1>1, <1>4 DEF KeyRolls, PortTypes
<1>5. ASSUME NEW f \in SignIns, NEW d \in BOOLEAN, SsoStart(f, d) PROVE PortTypes'
  BY <1>1, <1>5 DEF SsoStart, NotSigning, LocalAdmin, PortTypes
<1>6. ASSUME NEW f \in SignIns, Discovered(f) PROVE PortTypes'
  BY <1>1, <1>6 DEF Discovered, GivesUp, NotSigning, LocalAdmin, PortTypes
<1>7. ASSUME NEW f \in SignIns, SsoCallback(f) PROVE PortTypes'
  BY <1>1, <1>7 DEF SsoCallback, NeedsClient, GivesUp, NotSigning, LocalAdmin, PortTypes
<1>8. ASSUME NEW f \in SignIns, TokenExchange(f) PROVE PortTypes'
  BY <1>1, <1>8 DEF TokenExchange, GivesUp, NotSigning, LocalAdmin, PortTypes
<1>9. ASSUME NEW f \in SignIns, MergeGroups(f) PROVE PortTypes'
  BY <1>9, <1>2 DEF MergeGroups
<1>10. ASSUME NEW f \in SignIns, CheckProvisioned(f) PROVE PortTypes'
  BY <1>10, <1>2 DEF CheckProvisioned
<1>11. ASSUME NEW f \in SignIns, ReadTenants(f) PROVE PortTypes'
  BY <1>11, <1>2 DEF ReadTenants
<1>12. ASSUME NEW f \in SignIns, FinishLogin(f) PROVE PortTypes'
  BY <1>12, <1>2 DEF FinishLogin
<1>13. ASSUME NEW f \in SignIns, SignedIn(f) PROVE PortTypes'
  BY <1>13, <1>2 DEF SignedIn
<1>14. ASSUME NEW f \in SignIns, AdminLogin(f) PROVE PortTypes'
  BY <1>14, <1>2 DEF AdminLogin
<1>15. ASSUME NEW id \in handoffs, SsoExchange(id) PROVE PortTypes'
  BY <1>15, <1>2 DEF SsoExchange
<1>16. ASSUME NEW s \in Subjects, CreateUser(s) PROVE PortTypes'
  BY <1>16, <1>2 DEF CreateUser
<1>17. ASSUME NEW s \in Subjects, RevokePrincipal(s) PROVE PortTypes'
  BY <1>17, <1>2 DEF RevokePrincipal
<1>18. ASSUME NEW s \in Subjects, UnblockPrincipal(s) PROVE PortTypes'
  BY <1>18, <1>2 DEF UnblockPrincipal
<1>19. ASSUME NEW s \in Subjects, PurgePrincipal(s) PROVE PortTypes'
  BY <1>1, <1>19 DEF PurgePrincipal, NoRow, PortTypes
<1>20. ASSUME NEW S \in SUBSET Subjects, ChangeGroup(S) PROVE PortTypes'
  BY <1>1, <1>20 DEF ChangeGroup, PortTypes
<1>21. ASSUME NEW b \in BOOLEAN, Restart(b) PROVE PortTypes'
  <2>1. /\ slot' = [state |-> "empty", key |-> 0] /\ removal' = "none"
        /\ UNCHANGED <<topic, members, tenant, password, idpKey>>
    BY <1>21 DEF Restart
  <2>2. QED
    BY <1>1, <2>1 DEF PortTypes
<1>22. ASSUME NEW v \in Visits, NEW c \in cookies, VisitBegins(v, c) PROVE PortTypes'
  BY <1>22, <1>2 DEF VisitBegins, VisitUnchanged
<1>23. ASSUME NEW v \in Visits, TenantOperation(v) PROVE PortTypes'
  BY <1>23, <1>2 DEF TenantOperation, VisitUnchanged
<1>24. ASSUME NEW v \in Visits, CheckGrants(v) PROVE PortTypes'
  BY <1>24, <1>2 DEF CheckGrants, VisitUnchanged
<1>25. ASSUME NEW v \in Visits, SwitchTenant(v) PROVE PortTypes'
  BY <1>25, <1>2 DEF SwitchTenant, VisitUnchanged
<1>26. ASSUME NEW v \in Visits, VerifyCurrent(v) PROVE PortTypes'
  BY <1>26, <1>2 DEF VerifyCurrent, VisitUnchanged
<1>27. ASSUME NEW v \in Visits, SetPassword(v) PROVE PortTypes'
  BY <1>1, AccountsBounds, <1>27 DEF SetPassword, VisitUnchanged, PortTypes
<1>28. ASSUME NEW v \in Visits, PasswordChanged(v) PROVE PortTypes'
  BY <1>28, <1>2 DEF PasswordChanged, VisitUnchanged
<1>29. ASSUME NEW v \in Visits, CountTokens(v) PROVE PortTypes'
  BY <1>29, <1>2 DEF CountTokens, VisitUnchanged
<1>30. ASSUME NEW v \in Visits, InsertToken(v) PROVE PortTypes'
  BY <1>30, <1>2 DEF InsertToken, VisitUnchanged
<1>31. ASSUME NEW v \in Visits, VisitEnds(v) PROVE PortTypes'
  BY <1>31, <1>2 DEF VisitEnds, VisitUnchanged
<1>32. ASSUME NEW t \in LiveTokens, DeleteToken(t) PROVE PortTypes'
  BY <1>32, <1>2 DEF DeleteToken, VisitUnchanged
<1>33. CASE CreateTenant
  BY <1>1, AccountsBounds, <1>33 DEF CreateTenant, TenantUnchanged, PortTypes
<1>34. CASE PinTenant
  BY <1>1, <1>34 DEF PinTenant, TenantUnchanged, PortTypes
<1>35. CASE CheckOperations
  BY <1>1, <1>35 DEF CheckOperations, TenantUnchanged, PortTypes
<1>36. CASE RemoveTenant
  BY <1>1, AccountsBounds, <1>36 DEF RemoveTenant, TenantUnchanged, PortTypes
<1>37. CASE PurgeEnds
  BY <1>1, <1>37 DEF PurgeEnds, TenantUnchanged, PortTypes
<1>38. CASE UNCHANGED avars
  BY <1>38, <1>2 DEF avars
<1>39. QED
  BY <1>1, <1>2, <1>3, <1>4, <1>5, <1>6, <1>7, <1>8, <1>9, <1>10, <1>11, <1>12, <1>13, <1>14,
     <1>15, <1>16, <1>17, <1>18, <1>19, <1>20, <1>21, <1>22, <1>23, <1>24, <1>25, <1>26, <1>27,
     <1>28, <1>29, <1>30, <1>31, <1>32, <1>33, <1>34, <1>35, <1>36, <1>37,
     <1>38 DEF AccountsNext

LEMMA SignInTypesKept == AccountsInv /\ [AccountsNext]_avars => SignInTypes'
<1> SUFFICES ASSUME AccountsInv, [AccountsNext]_avars PROVE SignInTypes'
  OBVIOUS
<1>1. /\ topic.signins \subseteq SignIns /\ topic.visits \subseteq Visits
     /\ topic.revocations \in 0 .. MaxRevocations /\ topic.claims \subseteq BOOLEAN
     /\ SignInTypes /\ PortTypes /\ LocalAdmin \in Identities /\ NotSigning \in SignInRecords
  BY TopicNamed, AccountsBounds, LocalAdminNamed, NoneNamed DEF AccountsInv, AccountsTypes, PortTypes, SignInTypes
<1>2. CASE UNCHANGED <<signin>>
  BY <1>1, <1>2 DEF SignInTypes, SignInRecords, Stages, PortTypes
<1>3. CASE CooldownPasses
  BY <1>3, <1>2 DEF CooldownPasses
<1>4. CASE KeyRolls
  BY <1>4, <1>2 DEF KeyRolls
<1>5. ASSUME NEW f \in SignIns, NEW d \in BOOLEAN, SsoStart(f, d) PROVE SignInTypes'
  <2>1. PICK then \in Onward, pc \in Stages :
          \/ signin' = [signin EXCEPT ![f] = [NotSigning EXCEPT !.pc = pc, !.desktop = d]]
          \/ signin' = [signin EXCEPT ![f] =
               [NotSigning EXCEPT !.pc = pc, !.then = then, !.desktop = d]]
    BY <1>5 DEF SsoStart, Stages, Onward
  <2>2. /\ [NotSigning EXCEPT !.pc = pc, !.desktop = d] \in SignInRecords
        /\ [NotSigning EXCEPT !.pc = pc, !.then = then, !.desktop = d] \in SignInRecords
    BY NoneNamed, SignInBegun
  <2>3. PICK x \in SignInRecords : signin' = [signin EXCEPT ![f] = x]
    BY <2>1, <2>2
  <2>4. QED
    BY <1>1, <2>3 DEF SignInTypes
<1>6. ASSUME NEW f \in SignIns, Discovered(f) PROVE SignInTypes'
  <2>1. \/ signin' = [signin EXCEPT ![f].pc = signin[f].then, ![f].key = idpKey]
        \/ signin' = [signin EXCEPT ![f] = NotSigning]
    BY <1>6 DEF Discovered, GivesUp
  <2>2. signin[f].then \in Stages /\ idpKey \in 0 .. 2
    BY <1>1 DEF SignInTypes, SignInRecords, PortTypes, Stages, Onward
  <2>3. QED
    BY <1>1, <2>1, <2>2 DEF SignInTypes, SignInRecords
<1>7. ASSUME NEW f \in SignIns, SsoCallback(f) PROVE SignInTypes'
  <2>1. \/ signin' = [signin EXCEPT ![f].pc = "exchange", ![f].key = slot.key]
        \/ signin' = [signin EXCEPT ![f].pc = "discover", ![f].then = "exchange"]
        \/ signin' = [signin EXCEPT ![f] = NotSigning]
    BY <1>7 DEF SsoCallback, NeedsClient, GivesUp
  <2>2. slot.key \in 0 .. 2 /\ {"exchange", "discover"} \subseteq Stages /\ "exchange" \in Onward
    BY <1>1 DEF PortTypes, Stages, Onward
  <2>3. QED
    BY <1>1, <2>1, <2>2 DEF SignInTypes, SignInRecords
<1>8. ASSUME NEW f \in SignIns, TokenExchange(f) PROVE SignInTypes'
  <2>1. CASE \E s \in Subjects, claimed \in topic.claims :
               signin' = [signin EXCEPT ![f].pc = "claims", ![f].grouped = claimed,
                                        ![f].id = [LocalAdmin EXCEPT !.subject = s, !.who = s]]
    <3>1. PICK s \in Subjects, claimed \in topic.claims :
             signin' = [signin EXCEPT ![f].pc = "claims", ![f].grouped = claimed,
                                      ![f].id = [LocalAdmin EXCEPT !.subject = s, !.who = s]]
      BY <2>1
    <3>2. claimed \in BOOLEAN /\ "claims" \in Stages
      BY <1>1 DEF Stages
    <3>3. [LocalAdmin EXCEPT !.subject = s, !.who = s] \in Identities
      BY <1>1, IdentityChanged
    <3>4. QED
      BY <1>1, <3>1, <3>2, <3>3 DEF SignInTypes, SignInRecords
  <2>2. CASE signin' = [signin EXCEPT ![f] = NotSigning]
    BY <1>1, <2>2 DEF SignInTypes
  <2>3. QED
    BY <2>1, <2>2, <1>8 DEF TokenExchange, GivesUp
<1>9. ASSUME NEW f \in SignIns, MergeGroups(f) PROVE SignInTypes'
  <2> DEFINE pc == IF About("provisioning") THEN "provisioned" ELSE "grants"
  <2> DEFINE grouped == signin[f].grouped \/ signin[f].id.subject \in members
  <2> DEFINE role == IF grouped THEN "admin" ELSE "viewer"
  <2>1. signin' = [signin EXCEPT ![f].pc = pc, ![f].grouped = grouped, ![f].id.role = role]
    BY <1>9 DEF MergeGroups
  <2>2. pc \in Stages /\ grouped \in BOOLEAN /\ role \in {"admin", "viewer"}
    BY DEF Stages
  <2> HIDE DEF pc, grouped, role
  <2>3. signin[f] \in SignInRecords /\ signin[f].id \in Identities
    BY <1>1 DEF SignInTypes, SignInRecords
  <2>4. [signin[f].id EXCEPT !.role = role] \in Identities
    BY <2>2, <2>3, IdentityChanged
  <2>5. signin' = [signin EXCEPT ![f] = [signin[f] EXCEPT !.pc = pc, !.grouped = grouped,
                                           !.id = [signin[f].id EXCEPT !.role = role]]]
    BY <1>1, <2>1, <2>3 DEF SignInTypes, SignInRecords
  <2>6. QED
    <3> DEFINE x == [signin[f] EXCEPT !.pc = pc, !.grouped = grouped,
                                      !.id = [signin[f].id EXCEPT !.role = role]]
    <3>1. x \in SignInRecords
      BY <2>2, <2>3, <2>4, SignInClaims
    <3>2. signin' = [signin EXCEPT ![f] = x]
      BY <2>5
    <3> HIDE DEF x
    <3>3. QED
      BY <1>1, <3>1, <3>2 DEF SignInTypes
<1>10. ASSUME NEW f \in SignIns, CheckProvisioned(f) PROVE SignInTypes'
  <2>1. \/ signin' = [signin EXCEPT ![f].pc = "grants"]
        \/ signin' = [signin EXCEPT ![f] = NotSigning]
    BY <1>10 DEF CheckProvisioned, Proceeds, GivesUp
  <2>2. "grants" \in Stages
    BY DEF Stages
  <2>3. QED
    BY <1>1, <2>1, <2>2 DEF SignInTypes, SignInRecords
<1>11. ASSUME NEW f \in SignIns, ReadTenants(f) PROVE SignInTypes'
  <2> DEFINE grant == IF signin[f].grouped THEN tenant.now ELSE 0
  <2>1. signin' = [signin EXCEPT ![f].pc = "upsert", ![f].id.grant = grant]
    BY <1>11 DEF ReadTenants
  <2>5. grant \in 0 .. MaxIncarnations
    BY <1>1, AccountsBounds DEF PortTypes
  <2> HIDE DEF grant
  <2>2. signin[f].id \in Identities /\ "upsert" \in Stages
    BY <1>1 DEF SignInTypes, SignInRecords, Stages
  <2>3. [signin[f].id EXCEPT !.grant = grant] \in Identities
    BY <2>2, <2>5, IdentityChanged
  <2>4. QED
    BY <1>1, <2>1, <2>2, <2>3 DEF SignInTypes, SignInRecords
<1>12. ASSUME NEW f \in SignIns, FinishLogin(f) PROVE SignInTypes'
  <2>1. \/ signin' = [signin EXCEPT ![f].pc = "issue", ![f].id = LoginIdentity(f)]
        \/ signin' = [signin EXCEPT ![f] = NotSigning]
    BY <1>12 DEF FinishLogin, GivesUp, LoginIdentity
  <2>2. LoginIdentity(f) \in Identities /\ "issue" \in Stages
    BY LoginIdentified, <1>12 DEF FinishLogin, Stages
  <2>3. QED
    BY <1>1, <2>1, <2>2 DEF SignInTypes, SignInRecords
<1>13. ASSUME NEW f \in SignIns, SignedIn(f) PROVE SignInTypes'
  BY <1>1, <1>13 DEF SignedIn, GivesUp, NotSigning, LocalAdmin, Issue, Signed, SignInTypes, SignInRecords, Stages, PortTypes
<1>14. ASSUME NEW f \in SignIns, AdminLogin(f) PROVE SignInTypes'
  BY <1>1, <1>14 DEF AdminLogin, NotSigning, LocalAdmin, SignInTypes, SignInRecords, Stages, PortTypes
<1>15. ASSUME NEW id \in handoffs, SsoExchange(id) PROVE SignInTypes'
  BY <1>15, <1>2 DEF SsoExchange
<1>16. ASSUME NEW s \in Subjects, CreateUser(s) PROVE SignInTypes'
  BY <1>16, <1>2 DEF CreateUser
<1>17. ASSUME NEW s \in Subjects, RevokePrincipal(s) PROVE SignInTypes'
  BY <1>17, <1>2 DEF RevokePrincipal
<1>18. ASSUME NEW s \in Subjects, UnblockPrincipal(s) PROVE SignInTypes'
  BY <1>18, <1>2 DEF UnblockPrincipal
<1>19. ASSUME NEW s \in Subjects, PurgePrincipal(s) PROVE SignInTypes'
  BY <1>19, <1>2 DEF PurgePrincipal
<1>20. ASSUME NEW S \in SUBSET Subjects, ChangeGroup(S) PROVE SignInTypes'
  BY <1>20, <1>2 DEF ChangeGroup
<1>21. ASSUME NEW b \in BOOLEAN, Restart(b) PROVE SignInTypes'
  BY <1>1, <1>21 DEF Restart, EndTokens, NotSigning, NotVisiting, LocalAdmin, NoRow, SignInTypes, SignInRecords, Stages, PortTypes
<1>22. ASSUME NEW v \in Visits, NEW c \in cookies, VisitBegins(v, c) PROVE SignInTypes'
  BY <1>22, <1>2 DEF VisitBegins, VisitUnchanged
<1>23. ASSUME NEW v \in Visits, TenantOperation(v) PROVE SignInTypes'
  BY <1>23, <1>2 DEF TenantOperation, VisitUnchanged
<1>24. ASSUME NEW v \in Visits, CheckGrants(v) PROVE SignInTypes'
  BY <1>24, <1>2 DEF CheckGrants, VisitUnchanged
<1>25. ASSUME NEW v \in Visits, SwitchTenant(v) PROVE SignInTypes'
  BY <1>25, <1>2 DEF SwitchTenant, VisitUnchanged
<1>26. ASSUME NEW v \in Visits, VerifyCurrent(v) PROVE SignInTypes'
  BY <1>26, <1>2 DEF VerifyCurrent, VisitUnchanged
<1>27. ASSUME NEW v \in Visits, SetPassword(v) PROVE SignInTypes'
  BY <1>27, <1>2 DEF SetPassword, VisitUnchanged
<1>28. ASSUME NEW v \in Visits, PasswordChanged(v) PROVE SignInTypes'
  BY <1>28, <1>2 DEF PasswordChanged, VisitUnchanged
<1>29. ASSUME NEW v \in Visits, CountTokens(v) PROVE SignInTypes'
  BY <1>29, <1>2 DEF CountTokens, VisitUnchanged
<1>30. ASSUME NEW v \in Visits, InsertToken(v) PROVE SignInTypes'
  BY <1>30, <1>2 DEF InsertToken, VisitUnchanged
<1>31. ASSUME NEW v \in Visits, VisitEnds(v) PROVE SignInTypes'
  BY <1>31, <1>2 DEF VisitEnds, VisitUnchanged
<1>32. ASSUME NEW t \in LiveTokens, DeleteToken(t) PROVE SignInTypes'
  BY <1>32, <1>2 DEF DeleteToken, VisitUnchanged
<1>33. CASE CreateTenant
  BY <1>33, <1>2 DEF CreateTenant, TenantUnchanged
<1>34. CASE PinTenant
  BY <1>34, <1>2 DEF PinTenant, TenantUnchanged
<1>35. CASE CheckOperations
  BY <1>35, <1>2 DEF CheckOperations, TenantUnchanged
<1>36. CASE RemoveTenant
  BY <1>36, <1>2 DEF RemoveTenant, TenantUnchanged
<1>37. CASE PurgeEnds
  BY <1>37, <1>2 DEF PurgeEnds, TenantUnchanged
<1>38. CASE UNCHANGED avars
  BY <1>38, <1>2 DEF avars
<1>39. QED
  BY <1>1, <1>2, <1>3, <1>4, <1>5, <1>6, <1>7, <1>8, <1>9, <1>10, <1>11, <1>12, <1>13, <1>14,
     <1>15, <1>16, <1>17, <1>18, <1>19, <1>20, <1>21, <1>22, <1>23, <1>24, <1>25, <1>26, <1>27,
     <1>28, <1>29, <1>30, <1>31, <1>32, <1>33, <1>34, <1>35, <1>36, <1>37,
     <1>38 DEF AccountsNext


LEMMA RetainedTyped ==
  ASSUME PortTypes, NEW id \in Identities
  PROVE  /\ Retained(id) \in Identities /\ Retained(id).subject = id.subject
         /\ Retained(id).who = id.who /\ Retained(id).cv = id.cv /\ Retained(id).era = id.era
<1>1. tenant.now \in 0 .. MaxIncarnations /\ 0 \in 0 .. MaxIncarnations
  BY AccountsBounds DEF PortTypes
<1>2. CASE id.subject = Local
  BY <1>1, <1>2 DEF Retained, Identities
<1>3. CASE id.subject # Local
  BY <1>1, <1>3 DEF Retained, Identities
<1>4. QED
  BY <1>2, <1>3

LEMMA VisitTypesKept == AccountsInv /\ [AccountsNext]_avars => VisitTypes'
<1> SUFFICES ASSUME AccountsInv, [AccountsNext]_avars PROVE VisitTypes'
  OBVIOUS
<1>1. /\ topic.signins \subseteq SignIns /\ topic.visits \subseteq Visits
     /\ topic.revocations \in 0 .. MaxRevocations /\ topic.claims \subseteq BOOLEAN
     /\ VisitTypes /\ PortTypes /\ CookieTypes /\ NotVisiting \in VisitRecords
  BY TopicNamed, AccountsBounds, LocalAdminNamed, NoneNamed DEF AccountsInv, AccountsTypes, PortTypes, VisitTypes
<1>2. CASE UNCHANGED <<visit>>
  BY <1>1, <1>2 DEF VisitTypes
<1>3. CASE CooldownPasses
  BY <1>3, <1>2 DEF CooldownPasses
<1>4. CASE KeyRolls
  BY <1>4, <1>2 DEF KeyRolls
<1>5. ASSUME NEW f \in SignIns, NEW d \in BOOLEAN, SsoStart(f, d) PROVE VisitTypes'
  BY <1>5, <1>2 DEF SsoStart
<1>6. ASSUME NEW f \in SignIns, Discovered(f) PROVE VisitTypes'
  BY <1>6, <1>2 DEF Discovered
<1>7. ASSUME NEW f \in SignIns, SsoCallback(f) PROVE VisitTypes'
  BY <1>7, <1>2 DEF SsoCallback
<1>8. ASSUME NEW f \in SignIns, TokenExchange(f) PROVE VisitTypes'
  BY <1>8, <1>2 DEF TokenExchange
<1>9. ASSUME NEW f \in SignIns, MergeGroups(f) PROVE VisitTypes'
  BY <1>9, <1>2 DEF MergeGroups
<1>10. ASSUME NEW f \in SignIns, CheckProvisioned(f) PROVE VisitTypes'
  BY <1>10, <1>2 DEF CheckProvisioned
<1>11. ASSUME NEW f \in SignIns, ReadTenants(f) PROVE VisitTypes'
  BY <1>11, <1>2 DEF ReadTenants
<1>12. ASSUME NEW f \in SignIns, FinishLogin(f) PROVE VisitTypes'
  BY <1>12, <1>2 DEF FinishLogin
<1>13. ASSUME NEW f \in SignIns, SignedIn(f) PROVE VisitTypes'
  BY <1>13, <1>2 DEF SignedIn
<1>14. ASSUME NEW f \in SignIns, AdminLogin(f) PROVE VisitTypes'
  BY <1>14, <1>2 DEF AdminLogin
<1>15. ASSUME NEW id \in handoffs, SsoExchange(id) PROVE VisitTypes'
  BY <1>15, <1>2 DEF SsoExchange
<1>16. ASSUME NEW s \in Subjects, CreateUser(s) PROVE VisitTypes'
  BY <1>16, <1>2 DEF CreateUser
<1>17. ASSUME NEW s \in Subjects, RevokePrincipal(s) PROVE VisitTypes'
  BY <1>17, <1>2 DEF RevokePrincipal
<1>18. ASSUME NEW s \in Subjects, UnblockPrincipal(s) PROVE VisitTypes'
  BY <1>18, <1>2 DEF UnblockPrincipal
<1>19. ASSUME NEW s \in Subjects, PurgePrincipal(s) PROVE VisitTypes'
  BY <1>19, <1>2 DEF PurgePrincipal
<1>20. ASSUME NEW S \in SUBSET Subjects, ChangeGroup(S) PROVE VisitTypes'
  BY <1>20, <1>2 DEF ChangeGroup
<1>21. ASSUME NEW b \in BOOLEAN, Restart(b) PROVE VisitTypes'
  <2>1. visit' = [v \in Visits |-> NotVisiting]
    BY <1>21 DEF Restart
  <2>2. QED
    BY <1>1, <2>1 DEF VisitTypes
<1>22. ASSUME NEW v \in Visits, NEW c \in cookies, VisitBegins(v, c) PROVE VisitTypes'
  <2>1. visit' = [visit EXCEPT ![v] = [pc |-> "admitted", id |-> c.id]] /\ c.id \in Identities
    BY <1>1, <1>22 DEF VisitBegins, CookieTypes
  <2>2. QED
    BY <1>1, <2>1 DEF VisitTypes, VisitRecords
<1>23. ASSUME NEW v \in Visits, TenantOperation(v) PROVE VisitTypes'
  <2>1. visit' = [visit EXCEPT ![v].pc = "operating"] \/ visit' = [visit EXCEPT ![v] = NotVisiting]
    BY <1>23 DEF TenantOperation, Goes, Leaves
  <2>2. QED
    BY <1>1, <2>1 DEF VisitTypes, VisitRecords
<1>24. ASSUME NEW v \in Visits, CheckGrants(v) PROVE VisitTypes'
  <2>1. \/ visit' = [visit EXCEPT ![v] = NotVisiting]
        \/ visit' = [visit EXCEPT ![v] = [pc |-> "acting", id |-> Retained(visit[v].id)]]
    BY <1>24 DEF CheckGrants, Leaves
  <2>2. visit[v].id \in Identities
    BY <1>1 DEF VisitTypes, VisitRecords
  <2>3. Retained(visit[v].id) \in Identities
    BY <1>1, <2>2, RetainedTyped
  <2>4. QED
    BY <1>1, <2>1, <2>3 DEF VisitTypes, VisitRecords
<1>25. ASSUME NEW v \in Visits, SwitchTenant(v) PROVE VisitTypes'
  <2>1. visit' = [visit EXCEPT ![v] = NotVisiting]
    BY <1>25 DEF SwitchTenant, Leaves
  <2>2. QED
    BY <1>1, <2>1 DEF VisitTypes
<1>26. ASSUME NEW v \in Visits, VerifyCurrent(v) PROVE VisitTypes'
  <2>1. visit' = [visit EXCEPT ![v].pc = "changing"]
    BY <1>26 DEF VerifyCurrent, Goes
  <2>2. QED
    BY <1>1, <2>1 DEF VisitTypes, VisitRecords
<1>27. ASSUME NEW v \in Visits, SetPassword(v) PROVE VisitTypes'
  <2>1. visit' = [visit EXCEPT ![v].pc = "changed"]
    BY <1>27 DEF SetPassword, Goes
  <2>2. QED
    BY <1>1, <2>1 DEF VisitTypes, VisitRecords
<1>28. ASSUME NEW v \in Visits, PasswordChanged(v) PROVE VisitTypes'
  <2>1. visit' = [visit EXCEPT ![v] = NotVisiting]
    BY <1>28 DEF PasswordChanged, Leaves
  <2>2. QED
    BY <1>1, <2>1 DEF VisitTypes
<1>29. ASSUME NEW v \in Visits, CountTokens(v) PROVE VisitTypes'
  <2>1. visit' = [visit EXCEPT ![v].pc = "minting"]
    BY <1>29 DEF CountTokens, Goes
  <2>2. QED
    BY <1>1, <2>1 DEF VisitTypes, VisitRecords
<1>30. ASSUME NEW v \in Visits, InsertToken(v) PROVE VisitTypes'
  <2>1. visit' = [visit EXCEPT ![v] = NotVisiting]
    BY <1>30 DEF InsertToken, Leaves
  <2>2. QED
    BY <1>1, <2>1 DEF VisitTypes
<1>31. ASSUME NEW v \in Visits, VisitEnds(v) PROVE VisitTypes'
  <2>1. visit' = [visit EXCEPT ![v] = NotVisiting]
    BY <1>31 DEF VisitEnds, Leaves
  <2>2. QED
    BY <1>1, <2>1 DEF VisitTypes
<1>32. ASSUME NEW t \in LiveTokens, DeleteToken(t) PROVE VisitTypes'
  BY <1>32, <1>2 DEF DeleteToken, VisitUnchanged
<1>33. CASE CreateTenant
  BY <1>33, <1>2 DEF CreateTenant, TenantUnchanged
<1>34. CASE PinTenant
  BY <1>34, <1>2 DEF PinTenant, TenantUnchanged
<1>35. CASE CheckOperations
  BY <1>35, <1>2 DEF CheckOperations, TenantUnchanged
<1>36. CASE RemoveTenant
  BY <1>36, <1>2 DEF RemoveTenant, TenantUnchanged
<1>37. CASE PurgeEnds
  BY <1>37, <1>2 DEF PurgeEnds, TenantUnchanged
<1>38. CASE UNCHANGED avars
  BY <1>38, <1>2 DEF avars
<1>39. QED
  BY <1>1, <1>2, <1>3, <1>4, <1>5, <1>6, <1>7, <1>8, <1>9, <1>10, <1>11, <1>12, <1>13, <1>14,
     <1>15, <1>16, <1>17, <1>18, <1>19, <1>20, <1>21, <1>22, <1>23, <1>24, <1>25, <1>26, <1>27,
     <1>28, <1>29, <1>30, <1>31, <1>32, <1>33, <1>34, <1>35, <1>36, <1>37,
     <1>38 DEF AccountsNext


LEMMA SignedTyped ==
  ASSUME PortTypes, NEW id \in Identities PROVE Signed(id) \in [id : Identities, password : Nat]
  BY AccountsBounds DEF Signed, PortTypes

LEMMA CookieTypesKept == AccountsInv /\ [AccountsNext]_avars => CookieTypes'
<1> SUFFICES ASSUME AccountsInv, [AccountsNext]_avars PROVE CookieTypes'
  OBVIOUS
<1>1. /\ topic.signins \subseteq SignIns /\ topic.visits \subseteq Visits
     /\ topic.revocations \in 0 .. MaxRevocations /\ topic.claims \subseteq BOOLEAN
     /\ SignInTypes /\ VisitTypes /\ PortTypes /\ CookieTypes
  BY TopicNamed, AccountsBounds, LocalAdminNamed, NoneNamed DEF AccountsInv, AccountsTypes, PortTypes, CookieTypes
<1>2. CASE UNCHANGED <<handoffs, cookies>>
  BY <1>1, <1>2 DEF CookieTypes
<1>3. CASE CooldownPasses
  BY <1>3, <1>2 DEF CooldownPasses
<1>4. CASE KeyRolls
  BY <1>4, <1>2 DEF KeyRolls
<1>5. ASSUME NEW f \in SignIns, NEW d \in BOOLEAN, SsoStart(f, d) PROVE CookieTypes'
  BY <1>5, <1>2 DEF SsoStart
<1>6. ASSUME NEW f \in SignIns, Discovered(f) PROVE CookieTypes'
  BY <1>6, <1>2 DEF Discovered
<1>7. ASSUME NEW f \in SignIns, SsoCallback(f) PROVE CookieTypes'
  BY <1>7, <1>2 DEF SsoCallback
<1>8. ASSUME NEW f \in SignIns, TokenExchange(f) PROVE CookieTypes'
  BY <1>8, <1>2 DEF TokenExchange
<1>9. ASSUME NEW f \in SignIns, MergeGroups(f) PROVE CookieTypes'
  BY <1>9, <1>2 DEF MergeGroups
<1>10. ASSUME NEW f \in SignIns, CheckProvisioned(f) PROVE CookieTypes'
  BY <1>10, <1>2 DEF CheckProvisioned
<1>11. ASSUME NEW f \in SignIns, ReadTenants(f) PROVE CookieTypes'
  BY <1>11, <1>2 DEF ReadTenants
<1>12. ASSUME NEW f \in SignIns, FinishLogin(f) PROVE CookieTypes'
  <2>1. handoffs' \subseteq handoffs \cup {LoginIdentity(f)} /\ cookies' = cookies
    BY <1>12 DEF FinishLogin, LoginIdentity
  <2>2. LoginIdentity(f) \in Identities
    BY LoginIdentified, <1>12 DEF FinishLogin
  <2>3. QED
    BY <1>1, <2>1, <2>2 DEF CookieTypes
<1>13. ASSUME NEW f \in SignIns, SignedIn(f) PROVE CookieTypes'
  <2>1. cookies' = cookies \cup {Signed(signin[f].id)} /\ handoffs' = handoffs
    BY <1>13 DEF SignedIn, Issue
  <2>2. signin[f].id \in Identities
    BY <1>1 DEF SignInTypes, SignInRecords
  <2>3. QED
    BY <1>1, <2>1, <2>2, SignedTyped DEF CookieTypes
<1>14. ASSUME NEW f \in SignIns, AdminLogin(f) PROVE CookieTypes'
  BY <1>14, <1>2 DEF AdminLogin
<1>15. ASSUME NEW id \in handoffs, SsoExchange(id) PROVE CookieTypes'
  <2>1. cookies' \subseteq cookies \cup {Signed(id)} /\ handoffs' \subseteq handoffs
    BY <1>15 DEF SsoExchange, Issue
  <2>2. id \in Identities
    BY <1>1 DEF CookieTypes
  <2>3. QED
    BY <1>1, <2>1, <2>2, SignedTyped DEF CookieTypes
<1>16. ASSUME NEW s \in Subjects, CreateUser(s) PROVE CookieTypes'
  BY <1>16, <1>2 DEF CreateUser
<1>17. ASSUME NEW s \in Subjects, RevokePrincipal(s) PROVE CookieTypes'
  BY <1>17, <1>2 DEF RevokePrincipal
<1>18. ASSUME NEW s \in Subjects, UnblockPrincipal(s) PROVE CookieTypes'
  BY <1>18, <1>2 DEF UnblockPrincipal
<1>19. ASSUME NEW s \in Subjects, PurgePrincipal(s) PROVE CookieTypes'
  BY <1>19, <1>2 DEF PurgePrincipal
<1>20. ASSUME NEW S \in SUBSET Subjects, ChangeGroup(S) PROVE CookieTypes'
  BY <1>20, <1>2 DEF ChangeGroup
<1>21. ASSUME NEW b \in BOOLEAN, Restart(b) PROVE CookieTypes'
  <2>1. handoffs' = {} /\ cookies' = cookies
    BY <1>21 DEF Restart
  <2>2. QED
    BY <1>1, <2>1 DEF CookieTypes
<1>22. ASSUME NEW v \in Visits, NEW c \in cookies, VisitBegins(v, c) PROVE CookieTypes'
  BY <1>22, <1>2 DEF VisitBegins, VisitUnchanged
<1>23. ASSUME NEW v \in Visits, TenantOperation(v) PROVE CookieTypes'
  BY <1>23, <1>2 DEF TenantOperation, VisitUnchanged
<1>24. ASSUME NEW v \in Visits, CheckGrants(v) PROVE CookieTypes'
  BY <1>24, <1>2 DEF CheckGrants, VisitUnchanged
<1>25. ASSUME NEW v \in Visits, SwitchTenant(v) PROVE CookieTypes'
  <2>1. /\ \E acts \in {"default", "tenant"} :
             cookies' = cookies \cup {Signed([visit[v].id EXCEPT !.acts = acts])}
        /\ handoffs' = handoffs
    BY <1>25 DEF SwitchTenant, Issue, VisitUnchanged
  <2>2. PICK acts \in {"default", "tenant"} :
          cookies' = cookies \cup {Signed([visit[v].id EXCEPT !.acts = acts])}
    BY <2>1
  <2>3. visit[v].id \in Identities
    BY <1>1 DEF VisitTypes, VisitRecords
  <2>4. [visit[v].id EXCEPT !.acts = acts] \in Identities
    BY <2>3, IdentityChanged
  <2>5. QED
    BY <1>1, <2>1, <2>2, <2>4, SignedTyped DEF CookieTypes
<1>26. ASSUME NEW v \in Visits, VerifyCurrent(v) PROVE CookieTypes'
  BY <1>26, <1>2 DEF VerifyCurrent, VisitUnchanged
<1>27. ASSUME NEW v \in Visits, SetPassword(v) PROVE CookieTypes'
  BY <1>27, <1>2 DEF SetPassword, VisitUnchanged
<1>28. ASSUME NEW v \in Visits, PasswordChanged(v) PROVE CookieTypes'
  <2>1. cookies' = cookies \cup {Signed(Reissued(visit[v].id))} /\ handoffs' = handoffs
    BY <1>28 DEF PasswordChanged, Issue, VisitUnchanged
  <2>2. visit[v].id \in Identities
    BY <1>1 DEF VisitTypes, VisitRecords
  <2>3. Reissued(visit[v].id) \in Identities
    BY <2>2, LocalAdminNamed DEF Reissued
  <2>4. QED
    BY <1>1, <2>1, <2>3, SignedTyped DEF CookieTypes
<1>29. ASSUME NEW v \in Visits, CountTokens(v) PROVE CookieTypes'
  BY <1>29, <1>2 DEF CountTokens, VisitUnchanged
<1>30. ASSUME NEW v \in Visits, InsertToken(v) PROVE CookieTypes'
  BY <1>30, <1>2 DEF InsertToken, VisitUnchanged
<1>31. ASSUME NEW v \in Visits, VisitEnds(v) PROVE CookieTypes'
  BY <1>31, <1>2 DEF VisitEnds, VisitUnchanged
<1>32. ASSUME NEW t \in LiveTokens, DeleteToken(t) PROVE CookieTypes'
  BY <1>32, <1>2 DEF DeleteToken, VisitUnchanged
<1>33. CASE CreateTenant
  BY <1>33, <1>2 DEF CreateTenant, TenantUnchanged
<1>34. CASE PinTenant
  BY <1>34, <1>2 DEF PinTenant, TenantUnchanged
<1>35. CASE CheckOperations
  BY <1>35, <1>2 DEF CheckOperations, TenantUnchanged
<1>36. CASE RemoveTenant
  BY <1>36, <1>2 DEF RemoveTenant, TenantUnchanged
<1>37. CASE PurgeEnds
  BY <1>37, <1>2 DEF PurgeEnds, TenantUnchanged
<1>38. CASE UNCHANGED avars
  BY <1>38, <1>2 DEF avars
<1>39. QED
  BY <1>1, <1>2, <1>3, <1>4, <1>5, <1>6, <1>7, <1>8, <1>9, <1>10, <1>11, <1>12, <1>13, <1>14,
     <1>15, <1>16, <1>17, <1>18, <1>19, <1>20, <1>21, <1>22, <1>23, <1>24, <1>25, <1>26, <1>27,
     <1>28, <1>29, <1>30, <1>31, <1>32, <1>33, <1>34, <1>35, <1>36, <1>37,
     <1>38 DEF AccountsNext


\* A revocation ends tokens and adds none.
LEMMA EndTokensEnds ==
  ASSUME TokenTypes, NEW S, EndTokens(S)
  PROVE  /\ TokenTypes'
         /\ {t \in tokens' : t.live} \subseteq LiveTokens
         /\ \A t \in tokens' : t.live => t.by \notin S
<1>1. \A t \in tokens : [t EXCEPT !.live = t.live /\ t.by \notin S] \in TokenRecords
  BY DEF TokenTypes, TokenRecords
<1>2. TokenTypes'
  BY <1>1 DEF EndTokens, TokenTypes
<1>3. ASSUME NEW t \in tokens, t.live /\ t.by \notin S
      PROVE  [t EXCEPT !.live = t.live /\ t.by \notin S] = t
  <2>1. t \in TokenRecords /\ t.live = TRUE
    BY <1>3 DEF TokenTypes, TokenRecords
  <2>2. QED
    BY <1>3, <2>1 DEF TokenRecords
<1>4. ASSUME NEW u \in tokens', u.live
      PROVE  u \in tokens /\ u.by \notin S
  <2>1. PICK t \in tokens : u = [t EXCEPT !.live = t.live /\ t.by \notin S]
    BY <1>4 DEF EndTokens
  <2>2. u.live = (t.live /\ t.by \notin S)
    BY <2>1 DEF TokenTypes, TokenRecords
  <2>3. QED
    BY <1>3, <1>4, <2>1, <2>2
<1>5. QED
  BY <1>2, <1>4 DEF LiveTokens


LEMMA TokenTypesKept == AccountsInv /\ [AccountsNext]_avars => TokenTypes'
<1> SUFFICES ASSUME AccountsInv, [AccountsNext]_avars PROVE TokenTypes'
  OBVIOUS
<1>1. /\ topic.signins \subseteq SignIns /\ topic.visits \subseteq Visits
     /\ topic.revocations \in 0 .. MaxRevocations /\ topic.claims \subseteq BOOLEAN
     /\ TokenTypes /\ RowTypes /\ VisitTypes
  BY TopicNamed, AccountsBounds, LocalAdminNamed, NoneNamed DEF AccountsInv, AccountsTypes, PortTypes, TokenTypes
<1>2. CASE UNCHANGED <<tokens>>
  BY <1>1, <1>2 DEF TokenTypes
<1>3. CASE CooldownPasses
  BY <1>3, <1>2 DEF CooldownPasses
<1>4. CASE KeyRolls
  BY <1>4, <1>2 DEF KeyRolls
<1>5. ASSUME NEW f \in SignIns, NEW d \in BOOLEAN, SsoStart(f, d) PROVE TokenTypes'
  BY <1>5, <1>2 DEF SsoStart
<1>6. ASSUME NEW f \in SignIns, Discovered(f) PROVE TokenTypes'
  BY <1>6, <1>2 DEF Discovered
<1>7. ASSUME NEW f \in SignIns, SsoCallback(f) PROVE TokenTypes'
  BY <1>7, <1>2 DEF SsoCallback
<1>8. ASSUME NEW f \in SignIns, TokenExchange(f) PROVE TokenTypes'
  BY <1>8, <1>2 DEF TokenExchange
<1>9. ASSUME NEW f \in SignIns, MergeGroups(f) PROVE TokenTypes'
  BY <1>9, <1>2 DEF MergeGroups
<1>10. ASSUME NEW f \in SignIns, CheckProvisioned(f) PROVE TokenTypes'
  BY <1>10, <1>2 DEF CheckProvisioned
<1>11. ASSUME NEW f \in SignIns, ReadTenants(f) PROVE TokenTypes'
  BY <1>11, <1>2 DEF ReadTenants
<1>12. ASSUME NEW f \in SignIns, FinishLogin(f) PROVE TokenTypes'
  BY <1>12, <1>2 DEF FinishLogin
<1>13. ASSUME NEW f \in SignIns, SignedIn(f) PROVE TokenTypes'
  BY <1>13, <1>2 DEF SignedIn
<1>14. ASSUME NEW f \in SignIns, AdminLogin(f) PROVE TokenTypes'
  BY <1>14, <1>2 DEF AdminLogin
<1>15. ASSUME NEW id \in handoffs, SsoExchange(id) PROVE TokenTypes'
  BY <1>15, <1>2 DEF SsoExchange
<1>16. ASSUME NEW s \in Subjects, CreateUser(s) PROVE TokenTypes'
  BY <1>16, <1>2 DEF CreateUser
<1>17. ASSUME NEW s \in Subjects, RevokePrincipal(s) PROVE TokenTypes'
  <2>1. EndTokens({s})
    BY <1>17 DEF RevokePrincipal
  <2>2. QED
    BY <1>1, <2>1, EndTokensEnds
<1>18. ASSUME NEW s \in Subjects, UnblockPrincipal(s) PROVE TokenTypes'
  BY <1>18, <1>2 DEF UnblockPrincipal
<1>19. ASSUME NEW s \in Subjects, PurgePrincipal(s) PROVE TokenTypes'
  BY <1>19, <1>2 DEF PurgePrincipal
<1>20. ASSUME NEW S \in SUBSET Subjects, ChangeGroup(S) PROVE TokenTypes'
  BY <1>20, <1>2 DEF ChangeGroup
<1>21. ASSUME NEW b \in BOOLEAN, Restart(b) PROVE TokenTypes'
  <2>1. tokens' = tokens \/ \E S \in SUBSET Subjects : EndTokens(S)
    BY <1>21 DEF Restart
  <2>2. QED
    BY <1>1, <2>1, EndTokensEnds DEF TokenTypes
<1>22. ASSUME NEW v \in Visits, NEW c \in cookies, VisitBegins(v, c) PROVE TokenTypes'
  BY <1>22, <1>2 DEF VisitBegins, VisitUnchanged
<1>23. ASSUME NEW v \in Visits, TenantOperation(v) PROVE TokenTypes'
  BY <1>23, <1>2 DEF TenantOperation, VisitUnchanged
<1>24. ASSUME NEW v \in Visits, CheckGrants(v) PROVE TokenTypes'
  BY <1>24, <1>2 DEF CheckGrants, VisitUnchanged
<1>25. ASSUME NEW v \in Visits, SwitchTenant(v) PROVE TokenTypes'
  BY <1>25, <1>2 DEF SwitchTenant, VisitUnchanged
<1>26. ASSUME NEW v \in Visits, VerifyCurrent(v) PROVE TokenTypes'
  BY <1>26, <1>2 DEF VerifyCurrent, VisitUnchanged
<1>27. ASSUME NEW v \in Visits, SetPassword(v) PROVE TokenTypes'
  BY <1>27, <1>2 DEF SetPassword, VisitUnchanged
<1>28. ASSUME NEW v \in Visits, PasswordChanged(v) PROVE TokenTypes'
  BY <1>28, <1>2 DEF PasswordChanged, VisitUnchanged
<1>29. ASSUME NEW v \in Visits, CountTokens(v) PROVE TokenTypes'
  BY <1>29, <1>2 DEF CountTokens, VisitUnchanged
<1>30. ASSUME NEW v \in Visits, InsertToken(v) PROVE TokenTypes'
  <2>1. CASE tokens' = tokens
    BY <1>1, <2>1 DEF TokenTypes
  <2>2. CASE tokens' # tokens
    <3>1. PICK n \in 1 .. MaxTokens : tokens' = tokens \cup {Minted(n, visit[v].id)}
      BY <2>2, <1>30 DEF InsertToken
    <3>2. visit[v].id.subject \in Subjects \cup {Local} /\ visit[v].id.era \in 0 .. MaxRevocations
      BY <1>1 DEF VisitTypes, VisitRecords, Identities
    <3>3. Minted(n, visit[v].id) \in TokenRecords
      BY <1>1, <3>2, AccountsBounds DEF Minted, TokenRecords, RowTypes
    <3>4. QED
      BY <1>1, <3>1, <3>3 DEF TokenTypes
  <2>3. QED
    BY <2>1, <2>2
<1>31. ASSUME NEW v \in Visits, VisitEnds(v) PROVE TokenTypes'
  BY <1>31, <1>2 DEF VisitEnds, VisitUnchanged
<1>32. ASSUME NEW t \in LiveTokens, DeleteToken(t) PROVE TokenTypes'
  <2>1. tokens' = (tokens \ {t}) \cup {[t EXCEPT !.live = FALSE]} /\ t \in TokenRecords
    BY <1>1, <1>32 DEF DeleteToken, LiveTokens, TokenTypes
  <2>2. [t EXCEPT !.live = FALSE] \in TokenRecords
    BY <2>1 DEF TokenRecords
  <2>3. QED
    BY <1>1, <2>1, <2>2 DEF TokenTypes
<1>33. CASE CreateTenant
  BY <1>33, <1>2 DEF CreateTenant, TenantUnchanged
<1>34. CASE PinTenant
  BY <1>34, <1>2 DEF PinTenant, TenantUnchanged
<1>35. CASE CheckOperations
  BY <1>35, <1>2 DEF CheckOperations, TenantUnchanged
<1>36. CASE RemoveTenant
  BY <1>36, <1>2 DEF RemoveTenant, TenantUnchanged
<1>37. CASE PurgeEnds
  BY <1>37, <1>2 DEF PurgeEnds, TenantUnchanged
<1>38. CASE UNCHANGED avars
  BY <1>38, <1>2 DEF avars
<1>39. QED
  BY <1>1, <1>2, <1>3, <1>4, <1>5, <1>6, <1>7, <1>8, <1>9, <1>10, <1>11, <1>12, <1>13, <1>14,
     <1>15, <1>16, <1>17, <1>18, <1>19, <1>20, <1>21, <1>22, <1>23, <1>24, <1>25, <1>26, <1>27,
     <1>28, <1>29, <1>30, <1>31, <1>32, <1>33, <1>34, <1>35, <1>36, <1>37,
     <1>38 DEF AccountsNext


LEMMA FewerTokens ==
  ASSUME TokensHeld, \A u \in LiveTokens' : u \in LiveTokens
  PROVE  IsFiniteSet(LiveTokens') /\ Cardinality(LiveTokens') <= TokenCap
<1>1. /\ IsFiniteSet(LiveTokens') /\ Cardinality(LiveTokens') <= Cardinality(LiveTokens)
      /\ Cardinality(LiveTokens) \in Nat /\ Cardinality(LiveTokens') \in Nat
  BY FS_Subset, FS_CardinalityType DEF TokensHeld
<1>2. QED
  BY <1>1, AccountsBounds DEF TokensHeld

LEMMA TokensKept == AccountsInv /\ [AccountsNext]_avars => TokensHeld'
<1> SUFFICES ASSUME AccountsInv, [AccountsNext]_avars PROVE TokensHeld'
  OBVIOUS
<1>1. /\ topic.signins \subseteq SignIns /\ topic.visits \subseteq Visits
     /\ topic.revocations \in 0 .. MaxRevocations /\ topic.claims \subseteq BOOLEAN
     /\ TokensHeld /\ TokenTypes /\ RowTypes /\ VisitTypes /\ VisitsVouched
  BY TopicNamed, AccountsBounds, LocalAdminNamed, NoneNamed DEF AccountsInv, AccountsTypes, PortTypes, TokenRecords, IdentitiesVouched
<1>2. CASE UNCHANGED <<tokens, revoked>>
  BY <1>1, <1>2 DEF TokensHeld, LiveTokens
<1>3. CASE CooldownPasses
  BY <1>3, <1>2 DEF CooldownPasses
<1>4. CASE KeyRolls
  BY <1>4, <1>2 DEF KeyRolls
<1>5. ASSUME NEW f \in SignIns, NEW d \in BOOLEAN, SsoStart(f, d) PROVE TokensHeld'
  BY <1>5, <1>2 DEF SsoStart
<1>6. ASSUME NEW f \in SignIns, Discovered(f) PROVE TokensHeld'
  BY <1>6, <1>2 DEF Discovered
<1>7. ASSUME NEW f \in SignIns, SsoCallback(f) PROVE TokensHeld'
  BY <1>7, <1>2 DEF SsoCallback
<1>8. ASSUME NEW f \in SignIns, TokenExchange(f) PROVE TokensHeld'
  BY <1>8, <1>2 DEF TokenExchange
<1>9. ASSUME NEW f \in SignIns, MergeGroups(f) PROVE TokensHeld'
  BY <1>9, <1>2 DEF MergeGroups
<1>10. ASSUME NEW f \in SignIns, CheckProvisioned(f) PROVE TokensHeld'
  BY <1>10, <1>2 DEF CheckProvisioned
<1>11. ASSUME NEW f \in SignIns, ReadTenants(f) PROVE TokensHeld'
  BY <1>11, <1>2 DEF ReadTenants
<1>12. ASSUME NEW f \in SignIns, FinishLogin(f) PROVE TokensHeld'
  BY <1>12, <1>2 DEF FinishLogin
<1>13. ASSUME NEW f \in SignIns, SignedIn(f) PROVE TokensHeld'
  BY <1>13, <1>2 DEF SignedIn
<1>14. ASSUME NEW f \in SignIns, AdminLogin(f) PROVE TokensHeld'
  BY <1>14, <1>2 DEF AdminLogin
<1>15. ASSUME NEW id \in handoffs, SsoExchange(id) PROVE TokensHeld'
  BY <1>15, <1>2 DEF SsoExchange
<1>16. ASSUME NEW s \in Subjects, CreateUser(s) PROVE TokensHeld'
  BY <1>16, <1>2 DEF CreateUser
<1>17. ASSUME NEW s \in Subjects, RevokePrincipal(s) PROVE TokensHeld'
  <2>1. EndTokens({s}) /\ revoked' = [revoked EXCEPT ![s] = @ + 1]
    BY <1>17 DEF RevokePrincipal
  <2>2. \A u \in LiveTokens' : u \in LiveTokens /\ u.by # s
    BY <1>1, <2>1, EndTokensEnds DEF LiveTokens
  <2>3. \A u \in LiveTokens' : u.by # Local => u.born = revoked'[u.by] /\ u.era <= u.born
    BY <1>1, <2>1, <2>2 DEF TokensHeld, LiveTokens, TokenTypes, TokenRecords, RowTypes
  <2>4. QED
    BY <1>1, <2>2, <2>3, FewerTokens DEF TokensHeld
<1>18. ASSUME NEW s \in Subjects, UnblockPrincipal(s) PROVE TokensHeld'
  BY <1>18, <1>2 DEF UnblockPrincipal
<1>19. ASSUME NEW s \in Subjects, PurgePrincipal(s) PROVE TokensHeld'
  BY <1>19, <1>2 DEF PurgePrincipal
<1>20. ASSUME NEW S \in SUBSET Subjects, ChangeGroup(S) PROVE TokensHeld'
  BY <1>20, <1>2 DEF ChangeGroup
<1>21. ASSUME NEW b \in BOOLEAN, Restart(b) PROVE TokensHeld'
  <2>1. CASE ~b
    BY <2>1, <1>21, <1>2 DEF Restart
  <2>2. CASE b
    <3>1. /\ EndTokens({s \in Subjects : principal[s].row})
          /\ revoked' = [s \in Subjects |-> IF principal[s].row THEN revoked[s] + 1 ELSE revoked[s]]
      BY <2>2, <1>21 DEF Restart
    <3>2. \A u \in LiveTokens' : u \in LiveTokens /\ (u.by \in Subjects => ~principal[u.by].row)
      BY <1>1, <3>1, EndTokensEnds DEF LiveTokens
    <3>3. \A u \in LiveTokens' : u.by # Local => u.born = revoked'[u.by] /\ u.era <= u.born
      BY <1>1, <3>1, <3>2 DEF TokensHeld, LiveTokens, TokenTypes, TokenRecords, RowTypes
    <3>4. QED
      BY <1>1, <3>2, <3>3, FewerTokens DEF TokensHeld
  <2>3. QED
    BY <2>1, <2>2
<1>22. ASSUME NEW v \in Visits, NEW c \in cookies, VisitBegins(v, c) PROVE TokensHeld'
  BY <1>22, <1>2 DEF VisitBegins, VisitUnchanged
<1>23. ASSUME NEW v \in Visits, TenantOperation(v) PROVE TokensHeld'
  BY <1>23, <1>2 DEF TenantOperation, VisitUnchanged
<1>24. ASSUME NEW v \in Visits, CheckGrants(v) PROVE TokensHeld'
  BY <1>24, <1>2 DEF CheckGrants, VisitUnchanged
<1>25. ASSUME NEW v \in Visits, SwitchTenant(v) PROVE TokensHeld'
  BY <1>25, <1>2 DEF SwitchTenant, VisitUnchanged
<1>26. ASSUME NEW v \in Visits, VerifyCurrent(v) PROVE TokensHeld'
  BY <1>26, <1>2 DEF VerifyCurrent, VisitUnchanged
<1>27. ASSUME NEW v \in Visits, SetPassword(v) PROVE TokensHeld'
  BY <1>27, <1>2 DEF SetPassword, VisitUnchanged
<1>28. ASSUME NEW v \in Visits, PasswordChanged(v) PROVE TokensHeld'
  BY <1>28, <1>2 DEF PasswordChanged, VisitUnchanged
<1>29. ASSUME NEW v \in Visits, CountTokens(v) PROVE TokensHeld'
  BY <1>29, <1>2 DEF CountTokens, VisitUnchanged
<1>30. ASSUME NEW v \in Visits, InsertToken(v) PROVE TokensHeld'
  <2>1. CASE tokens' = tokens
    BY <2>1, <1>30, <1>2 DEF InsertToken, VisitUnchanged
  <2>2. CASE tokens' # tokens
    <3>1. /\ Cardinality(LiveTokens) < TokenCap /\ revoked' = revoked
          /\ \E n \in 1 .. MaxTokens : tokens' = tokens \cup {Minted(n, visit[v].id)}
      BY <2>2, <1>30 DEF InsertToken, VisitUnchanged
    <3>2. PICK n \in 1 .. MaxTokens : tokens' = tokens \cup {Minted(n, visit[v].id)}
      BY <3>1
    <3>3. LiveTokens' = LiveTokens \cup {Minted(n, visit[v].id)}
      BY <3>2 DEF LiveTokens, Minted
    <3>4. /\ IsFiniteSet(LiveTokens') /\ Cardinality(LiveTokens') <= Cardinality(LiveTokens) + 1
          /\ Cardinality(LiveTokens) \in Nat /\ Cardinality(LiveTokens') \in Nat
      <4> DEFINE m == Minted(n, visit[v].id)
      <4>1. IsFiniteSet(LiveTokens) /\ Cardinality(LiveTokens) \in Nat
        BY <1>1, FS_CardinalityType DEF TokensHeld
      <4>2. /\ IsFiniteSet(LiveTokens \cup {m})
            /\ Cardinality(LiveTokens \cup {m}) \in
                 {Cardinality(LiveTokens), Cardinality(LiveTokens) + 1}
        BY <4>1, FS_AddElement
      <4>3. QED
        BY <3>3, <4>1, <4>2
    <3>5. Cardinality(LiveTokens') <= TokenCap
      BY <3>1, <3>4, AccountsBounds
    <3>6. \A u \in LiveTokens' : u.by # Local => u.born = revoked'[u.by] /\ u.era <= u.born
      BY <1>1, <3>1, <3>3 DEF TokensHeld, Minted, IdentitiesVouched, VisitsVouched, Vouched
    <3>7. QED
      BY <3>4, <3>5, <3>6 DEF TokensHeld
  <2>3. QED
    BY <2>1, <2>2
<1>31. ASSUME NEW v \in Visits, VisitEnds(v) PROVE TokensHeld'
  BY <1>31, <1>2 DEF VisitEnds, VisitUnchanged
<1>32. ASSUME NEW t \in LiveTokens, DeleteToken(t) PROVE TokensHeld'
  <2>1. tokens' = (tokens \ {t}) \cup {[t EXCEPT !.live = FALSE]} /\ t \in TokenRecords /\ revoked' = revoked
    BY <1>1, <1>32 DEF DeleteToken, LiveTokens, TokenTypes, VisitUnchanged
  <2>2. [t EXCEPT !.live = FALSE].live = FALSE
    BY <2>1 DEF TokenRecords
  <2>3. \A u \in LiveTokens' : u \in LiveTokens
    BY <2>1, <2>2 DEF LiveTokens
  <2>4. QED
    BY <1>1, <2>1, <2>3, FewerTokens DEF TokensHeld
<1>33. CASE CreateTenant
  BY <1>33, <1>2 DEF CreateTenant, TenantUnchanged
<1>34. CASE PinTenant
  BY <1>34, <1>2 DEF PinTenant, TenantUnchanged
<1>35. CASE CheckOperations
  BY <1>35, <1>2 DEF CheckOperations, TenantUnchanged
<1>36. CASE RemoveTenant
  BY <1>36, <1>2 DEF RemoveTenant, TenantUnchanged
<1>37. CASE PurgeEnds
  BY <1>37, <1>2 DEF PurgeEnds, TenantUnchanged
<1>38. CASE UNCHANGED avars
  BY <1>38, <1>2 DEF avars
<1>39. QED
  BY <1>1, <1>2, <1>3, <1>4, <1>5, <1>6, <1>7, <1>8, <1>9, <1>10, <1>11, <1>12, <1>13, <1>14,
     <1>15, <1>16, <1>17, <1>18, <1>19, <1>20, <1>21, <1>22, <1>23, <1>24, <1>25, <1>26, <1>27,
     <1>28, <1>29, <1>30, <1>31, <1>32, <1>33, <1>34, <1>35, <1>36, <1>37,
     <1>38 DEF AccountsNext

LEMMA SubjectsNamedKept == AccountsInv /\ [AccountsNext]_avars => SubjectsNamed'
<1> SUFFICES ASSUME AccountsInv, [AccountsNext]_avars PROVE SubjectsNamed'
  OBVIOUS
<1>1. /\ topic.signins \subseteq SignIns /\ topic.visits \subseteq Visits
     /\ topic.revocations \in 0 .. MaxRevocations /\ topic.claims \subseteq BOOLEAN
     /\ SubjectsNamed /\ SignInTypes
  BY TopicNamed, AccountsBounds, LocalAdminNamed, NoneNamed DEF AccountsInv, AccountsTypes, PortTypes, SignInTypes
<1>2. CASE UNCHANGED <<signin>>
  BY <1>1, <1>2 DEF SubjectsNamed, At, SignInTypes, SignInRecords
<1>3. CASE CooldownPasses
  BY <1>3, <1>2 DEF CooldownPasses
<1>4. CASE KeyRolls
  BY <1>4, <1>2 DEF KeyRolls
<1>5. ASSUME NEW f \in SignIns, NEW d \in BOOLEAN, SsoStart(f, d) PROVE SubjectsNamed'
  <2>1. \A g \in SignIns \ {f} : signin'[g] = signin[g]
    BY <1>1, <1>5 DEF SsoStart, SignInTypes
  <2>2. signin'[f].pc \in {"away", "discover"}
    BY <1>1, <1>5 DEF SsoStart, NotSigning, SignInTypes
  <2>3. QED
    BY <1>1, <2>1, <2>2 DEF SubjectsNamed
<1>6. ASSUME NEW f \in SignIns, Discovered(f) PROVE SubjectsNamed'
  <2>1. \A g \in SignIns \ {f} : signin'[g] = signin[g]
    BY <1>1, <1>6 DEF Discovered, GivesUp, SignInTypes
  <2>2. signin'[f].pc \in Onward
    BY <1>1, <1>6 DEF Discovered, GivesUp, NotSigning, SignInTypes, SignInRecords, Onward
  <2>3. QED
    BY <1>1, <2>1, <2>2 DEF SubjectsNamed, Onward
<1>7. ASSUME NEW f \in SignIns, SsoCallback(f) PROVE SubjectsNamed'
  BY <1>1, <1>7 DEF SsoCallback, NeedsClient, GivesUp, NotSigning, LocalAdmin, SubjectsNamed, At, SignInTypes, SignInRecords
<1>8. ASSUME NEW f \in SignIns, TokenExchange(f) PROVE SubjectsNamed'
  <2>1. \A g \in SignIns \ {f} : signin'[g] = signin[g]
    BY <1>1, <1>8 DEF TokenExchange, GivesUp, SignInTypes
  <2>2. \/ signin'[f].pc = "idle"
        \/ signin'[f].id.subject \in Subjects /\ signin'[f].id.who = signin'[f].id.subject
    <3>1. CASE signin' = [signin EXCEPT ![f] = NotSigning]
      BY <1>1, <3>1 DEF NotSigning, SignInTypes
    <3>2. CASE \E s \in Subjects, claimed \in topic.claims :
                 signin' = [signin EXCEPT ![f].pc = "claims", ![f].grouped = claimed,
                                          ![f].id = [LocalAdmin EXCEPT !.subject = s, !.who = s]]
      <4>1. PICK s \in Subjects, claimed \in topic.claims :
              signin' = [signin EXCEPT ![f].pc = "claims", ![f].grouped = claimed,
                                       ![f].id = [LocalAdmin EXCEPT !.subject = s, !.who = s]]
        BY <3>2
      <4>2. signin'[f].id = [LocalAdmin EXCEPT !.subject = s, !.who = s]
        BY <1>1, <4>1 DEF SignInTypes, SignInRecords
      <4>3. QED
        BY <4>2 DEF LocalAdmin
    <3>3. QED
      BY <3>1, <3>2, <1>8 DEF TokenExchange, GivesUp
  <2>3. QED
    BY <1>1, <2>1, <2>2 DEF SubjectsNamed
<1>9. ASSUME NEW f \in SignIns, MergeGroups(f) PROVE SubjectsNamed'
  BY <1>1, <1>9 DEF MergeGroups, SubjectsNamed, At, SignInTypes, SignInRecords
<1>10. ASSUME NEW f \in SignIns, CheckProvisioned(f) PROVE SubjectsNamed'
  BY <1>1, <1>10 DEF CheckProvisioned, Proceeds, GivesUp, NotSigning, LocalAdmin, SubjectsNamed, At, SignInTypes, SignInRecords
<1>11. ASSUME NEW f \in SignIns, ReadTenants(f) PROVE SubjectsNamed'
  BY <1>1, <1>11 DEF ReadTenants, SubjectsNamed, At, SignInTypes, SignInRecords
<1>12. ASSUME NEW f \in SignIns, FinishLogin(f) PROVE SubjectsNamed'
  <2>1. \A g \in SignIns \ {f} : signin'[g] = signin[g]
    BY <1>1, <1>12 DEF FinishLogin, GivesUp, SignInTypes
  <2>2. signin'[f].pc \in {"issue", "idle"}
    BY <1>1, <1>12 DEF FinishLogin, GivesUp, NotSigning, SignInTypes, SignInRecords
  <2>3. QED
    BY <1>1, <2>1, <2>2 DEF SubjectsNamed
<1>13. ASSUME NEW f \in SignIns, SignedIn(f) PROVE SubjectsNamed'
  BY <1>1, <1>13 DEF SignedIn, GivesUp, NotSigning, LocalAdmin, Issue, Signed, SubjectsNamed, At, SignInTypes, SignInRecords
<1>14. ASSUME NEW f \in SignIns, AdminLogin(f) PROVE SubjectsNamed'
  BY <1>1, <1>14 DEF AdminLogin, NotSigning, LocalAdmin, SubjectsNamed, At, SignInTypes, SignInRecords
<1>15. ASSUME NEW id \in handoffs, SsoExchange(id) PROVE SubjectsNamed'
  BY <1>15, <1>2 DEF SsoExchange
<1>16. ASSUME NEW s \in Subjects, CreateUser(s) PROVE SubjectsNamed'
  BY <1>16, <1>2 DEF CreateUser
<1>17. ASSUME NEW s \in Subjects, RevokePrincipal(s) PROVE SubjectsNamed'
  BY <1>17, <1>2 DEF RevokePrincipal
<1>18. ASSUME NEW s \in Subjects, UnblockPrincipal(s) PROVE SubjectsNamed'
  BY <1>18, <1>2 DEF UnblockPrincipal
<1>19. ASSUME NEW s \in Subjects, PurgePrincipal(s) PROVE SubjectsNamed'
  BY <1>19, <1>2 DEF PurgePrincipal
<1>20. ASSUME NEW S \in SUBSET Subjects, ChangeGroup(S) PROVE SubjectsNamed'
  BY <1>20, <1>2 DEF ChangeGroup
<1>21. ASSUME NEW b \in BOOLEAN, Restart(b) PROVE SubjectsNamed'
  BY <1>1, <1>21 DEF Restart, EndTokens, NotSigning, NotVisiting, LocalAdmin, NoRow, SubjectsNamed, At, SignInTypes, SignInRecords
<1>22. ASSUME NEW v \in Visits, NEW c \in cookies, VisitBegins(v, c) PROVE SubjectsNamed'
  BY <1>22, <1>2 DEF VisitBegins, VisitUnchanged
<1>23. ASSUME NEW v \in Visits, TenantOperation(v) PROVE SubjectsNamed'
  BY <1>23, <1>2 DEF TenantOperation, VisitUnchanged
<1>24. ASSUME NEW v \in Visits, CheckGrants(v) PROVE SubjectsNamed'
  BY <1>24, <1>2 DEF CheckGrants, VisitUnchanged
<1>25. ASSUME NEW v \in Visits, SwitchTenant(v) PROVE SubjectsNamed'
  BY <1>25, <1>2 DEF SwitchTenant, VisitUnchanged
<1>26. ASSUME NEW v \in Visits, VerifyCurrent(v) PROVE SubjectsNamed'
  BY <1>26, <1>2 DEF VerifyCurrent, VisitUnchanged
<1>27. ASSUME NEW v \in Visits, SetPassword(v) PROVE SubjectsNamed'
  BY <1>27, <1>2 DEF SetPassword, VisitUnchanged
<1>28. ASSUME NEW v \in Visits, PasswordChanged(v) PROVE SubjectsNamed'
  BY <1>28, <1>2 DEF PasswordChanged, VisitUnchanged
<1>29. ASSUME NEW v \in Visits, CountTokens(v) PROVE SubjectsNamed'
  BY <1>29, <1>2 DEF CountTokens, VisitUnchanged
<1>30. ASSUME NEW v \in Visits, InsertToken(v) PROVE SubjectsNamed'
  BY <1>30, <1>2 DEF InsertToken, VisitUnchanged
<1>31. ASSUME NEW v \in Visits, VisitEnds(v) PROVE SubjectsNamed'
  BY <1>31, <1>2 DEF VisitEnds, VisitUnchanged
<1>32. ASSUME NEW t \in LiveTokens, DeleteToken(t) PROVE SubjectsNamed'
  BY <1>32, <1>2 DEF DeleteToken, VisitUnchanged
<1>33. CASE CreateTenant
  BY <1>33, <1>2 DEF CreateTenant, TenantUnchanged
<1>34. CASE PinTenant
  BY <1>34, <1>2 DEF PinTenant, TenantUnchanged
<1>35. CASE CheckOperations
  BY <1>35, <1>2 DEF CheckOperations, TenantUnchanged
<1>36. CASE RemoveTenant
  BY <1>36, <1>2 DEF RemoveTenant, TenantUnchanged
<1>37. CASE PurgeEnds
  BY <1>37, <1>2 DEF PurgeEnds, TenantUnchanged
<1>38. CASE UNCHANGED avars
  BY <1>38, <1>2 DEF avars
<1>39. QED
  BY <1>1, <1>2, <1>3, <1>4, <1>5, <1>6, <1>7, <1>8, <1>9, <1>10, <1>11, <1>12, <1>13, <1>14,
     <1>15, <1>16, <1>17, <1>18, <1>19, <1>20, <1>21, <1>22, <1>23, <1>24, <1>25, <1>26, <1>27,
     <1>28, <1>29, <1>30, <1>31, <1>32, <1>33, <1>34, <1>35, <1>36, <1>37,
     <1>38 DEF AccountsNext

LEMMA DiscoveryKept == AccountsInv /\ [AccountsNext]_avars => DiscoveryClaimed'
<1> SUFFICES ASSUME AccountsInv, [AccountsNext]_avars PROVE DiscoveryClaimed'
  OBVIOUS
<1>1. /\ topic.signins \subseteq SignIns /\ topic.visits \subseteq Visits
     /\ topic.revocations \in 0 .. MaxRevocations /\ topic.claims \subseteq BOOLEAN
     /\ DiscoveryClaimed /\ SignInTypes /\ PortTypes
  BY TopicNamed, AccountsBounds, LocalAdminNamed, NoneNamed DEF AccountsInv, AccountsTypes, PortTypes, SignInTypes
<1>2. CASE UNCHANGED <<signin, slot>>
  BY <1>1, <1>2 DEF DiscoveryClaimed, At, SignInTypes
<1>3. CASE CooldownPasses
  BY <1>1, <1>3 DEF CooldownPasses, DiscoveryClaimed, At, SignInTypes
<1>4. CASE KeyRolls
  BY <1>4, <1>2 DEF KeyRolls
<1>5. ASSUME NEW f \in SignIns, NEW d \in BOOLEAN, SsoStart(f, d) PROVE DiscoveryClaimed'
  BY <1>1, <1>5 DEF SsoStart, NotSigning, LocalAdmin, DiscoveryClaimed, At, SignInTypes
<1>6. ASSUME NEW f \in SignIns, Discovered(f) PROVE DiscoveryClaimed'
  <2>1. slot'.state # "discovering"
    BY <1>1, <1>6 DEF Discovered, PortTypes
  <2>2. QED
    BY <2>1 DEF DiscoveryClaimed
<1>7. ASSUME NEW f \in SignIns, SsoCallback(f) PROVE DiscoveryClaimed'
  <2>1. \A g \in SignIns \ {f} : signin'[g] = signin[g]
    BY <1>1, <1>7 DEF SsoCallback, NeedsClient, GivesUp, SignInTypes
  <2>2. signin[f].pc = "away"
    BY <1>7 DEF SsoCallback, At
  <2>3. \/ slot' = slot
        \/ signin'[f].pc = "discover"
    BY <1>1, <1>7 DEF SsoCallback, NeedsClient, SignInTypes, SignInRecords
  <2>4. QED
    BY <1>1, <2>1, <2>2, <2>3 DEF DiscoveryClaimed, At
<1>8. ASSUME NEW f \in SignIns, TokenExchange(f) PROVE DiscoveryClaimed'
  <2>1. \A g \in SignIns \ {f} : signin'[g] = signin[g]
    BY <1>1, <1>8 DEF TokenExchange, GivesUp, SignInTypes
  <2>2. signin[f].pc = "exchange"
    BY <1>8 DEF TokenExchange, At
  <2>3. slot' = slot \/ slot'.state = "failed"
    BY <1>1, <1>8 DEF TokenExchange, PortTypes
  <2>4. QED
    BY <1>1, <2>1, <2>2, <2>3 DEF DiscoveryClaimed, At
<1>9. ASSUME NEW f \in SignIns, MergeGroups(f) PROVE DiscoveryClaimed'
  BY <1>1, <1>9 DEF MergeGroups, DiscoveryClaimed, At, SignInTypes
<1>10. ASSUME NEW f \in SignIns, CheckProvisioned(f) PROVE DiscoveryClaimed'
  BY <1>1, <1>10 DEF CheckProvisioned, Proceeds, GivesUp, NotSigning, LocalAdmin, DiscoveryClaimed, At, SignInTypes
<1>11. ASSUME NEW f \in SignIns, ReadTenants(f) PROVE DiscoveryClaimed'
  BY <1>1, <1>11 DEF ReadTenants, DiscoveryClaimed, At, SignInTypes
<1>12. ASSUME NEW f \in SignIns, FinishLogin(f) PROVE DiscoveryClaimed'
  BY <1>1, <1>12 DEF FinishLogin, GivesUp, NotSigning, LocalAdmin, Upserted, FreshVersion, NoRow, DiscoveryClaimed, At, SignInTypes
<1>13. ASSUME NEW f \in SignIns, SignedIn(f) PROVE DiscoveryClaimed'
  BY <1>1, <1>13 DEF SignedIn, GivesUp, NotSigning, LocalAdmin, Issue, Signed, DiscoveryClaimed, At, SignInTypes
<1>14. ASSUME NEW f \in SignIns, AdminLogin(f) PROVE DiscoveryClaimed'
  BY <1>1, <1>14 DEF AdminLogin, NotSigning, LocalAdmin, DiscoveryClaimed, At, SignInTypes
<1>15. ASSUME NEW id \in handoffs, SsoExchange(id) PROVE DiscoveryClaimed'
  BY <1>15, <1>2 DEF SsoExchange
<1>16. ASSUME NEW s \in Subjects, CreateUser(s) PROVE DiscoveryClaimed'
  BY <1>16, <1>2 DEF CreateUser
<1>17. ASSUME NEW s \in Subjects, RevokePrincipal(s) PROVE DiscoveryClaimed'
  BY <1>17, <1>2 DEF RevokePrincipal
<1>18. ASSUME NEW s \in Subjects, UnblockPrincipal(s) PROVE DiscoveryClaimed'
  BY <1>18, <1>2 DEF UnblockPrincipal
<1>19. ASSUME NEW s \in Subjects, PurgePrincipal(s) PROVE DiscoveryClaimed'
  BY <1>19, <1>2 DEF PurgePrincipal
<1>20. ASSUME NEW S \in SUBSET Subjects, ChangeGroup(S) PROVE DiscoveryClaimed'
  BY <1>20, <1>2 DEF ChangeGroup
<1>21. ASSUME NEW b \in BOOLEAN, Restart(b) PROVE DiscoveryClaimed'
  BY <1>1, <1>21 DEF Restart, EndTokens, NotSigning, NotVisiting, LocalAdmin, NoRow, DiscoveryClaimed, At, SignInTypes
<1>22. ASSUME NEW v \in Visits, NEW c \in cookies, VisitBegins(v, c) PROVE DiscoveryClaimed'
  BY <1>22, <1>2 DEF VisitBegins, VisitUnchanged
<1>23. ASSUME NEW v \in Visits, TenantOperation(v) PROVE DiscoveryClaimed'
  BY <1>23, <1>2 DEF TenantOperation, VisitUnchanged
<1>24. ASSUME NEW v \in Visits, CheckGrants(v) PROVE DiscoveryClaimed'
  BY <1>24, <1>2 DEF CheckGrants, VisitUnchanged
<1>25. ASSUME NEW v \in Visits, SwitchTenant(v) PROVE DiscoveryClaimed'
  BY <1>25, <1>2 DEF SwitchTenant, VisitUnchanged
<1>26. ASSUME NEW v \in Visits, VerifyCurrent(v) PROVE DiscoveryClaimed'
  BY <1>26, <1>2 DEF VerifyCurrent, VisitUnchanged
<1>27. ASSUME NEW v \in Visits, SetPassword(v) PROVE DiscoveryClaimed'
  BY <1>27, <1>2 DEF SetPassword, VisitUnchanged
<1>28. ASSUME NEW v \in Visits, PasswordChanged(v) PROVE DiscoveryClaimed'
  BY <1>28, <1>2 DEF PasswordChanged, VisitUnchanged
<1>29. ASSUME NEW v \in Visits, CountTokens(v) PROVE DiscoveryClaimed'
  BY <1>29, <1>2 DEF CountTokens, VisitUnchanged
<1>30. ASSUME NEW v \in Visits, InsertToken(v) PROVE DiscoveryClaimed'
  BY <1>30, <1>2 DEF InsertToken, VisitUnchanged
<1>31. ASSUME NEW v \in Visits, VisitEnds(v) PROVE DiscoveryClaimed'
  BY <1>31, <1>2 DEF VisitEnds, VisitUnchanged
<1>32. ASSUME NEW t \in LiveTokens, DeleteToken(t) PROVE DiscoveryClaimed'
  BY <1>32, <1>2 DEF DeleteToken, VisitUnchanged
<1>33. CASE CreateTenant
  BY <1>33, <1>2 DEF CreateTenant, TenantUnchanged
<1>34. CASE PinTenant
  BY <1>34, <1>2 DEF PinTenant, TenantUnchanged
<1>35. CASE CheckOperations
  BY <1>35, <1>2 DEF CheckOperations, TenantUnchanged
<1>36. CASE RemoveTenant
  BY <1>36, <1>2 DEF RemoveTenant, TenantUnchanged
<1>37. CASE PurgeEnds
  BY <1>37, <1>2 DEF PurgeEnds, TenantUnchanged
<1>38. CASE UNCHANGED avars
  BY <1>38, <1>2 DEF avars
<1>39. QED
  BY <1>1, <1>2, <1>3, <1>4, <1>5, <1>6, <1>7, <1>8, <1>9, <1>10, <1>11, <1>12, <1>13, <1>14,
     <1>15, <1>16, <1>17, <1>18, <1>19, <1>20, <1>21, <1>22, <1>23, <1>24, <1>25, <1>26, <1>27,
     <1>28, <1>29, <1>30, <1>31, <1>32, <1>33, <1>34, <1>35, <1>36, <1>37,
     <1>38 DEF AccountsNext

LEMMA TenancyKept == AccountsInv /\ [AccountsNext]_avars => Tenancy'
<1> SUFFICES ASSUME AccountsInv, [AccountsNext]_avars PROVE Tenancy'
  OBVIOUS
<1>1. /\ topic.signins \subseteq SignIns /\ topic.visits \subseteq Visits
     /\ topic.revocations \in 0 .. MaxRevocations /\ topic.claims \subseteq BOOLEAN
     /\ Tenancy /\ VisitTypes /\ PortTypes
  BY TopicNamed, AccountsBounds, LocalAdminNamed, NoneNamed DEF AccountsInv, AccountsTypes, PortTypes, VisitTypes
<1>2. CASE UNCHANGED <<visit, tenant, removal>>
  BY <1>1, <1>2 DEF Tenancy, VisitTypes, VisitRecords
<1>3. CASE CooldownPasses
  BY <1>3, <1>2 DEF CooldownPasses
<1>4. CASE KeyRolls
  BY <1>4, <1>2 DEF KeyRolls
<1>5. ASSUME NEW f \in SignIns, NEW d \in BOOLEAN, SsoStart(f, d) PROVE Tenancy'
  BY <1>5, <1>2 DEF SsoStart
<1>6. ASSUME NEW f \in SignIns, Discovered(f) PROVE Tenancy'
  BY <1>6, <1>2 DEF Discovered
<1>7. ASSUME NEW f \in SignIns, SsoCallback(f) PROVE Tenancy'
  BY <1>7, <1>2 DEF SsoCallback
<1>8. ASSUME NEW f \in SignIns, TokenExchange(f) PROVE Tenancy'
  BY <1>8, <1>2 DEF TokenExchange
<1>9. ASSUME NEW f \in SignIns, MergeGroups(f) PROVE Tenancy'
  BY <1>9, <1>2 DEF MergeGroups
<1>10. ASSUME NEW f \in SignIns, CheckProvisioned(f) PROVE Tenancy'
  BY <1>10, <1>2 DEF CheckProvisioned
<1>11. ASSUME NEW f \in SignIns, ReadTenants(f) PROVE Tenancy'
  BY <1>11, <1>2 DEF ReadTenants
<1>12. ASSUME NEW f \in SignIns, FinishLogin(f) PROVE Tenancy'
  BY <1>12, <1>2 DEF FinishLogin
<1>13. ASSUME NEW f \in SignIns, SignedIn(f) PROVE Tenancy'
  BY <1>13, <1>2 DEF SignedIn
<1>14. ASSUME NEW f \in SignIns, AdminLogin(f) PROVE Tenancy'
  BY <1>14, <1>2 DEF AdminLogin
<1>15. ASSUME NEW id \in handoffs, SsoExchange(id) PROVE Tenancy'
  BY <1>15, <1>2 DEF SsoExchange
<1>16. ASSUME NEW s \in Subjects, CreateUser(s) PROVE Tenancy'
  BY <1>16, <1>2 DEF CreateUser
<1>17. ASSUME NEW s \in Subjects, RevokePrincipal(s) PROVE Tenancy'
  BY <1>17, <1>2 DEF RevokePrincipal
<1>18. ASSUME NEW s \in Subjects, UnblockPrincipal(s) PROVE Tenancy'
  BY <1>18, <1>2 DEF UnblockPrincipal
<1>19. ASSUME NEW s \in Subjects, PurgePrincipal(s) PROVE Tenancy'
  BY <1>19, <1>2 DEF PurgePrincipal
<1>20. ASSUME NEW S \in SUBSET Subjects, ChangeGroup(S) PROVE Tenancy'
  BY <1>20, <1>2 DEF ChangeGroup
<1>21. ASSUME NEW b \in BOOLEAN, Restart(b) PROVE Tenancy'
  BY <1>1, <1>21 DEF Restart, EndTokens, NotSigning, NotVisiting, LocalAdmin, NoRow, Tenancy, VisitTypes, VisitRecords
<1>22. ASSUME NEW v \in Visits, NEW c \in cookies, VisitBegins(v, c) PROVE Tenancy'
  BY <1>1, <1>22 DEF VisitBegins, InVisit, VisitUnchanged, Tenancy, VisitTypes, VisitRecords
<1>23. ASSUME NEW v \in Visits, TenantOperation(v) PROVE Tenancy'
  BY <1>1, <1>23 DEF TenantOperation, InVisit, VisitUnchanged, Goes, Leaves, NotVisiting, LocalAdmin, Tenancy, VisitTypes, VisitRecords
<1>24. ASSUME NEW v \in Visits, CheckGrants(v) PROVE Tenancy'
  <2>1. \/ visit' = [visit EXCEPT ![v] = NotVisiting]
        \/ /\ visit' = [visit EXCEPT ![v] = [pc |-> "acting", id |-> Retained(visit[v].id)]]
           /\ ~(Retained(visit[v].id).acts = "tenant" /\ Retained(visit[v].id).grant = 0)
    BY <1>24 DEF CheckGrants, Leaves
  <2>2. visit[v].pc = "operating" /\ tenant' = tenant /\ removal' = removal
    BY <1>24 DEF CheckGrants, InVisit, VisitUnchanged
  <2>3. visit[v].id \in Identities
    BY <1>1 DEF VisitTypes, VisitRecords
  <2>4. Retained(visit[v].id).acts = "tenant" =>
          /\ visit[v].id.acts = "tenant"
          /\ Retained(visit[v].id).grant \in {0, tenant.now}
    BY <2>3 DEF Retained, Identities
  <2>5. QED
    BY <1>1, <2>1, <2>2, <2>4 DEF Tenancy, VisitTypes, NotVisiting, LocalAdmin
<1>25. ASSUME NEW v \in Visits, SwitchTenant(v) PROVE Tenancy'
  BY <1>1, <1>25 DEF SwitchTenant, InVisit, VisitUnchanged, Leaves, NotVisiting, LocalAdmin, Issue, Signed, Tenancy, VisitTypes, VisitRecords
<1>26. ASSUME NEW v \in Visits, VerifyCurrent(v) PROVE Tenancy'
  BY <1>1, <1>26 DEF VerifyCurrent, InVisit, VisitUnchanged, Goes, Tenancy, VisitTypes, VisitRecords
<1>27. ASSUME NEW v \in Visits, SetPassword(v) PROVE Tenancy'
  BY <1>1, <1>27 DEF SetPassword, InVisit, VisitUnchanged, Goes, Tenancy, VisitTypes, VisitRecords
<1>28. ASSUME NEW v \in Visits, PasswordChanged(v) PROVE Tenancy'
  BY <1>1, <1>28 DEF PasswordChanged, InVisit, VisitUnchanged, Leaves, NotVisiting, LocalAdmin, Issue, Signed, Reissued, Tenancy, VisitTypes, VisitRecords
<1>29. ASSUME NEW v \in Visits, CountTokens(v) PROVE Tenancy'
  BY <1>1, <1>29 DEF CountTokens, InVisit, VisitUnchanged, Goes, Tenancy, VisitTypes, VisitRecords
<1>30. ASSUME NEW v \in Visits, InsertToken(v) PROVE Tenancy'
  BY <1>1, <1>30 DEF InsertToken, InVisit, VisitUnchanged, Leaves, NotVisiting, LocalAdmin, Tenancy, VisitTypes, VisitRecords
<1>31. ASSUME NEW v \in Visits, VisitEnds(v) PROVE Tenancy'
  BY <1>1, <1>31 DEF VisitEnds, InVisit, VisitUnchanged, Leaves, NotVisiting, LocalAdmin, Tenancy, VisitTypes, VisitRecords
<1>32. ASSUME NEW t \in LiveTokens, DeleteToken(t) PROVE Tenancy'
  BY <1>32, <1>2 DEF DeleteToken, VisitUnchanged
<1>33. CASE CreateTenant
  BY <1>1, <1>33 DEF CreateTenant, TenantUnchanged, Tenancy, VisitTypes, VisitRecords
<1>34. CASE PinTenant
  BY <1>1, <1>34 DEF PinTenant, TenantUnchanged, Tenancy, VisitTypes, VisitRecords
<1>35. CASE CheckOperations
  <2>1. /\ visit' = visit /\ tenant' = tenant
        /\ removal' = "none" \/ \A v \in Visits : v \notin Operations
    BY <1>35 DEF CheckOperations, TenantUnchanged
  <2>2. QED
    BY <1>1, <2>1 DEF Tenancy, Operations, InVisit
<1>36. CASE RemoveTenant
  BY <1>1, <1>36 DEF RemoveTenant, TenantUnchanged, Tenancy, VisitTypes, VisitRecords
<1>37. CASE PurgeEnds
  BY <1>1, <1>37 DEF PurgeEnds, TenantUnchanged, Tenancy, VisitTypes, VisitRecords
<1>38. CASE UNCHANGED avars
  BY <1>38, <1>2 DEF avars
<1>39. QED
  BY <1>1, <1>2, <1>3, <1>4, <1>5, <1>6, <1>7, <1>8, <1>9, <1>10, <1>11, <1>12, <1>13, <1>14,
     <1>15, <1>16, <1>17, <1>18, <1>19, <1>20, <1>21, <1>22, <1>23, <1>24, <1>25, <1>26, <1>27,
     <1>28, <1>29, <1>30, <1>31, <1>32, <1>33, <1>34, <1>35, <1>36, <1>37,
     <1>38 DEF AccountsNext


LEMMA SameVouched ==
  ASSUME NEW id, NEW other, other.subject = id.subject, other.who = id.who,
         other.cv = id.cv, other.era = id.era
  PROVE  (Vouched(id) => Vouched(other)) /\ (Vouched(id)' => Vouched(other)')
  BY DEF Vouched

LEMMA LocalVouched == Vouched(LocalAdmin) /\ Vouched(LocalAdmin)'
  BY LocalAdminNamed DEF Vouched

LEMMA AllVouchedKept ==
  ASSUME AccountsInv, [AccountsNext]_avars
  PROVE  \A id \in Identities : Vouched(id) => Vouched(id)'
  BY RowsAdvance, VouchedKept

\* A sign-in that ends is vouched for by the row it has just read or written.
LEMMA LoginVouched ==
  ASSUME AccountsInv, NEW f \in SignIns, FinishLogin(f)
  PROVE  \A id : id = LoginIdentity(f) => Vouched(id)'
<1> TAKE id
<1> HAVE id = LoginIdentity(f)
<1> DEFINE u == signin[f].id.subject
<1>1. /\ At(f, "upsert") /\ revoked' = revoked
      /\ principal' = [principal EXCEPT ![u] = Upserted(u)]
  BY DEF FinishLogin
<1>2. /\ u \in Subjects /\ id.subject = u /\ id.who = u /\ id.cv = Upserted(u).cv
      /\ id.era = revoked[u]
  BY <1>1, LoginIdentified
<1> HIDE DEF u
<1>3. principal'[u] = Upserted(u)
  BY <1>1, <1>2 DEF AccountsInv, AccountsTypes, RowTypes
<1>4. Upserted(u).row /\ 1 <= Upserted(u).cv /\ Upserted(u).cv \in Int
  <2>1. CASE principal[u].row
    BY <1>2, <2>1
    DEF AccountsInv, AccountsTypes, RowTypes, Versions, VersionsHeld, Upserted
  <2>2. CASE ~principal[u].row
    <3>1. tomb[u] \in Nat /\ FreshVersion(u) = tomb[u] + 1
      BY <1>2, FreshVersions DEF AccountsInv, AccountsTypes, RowTypes, Versions
    <3>2. Upserted(u).row /\ Upserted(u).cv = FreshVersion(u)
      BY <2>2 DEF Upserted, NoRow
    <3>3. QED
      BY <3>1, <3>2
  <2>3. QED
    BY <2>1, <2>2
<1>5. revoked[u] \in Int
  BY <1>2 DEF AccountsInv, AccountsTypes, RowTypes
<1>6. QED
  BY <1>1, <1>2, <1>3, <1>4, <1>5 DEF Vouched

LEMMA IssuingKept == AccountsInv /\ [AccountsNext]_avars => IssuingVouched'
<1> SUFFICES ASSUME AccountsInv, [AccountsNext]_avars PROVE IssuingVouched'
  OBVIOUS
<1>1. /\ topic.signins \subseteq SignIns /\ topic.visits \subseteq Visits
     /\ topic.revocations \in 0 .. MaxRevocations /\ topic.claims \subseteq BOOLEAN
     /\ SignInTypes /\ IssuingVouched
  BY TopicNamed, AccountsBounds, LocalAdminNamed, NoneNamed DEF AccountsInv, AccountsTypes, PortTypes, SignInTypes, IdentitiesVouched
<1>2. \A id \in Identities : Vouched(id) => Vouched(id)'
  BY AllVouchedKept
<1>3. CASE UNCHANGED <<signin>>
  BY <1>1, <1>2, <1>3 DEF IssuingVouched, At, SignInTypes, SignInRecords
<1>4. CASE CooldownPasses
  BY <1>4, <1>3 DEF CooldownPasses
<1>5. CASE KeyRolls
  BY <1>5, <1>3 DEF KeyRolls
<1>6. ASSUME NEW f \in SignIns, NEW d \in BOOLEAN, SsoStart(f, d) PROVE IssuingVouched'
  <2>1. \A g \in SignIns \ {f} : signin'[g] = signin[g]
    BY <1>1, <1>6 DEF SsoStart, SignInTypes
  <2>2. signin'[f].pc \in {"away", "discover"}
    BY <1>1, <1>6 DEF SsoStart, NotSigning, SignInTypes
  <2>3. QED
    BY <1>1, <1>2, <2>1, <2>2 DEF IssuingVouched, At, SignInTypes, SignInRecords
<1>7. ASSUME NEW f \in SignIns, Discovered(f) PROVE IssuingVouched'
  <2>1. \A g \in SignIns \ {f} : signin'[g] = signin[g]
    BY <1>1, <1>7 DEF Discovered, GivesUp, Onward, SignInTypes
  <2>2. signin'[f].pc \in Onward
    BY <1>1, <1>7 DEF Discovered, GivesUp, Onward, NotSigning, SignInTypes, SignInRecords
  <2>3. QED
    BY <1>1, <1>2, <2>1, <2>2 DEF IssuingVouched, At, SignInTypes, SignInRecords, Onward
<1>8. ASSUME NEW f \in SignIns, SsoCallback(f) PROVE IssuingVouched'
  <2>1. \A g \in SignIns \ {f} : signin'[g] = signin[g]
    BY <1>1, <1>8 DEF SsoCallback, NeedsClient, GivesUp, SignInTypes
  <2>2. signin'[f].pc \in {"exchange", "discover", "idle"}
    BY <1>1, <1>8 DEF SsoCallback, NeedsClient, GivesUp, NotSigning, SignInTypes, SignInRecords
  <2>3. QED
    BY <1>1, <1>2, <2>1, <2>2 DEF IssuingVouched, At, SignInTypes, SignInRecords
<1>9. ASSUME NEW f \in SignIns, TokenExchange(f) PROVE IssuingVouched'
  <2>1. \A g \in SignIns \ {f} : signin'[g] = signin[g]
    BY <1>1, <1>9 DEF TokenExchange, GivesUp, SignInTypes
  <2>2. signin'[f].pc \in {"idle", "claims"}
    <3>1. CASE signin' = [signin EXCEPT ![f] = NotSigning]
      BY <1>1, <3>1 DEF NotSigning, SignInTypes
    <3>2. CASE \E s \in Subjects, claimed \in topic.claims :
                 signin' = [signin EXCEPT ![f].pc = "claims", ![f].grouped = claimed,
                                          ![f].id = [LocalAdmin EXCEPT !.subject = s, !.who = s]]
      BY <1>1, <3>2 DEF SignInTypes, SignInRecords
    <3>3. QED
      BY <3>1, <3>2, <1>9 DEF TokenExchange, GivesUp
  <2>3. QED
    BY <1>1, <1>2, <2>1, <2>2 DEF IssuingVouched, At, SignInTypes, SignInRecords
<1>10. ASSUME NEW f \in SignIns, MergeGroups(f) PROVE IssuingVouched'
  <2>1. \A g \in SignIns \ {f} : signin'[g] = signin[g]
    BY <1>1, <1>10 DEF MergeGroups, SignInTypes
  <2>2. signin'[f].pc \in {"provisioned", "grants"}
    BY <1>1, <1>10 DEF MergeGroups, NotSigning, SignInTypes, SignInRecords
  <2>3. QED
    BY <1>1, <1>2, <2>1, <2>2 DEF IssuingVouched, At, SignInTypes, SignInRecords
<1>11. ASSUME NEW f \in SignIns, CheckProvisioned(f) PROVE IssuingVouched'
  <2>1. \A g \in SignIns \ {f} : signin'[g] = signin[g]
    BY <1>1, <1>11 DEF CheckProvisioned, Proceeds, GivesUp, SignInTypes
  <2>2. signin'[f].pc \in {"grants", "idle"}
    BY <1>1, <1>11 DEF CheckProvisioned, Proceeds, GivesUp, NotSigning, SignInTypes, SignInRecords
  <2>3. QED
    BY <1>1, <1>2, <2>1, <2>2 DEF IssuingVouched, At, SignInTypes, SignInRecords
<1>12. ASSUME NEW f \in SignIns, ReadTenants(f) PROVE IssuingVouched'
  <2>1. \A g \in SignIns \ {f} : signin'[g] = signin[g]
    BY <1>1, <1>12 DEF ReadTenants, SignInTypes
  <2>2. signin'[f].pc \in {"upsert"}
    BY <1>1, <1>12 DEF ReadTenants, NotSigning, SignInTypes, SignInRecords
  <2>3. QED
    BY <1>1, <1>2, <2>1, <2>2 DEF IssuingVouched, At, SignInTypes, SignInRecords
<1>13. ASSUME NEW f \in SignIns, FinishLogin(f) PROVE IssuingVouched'
  <2>1. \A g \in SignIns \ {f} : signin'[g] = signin[g]
    BY <1>1, <1>13 DEF FinishLogin, GivesUp, SignInTypes
  <2>2. \/ signin' = [signin EXCEPT ![f] = NotSigning]
        \/ signin' = [signin EXCEPT ![f].pc = "issue", ![f].id = LoginIdentity(f)]
    BY <1>13 DEF FinishLogin, GivesUp, LoginIdentity
  <2>3. signin'[f].pc = "idle" \/ signin'[f].id = LoginIdentity(f)
    BY <1>1, <2>2 DEF NotSigning, SignInTypes, SignInRecords
  <2>4. \A id : id = LoginIdentity(f) => Vouched(id)'
    BY LoginVouched, <1>13
  <2>5. signin'[f].id = LoginIdentity(f) => Vouched(signin[f].id)'
    BY <2>4
  <2>6. QED
    BY <1>1, <1>2, <2>1, <2>3, <2>5 DEF IssuingVouched, At, SignInTypes, SignInRecords
<1>14. ASSUME NEW f \in SignIns, SignedIn(f) PROVE IssuingVouched'
  <2>1. \A g \in SignIns \ {f} : signin'[g] = signin[g]
    BY <1>1, <1>14 DEF SignedIn, GivesUp, SignInTypes
  <2>2. signin'[f].pc \in {"idle"}
    BY <1>1, <1>14 DEF SignedIn, GivesUp, NotSigning, SignInTypes, SignInRecords
  <2>3. QED
    BY <1>1, <1>2, <2>1, <2>2 DEF IssuingVouched, At, SignInTypes, SignInRecords
<1>15. ASSUME NEW f \in SignIns, AdminLogin(f) PROVE IssuingVouched'
  <2>1. \A g \in SignIns \ {f} : signin'[g] = signin[g]
    BY <1>1, <1>15 DEF AdminLogin, SignInTypes
  <2>2. signin'[f].id = LocalAdmin
    BY <1>1, <1>15 DEF AdminLogin, NotSigning, SignInTypes
  <2>3. Vouched(signin[f].id)'
    BY <2>2, LocalVouched
  <2>4. QED
    BY <1>1, <1>2, <2>1, <2>3 DEF IssuingVouched, At, SignInTypes, SignInRecords
<1>16. ASSUME NEW id \in handoffs, SsoExchange(id) PROVE IssuingVouched'
  BY <1>16, <1>3 DEF SsoExchange
<1>17. ASSUME NEW s \in Subjects, CreateUser(s) PROVE IssuingVouched'
  BY <1>17, <1>3 DEF CreateUser
<1>18. ASSUME NEW s \in Subjects, RevokePrincipal(s) PROVE IssuingVouched'
  BY <1>18, <1>3 DEF RevokePrincipal
<1>19. ASSUME NEW s \in Subjects, UnblockPrincipal(s) PROVE IssuingVouched'
  BY <1>19, <1>3 DEF UnblockPrincipal
<1>20. ASSUME NEW s \in Subjects, PurgePrincipal(s) PROVE IssuingVouched'
  BY <1>20, <1>3 DEF PurgePrincipal
<1>21. ASSUME NEW S \in SUBSET Subjects, ChangeGroup(S) PROVE IssuingVouched'
  BY <1>21, <1>3 DEF ChangeGroup
<1>22. ASSUME NEW b \in BOOLEAN, Restart(b) PROVE IssuingVouched'
  <2>1. signin' = [f \in SignIns |-> NotSigning]
    BY <1>22 DEF Restart
  <2>2. QED
    BY <2>1 DEF IssuingVouched, At, NotSigning
<1>23. ASSUME NEW v \in Visits, NEW c \in cookies, VisitBegins(v, c) PROVE IssuingVouched'
  BY <1>23, <1>3 DEF VisitBegins, VisitUnchanged
<1>24. ASSUME NEW v \in Visits, TenantOperation(v) PROVE IssuingVouched'
  BY <1>24, <1>3 DEF TenantOperation, VisitUnchanged
<1>25. ASSUME NEW v \in Visits, CheckGrants(v) PROVE IssuingVouched'
  BY <1>25, <1>3 DEF CheckGrants, VisitUnchanged
<1>26. ASSUME NEW v \in Visits, SwitchTenant(v) PROVE IssuingVouched'
  BY <1>26, <1>3 DEF SwitchTenant, VisitUnchanged
<1>27. ASSUME NEW v \in Visits, VerifyCurrent(v) PROVE IssuingVouched'
  BY <1>27, <1>3 DEF VerifyCurrent, VisitUnchanged
<1>28. ASSUME NEW v \in Visits, SetPassword(v) PROVE IssuingVouched'
  BY <1>28, <1>3 DEF SetPassword, VisitUnchanged
<1>29. ASSUME NEW v \in Visits, PasswordChanged(v) PROVE IssuingVouched'
  BY <1>29, <1>3 DEF PasswordChanged, VisitUnchanged
<1>30. ASSUME NEW v \in Visits, CountTokens(v) PROVE IssuingVouched'
  BY <1>30, <1>3 DEF CountTokens, VisitUnchanged
<1>31. ASSUME NEW v \in Visits, InsertToken(v) PROVE IssuingVouched'
  BY <1>31, <1>3 DEF InsertToken, VisitUnchanged
<1>32. ASSUME NEW v \in Visits, VisitEnds(v) PROVE IssuingVouched'
  BY <1>32, <1>3 DEF VisitEnds, VisitUnchanged
<1>33. ASSUME NEW t \in LiveTokens, DeleteToken(t) PROVE IssuingVouched'
  BY <1>33, <1>3 DEF DeleteToken, VisitUnchanged
<1>34. CASE CreateTenant
  BY <1>34, <1>3 DEF CreateTenant, TenantUnchanged
<1>35. CASE PinTenant
  BY <1>35, <1>3 DEF PinTenant, TenantUnchanged
<1>36. CASE CheckOperations
  BY <1>36, <1>3 DEF CheckOperations, TenantUnchanged
<1>37. CASE RemoveTenant
  BY <1>37, <1>3 DEF RemoveTenant, TenantUnchanged
<1>38. CASE PurgeEnds
  BY <1>38, <1>3 DEF PurgeEnds, TenantUnchanged
<1>39. CASE UNCHANGED avars
  BY <1>39, <1>3 DEF avars
<1>40. QED
  BY <1>1, <1>3, <1>4, <1>5, <1>6, <1>7, <1>8, <1>9, <1>10, <1>11, <1>12, <1>13, <1>14, <1>15,
     <1>16, <1>17, <1>18, <1>19, <1>20, <1>21, <1>22, <1>23, <1>24, <1>25, <1>26, <1>27, <1>28,
     <1>29, <1>30, <1>31, <1>32, <1>33, <1>34, <1>35, <1>36, <1>37, <1>38,
     <1>39 DEF AccountsNext

LEMMA VisitsKept == AccountsInv /\ [AccountsNext]_avars => VisitsVouched'
<1> SUFFICES ASSUME AccountsInv, [AccountsNext]_avars PROVE VisitsVouched'
  OBVIOUS
<1>1. /\ topic.signins \subseteq SignIns /\ topic.visits \subseteq Visits
     /\ topic.revocations \in 0 .. MaxRevocations /\ topic.claims \subseteq BOOLEAN
     /\ VisitTypes /\ PortTypes /\ CookieTypes /\ VisitsVouched /\ CookiesVouched
  BY TopicNamed, AccountsBounds, LocalAdminNamed, NoneNamed DEF AccountsInv, AccountsTypes, PortTypes, IdentitiesVouched
<1>2. \A id \in Identities : Vouched(id) => Vouched(id)'
  BY AllVouchedKept
<1>3. CASE UNCHANGED <<visit>>
  BY <1>1, <1>2, <1>3 DEF VisitsVouched, VisitTypes, VisitRecords
<1>4. CASE CooldownPasses
  BY <1>4, <1>3 DEF CooldownPasses
<1>5. CASE KeyRolls
  BY <1>5, <1>3 DEF KeyRolls
<1>6. ASSUME NEW f \in SignIns, NEW d \in BOOLEAN, SsoStart(f, d) PROVE VisitsVouched'
  BY <1>6, <1>3 DEF SsoStart
<1>7. ASSUME NEW f \in SignIns, Discovered(f) PROVE VisitsVouched'
  BY <1>7, <1>3 DEF Discovered
<1>8. ASSUME NEW f \in SignIns, SsoCallback(f) PROVE VisitsVouched'
  BY <1>8, <1>3 DEF SsoCallback
<1>9. ASSUME NEW f \in SignIns, TokenExchange(f) PROVE VisitsVouched'
  BY <1>9, <1>3 DEF TokenExchange
<1>10. ASSUME NEW f \in SignIns, MergeGroups(f) PROVE VisitsVouched'
  BY <1>10, <1>3 DEF MergeGroups
<1>11. ASSUME NEW f \in SignIns, CheckProvisioned(f) PROVE VisitsVouched'
  BY <1>11, <1>3 DEF CheckProvisioned
<1>12. ASSUME NEW f \in SignIns, ReadTenants(f) PROVE VisitsVouched'
  BY <1>12, <1>3 DEF ReadTenants
<1>13. ASSUME NEW f \in SignIns, FinishLogin(f) PROVE VisitsVouched'
  BY <1>13, <1>3 DEF FinishLogin
<1>14. ASSUME NEW f \in SignIns, SignedIn(f) PROVE VisitsVouched'
  BY <1>14, <1>3 DEF SignedIn
<1>15. ASSUME NEW f \in SignIns, AdminLogin(f) PROVE VisitsVouched'
  BY <1>15, <1>3 DEF AdminLogin
<1>16. ASSUME NEW id \in handoffs, SsoExchange(id) PROVE VisitsVouched'
  BY <1>16, <1>3 DEF SsoExchange
<1>17. ASSUME NEW s \in Subjects, CreateUser(s) PROVE VisitsVouched'
  BY <1>17, <1>3 DEF CreateUser
<1>18. ASSUME NEW s \in Subjects, RevokePrincipal(s) PROVE VisitsVouched'
  BY <1>18, <1>3 DEF RevokePrincipal
<1>19. ASSUME NEW s \in Subjects, UnblockPrincipal(s) PROVE VisitsVouched'
  BY <1>19, <1>3 DEF UnblockPrincipal
<1>20. ASSUME NEW s \in Subjects, PurgePrincipal(s) PROVE VisitsVouched'
  BY <1>20, <1>3 DEF PurgePrincipal
<1>21. ASSUME NEW S \in SUBSET Subjects, ChangeGroup(S) PROVE VisitsVouched'
  BY <1>21, <1>3 DEF ChangeGroup
<1>22. ASSUME NEW b \in BOOLEAN, Restart(b) PROVE VisitsVouched'
  <2>1. visit' = [v \in Visits |-> NotVisiting]
    BY <1>22 DEF Restart
  <2>2. \A v \in Visits : visit'[v].id = LocalAdmin
    BY <2>1 DEF NotVisiting
  <2>3. QED
    BY <2>2, LocalVouched DEF VisitsVouched
<1>23. ASSUME NEW v \in Visits, NEW c \in cookies, VisitBegins(v, c) PROVE VisitsVouched'
  <2>1. visit' = [visit EXCEPT ![v] = [pc |-> "admitted", id |-> c.id]]
    BY <1>23 DEF VisitBegins
  <2>2. c.id \in Identities /\ Vouched(c.id)
    BY <1>1, <1>23 DEF CookieTypes, CookiesVouched
  <2>3. \A o \in Visits : visit'[o].id \in {visit[o].id, c.id}
    BY <1>1, <2>1 DEF VisitTypes, VisitRecords
  <2>4. \A o \in Visits : Vouched(visit[o].id) /\ visit[o].id \in Identities
    BY <1>1 DEF VisitsVouched, VisitTypes, VisitRecords
  <2>5. QED
    BY <1>2, <2>2, <2>3, <2>4 DEF VisitsVouched
<1>24. ASSUME NEW v \in Visits, TenantOperation(v) PROVE VisitsVouched'
  <2>1. \A o \in Visits : visit'[o].id \in {visit[o].id, LocalAdmin}
    BY <1>1, <1>24 DEF TenantOperation, Goes, Leaves, VisitTypes, VisitRecords, NotVisiting
  <2>2. \A o \in Visits : Vouched(visit[o].id) /\ visit[o].id \in Identities
    BY <1>1 DEF VisitsVouched, VisitTypes, VisitRecords
  <2>3. QED
    BY <1>2, <2>1, <2>2, LocalVouched DEF VisitsVouched
<1>25. ASSUME NEW v \in Visits, CheckGrants(v) PROVE VisitsVouched'
  <2> DEFINE id == Retained(visit[v].id)
  <2>1. \/ visit' = [visit EXCEPT ![v] = NotVisiting]
        \/ visit' = [visit EXCEPT ![v] = [pc |-> "acting", id |-> id]]
    BY <1>25 DEF CheckGrants, Leaves
  <2>2. \A o \in Visits : visit'[o].id \in {visit[o].id, id, LocalAdmin}
    BY <1>1, <2>1 DEF VisitTypes, VisitRecords, NotVisiting
  <2>3. \A o \in Visits : Vouched(visit[o].id) /\ visit[o].id \in Identities
    BY <1>1 DEF VisitsVouched, VisitTypes, VisitRecords
  <2>4. id \in Identities /\ Vouched(id)
    BY <1>1, <2>3, RetainedTyped, SameVouched
  <2> HIDE DEF id
  <2>5. QED
    BY <1>2, <2>2, <2>3, <2>4, LocalVouched DEF VisitsVouched
<1>26. ASSUME NEW v \in Visits, SwitchTenant(v) PROVE VisitsVouched'
  <2>1. \A o \in Visits : visit'[o].id \in {visit[o].id, LocalAdmin}
    BY <1>1, <1>26 DEF SwitchTenant, Goes, Leaves, VisitTypes, VisitRecords, NotVisiting
  <2>2. \A o \in Visits : Vouched(visit[o].id) /\ visit[o].id \in Identities
    BY <1>1 DEF VisitsVouched, VisitTypes, VisitRecords
  <2>3. QED
    BY <1>2, <2>1, <2>2, LocalVouched DEF VisitsVouched
<1>27. ASSUME NEW v \in Visits, VerifyCurrent(v) PROVE VisitsVouched'
  <2>1. \A o \in Visits : visit'[o].id \in {visit[o].id, LocalAdmin}
    BY <1>1, <1>27 DEF VerifyCurrent, Goes, Leaves, VisitTypes, VisitRecords, NotVisiting
  <2>2. \A o \in Visits : Vouched(visit[o].id) /\ visit[o].id \in Identities
    BY <1>1 DEF VisitsVouched, VisitTypes, VisitRecords
  <2>3. QED
    BY <1>2, <2>1, <2>2, LocalVouched DEF VisitsVouched
<1>28. ASSUME NEW v \in Visits, SetPassword(v) PROVE VisitsVouched'
  <2>1. \A o \in Visits : visit'[o].id \in {visit[o].id, LocalAdmin}
    BY <1>1, <1>28 DEF SetPassword, Goes, Leaves, VisitTypes, VisitRecords, NotVisiting
  <2>2. \A o \in Visits : Vouched(visit[o].id) /\ visit[o].id \in Identities
    BY <1>1 DEF VisitsVouched, VisitTypes, VisitRecords
  <2>3. QED
    BY <1>2, <2>1, <2>2, LocalVouched DEF VisitsVouched
<1>29. ASSUME NEW v \in Visits, PasswordChanged(v) PROVE VisitsVouched'
  <2>1. \A o \in Visits : visit'[o].id \in {visit[o].id, LocalAdmin}
    BY <1>1, <1>29 DEF PasswordChanged, Goes, Leaves, VisitTypes, VisitRecords, NotVisiting
  <2>2. \A o \in Visits : Vouched(visit[o].id) /\ visit[o].id \in Identities
    BY <1>1 DEF VisitsVouched, VisitTypes, VisitRecords
  <2>3. QED
    BY <1>2, <2>1, <2>2, LocalVouched DEF VisitsVouched
<1>30. ASSUME NEW v \in Visits, CountTokens(v) PROVE VisitsVouched'
  <2>1. \A o \in Visits : visit'[o].id \in {visit[o].id, LocalAdmin}
    BY <1>1, <1>30 DEF CountTokens, Goes, Leaves, VisitTypes, VisitRecords, NotVisiting
  <2>2. \A o \in Visits : Vouched(visit[o].id) /\ visit[o].id \in Identities
    BY <1>1 DEF VisitsVouched, VisitTypes, VisitRecords
  <2>3. QED
    BY <1>2, <2>1, <2>2, LocalVouched DEF VisitsVouched
<1>31. ASSUME NEW v \in Visits, InsertToken(v) PROVE VisitsVouched'
  <2>1. \A o \in Visits : visit'[o].id \in {visit[o].id, LocalAdmin}
    BY <1>1, <1>31 DEF InsertToken, Goes, Leaves, VisitTypes, VisitRecords, NotVisiting
  <2>2. \A o \in Visits : Vouched(visit[o].id) /\ visit[o].id \in Identities
    BY <1>1 DEF VisitsVouched, VisitTypes, VisitRecords
  <2>3. QED
    BY <1>2, <2>1, <2>2, LocalVouched DEF VisitsVouched
<1>32. ASSUME NEW v \in Visits, VisitEnds(v) PROVE VisitsVouched'
  <2>1. \A o \in Visits : visit'[o].id \in {visit[o].id, LocalAdmin}
    BY <1>1, <1>32 DEF VisitEnds, Goes, Leaves, VisitTypes, VisitRecords, NotVisiting
  <2>2. \A o \in Visits : Vouched(visit[o].id) /\ visit[o].id \in Identities
    BY <1>1 DEF VisitsVouched, VisitTypes, VisitRecords
  <2>3. QED
    BY <1>2, <2>1, <2>2, LocalVouched DEF VisitsVouched
<1>33. ASSUME NEW t \in LiveTokens, DeleteToken(t) PROVE VisitsVouched'
  BY <1>33, <1>3 DEF DeleteToken, VisitUnchanged
<1>34. CASE CreateTenant
  BY <1>34, <1>3 DEF CreateTenant, TenantUnchanged
<1>35. CASE PinTenant
  BY <1>35, <1>3 DEF PinTenant, TenantUnchanged
<1>36. CASE CheckOperations
  BY <1>36, <1>3 DEF CheckOperations, TenantUnchanged
<1>37. CASE RemoveTenant
  BY <1>37, <1>3 DEF RemoveTenant, TenantUnchanged
<1>38. CASE PurgeEnds
  BY <1>38, <1>3 DEF PurgeEnds, TenantUnchanged
<1>39. CASE UNCHANGED avars
  BY <1>39, <1>3 DEF avars
<1>40. QED
  BY <1>1, <1>3, <1>4, <1>5, <1>6, <1>7, <1>8, <1>9, <1>10, <1>11, <1>12, <1>13, <1>14, <1>15,
     <1>16, <1>17, <1>18, <1>19, <1>20, <1>21, <1>22, <1>23, <1>24, <1>25, <1>26, <1>27, <1>28,
     <1>29, <1>30, <1>31, <1>32, <1>33, <1>34, <1>35, <1>36, <1>37, <1>38,
     <1>39 DEF AccountsNext

LEMMA HandoffsKept == AccountsInv /\ [AccountsNext]_avars => HandoffsVouched'
<1> SUFFICES ASSUME AccountsInv, [AccountsNext]_avars PROVE HandoffsVouched'
  OBVIOUS
<1>1. /\ topic.signins \subseteq SignIns /\ topic.visits \subseteq Visits
     /\ topic.revocations \in 0 .. MaxRevocations /\ topic.claims \subseteq BOOLEAN
     /\ CookieTypes /\ HandoffsVouched
  BY TopicNamed, AccountsBounds, LocalAdminNamed, NoneNamed DEF AccountsInv, AccountsTypes, PortTypes, IdentitiesVouched
<1>2. \A id \in Identities : Vouched(id) => Vouched(id)'
  BY AllVouchedKept
<1>3. CASE UNCHANGED <<handoffs>>
  BY <1>1, <1>2, <1>3 DEF HandoffsVouched, CookieTypes
<1>4. CASE CooldownPasses
  BY <1>4, <1>3 DEF CooldownPasses
<1>5. CASE KeyRolls
  BY <1>5, <1>3 DEF KeyRolls
<1>6. ASSUME NEW f \in SignIns, NEW d \in BOOLEAN, SsoStart(f, d) PROVE HandoffsVouched'
  BY <1>6, <1>3 DEF SsoStart
<1>7. ASSUME NEW f \in SignIns, Discovered(f) PROVE HandoffsVouched'
  BY <1>7, <1>3 DEF Discovered
<1>8. ASSUME NEW f \in SignIns, SsoCallback(f) PROVE HandoffsVouched'
  BY <1>8, <1>3 DEF SsoCallback
<1>9. ASSUME NEW f \in SignIns, TokenExchange(f) PROVE HandoffsVouched'
  BY <1>9, <1>3 DEF TokenExchange
<1>10. ASSUME NEW f \in SignIns, MergeGroups(f) PROVE HandoffsVouched'
  BY <1>10, <1>3 DEF MergeGroups
<1>11. ASSUME NEW f \in SignIns, CheckProvisioned(f) PROVE HandoffsVouched'
  BY <1>11, <1>3 DEF CheckProvisioned
<1>12. ASSUME NEW f \in SignIns, ReadTenants(f) PROVE HandoffsVouched'
  BY <1>12, <1>3 DEF ReadTenants
<1>13. ASSUME NEW f \in SignIns, FinishLogin(f) PROVE HandoffsVouched'
  <2>1. handoffs' \subseteq handoffs \cup {LoginIdentity(f)}
    BY <1>13 DEF FinishLogin, LoginIdentity
  <2>2. \A id : id = LoginIdentity(f) => Vouched(id)'
    BY LoginVouched, <1>13
  <2>3. QED
    BY <1>1, <1>2, <2>1, <2>2 DEF HandoffsVouched, CookieTypes
<1>14. ASSUME NEW f \in SignIns, SignedIn(f) PROVE HandoffsVouched'
  BY <1>14, <1>3 DEF SignedIn
<1>15. ASSUME NEW f \in SignIns, AdminLogin(f) PROVE HandoffsVouched'
  BY <1>15, <1>3 DEF AdminLogin
<1>16. ASSUME NEW id \in handoffs, SsoExchange(id) PROVE HandoffsVouched'
  <2>1. handoffs' \subseteq handoffs
    BY <1>16 DEF SsoExchange
  <2>2. QED
    BY <1>1, <1>2, <2>1 DEF HandoffsVouched, CookieTypes
<1>17. ASSUME NEW s \in Subjects, CreateUser(s) PROVE HandoffsVouched'
  BY <1>17, <1>3 DEF CreateUser
<1>18. ASSUME NEW s \in Subjects, RevokePrincipal(s) PROVE HandoffsVouched'
  BY <1>18, <1>3 DEF RevokePrincipal
<1>19. ASSUME NEW s \in Subjects, UnblockPrincipal(s) PROVE HandoffsVouched'
  BY <1>19, <1>3 DEF UnblockPrincipal
<1>20. ASSUME NEW s \in Subjects, PurgePrincipal(s) PROVE HandoffsVouched'
  BY <1>20, <1>3 DEF PurgePrincipal
<1>21. ASSUME NEW S \in SUBSET Subjects, ChangeGroup(S) PROVE HandoffsVouched'
  BY <1>21, <1>3 DEF ChangeGroup
<1>22. ASSUME NEW b \in BOOLEAN, Restart(b) PROVE HandoffsVouched'
  <2>1. handoffs' = {}
    BY <1>22 DEF Restart
  <2>2. QED
    BY <2>1 DEF HandoffsVouched
<1>23. ASSUME NEW v \in Visits, NEW c \in cookies, VisitBegins(v, c) PROVE HandoffsVouched'
  BY <1>23, <1>3 DEF VisitBegins, VisitUnchanged
<1>24. ASSUME NEW v \in Visits, TenantOperation(v) PROVE HandoffsVouched'
  BY <1>24, <1>3 DEF TenantOperation, VisitUnchanged
<1>25. ASSUME NEW v \in Visits, CheckGrants(v) PROVE HandoffsVouched'
  BY <1>25, <1>3 DEF CheckGrants, VisitUnchanged
<1>26. ASSUME NEW v \in Visits, SwitchTenant(v) PROVE HandoffsVouched'
  BY <1>26, <1>3 DEF SwitchTenant, VisitUnchanged
<1>27. ASSUME NEW v \in Visits, VerifyCurrent(v) PROVE HandoffsVouched'
  BY <1>27, <1>3 DEF VerifyCurrent, VisitUnchanged
<1>28. ASSUME NEW v \in Visits, SetPassword(v) PROVE HandoffsVouched'
  BY <1>28, <1>3 DEF SetPassword, VisitUnchanged
<1>29. ASSUME NEW v \in Visits, PasswordChanged(v) PROVE HandoffsVouched'
  BY <1>29, <1>3 DEF PasswordChanged, VisitUnchanged
<1>30. ASSUME NEW v \in Visits, CountTokens(v) PROVE HandoffsVouched'
  BY <1>30, <1>3 DEF CountTokens, VisitUnchanged
<1>31. ASSUME NEW v \in Visits, InsertToken(v) PROVE HandoffsVouched'
  BY <1>31, <1>3 DEF InsertToken, VisitUnchanged
<1>32. ASSUME NEW v \in Visits, VisitEnds(v) PROVE HandoffsVouched'
  BY <1>32, <1>3 DEF VisitEnds, VisitUnchanged
<1>33. ASSUME NEW t \in LiveTokens, DeleteToken(t) PROVE HandoffsVouched'
  BY <1>33, <1>3 DEF DeleteToken, VisitUnchanged
<1>34. CASE CreateTenant
  BY <1>34, <1>3 DEF CreateTenant, TenantUnchanged
<1>35. CASE PinTenant
  BY <1>35, <1>3 DEF PinTenant, TenantUnchanged
<1>36. CASE CheckOperations
  BY <1>36, <1>3 DEF CheckOperations, TenantUnchanged
<1>37. CASE RemoveTenant
  BY <1>37, <1>3 DEF RemoveTenant, TenantUnchanged
<1>38. CASE PurgeEnds
  BY <1>38, <1>3 DEF PurgeEnds, TenantUnchanged
<1>39. CASE UNCHANGED avars
  BY <1>39, <1>3 DEF avars
<1>40. QED
  BY <1>1, <1>3, <1>4, <1>5, <1>6, <1>7, <1>8, <1>9, <1>10, <1>11, <1>12, <1>13, <1>14, <1>15,
     <1>16, <1>17, <1>18, <1>19, <1>20, <1>21, <1>22, <1>23, <1>24, <1>25, <1>26, <1>27, <1>28,
     <1>29, <1>30, <1>31, <1>32, <1>33, <1>34, <1>35, <1>36, <1>37, <1>38,
     <1>39 DEF AccountsNext

LEMMA CookiesKept == AccountsInv /\ [AccountsNext]_avars => CookiesVouched'
<1> SUFFICES ASSUME AccountsInv, [AccountsNext]_avars PROVE CookiesVouched'
  OBVIOUS
<1>1. /\ topic.signins \subseteq SignIns /\ topic.visits \subseteq Visits
     /\ topic.revocations \in 0 .. MaxRevocations /\ topic.claims \subseteq BOOLEAN
     /\ SignInTypes /\ VisitTypes /\ CookieTypes /\ IssuingVouched /\ VisitsVouched
     /\ HandoffsVouched /\ CookiesVouched
  BY TopicNamed, AccountsBounds, LocalAdminNamed, NoneNamed DEF AccountsInv, AccountsTypes, PortTypes, IdentitiesVouched
<1>2. \A id \in Identities : Vouched(id) => Vouched(id)'
  BY AllVouchedKept
<1>3. CASE UNCHANGED <<cookies>>
  BY <1>1, <1>2, <1>3 DEF CookiesVouched, CookieTypes
<1>4. CASE CooldownPasses
  BY <1>4, <1>3 DEF CooldownPasses
<1>5. CASE KeyRolls
  BY <1>5, <1>3 DEF KeyRolls
<1>6. ASSUME NEW f \in SignIns, NEW d \in BOOLEAN, SsoStart(f, d) PROVE CookiesVouched'
  BY <1>6, <1>3 DEF SsoStart
<1>7. ASSUME NEW f \in SignIns, Discovered(f) PROVE CookiesVouched'
  BY <1>7, <1>3 DEF Discovered
<1>8. ASSUME NEW f \in SignIns, SsoCallback(f) PROVE CookiesVouched'
  BY <1>8, <1>3 DEF SsoCallback
<1>9. ASSUME NEW f \in SignIns, TokenExchange(f) PROVE CookiesVouched'
  BY <1>9, <1>3 DEF TokenExchange
<1>10. ASSUME NEW f \in SignIns, MergeGroups(f) PROVE CookiesVouched'
  BY <1>10, <1>3 DEF MergeGroups
<1>11. ASSUME NEW f \in SignIns, CheckProvisioned(f) PROVE CookiesVouched'
  BY <1>11, <1>3 DEF CheckProvisioned
<1>12. ASSUME NEW f \in SignIns, ReadTenants(f) PROVE CookiesVouched'
  BY <1>12, <1>3 DEF ReadTenants
<1>13. ASSUME NEW f \in SignIns, FinishLogin(f) PROVE CookiesVouched'
  BY <1>13, <1>3 DEF FinishLogin
<1>14. ASSUME NEW f \in SignIns, SignedIn(f) PROVE CookiesVouched'
  <2>1. cookies' = cookies \cup {Signed(signin[f].id)} /\ At(f, "issue")
    BY <1>14 DEF SignedIn, Issue
  <2>2. signin[f].id \in Identities /\ Vouched(signin[f].id)
    BY <1>1, <2>1 DEF SignInTypes, SignInRecords, IssuingVouched
  <2>3. QED
    BY <1>1, <1>2, <2>1, <2>2 DEF CookiesVouched, CookieTypes, Signed
<1>15. ASSUME NEW f \in SignIns, AdminLogin(f) PROVE CookiesVouched'
  BY <1>15, <1>3 DEF AdminLogin
<1>16. ASSUME NEW id \in handoffs, SsoExchange(id) PROVE CookiesVouched'
  <2>1. cookies' \subseteq cookies \cup {Signed(id)}
    BY <1>16 DEF SsoExchange, Issue
  <2>2. id \in Identities /\ Vouched(id)
    BY <1>1 DEF CookieTypes, HandoffsVouched
  <2>3. QED
    BY <1>1, <1>2, <2>1, <2>2 DEF CookiesVouched, CookieTypes, Signed
<1>17. ASSUME NEW s \in Subjects, CreateUser(s) PROVE CookiesVouched'
  BY <1>17, <1>3 DEF CreateUser
<1>18. ASSUME NEW s \in Subjects, RevokePrincipal(s) PROVE CookiesVouched'
  BY <1>18, <1>3 DEF RevokePrincipal
<1>19. ASSUME NEW s \in Subjects, UnblockPrincipal(s) PROVE CookiesVouched'
  BY <1>19, <1>3 DEF UnblockPrincipal
<1>20. ASSUME NEW s \in Subjects, PurgePrincipal(s) PROVE CookiesVouched'
  BY <1>20, <1>3 DEF PurgePrincipal
<1>21. ASSUME NEW S \in SUBSET Subjects, ChangeGroup(S) PROVE CookiesVouched'
  BY <1>21, <1>3 DEF ChangeGroup
<1>22. ASSUME NEW b \in BOOLEAN, Restart(b) PROVE CookiesVouched'
  <2>1. cookies' = cookies
    BY <1>22 DEF Restart
  <2>2. QED
    BY <1>1, <1>2, <2>1 DEF CookiesVouched, CookieTypes
<1>23. ASSUME NEW v \in Visits, NEW c \in cookies, VisitBegins(v, c) PROVE CookiesVouched'
  BY <1>23, <1>3 DEF VisitBegins, VisitUnchanged
<1>24. ASSUME NEW v \in Visits, TenantOperation(v) PROVE CookiesVouched'
  BY <1>24, <1>3 DEF TenantOperation, VisitUnchanged
<1>25. ASSUME NEW v \in Visits, CheckGrants(v) PROVE CookiesVouched'
  BY <1>25, <1>3 DEF CheckGrants, VisitUnchanged
<1>26. ASSUME NEW v \in Visits, SwitchTenant(v) PROVE CookiesVouched'
  <2>1. \E acts \in {"default", "tenant"} :
          cookies' = cookies \cup {Signed([visit[v].id EXCEPT !.acts = acts])}
    BY <1>26 DEF SwitchTenant, Issue
  <2>2. PICK acts \in {"default", "tenant"} :
          cookies' = cookies \cup {Signed([visit[v].id EXCEPT !.acts = acts])}
    BY <2>1
  <2> DEFINE id == [visit[v].id EXCEPT !.acts = acts]
  <2>3. visit[v].id \in Identities /\ Vouched(visit[v].id)
    BY <1>1 DEF VisitTypes, VisitRecords, VisitsVouched
  <2>4. /\ id \in Identities /\ id.subject = visit[v].id.subject /\ id.who = visit[v].id.who
        /\ id.cv = visit[v].id.cv /\ id.era = visit[v].id.era
    BY <2>3 DEF Identities
  <2>5. Vouched(id)
    BY <2>3, <2>4, SameVouched
  <2>6. cookies' = cookies \cup {Signed(id)}
    BY <2>2
  <2> HIDE DEF id
  <2>7. QED
    BY <1>1, <1>2, <2>4, <2>5, <2>6 DEF CookiesVouched, CookieTypes, Signed
<1>27. ASSUME NEW v \in Visits, VerifyCurrent(v) PROVE CookiesVouched'
  BY <1>27, <1>3 DEF VerifyCurrent, VisitUnchanged
<1>28. ASSUME NEW v \in Visits, SetPassword(v) PROVE CookiesVouched'
  BY <1>28, <1>3 DEF SetPassword, VisitUnchanged
<1>29. ASSUME NEW v \in Visits, PasswordChanged(v) PROVE CookiesVouched'
  <2> DEFINE id == Reissued(visit[v].id)
  <2>1. cookies' = cookies \cup {Signed(id)}
    BY <1>29 DEF PasswordChanged, Issue
  <2>2. visit[v].id \in Identities /\ Vouched(visit[v].id)
    BY <1>1 DEF VisitTypes, VisitRecords, VisitsVouched
  <2>3. id \in Identities /\ Vouched(id)
    BY <2>2, LocalAdminNamed, LocalVouched DEF Reissued
  <2> HIDE DEF id
  <2>4. QED
    BY <1>1, <1>2, <2>1, <2>3 DEF CookiesVouched, CookieTypes, Signed
<1>30. ASSUME NEW v \in Visits, CountTokens(v) PROVE CookiesVouched'
  BY <1>30, <1>3 DEF CountTokens, VisitUnchanged
<1>31. ASSUME NEW v \in Visits, InsertToken(v) PROVE CookiesVouched'
  BY <1>31, <1>3 DEF InsertToken, VisitUnchanged
<1>32. ASSUME NEW v \in Visits, VisitEnds(v) PROVE CookiesVouched'
  BY <1>32, <1>3 DEF VisitEnds, VisitUnchanged
<1>33. ASSUME NEW t \in LiveTokens, DeleteToken(t) PROVE CookiesVouched'
  BY <1>33, <1>3 DEF DeleteToken, VisitUnchanged
<1>34. CASE CreateTenant
  BY <1>34, <1>3 DEF CreateTenant, TenantUnchanged
<1>35. CASE PinTenant
  BY <1>35, <1>3 DEF PinTenant, TenantUnchanged
<1>36. CASE CheckOperations
  BY <1>36, <1>3 DEF CheckOperations, TenantUnchanged
<1>37. CASE RemoveTenant
  BY <1>37, <1>3 DEF RemoveTenant, TenantUnchanged
<1>38. CASE PurgeEnds
  BY <1>38, <1>3 DEF PurgeEnds, TenantUnchanged
<1>39. CASE UNCHANGED avars
  BY <1>39, <1>3 DEF avars
<1>40. QED
  BY <1>1, <1>3, <1>4, <1>5, <1>6, <1>7, <1>8, <1>9, <1>10, <1>11, <1>12, <1>13, <1>14, <1>15,
     <1>16, <1>17, <1>18, <1>19, <1>20, <1>21, <1>22, <1>23, <1>24, <1>25, <1>26, <1>27, <1>28,
     <1>29, <1>30, <1>31, <1>32, <1>33, <1>34, <1>35, <1>36, <1>37, <1>38,
     <1>39 DEF AccountsNext


----------------------------------------------------------------------------
LEMMA AccountsStepInv == AccountsInv /\ [AccountsNext]_avars => AccountsInv'
<1> SUFFICES ASSUME AccountsInv, [AccountsNext]_avars PROVE AccountsInv'
  OBVIOUS
<1>1. AccountsTypes'
  BY RowTypesKept, PortTypesKept, SignInTypesKept, VisitTypesKept, CookieTypesKept, TokenTypesKept
  DEF AccountsTypes
<1>2. VersionsHeld'
  BY RowsAdvance, VersionsKept
<1>3. IdentitiesVouched'
  BY IssuingKept, VisitsKept, HandoffsKept, CookiesKept DEF IdentitiesVouched
<1>4. QED
  BY <1>1, <1>2, <1>3, SubjectsNamedKept, TokensKept, TenancyKept, DiscoveryKept DEF AccountsInv

LEMMA AccountsInvHolds == AccountsInv => AccountsHold
<1> SUFFICES ASSUME AccountsInv PROVE AccountsHold
  OBVIOUS
<1>1. AccountsTypeOK
  BY DEF AccountsInv, AccountsTypes, AccountsTypeOK, RowTypes, PortTypes, SignInTypes,
         VisitTypes, CookieTypes, TokenTypes, SignInRecords, VisitRecords, TokenRecords
<1>2. ASSUME NEW c \in cookies, Admits(c), c.id.who # Local
      PROVE  c.id.era = revoked[c.id.who]
  <2>1. c.id \in Identities /\ Vouched(c.id)
    BY DEF AccountsInv, AccountsTypes, CookieTypes, IdentitiesVouched, CookiesVouched
  <2>2. c.id.who = c.id.subject /\ c.id.subject \in Subjects
    BY <1>2, <2>1 DEF Vouched, Identities
  <2>3. tomb[c.id.subject] \in Nat /\ c.id.cv \in Nat
    BY <2>1, <2>2 DEF AccountsInv, AccountsTypes, RowTypes, Versions, Identities
  <2>4. PrincipalAllows(c.id.subject, c.id.cv)
    BY <1>2, <2>2 DEF Admits
  <2>5. QED
    BY <1>2, <2>1, <2>2, <2>3, <2>4 DEF PrincipalAllows, Vouched
<1>3. ASSUME NEW t \in LiveTokens, t.by # Local
      PROVE  t.era = revoked[t.by] \/ MintedLate(t)
  <2>1. t \in TokenRecords
    BY DEF AccountsInv, AccountsTypes, TokenTypes, LiveTokens
  <2>2. t.era \in Int /\ t.born \in Int
    BY <2>1 DEF TokenRecords
  <2>3. t.born = revoked[t.by] /\ t.era <= t.born
    BY <1>3 DEF AccountsInv, TokensHeld
  <2>4. QED
    BY <2>2, <2>3 DEF MintedLate
<1>4. RevocationHolds
  BY <1>2, <1>3 DEF RevocationHolds, AccountsInv, TokensHeld
<1>5. ActsInItsTenant
  BY DEF ActsInItsTenant, AccountsInv, Tenancy
<1>6. QED
  BY <1>1, <1>4, <1>5 DEF AccountsHold, AccountsInv

\* revoke_principal, purge_principal, principal_allows, tenant_operation and
\* DiscoveringClaim: for every number of subjects, sign-ins, requests and
\* tokens, whatever a topic allows, no cookie outlives the revocation of its
\* principal, nor any token it has by then (one that a request under way inserts
\* afterwards does), a request acts only in the tenant it was granted, and the
\* provider's slot is discovering only while a sign-in discovers.
THEOREM AccountsKept == AccountsSpec => []AccountsHold
<1>1. AccountsInit => AccountsInv
  BY AccountsInitInv
<1>2. AccountsInv /\ [AccountsNext]_avars => AccountsInv'
  BY AccountsStepInv
<1>3. AccountsInv => AccountsHold
  BY AccountsInvHolds
<1>4. QED
  BY <1>1, <1>2, <1>3, PTL DEF AccountsSpec
==============================================================================
