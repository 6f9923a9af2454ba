------------------------------- MODULE MCLive -------------------------------
(* What a port settles under fair loops and supervisors, side by side: a       *)
(* delivery job, and the ownership of a receiving storage by several ports.    *)
(* They share no state, so a behaviour follows one of them, the focus.         *)
EXTENDS MCJobs, Ownership

VARIABLE focus

LiveInit == focus \in {"jobs", "ownership"} /\ Init /\ OwnershipInit
LiveNext ==
  /\ UNCHANGED focus
  /\ \/ focus = "jobs" /\ Next /\ UNCHANGED ovars
     \/ focus = "ownership" /\ OwnershipNext /\ UNCHANGED vars
\* The fairness of both, that of the ports where the behaviour follows them.
InPorts(A) == focus = "ownership" /\ A
LiveSpec ==
  /\ LiveInit /\ [][LiveNext]_<<focus, vars, ovars>>
  /\ Fairness
  /\ \A p \in Ports :
       /\ WF_ovars(InPorts(Runs(p))) /\ WF_ovars(InPorts(MountReturns(p)))
       /\ SF_ovars(InPorts(SessionsRestored(p)))

\* OwnershipSettles, of the behaviours that follow the ports.
OwnershipReturns == (focus = "ownership") => OwnershipSettles
=============================================================================
