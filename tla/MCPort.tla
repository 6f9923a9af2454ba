------------------------------- MODULE MCPort -------------------------------
(* The work a port does by itself, side by side: the receive of an upload, the *)
(* event chain with its webhook and notifications, the enrolment and rotation  *)
(* of a trade route, and a delivery over one.  They share no state, so a       *)
(* behaviour follows one of them, the focus.                                   *)
EXTENDS MCReceive, Events, Credentials, Routes

VARIABLE focus

pvars == <<focus, vars, evars, cvars, rvars>>
Foci == {"receive", "chain", "hook", "note", "credential", "route"}

PortInit ==
  /\ focus \in Foci
  /\ Init /\ EventsInit /\ CredentialsInit /\ RoutesInit

PortNext ==
  /\ UNCHANGED focus
  /\ \/ focus = "receive" /\ Next /\ UNCHANGED <<evars, cvars, rvars>>
     \/ focus = "chain" /\ ChainNext /\ UNCHANGED <<vars, cvars, rvars>>
     \/ focus = "hook" /\ HookNext /\ UNCHANGED <<vars, cvars, rvars>>
     \/ focus = "note" /\ NoteNext /\ UNCHANGED <<vars, cvars, rvars>>
     \/ focus = "credential" /\ CredentialsNext /\ UNCHANGED <<vars, evars, rvars>>
     \/ focus = "route" /\ RoutesNext /\ UNCHANGED <<vars, evars, cvars>>

\* No fair action of a component is enabled in its initial state, so the
\* fairness of those out of focus asks nothing.
PortSpec ==
  /\ PortInit /\ [][PortNext]_pvars
  /\ Fairness /\ EventsFairness /\ CredentialsFairness /\ RoutesFairness

\* The webhook's queue empties, a route whose replies were lost adopts the
\* receiver's credential, a withdrawal reaches the receiver.
PortSettles == WebhooksSettle /\ RotationHeals /\ WithdrawalReaches
=============================================================================
