------------------------------ MODULE MCStored ------------------------------
(* What a port keeps on disk, side by side: the receive of an upload, the      *)
(* received files it retains, and the state directory a restore replaces.      *)
(* They share no state, so a behaviour follows one of them, the focus.         *)
EXTENDS MCReceive, Retention, Restore, TLC

VARIABLE focus

\* What a behaviour of the received files is about, with the uploads, the time
\* and the restarts it has.
HoldScope == [about |-> {"hold", "restore"}, uploads |-> 1, until |-> 4, restarts |-> 1]
RetentionScopes ==
  {HoldScope,
   [about |-> {"clock", "restore"}, uploads |-> 1, until |-> 3, restarts |-> 1],
   [about |-> {"clock", "workflow"}, uploads |-> 1, until |-> 4, restarts |-> 0],
   [about |-> {"grant", "workflow", "share"}, uploads |-> 2, until |-> 4, restarts |-> 1],
   [about |-> {"hold", "share"}, uploads |-> 2, until |-> 4, restarts |-> 0],
   [about |-> {"grant", "restore"}, uploads |-> 1, until |-> 4, restarts |-> 1]}

StoredInit ==
  /\ focus \in {"receive", "retention", "restore"}
  /\ Init /\ RetentionInit /\ RestoreInit
  \* What only says how another focus begins is fixed.
  /\ focus # "retention" => scope = HoldScope
  /\ focus # "restore" => data = Nowhere
  /\ focus # "receive" => named = {}
StoredNext ==
  /\ UNCHANGED focus
  /\ \/ focus = "receive" /\ Next /\ UNCHANGED <<xvars, rvars>>
     \/ focus = "retention" /\ RetentionNext /\ UNCHANGED <<vars, rvars>>
     \/ focus = "restore" /\ RestoreNext /\ UNCHANGED <<vars, xvars>>
StoredSpec == StoredInit /\ [][StoredNext]_<<focus, vars, xvars, rvars>>

StoredSymmetry == Permutations(Receipts) \cup Permutations(Paths)
=============================================================================
