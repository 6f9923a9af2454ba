----------------------------- MODULE MCOutbound -----------------------------
(* What leaves a port over HTTP, how its links come to be from a library and   *)
(* how files come into that, and what arrives as a native push, side by side.  *)
(* They share no state, so a behaviour follows one of them, the focus.         *)
EXTENDS Grants, Push, Library, Shares, TLC

VARIABLE focus

OutboundInit ==
  /\ focus \in {"grant", "push", "library", "shares"}
  /\ GrantsInit /\ PushInit /\ LibraryInit /\ SharesInit
  \* What only says how another focus begins is fixed.
  /\ focus # "grant" => profile.restarts > 0
  /\ focus # "library" => case.power
  /\ focus # "shares" => pages = {}
OutboundNext ==
  /\ UNCHANGED focus
  /\ \/ focus = "grant" /\ GrantsNext /\ UNCHANGED <<pvars, lvars, shvars>>
     \/ focus = "push" /\ PushNext /\ UNCHANGED <<gvars, lvars, shvars>>
     \/ focus = "library" /\ LibraryNext /\ UNCHANGED <<gvars, pvars, shvars>>
     \/ focus = "shares" /\ SharesNext /\ UNCHANGED <<gvars, pvars, lvars>>
OutboundSpec == OutboundInit /\ [][OutboundNext]_<<focus, gvars, pvars, lvars, shvars>>

\* What a behaviour of the grant may do: the routes its clients use, the keys
\* it goes through, its revocations, the restarts of the server.
GrantProfiles ==
  {[routes |-> {"file", "batch", "bundle"}, keys |-> 2, revs |-> 1, restarts |-> 0],
   [routes |-> {"fetch"}, keys |-> 1, revs |-> 1, restarts |-> 0],
   [routes |-> {"batch", "fetch"}, keys |-> 1, revs |-> 0, restarts |-> 1]}

\* The power fails only where the pages do not share an upload.
UploadCases == {[shared |-> TRUE, power |-> FALSE], [shared |-> FALSE, power |-> TRUE]}
SharePages == SUBSET Calls

\* The pushes, pages and calls are named like the requests, their entries and
\* the library's paths like the files, so one
\* permutation serves them all.
OutboundSymmetry ==
  Permutations(Requests) \cup Permutations(Files) \cup Permutations(Tickets)
=============================================================================
