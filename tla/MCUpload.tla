------------------------------ MODULE MCUpload ------------------------------
(* The two ends of an upload, side by side: the port's admission of sessions   *)
(* and the client that ships drops and resumes sends.  They share no state, so *)
(* a behaviour follows one of them, the focus.  The port is followed twice:    *)
(* with administrators and a shutdown and no commands ("admission"), and with  *)
(* commands, finishes and workers and the administrators away ("usage").       *)
EXTENDS MCSessions, Sender

VARIABLE focus

\* A call and a process that dies, or two calls.
SenderBudgets == {[starts |-> 1, kills |-> 1], [starts |-> 2, kills |-> 0]}

UploadInit ==
  /\ focus \in {"admission", "usage", "sender"} /\ Init /\ SenderInit
  \* What only says how the other focus begins is fixed.
  /\ focus # "sender" => kills = 0 /\ Cardinality({home[r] : r \in Runners}) = 1
  /\ focus = "sender" => (\A l \in Links : links[l] = "usable") /\ (\A i \in Ids : adm[i].bytes = 1)
UsageNext ==
  \/ \E i \in Ids : Create(i) \/ Command(i) \/ Worker(i) \/ GoIdle(i)
  \/ \E l \in Links : CloseLink(l)
  \/ Sweep
UploadNext ==
  /\ UNCHANGED focus
  /\ \/ focus = "admission" /\ Next /\ UNCHANGED <<cmds, svars>>
     \/ focus = "usage" /\ UsageNext /\ UNCHANGED svars
     \/ focus = "sender" /\ SenderNext /\ UNCHANGED vars
UploadSpec == UploadInit /\ [][UploadNext]_<<focus, vars, svars>>

\* The journal's entries are named like the sessions, so one permutation
\* serves both.
UploadSymmetry ==
  IdSymmetry \cup Permutations(Runners) \cup Permutations(Processes) \cup Permutations(HttpSessions)
=============================================================================
