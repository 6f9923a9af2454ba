------------------------------ MODULE Delivery ------------------------------
(***************************************************************************)
(* What an upload session promises the operator, without saying how: a     *)
(* final file name appears only under a durable admission, and the         *)
(* admission is given up only once every delivered file is named by an     *)
(* upload record, unless the link that would name it is dead.              *)
(***************************************************************************)
CONSTANT Files

VARIABLES
  admitted,  \* the session has a durable admission
  delivered, \* files under their final names
  named,     \* files an upload record of the link names
  dead       \* the link expired or was removed for good

dvars == <<admitted, delivered, named, dead>>

\* Files an earlier upload of the link delivered are named already.
DInit ==
  /\ admitted = FALSE /\ dead = FALSE
  /\ delivered \in SUBSET Files /\ named = delivered

Admit ==
  /\ ~admitted /\ admitted' = TRUE
  /\ UNCHANGED <<delivered, named, dead>>
Deliver(f) ==
  /\ admitted /\ f \notin delivered
  /\ delivered' = delivered \cup {f}
  /\ UNCHANGED <<admitted, named, dead>>
Name(S) ==
  /\ admitted /\ S \subseteq delivered
  /\ named' = named \cup S
  /\ UNCHANGED <<admitted, delivered, dead>>
Release ==
  /\ admitted /\ (delivered \subseteq named \/ dead)
  /\ admitted' = FALSE
  /\ UNCHANGED <<delivered, named, dead>>
\* An expired link; or a removed one, whose admission goes with it.
Die ==
  /\ dead' = TRUE /\ admitted' \in {admitted, FALSE}
  /\ UNCHANGED <<delivered, named>>

DNext ==
  \/ Admit \/ Release \/ Die
  \/ \E f \in Files : Deliver(f)
  \/ \E S \in SUBSET Files : Name(S)

DSpec == DInit /\ [][DNext]_dvars
=============================================================================
