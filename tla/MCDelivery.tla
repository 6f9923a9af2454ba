----------------------------- MODULE MCDelivery -----------------------------
(* The two ends of a delivery and those who may ask for one, side by side: the *)
(* jobs that prepare and export it at the port, the client that takes it, and  *)
(* the accounts of the port.  They share no state, so a behaviour follows one  *)
(* of them, the focus.                                                         *)
EXTENDS MCJobs, Fetch, Accounts, FiniteSetsExt

VARIABLE focus

\* What a behaviour of the accounts is about, with its numbers of sign-ins and
\* of requests.
Topic(about, f, v, claims, c, r) ==
  {[about |-> about, signins |-> F, visits |-> V, claims |-> claims, cookies |-> c, revocations |-> r] :
     F \in kSubset(f, SignIns), V \in kSubset(v, Visits)}
AccountTopics ==
  UNION {Topic({"keys", "restart"}, 2, 0, {TRUE}, 1, 0),
         Topic({"desktop", "purge", "restart", "group"}, 1, 0, {FALSE}, 2, 1),
         Topic({"desktop", "restart", "group"}, 1, 0, {FALSE}, 2, 2),
         Topic({"provisioning", "purge"}, 1, 0, {TRUE}, 2, 2),
         Topic({"desktop", "password"}, 1, 1, {TRUE}, 2, 1),
         Topic({"tenant"}, 1, 1, {TRUE}, 2, 0),
         Topic({"token"}, 1, 2, {TRUE}, 1, 1)}

DeliveryInit ==
  /\ focus \in {"jobs", "fetch", "accounts"} /\ Init /\ FetchInit /\ AccountsInit
  \* A receive finds a short journal; what only says how another focus begins
  \* is fixed.
  /\ focus = "fetch" <=> journalAt # 0
  /\ focus # "accounts" => topic.about = {"keys", "restart"}
DeliveryNext ==
  /\ UNCHANGED focus
  /\ \/ focus = "jobs" /\ Next /\ UNCHANGED <<fvars, avars>>
     \/ focus = "fetch" /\ FetchNext /\ UNCHANGED <<vars, avars>>
     \/ focus = "accounts" /\ AccountsNext /\ UNCHANGED <<vars, fvars>>
DeliverySpec == DeliveryInit /\ [][DeliveryNext]_<<focus, vars, fvars, avars>>

\* The deliveries taken and the requests of accounts are named like the jobs,
\* the receives and the sign-ins like the claim loops, so one permutation
\* serves all.
DeliverySymmetry == JobSymmetry
=============================================================================
