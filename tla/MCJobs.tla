------------------------------- MODULE MCJobs -------------------------------
(* Instances of Jobs for TLC, with the policies a project is saved with.     *)
EXTENDS Jobs, TLC

CONSTANTS d1, d2
Open == [approval |-> FALSE, local |-> TRUE, dests |-> {d1}]
Guarded == [approval |-> TRUE, local |-> FALSE, dests |-> Destinations]
Bare == [approval |-> FALSE, local |-> FALSE, dests |-> {}]
OpenThenGuarded == <<Open, Guarded>>
GuardedThenBare == <<Guarded, Bare>>
JobSymmetry == Permutations(Jobs) \cup Permutations(Slots)
=============================================================================
