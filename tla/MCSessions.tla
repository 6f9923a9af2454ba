----------------------------- MODULE MCSessions -----------------------------
(* Small instances of Sessions for TLC.                                    *)
EXTENDS Sessions, TLC

CONSTANTS tenantLink \* the link that belongs to the named tenant

MCTenantOf == [l \in Links |-> IF l = tenantLink /\ Tenants # {} THEN CHOOSE t \in Tenants : TRUE ELSE Default]
IdSymmetry == Permutations(Ids) \cup Permutations(Attempts)

=============================================================================
