------------------------------ MODULE LeasesMC ------------------------------
(* Small instances of Leases for TLC. *)
EXTENDS Leases, TLC

CONSTANTS e1, e2

OneEndpoint == {e1}
TwoEndpoints == {e1, e2}

\* Two tokens deep, and one unit a tick: half a token when Cost = 2.
MCCapacity == [e \in Endpoints |-> 2 * Cost]
MCRefill   == [e \in Endpoints |-> 1]

Symmetry == Permutations(Slots) \cup Permutations(LeaseIds)
=============================================================================
