--------------------------- MODULE MCEmailDelivery ---------------------------
(* Constants for the runs of EmailDelivery.  Two applications for the same   *)
(* address, and two keys either may be sent under.                           *)
EXTENDS EmailDelivery, TLC

CONSTANTS k1, k2, w1, w2, a1, a2, me, gmailLane, address

MCKeys         == {k1, k2}
MCWorkers      == {w1, w2}
MCApplications == {a1, a2}
MCOwner        == [k \in MCKeys |-> me]
MCProvider     == [k \in MCKeys |-> gmailLane]
MCRecipient    == [a \in MCApplications |-> address]

Symmetry == Permutations(MCWorkers) \cup Permutations(MCKeys)
                \cup Permutations(MCApplications)
=============================================================================
