------------------------- MODULE MCAccountDeletion -------------------------
(* An instance of AccountDeletion for TLC: a deletion cut off anywhere. *)
EXTENDS AccountDeletion, TLC

CONSTANTS j1, p1, r1

Anywhere == Pcs \ {"idle"}

=============================================================================
