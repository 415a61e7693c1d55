-------------------------- MODULE MCFormSubmission --------------------------
(* Constants for the runs of FormSubmission: scan rows s1, s2 and submit rows *)
(* p1, p2 of one application, all in the lane of its provider.               *)
EXTENDS FormSubmission, TLC

CONSTANTS s1, s2, p1, p2, w1, w2, me, lane

Scans      == {s1, s2}
Submits    == {p1, p2}
MCOwner    == [j \in Scans \cup Submits |-> me]
MCProvider == [j \in Scans \cup Submits |-> lane]

Symmetry == Permutations(Scans) \cup Permutations(Submits) \cup Permutations({w1, w2})
=============================================================================
