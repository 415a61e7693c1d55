---------------------------- MODULE MCWorkerLoop ----------------------------
(* Constants for the runs of WorkerLoop.  The rows j1 (a submit row) and j2 *)
(* share a provider; j3 has none, so it runs beside either of them.  All    *)
(* belong to one user, whose enqueuing deletes old rows.                    *)
EXTENDS WorkerLoop, TLC

CONSTANTS j1, j2, j3, w1, w2, u1, lane

LaneJobs     == {j1, j2}
AllJobs      == {j1, j2, j3}
MCWorkers    == {w1, w2}
MCSubmitJobs == {j1}
MCOwner      == j1 :> u1 @@ j2 :> u1 @@ j3 :> u1
MCProvider   == j1 :> lane @@ j2 :> lane @@ j3 :> NoProvider

Symmetry == Permutations(MCWorkers)
=============================================================================
