---------------------------- MODULE JobLifecycle ----------------------------
(***************************************************************************)
(* What the queue promises about one job, with no workers, leases, order   *)
(* or calls: a job that was accepted is run at most MaxAttempts times, one *)
(* run after the other, ends once, and once it is revoked it is not        *)
(* started again and can only end as cancelled.  One step may move several *)
(* jobs, because one claim settles every lease that ran out.               *)
(***************************************************************************)
EXTENDS Naturals

CONSTANTS Jobs, MaxAttempts

VARIABLES phase, runs, revoked

vars == <<phase, runs, revoked>>

Outcomes == {"succeeded", "needs_attention", "failed", "cancelled"}

Init ==
    /\ phase   = [j \in Jobs |-> "absent"]
    /\ runs    = [j \in Jobs |-> 0]
    /\ revoked = [j \in Jobs |-> FALSE]

Becomes(j, p, n, r) == phase'[j] = p /\ runs'[j] = n /\ revoked'[j] = r

Stay(j) == Becomes(j, phase[j], runs[j], revoked[j])

Accept(j) == phase[j] = "absent" /\ Becomes(j, "queued", 0, FALSE)

\* A run begins: from the line, or in one go with the loss of the last run.
Run(j) ==
    /\ phase[j] \in {"queued", "running"}
    /\ runs[j] < MaxAttempts
    /\ ~revoked[j]
    /\ Becomes(j, "running", runs[j] + 1, FALSE)

\* The run did not end the job and another one is left.
PutBack(j) ==
    /\ phase[j] = "running"
    /\ runs[j] < MaxAttempts
    /\ ~revoked[j]
    /\ Becomes(j, "queued", runs[j], FALSE)

\* The run's own result, refused to a revoked job.
Finish(j) ==
    /\ phase[j] = "running"
    /\ ~revoked[j]
    /\ \E p \in {"succeeded", "needs_attention"} : Becomes(j, p, runs[j], FALSE)

\* Only a job that has used all its runs fails.
GiveUp(j) ==
    /\ phase[j] = "running"
    /\ runs[j] = MaxAttempts
    /\ ~revoked[j]
    /\ Becomes(j, "failed", runs[j], FALSE)

Revoke(j) ==
    /\ phase[j] = "running"
    /\ Becomes(j, "running", runs[j], TRUE)

Cancel(j) ==
    /\ \/ phase[j] = "queued"
       \/ phase[j] = "running"
    /\ Becomes(j, "cancelled", runs[j], TRUE)

Delete(j) == phase[j] \in Outcomes /\ Becomes(j, "absent", 0, FALSE)

JobStep(j) ==
    \/ Stay(j) \/ Accept(j) \/ Run(j) \/ PutBack(j) \/ Finish(j)
    \/ GiveUp(j) \/ Revoke(j) \/ Cancel(j) \/ Delete(j)

Next ==
    /\ phase'   \in [Jobs -> {"absent", "queued", "running"} \cup Outcomes]
    /\ runs'    \in [Jobs -> 0..MaxAttempts]
    /\ revoked' \in [Jobs -> BOOLEAN]
    /\ \A j \in Jobs : JobStep(j)

Spec == Init /\ [][Next]_vars

=============================================================================
