------------------------------ MODULE JobQueue ------------------------------
(***************************************************************************)
(* The automation_jobs table and the PL/pgSQL functions that are its only  *)
(* writers.  Every function is one database transaction, so it is one      *)
(* action.  The module has no Next of its own: WorkerLoop composes it with *)
(* the worker processes, the user and the passage of time, and             *)
(* EmailDelivery and FormSubmission compose it with the work that e-mail   *)
(* and form-submission jobs do.                                            *)
(*                                                                         *)
(* Abstractions.  A timestamp is kept only as the outcome of the           *)
(* comparisons made with it: "lease" says whether lease_expires_at is      *)
(* null, still ahead of the clock or behind it, and "due" whether          *)
(* run_after has been reached.  The order  by run_after, created_at  in    *)
(* which due rows are claimed is kept as "ahead".  The result, progress    *)
(* and error texts of a row are left to the modules that need them.  The   *)
(* limit of jobs created per day is left out: it only refuses more.        *)
(***************************************************************************)
EXTENDS Naturals, FiniteSets

CONSTANTS
    Jobs,          \* identities of rows of automation_jobs (idempotency keys)
    Workers,       \* values of WORKER_ID
    Nobody,        \* locked_by is null
    Owner,         \* Owner[j]: the user_id of row j
    Provider,      \* Provider[j]: its provider, or NoProvider
    NoProvider,
    SubmitJobs,    \* the rows of kind application_submit
    MaxAttempts,   \* column max_attempts
    MaxActive      \* queued and running rows a user may have (20 in the code)

ASSUME QueueAssumption ==
    /\ Nobody \notin Workers
    /\ SubmitJobs \subseteq Jobs
    /\ MaxAttempts \in Nat \ {0}
    /\ MaxActive \in Nat \ {0}

VARIABLES
    status,        \* column status, or "absent" when there is no such row
    attempts,      \* column attempts
    lockedBy,      \* column locked_by
    lease,         \* lease_expires_at: "none", "live" or "expired"
    cancelReq,     \* cancel_requested_at is not null
    due,           \* run_after <= clock_timestamp()
    ahead          \* ahead[j]: the due rows that became due before row j did

queueVars == <<status, attempts, lockedBy, lease, cancelReq, due, ahead>>

Terminal == {"succeeded", "failed", "cancelled", "needs_attention"}
Active   == {"queued", "running"}
Statuses == {"absent"} \cup Active \cup Terminal

QueueTypeOK ==
    /\ status    \in [Jobs -> Statuses]
    /\ attempts  \in [Jobs -> 0..MaxAttempts]
    /\ lockedBy  \in [Jobs -> Workers \cup {Nobody}]
    /\ lease     \in [Jobs -> {"none", "live", "expired"}]
    /\ cancelReq \in [Jobs -> BOOLEAN]
    /\ due       \in [Jobs -> BOOLEAN]
    /\ ahead     \in [Jobs -> SUBSET Jobs]

QueueInit ==
    /\ status    = [j \in Jobs |-> "absent"]
    /\ attempts  = [j \in Jobs |-> 0]
    /\ lockedBy  = [j \in Jobs |-> Nobody]
    /\ lease     = [j \in Jobs |-> "none"]
    /\ cancelReq = [j \in Jobs |-> FALSE]
    /\ due       = [j \in Jobs |-> TRUE]
    /\ ahead     = [j \in Jobs |-> {}]

-----------------------------------------------------------------------------
(* Helpers *)

\* The due rows waiting to be claimed.
InLine == {j \in Jobs : status[j] = "queued" /\ due[j]}

\* The order of the line once the rows of "gone" have left it and those of
\* "joined" have become due.  Rows that join together have equal run_after.
Lined(joined, gone) ==
    [j \in Jobs |-> IF j \in joined THEN InLine \ (gone \cup joined)
                    ELSE IF j \in gone THEN {}
                    ELSE ahead[j] \ (gone \cup joined)]

\* Mutant: lease_expires_at is left behind.
UnlockKeepingLease(S) ==
    /\ lockedBy' = [j \in Jobs |-> IF j \in S THEN Nobody ELSE lockedBy[j]]
    /\ UNCHANGED lease

\* Rows S lose their lock: locked_by, locked_at and lease_expires_at are nulled.
Unlock(S) ==
    /\ lockedBy' = [j \in Jobs |-> IF j \in S THEN Nobody ELSE lockedBy[j]]
    /\ lease'    = [j \in Jobs |-> IF j \in S THEN "none" ELSE lease[j]]

\* Mutant: the fence does not ask whose lock it is.
HoldsLeaseOfAnyone(w, j) == status[j] = "running" /\ lease[j] = "live"

\* The fence in the WHERE clause of every function a worker calls.
HoldsLease(w, j) ==
    /\ status[j] = "running"
    /\ lockedBy[j] = w
    /\ lease[j] = "live"

SameLane(j, k) ==
    /\ Owner[j] = Owner[k]
    /\ Provider[j] = Provider[k]
    /\ Provider[j] # NoProvider

-----------------------------------------------------------------------------
(* The user's functions *)

\* enqueue_automation_job.  The rows "old" are the user's terminal rows last
\* updated more than 90 days ago, deleted in the same transaction.  A call
\* with the key of an existing row returns that row and changes nothing.
Enqueue(j, old) ==
    /\ status[j] = "absent"
    /\ \A k \in old : Owner[k] = Owner[j] /\ status[k] \in Terminal
    /\ Cardinality({k \in Jobs : Owner[k] = Owner[j] /\ status[k] \in Active})
         < MaxActive
    /\ status'    = [k \in Jobs |-> IF k = j THEN "queued"
                                    ELSE IF k \in old THEN "absent" ELSE status[k]]
    /\ attempts'  = [k \in Jobs |-> IF k \in old \cup {j} THEN 0 ELSE attempts[k]]
    /\ cancelReq' = [k \in Jobs |-> k \notin old \cup {j} /\ cancelReq[k]]
    /\ due'       = [k \in Jobs |-> k \in old \cup {j} \/ due[k]]
    /\ ahead'     = Lined({j}, old)
    /\ UNCHANGED <<lockedBy, lease>>

\* cancel_automation_job: a queued row is cancelled at once, a running row
\* only gets the request, a terminal row is returned as it is.
CancelJob(j) ==
    /\ status[j] \in Active
    /\ status' = [status EXCEPT ![j] = IF @ = "queued" THEN "cancelled" ELSE @]
    /\ cancelReq' = [cancelReq EXCEPT ![j] = TRUE]
    /\ ahead' = IF status[j] = "queued" THEN Lined({}, {j}) ELSE ahead
    /\ UNCHANGED <<attempts, lockedBy, lease, due>>

\* The trigger on application_form_revisions: the active submit rows of a
\* revision that becomes superseded, S, are cancelled the same way.
CancelSuperseded(S) ==
    LET hit  == {j \in S : status[j] \in Active}
        gone == {j \in hit : status[j] = "queued"}
    IN /\ status'    = [j \in Jobs |-> IF j \in gone THEN "cancelled" ELSE status[j]]
       /\ cancelReq' = [j \in Jobs |-> j \in hit \/ cancelReq[j]]
       /\ ahead'     = Lined({}, gone)
       /\ UNCHANGED <<attempts, lockedBy, lease, due>>

-----------------------------------------------------------------------------
(* claim_automation_job *)

\* "stale" are the submit rows whose form revision is not the latest one in
\* status approved, and "confirmed" those whose revision is submitted with a
\* provider confirmation.

\* The third update of the function: running rows of a stale revision get a
\* cancellation request.
Revoked(stale, confirmed) ==
    {j \in stale \ confirmed : status[j] = "running"}

\* Rows the sweeps cancel: queued ones that are to be cancelled or are stale,
\* and those with an expired lease and a request, a fresh one included.
Withdrawn(stale, confirmed) ==
    {j \in Jobs :
        \/ status[j] = "queued" /\ (cancelReq[j] \/ j \in stale)
        \/ /\ status[j] = "running" /\ lease[j] = "expired"
           /\ cancelReq[j] \/ j \in Revoked(stale, confirmed)}

Expired(stale, confirmed) ==
    {j \in Jobs : status[j] = "running" /\ lease[j] = "expired"}
        \ Withdrawn(stale, confirmed)

\* Mutant: off by one, the last attempt is never granted.
ExhaustedEarly(stale, confirmed) ==
    {j \in Expired(stale, confirmed) : attempts[j] + 1 >= MaxAttempts}

\* An expired lease uses up the attempt: the last one fails the row ...
Exhausted(stale, confirmed) ==
    {j \in Expired(stale, confirmed) : attempts[j] >= MaxAttempts}

\* ... and an earlier one puts it back in line, due at once.
Requeued(stale, confirmed) ==
    Expired(stale, confirmed) \ Exhausted(stale, confirmed)

\* Mutant: the select does not look at the rest of the lane.
ClaimableInBusyLane(stale, confirmed) ==
    {j \in (InLine \ Withdrawn(stale, confirmed)) \cup Requeued(stale, confirmed) :
        attempts[j] < MaxAttempts /\ j \notin stale}

\* The rows the final select may choose from.
Claimable(stale, confirmed) ==
    {j \in (InLine \ Withdrawn(stale, confirmed)) \cup Requeued(stale, confirmed) :
        /\ attempts[j] < MaxAttempts
        /\ j \notin stale
        /\ ~ \E k \in Jobs : SameLane(j, k) /\ status[k] = "running"
                             /\ lease[k] # "expired"}

\* Mutant: no order by run_after, created_at.
FirstInAnyOrder(stale, confirmed) == Claimable(stale, confirmed)

\* It takes the first of them in the line.
First(stale, confirmed) ==
    LET line(j) == Lined(Requeued(stale, confirmed), Withdrawn(stale, confirmed))[j]
    IN {j \in Claimable(stale, confirmed) :
            line(j) \cap Claimable(stale, confirmed) = {}}

\* All the function's updates; "taken" is the row claimed for w, if any.
SweepAndTake(w, taken, stale, confirmed) ==
    LET dropped == Withdrawn(stale, confirmed)
        lost    == Exhausted(stale, confirmed)
        again   == Requeued(stale, confirmed)
    IN /\ status' = [j \in Jobs |->
             CASE j \in taken   -> "running"
               [] j \in dropped -> "cancelled"
               [] j \in lost    -> "failed"
               [] j \in again \ taken -> "queued"
               [] OTHER -> status[j]]
       /\ attempts'  = [j \in Jobs |-> IF j \in taken THEN attempts[j] + 1
                                       ELSE attempts[j]]
       /\ lockedBy'  = [j \in Jobs |-> IF j \in taken THEN w
                                       ELSE IF j \in dropped \cup lost \cup again
                                            THEN Nobody ELSE lockedBy[j]]
       /\ lease'     = [j \in Jobs |-> IF j \in taken THEN "live"
                                       ELSE IF j \in dropped \cup lost \cup again
                                            THEN "none" ELSE lease[j]]
       /\ cancelReq' = [j \in Jobs |-> \/ cancelReq[j]
                                       \/ j \in Revoked(stale, confirmed)
                                       \/ j \in stale \cap dropped]
       /\ due'       = [j \in Jobs |-> j \in again \/ due[j]]
       /\ ahead'     = Lined(again \ taken, dropped \cup taken)

\* Mutant: a claim may take over any expired lease.
ClaimTakingOver(w, j, stale, confirmed) ==
    /\ j \in InLine \cup Expired(stale, confirmed)
    /\ SweepAndTake(w, {j}, stale, confirmed)

Claim(w, j, stale, confirmed) ==
    /\ j \in First(stale, confirmed)
    /\ SweepAndTake(w, {j}, stale, confirmed)

\* Nothing is claimable: the sweeps are committed all the same.
ClaimNothing(w, stale, confirmed) ==
    /\ Claimable(stale, confirmed) = {}
    /\ SweepAndTake(w, {}, stale, confirmed)

-----------------------------------------------------------------------------
(* The lease holder's functions *)

\* heartbeat_automation_job on a row whose cancellation was requested.
HeartbeatCancels(w, j) ==
    /\ HoldsLease(w, j)
    /\ cancelReq[j]
    /\ status' = [status EXCEPT ![j] = "cancelled"]
    /\ Unlock({j})
    /\ UNCHANGED <<attempts, cancelReq, due, ahead>>

\* heartbeat_automation_job otherwise: the lease is pushed forward, and stays
\* live; without the lease no row is matched.  It answers "active" or not.
HeartbeatRenews(w, j) ==
    /\ HoldsLease(w, j)
    /\ ~cancelReq[j]
    /\ UNCHANGED queueVars

HeartbeatRefused(w, j) ==
    /\ ~HoldsLease(w, j)
    /\ UNCHANGED queueVars

\* Mutant: a completion overrules the user's cancellation.
CompleteCancelledJob(w, j, t) ==
    /\ HoldsLease(w, j)
    /\ status' = [status EXCEPT ![j] = t]
    /\ Unlock({j})
    /\ UNCHANGED <<attempts, cancelReq, due, ahead>>

\* complete_automation_job with terminal_status t.
CompleteJob(w, j, t) ==
    /\ HoldsLease(w, j)
    /\ ~cancelReq[j]
    /\ status' = [status EXCEPT ![j] = t]
    /\ Unlock({j})
    /\ UNCHANGED <<attempts, cancelReq, due, ahead>>

\* Mutant: retries are not counted.
FailJobForEver(w, j, retry) ==
    /\ HoldsLease(w, j)
    /\ status' = [status EXCEPT ![j] = IF cancelReq[j] THEN "cancelled"
                                       ELSE IF retry THEN "queued" ELSE "failed"]
    /\ due' = [due EXCEPT ![j] = ~retry]
    /\ Unlock({j})
    /\ UNCHANGED <<attempts, cancelReq, ahead>>

\* fail_automation_job.  "retry" is retry_after_seconds > 0: the row is queued
\* again with run_after in the future, unless its attempts are used up.
FailJob(w, j, retry) ==
    /\ HoldsLease(w, j)
    /\ LET again == retry /\ attempts[j] < MaxAttempts
       IN /\ status' = [status EXCEPT ![j] = IF cancelReq[j] THEN "cancelled"
                                             ELSE IF again THEN "queued"
                                             ELSE "failed"]
          /\ due' = [due EXCEPT ![j] = ~again]
    /\ Unlock({j})
    /\ UNCHANGED <<attempts, cancelReq, ahead>>

-----------------------------------------------------------------------------
(* The database clock *)

\* A lease that nobody renews in time runs out.
ExpireLease(j) ==
    /\ lease[j] = "live"
    /\ lease' = [lease EXCEPT ![j] = "expired"]
    /\ UNCHANGED <<status, attempts, lockedBy, cancelReq, due, ahead>>

\* The retry delay of a queued row is over.
BecomeDue(j) ==
    /\ status[j] = "queued"
    /\ ~due[j]
    /\ due' = [due EXCEPT ![j] = TRUE]
    /\ ahead' = Lined({j}, {})
    /\ UNCHANGED <<status, attempts, lockedBy, lease, cancelReq>>

-----------------------------------------------------------------------------
\* Every transaction that writes the table, with any sets of stale and
\* confirmed submit rows.
QueueNext ==
    \/ \E j \in Jobs :
        \/ \E old \in SUBSET Jobs : Enqueue(j, old)
        \/ CancelJob(j) \/ ExpireLease(j) \/ BecomeDue(j)
        \/ \E w \in Workers :
            \/ HeartbeatCancels(w, j)
            \/ \E t \in {"succeeded", "needs_attention"} : CompleteJob(w, j, t)
            \/ \E retry \in BOOLEAN : FailJob(w, j, retry)
    \/ \E S \in SUBSET SubmitJobs : CancelSuperseded(S)
    \/ \E w \in Workers, stale, confirmed \in SUBSET SubmitJobs :
        \/ \E j \in Jobs : Claim(w, j, stale, confirmed)
        \/ ClaimNothing(w, stale, confirmed)

-----------------------------------------------------------------------------
(* Properties *)

\* One running row per user and provider (claim_automation_job's last
\* condition, the unique index automation_jobs_one_running_provider_idx).
OneRunningPerLane ==
    \A j, k \in Jobs :
        /\ j # k /\ SameLane(j, k)
        => ~(status[j] = "running" /\ status[k] = "running")

\* A row is locked, and has a lease, exactly while it runs.  A lock that
\* outlives the run would keep nobody out and a run without one could never
\* be recovered.
LockedIffRunning ==
    \A j \in Jobs :
        /\ (status[j] = "running") <=> (lockedBy[j] # Nobody)
        /\ (status[j] = "running") <=> (lease[j] # "none")

\* A waiting row can still be claimed: it has an attempt left and nobody has
\* asked to cancel it.  A queued row that claim_automation_job skips for ever
\* would be invisible to every sweep.
WaitingIsStartable ==
    \A j \in Jobs :
        status[j] = "queued" => attempts[j] < MaxAttempts /\ ~cancelReq[j]

\* Asked to cancel, a row never ends in any other way: not completed, not
\* failed and retried, not failed by its last lease.
CancellationWins ==
    \A j \in Jobs :
        cancelReq[j] => status[j] \in {"running", "cancelled"}

QueueInv ==
    /\ QueueTypeOK
    /\ OneRunningPerLane
    /\ LockedIffRunning
    /\ WaitingIsStartable
    /\ CancellationWins

-----------------------------------------------------------------------------
(* The abstract specification *)

Lifecycle == INSTANCE JobLifecycle
                WITH phase <- status, runs <- attempts, revoked <- cancelReq

\* The queue, with its leases, sweeps and lost calls, is an implementation of
\* JobLifecycle.
ImplementsLifecycle == Lifecycle!Spec

=============================================================================
