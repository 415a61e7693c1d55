----------------------------- MODULE WorkerLoop -----------------------------
(***************************************************************************)
(* The queue in operation: the workers of src/worker/main.py (run_once,    *)
(* _await_handler, _record_handler_failure) calling the functions of       *)
(* JobQueue over a transport that can lose the request or the reply, users *)
(* who enqueue and cancel, form revisions that go stale under a submit     *)
(* job, crashes, and leases that run out while a worker still works.       *)
(*                                                                         *)
(* A handler is only its outcome here: it returns, raises, or is cancelled *)
(* when a heartbeat finds the lease gone.                                  *)
(***************************************************************************)
EXTENDS JobQueue

CONSTANT NoJob

ASSUME LoopAssumption == NoJob \notin Jobs

VARIABLES
    approval,   \* for a submit job: its revision is "current", "stale", "confirmed"
    pc,         \* where each worker is in run_once
    cur,        \* the row it works on
    attemptNo   \* job.attempts of the record the claim returned

workerVars == <<pc, cur, attemptNo>>
vars == <<queueVars, approval, workerVars>>

Stale     == {j \in SubmitJobs : approval[j] # "current"}
Confirmed == {j \in SubmitJobs : approval[j] = "confirmed"}

Steps == {"idle", "claimed", "handling", "completing", "failing"}

TypeOK ==
    /\ QueueTypeOK
    /\ approval  \in [SubmitJobs -> {"current", "stale", "confirmed"}]
    /\ pc        \in [Workers -> Steps]
    /\ cur       \in [Workers -> Jobs \cup {NoJob}]
    /\ attemptNo \in [Workers -> 0..MaxAttempts]

Init ==
    /\ QueueInit
    /\ approval  = [j \in SubmitJobs |-> "current"]
    /\ pc        = [w \in Workers |-> "idle"]
    /\ cur       = [w \in Workers |-> NoJob]
    /\ attemptNo = [w \in Workers |-> 0]

-----------------------------------------------------------------------------
(* Users and form revisions *)

\* A new submit row is for a revision that is approved and the latest one.
UserEnqueues(j) ==
    /\ \E old \in SUBSET {k \in Jobs : status[k] \in Terminal} :
          /\ Enqueue(j, old)
          /\ approval' = [k \in SubmitJobs |-> IF k \in old \cup {j} THEN "current"
                                              ELSE approval[k]]
    /\ UNCHANGED workerVars

UserCancels(j) ==
    /\ CancelJob(j)
    /\ UNCHANGED <<approval, workerVars>>

\* The revision of submit row j is superseded; the trigger cancels the row.
RevisionSuperseded(j) ==
    /\ approval[j] = "current"
    /\ approval' = [approval EXCEPT ![j] = "stale"]
    /\ CancelSuperseded({j})
    /\ UNCHANGED workerVars

\* A change of the revision that the trigger missed ("concurrent transitions,
\* and installations upgraded from older builds"): the row is left to the sweeps
\* of the next claim.
RevisionLeavesApproved(j) ==
    /\ approval[j] = "current"
    /\ approval' = [approval EXCEPT ![j] = "stale"]
    /\ UNCHANGED <<queueVars, workerVars>>

\* The worker that submits records the provider's confirmation.
RevisionConfirmed(w, j) ==
    /\ pc[w] = "handling" /\ cur[w] = j
    /\ HoldsLease(w, j)
    /\ ~cancelReq[j]
    /\ approval[j] = "current"
    /\ approval' = [approval EXCEPT ![j] = "confirmed"]
    /\ UNCHANGED <<queueVars, workerVars>>

\* The user says that the uncertain attempt of row j did submit the form.
RevisionVerified(j) ==
    /\ status[j] \notin Active
    /\ approval[j] = "stale"
    /\ approval' = [approval EXCEPT ![j] = "confirmed"]
    /\ UNCHANGED <<queueVars, workerVars>>

-----------------------------------------------------------------------------
(* run_once *)

Release(w) ==
    /\ pc'  = [pc EXCEPT ![w] = "idle"]
    /\ cur' = [cur EXCEPT ![w] = NoJob]
    /\ attemptNo' = [attemptNo EXCEPT ![w] = 0]

\* The claim commits and its record reaches the worker.
WorkerClaims(w, j) ==
    /\ pc[w] = "idle"
    /\ Claim(w, j, Stale, Confirmed)
    /\ pc'  = [pc EXCEPT ![w] = "claimed"]
    /\ cur' = [cur EXCEPT ![w] = j]
    /\ attemptNo' = [attemptNo EXCEPT ![w] = attempts[j] + 1]
    /\ UNCHANGED approval

\* The claim commits and its reply is lost: run_forever backs off and polls
\* again, with a row it does not know of leased to it.
ClaimReplyLost(w, j) ==
    /\ pc[w] = "idle"
    /\ Claim(w, j, Stale, Confirmed)
    /\ UNCHANGED <<approval, workerVars>>

WorkerFindsNothing(w) ==
    /\ pc[w] = "idle"
    /\ ClaimNothing(w, Stale, Confirmed)
    /\ UNCHANGED <<approval, workerVars>>

\* The heartbeat between the claim and the handler.
InitialHeartbeat(w, j) ==
    /\ pc[w] = "claimed" /\ cur[w] = j
    /\ \/ /\ HeartbeatRenews(w, j)
          /\ pc' = [pc EXCEPT ![w] = "handling"]
          /\ UNCHANGED <<cur, attemptNo>>
       \/ (HeartbeatCancels(w, j) \/ HeartbeatRefused(w, j)) /\ Release(w)
    /\ UNCHANGED approval

\* It raises, the request or the reply lost: no handler is run.
InitialHeartbeatFails(w, j) ==
    /\ pc[w] = "claimed" /\ cur[w] = j
    /\ HeartbeatCancels(w, j) \/ UNCHANGED queueVars
    /\ Release(w)
    /\ UNCHANGED approval

\* A heartbeat of _await_handler that finds the lease gone cancels the
\* handler.  (One that renews the lease, or whose request is lost, changes
\* nothing.)
HeartbeatEndsHandler(w, j) ==
    /\ pc[w] = "handling" /\ cur[w] = j
    /\ HeartbeatCancels(w, j) \/ HeartbeatRefused(w, j)
    /\ Release(w)
    /\ UNCHANGED approval

\* The heartbeat cancelled the row and its reply was lost: the handler goes on.
HeartbeatReplyLost(w, j) ==
    /\ pc[w] = "handling" /\ cur[w] = j
    /\ HeartbeatCancels(w, j)
    /\ UNCHANGED <<approval, workerVars>>

HandlerReturns(w) ==
    /\ pc[w] = "handling"
    /\ pc' = [pc EXCEPT ![w] = "completing"]
    /\ UNCHANGED <<queueVars, approval, cur, attemptNo>>

HandlerRaises(w) ==
    /\ pc[w] = "handling"
    /\ pc' = [pc EXCEPT ![w] = "failing"]
    /\ UNCHANGED <<queueVars, approval, cur, attemptNo>>

\* The worker asks once for the row to be completed, and goes on polling
\* whether the call matched the row or not.
WorkerCompletes(w, j) ==
    /\ pc[w] = "completing" /\ cur[w] = j
    /\ \/ \E t \in {"succeeded", "needs_attention"} : CompleteJob(w, j, t)
       \/ (~HoldsLease(w, j) \/ cancelReq[j]) /\ UNCHANGED queueVars
    /\ Release(w)
    /\ UNCHANGED approval

\* complete_application_form_submit_attention: in the same transaction the
\* revision leaves status approved, or is closed with the confirmation.
WorkerRecordsAttention(w, j) ==
    /\ pc[w] = "completing" /\ cur[w] = j
    /\ j \in SubmitJobs /\ approval[j] = "current"
    /\ CompleteJob(w, j, "needs_attention")
    /\ \E a \in {"stale", "confirmed"} : approval' = [approval EXCEPT ![j] = a]
    /\ Release(w)

\* _record_handler_failure; the delay is at least retry_base_seconds > 0.
WorkerFails(w, j) ==
    /\ pc[w] = "failing" /\ cur[w] = j
    /\ \/ FailJob(w, j, TRUE)
       \/ ~HoldsLease(w, j) /\ UNCHANGED queueVars
    /\ Release(w)
    /\ UNCHANGED approval

\* The request of either call is lost; the exception is swallowed and the row
\* stays leased until its lease expires.
TerminalRequestLost(w) ==
    /\ pc[w] \in {"completing", "failing"}
    /\ Release(w)
    /\ UNCHANGED <<queueVars, approval>>

\* The process dies and is started again with the same WORKER_ID.
Crash(w) ==
    /\ pc[w] # "idle"
    /\ Release(w)
    /\ UNCHANGED <<queueVars, approval>>

LeaseExpires(j) == ExpireLease(j) /\ UNCHANGED <<approval, workerVars>>
JobBecomesDue(j) == BecomeDue(j) /\ UNCHANGED <<approval, workerVars>>

-----------------------------------------------------------------------------

WorkerStep(w) ==
    \/ \E j \in Jobs :
        \/ WorkerClaims(w, j) \/ ClaimReplyLost(w, j)
        \/ InitialHeartbeat(w, j) \/ InitialHeartbeatFails(w, j)
        \/ HeartbeatEndsHandler(w, j) \/ HeartbeatReplyLost(w, j)
        \/ WorkerCompletes(w, j) \/ WorkerRecordsAttention(w, j) \/ WorkerFails(w, j)
    \/ WorkerFindsNothing(w)
    \/ HandlerReturns(w) \/ HandlerRaises(w)
    \/ TerminalRequestLost(w) \/ Crash(w)

RevisionStep ==
    \E j \in SubmitJobs :
        \/ RevisionSuperseded(j) \/ RevisionLeavesApproved(j) \/ RevisionVerified(j)
        \/ \E w \in Workers : RevisionConfirmed(w, j)

Next ==
    \/ \E j \in Jobs : UserEnqueues(j) \/ UserCancels(j)
                       \/ LeaseExpires(j) \/ JobBecomesDue(j)
    \/ RevisionStep
    \/ \E w \in Workers : WorkerStep(w)

Spec == Init /\ [][Next]_vars

\* What the deployment gives: at least the workers that run keep polling and
\* get some replies, a handler is bounded by its provider timeouts, a call
\* ends, the clock goes on.  Users owe nothing, and neither do crashes.
Unattended(j) == \A w \in Workers : cur[w] # j

Fairness ==
    /\ \A w \in Workers :
        /\ WF_vars(WorkerFindsNothing(w) \/ \E j \in Jobs : WorkerClaims(w, j))
        /\ WF_vars(\E j \in Jobs : InitialHeartbeat(w, j))
        /\ WF_vars(HandlerReturns(w) \/ HandlerRaises(w))
        /\ WF_vars(\E j \in Jobs : \/ WorkerCompletes(w, j) \/ WorkerRecordsAttention(w, j)
                                  \/ WorkerFails(w, j))
    /\ \A j \in Jobs :
        /\ WF_vars(Unattended(j) /\ LeaseExpires(j))
        /\ WF_vars(JobBecomesDue(j))

FairSpec == Spec /\ Fairness

-----------------------------------------------------------------------------
(* Properties *)

\* A worker that still thinks it owns a row is either right or reports about
\* an attempt that is over: what it writes can never be taken for the work of
\* a later attempt, although the fence compares only WORKER_ID.
FenceIsPerAttempt ==
    \A w \in Workers, j \in Jobs :
        cur[w] = j /\ HoldsLease(w, j) => attemptNo[w] = attempts[j]

\* The inductive invariant: an idle worker remembers no row, so a claim whose
\* reply was lost cannot be taken for the attempt of an earlier one.
IdleHasNoJob == \A w \in Workers : pc[w] = "idle" => cur[w] = NoJob

IInv ==
    /\ QueueInv
    /\ TypeOK
    /\ IdleHasNoJob
    /\ FenceIsPerAttempt

\* Every row that is enqueued ends, however often workers crash, replies are
\* lost and other rows of the lane are enqueued.
EveryJobEnds ==
    \A j \in Jobs : (status[j] \in Active) ~> (status[j] \notin Active)

=============================================================================
