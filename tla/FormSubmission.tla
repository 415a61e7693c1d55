--------------------------- MODULE FormSubmission ---------------------------
(***************************************************************************)
(* Submission of one job application through a managed browser: the form   *)
(* revisions a scan stores and the user approves, the scan and submit rows *)
(* of the queue, the handler of src/worker/browser_runtime.py with its one *)
(* irreversible step, the click on the provider's final button, and the    *)
(* four ways an attempt is recorded or settled afterwards.                 *)
(*                                                                         *)
(* The queue and the workers are WorkerLoop's, with "approval" computed    *)
(* from the revisions: every action here is one of its actions, with what  *)
(* it does to revisions and handlers.                                      *)
(*                                                                         *)
(* Every row of the queue is for this application.  Rows of SubmitJobs are *)
(* its application_submit rows, the others its application_scan rows.      *)
(* A revision is its number; what it says is left out, since the triggers  *)
(* keep it as it was when it was scanned, and when it was approved.        *)
(***************************************************************************)
EXTENDS Naturals, FiniteSets

CONSTANTS Jobs, Workers, Nobody, Owner, Provider, NoProvider, SubmitJobs,
          MaxAttempts, MaxActive, NoJob,
          MaxRevision      \* revisions an application may have (50 in the code)

VARIABLES
    status, attempts, lockedBy, lease, cancelReq, due, ahead,   \* of JobQueue
    pc, cur, attemptNo,                                         \* of WorkerLoop
    rstatus,     \* application_form_revisions.status, or "none"
    outcome,     \* its submission_result.submission_state
    verdict,     \* its resolution_outcome: "none", "submitted" seen by the
                 \* "provider" or the "user", or "not_submitted"
    formRev,     \* form_revision_id of each submit row, 0 before it has one
    result,      \* submission_state of its result
    hand,        \* hand[w]: where worker w is in the handler
    accepted,    \* accepted[r]: the applications the provider took with the
                 \* answers of r; 2 stands for more than one
    disturbed    \* history: some lease has run out, or the user has cancelled a
                 \* running submit row

revVars     == <<rstatus, outcome, verdict>>
rowVars     == <<formRev, result>>
outside     == <<accepted, disturbed>>
formVars    == <<revVars, rowVars, hand, outside>>
queue       == <<status, attempts, lockedBy, lease, cancelReq, due, ahead>>
loopVars    == <<queue, pc, cur, attemptNo>>
allVars     == <<loopVars, formVars>>

Revisions == 1..MaxRevision
Existing  == {r \in Revisions : rstatus[r] # "none"}
Latest    == Cardinality(Existing)

\* Approved, and no newer revision: the condition written out in every function.
Current(r) == r \in Revisions /\ rstatus[r] = "approved" /\ r = Latest

\* What claim_automation_job sees of the revision of a submit row.
Approval ==
    [j \in SubmitJobs |->
        IF formRev[j] = 0 \/ Current(formRev[j]) THEN "current"
        ELSE IF rstatus[formRev[j]] = "submitted" /\ outcome[formRev[j]] = "confirmed"
        THEN "confirmed" ELSE "stale"]

Loop == INSTANCE WorkerLoop WITH approval <- Approval

ASSUME FormAssumption ==
    /\ MaxRevision \in Nat \ {0}
    /\ Loop!QueueAssumption /\ Loop!LoopAssumption

States == {"none", "not_attempted", "uncertain", "confirmed"}

Fresh == [at |-> "resolve", state |-> "none", ends |-> "needs_attention", taken |-> FALSE]

FormTypeOK ==
    /\ Loop!TypeOK
    /\ rstatus \in [Revisions -> {"none", "scanned", "approved", "submitted",
                                  "needs_attention", "superseded"}]
    /\ outcome \in [Revisions -> States]
    /\ verdict \in [Revisions -> {"none", "provider", "user", "not_submitted"}]
    /\ formRev \in [SubmitJobs -> 0..MaxRevision]
    /\ result  \in [SubmitJobs -> States]
    /\ hand \in [Workers -> [at : {"resolve", "fill", "click", "observe",
                                    "record", "recorded", "stored"},
                             state : States,
                             ends : {"succeeded", "needs_attention"}, taken : BOOLEAN]]
    /\ accepted \in [Revisions -> 0..2]
    /\ disturbed \in BOOLEAN

FormInit ==
    /\ rstatus = [r \in Revisions |-> "none"]
    /\ outcome = [r \in Revisions |-> "none"]
    /\ verdict = [r \in Revisions |-> "none"]
    /\ formRev = [j \in SubmitJobs |-> 0]
    /\ result  = [j \in SubmitJobs |-> "none"]
    /\ hand    = [w \in Workers |-> Fresh]
    /\ accepted = [r \in Revisions |-> 0]
    /\ disturbed = FALSE
    /\ Loop!Init

-----------------------------------------------------------------------------
(* Guards on the history of the application *)

\* The submit rows of a revision; a row that is deleted loses its formRev.
Attempts(r) == {j \in SubmitJobs : formRev[j] = r}

\* The revision, or one of its rows other than those of "old", says s.
ObservedBut(old, r, s) == outcome[r] = s \/ \E j \in Attempts(r) \ old : result[j] = s

Observed(r, s) == ObservedBut({}, r, s)

\* Mutant: only the rows of the queue are asked.
ClosedByRows(old) == \E j \in SubmitJobs \ old : result[j] = "confirmed"

\* guard_application_form_automation_attempt: application_already_submitted.  The
\* rows "old" have been deleted earlier in the transaction.
Closed(old) == \E r \in Existing : ObservedBut(old, r, "confirmed")

\* The same trigger, for a scan: form_submission_resolution_required.
Undecided(old) ==
    \E r \in Existing : /\ rstatus[r] \in {"approved", "needs_attention"}
                        /\ verdict[r] # "not_submitted"
                        /\ ObservedBut(old, r, "uncertain")

\* Mutant: only a confirmation is kept.
MayBeSupersededIfOpen(r) == ~Observed(r, "confirmed")

\* guard_application_form_revision, for a revision about to be superseded.
MayBeSuperseded(r) ==
    /\ ~Observed(r, "confirmed")
    /\ Observed(r, "uncertain") =>
          verdict[r] = "not_submitted" \/ \E q \in Existing \ {r} : Observed(q, "confirmed")

-----------------------------------------------------------------------------
(* The user *)

\* Rows that ended more than 90 days ago are deleted when a row is enqueued; no
\* worker is still busy with one.
EnqueueRow(j, old) ==
    /\ Loop!Enqueue(j, old)
    /\ result' = [k \in SubmitJobs |-> IF k \in old \cup {j} THEN "none" ELSE result[k]]
    /\ UNCHANGED <<revVars, hand, outside, pc, cur, attemptNo>>

Ended == {k \in Jobs : status[k] \in Loop!Terminal /\ \A w \in Workers : cur[w] # k}

EnqueueScan(j) ==
    /\ j \notin SubmitJobs
    /\ \E old \in SUBSET Ended :
          /\ ~Closed(old) /\ ~Undecided(old)
          /\ formRev' = [k \in SubmitJobs |-> IF k \in old THEN 0 ELSE formRev[k]]
          /\ EnqueueRow(j, old)

\* One attempt per approved revision: form_submit_attempt_exists.
EnqueueSubmit(j) ==
    /\ j \in SubmitJobs
    /\ Current(Latest)
    /\ \E old \in SUBSET Ended :
          /\ ~Closed(old)
          /\ Attempts(Latest) \subseteq old
          /\ formRev' = [k \in SubmitJobs |-> IF k = j THEN Latest
                                             ELSE IF k \in old THEN 0 ELSE formRev[k]]
          /\ EnqueueRow(j, old)

CancelRow(j) ==
    /\ Loop!CancelJob(j)
    /\ UNCHANGED <<pc, cur, attemptNo>>
    /\ disturbed' = (disturbed \/ (j \in SubmitJobs /\ status[j] = "running"))
    /\ UNCHANGED <<revVars, rowVars, hand, accepted>>

\* approve_application_form_revision, called with the revision the user reviewed.
ApproveRevision(r) ==
    /\ r = Latest
    /\ rstatus[r] = "scanned"
    /\ rstatus' = [rstatus EXCEPT ![r] = "approved"]
    /\ UNCHANGED <<outcome, verdict, rowVars, hand, outside, loopVars>>

\* resolve_application_form_submission on an uncertain attempt.  (Its branch for
\* a confirmation that was never recorded is for older rows only: see
\* ConfirmationIsRecorded.)
Resolvable(r) ==
    /\ ~Closed({})
    /\ r = Latest
    /\ rstatus[r] \in {"approved", "needs_attention"}
    /\ \A j \in Jobs : status[j] \notin Loop!Active
    /\ Observed(r, "uncertain")

ResolveSubmitted(r) ==
    /\ Resolvable(r)
    /\ rstatus' = [rstatus EXCEPT ![r] = "submitted"]
    /\ outcome' = [outcome EXCEPT ![r] = "confirmed"]
    /\ verdict' = [verdict EXCEPT ![r] = "user"]
    /\ UNCHANGED <<rowVars, hand, outside, loopVars>>

\* Mutant: the attempt is not taken out of the way.
ResolveKeepingRevision(r) ==
    /\ Resolvable(r)
    /\ Latest + 1 < MaxRevision
    /\ rstatus' = [rstatus EXCEPT ![r + 1] = "scanned"]
    /\ verdict' = [verdict EXCEPT ![r] = "not_submitted"]
    /\ UNCHANGED <<outcome, rowVars, hand, outside, loopVars>>

\* The attempt is kept as it was and a copy has to be reviewed again.  One slot
\* is left for the scan that follows.
ResolveNotSubmitted(r) ==
    /\ Resolvable(r)
    /\ Latest + 1 < MaxRevision
    /\ rstatus' = [rstatus EXCEPT ![r] = "superseded", ![r + 1] = "scanned"]
    /\ outcome' = [outcome EXCEPT ![r] = "uncertain"]
    /\ verdict' = [verdict EXCEPT ![r] = "not_submitted"]
    /\ UNCHANGED <<rowVars, hand, outside, loopVars>>

UserStep ==
    \/ \E j \in Jobs : EnqueueScan(j) \/ EnqueueSubmit(j) \/ CancelRow(j)
    \/ \E r \in Revisions :
        ApproveRevision(r) \/ ResolveSubmitted(r) \/ ResolveNotSubmitted(r)

-----------------------------------------------------------------------------
(* The managed-browser handler, ManagedBrowserJobHandler.__call__ *)

Handling(w, at) == pc[w] = "handling" /\ hand[w].at = at

Submitting(w) == cur[w] \in SubmitJobs

\* The handler of worker w goes on at "at", with state s as its observation.
GoesOn(w, at, s) ==
    /\ hand' = [hand EXCEPT ![w].at = at, ![w].state = s]
    /\ UNCHANGED <<revVars, rowVars, outside, loopVars>>

\* The handler returns an outcome with submission_state s.
Ends(w, how, s) ==
    /\ Loop!HandlerReturns(w)
    /\ hand' = [hand EXCEPT ![w].ends = how, ![w].state = s]

\* get_application_job_bundle.
ResolveTask(w) ==
    /\ Handling(w, "resolve")
    /\ LET j == cur[w]
       IN /\ Loop!HoldsLease(w, j)
          /\ ~cancelReq[j]
          /\ Submitting(w) => Current(formRev[j])
    /\ GoesOn(w, "fill", "none")

\* A ManagedBrowserError: a task that cannot be resolved, a lost lease, a
\* credential or connection that is missing.
NoAction(w) ==
    /\ hand[w].at \in {"resolve", "fill"}
    /\ UNCHANGED <<revVars, rowVars, outside>>
    /\ Ends(w, "needs_attention", "none")

\* Any other exception before the click, refused functions included.
RaisesEarly(w) ==
    /\ hand[w].at \in {"resolve", "fill"}
    /\ UNCHANGED formVars
    /\ Loop!HandlerRaises(w)

\* The page needs the user before the final action: a login, a checkpoint, a
\* field without an answer, no button that is surely the right one.
NeedsUser(w) ==
    /\ Handling(w, "fill") /\ Submitting(w)
    /\ UNCHANGED <<revVars, rowVars, outside>>
    /\ Ends(w, "needs_attention", "not_attempted")

\* before_submit: the last look at the row, through update_application_job_progress.
BeforeSubmit(w) ==
    /\ Handling(w, "fill") /\ Submitting(w)
    /\ Loop!HoldsLease(w, cur[w])
    /\ ~cancelReq[cur[w]]
    /\ GoesOn(w, "click", "none")

\* submit.click().  The provider takes it or does not.
OneMore(n) == IF n = 2 THEN 2 ELSE n + 1

Click(w, take) ==
    /\ Handling(w, "click")
    /\ accepted' = [accepted EXCEPT ![formRev[cur[w]]] = IF take THEN OneMore(@) ELSE @]
    /\ hand' = [hand EXCEPT ![w].at = "observe", ![w].taken = take]
    /\ UNCHANGED <<revVars, rowVars, disturbed, loopVars>>

\* Mutant: the exception of the click goes through to the queue.
UnclearAndRaises(w) ==
    /\ Handling(w, "observe")
    /\ UNCHANGED formVars
    /\ Loop!HandlerRaises(w)

\* The click itself failed, or the page shows nothing clear.
Unclear(w) ==
    /\ Handling(w, "observe")
    /\ UNCHANGED <<revVars, rowVars, outside>>
    /\ Ends(w, "needs_attention", "uncertain")

\* The page says that the answers were not accepted.
Rejected(w) ==
    /\ Handling(w, "observe") /\ ~hand[w].taken
    /\ UNCHANGED <<revVars, rowVars, outside>>
    /\ Ends(w, "needs_attention", "not_attempted")

\* The same, and detaching from the page raises.
RejectedAndRaises(w) ==
    /\ Handling(w, "observe") /\ ~hand[w].taken
    /\ UNCHANGED formVars
    /\ Loop!HandlerRaises(w)

\* Mutant: a confirmation that was on the page before the click counts.
ConfirmedByOldPage(w) ==
    /\ Handling(w, "observe")
    /\ GoesOn(w, "record", "confirmed")

Confirmed(w) ==
    /\ Handling(w, "observe") /\ hand[w].taken
    /\ GoesOn(w, "record", "confirmed")

\* record_application_form_submission commits; its reply may be lost.
Records(w) ==
    /\ Handling(w, "record")
    /\ LET j == cur[w]
           r == formRev[j]
       IN /\ Loop!HoldsLease(w, j)
          /\ ~cancelReq[j]
          /\ Current(r)
          /\ rstatus' = [rstatus EXCEPT ![r] = "submitted"]
          /\ outcome' = [outcome EXCEPT ![r] = "confirmed"]
          /\ verdict' = [verdict EXCEPT ![r] = "provider"]
    /\ \E how \in {"succeeded", "needs_attention"} :
          hand' = [hand EXCEPT ![w].at = "recorded", ![w].ends = how]
    /\ UNCHANGED <<rowVars, outside, loopVars>>

\* It refuses, or is never reached.
RecordFails(w) ==
    /\ Handling(w, "record")
    /\ GoesOn(w, "recorded", "confirmed")

Recorded(w) ==
    /\ Handling(w, "recorded")
    /\ UNCHANGED formVars
    /\ Loop!HandlerReturns(w)

\* store_application_form_scan, with the triggers on the revisions it supersedes.
Replaced == {r \in Existing : rstatus[r] # "superseded"}

ScanAccepted(w) ==
    /\ Handling(w, "fill") /\ ~Submitting(w)
    /\ Loop!HoldsLease(w, cur[w])
    /\ ~cancelReq[cur[w]]
    /\ \A r \in Existing : rstatus[r] # "submitted"
    /\ \A j \in SubmitJobs : status[j] # "running"
    /\ Latest < MaxRevision
    /\ \A r \in Replaced : MayBeSuperseded(r)

StoreRevision(w) ==
    /\ rstatus' = [r \in Revisions |-> IF r \in Replaced THEN "superseded"
                                       ELSE IF r = Latest + 1 THEN "scanned"
                                       ELSE rstatus[r]]
    /\ hand' = [hand EXCEPT ![w].at = "stored", ![w].ends = "succeeded"]
    /\ UNCHANGED <<outcome, verdict, rowVars, outside, pc, cur, attemptNo>>

\* Mutant: no trigger on the revisions.
StoresScanAlone(w) == ScanAccepted(w) /\ StoreRevision(w) /\ UNCHANGED queue

StoresScan(w) ==
    /\ ScanAccepted(w)
    /\ StoreRevision(w)
    /\ Loop!CancelSuperseded({j \in SubmitJobs : formRev[j] \in Replaced})

\* Its reply arrives, or the handler raises although the scan is stored.
ScanStored(w) ==
    /\ Handling(w, "stored")
    /\ UNCHANGED formVars
    /\ Loop!HandlerReturns(w) \/ Loop!HandlerRaises(w)

Handler(w) ==
    \/ ResolveTask(w) \/ NoAction(w) \/ RaisesEarly(w) \/ NeedsUser(w)
    \/ BeforeSubmit(w) \/ \E take \in BOOLEAN : Click(w, take)
    \/ Unclear(w) \/ Rejected(w) \/ RejectedAndRaises(w) \/ Confirmed(w)
    \/ Records(w) \/ RecordFails(w) \/ Recorded(w)
    \/ StoresScan(w) \/ ScanStored(w)

-----------------------------------------------------------------------------
(* The worker reports the outcome *)

\* complete_application_form_submit_attention takes a submission_state along,
\* complete_automation_job everything else.
WithAttention(w) ==
    Submitting(w) /\ hand[w].ends = "needs_attention" /\ hand[w].state # "none"

Rank(s) == CASE s = "confirmed" -> 3 [] s = "uncertain" -> 2
             [] s = "not_attempted" -> 1 [] OTHER -> 0

\* Mutant: a confirmation is kept open like any other attention.
RecordAttentionOpen(r, s) ==
    /\ rstatus' = [rstatus EXCEPT ![r] = IF @ = "approved" THEN "needs_attention" ELSE @]
    /\ outcome' = [outcome EXCEPT ![r] = s]
    /\ UNCHANGED verdict

\* A confirmation closes the revision; anything else never weakens what is there.
RecordAttention(r, s) ==
    IF s = "confirmed"
    THEN /\ rstatus' = [rstatus EXCEPT ![r] = "submitted"]
         /\ outcome' = [outcome EXCEPT ![r] = "confirmed"]
         /\ verdict' = [verdict EXCEPT ![r] = "provider"]
    ELSE IF \/ rstatus[r] = "approved"
            \/ rstatus[r] = "needs_attention" /\ Rank(s) >= Rank(outcome[r])
    THEN /\ rstatus' = [rstatus EXCEPT ![r] = "needs_attention"]
         /\ outcome' = [outcome EXCEPT ![r] = s]
         /\ UNCHANGED verdict
    ELSE UNCHANGED revVars

Done(w) ==
    /\ hand' = [hand EXCEPT ![w] = Fresh]
    /\ UNCHANGED outside

Completable(w, j) ==
    /\ Loop!HoldsLease(w, j)
    /\ ~cancelReq[j]
    /\ WithAttention(w) =>
          rstatus[formRev[j]] \in {"approved", "submitted", "needs_attention"}

CompletesWithAttention(w, j) ==
    /\ pc[w] = "completing" /\ cur[w] = j /\ WithAttention(w)
    /\ Completable(w, j)
    /\ Loop!CompleteJob(w, j, "needs_attention")
    /\ RecordAttention(formRev[j], hand[w].state)
    /\ result' = [result EXCEPT ![j] = hand[w].state]
    /\ UNCHANGED formRev
    /\ Loop!Release(w)
    /\ Done(w)

CompletesPlainly(w, j) ==
    /\ pc[w] = "completing" /\ cur[w] = j /\ ~WithAttention(w)
    /\ Loop!CompleteJob(w, j, hand[w].ends)
    /\ result' = [k \in SubmitJobs |-> IF k = j THEN hand[w].state ELSE result[k]]
    /\ UNCHANGED <<revVars, formRev>>
    /\ Loop!Release(w)
    /\ Done(w)

\* Neither function finds a row it may complete.
CompletionRefused(w, j) ==
    /\ pc[w] = "completing" /\ cur[w] = j
    /\ ~Completable(w, j)
    /\ UNCHANGED <<queue, revVars, rowVars>>
    /\ Loop!Release(w)
    /\ Done(w)

-----------------------------------------------------------------------------
(* The rest of run_once, as in WorkerLoop *)

RunOnce(w) ==
    /\ UNCHANGED <<revVars, rowVars, outside>>
    /\ \/ \E j \in Jobs :
            \/ Loop!WorkerClaims(w, j) \/ Loop!ClaimReplyLost(w, j)
            \/ Loop!InitialHeartbeat(w, j) \/ Loop!InitialHeartbeatFails(w, j)
            \/ Loop!HeartbeatEndsHandler(w, j) \/ Loop!HeartbeatReplyLost(w, j)
            \/ Loop!WorkerFails(w, j)
       \/ Loop!WorkerFindsNothing(w) \/ Loop!TerminalRequestLost(w) \/ Loop!Crash(w)
    /\ hand' = [hand EXCEPT ![w] = IF pc'[w] = "idle" THEN Fresh ELSE @]

LeaseLapses(j) ==
    /\ UNCHANGED <<revVars, rowVars, hand, accepted>>
    /\ Loop!LeaseExpires(j)
    /\ disturbed' = TRUE

RowBecomesDue(j) == UNCHANGED formVars /\ Loop!JobBecomesDue(j)

FormNext ==
    \/ UserStep
    \/ \E w \in Workers :
        \/ Handler(w) \/ RunOnce(w)
        \/ \E j \in Jobs : \/ CompletesWithAttention(w, j) \/ CompletesPlainly(w, j)
                            \/ CompletionRefused(w, j)
    \/ \E j \in Jobs : LeaseLapses(j) \/ RowBecomesDue(j)

FormSpec == FormInit /\ [][FormNext]_allVars

-----------------------------------------------------------------------------
(* Properties *)

\* A scan replaces everything before it: only the newest revision is ever live,
\* so the row a user approves is the one that can be submitted.
OneLiveRevision ==
    \A r \in Existing : r < Latest => rstatus[r] = "superseded"

\* A submit row that waits or runs is for the approved, newest revision, or its
\* submission is already recorded.  Nothing can supersede a revision while its
\* form is being submitted, because scan and submission share a lane and a user's
\* resolution waits for both; the sweeps of claim_automation_job only repair
\* rows of older installations.
ActiveSubmitIsCurrent ==
    \A j \in SubmitJobs : status[j] \in Loop!Active =>
        Current(formRev[j]) \/ rstatus[formRev[j]] = "submitted"

\* The newest revision is the one that lives and the one that is submitted.
RevisionsInLine == OneLiveRevision /\ ActiveSubmitIsCurrent

\* "Submitted" on the provider's word is true: it took an application with the
\* answers of that revision; and a succeeded row has it recorded.
SubmittedIsReal ==
    /\ \A r \in Existing : verdict[r] = "provider" => accepted[r] > 0
    /\ \A j \in SubmitJobs : status[j] = "succeeded" =>
          rstatus[formRev[j]] = "submitted" /\ verdict[formRev[j]] = "provider"

\* A provider's confirmation that reached a row has closed the revision.
ConfirmationIsRecorded ==
    \A r \in Existing : Observed(r, "confirmed") => rstatus[r] = "submitted"

\* The outcome on record is what the provider has said.
OutcomesAreTrue == SubmittedIsReal /\ ConfirmationIsRecorded

\* An attempt whose outcome is not known leaves the screen only by a decision of
\* the user, never by a new scan.
UncertainIsDecided ==
    \A r \in Existing :
        rstatus[r] = "superseded" /\ Observed(r, "uncertain") => verdict[r] = "not_submitted"

\* As long as no lease runs out, nobody cancels a running submission and nobody
\* says "not submitted", the provider gets one application at most, over all
\* revisions.
OneApplication ==
    \/ disturbed
    \/ \E r \in Existing : verdict[r] = "not_submitted"
    \/ \A r, q \in Revisions : accepted[r] > 0 /\ accepted[q] > 0 => r = q /\ accepted[r] = 1

\* Once an application is submitted its history is closed: no further revision,
\* no other verdict, no new row.
ClosedForGood ==
    [][\A r \in Revisions : rstatus[r] = "submitted" =>
          /\ UNCHANGED <<rstatus[r], outcome[r], verdict[r]>>
          /\ Existing' = Existing
          /\ \A j \in Jobs : status[j] = "absent" => status'[j] = "absent"]_allVars

\* The handler, its refusals and its records are a run of WorkerLoop: proved in
\* FormSubmissionProofs.
ImplementsLoop == Loop!Spec

\* What README.md says of a submit job (it "activates the provider submit control
\* once" and "does not blindly retry an uncertain submit"): the sealed answers of
\* one revision are never sent twice.
OneApplicationPerRevision == \A r \in Revisions : accepted[r] <= 1

=============================================================================
