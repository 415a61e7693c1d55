-------------------------- MODULE AccountDeletion --------------------------
(***************************************************************************)
(* DELETE /api/v1/account: the transaction that drains an account, and the *)
(* handler that then removes what the account has at other services, its   *)
(* files and at last its user.  The handler may be cut off between any two *)
(* steps, is run again by the user, and runs beside workers, uploads,      *)
(* logins, disconnects and other requests to delete the same account.      *)
(*                                                                         *)
(* Abstractions.  One account.  A row of automation_jobs is kept as far as *)
(* the drain looks at it (JobQueue has the rest); a login at a provider by *)
(* its committed transactions, without the session it opens; the Gmail     *)
(* connection as "has a token" (GmailConnection has the rest).  The check  *)
(* that the user signed in within ten minutes is left out: signing in      *)
(* again is possible all the time.  What a step of the handler only reads, *)
(* and the transaction that answers it, are one step.                      *)
(***************************************************************************)
EXTENDS Naturals, FiniteSets

CONSTANTS
    Jobs,           \* rows of automation_jobs
    EmailJobs,      \* those that send a message
    Providers,      \* providers with a managed-browser login
    Files,          \* possible objects below the user's prefix
    Requests,       \* running calls of DELETE /account or DELETE /connections/p
    NoProvider,
    ProviderFails,  \* Browserbase and Google may refuse a clean-up
    MayBeCut,       \* the steps before which a call may be cut off
    MaxLogins       \* bound: generation; starts leave one for the deletion

ASSUME AccountAssumption ==
    /\ EmailJobs \subseteq Jobs
    /\ NoProvider \notin Providers
    /\ ProviderFails \in BOOLEAN
    /\ MaxLogins \in Nat \ {0}

VARIABLES
    account,   \* profiles.account_status, "gone" without the Auth user
    job,       \* the row's status; "lapsed" is running with an expired lease
    asked,     \* cancel_requested_at is not null
    hold,      \* the holder of the lease is at work on the row
    stale,     \* so is a worker whose lease has run out
    sending,   \* the rows with a send event in outcome pending_provider
    loginLife, \* connection_lifecycles.status of each provider
    loginGen,  \* its generation
    conn,      \* the provider has a connection row, with the context's handle
    remote,    \* the browser context exists at Browserbase
    grant,     \* the Google token: "none", "live", or "left" unrevoked
    objects,   \* objects in the bucket
    req        \* the calls

accountVars == <<account, job, asked, hold, stale, sending, loginLife, loginGen, conn,
                 remote, grant, objects, req>>

workVars    == <<job, asked, hold, stale, sending>>
browserVars == <<loginLife, loginGen, conn, remote>>

Pcs   == {"idle", "look", "walk", "remote", "finish", "abandon", "list",
          "sweep", "remove"}
CallStates == [pc : Pcs, own : BOOLEAN, todo : SUBSET Providers,
               at : Providers \cup {NoProvider}, gen : 0..MaxLogins, files : SUBSET Files]

Idle == [pc |-> "idle", own |-> FALSE, todo |-> {}, at |-> NoProvider, gen |-> 0,
         files |-> {}]

AccountTypeOK ==
    /\ account \in {"active", "deleting", "gone"}
    /\ job     \in [Jobs -> {"none", "queued", "running", "lapsed", "over"}]
    /\ asked   \in [Jobs -> BOOLEAN]
    /\ hold    \in [Jobs -> BOOLEAN]
    /\ stale   \in [Jobs -> BOOLEAN]
    /\ sending \subseteq EmailJobs
    /\ loginLife \in [Providers ->
                      {"connecting", "connected", "disconnecting", "disconnected"}]
    /\ loginGen \in [Providers -> 0..MaxLogins]
    /\ conn    \in [Providers -> BOOLEAN]
    /\ remote  \in [Providers -> BOOLEAN]
    /\ grant   \in {"none", "live", "left"}
    /\ objects \subseteq Files
    /\ req     \in [Requests -> CallStates]

AccountInit ==
    /\ account = "active"
    /\ job     = [j \in Jobs |-> "none"]
    /\ asked   = [j \in Jobs |-> FALSE]
    /\ hold    = [j \in Jobs |-> FALSE]
    /\ stale   = [j \in Jobs |-> FALSE]
    /\ sending = {}
    /\ loginLife = [p \in Providers |-> "disconnected"]
    /\ loginGen = [p \in Providers |-> 0]
    /\ conn    = [p \in Providers |-> FALSE]
    /\ remote  = [p \in Providers |-> FALSE]
    /\ grant   = "none"
    /\ objects = {}
    /\ req     = [r \in Requests |-> Idle]

Busy(j) == job[j] \in {"queued", "running", "lapsed"}

\* The profile row is locked FOR SHARE until the writer commits, and the drain
\* takes it FOR UPDATE: a writer comes before the drain, or sees it.
ActiveAccount == account = "active"

-----------------------------------------------------------------------------
(* The user's other operations *)

\* enqueue_automation_job and, with its send event, enqueue_email_send.
Enqueue(j) ==
    /\ ActiveAccount
    /\ job[j] = "none"
    /\ j \in EmailJobs => grant = "live"
    /\ job' = [job EXCEPT ![j] = "queued"]
    /\ sending' = IF j \in EmailJobs THEN sending \cup {j} ELSE sending
    /\ UNCHANGED <<account, asked, hold, stale, browserVars, grant, objects, req>>

\* cancel_automation_job.
CancelJob(j) ==
    /\ ActiveAccount
    /\ Busy(j)
    /\ job' = [job EXCEPT ![j] = IF @ = "queued" THEN "over" ELSE @]
    /\ asked' = [asked EXCEPT ![j] = TRUE]
    /\ UNCHANGED <<account, hold, stale, sending, browserVars, grant, objects, req>>

\* reconcile_stale_application_send, after fifteen minutes.
Reconcile(j) ==
    /\ ActiveAccount
    /\ j \in sending
    /\ sending' = sending \ {j}
    /\ UNCHANGED <<account, job, asked, hold, stale, browserVars, grant, objects, req>>

\* Mutant: the storage policy counts the objects and does not look at the account.
UploadAnyTime(f) ==
    /\ account # "gone"
    /\ objects' = objects \cup {f}
    /\ UNCHANGED <<account, workVars, browserVars, grant, req>>

\* A storage insert: resume_object_quota_available is part of it.
Upload(f) ==
    /\ ActiveAccount
    /\ objects' = objects \cup {f}
    /\ UNCHANGED <<account, workVars, browserVars, grant, req>>

\* Mutant: the save of a callback does not look at the account.
ConnectGmailAnyTime ==
    /\ account # "gone"
    /\ grant = "none"
    /\ grant' = "live"
    /\ UNCHANGED <<account, workVars, browserVars, objects, req>>

\* save_google_connection.
ConnectGmail ==
    /\ ActiveAccount
    /\ grant = "none"
    /\ grant' = "live"
    /\ UNCHANGED <<account, workVars, browserVars, objects, req>>

\* begin_browser_start.
Start(p) ==
    /\ ActiveAccount
    /\ loginLife[p] \in {"connected", "disconnected"}
    /\ loginGen[p] < MaxLogins - 1
    /\ loginLife' = [loginLife EXCEPT ![p] = "connecting"]
    /\ loginGen' = [loginGen EXCEPT ![p] = @ + 1]
    /\ UNCHANGED <<account, workVars, conn, remote, grant, objects, req>>

\* save_browser_connection_context_bound, of a context made just before.
SaveContext(p) ==
    /\ ActiveAccount
    /\ loginLife[p] = "connecting"
    /\ conn' = [conn EXCEPT ![p] = TRUE]
    /\ remote' = [remote EXCEPT ![p] = TRUE]
    /\ UNCHANGED <<account, workVars, loginLife, loginGen, grant, objects, req>>

\* finish_browser_start.
Complete(p) ==
    /\ ActiveAccount
    /\ loginLife[p] = "connecting"
    /\ conn[p]
    /\ loginLife' = [loginLife EXCEPT ![p] = "connected"]
    /\ UNCHANGED <<account, workVars, loginGen, conn, remote, grant, objects, req>>

\* Mutant: the row is dropped and the context is not deleted.
AbortLeavingContext(p) ==
    /\ account # "gone"
    /\ loginLife[p] = "connecting"
    /\ \E drop \in BOOLEAN : conn' = [conn EXCEPT ![p] = @ /\ ~drop]
    /\ loginLife' = [loginLife EXCEPT ![p] = IF conn'[p] THEN "connected" ELSE "disconnected"]
    /\ UNCHANGED <<account, workVars, loginGen, remote, grant, objects, req>>

\* abort_browser_start, which is not told whether the account is active; a
\* context the start has made is deleted first and its row dropped.
AbortStart(p) ==
    /\ account # "gone"
    /\ loginLife[p] = "connecting"
    /\ \E drop \in BOOLEAN :
         /\ remote' = [remote EXCEPT ![p] = @ /\ ~drop]
         /\ conn' = [conn EXCEPT ![p] = @ /\ ~drop]
    /\ loginLife' = [loginLife EXCEPT ![p] = IF conn'[p] THEN "connected" ELSE "disconnected"]
    /\ UNCHANGED <<account, workVars, loginGen, grant, objects, req>>

UserActs ==
    \/ \E j \in Jobs : Enqueue(j) \/ CancelJob(j) \/ Reconcile(j)
    \/ \E f \in Files : Upload(f)
    \/ ConnectGmail
    \/ \E p \in Providers : Start(p) \/ SaveContext(p) \/ Complete(p) \/ AbortStart(p)

-----------------------------------------------------------------------------
(* The workers and the clock: none of them looks at the account *)

\* claim_automation_job.
Claim(j) ==
    /\ job[j] = "queued" /\ ~asked[j]
    /\ job' = [job EXCEPT ![j] = "running"]
    /\ hold' = [hold EXCEPT ![j] = TRUE]
    /\ UNCHANGED <<account, asked, stale, sending, browserVars, grant, objects, req>>

\* finalize_application_send, by whoever has the message.
SettleSend(j) ==
    /\ j \in sending
    /\ hold[j] \/ stale[j]
    /\ sending' = sending \ {j}
    /\ UNCHANGED <<account, job, asked, hold, stale, browserVars, grant, objects, req>>

\* complete_automation_job, fail_automation_job and the heartbeat that cancels:
\* only a row nobody has asked to cancel goes back into the queue.
FinishJob(j) ==
    /\ job[j] = "running" /\ hold[j]
    /\ \E to \in {"over"} \cup (IF asked[j] THEN {} ELSE {"queued"}) :
         job' = [job EXCEPT ![j] = to]
    /\ hold' = [hold EXCEPT ![j] = FALSE]
    /\ UNCHANGED <<account, asked, stale, sending, browserVars, grant, objects, req>>

\* A lease runs out; the worker that had it need not know.
Lapse(j) ==
    /\ job[j] = "running"
    /\ job' = [job EXCEPT ![j] = "lapsed"]
    /\ hold' = [hold EXCEPT ![j] = FALSE]
    /\ stale' = [stale EXCEPT ![j] = @ \/ hold[j]]
    /\ UNCHANGED <<account, asked, sending, browserVars, grant, objects, req>>

\* The sweep of claim_automation_job.
Recover(j) ==
    /\ job[j] = "lapsed"
    /\ \E to \in {"over"} \cup (IF asked[j] THEN {} ELSE {"queued"}) :
         job' = [job EXCEPT ![j] = to]
    /\ UNCHANGED <<account, asked, hold, stale, sending, browserVars, grant,
                   objects, req>>

\* A worker dies, or notices that its lease is gone.
LetGo(j) ==
    /\ hold[j] \/ stale[j]
    /\ hold' = [hold EXCEPT ![j] = FALSE]
    /\ stale' = [stale EXCEPT ![j] = FALSE]
    /\ UNCHANGED <<account, job, asked, sending, browserVars, grant, objects, req>>

Work(j) == Claim(j) \/ SettleSend(j) \/ FinishJob(j) \/ Lapse(j) \/ Recover(j) \/ LetGo(j)

-----------------------------------------------------------------------------
(* The calls *)

Goes(r, pc) == req' = [req EXCEPT ![r].pc = pc]
Ends(r)     == req' = [req EXCEPT ![r] = Idle]

\* No login is being started or removed.
BrowsersQuiet == \A p \in Providers : loginLife[p] \notin {"connecting", "disconnecting"}

\* Mutant: begin_account_deletion does not ask for sends.
MayBeginWhileSending == account # "gone" /\ BrowsersQuiet

\* Mutant: like every other operation it asks for an active account.
MayBeginOnce == ActiveAccount /\ sending = {} /\ BrowsersQuiet

MayBegin == account # "gone" /\ sending = {} /\ BrowsersQuiet

\* Mutant: it is ready although rows run.
BeginUndrained(r) ==
    /\ req[r] = Idle
    /\ MayBegin
    /\ account' = "deleting"
    /\ job' = [j \in Jobs |-> IF job[j] \in {"queued", "lapsed"} THEN "over" ELSE job[j]]
    /\ asked' = [j \in Jobs |-> asked[j] \/ Busy(j)]
    /\ Goes(r, "look")
    /\ UNCHANGED <<hold, stale, sending, browserVars, grant, objects>>

\* begin_account_deletion: waiting rows and rows with a lapsed lease are
\* cancelled, running ones are asked to stop.  While any runs the answer is
\* "not yet" and the call ends; what was done stays.
BeginDeletion(r) ==
    /\ req[r] = Idle
    /\ MayBegin
    /\ account' = "deleting"
    /\ job' = [j \in Jobs |-> IF job[j] \in {"queued", "lapsed"} THEN "over" ELSE job[j]]
    /\ asked' = [j \in Jobs |-> asked[j] \/ Busy(j)]
    /\ IF \E j \in Jobs : job[j] = "running" THEN UNCHANGED req ELSE Goes(r, "look")
    /\ UNCHANGED <<hold, stale, sending, browserVars, grant, objects>>

\* DELETE /connections/p; whether the account is active is read once, here.
Own(r, p) ==
    /\ req[r] = Idle
    /\ ActiveAccount
    /\ loginGen[p] < MaxLogins - 1
    /\ req' = [req EXCEPT ![r] = [Idle EXCEPT !.pc = "walk", !.own = TRUE,
                                              !.todo = {p}]]
    /\ UNCHANGED <<account, workVars, browserVars, grant, objects>>

\* The connections are read.  Gmail's token is revoked, or not: that failure
\* is passed over.
ReadLogins(r) ==
    /\ req[r].pc = "look"
    /\ IF grant = "live"
       THEN grant' \in {"none"} \cup (IF ProviderFails THEN {"left"} ELSE {})
       ELSE UNCHANGED grant
    /\ LET rows == {p \in Providers : conn[p]}
       IN req' = [req EXCEPT ![r].pc = IF rows = {} THEN "list" ELSE "walk",
                             ![r].todo = rows]
    /\ UNCHANGED <<account, workVars, browserVars, objects>>

\* begin_browser_disconnect for one of the rows; in the deletion a row that has
\* gone meanwhile is passed over.  It does not look at account_status.
BeginDisconnect(r, p) ==
    /\ req[r].pc = "walk" /\ p \in req[r].todo
    /\ account # "gone"
    /\ conn[p] \/ req[r].own
    /\ loginLife[p] # "disconnecting" => loginGen[p] < MaxLogins
    /\ LET g == IF loginLife[p] = "disconnecting" THEN loginGen[p] ELSE loginGen[p] + 1
       IN /\ loginGen' = [loginGen EXCEPT ![p] = g]
          /\ req' = [req EXCEPT ![r].pc = "remote", ![r].at = p, ![r].gen = g]
    /\ loginLife' = [loginLife EXCEPT ![p] = "disconnecting"]
    /\ UNCHANGED <<account, workVars, conn, remote, grant, objects>>

SkipRow(r, p) ==
    /\ req[r].pc = "walk" /\ p \in req[r].todo
    /\ ~conn[p] /\ ~req[r].own
    /\ req' = [req EXCEPT ![r].todo = @ \ {p}]
    /\ UNCHANGED <<account, workVars, browserVars, grant, objects>>

RowsDone(r) ==
    /\ req[r].pc = "walk" /\ req[r].todo = {}
    /\ IF req[r].own THEN Ends(r) ELSE Goes(r, "list")
    /\ UNCHANGED <<account, workVars, browserVars, grant, objects>>

\* The remote context is deleted; 404 counts as deleted.
DeleteContext(r) ==
    /\ req[r].pc = "remote"
    /\ remote' = [remote EXCEPT ![req[r].at] = FALSE]
    /\ Goes(r, "finish")
    /\ UNCHANGED <<account, workVars, loginLife, loginGen, conn, grant, objects>>

\* An error ends a disconnect; the deletion goes on to abandon the contexts.
Fails(r) == IF req[r].own THEN Ends(r) ELSE Goes(r, "abandon")

ContextStays(r) ==
    /\ ProviderFails
    /\ req[r].pc = "remote"
    /\ Fails(r)
    /\ UNCHANGED <<account, workVars, browserVars, grant, objects>>

MayRelease(r) ==
    LET p == req[r].at
    IN loginLife[p] = "disconnecting" /\ loginGen[p] = req[r].gen /\ account # "gone"

\* finish_browser_disconnect.
FinishDisconnect(r) ==
    /\ req[r].pc = "finish"
    /\ MayRelease(r)
    /\ conn' = [conn EXCEPT ![req[r].at] = FALSE]
    /\ loginLife' = [loginLife EXCEPT ![req[r].at] = "disconnected"]
    /\ req' = [req EXCEPT ![r].pc = "walk", ![r].todo = @ \ {req[r].at},
                          ![r].at = NoProvider]
    /\ UNCHANGED <<account, workVars, loginGen, remote, grant, objects>>

\* It is refused when another call has finished or restarted the lifecycle, and
\* every call to the database is once the profile has gone.
FinishRefused(r) ==
    /\ \/ req[r].pc = "finish" /\ ~MayRelease(r)
       \/ req[r].pc = "walk" /\ req[r].own /\ account = "gone"
    /\ Fails(r)
    /\ UNCHANGED <<account, workVars, browserVars, grant, objects>>

\* abandon_browserbase_resources: the handles of all contexts are dropped.
Abandon(r) ==
    /\ req[r].pc = "abandon"
    /\ IF account = "gone" \/ \E j \in Jobs : Busy(j)
       THEN Ends(r) /\ UNCHANGED browserVars
       ELSE /\ conn' = [p \in Providers |-> FALSE]
            /\ loginGen' = [p \in Providers |->
                         IF loginLife[p] = "disconnected" THEN loginGen[p]
                         ELSE IF loginGen[p] < MaxLogins THEN loginGen[p] + 1 ELSE MaxLogins]
            /\ loginLife' = [p \in Providers |-> "disconnected"]
            /\ Goes(r, "list")
            /\ UNCHANGED remote
    /\ UNCHANGED <<account, workVars, grant, objects>>

\* _list_owned_resume_objects, then delete_objects of what it found.
List(r) ==
    /\ req[r].pc = "list"
    /\ req' = [req EXCEPT ![r].pc = "sweep", ![r].files = objects]
    /\ UNCHANGED <<account, workVars, browserVars, grant, objects>>

Sweep(r) ==
    /\ req[r].pc = "sweep"
    /\ objects' = objects \ req[r].files
    /\ Goes(r, "remove")
    /\ UNCHANGED <<account, workVars, browserVars, grant>>

\* delete_auth_user; the tenant's rows go with it.
RemoveUser(r) ==
    /\ req[r].pc = "remove"
    /\ account' = "gone"
    /\ job' = [j \in Jobs |-> "none"]
    /\ asked' = [j \in Jobs |-> FALSE]
    /\ sending' = {}
    /\ conn' = [p \in Providers |-> FALSE]
    /\ loginLife' = [p \in Providers |-> "disconnected"]
    /\ Ends(r)
    /\ UNCHANGED <<hold, stale, loginGen, remote, grant, objects>>

\* The function is stopped, or a call to the database fails.
CutOffCall(r) ==
    /\ req[r].pc \in MayBeCut
    /\ Ends(r)
    /\ UNCHANGED <<account, workVars, browserVars, grant, objects>>

Call(r) ==
    \/ ReadLogins(r) \/ RowsDone(r) \/ DeleteContext(r) \/ ContextStays(r)
    \/ FinishDisconnect(r) \/ FinishRefused(r) \/ Abandon(r)
    \/ List(r) \/ Sweep(r) \/ RemoveUser(r)
    \/ \E p \in Providers : BeginDisconnect(r, p) \/ SkipRow(r, p)

AccountNext ==
    \/ UserActs
    \/ \E j \in Jobs : Work(j)
    \/ \E r \in Requests :
         BeginDeletion(r) \/ Call(r) \/ CutOffCall(r) \/ \E p \in Providers : Own(r, p)

AccountSpec == AccountInit /\ [][AccountNext]_accountVars

\* Calls and workers go on; a lapsed row is swept; and a user whose account is
\* being deleted asks again for as long as it is.
AccountFairSpec ==
    /\ AccountSpec
    /\ \A r \in Requests :
         WF_accountVars(Call(r)) /\ SF_accountVars(account = "deleting" /\ BeginDeletion(r))
    /\ \A j \in Jobs : WF_accountVars(FinishJob(j)) /\ WF_accountVars(Recover(j))
                       /\ WF_accountVars(job[j] = "running" /\ ~hold[j] /\ Lapse(j))

-----------------------------------------------------------------------------
(* Properties *)

Cleaning(r) == req[r].pc # "idle" /\ ~req[r].own

\* Clean-up begins after the last row is over, and none is added behind it,
\* neither by the user nor by a retry (enqueue_automation_job,
\* fail_automation_job, begin_account_deletion).
DrainedBeforeCleanup ==
    (\E r \in Requests : Cleaning(r)) => \A j \in Jobs : ~Busy(j)

\* Once the account is being deleted no message is on its way and no login is
\* being started (docs/04-Technical-Spec.md:809).
NothingInFlight ==
    account # "active" =>
        sending = {} /\ \A p \in Providers : loginLife[p] # "connecting"

\* The drain holds: what has been stopped for the clean-up is not started again.
DrainHolds == DrainedBeforeCleanup /\ NothingInFlight

\* No private file is left when the user has gone: none is uploaded between the
\* listing and the end (resume_object_quota_available, delete_account).
NoFileLeft == account = "gone" => objects = {}

\* Nor a Google token that nobody has tried to revoke.
GrantWasRevoked == account = "gone" => grant # "live"

\* What is private goes with the user.
NothingIsLeft == NoFileLeft /\ GrantWasRevoked

\* The handle of a remote context, which may hold login cookies, is dropped
\* only once the context has been deleted (delete_account: "Do not discard the
\* only encrypted cleanup handle unless the provider confirms cleanup").
\* Does not hold: see the README.
HandleKept == \A p \in Providers : remote[p] => conn[p]

\* Account deletion is retriable: while no call is running and no row runs, the
\* next call is taken.
Retriable ==
    /\ account = "deleting"
    /\ \A r \in Requests : req[r] = Idle
    /\ \A j \in Jobs : job[j] # "running"
    => MayBegin

\* "A later authenticated retry may proceed only after every worker has stopped
\* holding tenant plaintext/browser credentials" (delete_account).
\* Does not hold: see the README.
NoWorkerHolds ==
    (\E r \in Requests : Cleaning(r)) => \A j \in Jobs : ~hold[j] /\ ~stale[j]

\* A deletion that has begun, and is asked for again when it says "not yet",
\* comes to its end (delete_account, begin_account_deletion).
DeletionEnds == (account = "deleting") ~> (account = "gone")

=============================================================================
