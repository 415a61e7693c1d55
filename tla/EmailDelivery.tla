---------------------------- MODULE EmailDelivery ----------------------------
(***************************************************************************)
(* Delivery of reviewed e-mails: the applications a user edits, approves   *)
(* and queues, the send ledgers reserve_application_send and               *)
(* finalize_application_send keep, the Gmail connection, and the handler   *)
(* of src/worker/email_runtime.py run by the workers of WorkerLoop, whose  *)
(* requests Gmail may answer late, or answer without being heard.          *)
(*                                                                         *)
(* Every row of the queue is a send_email row of one user, named by its    *)
(* idempotency key, which also names its row in send_events.  The two      *)
(* ledgers are written together and differ only in when their rows expire; *)
(* a behaviour stays within one duplicate_window_days, so they are one.    *)
(* The daily caps are left out: they only refuse more.  A recipient is     *)
(* fixed per application, and content is its content_revision.             *)
(***************************************************************************)
EXTENDS WorkerLoop

CONSTANTS
    Applications,
    NoApplication,  \* application_id of a key that was never used
    Recipient,      \* Recipient[a]: the address application a is for
    MaxRevision     \* bound: edits stop at this content_revision

ASSUME EmailAssumption ==
    /\ SubmitJobs = {}
    /\ NoApplication \notin Applications
    /\ MaxRevision \in Nat \ {0}

VARIABLES
    appStatus,      \* applications.status
    revision,       \* applications.content_revision
    approvedRev,    \* applications.approved_revision, 0 for null
    sendKey,        \* applications.send_idempotency_key
    event,          \* outcome of the send_events row of each key
    target,         \* its application_id
    gmail,          \* the Gmail connection: "changing" is a lifecycle that is
                    \* connecting or disconnecting with the old tokens still there
    mail,           \* mail[w]: where worker w is in the e-mail handler
    wire,           \* requests Gmail has not decided yet
    mailbox,        \* messages Gmail has accepted
    reserved,       \* history: the approved_revision a key was reserved with
    lapsed          \* history: some lease has run out

appVars  == <<appStatus, revision, approvedRev>>
ledger   == <<sendKey, event, target, reserved>>
userVars == <<appVars, ledger, gmail>>
mailVars == <<mail, wire, mailbox>>
emailVars == <<vars, userVars, mailVars, lapsed>>

\* "aside" stands for manual, applied, interview, rejected and archived, and
\* "drafted" for draft_pending too.
AppStatuses == {"drafted", "approved", "queued", "sent", "failed", "aside"}
Settled == {"sent", "failed", "needs_attention"}

\* The outcomes that count for the duplicate window and the caps.
Counted == {"pending_provider", "sent", "needs_attention"}

Requests == [job : Jobs, attempt : 1..MaxAttempts, key : Jobs, content : 1..MaxRevision]

Fresh == [at |-> "fetch", key |-> NoJob, content |-> 0, result |-> "none"]

EmailTypeOK ==
    /\ TypeOK
    /\ appStatus   \in [Applications -> AppStatuses]
    /\ revision    \in [Applications -> 1..MaxRevision]
    /\ approvedRev \in [Applications -> 0..MaxRevision]
    /\ sendKey     \in [Applications -> Jobs \cup {NoJob}]
    /\ event       \in [Jobs -> Settled \cup {"none", "pending_provider"}]
    /\ target      \in [Jobs -> Applications \cup {NoApplication}]
    /\ gmail       \in {"connected", "changing", "disconnected"}
    /\ mail        \in [Workers -> [at : {"fetch", "prepare", "post", "wait", "finalize"},
                                    key : Jobs \cup {NoJob}, content : 0..MaxRevision,
                                    result : {"none", "succeeded"} \cup Settled]]
    /\ wire    \subseteq Requests
    /\ mailbox \subseteq Requests
    /\ reserved \in [Jobs -> 0..MaxRevision]
    /\ lapsed  \in BOOLEAN

EmailInit ==
    /\ Init
    /\ appStatus   = [a \in Applications |-> "drafted"]
    /\ revision    = [a \in Applications |-> 1]
    /\ approvedRev = [a \in Applications |-> 0]
    /\ sendKey     = [a \in Applications |-> NoJob]
    /\ event       = [j \in Jobs |-> "none"]
    /\ target      = [j \in Jobs |-> NoApplication]
    /\ gmail       = "disconnected"
    /\ mail        = [w \in Workers |-> Fresh]
    /\ wire = {} /\ mailbox = {}
    /\ reserved = [j \in Jobs |-> 0]
    /\ lapsed = FALSE

-----------------------------------------------------------------------------
(* The user *)

UserLeaves == UNCHANGED <<vars, mailVars, lapsed>>

\* Mutant: only a sent application is locked.
EditWhileQueued(a) ==
    /\ appStatus[a] # "sent"
    /\ revision[a] < MaxRevision
    /\ revision'    = [revision EXCEPT ![a] = @ + 1]
    /\ approvedRev' = [approvedRev EXCEPT ![a] = 0]
    /\ appStatus'   = [appStatus EXCEPT ![a] = IF @ = "queued" THEN @ ELSE "drafted"]
    /\ UNCHANGED <<ledger, gmail>> /\ UserLeaves

\* PATCH of the recipient, subject or body, as guard_application_content_revision
\* lets it through: the approval is gone.
EditContent(a) ==
    /\ appStatus[a] \notin {"queued", "sent"}
    /\ revision[a] < MaxRevision
    /\ revision'    = [revision EXCEPT ![a] = @ + 1]
    /\ approvedRev' = [approvedRev EXCEPT ![a] = 0]
    /\ appStatus'   = [appStatus EXCEPT ![a] = "drafted"]
    /\ UNCHANGED <<ledger, gmail>> /\ UserLeaves

\* Mutant: a queued application can be put aside.
MoveStatusWhileQueued(a) ==
    /\ appStatus' = [appStatus EXCEPT ![a] = "aside"]
    /\ UNCHANGED <<revision, approvedRev, ledger, gmail>> /\ UserLeaves

\* PATCH of the status alone.
MoveStatus(a) ==
    /\ \/ /\ appStatus[a] \in {"approved", "failed"}
          /\ appStatus' = [appStatus EXCEPT ![a] = "drafted"]
       \/ /\ appStatus[a] \in {"drafted", "approved", "failed", "sent"}
          /\ appStatus' = [appStatus EXCEPT ![a] = "aside"]
    /\ UNCHANGED <<revision, approvedRev, ledger, gmail>> /\ UserLeaves

\* approve_application_revision, called with the revision the user looked at.
Approve(a, expected) ==
    /\ revision[a] = expected
    /\ appStatus[a] \in {"drafted", "failed", "approved"}
    /\ appStatus'   = [appStatus EXCEPT ![a] = "approved"]
    /\ approvedRev' = [approvedRev EXCEPT ![a] = expected]
    /\ UNCHANGED <<revision, ledger, gmail>> /\ UserLeaves

\* reserve_application_send, for a key that has no send_events row yet.
Sendable(a) == appStatus[a] = "approved" /\ approvedRev[a] = revision[a]

\* Mutants: an uncertain send does not count; each application has its own window.
InWindowIfCertain(a) ==
    {k \in Jobs : event[k] \in Counted \ {"needs_attention"}
                  /\ Recipient[target[k]] = Recipient[a]}

InWindowOfApplication(a) == {k \in Jobs : event[k] \in Counted /\ target[k] = a}

InWindow(a) ==
    {k \in Jobs : event[k] \in Counted /\ Recipient[target[k]] = Recipient[a]}

Reserve(a, j) ==
    /\ event[j] = "none"
    /\ Sendable(a)
    /\ gmail = "connected"
    /\ InWindow(a) = {}
    /\ appStatus' = [appStatus EXCEPT ![a] = "queued"]
    /\ sendKey'   = [sendKey EXCEPT ![a] = j]
    /\ event'     = [event EXCEPT ![j] = "pending_provider"]
    /\ target'    = [target EXCEPT ![j] = a]
    /\ reserved'  = [reserved EXCEPT ![j] = approvedRev[a]]
    /\ UNCHANGED <<revision, approvedRev, gmail>>

\* enqueue_email_send: reservation and queue row in one transaction.
EnqueueSend(a, j) ==
    /\ Enqueue(j, {})
    /\ Reserve(a, j)
    /\ UNCHANGED <<approval, workerVars, mailVars, lapsed>>

\* Mutant: a running row is cancelled at once.
CancelRunning(j) ==
    /\ status[j] \in Active
    /\ status' = [status EXCEPT ![j] = "cancelled"]
    /\ cancelReq' = [cancelReq EXCEPT ![j] = TRUE]
    /\ ahead' = Lined({}, {j})
    /\ UNCHANGED <<attempts, lockedBy, lease, due, approval, workerVars>>
    /\ UNCHANGED <<userVars, mailVars, lapsed>>

CancelSend(j) == UserCancels(j) /\ UNCHANGED <<userVars, mailVars, lapsed>>

\* Mutant: the last one to settle wins.
SettleAgain(k, outcome) ==
    /\ event' = [event EXCEPT ![k] = outcome]
    /\ appStatus' = [appStatus EXCEPT ![target[k]] =
                        IF outcome = "sent" THEN "sent" ELSE "failed"]

\* Only a reservation still pending is settled.
Settle(k, outcome) ==
    IF event[k] = "pending_provider"
    THEN /\ event' = [event EXCEPT ![k] = outcome]
         /\ appStatus' = [appStatus EXCEPT ![target[k]] =
                             IF outcome = "sent" THEN "sent" ELSE "failed"]
    ELSE UNCHANGED <<event, appStatus>>

\* reconcile_stale_application_send works on the newest reservation of a.  The
\* 15 minutes it has to be old may pass at any time, in the line or in a send.
Reconcile(a) ==
    /\ sendKey[a] # NoJob
    /\ event[sendKey[a]] = "pending_provider"
    /\ Settle(sendKey[a], "needs_attention")
    /\ UNCHANGED <<revision, approvedRev, sendKey, target, reserved, gmail>>
    /\ UserLeaves

NothingPending == \A j \in Jobs : event[j] # "pending_provider"

GmailBecomes(from, to) ==
    /\ gmail \in from
    /\ gmail' = to
    /\ UNCHANGED <<appVars, ledger>> /\ UserLeaves

\* Mutant: nobody looks at the ledger first.
BeginChangeWhileSending == GmailBecomes({"connected"}, "changing")

\* An OAuth flow is started, or disconnecting begins, on a connection in use.
BeginChange ==
    /\ NothingPending
    /\ GmailBecomes({"connected"}, "changing")

\* The OAuth callback saves the connection.
SaveConnection ==
    /\ NothingPending
    /\ GmailBecomes({"changing", "disconnected"}, "connected")

\* The token was revoked at Google; now its row is deleted.
FinishDisconnect == GmailBecomes({"changing"}, "disconnected")

UserStep ==
    \/ \E a \in Applications :
        \/ EditContent(a) \/ MoveStatus(a) \/ Reconcile(a)
        \/ \E r \in 1..MaxRevision : Approve(a, r)
        \/ \E j \in Jobs : EnqueueSend(a, j)
    \/ \E j \in Jobs : CancelSend(j)
    \/ BeginChange \/ SaveConnection \/ FinishDisconnect

-----------------------------------------------------------------------------
(* The e-mail handler *)

Handling(w, at) == pc[w] = "handling" /\ mail[w].at = at

\* The request of w's attempt, once it has been put on the wire.
Request(w) == [job |-> cur[w], attempt |-> attemptNo[w],
               key |-> mail[w].key, content |-> mail[w].content]

GoesTo(w, at, result) ==
    mail' = [mail EXCEPT ![w].at = at, ![w].result = result]

HandlerLeaves == UNCHANGED <<queueVars, approval, workerVars, userVars, lapsed>>

\* The row of the application is read once, and the handler works on the copy.
\* It goes by the reservation the application has now, whichever key the queue
\* row has.
FetchQueued(w) ==
    /\ Handling(w, "fetch")
    /\ LET a == target[cur[w]]
       IN /\ appStatus[a] = "queued"
          /\ mail' = [mail EXCEPT ![w] = [at |-> "prepare", key |-> sendKey[a],
                                          content |-> revision[a], result |-> "none"]]
    /\ UNCHANGED <<wire, mailbox>> /\ HandlerLeaves

FetchOther(w) ==
    /\ Handling(w, "fetch")
    /\ appStatus[target[cur[w]]] # "queued"
    /\ mail' = [mail EXCEPT ![w].result =
                   IF appStatus[target[cur[w]]] = "sent" THEN "succeeded"
                   ELSE "needs_attention"]
    /\ HandlerReturns(w)
    /\ UNCHANGED <<userVars, wire, mailbox, lapsed>>

\* Connection, token and resume are there ...
Prepares(w) ==
    /\ Handling(w, "prepare")
    /\ gmail # "disconnected"
    /\ GoesTo(w, "post", "none")
    /\ UNCHANGED <<wire, mailbox>> /\ HandlerLeaves

\* ... or one of them is missing or unusable.
CannotPrepare(w) ==
    /\ Handling(w, "prepare")
    /\ GoesTo(w, "finalize", "failed")
    /\ UNCHANGED <<wire, mailbox>> /\ HandlerLeaves

\* A read of the database or a token refresh raises before anything is sent.
RaisesEarly(w) ==
    /\ mail[w].at \in {"fetch", "prepare"}
    /\ HandlerRaises(w)
    /\ UNCHANGED <<userVars, mailVars, lapsed>>

\* send_gmail_message, in a thread that outlives the handler.
Posts(w) ==
    /\ Handling(w, "post")
    /\ wire' = wire \cup {Request(w)}
    /\ GoesTo(w, "wait", "none")
    /\ UNCHANGED mailbox /\ HandlerLeaves

\* Gmail says it has the message.
Confirmed200(w) ==
    /\ Handling(w, "wait")
    /\ Request(w) \in mailbox
    /\ GoesTo(w, "finalize", "sent")
    /\ UNCHANGED <<wire, mailbox>> /\ HandlerLeaves

\* Mutants: no answer is taken for a good one; no answer is tried again.
UncertainTakenForSent(w) ==
    /\ Handling(w, "wait")
    /\ GoesTo(w, "finalize", "sent")
    /\ UNCHANGED <<wire, mailbox>> /\ HandlerLeaves

UncertainRetried(w) ==
    /\ Handling(w, "wait")
    /\ HandlerRaises(w)
    /\ UNCHANGED <<userVars, mailVars, lapsed>>

\* A timeout, a reset, a 5xx or an unreadable answer, whatever Gmail did or
\* will still do.
Uncertain(w) ==
    /\ Handling(w, "wait")
    /\ GoesTo(w, "finalize", "needs_attention")
    /\ UNCHANGED <<wire, mailbox>> /\ HandlerLeaves

Refused(w) == Handling(w, "wait") /\ Request(w) \notin wire \cup mailbox

\* 400, 401 or 403.
Rejected(w) ==
    /\ Refused(w)
    /\ GoesTo(w, "finalize", "failed")
    /\ UNCHANGED <<wire, mailbox>> /\ HandlerLeaves

\* 429 is raised, and the queue tries again later.
RateLimited(w) ==
    /\ Refused(w)
    /\ HandlerRaises(w)
    /\ UNCHANGED <<userVars, mailVars, lapsed>>

\* finalize_application_send.  The handler succeeds only after a send whose
\* finalize answered; the answer may be an outcome settled by someone else.
Finalizes(w) ==
    /\ Handling(w, "finalize")
    /\ \/ /\ Settle(mail[w].key, mail[w].result)
          /\ \E heard \in BOOLEAN :
                mail' = [mail EXCEPT ![w].result =
                           IF heard /\ @ = "sent" THEN "succeeded" ELSE "needs_attention"]
       \/ /\ mail' = [mail EXCEPT ![w].result = "needs_attention"]
          /\ UNCHANGED <<event, appStatus>>
    /\ HandlerReturns(w)
    /\ UNCHANGED <<revision, approvedRev, sendKey, target, reserved, gmail,
                   wire, mailbox, lapsed>>

EmailHandler(w) ==
    \/ FetchQueued(w) \/ FetchOther(w) \/ Prepares(w) \/ CannotPrepare(w)
    \/ RaisesEarly(w) \/ Posts(w) \/ Confirmed200(w) \/ Uncertain(w)
    \/ Rejected(w) \/ RateLimited(w) \/ Finalizes(w)

-----------------------------------------------------------------------------
(* Gmail, external *)

GmailAccepts(r) ==
    /\ r \in wire
    /\ wire' = wire \ {r}
    /\ mailbox' = mailbox \cup {r}
    /\ UNCHANGED <<vars, userVars, mail, lapsed>>

GmailRefuses(r) ==
    /\ r \in wire
    /\ wire' = wire \ {r}
    /\ UNCHANGED <<vars, userVars, mail, mailbox, lapsed>>

-----------------------------------------------------------------------------
(* The rest of run_once, as in WorkerLoop *)

\* The worker completes the row the way the handler's outcome says.
EmailCompletes(w) ==
    \E j \in Jobs :
        /\ WorkerCompletes(w, j)
        /\ status'[j] \in {status[j], mail[w].result}

RunOnce(w) ==
    /\ \/ \E j \in Jobs :
            \/ WorkerClaims(w, j) \/ ClaimReplyLost(w, j)
            \/ InitialHeartbeat(w, j) \/ InitialHeartbeatFails(w, j)
            \/ HeartbeatEndsHandler(w, j) \/ HeartbeatReplyLost(w, j)
            \/ WorkerFails(w, j)
       \/ EmailCompletes(w)
       \/ WorkerFindsNothing(w) \/ TerminalRequestLost(w) \/ Crash(w)
    /\ mail' = [mail EXCEPT ![w] = IF pc'[w] = "idle" THEN Fresh ELSE @]
    /\ UNCHANGED <<userVars, wire, mailbox, lapsed>>

LeaseLapses(j) ==
    /\ LeaseExpires(j)
    /\ lapsed' = TRUE
    /\ UNCHANGED <<userVars, mailVars>>

SendBecomesDue(j) == JobBecomesDue(j) /\ UNCHANGED <<userVars, mailVars, lapsed>>

EmailNext ==
    \/ UserStep
    \/ \E w \in Workers : EmailHandler(w) \/ RunOnce(w)
    \/ \E r \in wire : GmailAccepts(r) \/ GmailRefuses(r)
    \/ \E j \in Jobs : LeaseLapses(j) \/ SendBecomesDue(j)

EmailSpec == EmailInit /\ [][EmailNext]_emailVars

-----------------------------------------------------------------------------
(* Properties *)

\* Anything Gmail gets is word for word what the user had approved when the
\* send was reserved, however late and by whichever attempt it is sent.
OnlyApprovedContentIsMailed ==
    \A r \in wire \cup mailbox : r.content = reserved[r.key]

\* An application is queued exactly while its newest reservation is pending,
\* and no older one is: reconciling always reaches the reservation that blocks
\* the user.
PendingIffQueued ==
    /\ \A a \in Applications :
          appStatus[a] = "queued" <=>
              sendKey[a] # NoJob /\ event[sendKey[a]] = "pending_provider"
    /\ \A j \in Jobs : event[j] = "pending_provider" => sendKey[target[j]] = j

\* In one window at most one reservation for a recipient counts: the ledger
\* never lets two applications, or two tries of one, write to the same person.
OneCountedPerRecipient ==
    \A k, l \in Jobs :
        /\ event[k] \in Counted /\ event[l] \in Counted
        /\ Recipient[target[k]] = Recipient[target[l]]
        => k = l

\* What is reported as sent was accepted by Gmail: a ledger row "sent" has its
\* message, and so has a queue row that succeeded.
SuccessIsReal ==
    /\ \A k \in Jobs : event[k] = "sent" => \E r \in mailbox : r.key = k
    /\ \A j \in Jobs : status[j] = "succeeded" =>
          \E r \in mailbox : target[r.key] = target[j]

\* A handler that asks for a retry has put nothing on the wire in its attempt
\* ("Gmail's 429 response is explicit evidence that this request was rejected").
NoRetryAfterDispatch ==
    \A w \in Workers : pc[w] = "failing" =>
        \A r \in wire \cup mailbox : <<r.job, r.attempt>> # <<cur[w], attemptNo[w]>>

\* As long as no lease runs out, nobody is written to twice.
OncePerRecipientUnlessLapsed ==
    lapsed \/ \A r, q \in wire \cup mailbox :
                 Recipient[target[r.key]] = Recipient[target[q.key]] => r = q

\* The Gmail connection a reservation was made for stays until it is settled.
ConnectionOutlivesReservation ==
    ~NothingPending => gmail = "connected"

\* The ledger, the applications and the connection agree.
LedgerIsConsistent ==
    PendingIffQueued /\ OneCountedPerRecipient /\ ConnectionOutlivesReservation

\* A settled reservation stays as it is: a late finalize does not overwrite a
\* reconciliation, nor a reconciliation a finalize.
SettledStaysSettled ==
    [][\A k \in Jobs : event[k] \in Settled => event'[k] = event[k]]_emailVars

\* The ledger and the connection keep what they promise each other.
Connection == INSTANCE MailConnection WITH pending <- ~NothingPending

ImplementsConnection == Connection!Spec

\* With applications, ledger and handler, the queue and its workers are still
\* those of WorkerLoop, so what holds of them holds here.
ImplementsLoop == Spec

\* What docs/02-SRS.md promises of retries (NFR-04: "retries never repeat an
\* externally meaningful send/apply action"), at Gmail: one key, one message.
AtMostOncePerKey ==
    \A r, q \in mailbox : r.key = q.key => r = q

\* What docs/05-Build-Runbook.md promises of the ledger (line 801: "Never retry
\* an ambiguous external send/apply without reconciliation"), and the duplicate
\* window of MAIL-11: a person has mail under one key only, so a key is not given
\* up as failed while a message of it may have been delivered.
\* Does not hold: see the README.
OneKeyPerRecipient ==
    \A r, q \in mailbox : Recipient[target[r.key]] = Recipient[target[q.key]] => r.key = q.key

=============================================================================
