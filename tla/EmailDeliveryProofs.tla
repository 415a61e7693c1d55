------------------------ MODULE EmailDeliveryProofs ------------------------
(***************************************************************************)
(* For any applications, keys, workers and bounds: e-mail delivery is an   *)
(* implementation of WorkerLoop and of MailConnection, and its ledger, its *)
(* handler and Gmail keep the invariants the runs check.                   *)
(***************************************************************************)
EXTENDS EmailDelivery, WorkerLoopProofs

-----------------------------------------------------------------------------
(* Every step is one of WorkerLoop *)

LEMMA EnqueueIsLoop ==
  ASSUME TypeOK, NEW a \in Applications, NEW j \in Jobs, EnqueueSend(a, j)
  PROVE  UserEnqueues(j)
  <1>1. approval' = [k \in SubmitJobs |-> IF k \in {} \cup {j} THEN "current" ELSE approval[k]]
    BY EmailAssumption DEF TypeOK, EnqueueSend
  <1>2. Enqueue(j, {}) /\ UNCHANGED workerVars
    BY DEF EnqueueSend
  <1> QED
    BY <1>1, <1>2 DEF UserEnqueues

LEMMA HandlerIsLoop ==
  ASSUME NEW w \in Workers, EmailHandler(w)
  PROVE  UNCHANGED vars \/ HandlerReturns(w) \/ HandlerRaises(w)
  <1>1. CASE FetchQueued(w) \/ Prepares(w) \/ CannotPrepare(w) \/ Posts(w) \/ Confirmed200(w)
             \/ Uncertain(w) \/ Rejected(w)
    BY <1>1 DEF FetchQueued, Prepares, CannotPrepare, Posts, Confirmed200, Uncertain,
                Rejected, HandlerLeaves, vars
  <1>2. CASE FetchOther(w) \/ Finalizes(w)
    BY <1>2 DEF FetchOther, Finalizes
  <1>3. CASE RaisesEarly(w) \/ RateLimited(w)
    BY <1>3 DEF RaisesEarly, RateLimited
  <1> QED
    BY <1>1, <1>2, <1>3 DEF EmailHandler

LEMMA RunOnceIsLoop ==
  ASSUME NEW w \in Workers, RunOnce(w)
  PROVE  WorkerStep(w)
  BY DEF RunOnce, EmailCompletes, WorkerStep

LEMMA LoopStep ==
  ASSUME TypeOK, [EmailNext]_emailVars
  PROVE  [Next]_vars
  <1>1. CASE UserStep
    <2>1. CASE \E a \in Applications :
                  \/ EditContent(a) \/ MoveStatus(a) \/ Reconcile(a)
                  \/ \E r \in 1..MaxRevision : Approve(a, r)
      BY <2>1 DEF EditContent, MoveStatus, Reconcile, Approve, UserLeaves
    <2>2. CASE \E a \in Applications, j \in Jobs : EnqueueSend(a, j)
      BY <2>2, EnqueueIsLoop DEF Next
    <2>3. CASE \E j \in Jobs : CancelSend(j)
      BY <2>3 DEF CancelSend, Next
    <2>4. CASE BeginChange \/ SaveConnection \/ FinishDisconnect
      BY <2>4 DEF BeginChange, SaveConnection, FinishDisconnect, GmailBecomes, UserLeaves
    <2> QED
      BY <1>1, <2>1, <2>2, <2>3, <2>4 DEF UserStep
  <1>2. CASE \E w \in Workers : EmailHandler(w)
    BY <1>2, HandlerIsLoop DEF Next, WorkerStep
  <1>3. CASE \E w \in Workers : RunOnce(w)
    BY <1>3, RunOnceIsLoop DEF Next
  <1>4. CASE \E r \in wire : GmailAccepts(r) \/ GmailRefuses(r)
    BY <1>4 DEF GmailAccepts, GmailRefuses
  <1>5. CASE \E j \in Jobs : LeaseLapses(j) \/ SendBecomesDue(j)
    BY <1>5 DEF LeaseLapses, SendBecomesDue, Next
  <1>6. CASE UNCHANGED emailVars
    BY <1>6 DEF emailVars
  <1> QED
    BY <1>1, <1>2, <1>3, <1>4, <1>5, <1>6 DEF EmailNext

\* The invariant of the queue holds of every run of e-mail delivery.
LEMMA LoopHolds == EmailSpec => []IInv /\ [][EmailNext]_emailVars
  <1>1. EmailInit => IInv
    BY InitIInv DEF EmailInit
  <1>2. IInv /\ [EmailNext]_emailVars => IInv'
    BY LoopStep, StepIInv DEF IInv
  <1> QED
    BY <1>1, <1>2, PTL DEF EmailSpec

\* Applications, ledger, handler and Gmail add nothing to what the queue and its
\* workers may do: every theorem of WorkerLoop is one of EmailDelivery.
THEOREM EmailImplementsLoop == EmailSpec => ImplementsLoop
  <1>1. EmailInit => Init
    BY DEF EmailInit
  <1>2. IInv /\ [EmailNext]_emailVars => [Next]_vars
    BY LoopStep DEF IInv
  <1> QED
    BY <1>1, <1>2, LoopHolds, PTL DEF EmailSpec, ImplementsLoop, Spec

-----------------------------------------------------------------------------
(* The ledger *)

\* A key is used once, for one application; the newest key of an application is
\* one of its own, and was reserved with the content a queued application has.
KeysAreOwned ==
    /\ \A j \in Jobs : event[j] # "none" => target[j] \in Applications
    /\ \A a \in Applications : sendKey[a] # NoJob =>
          event[sendKey[a]] # "none" /\ target[sendKey[a]] = a
    /\ \A a \in Applications : appStatus[a] = "queued" => reserved[sendKey[a]] = revision[a]

LedgerTypeOK ==
    /\ appStatus   \in [Applications -> AppStatuses]
    /\ revision    \in [Applications -> 1..MaxRevision]
    /\ approvedRev \in [Applications -> 0..MaxRevision]
    /\ sendKey     \in [Applications -> Jobs \cup {NoJob}]
    /\ event       \in [Jobs -> Settled \cup {"none", "pending_provider"}]
    /\ target      \in [Jobs -> Applications \cup {NoApplication}]
    /\ gmail       \in {"connected", "changing", "disconnected"}
    /\ reserved    \in [Jobs -> 0..MaxRevision]

LedgerInv ==
    /\ LedgerTypeOK /\ KeysAreOwned
    /\ PendingIffQueued /\ OneCountedPerRecipient /\ ConnectionOutlivesReservation

\* A key that was reserved stays what it is.
LedgerGrows ==
    \A k \in Jobs : event[k] # "none" =>
        event'[k] # "none" /\ target'[k] = target[k] /\ reserved'[k] = reserved[k]

USE EmailAssumption, LoopAssumption DEF AppStatuses, Settled, Counted

LEMMA LedgerInit == EmailInit => LedgerInv
  <1> SUFFICES ASSUME EmailInit PROVE LedgerInv
    OBVIOUS
  <1>1. LedgerTypeOK
    BY DEF EmailInit, LedgerTypeOK
  <1>2. KeysAreOwned /\ PendingIffQueued /\ OneCountedPerRecipient
    BY DEF EmailInit, KeysAreOwned, PendingIffQueued, OneCountedPerRecipient
  <1>3. ConnectionOutlivesReservation
    BY DEF EmailInit, ConnectionOutlivesReservation, NothingPending
  <1> QED
    BY <1>1, <1>2, <1>3 DEF LedgerInv

\* A step that leaves the ledger alone.
LEMMA LedgerUnchanged ==
  ASSUME LedgerInv, UNCHANGED userVars
  PROVE  LedgerInv' /\ LedgerGrows
  BY DEF LedgerInv, LedgerTypeOK, KeysAreOwned, PendingIffQueued, OneCountedPerRecipient,
         ConnectionOutlivesReservation, NothingPending, LedgerGrows, userVars, appVars, ledger

\* Edits, moves and approvals: never of an application that is queued.
LEMMA ApplicationStep ==
  ASSUME LedgerInv, NEW a \in Applications,
         \/ EditContent(a) \/ MoveStatus(a)
         \/ \E r \in 1..MaxRevision : Approve(a, r)
  PROVE  LedgerInv' /\ LedgerGrows
  <1>1. /\ UNCHANGED <<sendKey, event, target, reserved, gmail>>
        /\ appStatus[a] # "queued"
        /\ appStatus'[a] # "queued" /\ appStatus' \in [Applications -> AppStatuses]
        /\ revision' \in [Applications -> 1..MaxRevision]
        /\ \A b \in Applications \ {a} :
              appStatus'[b] = appStatus[b] /\ revision'[b] = revision[b]
        /\ approvedRev' \in [Applications -> 0..MaxRevision]
    <2> USE DEF LedgerInv, LedgerTypeOK, ledger
    <2>1. CASE EditContent(a)
      <3>1. revision[a] + 1 \in 1..MaxRevision
        BY <2>1 DEF EditContent
      <3> QED
        BY <2>1, <3>1 DEF EditContent
    <2>2. CASE MoveStatus(a)
      BY <2>2 DEF MoveStatus
    <2>3. CASE \E r \in 1..MaxRevision : Approve(a, r)
      BY <2>3 DEF Approve
    <2> QED
      BY <2>1, <2>2, <2>3
  <1>2. LedgerTypeOK'
    BY <1>1 DEF LedgerInv, LedgerTypeOK
  <1>3. KeysAreOwned' /\ PendingIffQueued'
    BY <1>1 DEF LedgerInv, LedgerTypeOK, KeysAreOwned, PendingIffQueued
  <1>4. OneCountedPerRecipient' /\ ConnectionOutlivesReservation' /\ LedgerGrows
    BY <1>1 DEF LedgerInv, OneCountedPerRecipient, ConnectionOutlivesReservation,
                NothingPending, LedgerGrows
  <1> QED
    BY <1>2, <1>3, <1>4 DEF LedgerInv

LEMMA ReserveStep ==
  ASSUME LedgerInv, NEW a \in Applications, NEW j \in Jobs, Reserve(a, j)
  PROVE  LedgerInv' /\ LedgerGrows
  <1>1. /\ event[j] = "none" /\ appStatus[a] = "approved" /\ gmail = "connected"
        /\ approvedRev[a] = revision[a]
        /\ \A k \in Jobs : event[k] \in Counted => Recipient[target[k]] # Recipient[a]
        /\ appStatus' = [appStatus EXCEPT ![a] = "queued"]
        /\ sendKey'   = [sendKey EXCEPT ![a] = j]
        /\ event'     = [event EXCEPT ![j] = "pending_provider"]
        /\ target'    = [target EXCEPT ![j] = a]
        /\ reserved'  = [reserved EXCEPT ![j] = approvedRev[a]]
        /\ UNCHANGED <<revision, approvedRev, gmail>>
    BY DEF Reserve, Sendable, InWindow
  <1>2. LedgerTypeOK'
    BY <1>1 DEF LedgerInv, LedgerTypeOK
  <1>3. KeysAreOwned'
    BY <1>1 DEF LedgerInv, LedgerTypeOK, KeysAreOwned
  <1>4. PendingIffQueued'
    <2>1. ASSUME NEW b \in Applications
          PROVE  (appStatus[b] = "queued" <=>
                    sendKey[b] # NoJob /\ event[sendKey[b]] = "pending_provider")'
      BY <1>1, <2>1 DEF LedgerInv, LedgerTypeOK, KeysAreOwned, PendingIffQueued
    <2>2. ASSUME NEW k \in Jobs, event'[k] = "pending_provider"
          PROVE  sendKey'[target'[k]] = k
      BY <1>1, <2>2 DEF LedgerInv, LedgerTypeOK, KeysAreOwned, PendingIffQueued
    <2> QED
      BY <2>1, <2>2 DEF PendingIffQueued
  <1>5. OneCountedPerRecipient'
    BY <1>1 DEF LedgerInv, LedgerTypeOK, OneCountedPerRecipient
  <1>6. ConnectionOutlivesReservation' /\ LedgerGrows
    BY <1>1 DEF LedgerInv, LedgerTypeOK, ConnectionOutlivesReservation, LedgerGrows
  <1> QED
    BY <1>2, <1>3, <1>4, <1>5, <1>6 DEF LedgerInv

\* finalize_application_send, called by a worker or by reconcile.
LEMMA SettleStep ==
  ASSUME LedgerInv, NEW k \in Jobs, NEW outcome \in Settled, Settle(k, outcome),
         UNCHANGED <<revision, approvedRev, sendKey, target, reserved, gmail>>
  PROVE  LedgerInv' /\ LedgerGrows
  <1>1. CASE event[k] = "pending_provider"
    <2> DEFINE s == IF outcome = "sent" THEN "sent" ELSE "failed"
    <2>1. /\ event' = [event EXCEPT ![k] = outcome]
          /\ appStatus' = [appStatus EXCEPT ![target[k]] = s]
          /\ target[k] \in Applications /\ sendKey[target[k]] = k
      BY <1>1 DEF Settle, LedgerInv, KeysAreOwned, PendingIffQueued
    <2>2. s \in {"sent", "failed"}
      OBVIOUS
    <2> HIDE DEF s
    <2>3. LedgerTypeOK'
      BY <2>1, <2>2 DEF LedgerInv, LedgerTypeOK
    <2>4. KeysAreOwned'
      BY <2>1, <2>2 DEF LedgerInv, LedgerTypeOK, KeysAreOwned
    <2>5. PendingIffQueued'
      BY <2>1, <2>2 DEF LedgerInv, LedgerTypeOK, KeysAreOwned, PendingIffQueued
    <2>6. OneCountedPerRecipient'
      BY <1>1, <2>1 DEF LedgerInv, LedgerTypeOK, OneCountedPerRecipient
    <2>7. ConnectionOutlivesReservation' /\ LedgerGrows
      BY <1>1, <2>1 DEF LedgerInv, LedgerTypeOK, ConnectionOutlivesReservation,
                        NothingPending, LedgerGrows
    <2> QED
      BY <2>3, <2>4, <2>5, <2>6, <2>7 DEF LedgerInv
  <1>2. CASE event[k] # "pending_provider"
    BY <1>2, LedgerUnchanged DEF Settle, userVars, appVars, ledger
  <1> QED
    BY <1>1, <1>2

LEMMA GmailStep ==
  ASSUME LedgerInv, BeginChange \/ SaveConnection \/ FinishDisconnect
  PROVE  LedgerInv' /\ LedgerGrows
  <1>1. /\ UNCHANGED <<appVars, ledger>>
        /\ gmail' \in {"connected", "changing", "disconnected"}
        /\ gmail' = "connected" \/ NothingPending
    BY DEF BeginChange, SaveConnection, FinishDisconnect, GmailBecomes, LedgerInv,
           ConnectionOutlivesReservation
  <1> QED
    BY <1>1 DEF LedgerInv, LedgerTypeOK, KeysAreOwned, PendingIffQueued, OneCountedPerRecipient,
                ConnectionOutlivesReservation, NothingPending, LedgerGrows, appVars, ledger

-----------------------------------------------------------------------------
(* The rows *)

\* E-mail rows are never deleted, and their attempts only count up.
RowsGrow ==
    \A j \in Jobs : status[j] # "absent" =>
        status'[j] # "absent" /\ attempts'[j] >= attempts[j]

\* No row is added, and none succeeds.
NoneJoins ==
    \A j \in Jobs :
        /\ status'[j] # "absent" => status[j] # "absent"
        /\ status'[j] = "succeeded" => status[j] = "succeeded"

LEMMA EnqueueRows ==
  ASSUME QueueInv, NEW j \in Jobs, Enqueue(j, {})
  PROVE  RowsGrow /\ \A k \in Jobs \ {j} : status'[k] = status[k]
  BY DEF Enqueue, RowsGrow, QueueInv, QueueTypeOK

LEMMA SweepRows ==
  ASSUME QueueInv, NEW w \in Workers,
         NEW taken \in SUBSET Claimable(Stale, Confirmed),
         SweepAndTake(w, taken, Stale, Confirmed)
  PROVE  /\ RowsGrow /\ NoneJoins
         /\ \A j \in taken : status[j] # "absent" /\ attempts'[j] = attempts[j] + 1
  <1>0. Stale \in SUBSET SubmitJobs /\ Confirmed \in SUBSET SubmitJobs
    BY StaleSets
  <1>a. \A j \in Claimable(Stale, Confirmed) :
            /\ j \in Jobs /\ status[j] \in Active
            /\ j \notin Withdrawn(Stale, Confirmed) /\ j \notin Exhausted(Stale, Confirmed)
    BY <1>0, ClaimableRows
  <1>b. \A j \in UNION {Withdrawn(Stale, Confirmed), Exhausted(Stale, Confirmed),
                      Requeued(Stale, Confirmed)} : status[j] \in Active
    BY DEF Withdrawn, Revoked, Exhausted, Requeued, Expired, Active
  <1> SUFFICES ASSUME NEW j \in Jobs
               PROVE  /\ status[j] # "absent" => status'[j] # "absent"
                      /\ status'[j] # "absent" => status[j] # "absent"
                      /\ status'[j] = "succeeded" => status[j] = "succeeded"
                      /\ attempts'[j] >= attempts[j]
                      /\ j \in taken => status[j] # "absent" /\ attempts'[j] = attempts[j] + 1
    <2>1. \A j \in taken : j \in Jobs
      BY <1>a
    <2> QED
      BY <2>1 DEF RowsGrow, NoneJoins
  <1>1. attempts[j] \in Nat
    BY DEF QueueInv, QueueTypeOK
  <1>2. CASE j \in taken
    <2>1. status[j] \in Active
      BY <1>2, <1>a
    <2>2. status'[j] = "running"
      BY <1>2, <1>a DEF SweepAndTake
    <2>3. attempts'[j] = attempts[j] + 1
      BY <1>2 DEF SweepAndTake
    <2> QED
      BY <1>1, <2>1, <2>2, <2>3 DEF Active
  <1>3. CASE j \notin taken
    <2>1. attempts'[j] = attempts[j]
      BY <1>3 DEF SweepAndTake
    <2>2. CASE \/ j \in Withdrawn(Stale, Confirmed) \/ j \in Exhausted(Stale, Confirmed)
               \/ j \in Requeued(Stale, Confirmed)
      <3>1. status[j] \in Active
        BY <2>2, <1>b
      <3>2. status'[j] \in {"cancelled", "failed", "queued"}
        BY <1>3, <2>2 DEF SweepAndTake
      <3> QED
        BY <1>1, <1>3, <2>1, <3>1, <3>2 DEF Active
    <2>3. CASE /\ j \notin Withdrawn(Stale, Confirmed) /\ j \notin Exhausted(Stale, Confirmed)
               /\ j \notin Requeued(Stale, Confirmed)
      <3>1. status'[j] = status[j]
        BY <1>3, <2>3 DEF SweepAndTake
      <3> QED
        BY <1>1, <1>3, <2>1, <3>1
    <2> QED
      BY <2>2, <2>3
  <1> QED
    BY <1>2, <1>3

LEMMA OtherRows ==
  ASSUME QueueInv,
         \/ UNCHANGED queueVars
         \/ \E k \in Jobs :
             \/ CancelJob(k) \/ ExpireLease(k) \/ BecomeDue(k)
             \/ \E v \in Workers : HeartbeatCancels(v, k) \/ FailJob(v, k, TRUE)
  PROVE  RowsGrow /\ NoneJoins
  <1>1. CASE UNCHANGED queueVars
    BY <1>1 DEF queueVars, RowsGrow, NoneJoins, QueueInv, QueueTypeOK
  <1>2. CASE \E k \in Jobs : CancelJob(k) \/ ExpireLease(k) \/ BecomeDue(k)
    BY <1>2 DEF CancelJob, ExpireLease, BecomeDue, RowsGrow, NoneJoins, QueueInv, QueueTypeOK,
                Active
  <1>3. CASE \E k \in Jobs, v \in Workers : HeartbeatCancels(v, k) \/ FailJob(v, k, TRUE)
    <2>1. PICK k \in Jobs, v \in Workers : HeartbeatCancels(v, k) \/ FailJob(v, k, TRUE)
      BY <1>3
    <2>2. /\ status[k] = "running" /\ UNCHANGED attempts
          /\ status'[k] \in {"cancelled", "queued", "failed"}
          /\ \A j \in Jobs \ {k} : status'[j] = status[j]
      BY <2>1 DEF HeartbeatCancels, FailJob, HoldsLease, QueueInv, QueueTypeOK
    <2> QED
      BY <2>2 DEF RowsGrow, NoneJoins, QueueInv, QueueTypeOK
  <1> QED
    BY <1>1, <1>2, <1>3

LEMMA CompleteRows ==
  ASSUME QueueInv, NEW w \in Workers, NEW j \in Jobs,
         NEW t \in {"succeeded", "needs_attention"}, CompleteJob(w, j, t)
  PROVE  /\ RowsGrow
         /\ status[j] = "running" /\ status'[j] = t
         /\ \A k \in Jobs \ {j} : status'[k] = status[k]
  BY DEF CompleteJob, HoldsLease, RowsGrow, QueueInv, QueueTypeOK

-----------------------------------------------------------------------------
(* The handler and Gmail *)

MailRecords ==
    [at : {"fetch", "prepare", "post", "wait", "finalize"},
     key : Jobs \cup {NoJob}, content : 0..MaxRevision,
     result : {"none", "succeeded"} \cup Settled]

MailTypeOK ==
    /\ mail \in [Workers -> MailRecords]
    /\ wire \subseteq Requests
    /\ mailbox \subseteq Requests

Written == wire \cup mailbox

Mailed(k)   == \E r \in mailbox : r.key = k
MailedTo(a) == \E r \in mailbox : target[r.key] = a

\* A request was reserved with its content, by an attempt of a row.
RequestsAreReserved ==
    \A r \in Written :
        /\ event[r.key] # "none" /\ r.content = reserved[r.key]
        /\ status[r.job] # "absent" /\ r.attempt <= attempts[r.job]

RowsAreReserved ==
    \A j \in Jobs :
        /\ status[j] # "absent" => event[j] # "none"
        /\ status[j] = "succeeded" => MailedTo(target[j])

SentIsMailed ==
    /\ \A k \in Jobs : event[k] = "sent" => Mailed(k)
    /\ \A a \in Applications : appStatus[a] = "sent" => MailedTo(a)

\* What worker w may rely on: its row and key are reserved for one application,
\* and an outcome it has is about a message of that application.
Knows(w) ==
    /\ pc[w] \in {"idle", "claimed"} => mail[w] = Fresh
    /\ pc[w] # "idle" =>
          /\ cur[w] \in Jobs /\ status[cur[w]] # "absent" /\ event[cur[w]] # "none"
          /\ attemptNo[w] \in 1..attempts[cur[w]]
    /\ mail[w].at # "fetch" =>
          /\ mail[w].key \in Jobs /\ event[mail[w].key] # "none"
          /\ target[mail[w].key] = target[cur[w]]
          /\ mail[w].content = reserved[mail[w].key] /\ mail[w].content # 0
    /\ mail[w].at = "finalize" /\ pc[w] = "handling" => mail[w].result \in Settled
    /\ mail[w].result = "sent" => Mailed(mail[w].key)
    /\ mail[w].result = "succeeded" => MailedTo(target[cur[w]])

\* No two workers work on the same attempt of a row.
Differs(w) ==
    \A v \in Workers \ {w} : cur[v] = cur[w] /\ cur[w] # NoJob => attemptNo[v] # attemptNo[w]

\* The attempt of w has a request only once w has posted it, and only that one.
Owns(w) ==
    pc[w] # "idle" =>
        \A r \in Written : r.job = cur[w] /\ r.attempt = attemptNo[w] =>
            /\ mail[w].at \in {"wait", "finalize"} \/ pc[w] = "completing"
            /\ pc[w] # "failing"
            /\ mail[w].at = "wait" => r = Request(w)

HandlerInv == \A w \in Workers : Knows(w) /\ Differs(w) /\ Owns(w)

MailInv ==
    /\ MailTypeOK /\ HandlerInv
    /\ RequestsAreReserved /\ RowsAreReserved /\ SentIsMailed

Grows == LedgerGrows /\ RowsGrow /\ mailbox \subseteq mailbox'

\* A worker is not touched by a step.
Stays(w) ==
    /\ pc'[w] = pc[w] /\ cur'[w] = cur[w] /\ attemptNo'[w] = attemptNo[w]
    /\ mail'[w] = mail[w]

LEMMA MailedKept ==
  ASSUME MailTypeOK, RequestsAreReserved, Grows
  PROVE  /\ \A k : Mailed(k) => Mailed(k)'
         /\ \A a : MailedTo(a) => \E r \in mailbox' : target'[r.key] = a
  <1>1. \A r \in mailbox : r \in mailbox' /\ target'[r.key] = target[r.key]
    BY DEF Grows, LedgerGrows, MailTypeOK, RequestsAreReserved, Written, Requests
  <1> QED
    BY <1>1 DEF Mailed, MailedTo

\* What a worker knows stays true while others work.
LEMMA KnowsKept ==
  ASSUME TypeOK, TypeOK', MailTypeOK, RequestsAreReserved, Grows,
         NEW w \in Workers, Knows(w), Stays(w)
  PROVE  Knows(w)'
  <1>1. /\ pc'[w] = pc[w] /\ cur'[w] = cur[w] /\ attemptNo'[w] = attemptNo[w]
        /\ mail'[w] = mail[w]
    BY DEF Stays
  <1>2. ASSUME pc[w] # "idle"
        PROVE  /\ cur[w] \in Jobs /\ status'[cur[w]] # "absent" /\ event'[cur[w]] # "none"
               /\ attemptNo[w] \in 1..attempts'[cur[w]]
               /\ target'[cur[w]] = target[cur[w]]
    <2>1. /\ cur[w] \in Jobs /\ status[cur[w]] # "absent" /\ event[cur[w]] # "none"
          /\ attemptNo[w] \in 1..attempts[cur[w]]
      BY <1>2 DEF Knows
    <2>2. /\ status'[cur[w]] # "absent" /\ attempts'[cur[w]] >= attempts[cur[w]]
          /\ event'[cur[w]] # "none" /\ target'[cur[w]] = target[cur[w]]
      BY <2>1 DEF Grows, RowsGrow, LedgerGrows
    <2>3. attempts[cur[w]] \in Nat /\ attempts'[cur[w]] \in Nat
      BY <2>1 DEF TypeOK, QueueTypeOK
    <2> QED
      BY <2>1, <2>2, <2>3
  <1>3. ASSUME mail[w].at # "fetch"
        PROVE  /\ mail[w].key \in Jobs /\ event'[mail[w].key] # "none"
               /\ target'[mail[w].key] = target'[cur[w]]
               /\ mail[w].content = reserved'[mail[w].key] /\ mail[w].content # 0
    <2>1. pc[w] # "idle"
      BY <1>3 DEF Knows, Fresh
    <2> QED
      BY <1>3, <1>2, <2>1 DEF Knows, Grows, LedgerGrows
  <1>4. mail[w].result = "sent" => Mailed(mail[w].key)'
    BY <1>1, MailedKept DEF Knows
  <1>5. ASSUME mail[w].result = "succeeded"
        PROVE  MailedTo(target[cur[w]])'
    <2>1. pc[w] # "idle" /\ MailedTo(target[cur[w]])
      BY <1>5 DEF Knows, Fresh
    <2> QED
      BY <2>1, <1>1, <1>2, MailedKept DEF MailedTo
  <1> QED
    BY <1>1, <1>2, <1>3, <1>4, <1>5 DEF Knows

LEMMA MailInit == EmailInit => MailInv
  <1> SUFFICES ASSUME EmailInit PROVE MailInv
    OBVIOUS
  <1>1. /\ mail = [w \in Workers |-> Fresh] /\ wire = {} /\ mailbox = {}
        /\ \A w \in Workers : pc[w] = "idle" /\ cur[w] = NoJob
        /\ \A j \in Jobs : status[j] = "absent" /\ event[j] = "none"
        /\ \A a \in Applications : appStatus[a] = "drafted"
    BY DEF EmailInit, Init, QueueInit
  <1>2. MailTypeOK
    BY <1>1 DEF MailTypeOK, MailRecords, Fresh
  <1>3. HandlerInv
    BY <1>1 DEF HandlerInv, Knows, Differs, Owns, Fresh
  <1>4. RequestsAreReserved /\ RowsAreReserved /\ SentIsMailed
    BY <1>1 DEF RequestsAreReserved, RowsAreReserved, SentIsMailed, Written
  <1> QED
    BY <1>2, <1>3, <1>4 DEF MailInv

\* The requests there were keep their reservation.
LEMMA RequestsKept ==
  ASSUME TypeOK, TypeOK', MailTypeOK, RequestsAreReserved, Grows, NEW r \in Written
  PROVE  /\ event'[r.key] # "none" /\ r.content = reserved'[r.key]
         /\ status'[r.job] # "absent" /\ r.attempt <= attempts'[r.job]
  <1>1. r.job \in Jobs /\ r.key \in Jobs /\ r.attempt \in Nat
    BY DEF Written, MailTypeOK, Requests
  <1>2. attempts[r.job] \in Nat /\ attempts'[r.job] \in Nat
    BY <1>1 DEF TypeOK, QueueTypeOK
  <1> QED
    BY <1>1, <1>2 DEF RequestsAreReserved, Grows, LedgerGrows, RowsGrow

\* Users, Gmail and the clock touch no worker and add no request.
LEMMA OutsideStep ==
  ASSUME TypeOK, TypeOK', MailInv, Grows, UNCHANGED <<workerVars, mail>>,
         Written' \subseteq Written
  PROVE  HandlerInv' /\ RequestsAreReserved'
  <1>1. ASSUME NEW w \in Workers
        PROVE  Knows(w)' /\ Differs(w)' /\ Owns(w)'
    <2>1. Stays(w) /\ \A v \in Workers : cur'[v] = cur[v] /\ attemptNo'[v] = attemptNo[v]
      BY DEF Stays, workerVars
    <2>2. Knows(w)'
      BY <2>1, KnowsKept DEF MailInv, HandlerInv
    <2>3. Differs(w)'
      BY <2>1 DEF MailInv, HandlerInv, Differs
    <2>4. Owns(w)'
      BY <2>1 DEF MailInv, HandlerInv, Owns, Request, Stays
    <2> QED
      BY <2>2, <2>3, <2>4
  <1>2. RequestsAreReserved'
    BY RequestsKept DEF MailInv, RequestsAreReserved
  <1> QED
    BY <1>1, <1>2 DEF HandlerInv

\* Rows that neither appear nor succeed.
LEMMA RowsKept ==
  ASSUME MailInv, Grows, NoneJoins
  PROVE  RowsAreReserved'
  <1> SUFFICES ASSUME NEW j \in Jobs
               PROVE  /\ status'[j] # "absent" => event'[j] # "none"
                      /\ status'[j] = "succeeded" => MailedTo(target[j])'
    BY DEF RowsAreReserved
  <1>1. status'[j] # "absent" => event[j] # "none"
    BY DEF NoneJoins, MailInv, RowsAreReserved
  <1>2. ASSUME status'[j] = "succeeded"
        PROVE  MailedTo(target[j])'
    <2>1. MailedTo(target[j]) /\ event[j] # "none"
      BY <1>2 DEF NoneJoins, MailInv, RowsAreReserved
    <2>2. target'[j] = target[j]
      BY <2>1 DEF Grows, LedgerGrows
    <2> QED
      BY <2>1, <2>2, MailedKept DEF MailInv, MailedTo
  <1> QED
    BY <1>1, <1>2 DEF Grows, LedgerGrows

\* Nothing is settled as sent.
LEMMA SentKept ==
  ASSUME MailInv, Grows,
         \A k \in Jobs : event'[k] = "sent" => event[k] = "sent",
         \A a \in Applications : appStatus'[a] = "sent" => appStatus[a] = "sent"
  PROVE  SentIsMailed'
  <1>1. \A k \in Jobs : event'[k] = "sent" => Mailed(k)'
    BY MailedKept DEF MailInv, SentIsMailed
  <1>2. \A a \in Applications : appStatus'[a] = "sent" => \E r \in mailbox' : target'[r.key] = a
    BY MailedKept DEF MailInv, SentIsMailed
  <1> QED
    BY <1>1, <1>2 DEF SentIsMailed, MailedTo, Mailed

LEMMA UserKeeps ==
  ASSUME IInv, IInv', LedgerInv, MailInv, UserStep
  PROVE  LedgerInv' /\ LedgerGrows /\ MailInv'
  <1>1. UNCHANGED <<workerVars, mailVars>>
    <2>1. CASE UNCHANGED <<vars, mailVars>>
      BY <2>1 DEF vars
    <2>2. CASE \E a \in Applications, j \in Jobs : EnqueueSend(a, j)
      BY <2>2 DEF EnqueueSend
    <2>3. CASE \E j \in Jobs : CancelSend(j)
      BY <2>3 DEF CancelSend, UserCancels
    <2> QED
      BY <2>1, <2>2, <2>3
      DEF UserStep, EditContent, MoveStatus, Reconcile, Approve, BeginChange, SaveConnection,
          FinishDisconnect, GmailBecomes, UserLeaves
  <1>2. TypeOK /\ TypeOK' /\ QueueInv
    BY DEF IInv
  <1>3. MailTypeOK'
    BY <1>1 DEF MailInv, MailTypeOK, mailVars
  <1>4. SUFFICES LedgerInv' /\ Grows /\ RowsAreReserved' /\ SentIsMailed'
    <2>1. Written' = Written /\ UNCHANGED mail
      BY <1>1 DEF mailVars, Written
    <2> QED
      BY <1>1, <1>2, <1>3, <1>4, <2>1, OutsideStep DEF MailInv, Grows
  <1>5. mailbox' = mailbox
    BY <1>1 DEF mailVars
  <1>6. CASE \E a \in Applications :
                \/ EditContent(a) \/ MoveStatus(a)
                \/ \E r \in 1..MaxRevision : Approve(a, r)
    <2>1. PICK a \in Applications :
                \/ EditContent(a) \/ MoveStatus(a)
                \/ \E r \in 1..MaxRevision : Approve(a, r)
      BY <1>6
    <2>2. /\ UNCHANGED queueVars /\ UNCHANGED event
          /\ \A b \in Applications : appStatus'[b] = "sent" => appStatus[b] = "sent"
      BY <2>1 DEF EditContent, MoveStatus, Approve, UserLeaves, vars, ledger, LedgerInv,
                  LedgerTypeOK
    <2>3. RowsGrow /\ NoneJoins
      BY <1>2, <2>2, OtherRows
    <2>4. LedgerInv' /\ Grows
      BY <1>5, <2>1, <2>3, ApplicationStep DEF Grows
    <2> QED
      BY <2>2, <2>3, <2>4, RowsKept, SentKept
  <1>7. CASE \E a \in Applications : Reconcile(a)
    <2>1. PICK a \in Applications : Reconcile(a)
      BY <1>7
    <2>2. /\ sendKey[a] \in Jobs
          /\ Settle(sendKey[a], "needs_attention") /\ UNCHANGED queueVars
          /\ UNCHANGED <<revision, approvedRev, sendKey, target, reserved, gmail>>
      BY <2>1 DEF Reconcile, UserLeaves, vars, LedgerInv, LedgerTypeOK
    <2>3. RowsGrow /\ NoneJoins
      BY <1>2, <2>2, OtherRows
    <2>4. LedgerInv' /\ Grows
      BY <1>5, <2>2, <2>3, SettleStep DEF Grows
    <2>5. /\ \A k \in Jobs : event'[k] = "sent" => event[k] = "sent"
          /\ \A b \in Applications : appStatus'[b] = "sent" => appStatus[b] = "sent"
      BY <2>2 DEF Settle, LedgerInv, LedgerTypeOK
    <2> QED
      BY <2>3, <2>4, <2>5, RowsKept, SentKept
  <1>8. CASE \E a \in Applications, j \in Jobs : EnqueueSend(a, j)
    <2>1. PICK a \in Applications, j \in Jobs : EnqueueSend(a, j)
      BY <1>8
    <2>2. Reserve(a, j) /\ Enqueue(j, {})
      BY <2>1 DEF EnqueueSend
    <2>3. RowsGrow /\ status'[j] = "queued" /\ \A k \in Jobs \ {j} : status'[k] = status[k]
      BY <1>2, <2>2, EnqueueRows DEF Enqueue
    <2>4. LedgerInv' /\ Grows
      BY <1>5, <2>2, <2>3, ReserveStep DEF Grows
    <2>5. /\ event'[j] = "pending_provider"
          /\ \A k \in Jobs : event'[k] = "sent" => event[k] = "sent"
          /\ \A b \in Applications : appStatus'[b] = "sent" => appStatus[b] = "sent"
      BY <2>2 DEF Reserve, LedgerInv, LedgerTypeOK
    <2>6. ASSUME NEW k \in Jobs
          PROVE  /\ status'[k] # "absent" => event'[k] # "none"
                 /\ status'[k] = "succeeded" => MailedTo(target[k])'
      <3>1. CASE k = j
        BY <3>1, <2>3, <2>5
      <3>2. CASE k # j
        <4>1. status'[k] = status[k]
          BY <2>3, <3>2
        <4>2. status[k] # "absent" => event'[k] # "none" /\ target'[k] = target[k]
          BY <2>4 DEF MailInv, RowsAreReserved, Grows, LedgerGrows
        <4>3. status[k] = "succeeded" => MailedTo(target[k])
          BY DEF MailInv, RowsAreReserved
        <4> QED
          BY <4>1, <4>2, <4>3, <2>4, MailedKept DEF MailInv, MailedTo
      <3> QED
        BY <3>1, <3>2
    <2> QED
      BY <2>4, <2>5, <2>6, SentKept DEF RowsAreReserved
  <1>9. CASE \E j \in Jobs : CancelSend(j)
    <2>1. PICK j \in Jobs : CancelSend(j)
      BY <1>9
    <2>2. CancelJob(j) /\ UNCHANGED userVars
      BY <2>1 DEF CancelSend, UserCancels
    <2>3. RowsGrow /\ NoneJoins
      BY <1>2, <2>2, OtherRows
    <2>4. LedgerInv' /\ Grows
      BY <1>5, <2>2, <2>3, LedgerUnchanged DEF Grows
    <2> QED
      BY <2>2, <2>3, <2>4, RowsKept, SentKept DEF userVars, appVars, ledger
  <1>10. CASE BeginChange \/ SaveConnection \/ FinishDisconnect
    <2>1. UNCHANGED <<queueVars, appStatus, event>>
      BY <1>10 DEF BeginChange, SaveConnection, FinishDisconnect, GmailBecomes, UserLeaves, vars,
                   appVars, ledger
    <2>2. RowsGrow /\ NoneJoins
      BY <1>2, <2>1, OtherRows
    <2>3. LedgerInv' /\ Grows
      BY <1>5, <1>10, <2>2, GmailStep DEF Grows
    <2> QED
      BY <2>1, <2>2, <2>3, RowsKept, SentKept
  <1> QED
    BY <1>6, <1>7, <1>8, <1>9, <1>10 DEF UserStep, Grows

LEMMA GmailAndClockKeep ==
  ASSUME IInv, IInv', LedgerInv, MailInv,
         \/ \E r \in wire : GmailAccepts(r) \/ GmailRefuses(r)
         \/ \E j \in Jobs : LeaseLapses(j) \/ SendBecomesDue(j)
         \/ UNCHANGED emailVars
  PROVE  LedgerInv' /\ LedgerGrows /\ MailInv'
  <1>1. TypeOK /\ TypeOK' /\ QueueInv
    BY DEF IInv
  <1>2. /\ UNCHANGED <<workerVars, mail, userVars>>
        /\ \/ UNCHANGED queueVars
           \/ \E j \in Jobs : ExpireLease(j) \/ BecomeDue(j)
        /\ \/ UNCHANGED <<wire, mailbox>>
           \/ \E r \in wire : wire' = wire \ {r} /\ mailbox' \in {mailbox, mailbox \cup {r}}
    <2>1. CASE \E r \in wire : GmailAccepts(r) \/ GmailRefuses(r)
      BY <2>1 DEF GmailAccepts, GmailRefuses, vars
    <2>2. CASE \E j \in Jobs : LeaseLapses(j) \/ SendBecomesDue(j)
      BY <2>2 DEF LeaseLapses, SendBecomesDue, LeaseExpires, JobBecomesDue, mailVars
    <2>3. CASE UNCHANGED emailVars
      BY <2>3 DEF emailVars, vars, mailVars
    <2> QED
      BY <2>1, <2>2, <2>3
  <1>3. /\ mailbox \subseteq mailbox' /\ wire' \subseteq Requests /\ mailbox' \subseteq Requests
        /\ Written' \subseteq Written
    BY <1>2 DEF MailInv, MailTypeOK, Written
  <1>4. RowsGrow /\ NoneJoins
    BY <1>1, <1>2, OtherRows
  <1>5. LedgerInv' /\ LedgerGrows /\ Grows
    BY <1>2, <1>3, <1>4, LedgerUnchanged DEF Grows
  <1>6. HandlerInv' /\ RequestsAreReserved' /\ RowsAreReserved'
    BY <1>1, <1>2, <1>3, <1>4, <1>5, OutsideStep, RowsKept
  <1>7. SentIsMailed'
    BY <1>2, <1>5, SentKept DEF userVars, appVars, ledger
  <1>8. MailTypeOK'
    BY <1>2, <1>3 DEF MailInv, MailTypeOK
  <1> QED
    BY <1>5, <1>6, <1>7, <1>8 DEF MailInv

\* What run_once does between the handler's steps: it takes a row, starts the
\* handler, lets go of the row, or goes on.
LEMMA RunOnceMoves ==
  ASSUME TypeOK, NEW w \in Workers, RunOnce(w)
  PROVE  /\ UNCHANGED <<userVars, wire, mailbox>>
         /\ \A v \in Workers \ {w} : pc'[v] = pc[v] /\ cur'[v] = cur[v]
                                     /\ attemptNo'[v] = attemptNo[v]
         /\ \/ \E j \in Jobs : WorkerClaims(w, j)
            \/ /\ pc'[w] = "idle" /\ cur'[w] = NoJob
            \/ /\ pc[w] = "claimed" /\ pc'[w] = "handling"
               /\ cur'[w] = cur[w] /\ attemptNo'[w] = attemptNo[w]
            \/ /\ pc'[w] = pc[w] /\ cur'[w] = cur[w] /\ attemptNo'[w] = attemptNo[w]
  <1> USE DEF TypeOK
  <1>1. UNCHANGED <<userVars, wire, mailbox>>
    BY DEF RunOnce
  <1>2. CASE \E j \in Jobs : WorkerClaims(w, j)
    BY <1>1, <1>2 DEF WorkerClaims
  <1>3. CASE Release(w)
    BY <1>1, <1>3 DEF Release
  <1>4. CASE UNCHANGED workerVars
    BY <1>1, <1>4 DEF workerVars
  <1>5. CASE /\ pc[w] = "claimed" /\ pc' = [pc EXCEPT ![w] = "handling"]
             /\ UNCHANGED <<cur, attemptNo>>
    BY <1>1, <1>5
  <1>6. \/ \E j \in Jobs : WorkerClaims(w, j)
        \/ Release(w) \/ UNCHANGED workerVars
        \/ /\ pc[w] = "claimed" /\ pc' = [pc EXCEPT ![w] = "handling"]
           /\ UNCHANGED <<cur, attemptNo>>
    BY DEF RunOnce, ClaimReplyLost, InitialHeartbeat, InitialHeartbeatFails, HeartbeatEndsHandler,
           HeartbeatReplyLost, WorkerFails, EmailCompletes, WorkerCompletes, WorkerFindsNothing,
           TerminalRequestLost, Crash, workerVars
  <1> QED
    BY <1>2, <1>3, <1>4, <1>5, <1>6

\* A row succeeds only by the word of the handler that worked on it.
LEMMA RunOnceRows ==
  ASSUME QueueInv, NEW w \in Workers, RunOnce(w)
  PROVE  /\ RowsGrow
         /\ \A j \in Jobs : status'[j] # "absent" => status[j] # "absent"
         /\ \A j \in Jobs : status'[j] = "succeeded" =>
               status[j] = "succeeded" \/ (j = cur[w] /\ mail[w].result = "succeeded"
                                                     /\ pc[w] = "completing")
         /\ \A j \in Jobs : WorkerClaims(w, j) =>
               status[j] # "absent" /\ attempts'[j] = attempts[j] + 1
  <1>1. CASE \E j \in Jobs : Claim(w, j, Stale, Confirmed)
    <2>1. PICK j \in Jobs : Claim(w, j, Stale, Confirmed)
      BY <1>1
    <2>2. {j} \in SUBSET Claimable(Stale, Confirmed) /\ SweepAndTake(w, {j}, Stale, Confirmed)
      BY <2>1 DEF Claim, First
    <2>3. /\ RowsGrow /\ NoneJoins
          /\ \A k \in {j} : status[k] # "absent" /\ attempts'[k] = attempts[k] + 1
      BY <2>2, SweepRows
    <2>4. ASSUME NEW k \in Jobs, WorkerClaims(w, k)
          PROVE  status[k] # "absent" /\ attempts'[k] = attempts[k] + 1
      <3>1. {k} \in SUBSET Claimable(Stale, Confirmed) /\ SweepAndTake(w, {k}, Stale, Confirmed)
        BY <2>4 DEF WorkerClaims, Claim, First
      <3> QED
        BY <3>1, SweepRows
    <2> QED
      BY <2>3, <2>4 DEF NoneJoins
  <1>2. CASE ClaimNothing(w, Stale, Confirmed)
    <2>1. {} \in SUBSET Claimable(Stale, Confirmed) /\ SweepAndTake(w, {}, Stale, Confirmed)
      BY <1>2 DEF ClaimNothing
    <2>2. RowsGrow /\ NoneJoins
      BY <2>1, SweepRows
    <2>3. ASSUME NEW k \in Jobs, WorkerClaims(w, k)
          PROVE  FALSE
      BY <1>2, <2>3 DEF ClaimNothing, WorkerClaims, Claim, First
    <2> QED
      BY <2>2, <2>3 DEF NoneJoins
  <1>3. CASE EmailCompletes(w) /\ ~UNCHANGED queueVars
    <2>1. PICK j \in Jobs : WorkerCompletes(w, j) /\ status'[j] \in {status[j], mail[w].result}
      BY <1>3 DEF EmailCompletes
    <2>2. PICK t \in {"succeeded", "needs_attention"} : CompleteJob(w, j, t)
      BY <1>3, <2>1 DEF WorkerCompletes
    <2>3. /\ RowsGrow /\ status[j] = "running" /\ status'[j] = t
          /\ \A k \in Jobs \ {j} : status'[k] = status[k]
      BY <2>2, CompleteRows
    <2>4. pc[w] = "completing" /\ cur[w] = j
      BY <2>1 DEF WorkerCompletes
    <2> QED
      BY <2>1, <2>3, <2>4 DEF WorkerClaims
  <1>4. CASE /\ ~ \E j \in Jobs : Claim(w, j, Stale, Confirmed)
             /\ \/ UNCHANGED queueVars
                \/ \E k \in Jobs : HeartbeatCancels(w, k) \/ FailJob(w, k, TRUE)
    <2>1. RowsGrow /\ NoneJoins
      BY <1>4, OtherRows
    <2> QED
      BY <1>4, <2>1 DEF NoneJoins, WorkerClaims
  <1>5. \/ \E j \in Jobs : Claim(w, j, Stale, Confirmed)
        \/ ClaimNothing(w, Stale, Confirmed)
        \/ EmailCompletes(w)
        \/ UNCHANGED queueVars
        \/ \E k \in Jobs : HeartbeatCancels(w, k) \/ FailJob(w, k, TRUE)
    BY DEF RunOnce, WorkerClaims, ClaimReplyLost, InitialHeartbeat, InitialHeartbeatFails,
           HeartbeatEndsHandler, HeartbeatReplyLost, WorkerFails, WorkerFindsNothing,
           TerminalRequestLost, Crash, HeartbeatRenews, HeartbeatRefused
  <1> QED
    BY <1>1, <1>2, <1>3, <1>4, <1>5

LEMMA RunOnceKeeps ==
  ASSUME IInv, IInv', LedgerInv, MailInv, NEW w \in Workers, RunOnce(w)
  PROVE  LedgerInv' /\ LedgerGrows /\ MailInv'
  <1>1. TypeOK /\ TypeOK' /\ QueueInv
    BY DEF IInv
  <1>2. /\ UNCHANGED <<userVars, wire, mailbox>>
        /\ mail' = [mail EXCEPT ![w] = IF pc'[w] = "idle" THEN Fresh ELSE @]
    BY DEF RunOnce
  <1>3. mail \in [Workers -> MailRecords] /\ Fresh \in MailRecords
    BY DEF MailInv, MailTypeOK, MailRecords, Fresh
  <1>4. MailTypeOK' /\ mail'[w] = (IF pc'[w] = "idle" THEN Fresh ELSE mail[w])
    BY <1>2, <1>3 DEF MailInv, MailTypeOK
  <1>5. \A v \in Workers \ {w} : Stays(v)
    BY <1>1, <1>2, <1>3, RunOnceMoves DEF Stays
  <1>6. LedgerInv' /\ Grows
    BY <1>1, <1>2, RunOnceRows, LedgerUnchanged DEF Grows
  <1>7. RequestsAreReserved' /\ SentIsMailed' /\ Written' = Written
    <2>1. Written' = Written
      BY <1>2 DEF Written
    <2>2. SentIsMailed'
      BY <1>2, <1>6, SentKept DEF userVars, appVars, ledger
    <2> QED
      BY <1>1, <1>6, <2>1, <2>2, RequestsKept DEF MailInv, RequestsAreReserved
  <1>8. RowsAreReserved'
    <2>1. ASSUME NEW j \in Jobs, status'[j] # "absent"
          PROVE  event'[j] # "none"
      BY <1>1, <2>1, <1>6, RunOnceRows DEF MailInv, RowsAreReserved, Grows, LedgerGrows
    <2>2. ASSUME NEW j \in Jobs, status'[j] = "succeeded"
          PROVE  MailedTo(target[j])
      <3>1. CASE status[j] = "succeeded"
        BY <3>1 DEF MailInv, RowsAreReserved
      <3>2. CASE j = cur[w] /\ mail[w].result = "succeeded"
        BY <3>2 DEF MailInv, HandlerInv, Knows
      <3> QED
        BY <1>1, <2>2, <3>1, <3>2, RunOnceRows
    <2>3. UNCHANGED <<target, mailbox>>
      BY <1>2 DEF userVars, ledger
    <2> QED
      BY <2>1, <2>2, <2>3 DEF RowsAreReserved, MailedTo
  <1>9. ASSUME NEW v \in Workers \ {w}
        PROVE  Knows(v)' /\ Owns(v)'
    <2>1. Knows(v)'
      BY <1>1, <1>5, <1>6, KnowsKept DEF MailInv, HandlerInv
    <2>2. Owns(v)'
      BY <1>5, <1>7 DEF MailInv, HandlerInv, Owns, Request, Stays
    <2> QED
      BY <2>1, <2>2
  <1>10. CASE \E j \in Jobs : WorkerClaims(w, j)
    <2>1. PICK j \in Jobs : WorkerClaims(w, j)
      BY <1>10
    <2>2. /\ pc[w] = "idle" /\ pc'[w] = "claimed" /\ cur'[w] = j
          /\ attemptNo'[w] = attempts[j] + 1
          /\ status[j] # "absent" /\ attempts'[j] = attempts[j] + 1
      BY <1>1, <2>1, RunOnceRows DEF WorkerClaims, TypeOK
    <2>3. mail'[w] = Fresh
      BY <1>4, <2>2 DEF MailInv, HandlerInv, Knows
    <2>4. /\ attempts[j] \in Nat
          /\ \A v \in Workers : pc[v] # "idle" /\ cur[v] = j =>
                attemptNo[v] \in Nat /\ attemptNo[v] <= attempts[j]
      BY <1>1 DEF TypeOK, QueueTypeOK, MailInv, HandlerInv, Knows
    <2>5. Knows(w)'
      <3>1. status'[j] # "absent" /\ event'[j] # "none"
        BY <1>6, <2>2 DEF MailInv, RowsAreReserved, Grows, LedgerGrows, RowsGrow
      <3>2. attemptNo'[w] \in 1..attempts'[j]
        BY <2>2, <2>4
      <3> QED
        BY <2>2, <2>3, <3>1, <3>2 DEF Knows, Fresh
    <2>6. \A v \in Workers \ {w} : cur'[v] = j => attemptNo'[v] # attemptNo'[w]
      <3> SUFFICES ASSUME NEW v \in Workers \ {w}, cur'[v] = j
                   PROVE  attemptNo'[v] # attemptNo'[w]
        OBVIOUS
      <3>1. cur[v] = j /\ attemptNo'[v] = attemptNo[v]
        BY <1>5 DEF Stays
      <3>2. pc[v] # "idle"
        BY <3>1 DEF IInv, IdleHasNoJob
      <3> QED
        BY <2>2, <2>4, <3>1, <3>2
    <2>7. \A v \in Workers : Differs(v)'
      BY <1>5, <2>2, <2>6 DEF MailInv, HandlerInv, Differs, Stays
    <2>8. Owns(w)'
      <3>1. \A r \in Written : r.job = j => r.attempt \in Nat /\ r.attempt <= attempts[j]
        BY DEF MailInv, MailTypeOK, Written, Requests, RequestsAreReserved
      <3>2. ~ \E r \in Written : r.job = j /\ r.attempt = attempts[j] + 1
        BY <2>4, <3>1
      <3> QED
        BY <1>7, <2>2, <3>2 DEF Owns
    <2> QED
      BY <1>4, <1>6, <1>7, <1>8, <1>9, <2>5, <2>7, <2>8 DEF MailInv, HandlerInv, Grows
  <1>11. CASE pc'[w] = "idle" /\ cur'[w] = NoJob
    <2>1. Knows(w)' /\ Owns(w)'
      BY <1>4, <1>11 DEF Knows, Owns, Fresh
    <2>2. \A v \in Workers : Differs(v)'
      BY <1>5, <1>11 DEF MailInv, HandlerInv, Differs, Stays
    <2> QED
      BY <1>4, <1>6, <1>7, <1>8, <1>9, <2>1, <2>2 DEF MailInv, HandlerInv, Grows
  <1>12. CASE /\ pc[w] = "claimed" /\ pc'[w] = "handling"
              /\ cur'[w] = cur[w] /\ attemptNo'[w] = attemptNo[w]
    <2>1. mail[w] = Fresh /\ mail'[w] = Fresh
      BY <1>4, <1>12 DEF MailInv, HandlerInv, Knows
    <2>2. /\ cur[w] \in Jobs /\ status'[cur[w]] # "absent" /\ event'[cur[w]] # "none"
          /\ attemptNo[w] \in 1..attempts'[cur[w]]
      <3>1. /\ cur[w] \in Jobs /\ status[cur[w]] # "absent" /\ event[cur[w]] # "none"
            /\ attemptNo[w] \in 1..attempts[cur[w]]
        BY <1>12 DEF MailInv, HandlerInv, Knows
      <3>2. attempts[cur[w]] \in Nat /\ attempts'[cur[w]] \in Nat
        BY <1>1, <3>1 DEF TypeOK, QueueTypeOK
      <3> QED
        BY <1>6, <3>1, <3>2 DEF Grows, LedgerGrows, RowsGrow
    <2>3. Knows(w)'
      BY <1>12, <2>1, <2>2 DEF Knows, Fresh
    <2>4. Owns(w)'
      BY <1>7, <1>12, <2>1 DEF MailInv, HandlerInv, Owns, Fresh
    <2>5. \A v \in Workers : Differs(v)'
      BY <1>5, <1>12 DEF MailInv, HandlerInv, Differs, Stays
    <2> QED
      BY <1>4, <1>6, <1>7, <1>8, <1>9, <2>3, <2>4, <2>5 DEF MailInv, HandlerInv, Grows
  <1>13. CASE pc'[w] # "idle" /\ pc'[w] = pc[w] /\ cur'[w] = cur[w] /\ attemptNo'[w] = attemptNo[w]
    <2>1. Stays(w)
      BY <1>4, <1>13 DEF Stays
    <2>2. Knows(w)'
      BY <1>1, <1>6, <2>1, KnowsKept DEF MailInv, HandlerInv
    <2>3. Owns(w)'
      BY <1>7, <2>1 DEF MailInv, HandlerInv, Owns, Request, Stays
    <2>4. \A v \in Workers : Differs(v)'
      BY <1>5, <2>1 DEF MailInv, HandlerInv, Differs, Stays
    <2> QED
      BY <1>4, <1>6, <1>7, <1>8, <1>9, <2>2, <2>3, <2>4 DEF MailInv, HandlerInv, Grows
  <1>14. pc'[w] = "idle" => cur'[w] = NoJob
    BY DEF IInv, IdleHasNoJob
  <1> QED
    BY <1>1, <1>10, <1>11, <1>12, <1>13, <1>14, RunOnceMoves

LEMMA HandlerFrame ==
  ASSUME TypeOK, MailTypeOK, NEW w \in Workers, EmailHandler(w)
  PROVE  /\ UNCHANGED <<queueVars, cur, attemptNo, mailbox, target, reserved>>
         /\ pc[w] = "handling"
         /\ \A v \in Workers \ {w} : Stays(v)
         /\ Written' = Written \/ (Posts(w) /\ Written' = Written \cup {Request(w)})
         /\ UNCHANGED userVars \/ Finalizes(w)
  <1> USE DEF TypeOK, MailTypeOK, Stays, Written
  <1>1. CASE FetchQueued(w) \/ Prepares(w) \/ CannotPrepare(w) \/ Confirmed200(w)
             \/ Uncertain(w) \/ Rejected(w)
    BY <1>1 DEF FetchQueued, Prepares, CannotPrepare, Confirmed200, Uncertain, Rejected, Refused,
                Handling, GoesTo, HandlerLeaves, workerVars, userVars, ledger
  <1>2. CASE Posts(w)
    BY <1>2 DEF Posts, Handling, GoesTo, HandlerLeaves, workerVars, userVars, ledger
  <1>3. CASE FetchOther(w)
    BY <1>3 DEF FetchOther, Handling, HandlerReturns, userVars, ledger
  <1>4. CASE RaisesEarly(w) \/ RateLimited(w)
    BY <1>4 DEF RaisesEarly, RateLimited, HandlerRaises, userVars, ledger, mailVars
  <1>5. CASE Finalizes(w)
    BY <1>5 DEF Finalizes, Handling, HandlerReturns
  <1> QED
    BY <1>1, <1>2, <1>3, <1>4, <1>5 DEF EmailHandler

\* finalize_application_send is called with a key the handler knows.
LEMMA HandlerLedger ==
  ASSUME LedgerInv, MailInv, NEW w \in Workers, UNCHANGED userVars \/ Finalizes(w),
         mailbox' = mailbox, RowsGrow
  PROVE  LedgerInv' /\ LedgerGrows /\ SentIsMailed'
  <1>1. CASE UNCHANGED userVars
    <2>1. LedgerInv' /\ LedgerGrows
      BY <1>1, LedgerUnchanged
    <2> QED
      BY <1>1, <2>1, SentKept DEF Grows, userVars, appVars, ledger
  <1>2. CASE Finalizes(w) /\ ~UNCHANGED userVars
    <2> DEFINE k == mail[w].key
               outcome == mail[w].result
    <2>1. pc[w] = "handling" /\ mail[w].at = "finalize"
      BY <1>2 DEF Finalizes, Handling
    <2>2. k \in Jobs /\ outcome \in Settled /\ (outcome = "sent" => Mailed(k))
      BY <2>1 DEF MailInv, HandlerInv, Knows
    <2>3. /\ Settle(k, outcome)
          /\ UNCHANGED <<revision, approvedRev, sendKey, target, reserved, gmail>>
      BY <1>2 DEF Finalizes, userVars, appVars, ledger
    <2>4. LedgerInv' /\ LedgerGrows
      BY <2>2, <2>3, SettleStep
    <2>5. event[k] = "pending_provider"
      BY <1>2, <2>3 DEF Settle, userVars, appVars, ledger
    <2>6. CASE outcome # "sent"
      <3>1. /\ \A l \in Jobs : event'[l] = "sent" => event[l] = "sent"
            /\ \A a \in Applications : appStatus'[a] = "sent" => appStatus[a] = "sent"
        BY <2>3, <2>5, <2>6 DEF Settle, LedgerInv, LedgerTypeOK
      <3> QED
        BY <2>4, <3>1, SentKept DEF Grows
    <2>7. CASE outcome = "sent"
      <3>1. Mailed(k) /\ MailedTo(target[k])
        BY <2>2, <2>7 DEF Mailed, MailedTo
      <3>2. /\ \A l \in Jobs \ {k} : event'[l] = event[l]
            /\ \A a \in Applications : a # target[k] => appStatus'[a] = appStatus[a]
        BY <2>3, <2>5 DEF Settle, LedgerInv, LedgerTypeOK
      <3>3. UNCHANGED <<target, mailbox>>
        BY <2>3
      <3> HIDE DEF k
      <3> QED
        BY <2>4, <3>1, <3>2, <3>3 DEF MailInv, SentIsMailed, Mailed, MailedTo
    <2> QED
      BY <2>4, <2>6, <2>7
  <1> QED
    BY <1>1, <1>2

\* What the worker knows after its own step, and what it has posted.
LEMMA HandlerOwn ==
  ASSUME IInv, IInv', LedgerInv, LedgerGrows, MailInv, NEW w \in Workers, EmailHandler(w)
  PROVE  Knows(w)' /\ Owns(w)' /\ mail' \in [Workers -> MailRecords]
  <1>1. /\ UNCHANGED <<queueVars, cur, attemptNo, mailbox, target, reserved>>
        /\ pc[w] = "handling"
        /\ Written' = Written \/ (Posts(w) /\ Written' = Written \cup {Request(w)})
    BY HandlerFrame DEF IInv, MailInv
  <1>2. /\ cur[w] \in Jobs /\ event[cur[w]] # "none" /\ attemptNo[w] \in 1..attempts[cur[w]]
        /\ status[cur[w]] # "absent"
    BY <1>1 DEF MailInv, HandlerInv, Knows
  <1>3. /\ cur'[w] \in Jobs /\ event'[cur'[w]] # "none"
        /\ attemptNo'[w] \in 1..attempts'[cur'[w]] /\ status'[cur'[w]] # "absent"
        /\ target'[cur'[w]] = target[cur[w]]
    BY <1>1, <1>2 DEF LedgerGrows, queueVars
  <1>4. /\ mail \in [Workers -> MailRecords] /\ mail[w] \in MailRecords
        /\ pc \in [Workers -> Steps]
    BY DEF MailInv, MailTypeOK, IInv, TypeOK
  <1>5. mail[w].at # "fetch" =>
          /\ mail[w].key \in Jobs /\ event'[mail[w].key] # "none"
          /\ target'[mail[w].key] = target'[cur'[w]]
          /\ mail[w].content = reserved'[mail[w].key] /\ mail[w].content # 0
    BY <1>1 DEF MailInv, HandlerInv, Knows, LedgerGrows
  <1>6. ASSUME mail[w].at \in {"fetch", "prepare", "post"}
        PROVE  ~ \E r \in Written : r.job = cur[w] /\ r.attempt = attemptNo[w]
    BY <1>1, <1>6 DEF MailInv, HandlerInv, Owns
  <1>7. CASE FetchQueued(w)
    <2> DEFINE a == target[cur[w]]
    <2>1. /\ mail[w].at = "fetch" /\ appStatus[a] = "queued"
          /\ mail' = [mail EXCEPT ![w] = [at |-> "prepare", key |-> sendKey[a],
                                          content |-> revision[a], result |-> "none"]]
          /\ UNCHANGED <<pc, event>> /\ Written' = Written
      BY <1>7 DEF FetchQueued, Handling, HandlerLeaves, workerVars, userVars, ledger, Written
    <2>2. a \in Applications
      BY <1>2 DEF LedgerInv, KeysAreOwned
    <2>3. sendKey[a] \in Jobs /\ event[sendKey[a]] = "pending_provider"
      BY <2>1, <2>2 DEF LedgerInv, LedgerTypeOK, PendingIffQueued
    <2>4. target[sendKey[a]] = a /\ reserved[sendKey[a]] = revision[a]
          /\ revision[a] \in 1..MaxRevision
      BY <2>1, <2>2, <2>3 DEF LedgerInv, LedgerTypeOK, KeysAreOwned
    <2> HIDE DEF a
    <2>5. /\ mail'[w] = [at |-> "prepare", key |-> sendKey[a],
                         content |-> revision[a], result |-> "none"]
          /\ mail' \in [Workers -> MailRecords]
      BY <1>4, <2>1, <2>3, <2>4 DEF MailRecords
    <2>6. Knows(w)'
      <3>1. a = target'[cur'[w]]
        BY <1>1 DEF a
      <3> QED
        BY <1>1, <1>3, <2>1, <2>3, <2>4, <2>5, <3>1 DEF Knows
    <2>7. Owns(w)'
      BY <1>1, <1>6, <2>1 DEF Owns
    <2> QED
      BY <2>5, <2>6, <2>7
  <1>8. CASE FetchOther(w)
    <2> DEFINE a == target[cur[w]]
               result == IF appStatus[a] = "sent" THEN "succeeded" ELSE "needs_attention"
    <2>1. /\ mail[w].at = "fetch" /\ pc'[w] = "completing"
          /\ mail' = [mail EXCEPT ![w].result = result]
      BY <1>4, <1>8 DEF FetchOther, Handling, HandlerReturns
    <2>2. result = "succeeded" => MailedTo(a)
      BY <1>2 DEF LedgerInv, KeysAreOwned, MailInv, SentIsMailed
    <2>3. result \in {"succeeded", "needs_attention"}
      OBVIOUS
    <2>4. MailedTo(a) => MailedTo(target[cur[w]])'
      BY <1>1 DEF MailedTo
    <2> HIDE DEF result
    <2>5. /\ mail'[w].at = "fetch" /\ mail'[w].result = result
          /\ mail' \in [Workers -> MailRecords]
      BY <1>4, <2>1, <2>3 DEF MailRecords
    <2>6. Knows(w)'
      BY <1>3, <2>1, <2>2, <2>3, <2>4, <2>5 DEF Knows
    <2>7. Owns(w)'
      BY <1>1, <1>6, <1>8, <2>1, <2>5 DEF Owns, FetchOther, Written
    <2> QED
      BY <2>5, <2>6, <2>7
  <1>9. ASSUME NEW at \in {"post", "wait", "finalize"}, NEW result \in {"none"} \cup Settled,
               GoesTo(w, at, result), pc' = pc, mail[w].at # "fetch",
               at = "finalize" => result \in Settled,
               result = "sent" => Mailed(mail[w].key),
               at = "post" => mail[w].at = "prepare",
               at = "wait" => mail[w].at = "post" /\ Written' \subseteq Written \cup {Request(w)},
               at # "wait" => Written' = Written
        PROVE  Knows(w)' /\ Owns(w)' /\ mail' \in [Workers -> MailRecords]
    <2>1. /\ mail'[w].at = at /\ mail'[w].result = result
          /\ mail'[w].key = mail[w].key /\ mail'[w].content = mail[w].content
          /\ mail' \in [Workers -> MailRecords]
      BY <1>4, <1>9 DEF GoesTo, MailRecords
    <2>2. result = "sent" => Mailed(mail[w].key)'
      BY <1>1, <1>9, <2>1 DEF Mailed
    <2>3. Knows(w)'
      BY <1>1, <1>3, <1>5, <1>9, <2>1, <2>2 DEF Knows
    <2>4. Owns(w)'
      <3>1. Request(w)' = Request(w)
        BY <1>1, <2>1 DEF Request
      <3> QED
        BY <1>1, <1>6, <1>9, <2>1, <3>1 DEF Owns
    <2> QED
      BY <2>1, <2>3, <2>4
  <1>10. CASE Prepares(w) \/ CannotPrepare(w) \/ Posts(w)
    BY <1>9, <1>10 DEF Prepares, CannotPrepare, Posts, Handling, HandlerLeaves, workerVars, Written
  <1>11. CASE Confirmed200(w)
    <2>1. Mailed(mail[w].key)
      BY <1>11 DEF Confirmed200, Mailed, Request
    <2> QED
      BY <1>9, <1>11, <2>1 DEF Confirmed200, Handling, HandlerLeaves, workerVars, Written
  <1>12. CASE Uncertain(w) \/ Rejected(w)
    BY <1>9, <1>12 DEF Uncertain, Rejected, Refused, Handling, HandlerLeaves, workerVars, Written
  <1>13. CASE RaisesEarly(w) \/ RateLimited(w)
    <2>1. /\ pc'[w] = "failing" /\ mail' = mail /\ Written' = Written
          /\ mail[w].at # "finalize"
      BY <1>4, <1>13
      DEF RaisesEarly, RateLimited, Refused, Handling, HandlerRaises, mailVars, Written
    <2>2. ~ \E r \in Written : r.job = cur[w] /\ r.attempt = attemptNo[w]
      <3>1. CASE RaisesEarly(w)
        BY <3>1, <1>6 DEF RaisesEarly
      <3>2. CASE RateLimited(w)
        BY <3>2, <1>1 DEF RateLimited, Refused, Handling, MailInv, HandlerInv, Owns, Written
      <3> QED
        BY <1>13, <3>1, <3>2
    <2>3. Knows(w)'
      <3>1. mail[w].result = "sent" => Mailed(mail[w].key)'
        BY <1>1, <2>1 DEF MailInv, HandlerInv, Knows, Mailed
      <3>2. mail[w].result = "succeeded" => MailedTo(target[cur[w]])'
        BY <1>1 DEF MailInv, HandlerInv, Knows, MailedTo
      <3> QED
        BY <1>3, <1>5, <2>1, <3>1, <3>2 DEF Knows
    <2>4. Owns(w)'
      BY <1>1, <2>1, <2>2 DEF Owns
    <2> QED
      BY <1>4, <2>1, <2>3, <2>4
  <1>14. CASE Finalizes(w)
    <2>1. /\ mail[w].at = "finalize" /\ pc'[w] = "completing" /\ Written' = Written
      BY <1>4, <1>14 DEF Finalizes, Handling, HandlerReturns, Written
    <2>2. PICK result \in {"succeeded", "needs_attention"} :
              /\ mail' = [mail EXCEPT ![w].result = result]
              /\ result = "succeeded" => mail[w].result = "sent"
      BY <1>4, <1>14 DEF Finalizes
    <2>3. /\ mail'[w].at = "finalize" /\ mail'[w].result = result
          /\ mail'[w].key = mail[w].key /\ mail'[w].content = mail[w].content
          /\ mail' \in [Workers -> MailRecords]
      BY <1>4, <2>1, <2>2 DEF MailRecords
    <2>4. result = "succeeded" => MailedTo(target[cur[w]])'
      BY <1>1, <1>5, <2>1, <2>2 DEF MailInv, HandlerInv, Knows, Mailed, MailedTo
    <2>5. Knows(w)'
      BY <1>3, <1>5, <2>1, <2>3, <2>4 DEF Knows
    <2>6. Owns(w)'
      BY <2>1, <2>3 DEF Owns
    <2> QED
      BY <2>3, <2>5, <2>6
  <1> QED
    BY <1>7, <1>8, <1>10, <1>11, <1>12, <1>13, <1>14 DEF EmailHandler

LEMMA HandlerKeeps ==
  ASSUME IInv, IInv', LedgerInv, MailInv, NEW w \in Workers, EmailHandler(w)
  PROVE  LedgerInv' /\ LedgerGrows /\ MailInv'
  <1>1. TypeOK /\ TypeOK' /\ QueueInv /\ MailTypeOK
    BY DEF IInv, MailInv
  <1>2. /\ UNCHANGED <<queueVars, cur, attemptNo, mailbox, target, reserved>>
        /\ pc[w] = "handling"
        /\ \A v \in Workers \ {w} : Stays(v)
        /\ Written' = Written \/ (Posts(w) /\ Written' = Written \cup {Request(w)})
        /\ UNCHANGED userVars \/ Finalizes(w)
    BY <1>1, HandlerFrame
  <1>3. RowsGrow /\ NoneJoins
    BY <1>1, <1>2, OtherRows
  <1>4. LedgerInv' /\ LedgerGrows /\ SentIsMailed' /\ Grows
    BY <1>2, <1>3, HandlerLedger DEF Grows
  <1>5. Knows(w)' /\ Owns(w)' /\ mail' \in [Workers -> MailRecords]
    BY <1>4, HandlerOwn
  <1>6. RowsAreReserved'
    BY <1>3, <1>4, RowsKept
  <1>7. \A v \in Workers : Differs(v)'
    BY <1>2 DEF MailInv, HandlerInv, Differs
  <1>8. ASSUME NEW v \in Workers \ {w}
        PROVE  Knows(v)' /\ Owns(v)'
    <2>1. Knows(v)'
      BY <1>1, <1>2, <1>4, KnowsKept DEF MailInv, HandlerInv
    <2>2. /\ pc'[v] = pc[v] /\ cur'[v] = cur[v] /\ attemptNo'[v] = attemptNo[v]
          /\ mail'[v] = mail[v] /\ Request(v)' = Request(v)
      BY <1>2 DEF Stays, Request
    <2>3. ASSUME pc[v] # "idle"
          PROVE  ~(Request(w).job = cur[v] /\ Request(w).attempt = attemptNo[v])
      <3>1. cur[v] # NoJob
        BY <2>3 DEF MailInv, HandlerInv, Knows
      <3> QED
        BY <3>1 DEF Request, MailInv, HandlerInv, Differs
    <2>4. Owns(v)'
      BY <1>2, <2>2, <2>3 DEF MailInv, HandlerInv, Owns
    <2> QED
      BY <2>1, <2>4
  <1>9. Posts(w) => /\ Request(w) \in Requests /\ mail[w].at # "fetch"
    <2> SUFFICES ASSUME Posts(w)
                 PROVE  Request(w) \in Requests /\ mail[w].at # "fetch"
      OBVIOUS
    <2>1. mail[w].at = "post"
      BY DEF Posts, Handling
    <2>2. mail[w].key \in Jobs /\ mail[w].content \in 1..MaxRevision
      <3>1. mail[w] \in MailRecords
        BY <1>1 DEF MailTypeOK
      <3> QED
        BY <2>1, <3>1 DEF MailInv, HandlerInv, Knows, MailRecords
    <2>3. cur[w] \in Jobs /\ attemptNo[w] \in 1..MaxAttempts
      <3>1. cur[w] \in Jobs /\ attemptNo[w] \in 1..attempts[cur[w]]
        BY <1>2 DEF MailInv, HandlerInv, Knows
      <3>2. attempts[cur[w]] \in 0..MaxAttempts
        BY <1>1, <3>1 DEF TypeOK, QueueTypeOK
      <3> QED
        BY <3>1, <3>2, QueueAssumption
    <2> QED
      BY <2>1, <2>2, <2>3 DEF Request, Requests
  <1>10. RequestsAreReserved'
    <2>1. \A r \in Written : /\ event'[r.key] # "none" /\ r.content = reserved'[r.key]
                            /\ status'[r.job] # "absent" /\ r.attempt <= attempts'[r.job]
      BY <1>1, <1>4, RequestsKept DEF MailInv
    <2>2. ASSUME Posts(w), NEW r, r = Request(w)
          PROVE  /\ event'[r.key] # "none" /\ r.content = reserved'[r.key]
                 /\ status'[r.job] # "absent" /\ r.attempt <= attempts'[r.job]
      <3>1. r.job = cur[w] /\ r.attempt = attemptNo[w] /\ r.key = mail[w].key
            /\ r.content = mail[w].content
        BY <2>2 DEF Request
      <3>2. /\ mail[w].key \in Jobs /\ event[mail[w].key] # "none"
            /\ mail[w].content = reserved[mail[w].key]
        BY <1>9, <2>2 DEF MailInv, HandlerInv, Knows
      <3>3. /\ cur[w] \in Jobs /\ status[cur[w]] # "absent"
            /\ attemptNo[w] \in 1..attempts[cur[w]] /\ attempts[cur[w]] \in Nat
        BY <1>1, <1>2 DEF MailInv, HandlerInv, Knows, TypeOK, QueueTypeOK
      <3> QED
        BY <1>2, <1>4, <3>1, <3>2, <3>3 DEF LedgerGrows, queueVars
    <2> QED
      BY <1>2, <2>1, <2>2 DEF RequestsAreReserved
  <1>11. wire' \subseteq Requests /\ mailbox' \subseteq Requests
    BY <1>1, <1>2, <1>9 DEF MailTypeOK, Written
  <1> QED
    BY <1>4, <1>5, <1>6, <1>7, <1>8, <1>10, <1>11 DEF MailInv, MailTypeOK, HandlerInv

-----------------------------------------------------------------------------
(* The theorems *)

EmailInv == IInv /\ LedgerInv /\ MailInv /\ lapsed \in BOOLEAN

\* A lease that has run out stays on record.
LEMMA LapsedForGood ==
  ASSUME [EmailNext]_emailVars
  PROVE  lapsed' = lapsed \/ lapsed' = TRUE
  <1>1. CASE UserStep
    BY <1>1 DEF UserStep, EditContent, MoveStatus, Reconcile, Approve, EnqueueSend, CancelSend,
                BeginChange, SaveConnection, FinishDisconnect, GmailBecomes, UserLeaves
  <1>2. CASE \E w \in Workers : EmailHandler(w)
    BY <1>2 DEF EmailHandler, FetchQueued, FetchOther, Prepares, CannotPrepare, RaisesEarly, Posts,
                Confirmed200, Uncertain, Rejected, RateLimited, Finalizes, HandlerLeaves, mailVars
  <1>3. CASE \/ \E w \in Workers : RunOnce(w)
             \/ \E r \in wire : GmailAccepts(r) \/ GmailRefuses(r)
             \/ \E j \in Jobs : LeaseLapses(j) \/ SendBecomesDue(j)
             \/ UNCHANGED emailVars
    BY <1>3 DEF RunOnce, GmailAccepts, GmailRefuses, LeaseLapses, SendBecomesDue, emailVars
  <1> QED
    BY <1>1, <1>2, <1>3 DEF EmailNext

LEMMA EmailStep ==
  ASSUME EmailInv, IInv', [EmailNext]_emailVars
  PROVE  EmailInv' /\ LedgerGrows
  <1>0. lapsed' \in BOOLEAN
    BY LapsedForGood DEF EmailInv
  <1>1. CASE UserStep
    BY <1>0, <1>1, UserKeeps DEF EmailInv
  <1>2. CASE \E w \in Workers : EmailHandler(w)
    BY <1>0, <1>2, HandlerKeeps DEF EmailInv
  <1>3. CASE \E w \in Workers : RunOnce(w)
    BY <1>0, <1>3, RunOnceKeeps DEF EmailInv
  <1>4. CASE \/ \E r \in wire : GmailAccepts(r) \/ GmailRefuses(r)
             \/ \E j \in Jobs : LeaseLapses(j) \/ SendBecomesDue(j)
             \/ UNCHANGED emailVars
    BY <1>0, <1>4, GmailAndClockKeep DEF EmailInv
  <1> QED
    BY <1>1, <1>2, <1>3, <1>4 DEF EmailNext

LEMMA EmailInvHolds == EmailSpec => []EmailInv /\ [][EmailNext]_emailVars
  <1>1. EmailInit /\ IInv => EmailInv
    BY LedgerInit, MailInit DEF EmailInv, EmailInit
  <1>2. EmailInv /\ IInv' /\ [EmailNext]_emailVars => EmailInv'
    BY EmailStep
  <1> QED
    BY <1>1, <1>2, LoopHolds, PTL DEF EmailSpec

\* Every variable of e-mail delivery keeps its type.
THEOREM EmailTypeCorrect == EmailSpec => []EmailTypeOK
  <1>1. EmailInv => EmailTypeOK
    BY DEF EmailInv, IInv, LedgerInv, LedgerTypeOK, MailInv, MailTypeOK, MailRecords, EmailTypeOK
  <1> QED
    BY <1>1, EmailInvHolds, PTL

\* Whatever Gmail gets, from whichever attempt and however late, has the content
\* the user had approved when the send was reserved.
THEOREM ApprovedContent == EmailSpec => []OnlyApprovedContentIsMailed
  <1>1. EmailInv => OnlyApprovedContentIsMailed
    BY DEF EmailInv, MailInv, RequestsAreReserved, Written, OnlyApprovedContentIsMailed
  <1> QED
    BY <1>1, EmailInvHolds, PTL

\* An application is queued exactly while its newest reservation is pending, the
\* ledger never counts two sends to one recipient in a window, and the connection
\* stays while a reservation is pending.
THEOREM LedgerAgrees == EmailSpec => []LedgerIsConsistent
  <1>1. EmailInv => LedgerIsConsistent
    BY DEF EmailInv, LedgerInv, LedgerIsConsistent
  <1> QED
    BY <1>1, EmailInvHolds, PTL

\* Nothing is reported as sent that Gmail has not accepted, in the ledger or in
\* the queue.
THEOREM SentIsReal == EmailSpec => []SuccessIsReal
  <1>1. EmailInv => SuccessIsReal
    BY DEF EmailInv, MailInv, SentIsMailed, RowsAreReserved, Mailed, MailedTo, SuccessIsReal
  <1> QED
    BY <1>1, EmailInvHolds, PTL

\* A handler that asks for a retry has put nothing on the wire in its attempt.
THEOREM RetriesAreClean == EmailSpec => []NoRetryAfterDispatch
  <1>1. ASSUME EmailInv, NEW w \in Workers, pc[w] = "failing"
        PROVE  \A r \in wire \cup mailbox : <<r.job, r.attempt>> # <<cur[w], attemptNo[w]>>
    BY <1>1 DEF EmailInv, MailInv, HandlerInv, Owns, Written
  <1>2. EmailInv => NoRetryAfterDispatch
    BY <1>1 DEF NoRetryAfterDispatch
  <1> QED
    BY <1>2, EmailInvHolds, PTL

\* How a step changes the ledger: it reserves a key, settles one, or changes
\* neither the outcomes nor who is connected while something is pending.
LEMMA LedgerMoves ==
  ASSUME EmailInv, [EmailNext]_emailVars
  PROVE  \/ UNCHANGED <<event, gmail>>
         \/ \E a \in Applications, j \in Jobs : Reserve(a, j)
         \/ /\ UNCHANGED gmail
            /\ \E k \in Jobs, outcome \in Settled : Settle(k, outcome)
         \/ UNCHANGED event /\ (BeginChange \/ SaveConnection \/ FinishDisconnect)
  <1>1. CASE UserStep
    <2>1. CASE \E a \in Applications :
                  \/ EditContent(a) \/ MoveStatus(a)
                  \/ \E r \in 1..MaxRevision : Approve(a, r)
      BY <2>1 DEF EditContent, MoveStatus, Approve, ledger
    <2>2. CASE \E a \in Applications : Reconcile(a)
      <3>1. PICK a \in Applications : Reconcile(a)
        BY <2>2
      <3>2. sendKey[a] \in Jobs
        BY <3>1 DEF Reconcile, EmailInv, LedgerInv, LedgerTypeOK
      <3> QED
        BY <3>1, <3>2 DEF Reconcile
    <2>3. CASE \E a \in Applications, j \in Jobs : EnqueueSend(a, j)
      BY <2>3 DEF EnqueueSend
    <2>4. CASE \E j \in Jobs : CancelSend(j)
      BY <2>4 DEF CancelSend, userVars, ledger
    <2>5. CASE BeginChange \/ SaveConnection \/ FinishDisconnect
      BY <2>5 DEF BeginChange, SaveConnection, FinishDisconnect, GmailBecomes, ledger
    <2> QED
      BY <1>1, <2>1, <2>2, <2>3, <2>4, <2>5 DEF UserStep
  <1>2. CASE \E w \in Workers : EmailHandler(w)
    <2>1. PICK w \in Workers : EmailHandler(w)
      BY <1>2
    <2>2. UNCHANGED userVars \/ Finalizes(w)
      BY <2>1, HandlerFrame DEF EmailInv, IInv, MailInv
    <2>3. CASE UNCHANGED userVars
      BY <2>3 DEF userVars, ledger
    <2>4. CASE Finalizes(w)
      <3>1. /\ pc[w] = "handling" /\ mail[w].at = "finalize" /\ UNCHANGED gmail
            /\ Settle(mail[w].key, mail[w].result) \/ UNCHANGED event
        BY <2>4 DEF Finalizes, Handling
      <3>2. mail[w].key \in Jobs /\ mail[w].result \in Settled
        BY <3>1 DEF EmailInv, MailInv, HandlerInv, Knows
      <3> QED
        BY <3>1, <3>2
    <2> QED
      BY <2>2, <2>3, <2>4
  <1>3. CASE \/ \E w \in Workers : RunOnce(w)
             \/ \E r \in wire : GmailAccepts(r) \/ GmailRefuses(r)
             \/ \E j \in Jobs : LeaseLapses(j) \/ SendBecomesDue(j)
             \/ UNCHANGED emailVars
    BY <1>3 DEF RunOnce, GmailAccepts, GmailRefuses, LeaseLapses, SendBecomesDue, emailVars,
                userVars, ledger
  <1> QED
    BY <1>1, <1>2, <1>3 DEF EmailNext

\* A settled reservation keeps its outcome: a late finalize and a reconciliation
\* do not overwrite each other.
THEOREM SettledStay == EmailSpec => SettledStaysSettled
  <1>1. ASSUME EmailInv, [EmailNext]_emailVars
        PROVE  \A k \in Jobs : event[k] \in Settled => event'[k] = event[k]
    BY <1>1, LedgerMoves DEF Reserve, Settle, EmailInv, LedgerInv, LedgerTypeOK
  <1>2. EmailInv /\ [EmailNext]_emailVars =>
           [\A k \in Jobs : event[k] \in Settled => event'[k] = event[k]]_emailVars
    BY <1>1
  <1> QED
    BY <1>2, EmailInvHolds, PTL DEF SettledStaysSettled

\* The ledger keeps the connection's promise: a send is reserved for a connected
\* account only, and nothing starts, saves or ends a connection while one is pending.
THEOREM EmailImplementsConnection == EmailSpec => ImplementsConnection
  <1>1. EmailInit => Connection!Init
    BY DEF EmailInit, Connection!Init, NothingPending
  <1>2. ASSUME EmailInv, [EmailNext]_emailVars
        PROVE  [Connection!Next]_<<gmail, ~NothingPending>>
    <2>1. CASE UNCHANGED <<event, gmail>>
      BY <2>1 DEF NothingPending
    <2>2. CASE \E a \in Applications, j \in Jobs : Reserve(a, j)
      <3>1. gmail = "connected" /\ gmail' = gmail /\ ~NothingPending'
        BY <1>2, <2>2 DEF Reserve, EmailInv, LedgerInv, LedgerTypeOK, NothingPending
      <3> QED
        BY <3>1 DEF Connection!Next, Connection!Reserve
    <2>3. CASE /\ UNCHANGED gmail
               /\ \E k \in Jobs, outcome \in Settled : Settle(k, outcome)
      <3>1. NothingPending => NothingPending'
        BY <1>2, <2>3 DEF Settle, NothingPending, EmailInv, LedgerInv, LedgerTypeOK
      <3> QED
        BY <2>3, <3>1 DEF Connection!Next, Connection!Settle
    <2>4. CASE UNCHANGED event /\ (BeginChange \/ SaveConnection \/ FinishDisconnect)
      <3>1. NothingPending' = NothingPending
        BY <2>4 DEF NothingPending
      <3>2. CASE BeginChange
        BY <3>1, <3>2 DEF BeginChange, GmailBecomes, Connection!Next, Connection!Begin
      <3>3. CASE SaveConnection
        BY <3>1, <3>3 DEF SaveConnection, GmailBecomes, Connection!Next, Connection!Save
      <3>4. CASE FinishDisconnect
        BY <3>1, <3>4 DEF FinishDisconnect, GmailBecomes, Connection!Next, Connection!End
      <3> QED
        BY <2>4, <3>2, <3>3, <3>4
    <2> QED
      BY <1>2, <2>1, <2>2, <2>3, <2>4, LedgerMoves
  <1>3. EmailInv /\ [EmailNext]_emailVars => [Connection!Next]_(Connection!vars)
    BY <1>2 DEF Connection!vars
  <1> QED
    BY <1>1, <1>3, EmailInvHolds, PTL DEF ImplementsConnection, Connection!Spec, EmailSpec

-----------------------------------------------------------------------------
(* While no lease has run out *)

LeasesLive == \A j \in Jobs : status[j] = "running" => lease[j] = "live"

\* A row whose reservation was given up is never claimed again.
FailedIsOver == \A j \in Jobs : event[j] = "failed" => status[j] # "queued"

\* The row of a worker is its own, in the queue and among the workers, and so is
\* the key it sends under.
RowInHand(w) ==
    cur[w] # NoJob =>
        /\ status[cur[w]] \notin {"absent", "queued"}
        /\ status[cur[w]] = "running" => lockedBy[cur[w]] = w
        /\ \A v \in Workers : cur[v] = cur[w] => v = w
        /\ event[cur[w]] = "failed" => pc[w] = "completing"
        /\ mail[w].at # "fetch" => mail[w].key = cur[w]

\* A request is the only one of its row, was written under the row's own key,
\* and neither its row nor its key is tried again.
OnlyRequest(r) ==
    /\ r.key = r.job /\ event[r.key] # "failed" /\ status[r.job] # "queued"
    /\ \A w \in Workers : cur[w] = r.job => r = Request(w) /\ mail[w].result # "failed"
    /\ \A q \in Written : q.job = r.job => q = r

OnceInv ==
    /\ LeasesLive /\ FailedIsOver
    /\ \A w \in Workers : RowInHand(w)
    /\ \A r \in Written : OnlyRequest(r)

\* A row that keeps its lock, or ends.
Kept(j) ==
    \/ status'[j] \in Terminal
    \/ status'[j] = status[j] /\ lease'[j] = lease[j] /\ lockedBy'[j] = lockedBy[j]

LEMMA OnceInit == EmailInit => OnceInv
  <1> SUFFICES ASSUME EmailInit PROVE OnceInv
    OBVIOUS
  <1>1. /\ Written = {} /\ \A w \in Workers : cur[w] = NoJob
        /\ \A j \in Jobs : status[j] = "absent" /\ event[j] = "none"
    BY DEF EmailInit, Init, QueueInit, Written
  <1> QED
    BY <1>1 DEF OnceInv, LeasesLive, FailedIsOver, RowInHand

\* With every lease live, the sweeps of a claim find nothing.
LEMMA SweepsNothing ==
  ASSUME QueueInv, LeasesLive, NEW w \in Workers,
         NEW taken \in SUBSET Claimable(Stale, Confirmed),
         SweepAndTake(w, taken, Stale, Confirmed)
  PROVE  /\ \A j \in Jobs \ taken : Kept(j)
         /\ \A j \in taken : /\ j \in Jobs /\ status[j] = "queued"
                             /\ status'[j] = "running" /\ lease'[j] = "live"
                             /\ lockedBy'[j] = w
  <1>0. Stale \in SUBSET SubmitJobs /\ Confirmed \in SUBSET SubmitJobs
    BY StaleSets
  <1>1. /\ Exhausted(Stale, Confirmed) = {} /\ Requeued(Stale, Confirmed) = {}
    <2>1. \A j \in Exhausted(Stale, Confirmed) \cup Requeued(Stale, Confirmed) :
              j \in Jobs /\ status[j] = "running" /\ lease[j] = "expired"
      BY <1>0, SweptRows
    <2> QED
      BY <2>1 DEF LeasesLive
  <1>2. \A j \in Jobs \ taken : Kept(j)
    <2> SUFFICES ASSUME NEW j \in Jobs \ taken PROVE Kept(j)
      OBVIOUS
    <2>1. CASE j \in Withdrawn(Stale, Confirmed)
      <3>1. status'[j] = "cancelled"
        BY <1>1, <2>1 DEF SweepAndTake
      <3> QED
        BY <3>1 DEF Kept, Terminal
    <2>2. CASE j \notin Withdrawn(Stale, Confirmed)
      BY <2>2, <1>1 DEF SweepAndTake, Kept
    <2> QED
      BY <2>1, <2>2
  <1>3. ASSUME NEW j \in taken
        PROVE  /\ j \in Jobs /\ status[j] = "queued"
               /\ status'[j] = "running" /\ lease'[j] = "live" /\ lockedBy'[j] = w
    <2>1. j \in Jobs /\ j \in InLine
      BY <1>1 DEF Claimable, InLine
    <2>2. j \notin Withdrawn(Stale, Confirmed)
      BY <1>0, ClaimableRows
    <2>3. status'[j] = "running"
      BY <1>1, <2>1, <2>2 DEF SweepAndTake
    <2> QED
      BY <2>1, <2>3 DEF SweepAndTake, InLine
  <1> QED
    BY <1>2, <1>3

\* Any other queue step but an enqueue, a failed attempt and a lease that runs out.
LEMMA OthersKeep ==
  ASSUME QueueInv,
         \/ UNCHANGED queueVars
         \/ \E k \in Jobs :
             \/ CancelJob(k) \/ BecomeDue(k)
             \/ \E v \in Workers :
                 \/ HeartbeatCancels(v, k)
                 \/ \E t \in {"succeeded", "needs_attention"} : CompleteJob(v, k, t)
  PROVE  \A j \in Jobs : Kept(j)
  <1> USE DEF Kept, Terminal, QueueInv, QueueTypeOK
  <1>1. CASE UNCHANGED queueVars
    BY <1>1 DEF queueVars
  <1>2. CASE \E k \in Jobs : CancelJob(k) \/ BecomeDue(k)
    BY <1>2 DEF CancelJob, BecomeDue
  <1>3. CASE \E k \in Jobs, v \in Workers :
                 \/ HeartbeatCancels(v, k)
                 \/ \E t \in {"succeeded", "needs_attention"} : CompleteJob(v, k, t)
    BY <1>3 DEF HeartbeatCancels, CompleteJob, Unlock
  <1> QED
    BY <1>1, <1>2, <1>3

\* Users, Gmail and the rows that become due.
LEMMA OutsideOnce ==
  ASSUME EmailInv, OnceInv, UNCHANGED <<workerVars, mail>>, Written' \subseteq Written,
         \A j \in Jobs : \/ Kept(j)
                         \/ status[j] = "absent" /\ event[j] = "none" /\ status'[j] = "queued",
         \A j \in Jobs : event'[j] = "failed" => event[j] = "failed"
  PROVE  OnceInv'
  <1> USE DEF OnceInv, workerVars
  <1>1. LeasesLive'
    BY DEF LeasesLive, Kept, Terminal
  <1>2. FailedIsOver'
    <2> SUFFICES ASSUME NEW j \in Jobs, event'[j] = "failed"
                 PROVE  status'[j] # "queued"
      BY DEF FailedIsOver
    <2>1. status[j] \notin {"queued"} /\ event[j] = "failed"
      BY DEF FailedIsOver
    <2>2. CASE Kept(j)
      BY <2>1, <2>2 DEF Kept, Terminal
    <2>3. CASE event[j] = "none"
      BY <2>1, <2>3
    <2> QED
      BY <2>2, <2>3
  <1>3. ASSUME NEW w \in Workers
        PROVE  RowInHand(w)'
    <2> SUFFICES ASSUME cur[w] # NoJob
                 PROVE  RowInHand(w)'
      BY DEF RowInHand
    <2>1. cur[w] \in Jobs
      BY DEF EmailInv, IInv, TypeOK
    <2> QED
      BY <2>1 DEF RowInHand, Kept, Terminal
  <1>4. ASSUME NEW r \in Written
        PROVE  OnlyRequest(r)'
    <2>1. r.job \in Jobs /\ r.key \in Jobs /\ status[r.job] # "absent"
      BY DEF EmailInv, MailInv, MailTypeOK, Requests, RequestsAreReserved, Written
    <2>2. /\ r.key = r.job /\ event[r.key] # "failed" /\ status[r.job] # "queued"
          /\ \A w \in Workers : cur[w] = r.job => r = Request(w) /\ mail[w].result # "failed"
          /\ \A q \in Written : q.job = r.job => q = r
      BY DEF OnlyRequest
    <2>3. \A w \in Workers : Request(w)' = Request(w)
      BY DEF Request
    <2>4. status'[r.job] # "queued"
      BY <2>1, <2>2 DEF Kept, Terminal
    <2> QED
      BY <2>1, <2>2, <2>3, <2>4 DEF OnlyRequest
  <1> QED
    BY <1>1, <1>2, <1>3, <1>4

LEMMA UserOnce ==
  ASSUME EmailInv, OnceInv, UserStep
  PROVE  OnceInv'
  <1>0. QueueInv
    BY DEF EmailInv, IInv
  <1>1. UNCHANGED <<workerVars, mailVars>>
    <2>1. CASE UNCHANGED <<vars, mailVars>>
      BY <2>1 DEF vars
    <2>2. CASE \E a \in Applications, j \in Jobs : EnqueueSend(a, j)
      BY <2>2 DEF EnqueueSend
    <2>3. CASE \E j \in Jobs : CancelSend(j)
      BY <2>3 DEF CancelSend, UserCancels
    <2> QED
      BY <2>1, <2>2, <2>3
      DEF UserStep, EditContent, MoveStatus, Reconcile, Approve, BeginChange, SaveConnection,
          FinishDisconnect, GmailBecomes, UserLeaves
  <1>2. SUFFICES /\ \A j \in Jobs : \/ Kept(j)
                                    \/ status[j] = "absent" /\ event[j] = "none"
                                       /\ status'[j] = "queued"
                 /\ \A j \in Jobs : event'[j] = "failed" => event[j] = "failed"
    BY <1>1, <1>2, OutsideOnce DEF mailVars, Written
  <1>3. CASE UNCHANGED <<queueVars, event>>
    BY <1>0, <1>3, OthersKeep
  <1>4. CASE \E a \in Applications : Reconcile(a)
    <2>1. PICK a \in Applications : Reconcile(a)
      BY <1>4
    <2>2. UNCHANGED queueVars /\ Settle(sendKey[a], "needs_attention")
      BY <2>1 DEF Reconcile, UserLeaves, vars
    <2>3. \A j \in Jobs : event'[j] = "failed" => event[j] = "failed"
      BY <2>2 DEF Settle, EmailInv, LedgerInv, LedgerTypeOK
    <2> QED
      BY <1>0, <2>2, <2>3, OthersKeep
  <1>5. CASE \E a \in Applications, j \in Jobs : EnqueueSend(a, j)
    <2>1. PICK a \in Applications, j \in Jobs : EnqueueSend(a, j)
      BY <1>5
    <2>2. Reserve(a, j) /\ Enqueue(j, {})
      BY <2>1 DEF EnqueueSend
    <2>3. status[j] = "absent" /\ event[j] = "none" /\ status'[j] = "queued"
      BY <2>2 DEF Reserve, Enqueue
    <2>4. \A k \in Jobs \ {j} : Kept(k)
      BY <2>2 DEF Enqueue, Kept
    <2>5. \A k \in Jobs : event'[k] = "failed" => event[k] = "failed"
      BY <2>2 DEF Reserve, EmailInv, LedgerInv, LedgerTypeOK
    <2> QED
      BY <2>3, <2>4, <2>5
  <1>6. CASE \E j \in Jobs : CancelSend(j)
    <2>1. PICK j \in Jobs : CancelJob(j) /\ UNCHANGED event
      BY <1>6 DEF CancelSend, UserCancels, userVars, ledger
    <2> QED
      BY <1>0, <2>1, OthersKeep
  <1> QED
    BY <1>3, <1>4, <1>5, <1>6
    DEF UserStep, EditContent, MoveStatus, Approve, BeginChange, SaveConnection,
        FinishDisconnect, GmailBecomes, UserLeaves, vars, ledger

LEMMA GmailAndClockOnce ==
  ASSUME EmailInv, OnceInv, ~lapsed',
         \/ \E r \in wire : GmailAccepts(r) \/ GmailRefuses(r)
         \/ \E j \in Jobs : LeaseLapses(j) \/ SendBecomesDue(j)
         \/ UNCHANGED emailVars
  PROVE  OnceInv'
  <1>1. /\ UNCHANGED <<workerVars, mail, event>>
        /\ UNCHANGED queueVars \/ \E j \in Jobs : BecomeDue(j)
        /\ Written' \subseteq Written
    <2>1. CASE \E r \in wire : GmailAccepts(r) \/ GmailRefuses(r)
      BY <2>1 DEF GmailAccepts, GmailRefuses, vars, Written, userVars, ledger
    <2>2. CASE \E j \in Jobs : LeaseLapses(j)
      BY <2>2 DEF LeaseLapses
    <2>3. CASE \E j \in Jobs : SendBecomesDue(j)
      BY <2>3 DEF SendBecomesDue, JobBecomesDue, mailVars, Written, userVars, ledger
    <2>4. CASE UNCHANGED emailVars
      BY <2>4 DEF emailVars, vars, mailVars, Written, userVars, ledger
    <2> QED
      BY <2>1, <2>2, <2>3, <2>4
  <1>2. \A j \in Jobs : Kept(j)
    BY <1>1, OthersKeep DEF EmailInv, IInv
  <1> QED
    BY <1>1, <1>2, OutsideOnce

\* What run_once does with the rows while it takes one, lets go of one or goes on.
LEMMA RunOnceKinds ==
  ASSUME EmailInv, LeasesLive, NEW w \in Workers, RunOnce(w)
  PROVE  \/ \E j \in Jobs :
              /\ status[j] = "queued" /\ status'[j] = "running" /\ lease'[j] = "live"
              /\ lockedBy'[j] = w /\ \A k \in Jobs \ {j} : Kept(k)
              /\ pc[w] = "idle" /\ (pc'[w] # "idle" => cur'[w] = j)
         \/ /\ cur'[w] = NoJob
            /\ \E j \in Jobs :
                  /\ cur[w] = j /\ pc[w] = "failing" /\ status[j] = "running"
                  /\ \A k \in Jobs \ {j} : Kept(k)
                  /\ status'[j] # "running"
         \/ cur'[w] = NoJob /\ \A j \in Jobs : Kept(j)
         \/ /\ cur'[w] = cur[w] /\ attemptNo'[w] = attemptNo[w] /\ pc'[w] # "idle"
            /\ pc'[w] = pc[w] \/ pc[w] = "claimed"
            /\ \A j \in Jobs : Kept(j)
  <1>0. QueueInv /\ TypeOK
    BY DEF EmailInv, IInv
  <1>1. ASSUME NEW j \in Jobs, WorkerClaims(w, j) \/ ClaimReplyLost(w, j)
        PROVE  /\ status[j] = "queued" /\ status'[j] = "running" /\ lease'[j] = "live"
               /\ lockedBy'[j] = w /\ \A k \in Jobs \ {j} : Kept(k)
               /\ pc[w] = "idle" /\ (pc'[w] # "idle" => cur'[w] = j)
    <2>1. {j} \in SUBSET Claimable(Stale, Confirmed) /\ SweepAndTake(w, {j}, Stale, Confirmed)
      BY <1>1 DEF WorkerClaims, ClaimReplyLost, Claim, First
    <2>2. pc[w] = "idle" /\ (pc'[w] # "idle" => cur'[w] = j)
      BY <1>0, <1>1 DEF WorkerClaims, ClaimReplyLost, workerVars, TypeOK
    <2> QED
      BY <1>0, <2>1, <2>2, SweepsNothing
  <1>2. CASE WorkerFindsNothing(w)
    <2>1. {} \in SUBSET Claimable(Stale, Confirmed) /\ SweepAndTake(w, {}, Stale, Confirmed)
      BY <1>2 DEF WorkerFindsNothing, ClaimNothing
    <2>2. \A j \in Jobs : Kept(j)
      BY <1>0, <2>1, SweepsNothing
    <2>3. cur'[w] = NoJob
      BY <1>2 DEF WorkerFindsNothing, workerVars, EmailInv, IInv, IdleHasNoJob
    <2> QED
      BY <2>2, <2>3
  <1>3. ASSUME NEW j \in Jobs, WorkerFails(w, j)
        PROVE  /\ cur'[w] = NoJob
               /\ \/ /\ cur[w] = j /\ pc[w] = "failing" /\ status[j] = "running"
                     /\ \A k \in Jobs \ {j} : Kept(k)
                     /\ status'[j] # "running"
                  \/ \A k \in Jobs : Kept(k)
    <2>1. cur'[w] = NoJob /\ cur[w] = j /\ pc[w] = "failing"
      BY <1>0, <1>3 DEF WorkerFails, Release, TypeOK
    <2>2. CASE UNCHANGED queueVars
      BY <1>0, <2>1, <2>2, OthersKeep
    <2>3. CASE FailJob(w, j, TRUE)
      BY <1>0, <2>1, <2>3 DEF FailJob, HoldsLease, Unlock, Kept, QueueInv, QueueTypeOK
    <2> QED
      BY <1>3, <2>1, <2>2, <2>3 DEF WorkerFails
  <1>4. CASE \/ \E j \in Jobs : \/ InitialHeartbeat(w, j) \/ InitialHeartbeatFails(w, j)
                               \/ HeartbeatEndsHandler(w, j) \/ HeartbeatReplyLost(w, j)
             \/ EmailCompletes(w) \/ TerminalRequestLost(w) \/ Crash(w)
    <2>1. \A j \in Jobs : Kept(j)
      BY <1>0, <1>4, OthersKeep
      DEF InitialHeartbeat, InitialHeartbeatFails, HeartbeatEndsHandler, HeartbeatReplyLost,
          EmailCompletes, WorkerCompletes, TerminalRequestLost, Crash, HeartbeatRenews,
          HeartbeatRefused
    <2>2. \/ Release(w)
          \/ UNCHANGED workerVars /\ pc[w] # "idle"
          \/ /\ pc[w] = "claimed" /\ pc' = [pc EXCEPT ![w] = "handling"]
             /\ UNCHANGED <<cur, attemptNo>>
      BY <1>4
      DEF InitialHeartbeat, InitialHeartbeatFails, HeartbeatEndsHandler, HeartbeatReplyLost,
          EmailCompletes, WorkerCompletes, TerminalRequestLost, Crash
    <2> QED
      BY <1>0, <2>1, <2>2 DEF Release, workerVars, TypeOK
  <1> QED
    BY <1>1, <1>2, <1>3, <1>4 DEF RunOnce

LEMMA RunOnceOnce ==
  ASSUME EmailInv, EmailInv', OnceInv, NEW w \in Workers, RunOnce(w)
  PROVE  OnceInv'
  <1>0. LeasesLive /\ IInv /\ IInv'
    BY DEF EmailInv, OnceInv
  <1>1. /\ UNCHANGED <<wire, mailbox, event>> /\ Written' = Written
        /\ \A v \in Workers \ {w} : Stays(v)
        /\ mail'[w] = (IF pc'[w] = "idle" THEN Fresh ELSE mail[w])
    <2>1. /\ UNCHANGED <<userVars, wire, mailbox>>
          /\ \A v \in Workers \ {w} : /\ pc'[v] = pc[v] /\ cur'[v] = cur[v]
                                      /\ attemptNo'[v] = attemptNo[v]
      BY RunOnceMoves DEF EmailInv, IInv
    <2>2. mail' = [mail EXCEPT ![w] = IF pc'[w] = "idle" THEN Fresh ELSE @]
      BY DEF RunOnce
    <2> QED
      BY <2>1, <2>2 DEF EmailInv, MailInv, MailTypeOK, Stays, Written, userVars, ledger
  <1>2. /\ \A v \in Workers : cur[v] = NoJob \/ cur[v] \in Jobs
        /\ cur'[w] = NoJob \/ cur'[w] \in Jobs
        /\ NoJob \notin Jobs /\ (pc'[w] = "idle" => cur'[w] = NoJob)
        /\ (cur[w] = NoJob => pc[w] = "idle") /\ (pc[w] = "idle" => cur[w] = NoJob)
    BY LoopAssumption DEF EmailInv, IInv, TypeOK, IdleHasNoJob, MailInv, HandlerInv, Knows
  <1>3. ASSUME NEW r \in Written
        PROVE  /\ r.job \in Jobs /\ r.key = r.job /\ event[r.key] # "failed"
               /\ status[r.job] \notin {"absent", "queued"}
               /\ \A v \in Workers : cur[v] = r.job => r = Request(v) /\ mail[v].result # "failed"
               /\ \A q \in Written : q.job = r.job => q = r
               /\ cur[w] = r.job => pc[w] \notin {"failing", "claimed", "idle"}
    <2>1. r.job \in Jobs /\ status[r.job] # "absent"
      BY DEF EmailInv, MailInv, MailTypeOK, Requests, RequestsAreReserved, Written
    <2>2. OnlyRequest(r)
      BY DEF OnceInv
    <2>3. ASSUME cur[w] = r.job
          PROVE  pc[w] \notin {"failing", "claimed", "idle"}
      <3>1. r.attempt = attemptNo[w]
        BY <2>2, <2>3 DEF OnlyRequest, Request
      <3>2. pc[w] # "idle"
        BY <1>2, <2>1, <2>3
      <3> QED
        BY <2>3, <3>1, <3>2 DEF EmailInv, MailInv, HandlerInv, Owns, Knows, Fresh
    <2> QED
      BY <2>1, <2>2, <2>3 DEF OnlyRequest
  \* Every worker but w keeps its row, unless that row is taken from under it.
  <1>4. ASSUME NEW v \in Workers \ {w}, cur[v] # NoJob, Kept(cur[v]), cur'[w] # cur[v]
        PROVE  RowInHand(v)'
    <2>1. RowInHand(v) /\ cur[v] \in Jobs /\ Stays(v)
      BY <1>1, <1>2, <1>4 DEF OnceInv
    <2>2. \A u \in Workers : cur'[u] = cur[v] => u = v
      BY <1>1, <1>4, <2>1 DEF RowInHand, Stays
    <2> QED
      BY <1>1, <1>4, <2>1, <2>2 DEF RowInHand, Stays, Kept, Terminal
  <1>5. ASSUME NEW r \in Written, Kept(r.job), cur'[w] \in {NoJob, cur[w]},
               pc'[w] # "idle" => cur'[w] = cur[w] /\ attemptNo'[w] = attemptNo[w]
        PROVE  OnlyRequest(r)'
    <2>1. status'[r.job] # "queued"
      BY <1>3, <1>5 DEF Kept, Terminal
    <2>2. ASSUME NEW v \in Workers, cur'[v] = r.job
          PROVE  r = Request(v)' /\ mail'[v].result # "failed"
      <3>1. CASE v # w
        BY <1>1, <1>3, <2>2, <3>1 DEF Stays, Request
      <3>2. CASE v = w
        <4>1. cur'[w] = cur[w] /\ attemptNo'[w] = attemptNo[w] /\ mail'[w] = mail[w]
          BY <1>1, <1>2, <1>3, <1>5, <2>2, <3>2
        <4> QED
          BY <1>3, <2>2, <3>2, <4>1 DEF Request
      <3> QED
        BY <3>1, <3>2
    <2> QED
      BY <1>1, <1>3, <2>1, <2>2 DEF OnlyRequest
  <1>6. CASE \E j \in Jobs :
              /\ status[j] = "queued" /\ status'[j] = "running" /\ lease'[j] = "live"
              /\ lockedBy'[j] = w /\ \A k \in Jobs \ {j} : Kept(k)
              /\ pc[w] = "idle" /\ (pc'[w] # "idle" => cur'[w] = j)
    <2>1. PICK j \in Jobs :
              /\ status[j] = "queued" /\ status'[j] = "running" /\ lease'[j] = "live"
              /\ lockedBy'[j] = w /\ \A k \in Jobs \ {j} : Kept(k)
              /\ pc[w] = "idle" /\ (pc'[w] # "idle" => cur'[w] = j)
      BY <1>6
    <2>2. cur[w] = NoJob /\ cur'[w] \in {NoJob, j} /\ mail'[w] = Fresh
      BY <1>1, <1>2, <2>1 DEF EmailInv, MailInv, HandlerInv, Knows
    <2>3. \A v \in Workers : cur[v] # j
      BY <1>2, <2>1 DEF OnceInv, RowInHand
    <2>4. event[j] # "failed"
      BY <2>1 DEF OnceInv, FailedIsOver
    <2>5. LeasesLive' /\ FailedIsOver'
      BY <1>0, <1>1, <2>1, <2>4 DEF OnceInv, LeasesLive, FailedIsOver, Kept, Terminal
    <2>6. \A v \in Workers \ {w} : RowInHand(v)'
      <3> SUFFICES ASSUME NEW v \in Workers \ {w}, cur[v] # NoJob
                   PROVE  RowInHand(v)'
        BY <1>1 DEF RowInHand, Stays
      <3>1. cur[v] \in Jobs \ {j} /\ cur'[w] # cur[v]
        BY <1>2, <2>2, <2>3
      <3> QED
        BY <1>4, <2>1, <3>1
    <2>7. RowInHand(w)'
      BY <1>1, <2>1, <2>2, <2>3, <2>4 DEF RowInHand, Stays, Fresh
    <2>8. ASSUME NEW r \in Written
          PROVE  OnlyRequest(r)'
      <3>1. r.job \in Jobs \ {j} /\ Kept(r.job) /\ cur'[w] # r.job
        BY <1>2, <1>3, <2>1, <2>2
      <3>2. status'[r.job] # "queued"
        BY <1>3, <3>1 DEF Kept, Terminal
      <3>3. \A v \in Workers : cur'[v] = r.job => r = Request(v)' /\ mail'[v].result # "failed"
        BY <1>1, <1>3, <3>1 DEF Stays, Request
      <3> QED
        BY <1>1, <1>3, <3>2, <3>3 DEF OnlyRequest
    <2> QED
      BY <1>1, <2>5, <2>6, <2>7, <2>8 DEF OnceInv
  <1>7. CASE /\ cur'[w] = NoJob
             /\ \E j \in Jobs :
                  /\ cur[w] = j /\ pc[w] = "failing" /\ status[j] = "running"
                  /\ \A k \in Jobs \ {j} : Kept(k)
                  /\ status'[j] # "running"
    <2>1. PICK j \in Jobs :
                  /\ cur[w] = j /\ pc[w] = "failing" /\ status[j] = "running"
                  /\ \A k \in Jobs \ {j} : Kept(k)
                  /\ status'[j] # "running"
      BY <1>7
    <2>2. event[j] # "failed" /\ \A v \in Workers \ {w} : cur[v] # j
      BY <1>2, <2>1 DEF OnceInv, RowInHand
    <2>3. LeasesLive' /\ FailedIsOver'
      BY <1>0, <1>1, <2>1, <2>2 DEF OnceInv, LeasesLive, FailedIsOver, Kept, Terminal
    <2>4. \A v \in Workers \ {w} : RowInHand(v)'
      <3> SUFFICES ASSUME NEW v \in Workers \ {w}, cur[v] # NoJob
                   PROVE  RowInHand(v)'
        BY <1>1 DEF RowInHand, Stays
      <3>1. cur[v] \in Jobs \ {j} /\ cur'[w] # cur[v]
        BY <1>2, <1>7, <2>2
      <3> QED
        BY <1>4, <2>1, <3>1
    <2>5. RowInHand(w)'
      BY <1>7 DEF RowInHand
    <2>6. \A r \in Written : OnlyRequest(r)'
      <3> SUFFICES ASSUME NEW r \in Written PROVE OnlyRequest(r)'
        OBVIOUS
      <3>1. r.job \in Jobs \ {j}
        BY <1>3, <2>1
      <3>2. pc'[w] = "idle"
        BY <1>7, <1>0, <1>2 DEF EmailInv, MailInv, HandlerInv, Knows
      <3> QED
        BY <1>5, <1>7, <2>1, <3>1, <3>2
    <2> QED
      BY <1>1, <2>3, <2>4, <2>5, <2>6 DEF OnceInv
  <1>8. CASE /\ \A j \in Jobs : Kept(j)
             /\ \/ cur'[w] = NoJob
                \/ /\ cur'[w] = cur[w] /\ attemptNo'[w] = attemptNo[w] /\ pc'[w] # "idle"
                   /\ pc'[w] = pc[w] \/ pc[w] = "claimed"
    <2>1. LeasesLive' /\ FailedIsOver'
      BY <1>0, <1>1, <1>8 DEF OnceInv, LeasesLive, FailedIsOver, Kept, Terminal
    <2>2. \A v \in Workers \ {w} : RowInHand(v)'
      <3> SUFFICES ASSUME NEW v \in Workers \ {w}, cur[v] # NoJob
                   PROVE  RowInHand(v)'
        BY <1>1 DEF RowInHand, Stays
      <3>1. cur[v] \in Jobs /\ cur'[w] # cur[v]
        BY <1>2, <1>8 DEF OnceInv, RowInHand
      <3> QED
        BY <1>4, <1>8, <3>1
    <2>3. RowInHand(w)'
      <3>1. CASE cur'[w] = NoJob
        BY <3>1 DEF RowInHand
      <3>2. CASE cur'[w] # NoJob
        <4>1. /\ cur'[w] = cur[w] /\ cur[w] \in Jobs /\ mail'[w] = mail[w]
              /\ pc'[w] = pc[w] \/ pc[w] = "claimed"
          BY <1>1, <1>2, <1>8, <3>2
        <4>2. \A v \in Workers : cur'[v] = cur'[w] => v = w
          BY <1>1, <3>2, <4>1 DEF OnceInv, RowInHand, Stays
        <4> QED
          BY <1>1, <1>8, <3>2, <4>1, <4>2 DEF OnceInv, RowInHand, Kept, Terminal
      <3> QED
        BY <3>1, <3>2
    <2>4. pc'[w] # "idle" => cur'[w] # NoJob
      BY DEF EmailInv, MailInv, HandlerInv, Knows
    <2>5. \A r \in Written : OnlyRequest(r)'
      BY <1>3, <1>5, <1>8, <2>4
    <2> QED
      BY <1>1, <2>1, <2>2, <2>3, <2>5 DEF OnceInv
  <1> QED
    BY <1>0, <1>6, <1>7, <1>8, RunOnceKinds

\* The application's newest reservation is that of the row the worker has.
LEMMA FetchesOwnKey ==
  ASSUME EmailInv, OnceInv, NEW w \in Workers, FetchQueued(w)
  PROVE  sendKey[target[cur[w]]] = cur[w]
  <1> DEFINE a == target[cur[w]]
  <1>1. pc[w] = "handling" /\ appStatus[a] = "queued"
    BY DEF FetchQueued, Handling
  <1>2. cur[w] \in Jobs /\ cur[w] # NoJob /\ event[cur[w]] # "none" /\ a \in Applications
    BY <1>1, LoopAssumption DEF EmailInv, MailInv, HandlerInv, Knows, LedgerInv, KeysAreOwned
  <1>3. event[cur[w]] \in Counted
    BY <1>1, <1>2 DEF OnceInv, RowInHand, EmailInv, LedgerInv, LedgerTypeOK
  <1>4. sendKey[a] \in Jobs /\ event[sendKey[a]] \in Counted /\ target[sendKey[a]] = a
    BY <1>1, <1>2 DEF EmailInv, LedgerInv, LedgerTypeOK, PendingIffQueued, KeysAreOwned
  <1> QED
    BY <1>2, <1>3, <1>4 DEF EmailInv, LedgerInv, OneCountedPerRecipient

LEMMA HandlerOnce ==
  ASSUME EmailInv, EmailInv', OnceInv, NEW w \in Workers, EmailHandler(w)
  PROVE  OnceInv'
  <1>1. /\ UNCHANGED <<queueVars, cur, attemptNo, mailbox, target, reserved>>
        /\ pc[w] = "handling"
        /\ \A v \in Workers \ {w} : Stays(v)
        /\ Written' = Written \/ (Posts(w) /\ Written' = Written \cup {Request(w)})
        /\ UNCHANGED userVars \/ Finalizes(w)
    BY HandlerFrame DEF EmailInv, IInv, MailInv
  <1>2. /\ cur[w] \in Jobs /\ cur[w] # NoJob /\ RowInHand(w)
        /\ status[cur[w]] \notin {"absent", "queued"}
        /\ \A v \in Workers : cur[v] = cur[w] => v = w
        /\ event[cur[w]] # "failed"
        /\ mail[w].at # "fetch" => mail[w].key = cur[w]
    BY <1>1, LoopAssumption DEF EmailInv, MailInv, HandlerInv, Knows, OnceInv, RowInHand
  <1>3. /\ mail \in [Workers -> MailRecords] /\ mail[w] \in MailRecords
        /\ mail' \in [Workers -> MailRecords] /\ pc \in [Workers -> Steps]
        /\ event \in [Jobs -> Settled \cup {"none", "pending_provider"}]
    BY DEF EmailInv, MailInv, MailTypeOK, IInv, TypeOK, LedgerInv, LedgerTypeOK
  \* The request of w, once it is written, says where w is.
  <1>4. ASSUME NEW r \in Written, r.job = cur[w]
        PROVE  /\ r = Request(w) /\ mail[w].result # "failed"
               /\ mail[w].at \in {"wait", "finalize"}
    <2>1. r = Request(w) /\ mail[w].result # "failed"
      BY <1>4 DEF OnceInv, OnlyRequest
    <2>2. r.attempt = attemptNo[w]
      BY <2>1 DEF Request
    <2> QED
      BY <1>1, <1>4, <2>1, <2>2 DEF EmailInv, MailInv, HandlerInv, Owns
  <1>5. /\ mail'[w].at # "fetch" => mail'[w].key = cur[w]
        /\ mail[w].at # "fetch" => Request(w)' = Request(w)
    <2>1. CASE FetchQueued(w)
      BY <1>3, <2>1, FetchesOwnKey DEF FetchQueued, Handling
    <2>2. CASE ~FetchQueued(w)
      <3>1. /\ mail'[w].key = mail[w].key /\ mail'[w].content = mail[w].content
            /\ mail'[w].at # "fetch" => mail[w].at # "fetch"
        BY <1>3, <2>2
        DEF EmailHandler, FetchOther, Prepares, CannotPrepare, RaisesEarly, Posts, Confirmed200,
            Uncertain, Rejected, RateLimited, Refused, Finalizes, Handling, GoesTo, mailVars,
            MailRecords
      <3> QED
        BY <1>1, <1>2, <3>1 DEF Request
    <2> QED
      BY <2>1, <2>2
  \* What is settled is the reservation of w's row, and not as failed once its
  \* request is written.
  <1>6. \A j \in Jobs : event'[j] = "failed" /\ event[j] # "failed" =>
            j = cur[w] /\ pc'[w] = "completing" /\ mail[w].result = "failed"
    <2>1. CASE UNCHANGED userVars
      BY <2>1 DEF userVars, ledger
    <2>2. CASE Finalizes(w)
      <3>1. /\ mail[w].at = "finalize" /\ pc'[w] = "completing"
            /\ Settle(mail[w].key, mail[w].result) \/ UNCHANGED event
        BY <1>3, <2>2 DEF Finalizes, Handling, HandlerReturns
      <3>2. mail[w].key = cur[w]
        BY <1>2, <3>1
      <3> QED
        BY <1>2, <1>3, <3>1, <3>2 DEF Settle
    <2> QED
      BY <1>1, <2>1, <2>2
  <1>7. LeasesLive' /\ FailedIsOver'
    BY <1>1, <1>2, <1>6 DEF OnceInv, LeasesLive, FailedIsOver, queueVars
  <1>8. ASSUME NEW v \in Workers
        PROVE  RowInHand(v)'
    <2>1. CASE v = w
      BY <1>1, <1>2, <1>5, <1>6, <2>1 DEF RowInHand, queueVars
    <2>2. CASE v # w /\ cur[v] # NoJob
      <3>1. RowInHand(v) /\ cur[v] \in Jobs /\ cur[v] # cur[w] /\ Stays(v)
        BY <1>1, <1>2, <2>2 DEF OnceInv, EmailInv, IInv, TypeOK
      <3> QED
        BY <1>1, <1>6, <2>2, <3>1 DEF RowInHand, Stays, queueVars
    <2>3. CASE cur[v] = NoJob
      BY <1>1, <2>3 DEF RowInHand
    <2> QED
      BY <2>1, <2>2, <2>3
  \* Once its request is written, w does not take it for failed.
  <1>9. ASSUME mail[w].at \in {"wait", "finalize"}, Request(w) \in Written
        PROVE  mail'[w].result # "failed"
    <2>1. mail[w].result # "failed"
      BY <1>4, <1>9 DEF Request
    <2>2. ~Rejected(w) /\ ~RateLimited(w)
      BY <1>9 DEF Rejected, RateLimited, Refused, Written
    <2> QED
      BY <1>3, <1>9, <2>1, <2>2
      DEF EmailHandler, FetchQueued, FetchOther, Prepares, CannotPrepare, RaisesEarly, Posts,
          Confirmed200, Uncertain, Finalizes, Handling, GoesTo, mailVars, MailRecords
  <1>10. ASSUME NEW r \in Written, NEW v \in Workers, cur'[v] = r.job
         PROVE  r = Request(v)' /\ mail'[v].result # "failed"
    <2>1. OnlyRequest(r) /\ cur[v] = r.job
      BY <1>1, <1>10 DEF OnceInv
    <2>2. CASE v # w
      BY <1>1, <2>1, <2>2 DEF OnlyRequest, Stays, Request
    <2>3. CASE v = w
      BY <1>4, <1>5, <1>9, <2>1, <2>3
    <2> QED
      BY <2>2, <2>3
  <1>11. ASSUME NEW r \in Written
         PROVE  /\ r.key = r.job /\ event'[r.key] # "failed" /\ status'[r.job] # "queued"
                /\ \A q \in Written : q.job = r.job => q = r
    <2>1. OnlyRequest(r) /\ r.key \in Jobs
      BY DEF OnceInv, EmailInv, MailInv, MailTypeOK, Requests, Written
    <2>2. event'[r.key] # "failed"
      BY <1>4, <1>6, <2>1 DEF OnlyRequest
    <2> QED
      BY <1>1, <2>1, <2>2 DEF OnlyRequest, queueVars
  <1>12. ASSUME Posts(w)
         PROVE  /\ OnlyRequest(Request(w))' /\ Request(w)' = Request(w)
                /\ \A q \in Written : q.job # cur[w]
    <2>1. mail[w].at = "post" /\ mail'[w].result = "none" /\ UNCHANGED event
      BY <1>3, <1>12 DEF Posts, Handling, GoesTo, HandlerLeaves, userVars, ledger, MailRecords
    <2>2. \A q \in Written : q.job # cur[w]
      BY <1>4, <2>1
    <2>3. /\ Request(w)' = Request(w) /\ Request(w).job = cur[w] /\ Request(w).key = cur[w]
      BY <1>2, <1>5, <2>1 DEF Request
    <2>4. \A v \in Workers : cur'[v] = cur[w] =>
              Request(w) = Request(v)' /\ mail'[v].result # "failed"
      BY <1>1, <1>2, <2>1, <2>3
    <2>5. \A q \in Written' : q.job = cur[w] => q = Request(w)
      BY <1>1, <2>2
    <2> QED
      BY <1>1, <1>2, <2>1, <2>2, <2>3, <2>4, <2>5 DEF OnlyRequest, queueVars
  <1>13. \A r \in Written' : OnlyRequest(r)'
    <2> SUFFICES ASSUME NEW r \in Written' PROVE OnlyRequest(r)'
      OBVIOUS
    <2>1. CASE r \in Written
      <3>1. \A q \in Written' : q.job = r.job => q = r
        BY <1>1, <1>11, <1>12, <2>1 DEF Request
      <3> QED
        BY <1>10, <1>11, <2>1, <3>1 DEF OnlyRequest
    <2>2. CASE r \notin Written
      <3>1. Posts(w) /\ r = Request(w)
        BY <1>1, <2>2
      <3> QED
        BY <1>12, <3>1
    <2> QED
      BY <2>1, <2>2
  <1> QED
    BY <1>7, <1>8, <1>13 DEF OnceInv

LEMMA OnceStep ==
  ASSUME EmailInv, EmailInv', ~lapsed => OnceInv, [EmailNext]_emailVars
  PROVE  ~lapsed' => OnceInv'
  <1> SUFFICES ASSUME ~lapsed' PROVE OnceInv'
    OBVIOUS
  <1>1. ~lapsed
    BY LapsedForGood DEF EmailInv
  <1>2. CASE UserStep
    BY <1>1, <1>2, UserOnce
  <1>3. CASE \E w \in Workers : EmailHandler(w)
    BY <1>1, <1>3, HandlerOnce
  <1>4. CASE \E w \in Workers : RunOnce(w)
    BY <1>1, <1>4, RunOnceOnce
  <1>5. CASE \/ \E r \in wire : GmailAccepts(r) \/ GmailRefuses(r)
             \/ \E j \in Jobs : LeaseLapses(j) \/ SendBecomesDue(j)
             \/ UNCHANGED emailVars
    BY <1>1, <1>5, GmailAndClockOnce
  <1> QED
    BY <1>2, <1>3, <1>4, <1>5 DEF EmailNext

LEMMA OnceHolds == EmailSpec => [](lapsed \/ OnceInv)
  <1>1. EmailInit /\ EmailInv => lapsed \/ OnceInv
    BY OnceInit
  <1>2. EmailInv /\ EmailInv' /\ (lapsed \/ OnceInv) /\ [EmailNext]_emailVars
            => (lapsed \/ OnceInv)'
    BY OnceStep
  <1> QED
    BY <1>1, <1>2, EmailInvHolds, PTL DEF EmailSpec

\* As long as no lease runs out nobody is written to twice: whatever is lost,
\* retried, cancelled or reconciled meanwhile, a recipient has one request.
THEOREM OncePerRecipient == EmailSpec => []OncePerRecipientUnlessLapsed
  <1>1. ASSUME EmailInv, OnceInv, NEW r \in Written, NEW q \in Written,
               Recipient[target[r.key]] = Recipient[target[q.key]]
        PROVE  r = q
    <2>1. /\ r.key \in Jobs /\ q.key \in Jobs
          /\ event[r.key] # "none" /\ event[q.key] # "none"
      BY <1>1 DEF EmailInv, MailInv, MailTypeOK, Requests, RequestsAreReserved, Written
    <2>2. OnlyRequest(r) /\ OnlyRequest(q)
      BY <1>1 DEF OnceInv
    <2>3. event[r.key] \in Counted /\ event[q.key] \in Counted
      BY <1>1, <2>1, <2>2 DEF OnlyRequest, EmailInv, LedgerInv, LedgerTypeOK
    <2>4. r.key = q.key
      BY <1>1, <2>1, <2>3 DEF EmailInv, LedgerInv, OneCountedPerRecipient
    <2> QED
      BY <1>1, <2>2, <2>4 DEF OnlyRequest
  <1>2. EmailInv /\ (lapsed \/ OnceInv) => OncePerRecipientUnlessLapsed
    BY <1>1 DEF OncePerRecipientUnlessLapsed, Written
  <1> QED
    BY <1>2, EmailInvHolds, OnceHolds, PTL

=============================================================================
