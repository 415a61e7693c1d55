-------------------------- MODULE WorkerLoopProofs --------------------------
(***************************************************************************)
(* For any rows, workers, users, providers and bounds: the invariants of   *)
(* the queue in operation, the fence between attempts, and the             *)
(* implementation of JobLifecycle.                                         *)
(***************************************************************************)
EXTENDS WorkerLoop, TLAPS

-----------------------------------------------------------------------------
(* Every transaction on automation_jobs preserves QueueInv, and moves the  *)
(* rows as JobLifecycle allows.  The composed modules use these lemmas:    *)
(* whatever calls the functions, the table keeps its invariant.            *)

LEMMA QueueInitInv == QueueInit => QueueInv
  BY QueueAssumption
  DEF QueueInit, QueueInv, QueueTypeOK, OneRunningPerLane, LockedIffRunning,
      WaitingIsStartable, CancellationWins, Statuses, Active, Terminal

\* Whatever joins and leaves it, the line stays a relation on rows.
LEMMA LinedType ==
  ASSUME QueueTypeOK, NEW joined, NEW gone
  PROVE  Lined(joined, gone) \in [Jobs -> SUBSET Jobs]
  BY DEF Lined, InLine, QueueTypeOK

LEMMA EnqueueInv ==
  ASSUME QueueInv, NEW j \in Jobs, NEW old \in SUBSET Jobs, Enqueue(j, old)
  PROVE  QueueInv'
  <1> USE QueueAssumption
  <1>1. \A k \in Jobs :
          /\ status'[k] = IF k = j THEN "queued"
                          ELSE IF k \in old THEN "absent" ELSE status[k]
          /\ attempts'[k] = IF k \in old \cup {j} THEN 0 ELSE attempts[k]
          /\ cancelReq'[k] => k \notin old \cup {j} /\ cancelReq[k]
    BY DEF Enqueue
  <1>2. /\ status[j] = "absent"
        /\ \A k \in old : status[k] \in Terminal
        /\ lockedBy' = lockedBy /\ lease' = lease
    BY DEF Enqueue
  <1>3. QueueTypeOK'
    <2>1. ahead' \in [Jobs -> SUBSET Jobs]
      BY LinedType DEF Enqueue, QueueInv
    <2>2. status' \in [Jobs -> Statuses]
      BY DEF Enqueue, QueueInv, QueueTypeOK, Statuses, Active
    <2>3. attempts' \in [Jobs -> 0..MaxAttempts]
      BY DEF Enqueue, QueueInv, QueueTypeOK
    <2>4. cancelReq' \in [Jobs -> BOOLEAN]
      <3>1. \A k \in Jobs : (k \notin old \cup {j} /\ cancelReq[k]) \in BOOLEAN
        OBVIOUS
      <3>2. QED
        BY <3>1, Zenon DEF Enqueue
    <2>5. due' \in [Jobs -> BOOLEAN]
      <3>1. \A k \in Jobs : (k \in old \cup {j} \/ due[k]) \in BOOLEAN
        OBVIOUS
      <3>2. QED
        BY <3>1, Zenon DEF Enqueue
    <2>6. QED
      BY <1>2, <2>1, <2>2, <2>3, <2>4, <2>5 DEF QueueInv, QueueTypeOK
  <1>4. OneRunningPerLane'
    BY <1>1 DEF QueueInv, OneRunningPerLane, SameLane
  <1>5. LockedIffRunning'
    BY <1>1, <1>2 DEF QueueInv, LockedIffRunning, Terminal
  <1>6. WaitingIsStartable'
    BY <1>1 DEF QueueInv, WaitingIsStartable
  <1>7. CancellationWins'
    BY <1>1 DEF QueueInv, CancellationWins
  <1>8. QED
    BY <1>3, <1>4, <1>5, <1>6, <1>7 DEF QueueInv

LEMMA CancelJobInv ==
  ASSUME QueueInv, NEW j \in Jobs, CancelJob(j)
  PROVE  QueueInv'
  <1> USE QueueAssumption
  <1>1. \A k \in Jobs :
          /\ status'[k] = IF k = j /\ status[k] = "queued" THEN "cancelled" ELSE status[k]
          /\ cancelReq'[k] = (k = j \/ cancelReq[k])
    BY DEF CancelJob, QueueInv, QueueTypeOK
  <1>2. /\ status[j] \in {"queued", "running"}
        /\ UNCHANGED <<attempts, lockedBy, lease, due>>
    BY DEF CancelJob, Active
  <1>3. QueueTypeOK'
    <2>1. ahead' \in [Jobs -> SUBSET Jobs]
      BY LinedType DEF CancelJob, QueueInv, QueueTypeOK
    <2>2. status' \in [Jobs -> Statuses] /\ cancelReq' \in [Jobs -> BOOLEAN]
      BY DEF CancelJob, QueueInv, QueueTypeOK, Statuses, Terminal
    <2>3. QED
      BY <1>2, <2>1, <2>2 DEF QueueInv, QueueTypeOK
  <1>4. OneRunningPerLane' /\ LockedIffRunning'
    BY <1>1, <1>2 DEF QueueInv, OneRunningPerLane, SameLane, LockedIffRunning
  <1>5. WaitingIsStartable' /\ CancellationWins'
    BY <1>1, <1>2 DEF QueueInv, WaitingIsStartable, CancellationWins
  <1>6. QED
    BY <1>3, <1>4, <1>5 DEF QueueInv

LEMMA CancelSupersededInv ==
  ASSUME QueueInv, NEW S \in SUBSET SubmitJobs, CancelSuperseded(S)
  PROVE  QueueInv'
  <1> USE QueueAssumption DEF QueueInv
  <1>1. QueueTypeOK'
    <2>1. ahead' \in [Jobs -> SUBSET Jobs]
      BY LinedType DEF CancelSuperseded
    <2>2. QED
      BY <2>1 DEF CancelSuperseded, QueueTypeOK, Statuses, Active, Terminal
  <1>2. QED
    BY <1>1 DEF CancelSuperseded, OneRunningPerLane, SameLane, LockedIffRunning,
                WaitingIsStartable, CancellationWins, QueueTypeOK, Active

\* What the sweeps select.
LEMMA SweptRows ==
  ASSUME QueueInv, NEW stale \in SUBSET SubmitJobs, NEW confirmed
  PROVE  /\ \A j \in Withdrawn(stale, confirmed) :
              j \in Jobs /\ status[j] \in Active
         /\ \A j \in Exhausted(stale, confirmed) :
              /\ j \in Jobs /\ status[j] = "running" /\ ~cancelReq[j]
              /\ lease[j] = "expired"
              /\ attempts[j] = MaxAttempts
              /\ j \notin Withdrawn(stale, confirmed)
              /\ j \notin Revoked(stale, confirmed)
         /\ \A j \in Requeued(stale, confirmed) :
              /\ j \in Jobs /\ status[j] = "running" /\ ~cancelReq[j]
              /\ lease[j] = "expired"
              /\ attempts[j] < MaxAttempts
              /\ j \notin Withdrawn(stale, confirmed)
              /\ j \notin Exhausted(stale, confirmed)
              /\ j \notin Revoked(stale, confirmed)
         /\ \A j \in Jobs :
              /\ status[j] = "running"
              /\ j \notin Withdrawn(stale, confirmed)
              /\ j \notin Exhausted(stale, confirmed)
              /\ j \notin Requeued(stale, confirmed)
              => lease[j] # "expired"
  BY QueueAssumption
  DEF QueueInv, QueueTypeOK, Withdrawn, Revoked, Expired, Exhausted, Requeued, Active

\* What the final select may return.
LEMMA ClaimableRows ==
  ASSUME QueueInv, NEW stale \in SUBSET SubmitJobs, NEW confirmed,
         NEW j \in Claimable(stale, confirmed)
  PROVE  /\ j \in Jobs
         /\ status[j] \in Active
         /\ attempts[j] < MaxAttempts
         /\ ~cancelReq[j]
         /\ j \notin stale
         /\ j \notin Withdrawn(stale, confirmed)
         /\ j \notin Exhausted(stale, confirmed)
         /\ \A k \in Jobs : SameLane(j, k) /\ status[k] = "running"
                            => lease[k] = "expired"
  BY SweptRows
  DEF Claimable, InLine, QueueInv, WaitingIsStartable, Active, Withdrawn,
      Exhausted, Expired

\* Claiming and finding nothing, together: "taken" is at most one claimable row.
LEMMA SweepInv ==
  ASSUME QueueInv, NEW w \in Workers,
         NEW stale \in SUBSET SubmitJobs, NEW confirmed,
         NEW taken \in SUBSET Claimable(stale, confirmed),
         \A j, k \in taken : j = k,
         SweepAndTake(w, taken, stale, confirmed)
  PROVE  QueueInv'
  <1> DEFINE dropped == Withdrawn(stale, confirmed)
             lost    == Exhausted(stale, confirmed)
             again   == Requeued(stale, confirmed)
  <1> USE QueueAssumption
  <1>1. /\ \A j \in dropped : j \in Jobs /\ status[j] \in Active
        /\ \A j \in lost \cup again :
             /\ j \in Jobs /\ status[j] = "running" /\ ~cancelReq[j]
             /\ j \notin dropped
             /\ j \notin Revoked(stale, confirmed)
        /\ \A j \in again : attempts[j] < MaxAttempts /\ j \notin lost
        /\ \A j \in Jobs : status[j] = "running" /\ j \notin dropped \cup lost \cup again
             => lease[j] # "expired"
    BY SweptRows
  <1>2. \A j \in taken :
          /\ j \in Jobs /\ status[j] \in Active
          /\ attempts[j] < MaxAttempts /\ ~cancelReq[j]
          /\ j \notin stale
          /\ j \notin dropped \cup lost
          /\ \A k \in Jobs : SameLane(j, k) /\ status[k] = "running"
                             => lease[k] = "expired"
    BY ClaimableRows
  <1>3. \A j \in Jobs :
          /\ j \in taken => status'[j] = "running" /\ attempts'[j] = attempts[j] + 1
                            /\ lockedBy'[j] = w /\ lease'[j] = "live"
          /\ j \notin taken =>
               /\ attempts'[j] = attempts[j]
               /\ j \in dropped => status'[j] = "cancelled"
               /\ j \in lost => status'[j] = "failed"
               /\ j \in again => status'[j] = "queued"
               /\ j \in dropped \cup lost \cup again =>
                    lockedBy'[j] = Nobody /\ lease'[j] = "none"
               /\ j \notin dropped \cup lost \cup again =>
                    /\ status'[j] = status[j]
                    /\ lockedBy'[j] = lockedBy[j] /\ lease'[j] = lease[j]
          /\ cancelReq'[j] = (\/ cancelReq[j]
                              \/ j \in Revoked(stale, confirmed)
                              \/ j \in stale \cap dropped)
    BY <1>1, <1>2 DEF SweepAndTake
  <1>4. QueueTypeOK'
    <2>1. ahead' \in [Jobs -> SUBSET Jobs]
      BY LinedType DEF SweepAndTake, QueueInv
    <2>2. status' \in [Jobs -> Statuses]
      <3>1. \A j \in Jobs : status'[j] \in Statuses
        BY <1>3 DEF QueueInv, QueueTypeOK, Statuses, Active, Terminal
      <3>2. QED
        BY <3>1 DEF SweepAndTake
    <2>3. attempts' \in [Jobs -> 0..MaxAttempts]
      BY <1>2 DEF SweepAndTake, QueueInv, QueueTypeOK
    <2>4. /\ lockedBy' \in [Jobs -> Workers \cup {Nobody}]
          /\ lease' \in [Jobs -> {"none", "live", "expired"}]
          /\ due' \in [Jobs -> BOOLEAN]
      BY DEF SweepAndTake, QueueInv, QueueTypeOK
    <2>5. cancelReq' \in [Jobs -> BOOLEAN]
      BY DEF SweepAndTake, QueueInv, QueueTypeOK
    <2>6. QED
      BY <2>1, <2>2, <2>3, <2>4, <2>5 DEF QueueTypeOK
  <1>5. OneRunningPerLane'
    <2> SUFFICES ASSUME NEW j \in Jobs, NEW k \in Jobs, j # k, SameLane(j, k),
                        status'[j] = "running", status'[k] = "running"
                 PROVE  FALSE
      BY DEF OneRunningPerLane, SameLane
    <2>1. ASSUME NEW a \in Jobs, status'[a] = "running", a \notin taken
          PROVE  status[a] = "running" /\ lease[a] # "expired"
      BY <1>1, <1>3, <2>1
    <2>2. SameLane(k, j)
      BY DEF SameLane
    <2>3. j \notin taken \/ k \notin taken
      OBVIOUS
    <2>4. CASE j \in taken
      BY <1>2, <2>1, <2>3, <2>4
    <2>5. CASE k \in taken
      BY <1>2, <2>1, <2>2, <2>3, <2>5
    <2>6. CASE j \notin taken /\ k \notin taken
      BY <2>1, <2>6 DEF QueueInv, OneRunningPerLane
    <2>7. QED
      BY <2>4, <2>5, <2>6
  <1>6. LockedIffRunning'
    <2> SUFFICES ASSUME NEW j \in Jobs
                 PROVE  /\ (status'[j] = "running") <=> (lockedBy'[j] # Nobody)
                        /\ (status'[j] = "running") <=> (lease'[j] # "none")
      BY DEF LockedIffRunning
    <2>1. CASE j \in taken
      BY <1>3, <2>1
    <2>2. CASE j \notin taken /\ j \in dropped \cup lost \cup again
      BY <1>3, <2>2
    <2>3. CASE j \notin taken /\ j \notin dropped \cup lost \cup again
      BY <1>3, <2>3 DEF QueueInv, LockedIffRunning
    <2>4. QED
      BY <2>1, <2>2, <2>3
  <1>7. WaitingIsStartable'
    <2> SUFFICES ASSUME NEW j \in Jobs, status'[j] = "queued"
                 PROVE  attempts'[j] < MaxAttempts /\ ~cancelReq'[j]
      BY DEF WaitingIsStartable
    <2>1. j \notin taken /\ j \notin dropped \cup lost
      BY <1>3
    <2>2. CASE j \in again
      BY <1>1, <1>3, <2>1, <2>2
    <2>3. CASE j \notin again
      <3>1. status[j] = "queued" /\ attempts'[j] = attempts[j]
        BY <1>3, <2>1, <2>3
      <3>2. j \notin Revoked(stale, confirmed)
        BY <3>1 DEF Revoked
      <3>3. QED
        BY <1>3, <2>1, <3>1, <3>2 DEF QueueInv, WaitingIsStartable
    <2>4. QED
      BY <2>2, <2>3
  <1>8. CancellationWins'
    <2> SUFFICES ASSUME NEW j \in Jobs, cancelReq'[j]
                 PROVE  status'[j] \in {"running", "cancelled"}
      BY DEF CancellationWins
    <2>1. CASE j \in taken \cup dropped
      BY <1>3, <2>1
    <2>2. CASE j \notin taken \cup dropped
      <3>1. cancelReq[j] \/ j \in Revoked(stale, confirmed)
        BY <1>3, <2>2
      <3>2. status[j] \in {"running", "cancelled"} /\ j \notin lost \cup again
        BY <1>1, <3>1 DEF Revoked, QueueInv, CancellationWins
      <3>3. QED
        BY <1>3, <2>2, <3>2
    <2>3. QED
      BY <2>1, <2>2
  <1>9. QED
    BY <1>4, <1>5, <1>6, <1>7, <1>8 DEF QueueInv

LEMMA ClaimInv ==
  ASSUME QueueInv, NEW w \in Workers, NEW stale \in SUBSET SubmitJobs, NEW confirmed,
         \/ \E j \in Jobs : Claim(w, j, stale, confirmed)
         \/ ClaimNothing(w, stale, confirmed)
  PROVE  QueueInv'
  <1>1. CASE \E j \in Jobs : Claim(w, j, stale, confirmed)
    <2>1. PICK j \in Jobs : Claim(w, j, stale, confirmed)
      BY <1>1
    <2>2. {j} \in SUBSET Claimable(stale, confirmed)
      BY <2>1 DEF Claim, First
    <2>3. SweepAndTake(w, {j}, stale, confirmed)
      BY <2>1 DEF Claim
    <2>4. QED
      BY <2>2, <2>3, SweepInv
  <1>2. CASE ClaimNothing(w, stale, confirmed)
    BY <1>2, SweepInv DEF ClaimNothing
  <1>3. QED
    BY <1>1, <1>2

LEMMA HolderInv ==
  ASSUME QueueInv, NEW w \in Workers, NEW j \in Jobs,
         \/ HeartbeatCancels(w, j)
         \/ \E t \in {"succeeded", "needs_attention"} : CompleteJob(w, j, t)
         \/ \E retry \in BOOLEAN : FailJob(w, j, retry)
  PROVE  QueueInv'
  <1> USE QueueAssumption
  <1>1. /\ status[j] = "running"
        /\ UNCHANGED <<attempts, cancelReq, ahead>>
        /\ \A k \in Jobs : k # j => status'[k] = status[k]
        /\ \/ status'[j] = "cancelled"
           \/ status'[j] \in {"succeeded", "needs_attention", "failed"} /\ ~cancelReq[j]
           \/ status'[j] = "queued" /\ ~cancelReq[j] /\ attempts[j] < MaxAttempts
    BY DEF HeartbeatCancels, CompleteJob, FailJob, HoldsLease, QueueInv, QueueTypeOK
  <1>2. /\ status' \in [Jobs -> Statuses]
        /\ due' \in [Jobs -> BOOLEAN]
    <2>1. /\ status \in [Jobs -> Statuses]
          /\ due \in [Jobs -> BOOLEAN]
      BY DEF QueueInv, QueueTypeOK
    <2>2. \A p \in Statuses : [status EXCEPT ![j] = p] \in [Jobs -> Statuses]
      BY <2>1
    <2>3. \A b \in BOOLEAN : [due EXCEPT ![j] = b] \in [Jobs -> BOOLEAN]
      BY <2>1
    <2>4. \E p \in Statuses : status' = [status EXCEPT ![j] = p]
      BY DEF HeartbeatCancels, CompleteJob, FailJob, Statuses, Active, Terminal
    <2>5. due' = due \/ \E b \in BOOLEAN : due' = [due EXCEPT ![j] = b]
      BY DEF HeartbeatCancels, CompleteJob, FailJob
    <2>6. QED
      BY <2>1, <2>2, <2>3, <2>4, <2>5
  <1>3. /\ lockedBy' = [k \in Jobs |-> IF k \in {j} THEN Nobody ELSE lockedBy[k]]
        /\ lease' = [k \in Jobs |-> IF k \in {j} THEN "none" ELSE lease[k]]
    BY DEF HeartbeatCancels, CompleteJob, FailJob, Unlock
  <1>4. QueueTypeOK'
    BY <1>1, <1>2, <1>3 DEF QueueInv, QueueTypeOK
  <1>5. OneRunningPerLane'
    BY <1>1 DEF QueueInv, OneRunningPerLane, SameLane
  <1>6. LockedIffRunning'
    BY <1>1, <1>3 DEF QueueInv, LockedIffRunning
  <1>7. WaitingIsStartable' /\ CancellationWins'
    BY <1>1 DEF QueueInv, WaitingIsStartable, CancellationWins
  <1>8. QED
    BY <1>4, <1>5, <1>6, <1>7 DEF QueueInv

LEMMA ClockInv ==
  ASSUME QueueInv, NEW j \in Jobs, ExpireLease(j) \/ BecomeDue(j)
  PROVE  QueueInv'
  <1>1. CASE ExpireLease(j)
    BY <1>1 DEF ExpireLease, QueueInv, QueueTypeOK, OneRunningPerLane, SameLane,
                LockedIffRunning, WaitingIsStartable, CancellationWins
  <1>2. CASE BecomeDue(j)
    <2>1. ahead' \in [Jobs -> SUBSET Jobs]
      BY <1>2, LinedType DEF BecomeDue, QueueInv
    <2>2. due' \in [Jobs -> BOOLEAN]
      BY <1>2 DEF BecomeDue, QueueInv, QueueTypeOK
    <2>3. UNCHANGED <<status, attempts, lockedBy, lease, cancelReq>>
      BY <1>2 DEF BecomeDue
    <2>4. QED
      BY <2>1, <2>2, <2>3
      DEF QueueInv, QueueTypeOK, OneRunningPerLane, SameLane,
          LockedIffRunning, WaitingIsStartable, CancellationWins
  <1>3. QED
    BY <1>1, <1>2

\* No transaction the migrations define on the table can break its invariant,
\* whoever calls it and in whatever order.
THEOREM QueueNextInv ==
  ASSUME QueueInv, [QueueNext]_queueVars
  PROVE  QueueInv'
  <1>1. CASE QueueNext
    <2>1. CASE \E j \in Jobs, old \in SUBSET Jobs : Enqueue(j, old)
      BY <2>1, EnqueueInv
    <2>2. CASE \E j \in Jobs : CancelJob(j)
      BY <2>2, CancelJobInv
    <2>3. CASE \E j \in Jobs : ExpireLease(j) \/ BecomeDue(j)
      BY <2>3, ClockInv
    <2>4. CASE \E j \in Jobs, w \in Workers :
                 \/ HeartbeatCancels(w, j)
                 \/ \E t \in {"succeeded", "needs_attention"} : CompleteJob(w, j, t)
                 \/ \E retry \in BOOLEAN : FailJob(w, j, retry)
      BY <2>4, HolderInv
    <2>5. CASE \E S \in SUBSET SubmitJobs : CancelSuperseded(S)
      BY <2>5, CancelSupersededInv
    <2>6. CASE \E w \in Workers, stale, confirmed \in SUBSET SubmitJobs :
                 \/ \E j \in Jobs : Claim(w, j, stale, confirmed)
                 \/ ClaimNothing(w, stale, confirmed)
      BY <2>6, ClaimInv
    <2>7. QED
      BY <1>1, <2>1, <2>2, <2>3, <2>4, <2>5, <2>6 DEF QueueNext
  <1>2. CASE UNCHANGED queueVars
    BY <1>2 DEF queueVars, QueueInv, QueueTypeOK, OneRunningPerLane, SameLane,
                LockedIffRunning, WaitingIsStartable, CancellationWins
  <1>3. QED
    BY <1>1, <1>2

-----------------------------------------------------------------------------
(* JobLifecycle *)

\* A step is a step of JobLifecycle when it is one of every single row.
LEMMA RowwiseStep ==
  ASSUME QueueTypeOK', \A j \in Jobs : Lifecycle!JobStep(j)
  PROVE  Lifecycle!Next
  BY DEF Lifecycle!Next, Lifecycle!Outcomes, QueueTypeOK, Statuses, Active, Terminal

LEMMA EnqueueStep ==
  ASSUME QueueInv, NEW j \in Jobs, NEW old \in SUBSET Jobs, Enqueue(j, old)
  PROVE  \A k \in Jobs : Lifecycle!JobStep(k)
  <1> SUFFICES ASSUME NEW k \in Jobs PROVE Lifecycle!JobStep(k)
    OBVIOUS
  <1>1. CASE k = j
    BY <1>1 DEF Enqueue, Lifecycle!JobStep, Lifecycle!Accept, Lifecycle!Becomes
  <1>2. CASE k # j /\ k \in old
    BY <1>2 DEF Enqueue, Lifecycle!JobStep, Lifecycle!Delete, Lifecycle!Becomes,
                Lifecycle!Outcomes, Terminal
  <1>3. CASE k # j /\ k \notin old
    <2>1. status'[k] = status[k] /\ attempts'[k] = attempts[k]
      BY <1>3 DEF Enqueue
    <2>2. cancelReq'[k] = cancelReq[k]
      <3>1. cancelReq'[k] = (k \notin old \cup {j} /\ cancelReq[k])
        BY DEF Enqueue
      <3>2. cancelReq[k] \in BOOLEAN
        BY DEF QueueInv, QueueTypeOK
      <3>3. QED
        BY <1>3, <3>1, <3>2
    <2>3. QED
      BY <2>1, <2>2 DEF Lifecycle!JobStep, Lifecycle!Stay, Lifecycle!Becomes
  <1>4. QED
    BY <1>1, <1>2, <1>3

\* Rows that a cancellation does and does not reach.
LEMMA CancelRow ==
  ASSUME NEW k \in Jobs, QueueInv, attempts'[k] = attempts[k],
         \/ status[k] = "queued" /\ status'[k] = "cancelled" /\ cancelReq'[k] = TRUE
         \/ status[k] = "running" /\ status'[k] = "running" /\ cancelReq'[k] = TRUE
         \/ status'[k] = status[k] /\ cancelReq'[k] = cancelReq[k]
  PROVE  Lifecycle!JobStep(k)
  <1>1. CASE status[k] = "queued" /\ status'[k] = "cancelled" /\ cancelReq'[k] = TRUE
    BY <1>1 DEF Lifecycle!JobStep, Lifecycle!Cancel, Lifecycle!Becomes
  <1>2. CASE status[k] = "running" /\ status'[k] = "running" /\ cancelReq'[k] = TRUE
    BY <1>2 DEF Lifecycle!JobStep, Lifecycle!Revoke, Lifecycle!Becomes
  <1>3. CASE status'[k] = status[k] /\ cancelReq'[k] = cancelReq[k]
    BY <1>3 DEF Lifecycle!JobStep, Lifecycle!Stay, Lifecycle!Becomes
  <1>4. QED
    BY <1>1, <1>2, <1>3

LEMMA CancelJobStep ==
  ASSUME QueueInv, NEW j \in Jobs, CancelJob(j)
  PROVE  \A k \in Jobs : Lifecycle!JobStep(k)
  <1> SUFFICES ASSUME NEW k \in Jobs PROVE Lifecycle!JobStep(k)
    OBVIOUS
  <1>1. attempts'[k] = attempts[k]
    BY DEF CancelJob
  <1>2. CASE k = j
    <2>1. cancelReq'[k] = TRUE
      BY <1>2 DEF CancelJob, QueueInv, QueueTypeOK
    <2>2. \/ status[k] = "queued" /\ status'[k] = "cancelled"
          \/ status[k] = "running" /\ status'[k] = "running"
      BY <1>2 DEF CancelJob, Active, QueueInv, QueueTypeOK
    <2>3. QED
      BY <1>1, <2>1, <2>2, CancelRow
  <1>3. CASE k # j
    <2>1. status'[k] = status[k] /\ cancelReq'[k] = cancelReq[k]
      BY <1>3 DEF CancelJob, QueueInv, QueueTypeOK
    <2>2. QED
      BY <1>1, <2>1, CancelRow
  <1>4. QED
    BY <1>2, <1>3

LEMMA CancelSupersededStep ==
  ASSUME QueueInv, NEW S \in SUBSET SubmitJobs, CancelSuperseded(S)
  PROVE  \A k \in Jobs : Lifecycle!JobStep(k)
  <1> SUFFICES ASSUME NEW k \in Jobs PROVE Lifecycle!JobStep(k)
    OBVIOUS
  <1> DEFINE hit == {i \in S : status[i] \in Active}
  <1>1. attempts'[k] = attempts[k]
    BY DEF CancelSuperseded
  <1>2. cancelReq'[k] = (k \in hit \/ cancelReq[k])
    BY QueueAssumption DEF CancelSuperseded
  <1>3. CASE k \in hit
    <2>1. cancelReq'[k] = TRUE
      BY <1>2, <1>3
    <2>2. \/ status[k] = "queued" /\ status'[k] = "cancelled"
          \/ status[k] = "running" /\ status'[k] = "running"
      BY <1>3 DEF CancelSuperseded, Active
    <2>3. QED
      BY <1>1, <2>1, <2>2, CancelRow
  <1>4. CASE k \notin hit
    <2>1. status'[k] = status[k]
      BY <1>4 DEF CancelSuperseded
    <2>2. cancelReq[k] \in BOOLEAN
      BY DEF QueueInv, QueueTypeOK
    <2>3. cancelReq'[k] = cancelReq[k]
      BY <1>2, <1>4, <2>2
    <2>4. QED
      BY <1>1, <2>1, <2>3, CancelRow
  <1>5. QED
    BY <1>3, <1>4

LEMMA HolderStep ==
  ASSUME QueueInv, NEW w \in Workers, NEW j \in Jobs,
         \/ HeartbeatCancels(w, j)
         \/ \E t \in {"succeeded", "needs_attention"} : CompleteJob(w, j, t)
         \/ FailJob(w, j, TRUE)
  PROVE  \A k \in Jobs : Lifecycle!JobStep(k)
  <1> USE QueueAssumption
  <1>1. /\ status[j] = "running"
        /\ UNCHANGED <<attempts, cancelReq>>
        /\ \A k \in Jobs : k # j => status'[k] = status[k]
        /\ attempts[j] \in 0..MaxAttempts /\ cancelReq[j] \in BOOLEAN
        /\ \/ status'[j] = "cancelled" /\ cancelReq[j]
           \/ status'[j] \in {"succeeded", "needs_attention"} /\ ~cancelReq[j]
           \/ status'[j] = "failed" /\ ~cancelReq[j] /\ attempts[j] = MaxAttempts
           \/ status'[j] = "queued" /\ ~cancelReq[j] /\ attempts[j] < MaxAttempts
    BY DEF HeartbeatCancels, CompleteJob, FailJob, HoldsLease, QueueInv, QueueTypeOK
  <1> SUFFICES ASSUME NEW k \in Jobs PROVE Lifecycle!JobStep(k)
    OBVIOUS
  <1>2. CASE k # j
    BY <1>1, <1>2 DEF Lifecycle!JobStep, Lifecycle!Stay, Lifecycle!Becomes
  <1>3. CASE k = j
    BY <1>1, <1>3 DEF Lifecycle!JobStep, Lifecycle!Cancel, Lifecycle!Finish,
                      Lifecycle!GiveUp, Lifecycle!PutBack, Lifecycle!Becomes
  <1>4. QED
    BY <1>2, <1>3

LEMMA SweepStep ==
  ASSUME QueueInv, NEW w \in Workers,
         NEW stale \in SUBSET SubmitJobs, NEW confirmed,
         NEW taken \in SUBSET Claimable(stale, confirmed),
         SweepAndTake(w, taken, stale, confirmed)
  PROVE  \A k \in Jobs : Lifecycle!JobStep(k)
  <1> SUFFICES ASSUME NEW k \in Jobs PROVE Lifecycle!JobStep(k)
    OBVIOUS
  <1> DEFINE dropped == Withdrawn(stale, confirmed)
             lost    == Exhausted(stale, confirmed)
             again   == Requeued(stale, confirmed)
             revoked == Revoked(stale, confirmed)
  <1>1. /\ cancelReq[k] \in BOOLEAN
        /\ cancelReq'[k] = (\/ cancelReq[k] \/ k \in revoked
                            \/ k \in stale \cap dropped)
    BY DEF SweepAndTake, QueueInv, QueueTypeOK
  <1>2. k \notin taken => attempts'[k] = attempts[k]
    BY DEF SweepAndTake
  <1>3. CASE k \in taken
    <2>1. /\ status[k] \in {"queued", "running"} /\ attempts[k] < MaxAttempts
          /\ ~cancelReq[k] /\ k \notin stale
      BY <1>3, ClaimableRows DEF Active
    <2>2. cancelReq'[k] = FALSE
      BY <1>1, <2>1 DEF Revoked
    <2>3. status'[k] = "running" /\ attempts'[k] = attempts[k] + 1
      BY <1>3, ClaimableRows DEF SweepAndTake
    <2>4. QED
      BY <2>1, <2>2, <2>3 DEF Lifecycle!JobStep, Lifecycle!Run, Lifecycle!Becomes
  <1>4. CASE k \notin taken /\ k \in dropped
    <2>1. cancelReq'[k] = TRUE
      BY <1>1, <1>4 DEF Withdrawn, Revoked
    <2>2. status'[k] = "cancelled"
      BY <1>4, SweptRows DEF SweepAndTake
    <2>3. status[k] \in {"queued", "running"}
      BY <1>4, SweptRows DEF Active
    <2>4. QED
      BY <1>2, <1>4, <2>1, <2>2, <2>3
      DEF Lifecycle!JobStep, Lifecycle!Cancel, Lifecycle!Becomes
  <1>5. CASE k \notin taken /\ k \in lost
    <2>1. /\ status[k] = "running" /\ attempts[k] = MaxAttempts
          /\ ~cancelReq[k] /\ k \notin dropped /\ k \notin revoked
      BY <1>5, SweptRows
    <2>2. status'[k] = "failed"
      BY <1>5, <2>1, SweptRows DEF SweepAndTake
    <2>3. cancelReq'[k] = FALSE
      BY <1>1, <2>1
    <2>4. QED
      BY <1>2, <1>5, <2>1, <2>2, <2>3
      DEF Lifecycle!JobStep, Lifecycle!GiveUp, Lifecycle!Becomes
  <1>6. CASE k \notin taken /\ k \in again
    <2>1. /\ status[k] = "running" /\ attempts[k] < MaxAttempts
          /\ ~cancelReq[k] /\ k \notin dropped /\ k \notin lost /\ k \notin revoked
      BY <1>6, SweptRows
    <2>2. status'[k] = "queued"
      BY <1>6, <2>1 DEF SweepAndTake
    <2>3. cancelReq'[k] = FALSE
      BY <1>1, <2>1
    <2>4. QED
      BY <1>2, <1>6, <2>1, <2>2, <2>3
      DEF Lifecycle!JobStep, Lifecycle!PutBack, Lifecycle!Becomes
  <1>7. CASE k \notin taken \cup dropped \cup lost \cup again
    <2>1. status'[k] = status[k]
      BY <1>7 DEF SweepAndTake
    <2>2. CASE k \in revoked
      BY <1>1, <1>2, <1>7, <2>1, <2>2
      DEF Revoked, Lifecycle!JobStep, Lifecycle!Revoke, Lifecycle!Becomes
    <2>3. CASE k \notin revoked
      <3>1. k \notin stale \cap dropped
        BY <1>7
      <3>2. cancelReq'[k] = cancelReq[k]
        <4>1. CASE cancelReq[k]
          BY <1>1, <4>1
        <4>2. CASE ~cancelReq[k]
          BY <1>1, <2>3, <3>1, <4>2
        <4>3. QED
          BY <4>1, <4>2
      <3>3. QED
        BY <1>2, <1>7, <2>1, <3>2
        DEF Lifecycle!JobStep, Lifecycle!Stay, Lifecycle!Becomes
    <2>4. QED
      BY <2>2, <2>3
  <1>8. QED
    BY <1>3, <1>4, <1>5, <1>6, <1>7

LEMMA ClaimStep ==
  ASSUME QueueInv, NEW w \in Workers, NEW stale \in SUBSET SubmitJobs, NEW confirmed,
         \/ \E j \in Jobs : Claim(w, j, stale, confirmed)
         \/ ClaimNothing(w, stale, confirmed)
  PROVE  \A k \in Jobs : Lifecycle!JobStep(k)
  <1>1. CASE \E j \in Jobs : Claim(w, j, stale, confirmed)
    <2>1. PICK j \in Jobs : Claim(w, j, stale, confirmed)
      BY <1>1
    <2>2. /\ {j} \in SUBSET Claimable(stale, confirmed)
          /\ SweepAndTake(w, {j}, stale, confirmed)
      BY <2>1 DEF Claim, First
    <2>3. QED
      BY <2>2, SweepStep
  <1>2. CASE ClaimNothing(w, stale, confirmed)
    BY <1>2, SweepStep DEF ClaimNothing
  <1>3. QED
    BY <1>1, <1>2

-----------------------------------------------------------------------------
(* The fence *)

\* Nobody comes to hold a lease except by claiming the row.
LEMMA LeaseOnlyByClaim ==
  ASSUME QueueInv, NEW w \in Workers, NEW j \in Jobs, HoldsLease(w, j)',
         \/ UNCHANGED queueVars
         \/ \E k \in Jobs :
             \/ \E old \in SUBSET Jobs : Enqueue(k, old)
             \/ CancelJob(k) \/ ExpireLease(k) \/ BecomeDue(k)
             \/ \E v \in Workers :
                 \/ HeartbeatCancels(v, k)
                 \/ \E t \in {"succeeded", "needs_attention"} : CompleteJob(v, k, t)
                 \/ \E retry \in BOOLEAN : FailJob(v, k, retry)
         \/ \E S \in SUBSET SubmitJobs : CancelSuperseded(S)
  PROVE  HoldsLease(w, j) /\ attempts'[j] = attempts[j]
  <1>1. CASE UNCHANGED queueVars
    BY <1>1 DEF queueVars, HoldsLease
  <1>2. CASE \E k \in Jobs, old \in SUBSET Jobs : Enqueue(k, old)
    BY <1>2 DEF Enqueue, HoldsLease
  <1>3. CASE \E k \in Jobs : CancelJob(k) \/ ExpireLease(k) \/ BecomeDue(k)
    BY <1>3 DEF CancelJob, ExpireLease, BecomeDue, HoldsLease, QueueInv, QueueTypeOK
  <1>4. CASE \E k \in Jobs, v \in Workers :
               \/ HeartbeatCancels(v, k)
               \/ \E t \in {"succeeded", "needs_attention"} : CompleteJob(v, k, t)
               \/ \E retry \in BOOLEAN : FailJob(v, k, retry)
    BY <1>4 DEF HeartbeatCancels, CompleteJob, FailJob, Unlock, HoldsLease,
                QueueInv, QueueTypeOK
  <1>5. CASE \E S \in SUBSET SubmitJobs : CancelSuperseded(S)
    BY <1>5, QueueAssumption DEF CancelSuperseded, HoldsLease
  <1>6. QED
    BY <1>1, <1>2, <1>3, <1>4, <1>5

\* A claim leaves the other leases as they are, and gives its caller one.
LEMMA ClaimLeases ==
  ASSUME QueueInv, NEW w \in Workers, NEW j \in Jobs, HoldsLease(w, j)',
         NEW v \in Workers, NEW stale \in SUBSET SubmitJobs, NEW confirmed,
         NEW taken \in SUBSET Claimable(stale, confirmed),
         SweepAndTake(v, taken, stale, confirmed)
  PROVE  IF j \in taken THEN w = v /\ attempts'[j] = attempts[j] + 1
                         ELSE HoldsLease(w, j) /\ attempts'[j] = attempts[j]
  <1>1. CASE j \in taken
    BY <1>1 DEF SweepAndTake, HoldsLease
  <1>2. CASE j \notin taken
    <2>1. /\ j \notin Withdrawn(stale, confirmed)
          /\ j \notin Exhausted(stale, confirmed)
          /\ j \notin Requeued(stale, confirmed)
      BY <1>2 DEF SweepAndTake, HoldsLease
    <2>2. QED
      BY <1>2, <2>1 DEF SweepAndTake, HoldsLease
  <1>3. QED
    BY <1>1, <1>2

-----------------------------------------------------------------------------
(* The workers. *)

LEMMA StaleSets == Stale \in SUBSET SubmitJobs /\ Confirmed \in SUBSET SubmitJobs
  BY DEF Stale, Confirmed

\* What a step does to the table: a claim by one worker, or something else.
LEMMA QueuePart ==
  ASSUME [Next]_vars
  PROVE  \/ UNCHANGED queueVars
         \/ \E k \in Jobs :
             \/ \E old \in SUBSET Jobs : Enqueue(k, old)
             \/ CancelJob(k) \/ ExpireLease(k) \/ BecomeDue(k)
             \/ \E v \in Workers :
                 \/ HeartbeatCancels(v, k)
                 \/ \E t \in {"succeeded", "needs_attention"} : CompleteJob(v, k, t)
                 \/ FailJob(v, k, TRUE)
         \/ \E S \in SUBSET SubmitJobs : CancelSuperseded(S)
         \/ \E v \in Workers :
             \/ \E k \in Jobs : Claim(v, k, Stale, Confirmed)
             \/ ClaimNothing(v, Stale, Confirmed)
  <1>1. CASE UNCHANGED vars
    BY <1>1 DEF vars
  <1>2. CASE \E j \in Jobs : UserEnqueues(j) \/ UserCancels(j)
                            \/ LeaseExpires(j) \/ JobBecomesDue(j)
    BY <1>2 DEF UserEnqueues, UserCancels, LeaseExpires, JobBecomesDue
  <1>3. CASE RevisionStep
    <2>1. CASE \E j \in SubmitJobs : RevisionSuperseded(j)
      BY <2>1 DEF RevisionSuperseded
    <2>2. CASE \E j \in SubmitJobs :
                 \/ RevisionLeavesApproved(j) \/ RevisionVerified(j)
                 \/ \E w \in Workers : RevisionConfirmed(w, j)
      BY <2>2 DEF RevisionLeavesApproved, RevisionVerified, RevisionConfirmed
    <2>3. QED
      BY <1>3, <2>1, <2>2 DEF RevisionStep
  <1>4. CASE \E w \in Workers : WorkerStep(w)
    <2>1. PICK w \in Workers : WorkerStep(w)
      BY <1>4
    <2>2. CASE \E j \in Jobs : WorkerClaims(w, j) \/ ClaimReplyLost(w, j)
      BY <2>2 DEF WorkerClaims, ClaimReplyLost
    <2>3. CASE \E j \in Jobs : InitialHeartbeat(w, j) \/ InitialHeartbeatFails(w, j)
      BY <2>3 DEF InitialHeartbeat, InitialHeartbeatFails, HeartbeatRenews, HeartbeatRefused
    <2>4. CASE \E j \in Jobs : HeartbeatEndsHandler(w, j) \/ HeartbeatReplyLost(w, j)
      BY <2>4 DEF HeartbeatEndsHandler, HeartbeatReplyLost, HeartbeatRefused
    <2>5. CASE \E j \in Jobs : WorkerCompletes(w, j) \/ WorkerRecordsAttention(w, j)
                            \/ WorkerFails(w, j)
      BY <2>5 DEF WorkerCompletes, WorkerRecordsAttention, WorkerFails
    <2>6. CASE WorkerFindsNothing(w)
      BY <2>6 DEF WorkerFindsNothing
    <2>7. CASE HandlerReturns(w) \/ HandlerRaises(w) \/ TerminalRequestLost(w) \/ Crash(w)
      BY <2>7 DEF HandlerReturns, HandlerRaises, TerminalRequestLost, Crash
    <2>8. QED
      BY <2>1, <2>2, <2>3, <2>4, <2>5, <2>6, <2>7 DEF WorkerStep
  <1>5. QED
    BY <1>1, <1>2, <1>3, <1>4 DEF Next

LEMMA QueueStepInv ==
  ASSUME QueueInv, [Next]_vars
  PROVE  QueueInv'
  <1>1. [QueueNext]_queueVars
    BY QueuePart, StaleSets DEF QueueNext
  <1>2. QED
    BY <1>1, QueueNextInv

\* Which worker remembers what after a step.
LEMMA WorkerPart ==
  ASSUME TypeOK, IdleHasNoJob, [Next]_vars
  PROVE  /\ pc' \in [Workers -> Steps]
         /\ cur' \in [Workers -> Jobs \cup {NoJob}]
         /\ attemptNo' \in [Workers -> 0..MaxAttempts]
         /\ IdleHasNoJob'
  <1> USE QueueAssumption, LoopAssumption
  <1>1. CASE UNCHANGED workerVars
    BY <1>1 DEF workerVars, TypeOK, IdleHasNoJob
  <1>2. CASE \E w \in Workers, j \in Jobs : WorkerClaims(w, j)
    <2>1. PICK w \in Workers, j \in Jobs : WorkerClaims(w, j)
      BY <1>2
    <2>2. attempts[j] + 1 \in 0..MaxAttempts
      BY <2>1 DEF WorkerClaims, Claim, First, Claimable, TypeOK, QueueTypeOK
    <2>3. QED
      BY <2>1, <2>2 DEF WorkerClaims, TypeOK, Steps, IdleHasNoJob
  <1>3. CASE \E w \in Workers : Release(w)
    BY <1>3 DEF Release, TypeOK, Steps, IdleHasNoJob
  <1>4. CASE \E w \in Workers :
               /\ pc[w] \in {"claimed", "handling"}
               /\ pc' \in {[pc EXCEPT ![w] = p] : p \in {"handling", "completing", "failing"}}
               /\ UNCHANGED <<cur, attemptNo>>
    BY <1>4 DEF TypeOK, Steps, IdleHasNoJob
  <1>5. \/ UNCHANGED workerVars
        \/ \E w \in Workers, j \in Jobs : WorkerClaims(w, j)
        \/ \E w \in Workers : Release(w)
        \/ \E w \in Workers :
               /\ pc[w] \in {"claimed", "handling"}
               /\ pc' \in {[pc EXCEPT ![w] = p] : p \in {"handling", "completing", "failing"}}
               /\ UNCHANGED <<cur, attemptNo>>
    <2>1. CASE UNCHANGED vars
      BY <2>1 DEF vars, workerVars
    <2>2. CASE \E j \in Jobs : UserEnqueues(j) \/ UserCancels(j)
                              \/ LeaseExpires(j) \/ JobBecomesDue(j)
      BY <2>2 DEF UserEnqueues, UserCancels, LeaseExpires, JobBecomesDue
    <2>3. CASE RevisionStep
      BY <2>3 DEF RevisionStep, RevisionSuperseded, RevisionLeavesApproved,
                  RevisionVerified, RevisionConfirmed
    <2>4. ASSUME NEW w \in Workers, WorkerStep(w)
          PROVE  \/ UNCHANGED workerVars
                 \/ \E j \in Jobs : WorkerClaims(w, j)
                 \/ Release(w)
                 \/ /\ pc[w] \in {"claimed", "handling"}
                    /\ pc' \in {[pc EXCEPT ![w] = p] : p \in {"handling", "completing", "failing"}}
                    /\ UNCHANGED <<cur, attemptNo>>
      <3>1. CASE \/ \E j \in Jobs : WorkerClaims(w, j) \/ ClaimReplyLost(w, j)
                 \/ WorkerFindsNothing(w)
        BY <3>1 DEF ClaimReplyLost, WorkerFindsNothing
      <3>2. CASE \E j \in Jobs : \/ InitialHeartbeat(w, j) \/ InitialHeartbeatFails(w, j)
                                 \/ HeartbeatEndsHandler(w, j) \/ HeartbeatReplyLost(w, j)
        BY <3>2 DEF InitialHeartbeat, InitialHeartbeatFails, HeartbeatEndsHandler,
                    HeartbeatReplyLost
      <3>3. CASE \E j \in Jobs : \/ WorkerCompletes(w, j) \/ WorkerRecordsAttention(w, j)
                                 \/ WorkerFails(w, j)
        BY <3>3 DEF WorkerCompletes, WorkerRecordsAttention, WorkerFails
      <3>4. CASE HandlerReturns(w) \/ HandlerRaises(w) \/ TerminalRequestLost(w) \/ Crash(w)
        BY <3>4 DEF HandlerReturns, HandlerRaises, TerminalRequestLost, Crash
      <3> QED
        BY <2>4, <3>1, <3>2, <3>3, <3>4 DEF WorkerStep
    <2>5. QED
      BY <2>1, <2>2, <2>3, <2>4 DEF Next
  <1>6. QED
    BY <1>1, <1>2, <1>3, <1>4, <1>5

LEMMA ApprovalPart ==
  ASSUME TypeOK, [Next]_vars
  PROVE  approval' \in [SubmitJobs -> {"current", "stale", "confirmed"}]
  <1>1. CASE UNCHANGED approval
    BY <1>1 DEF TypeOK
  <1>2. CASE \E j \in Jobs : UserEnqueues(j)
    BY <1>2 DEF UserEnqueues, TypeOK
  <1>3. CASE RevisionStep
    BY <1>3 DEF RevisionStep, RevisionSuperseded, RevisionLeavesApproved,
                RevisionVerified, RevisionConfirmed, TypeOK
  <1>4. CASE \E w \in Workers, j \in Jobs : WorkerRecordsAttention(w, j)
    BY <1>4 DEF WorkerRecordsAttention, TypeOK
  <1>5. CASE \E w \in Workers : WorkerStep(w)
    <2>1. PICK w \in Workers : WorkerStep(w)
      BY <1>5
    <2>2. CASE \/ \E j \in Jobs : WorkerClaims(w, j) \/ ClaimReplyLost(w, j)
               \/ WorkerFindsNothing(w)
      BY <1>1, <2>2 DEF WorkerClaims, ClaimReplyLost, WorkerFindsNothing
    <2>3. CASE \E j \in Jobs : \/ InitialHeartbeat(w, j) \/ InitialHeartbeatFails(w, j)
                               \/ HeartbeatEndsHandler(w, j) \/ HeartbeatReplyLost(w, j)
      BY <1>1, <2>3 DEF InitialHeartbeat, InitialHeartbeatFails, HeartbeatEndsHandler,
                        HeartbeatReplyLost
    <2>4. CASE \E j \in Jobs : \/ WorkerCompletes(w, j) \/ WorkerRecordsAttention(w, j)
                               \/ WorkerFails(w, j)
      BY <1>1, <1>4, <2>4 DEF WorkerCompletes, WorkerFails
    <2>5. CASE HandlerReturns(w) \/ HandlerRaises(w) \/ TerminalRequestLost(w) \/ Crash(w)
      BY <1>1, <2>5 DEF HandlerReturns, HandlerRaises, TerminalRequestLost, Crash
    <2>6. QED
      BY <2>1, <2>2, <2>3, <2>4, <2>5 DEF WorkerStep
  <1>6. QED
    BY <1>1, <1>2, <1>3, <1>5
    DEF Next, vars, UserCancels, LeaseExpires, JobBecomesDue

\* Steps that are not claims: what they do to the table, and that a worker
\* remembers afterwards only what it remembered before.
LEMMA OtherSteps ==
  ASSUME TypeOK, [Next]_vars,
         ~ \E v \in Workers, k \in Jobs : WorkerClaims(v, k) \/ ClaimReplyLost(v, k),
         ~ \E v \in Workers : WorkerFindsNothing(v)
  PROVE  /\ \/ UNCHANGED queueVars
            \/ \E k \in Jobs :
                \/ \E old \in SUBSET Jobs : Enqueue(k, old)
                \/ CancelJob(k) \/ ExpireLease(k) \/ BecomeDue(k)
                \/ \E v \in Workers :
                    \/ HeartbeatCancels(v, k)
                    \/ \E t \in {"succeeded", "needs_attention"} : CompleteJob(v, k, t)
                    \/ \E retry \in BOOLEAN : FailJob(v, k, retry)
            \/ \E S \in SUBSET SubmitJobs : CancelSuperseded(S)
         /\ \A w \in Workers, j \in Jobs :
               cur'[w] = j => cur[w] = j /\ attemptNo'[w] = attemptNo[w]
  <1> USE LoopAssumption
  <1> DEFINE Remembers == \A w \in Workers, j \in Jobs :
                            cur'[w] = j => cur[w] = j /\ attemptNo'[w] = attemptNo[w]
  <1>1. UNCHANGED <<cur, attemptNo>> => Remembers
    OBVIOUS
  <1>2. (\E v \in Workers : Release(v)) => Remembers
    BY DEF Release, TypeOK
  <1>3. CASE UNCHANGED vars
    BY <1>1, <1>3 DEF vars, workerVars
  <1>4. CASE \E j \in Jobs : UserEnqueues(j) \/ UserCancels(j)
                            \/ LeaseExpires(j) \/ JobBecomesDue(j)
    BY <1>1, <1>4 DEF UserEnqueues, UserCancels, LeaseExpires, JobBecomesDue, workerVars
  <1>5. CASE RevisionStep
    <2>1. Remembers
      BY <1>1, <1>5 DEF RevisionStep, RevisionSuperseded, RevisionLeavesApproved,
                        RevisionVerified, RevisionConfirmed, workerVars
    <2>2. UNCHANGED queueVars \/ \E S \in SUBSET SubmitJobs : CancelSuperseded(S)
      BY <1>5 DEF RevisionStep, RevisionSuperseded, RevisionLeavesApproved,
                  RevisionVerified, RevisionConfirmed
    <2>3. QED
      BY <2>1, <2>2
  <1>6. CASE \E w \in Workers : WorkerStep(w)
    <2>1. PICK w \in Workers : WorkerStep(w)
      BY <1>6
    <2>2. CASE \E j \in Jobs : InitialHeartbeat(w, j) \/ InitialHeartbeatFails(w, j)
      BY <1>1, <1>2, <2>2
      DEF InitialHeartbeat, InitialHeartbeatFails, HeartbeatRenews, HeartbeatRefused
    <2>3. CASE \E j \in Jobs : HeartbeatEndsHandler(w, j) \/ HeartbeatReplyLost(w, j)
      BY <1>1, <1>2, <2>3
      DEF HeartbeatEndsHandler, HeartbeatReplyLost, HeartbeatRefused, workerVars
    <2>4. CASE \E j \in Jobs : WorkerCompletes(w, j) \/ WorkerRecordsAttention(w, j)
                            \/ WorkerFails(w, j)
      BY <1>2, <2>4 DEF WorkerCompletes, WorkerRecordsAttention, WorkerFails
    <2>5. CASE HandlerReturns(w) \/ HandlerRaises(w) \/ TerminalRequestLost(w) \/ Crash(w)
      BY <1>1, <1>2, <2>5 DEF HandlerReturns, HandlerRaises, TerminalRequestLost, Crash
    <2>6. QED
      BY <2>1, <2>2, <2>3, <2>4, <2>5 DEF WorkerStep
  <1>7. QED
    BY <1>3, <1>4, <1>5, <1>6 DEF Next

LEMMA FenceStep ==
  ASSUME IInv, [Next]_vars
  PROVE  FenceIsPerAttempt'
  <1> SUFFICES ASSUME NEW w \in Workers, NEW j \in Jobs,
                      cur'[w] = j, HoldsLease(w, j)'
               PROVE  attemptNo'[w] = attempts'[j]
    BY DEF FenceIsPerAttempt
  <1>1. QueueInv /\ TypeOK /\ IdleHasNoJob /\ FenceIsPerAttempt
    BY DEF IInv
  <1>2. ASSUME cur[w] = j, attemptNo'[w] = attemptNo[w],
               HoldsLease(w, j), attempts'[j] = attempts[j]
        PROVE  attemptNo'[w] = attempts'[j]
    BY <1>1, <1>2 DEF FenceIsPerAttempt
  <1>3. ASSUME NEW v \in Workers, NEW k \in Jobs, Claim(v, k, Stale, Confirmed)
        PROVE  IF j = k THEN w = v /\ attempts'[j] = attempts[j] + 1
                        ELSE HoldsLease(w, j) /\ attempts'[j] = attempts[j]
    <2>1. /\ {k} \in SUBSET Claimable(Stale, Confirmed)
          /\ SweepAndTake(v, {k}, Stale, Confirmed)
      BY <1>3 DEF Claim, First
    <2>2. IF j \in {k} THEN w = v /\ attempts'[j] = attempts[j] + 1
                       ELSE HoldsLease(w, j) /\ attempts'[j] = attempts[j]
      BY <1>1, <2>1, StaleSets, ClaimLeases
    <2>3. QED
      BY <2>2
  <1>4. CASE \E v \in Workers, k \in Jobs : WorkerClaims(v, k)
    <2>1. PICK v \in Workers, k \in Jobs : WorkerClaims(v, k)
      BY <1>4
    <2>2. /\ cur' = [cur EXCEPT ![v] = k]
          /\ attemptNo' = [attemptNo EXCEPT ![v] = attempts[k] + 1]
          /\ Claim(v, k, Stale, Confirmed)
      BY <2>1 DEF WorkerClaims
    <2>3. CASE w = v
      BY <1>1, <1>3, <2>2, <2>3 DEF TypeOK
    <2>4. CASE w # v
      BY <1>1, <1>2, <1>3, <2>2, <2>4 DEF TypeOK
    <2>5. QED
      BY <2>3, <2>4
  <1>5. CASE \E v \in Workers, k \in Jobs : ClaimReplyLost(v, k)
    <2>1. PICK v \in Workers, k \in Jobs : ClaimReplyLost(v, k)
      BY <1>5
    <2>2. /\ pc[v] = "idle" /\ cur' = cur /\ attemptNo' = attemptNo
          /\ Claim(v, k, Stale, Confirmed)
      BY <2>1 DEF ClaimReplyLost, workerVars
    <2>3. w # v
      BY <1>1, <2>2, LoopAssumption DEF IdleHasNoJob
    <2>4. QED
      BY <1>2, <1>3, <2>2, <2>3
  <1>6. CASE \E v \in Workers : WorkerFindsNothing(v)
    <2>1. PICK v \in Workers : WorkerFindsNothing(v)
      BY <1>6
    <2>2. /\ cur' = cur /\ attemptNo' = attemptNo
          /\ SweepAndTake(v, {}, Stale, Confirmed)
      BY <2>1 DEF WorkerFindsNothing, ClaimNothing, workerVars
    <2>3. HoldsLease(w, j) /\ attempts'[j] = attempts[j]
      <3>1. {} \in SUBSET Claimable(Stale, Confirmed)
        OBVIOUS
      <3>2. QED
        BY <1>1, <2>2, <3>1, StaleSets, ClaimLeases
    <2>4. QED
      BY <1>2, <2>2, <2>3
  <1>7. CASE /\ ~ \E v \in Workers, k \in Jobs : WorkerClaims(v, k) \/ ClaimReplyLost(v, k)
             /\ ~ \E v \in Workers : WorkerFindsNothing(v)
    <2>1. cur[w] = j /\ attemptNo'[w] = attemptNo[w]
      BY <1>1, <1>7, OtherSteps
    <2>2. HoldsLease(w, j) /\ attempts'[j] = attempts[j]
      BY <1>1, <1>7, OtherSteps, LeaseOnlyByClaim
    <2>3. QED
      BY <1>2, <2>1, <2>2
  <1>8. QED
    BY <1>4, <1>5, <1>6, <1>7

LEMMA InitIInv == Init => IInv
  <1> SUFFICES ASSUME Init PROVE IInv
    OBVIOUS
  <1>1. QueueInv
    BY QueueInitInv DEF Init
  <1>2. TypeOK /\ IdleHasNoJob
    BY <1>1, QueueAssumption DEF Init, TypeOK, QueueInv, IdleHasNoJob, Steps
  <1>3. FenceIsPerAttempt
    BY LoopAssumption DEF Init, FenceIsPerAttempt
  <1>4. QED
    BY <1>1, <1>2, <1>3 DEF IInv

LEMMA StepIInv ==
  ASSUME IInv, [Next]_vars
  PROVE  IInv'
  <1>1. QueueInv'
    BY QueueStepInv DEF IInv
  <1>2. TypeOK' /\ IdleHasNoJob'
    BY <1>1, WorkerPart, ApprovalPart DEF IInv, TypeOK, QueueInv
  <1>3. FenceIsPerAttempt'
    BY FenceStep
  <1>4. QED
    BY <1>1, <1>2, <1>3 DEF IInv

\* The inductive invariant, and with it every invariant the runs check: types,
\* one running row per user and provider, locks, waiting rows that can start,
\* cancellations that win, and the fence per attempt.
THEOREM LoopInvariant == Spec => []IInv
  <1>1. Init => IInv
    BY InitIInv
  <1>2. IInv /\ [Next]_vars => IInv'
    BY StepIInv
  <1>3. QED
    BY <1>1, <1>2, PTL DEF Spec

\* Types of the queue's and the workers' state.
THEOREM TypeCorrect == Spec => []TypeOK
  <1>1. IInv => TypeOK
    BY DEF IInv
  <1>2. QED
    BY <1>1, LoopInvariant, PTL

\* claim_automation_job never runs two rows of a user and provider at a time.
THEOREM MutualExclusion == Spec => []OneRunningPerLane
  <1>1. IInv => OneRunningPerLane
    BY DEF IInv, QueueInv
  <1>2. QED
    BY <1>1, LoopInvariant, PTL

\* locked_by and lease_expires_at are set exactly on the rows that run.
THEOREM LocksMatch == Spec => []LockedIffRunning
  <1>1. IInv => LockedIffRunning
    BY DEF IInv, QueueInv
  <1>2. QED
    BY <1>1, LoopInvariant, PTL

\* No queued row is left with its attempts spent or its cancellation requested.
THEOREM NothingStuckInLine == Spec => []WaitingIsStartable
  <1>1. IInv => WaitingIsStartable
    BY DEF IInv, QueueInv
  <1>2. QED
    BY <1>1, LoopInvariant, PTL

\* A row asked to be cancelled is running or cancelled, whatever the worker says.
THEOREM CancellationIsFinal == Spec => []CancellationWins
  <1>1. IInv => CancellationWins
    BY DEF IInv, QueueInv
  <1>2. QED
    BY <1>1, LoopInvariant, PTL

\* locked_by, although it is not a fencing token, separates the attempts.
THEOREM FenceHolds == Spec => []FenceIsPerAttempt
  <1>1. IInv => FenceIsPerAttempt
    BY DEF IInv
  <1>2. QED
    BY <1>1, LoopInvariant, PTL

\* The queue with its workers, leases and lost calls implements JobLifecycle.
THEOREM Implementation == Spec => ImplementsLifecycle
  <1>1. Init => Lifecycle!Init
    BY DEF Init, QueueInit, Lifecycle!Init
  <1>2. IInv /\ [Next]_vars => [Lifecycle!Next]_Lifecycle!vars
    <2> SUFFICES ASSUME IInv, [Next]_vars PROVE [Lifecycle!Next]_Lifecycle!vars
      OBVIOUS
    <2>1. QueueInv /\ QueueTypeOK'
      BY QueueStepInv DEF IInv, QueueInv
    <2>2. CASE UNCHANGED queueVars
      BY <2>2 DEF queueVars, Lifecycle!vars
    <2>3. CASE \E k \in Jobs, old \in SUBSET Jobs : Enqueue(k, old)
      BY <2>1, <2>3, EnqueueStep, RowwiseStep
    <2>4. CASE \E k \in Jobs : CancelJob(k)
      BY <2>1, <2>4, CancelJobStep, RowwiseStep
    <2>5. CASE \E k \in Jobs : ExpireLease(k) \/ BecomeDue(k)
      BY <2>5 DEF ExpireLease, BecomeDue, Lifecycle!vars
    <2>6. CASE \E k \in Jobs, v \in Workers :
                 \/ HeartbeatCancels(v, k)
                 \/ \E t \in {"succeeded", "needs_attention"} : CompleteJob(v, k, t)
                 \/ FailJob(v, k, TRUE)
      BY <2>1, <2>6, HolderStep, RowwiseStep
    <2>7. CASE \E S \in SUBSET SubmitJobs : CancelSuperseded(S)
      BY <2>1, <2>7, CancelSupersededStep, RowwiseStep
    <2>8. CASE \E v \in Workers :
                 \/ \E k \in Jobs : Claim(v, k, Stale, Confirmed)
                 \/ ClaimNothing(v, Stale, Confirmed)
      BY <2>1, <2>8, StaleSets, ClaimStep, RowwiseStep
    <2>9. QED
      BY <2>2, <2>3, <2>4, <2>5, <2>6, <2>7, <2>8, QueuePart
  <1>3. QED
    BY <1>1, <1>2, LoopInvariant, PTL DEF Spec, ImplementsLifecycle, Lifecycle!Spec

=============================================================================
