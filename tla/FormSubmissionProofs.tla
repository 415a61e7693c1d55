------------------------ MODULE FormSubmissionProofs ------------------------
(***************************************************************************)
(* For any scan and submit rows of an application, any workers and any     *)
(* number of revisions: FormSubmission implements WorkerLoop, its          *)
(* invariants hold, and a submitted application stays closed.              *)
(*                                                                         *)
(* FormSubmission sees the queue as Loop, an instance of WorkerLoop.  What *)
(* WorkerLoopProofs has proved is used through LoopP, the same instance of *)
(* that module; the first section shows that the two say the same.         *)
(***************************************************************************)
EXTENDS FormSubmission, FiniteSetTheorems, TLAPS

LoopP == INSTANCE WorkerLoopProofs WITH approval <- Approval

-----------------------------------------------------------------------------
(* Loop and LoopP are one specification *)

LEMMA LoopAssumptions == LoopP!QueueAssumption /\ LoopP!LoopAssumption
  BY FormAssumption DEF Loop!QueueAssumption, LoopP!QueueAssumption,
                        Loop!LoopAssumption, LoopP!LoopAssumption

LEMMA SameInit == Loop!Init <=> LoopP!Init
  BY Zenon DEF Loop!Init, LoopP!Init, Loop!QueueInit, LoopP!QueueInit

LEMMA SameUserSteps ==
  ASSUME NEW j \in Jobs
  PROVE  \/ Loop!UserEnqueues(j) \/ Loop!UserCancels(j)
         \/ Loop!LeaseExpires(j) \/ Loop!JobBecomesDue(j)
         <=>
         \/ LoopP!UserEnqueues(j) \/ LoopP!UserCancels(j)
         \/ LoopP!LeaseExpires(j) \/ LoopP!JobBecomesDue(j)
  BY Zenon DEF Loop!UserEnqueues, LoopP!UserEnqueues, Loop!UserCancels, LoopP!UserCancels,
               Loop!LeaseExpires, LoopP!LeaseExpires, Loop!JobBecomesDue, LoopP!JobBecomesDue,
               Loop!Enqueue, LoopP!Enqueue, Loop!CancelJob, LoopP!CancelJob,
               Loop!ExpireLease, LoopP!ExpireLease, Loop!BecomeDue, LoopP!BecomeDue,
               Loop!Lined, LoopP!Lined, Loop!InLine, LoopP!InLine, Loop!Active, LoopP!Active,
               Loop!Terminal, LoopP!Terminal, Loop!workerVars, LoopP!workerVars,
               Loop!Cardinality, LoopP!Cardinality, Loop!IsFiniteSet, LoopP!IsFiniteSet

LEMMA SameRevisionStep == Loop!RevisionStep <=> LoopP!RevisionStep
  BY Zenon DEF Loop!RevisionStep, LoopP!RevisionStep,
               Loop!RevisionSuperseded, LoopP!RevisionSuperseded,
               Loop!RevisionLeavesApproved, LoopP!RevisionLeavesApproved,
               Loop!RevisionVerified, LoopP!RevisionVerified,
               Loop!RevisionConfirmed, LoopP!RevisionConfirmed,
               Loop!CancelSuperseded, LoopP!CancelSuperseded, Loop!HoldsLease, LoopP!HoldsLease,
               Loop!Lined, LoopP!Lined, Loop!InLine, LoopP!InLine, Loop!Active, LoopP!Active,
               Loop!workerVars, LoopP!workerVars, Loop!queueVars, LoopP!queueVars

LEMMA SameWorkerStep ==
  ASSUME NEW w \in Workers
  PROVE  Loop!WorkerStep(w) <=> LoopP!WorkerStep(w)
  BY Zenon DEF Loop!WorkerStep, LoopP!WorkerStep, Loop!WorkerClaims, LoopP!WorkerClaims,
               Loop!ClaimReplyLost, LoopP!ClaimReplyLost,
               Loop!InitialHeartbeat, LoopP!InitialHeartbeat,
               Loop!InitialHeartbeatFails, LoopP!InitialHeartbeatFails,
               Loop!HeartbeatEndsHandler, LoopP!HeartbeatEndsHandler,
               Loop!HeartbeatReplyLost, LoopP!HeartbeatReplyLost,
               Loop!WorkerCompletes, LoopP!WorkerCompletes,
               Loop!WorkerRecordsAttention, LoopP!WorkerRecordsAttention,
               Loop!WorkerFails, LoopP!WorkerFails,
               Loop!WorkerFindsNothing, LoopP!WorkerFindsNothing,
               Loop!HandlerReturns, LoopP!HandlerReturns,
               Loop!HandlerRaises, LoopP!HandlerRaises,
               Loop!TerminalRequestLost, LoopP!TerminalRequestLost, Loop!Crash, LoopP!Crash,
               Loop!Claim, LoopP!Claim, Loop!Stale, LoopP!Stale,
               Loop!Confirmed, LoopP!Confirmed, Loop!workerVars, LoopP!workerVars,
               Loop!HeartbeatRenews, LoopP!HeartbeatRenews,
               Loop!HeartbeatCancels, LoopP!HeartbeatCancels,
               Loop!HeartbeatRefused, LoopP!HeartbeatRefused, Loop!Release, LoopP!Release,
               Loop!queueVars, LoopP!queueVars, Loop!CompleteJob, LoopP!CompleteJob,
               Loop!HoldsLease, LoopP!HoldsLease, Loop!FailJob, LoopP!FailJob,
               Loop!ClaimNothing, LoopP!ClaimNothing, Loop!First, LoopP!First,
               Loop!SweepAndTake, LoopP!SweepAndTake, Loop!Unlock, LoopP!Unlock,
               Loop!Claimable, LoopP!Claimable, Loop!Lined, LoopP!Lined,
               Loop!Requeued, LoopP!Requeued, Loop!Withdrawn, LoopP!Withdrawn,
               Loop!Exhausted, LoopP!Exhausted, Loop!Revoked, LoopP!Revoked,
               Loop!InLine, LoopP!InLine, Loop!SameLane, LoopP!SameLane,
               Loop!Expired, LoopP!Expired

LEMMA SameNext == [Loop!Next]_(Loop!vars) <=> [LoopP!Next]_(LoopP!vars)
  <1>1. Loop!Next <=> LoopP!Next
    BY Zenon, SameUserSteps, SameRevisionStep, SameWorkerStep DEF Loop!Next, LoopP!Next
  <1>2. UNCHANGED Loop!vars <=> UNCHANGED LoopP!vars
    BY Zenon DEF Loop!vars, LoopP!vars, Loop!queueVars, LoopP!queueVars,
                 Loop!workerVars, LoopP!workerVars
  <1> QED
    BY <1>1, <1>2

\* What holds of every run of WorkerLoop.
LEMMA LoopKeeps ==
  ASSUME LoopP!IInv, [Loop!Next]_(Loop!vars)
  PROVE  LoopP!IInv'
  BY LoopAssumptions, SameNext, LoopP!StepIInv

LEMMA LoopStarts == Loop!Init => LoopP!IInv
  BY LoopAssumptions, SameInit, LoopP!InitIInv

\* The parts of it that are used here.
LEMMA LoopFacts ==
  ASSUME LoopP!IInv
  PROVE  /\ Loop!TypeOK
         /\ \A j \in Jobs :
               /\ (status[j] = "running") <=> (lockedBy[j] # Nobody)
               /\ (status[j] = "running") <=> (lease[j] # "none")
               /\ status[j] = "queued" => ~cancelReq[j]
               /\ cancelReq[j] => status[j] \in {"running", "cancelled"}
         /\ \A w \in Workers : pc[w] = "idle" => cur[w] = NoJob
  <1>1. Loop!TypeOK
    BY Zenon DEF LoopP!IInv, Loop!TypeOK, LoopP!TypeOK, Loop!QueueTypeOK, LoopP!QueueTypeOK,
                 Loop!Steps, LoopP!Steps, Loop!Statuses, LoopP!Statuses,
                 Loop!Active, LoopP!Active, Loop!Terminal, LoopP!Terminal
  <1> QED
    BY <1>1 DEF LoopP!IInv, LoopP!QueueInv, LoopP!LockedIffRunning, LoopP!WaitingIsStartable,
                LoopP!CancellationWins, LoopP!IdleHasNoJob

-----------------------------------------------------------------------------
(* The inductive invariant *)

\* Revisions are numbered without a gap, and what their columns say agrees: only
\* a submitted revision has a confirmation, and a verdict "not submitted" is about
\* a revision that was replaced.
RevisionOK(r) ==
    /\ rstatus[r] # "none" <=> r <= Latest
    /\ rstatus[r] # "none" /\ r < Latest => rstatus[r] = "superseded"
    /\ outcome[r] = "confirmed" <=> rstatus[r] = "submitted"
    /\ verdict[r] \in {"provider", "user"} <=> rstatus[r] = "submitted"
    /\ verdict[r] = "not_submitted" => rstatus[r] = "superseded"
    /\ verdict[r] = "provider" => accepted[r] > 0
    /\ rstatus[r] \in {"none", "scanned", "approved"} => outcome[r] = "none"
    /\ rstatus[r] = "superseded" /\ outcome[r] = "uncertain" => verdict[r] = "not_submitted"

\* The provider's own confirmation is on record.
Proved(r) == rstatus[r] = "submitted" /\ verdict[r] = "provider"

\* A submit row has a revision that was approved; while it is active that one is
\* still current, or closed by the provider's confirmation; and what its result
\* says is not lost with it.
RowOK(j) ==
    /\ formRev[j] = 0 <=> status[j] = "absent"
    /\ formRev[j] # 0 => rstatus[formRev[j]] \in {"approved", "submitted", "needs_attention",
                                                  "superseded"}
    /\ status[j] \in Loop!Active =>
          result[j] = "none" /\ (Current(formRev[j]) \/ Proved(formRev[j]))
    /\ status[j] = "succeeded" => Proved(formRev[j])
    /\ formRev[j] # 0 /\ result[j] = "confirmed" => rstatus[formRev[j]] = "submitted"
    /\ formRev[j] # 0 /\ result[j] = "uncertain" =>
          /\ rstatus[formRev[j]] # "approved"
          /\ rstatus[formRev[j]] = "superseded" => verdict[formRev[j]] = "not_submitted"

\* One attempt per revision.
OneAttempt ==
    \A j, k \in SubmitJobs : formRev[j] # 0 /\ formRev[j] = formRev[k] => j = k

\* What worker w has seen is about its row: the provider took the form it clicked,
\* and a success it is about to report is on record.
HandOK(w) ==
    /\ pc[w] \in {"idle", "claimed"} => hand[w] = Fresh
    /\ pc[w] = "idle" => cur[w] = NoJob
    /\ pc[w] # "idle" => cur[w] \in Jobs /\ status[cur[w]] # "absent"
    /\ hand[w].at \in {"click", "observe", "record", "recorded"} => Submitting(w)
    /\ hand[w].state # "none" \/ hand[w].taken => Submitting(w)
    /\ hand[w].at = "stored" => ~Submitting(w)
    /\ hand[w].at \in {"resolve", "fill", "click"} => ~hand[w].taken
    /\ hand[w].taken => accepted[formRev[cur[w]]] > 0
    /\ hand[w].at \in {"record", "recorded"} => hand[w].state = "confirmed"
    /\ hand[w].state = "confirmed" => hand[w].taken
    /\ Submitting(w) /\ hand[w].ends = "succeeded" =>
          hand[w].state = "confirmed" /\ Proved(formRev[cur[w]])

FormInv ==
    /\ FormTypeOK
    /\ \A r \in Revisions : RevisionOK(r)
    /\ \A j \in SubmitJobs : RowOK(j)
    /\ OneAttempt
    /\ \A w \in Workers : HandOK(w)

USE FormAssumption

LEMMA Assumptions ==
  /\ MaxRevision \in Nat \ {0} /\ Revisions = 1..MaxRevision
  /\ Nobody \notin Workers /\ SubmitJobs \subseteq Jobs /\ NoJob \notin Jobs
  /\ MaxAttempts \in Nat \ {0}
  BY DEF Loop!QueueAssumption, Loop!LoopAssumption, Revisions

-----------------------------------------------------------------------------
(* Revisions and what the queue sees of them *)

LEMMA LatestOf ==
  ASSUME NEW n \in 0..MaxRevision, \A r \in Revisions : rstatus[r] # "none" <=> r <= n
  PROVE  Latest = n
  <1>1. Existing = 1..n
    BY Assumptions DEF Existing
  <1>2. Cardinality(1..n) = n
    BY FS_Interval
  <1> QED
    BY <1>1, <1>2 DEF Latest

LEMMA LatestNext ==
  ASSUME NEW n \in 0..MaxRevision, \A r \in Revisions : rstatus'[r] # "none" <=> r <= n
  PROVE  Latest' = n
  <1>1. Existing' = 1..n
    BY Assumptions DEF Existing
  <1>2. Cardinality(1..n) = n
    BY FS_Interval
  <1> QED
    BY <1>1, <1>2 DEF Latest

LEMMA LatestType == Latest \in 0..MaxRevision
  <1>1. Existing \subseteq 1..MaxRevision
    BY Assumptions DEF Existing
  <1>2. IsFiniteSet(1..MaxRevision) /\ Cardinality(1..MaxRevision) = MaxRevision
    BY Assumptions, FS_Interval
  <1>3. IsFiniteSet(Existing) /\ Cardinality(Existing) <= Cardinality(1..MaxRevision)
    BY <1>1, <1>2, FS_Subset
  <1>4. Cardinality(Existing) \in Nat
    BY <1>3, FS_CardinalityType
  <1> QED
    BY <1>2, <1>3, <1>4, Assumptions DEF Latest

LEMMA ApprovalKept ==
  ASSUME UNCHANGED <<rstatus, outcome, formRev>>
  PROVE  UNCHANGED Approval /\ UNCHANGED Latest
  BY DEF Approval, Current, Latest, Existing

-----------------------------------------------------------------------------
(* What the queue's own steps do to the rows *)

\* A step that neither adds nor deletes a row, starts none again that had ended,
\* and reports no success.
RowsCalm ==
    \A j \in Jobs :
        /\ status'[j] = "absent" <=> status[j] = "absent"
        /\ status'[j] \in Loop!Active => status[j] \in Loop!Active
        /\ status'[j] = "succeeded" => status[j] = "succeeded"

LEMMA ClaimableRows ==
  ASSUME NEW S, NEW C, NEW j \in Loop!Claimable(S, C)
  PROVE  /\ j \in Jobs /\ j \notin S
         /\ j \notin Loop!Withdrawn(S, C) /\ j \notin Loop!Exhausted(S, C)
         /\ \/ status[j] = "queued"
            \/ status[j] = "running" /\ lease[j] = "expired"
  BY DEF Loop!Claimable, Loop!InLine, Loop!Requeued, Loop!Exhausted, Loop!Expired

LEMMA SweepCalm ==
  ASSUME Loop!TypeOK, NEW w, NEW S, NEW C, NEW taken \in SUBSET Loop!Claimable(S, C),
         Loop!SweepAndTake(w, taken, S, C)
  PROVE  RowsCalm
  <1> SUFFICES ASSUME NEW j \in Jobs
               PROVE  /\ status'[j] = "absent" <=> status[j] = "absent"
                      /\ status'[j] \in Loop!Active => status[j] \in Loop!Active
                      /\ status'[j] = "succeeded" => status[j] = "succeeded"
    BY DEF RowsCalm
  <1>1. CASE j \in taken
    <2>1. status'[j] = "running"
      BY <1>1, ClaimableRows DEF Loop!SweepAndTake
    <2>2. status[j] \in Loop!Active
      BY <1>1, ClaimableRows DEF Loop!Active
    <2> QED
      BY <2>1, <2>2 DEF Loop!Active
  <1>2. CASE /\ j \notin taken
             /\ \/ j \in Loop!Withdrawn(S, C) \/ j \in Loop!Exhausted(S, C)
                \/ j \in Loop!Requeued(S, C)
    <2>1. status[j] \in Loop!Active
      BY <1>2 DEF Loop!Withdrawn, Loop!Exhausted, Loop!Requeued, Loop!Expired, Loop!Active
    <2>2. status'[j] \in {"cancelled", "failed", "queued"}
      BY <1>2 DEF Loop!SweepAndTake
    <2> QED
      BY <2>1, <2>2 DEF Loop!Active
  <1>3. CASE /\ j \notin taken
             /\ j \notin Loop!Withdrawn(S, C) /\ j \notin Loop!Exhausted(S, C)
             /\ j \notin Loop!Requeued(S, C)
    <2>1. status'[j] = status[j]
      BY <1>3 DEF Loop!SweepAndTake
    <2> QED
      BY <2>1
  <1> QED
    BY <1>1, <1>2, <1>3

LEMMA ClaimCalm ==
  ASSUME Loop!TypeOK, NEW w, NEW S, NEW C,
         \/ \E j \in Jobs : Loop!Claim(w, j, S, C)
         \/ Loop!ClaimNothing(w, S, C)
  PROVE  RowsCalm
  <1>1. CASE \E j \in Jobs : Loop!Claim(w, j, S, C)
    <2>1. PICK j \in Jobs : Loop!Claim(w, j, S, C)
      BY <1>1
    <2>2. {j} \in SUBSET Loop!Claimable(S, C) /\ Loop!SweepAndTake(w, {j}, S, C)
      BY <2>1 DEF Loop!Claim, Loop!First
    <2> QED
      BY <2>2, SweepCalm
  <1>2. CASE Loop!ClaimNothing(w, S, C)
    <2>1. {} \in SUBSET Loop!Claimable(S, C) /\ Loop!SweepAndTake(w, {}, S, C)
      BY <1>2 DEF Loop!ClaimNothing
    <2> QED
      BY <2>1, SweepCalm
  <1> QED
    BY <1>1, <1>2

LEMMA OtherCalm ==
  ASSUME Loop!TypeOK,
         \/ UNCHANGED queue
         \/ \E S \in SUBSET SubmitJobs : Loop!CancelSuperseded(S)
         \/ \E j \in Jobs :
             \/ Loop!CancelJob(j) \/ Loop!ExpireLease(j) \/ Loop!BecomeDue(j)
             \/ \E v \in Workers : \/ Loop!HeartbeatCancels(v, j) \/ Loop!FailJob(v, j, TRUE)
                                   \/ Loop!CompleteJob(v, j, "needs_attention")
  PROVE  RowsCalm
  <1> USE Assumptions DEF RowsCalm, Loop!Active, Loop!TypeOK, Loop!QueueTypeOK
  <1>1. CASE UNCHANGED queue
    BY <1>1 DEF queue
  <1>2. CASE \E S \in SUBSET SubmitJobs : Loop!CancelSuperseded(S)
    BY <1>2 DEF Loop!CancelSuperseded
  <1>3. CASE \E j \in Jobs : Loop!CancelJob(j) \/ Loop!ExpireLease(j) \/ Loop!BecomeDue(j)
    BY <1>3 DEF Loop!CancelJob, Loop!ExpireLease, Loop!BecomeDue
  <1>4. CASE \E j \in Jobs, v \in Workers :
               \/ Loop!HeartbeatCancels(v, j) \/ Loop!FailJob(v, j, TRUE)
               \/ Loop!CompleteJob(v, j, "needs_attention")
    BY <1>4 DEF Loop!HeartbeatCancels, Loop!FailJob, Loop!CompleteJob, Loop!HoldsLease
  <1> QED
    BY <1>1, <1>2, <1>3, <1>4

-----------------------------------------------------------------------------
(* The worker's own steps *)

\* Only worker w moves.
OthersStay(w) ==
    \A v \in Workers \ {w} : pc'[v] = pc[v] /\ cur'[v] = cur[v] /\ hand'[v] = hand[v]

\* What a step of run_once, other than a completion, does to worker w.
Moves(w) ==
    \/ /\ pc[w] = "idle" /\ pc'[w] = "claimed" /\ hand'[w] = hand[w]
       /\ cur'[w] \in Jobs /\ status'[cur'[w]] = "running"
    \/ pc[w] = "claimed" /\ pc'[w] = "handling" /\ cur'[w] = cur[w] /\ hand'[w] = hand[w]
    \/ pc'[w] = "idle" /\ cur'[w] = NoJob /\ hand'[w] = Fresh
    \/ pc'[w] = pc[w] /\ cur'[w] = cur[w] /\ hand'[w] = hand[w]

LEMMA Released ==
  ASSUME FormTypeOK, NEW w \in Workers, Loop!Release(w)
  PROVE  /\ pc'[w] = "idle" /\ cur'[w] = NoJob
         /\ \A v \in Workers \ {w} : pc'[v] = pc[v] /\ cur'[v] = cur[v]
  BY DEF Loop!Release, FormTypeOK, Loop!TypeOK

LEMMA RunOnceMoves ==
  ASSUME FormInv, NEW w \in Workers, RunOnce(w)
  PROVE  RowsCalm /\ OthersStay(w) /\ Moves(w)
  <1>0. FormTypeOK /\ Loop!TypeOK /\ HandOK(w)
    BY DEF FormInv, FormTypeOK
  <1>1. hand' = [hand EXCEPT ![w] = IF pc'[w] = "idle" THEN Fresh ELSE @]
    BY DEF RunOnce
  <1>2. hand'[w] = (IF pc'[w] = "idle" THEN Fresh ELSE hand[w])
        /\ \A v \in Workers \ {w} : hand'[v] = hand[v]
    BY <1>0, <1>1 DEF FormTypeOK
  <1>3. CASE \E j \in Jobs : Loop!WorkerClaims(w, j)
    <2>1. PICK j \in Jobs : Loop!WorkerClaims(w, j)
      BY <1>3
    <2>2. RowsCalm
      BY <1>0, <2>1, ClaimCalm DEF Loop!WorkerClaims
    <2>3. /\ pc[w] = "idle" /\ pc'[w] = "claimed" /\ cur'[w] = j
          /\ \A v \in Workers \ {w} : pc'[v] = pc[v] /\ cur'[v] = cur[v]
      BY <1>0, <2>1 DEF Loop!WorkerClaims, Loop!TypeOK
    <2>4. status'[j] = "running"
      <3>1. j \in Loop!Claimable(Loop!Stale, Loop!Confirmed)
            /\ Loop!SweepAndTake(w, {j}, Loop!Stale, Loop!Confirmed)
        BY <2>1 DEF Loop!WorkerClaims, Loop!Claim, Loop!First
      <3> QED
        BY <3>1, ClaimableRows DEF Loop!SweepAndTake
    <2> QED
      BY <1>2, <2>2, <2>3, <2>4 DEF OthersStay, Moves
  <1>4. CASE (\E j \in Jobs : Loop!ClaimReplyLost(w, j)) \/ Loop!WorkerFindsNothing(w)
    <2>1. RowsCalm
      BY <1>0, <1>4, ClaimCalm DEF Loop!ClaimReplyLost, Loop!WorkerFindsNothing
    <2>2. UNCHANGED <<pc, cur>> /\ pc[w] = "idle"
      BY <1>4 DEF Loop!ClaimReplyLost, Loop!WorkerFindsNothing, Loop!workerVars
    <2> QED
      BY <1>0, <1>2, <2>1, <2>2 DEF OthersStay, Moves, HandOK
  <1>5. CASE \E j \in Jobs : Loop!InitialHeartbeat(w, j)
    <2>1. PICK j \in Jobs : Loop!InitialHeartbeat(w, j)
      BY <1>5
    <2>2. RowsCalm
      BY <1>0, <2>1, OtherCalm DEF Loop!InitialHeartbeat, Loop!HeartbeatRenews, Loop!HeartbeatRefused,
                                   Loop!queueVars, queue
    <2>3. CASE Loop!Release(w)
      BY <1>0, <1>2, <2>2, <2>3, Released DEF OthersStay, Moves
    <2>4. CASE ~Loop!Release(w)
      <3>1. pc[w] = "claimed" /\ pc' = [pc EXCEPT ![w] = "handling"] /\ cur' = cur
        BY <2>1, <2>4 DEF Loop!InitialHeartbeat
      <3> QED
        BY <1>0, <1>2, <2>2, <3>1 DEF OthersStay, Moves, Loop!TypeOK
    <2> QED
      BY <2>3, <2>4
  <1>6. CASE \E j \in Jobs : \/ Loop!InitialHeartbeatFails(w, j)
                            \/ Loop!HeartbeatEndsHandler(w, j) \/ Loop!WorkerFails(w, j)
    <2>1. RowsCalm
      BY <1>0, <1>6, OtherCalm DEF Loop!InitialHeartbeatFails, Loop!HeartbeatEndsHandler,
                                   Loop!WorkerFails, Loop!HeartbeatRefused, Loop!queueVars, queue
    <2>2. Loop!Release(w)
      BY <1>6 DEF Loop!InitialHeartbeatFails, Loop!HeartbeatEndsHandler, Loop!WorkerFails
    <2> QED
      BY <1>0, <1>2, <2>1, <2>2, Released DEF OthersStay, Moves
  <1>7. CASE \E j \in Jobs : Loop!HeartbeatReplyLost(w, j)
    <2>1. RowsCalm
      BY <1>0, <1>7, OtherCalm DEF Loop!HeartbeatReplyLost
    <2>2. UNCHANGED <<pc, cur>> /\ pc[w] = "handling"
      BY <1>7 DEF Loop!HeartbeatReplyLost, Loop!workerVars
    <2> QED
      BY <1>0, <1>2, <2>1, <2>2 DEF OthersStay, Moves, HandOK
  <1>8. CASE Loop!TerminalRequestLost(w) \/ Loop!Crash(w)
    <2>1. RowsCalm
      BY <1>0, <1>8, OtherCalm DEF Loop!TerminalRequestLost, Loop!Crash, Loop!queueVars, queue
    <2>2. Loop!Release(w)
      BY <1>8 DEF Loop!TerminalRequestLost, Loop!Crash
    <2> QED
      BY <1>0, <1>2, <2>1, <2>2, Released DEF OthersStay, Moves
  <1> QED
    BY <1>3, <1>4, <1>5, <1>6, <1>7, <1>8 DEF RunOnce

-----------------------------------------------------------------------------
(* Steps that leave revisions and results alone *)

RevisionsKept ==
    /\ UNCHANGED <<revVars, rowVars>>
    /\ \A r \in Revisions : accepted[r] > 0 => accepted'[r] > 0

LEMMA KeptRevisions ==
  ASSUME FormInv, RowsCalm, RevisionsKept
  PROVE  /\ \A r \in Revisions : RevisionOK(r)'
         /\ \A j \in SubmitJobs : RowOK(j)'
         /\ OneAttempt'
  <1>1. UNCHANGED <<rstatus, outcome, verdict, formRev, result>>
    BY DEF RevisionsKept, revVars, rowVars
  <1>2. UNCHANGED Latest
    BY <1>1, ApprovalKept
  <1>3. ASSUME NEW r \in Revisions PROVE RevisionOK(r)'
    BY <1>1, <1>2, <1>3 DEF FormInv, RevisionOK, RevisionsKept
  <1>4. ASSUME NEW j \in SubmitJobs PROVE RowOK(j)'
    <2>1. /\ status'[j] = "absent" <=> status[j] = "absent"
          /\ status'[j] \in Loop!Active => status[j] \in Loop!Active
          /\ status'[j] = "succeeded" => status[j] = "succeeded"
      BY <1>4, Assumptions DEF RowsCalm
    <2> QED
      BY <1>1, <1>2, <2>1 DEF FormInv, RowOK, Proved, Current
  <1>5. OneAttempt'
    BY <1>1 DEF FormInv, OneAttempt
  <1> QED
    BY <1>3, <1>4, <1>5

-----------------------------------------------------------------------------
(* What the workers that do not move rely on *)

\* Rows a worker remembers stay and keep their revision; what was accepted or
\* recorded stays.
NotesHold ==
    /\ \A j \in Jobs : status[j] # "absent" /\ (\E v \in Workers : cur[v] = j) =>
          status'[j] # "absent" /\ (j \in SubmitJobs => formRev'[j] = formRev[j])
    /\ \A r \in Revisions :
          /\ accepted[r] > 0 => accepted'[r] > 0
          /\ Proved(r) => Proved(r)'

LEMMA RowHasRevision ==
  ASSUME FormInv, NEW j \in SubmitJobs, status[j] # "absent"
  PROVE  formRev[j] \in Revisions /\ formRev[j] # 0
  BY Assumptions DEF FormInv, FormTypeOK, RowOK

LEMMA HandStays ==
  ASSUME FormInv, NotesHold, NEW v \in Workers,
         pc'[v] = pc[v], cur'[v] = cur[v], hand'[v] = hand[v]
  PROVE  HandOK(v)'
  <1>1. HandOK(v)
    BY DEF FormInv
  <1>2. pc[v] # "idle" => cur[v] \in Jobs /\ status'[cur[v]] # "absent"
    BY <1>1 DEF HandOK, NotesHold
  <1>3. cur[v] \in SubmitJobs =>
            /\ formRev'[cur[v]] = formRev[cur[v]]
            /\ accepted[formRev[cur[v]]] > 0 => accepted'[formRev[cur[v]]] > 0
            /\ Proved(formRev[cur[v]]) => Proved(formRev[cur[v]])'
    <2> SUFFICES ASSUME cur[v] \in SubmitJobs
                 PROVE  /\ formRev'[cur[v]] = formRev[cur[v]]
                        /\ accepted[formRev[cur[v]]] > 0 => accepted'[formRev[cur[v]]] > 0
                        /\ Proved(formRev[cur[v]]) => Proved(formRev[cur[v]])'
      OBVIOUS
    <2>1. cur[v] \in Jobs /\ status[cur[v]] # "absent"
      BY <1>1, Assumptions DEF HandOK
    <2>2. formRev[cur[v]] \in Revisions
      BY <2>1, RowHasRevision
    <2> QED
      BY <2>1, <2>2 DEF NotesHold
  <1>4. Submitting(v)' <=> Submitting(v)
    BY DEF Submitting
  <1>5. /\ hand'[v].taken => accepted'[formRev'[cur'[v]]] > 0
        /\ Submitting(v)' /\ hand'[v].ends = "succeeded" =>
              hand'[v].state = "confirmed" /\ Proved(formRev[cur[v]])'
    BY <1>1, <1>3, <1>4 DEF HandOK, Submitting
  <1> QED
    BY <1>1, <1>2, <1>4, <1>5 DEF HandOK

\* A calm step that leaves revisions alone takes nothing from the others.
LEMMA CalmNotes ==
  ASSUME RowsCalm, RevisionsKept
  PROVE  NotesHold
  BY DEF RowsCalm, RevisionsKept, NotesHold, Proved, revVars, rowVars

LEMMA HandsStay ==
  ASSUME FormInv, NotesHold, UNCHANGED <<pc, cur, hand>>
  PROVE  \A v \in Workers : HandOK(v)'
  BY HandStays

LEMMA OthersOK ==
  ASSUME FormInv, NotesHold, NEW w \in Workers, OthersStay(w), HandOK(w)'
  PROVE  \A v \in Workers : HandOK(v)'
  BY HandStays DEF OthersStay

-----------------------------------------------------------------------------
(* The steps of run_once, the clock and the user's cancellation *)

LEMMA RunOnceInv ==
  ASSUME FormInv, Loop!TypeOK', NEW w \in Workers, RunOnce(w)
  PROVE  FormInv'
  <1>1. RowsCalm /\ OthersStay(w) /\ Moves(w)
    BY RunOnceMoves
  <1>2. RevisionsKept /\ UNCHANGED <<accepted, disturbed>>
    BY DEF RunOnce, RevisionsKept, outside
  <1>3. NotesHold
    BY <1>1, <1>2, CalmNotes
  <1>4. FormTypeOK'
    <2>1. hand' = [hand EXCEPT ![w] = IF pc'[w] = "idle" THEN Fresh ELSE @]
      BY DEF RunOnce
    <2> QED
      BY <1>2, <2>1 DEF FormInv, FormTypeOK, RevisionsKept, revVars, rowVars, Fresh, States
  <1>5. HandOK(w)'
    <2>1. HandOK(w)
      BY DEF FormInv
    <2>2. CASE /\ pc[w] = "idle" /\ pc'[w] = "claimed" /\ hand'[w] = hand[w]
               /\ cur'[w] \in Jobs /\ status'[cur'[w]] = "running"
      BY <2>1, <2>2 DEF HandOK, Fresh, Submitting
    <2>3. CASE /\ pc[w] = "claimed" /\ pc'[w] = "handling"
               /\ cur'[w] = cur[w] /\ hand'[w] = hand[w]
      <3>1. hand[w] = Fresh /\ cur[w] \in Jobs /\ status[cur[w]] # "absent"
        BY <2>1, <2>3 DEF HandOK
      <3>2. status'[cur[w]] # "absent"
        BY <1>1, <3>1 DEF RowsCalm
      <3> QED
        BY <2>3, <3>1, <3>2 DEF HandOK, Fresh, Submitting
    <2>4. CASE pc'[w] = "idle" /\ cur'[w] = NoJob /\ hand'[w] = Fresh
      BY <2>4, Assumptions DEF HandOK, Fresh, Submitting
    <2>5. CASE pc'[w] = pc[w] /\ cur'[w] = cur[w] /\ hand'[w] = hand[w]
      BY <1>3, <2>5, HandStays
    <2> QED
      BY <1>1, <2>2, <2>3, <2>4, <2>5 DEF Moves
  <1> QED
    BY <1>1, <1>2, <1>3, <1>4, <1>5, KeptRevisions, OthersOK DEF FormInv

LEMMA OutsideInv ==
  ASSUME FormInv, Loop!TypeOK',
         \E j \in Jobs : CancelRow(j) \/ LeaseLapses(j) \/ RowBecomesDue(j)
  PROVE  FormInv'
  <1>1. PICK j \in Jobs : CancelRow(j) \/ LeaseLapses(j) \/ RowBecomesDue(j)
    OBVIOUS
  <1>2. Loop!TypeOK
    BY DEF FormInv, FormTypeOK
  <1>3. RowsCalm
    BY <1>1, <1>2, OtherCalm DEF CancelRow, LeaseLapses, RowBecomesDue, Loop!LeaseExpires,
                                 Loop!JobBecomesDue
  <1>4. UNCHANGED <<revVars, rowVars, hand, accepted, pc, cur>>
    BY <1>1 DEF CancelRow, LeaseLapses, RowBecomesDue, Loop!LeaseExpires, Loop!JobBecomesDue,
                Loop!workerVars, formVars, outside
  <1>5. disturbed' \in BOOLEAN
    BY <1>1 DEF CancelRow, LeaseLapses, RowBecomesDue, formVars, outside, FormInv, FormTypeOK
  <1>6. RevisionsKept
    BY <1>4 DEF RevisionsKept
  <1>7. FormTypeOK'
    BY <1>4, <1>5 DEF FormInv, FormTypeOK, revVars, rowVars
  <1> QED
    BY <1>3, <1>4, <1>6, <1>7, KeptRevisions, CalmNotes, HandsStay DEF FormInv

-----------------------------------------------------------------------------
(* The handler, as long as it records nothing *)

\* A step of worker w that writes neither rows nor revisions.
LEMMA CalmHandler ==
  ASSUME FormInv, Loop!TypeOK', NEW w \in Workers,
         UNCHANGED <<queue, revVars, rowVars, disturbed>>,
         accepted' \in [Revisions -> 0..2], \A r \in Revisions : accepted[r] > 0 => accepted'[r] > 0,
         cur' = cur, \A v \in Workers \ {w} : pc'[v] = pc[v],
         NEW h \in [at : {"resolve", "fill", "click", "observe", "record", "recorded", "stored"},
                    state : States, ends : {"succeeded", "needs_attention"}, taken : BOOLEAN],
         hand' = [hand EXCEPT ![w] = h], HandOK(w)'
  PROVE  FormInv'
  <1>1. RowsCalm
    BY OtherCalm DEF FormInv, FormTypeOK
  <1>2. RevisionsKept
    BY DEF RevisionsKept
  <1>3. OthersStay(w)
    BY DEF OthersStay, FormInv, FormTypeOK
  <1>4. FormTypeOK'
    BY DEF FormInv, FormTypeOK, revVars, rowVars
  <1> QED
    BY <1>1, <1>2, <1>3, <1>4, KeptRevisions, CalmNotes, OthersOK DEF FormInv

\* The worker that handles a row.
LEMMA HandlingHand ==
  ASSUME FormInv, NEW w \in Workers
  PROVE  /\ hand[w] \in [at : {"resolve", "fill", "click", "observe",
                               "record", "recorded", "stored"},
                         state : States, ends : {"succeeded", "needs_attention"},
                         taken : BOOLEAN]
         /\ hand[w] = [at |-> hand[w].at, state |-> hand[w].state,
                       ends |-> hand[w].ends, taken |-> hand[w].taken]
         /\ accepted \in [Revisions -> 0..2]
         /\ hand = [v \in Workers |-> hand[v]]
  BY DEF FormInv, FormTypeOK

LEMMA GoesOnInv ==
  ASSUME FormInv, Loop!TypeOK', NEW w \in Workers,
         \/ ResolveTask(w) \/ BeforeSubmit(w) \/ Confirmed(w) \/ RecordFails(w)
  PROVE  FormInv'
  <1> DEFINE h(at, s) == [hand[w] EXCEPT !.at = at, !.state = s]
  <1>1. PICK at \in {"fill", "click", "record", "recorded"}, s \in {"none", "confirmed"} :
            /\ GoesOn(w, at, s)
            /\ \/ at = "fill" /\ s = "none" /\ ResolveTask(w)
               \/ at = "click" /\ s = "none" /\ BeforeSubmit(w)
               \/ at = "record" /\ s = "confirmed" /\ Confirmed(w)
               \/ at = "recorded" /\ s = "confirmed" /\ RecordFails(w)
    BY DEF ResolveTask, BeforeSubmit, Confirmed, RecordFails
  <1>2. /\ hand' = [hand EXCEPT ![w] = h(at, s)]
        /\ UNCHANGED <<revVars, rowVars, outside, queue, pc, cur>>
    BY <1>1, HandlingHand DEF GoesOn, loopVars
  <1>3. h(at, s) \in [at : {"resolve", "fill", "click", "observe", "record", "recorded", "stored"},
                      state : States, ends : {"succeeded", "needs_attention"}, taken : BOOLEAN]
    BY HandlingHand DEF States
  <1>4. hand'[w] = h(at, s)
    BY <1>2, HandlingHand
  <1>5. HandOK(w)'
    <2>1. HandOK(w) /\ pc[w] = "handling"
      BY <1>1 DEF FormInv, ResolveTask, BeforeSubmit, Confirmed, RecordFails, Handling
    <2>2. /\ h(at, s).at = at /\ h(at, s).state = s
          /\ h(at, s).ends = hand[w].ends /\ h(at, s).taken = hand[w].taken
      BY HandlingHand
    <2>3. UNCHANGED <<status, formRev, accepted, rstatus, verdict, pc, cur>>
      BY <1>2 DEF queue, rowVars, outside, revVars
    <2>4. CASE at \in {"fill", "click"}
      BY <1>1, <1>4, <2>1, <2>2, <2>3, <2>4
      DEF HandOK, ResolveTask, BeforeSubmit, Confirmed, RecordFails, Handling, Submitting, Proved
    <2>5. CASE at \in {"record", "recorded"}
      BY <1>1, <1>4, <2>1, <2>2, <2>3, <2>5
      DEF HandOK, ResolveTask, BeforeSubmit, Confirmed, RecordFails, Handling, Submitting, Proved
    <2> QED
      BY <2>4, <2>5
  <1>6. UNCHANGED <<queue, revVars, rowVars, disturbed, accepted, pc, cur>>
    BY <1>2 DEF outside
  <1> HIDE DEF h
  <1> QED
    BY <1>2, <1>3, <1>5, <1>6, HandlingHand, CalmHandler

\* The handler returns or raises; what it has observed is in s.
LEMMA EndsInv ==
  ASSUME FormInv, Loop!TypeOK', NEW w \in Workers,
         NoAction(w) \/ NeedsUser(w) \/ Unclear(w) \/ Rejected(w)
  PROVE  FormInv'
  <1>1. PICK s \in {"none", "not_attempted", "uncertain"} :
            /\ Ends(w, "needs_attention", s)
            /\ s # "none" => Submitting(w)
    BY DEF NoAction, NeedsUser, Unclear, Rejected, FormInv, HandOK, Handling
  <1>2. pc[w] = "handling" /\ hand[w].at \in {"resolve", "fill", "observe"}
        /\ UNCHANGED <<revVars, rowVars, outside>>
    BY DEF NoAction, NeedsUser, Unclear, Rejected, Handling, Ends, Loop!HandlerReturns
  <1> DEFINE h == [hand[w] EXCEPT !.ends = "needs_attention", !.state = s]
  <1>3. /\ hand' = [hand EXCEPT ![w] = h]
        /\ pc' = [pc EXCEPT ![w] = "completing"] /\ UNCHANGED <<queue, cur>>
    BY <1>1, HandlingHand DEF Ends, Loop!HandlerReturns, Loop!queueVars, queue
  <1>4. h \in [at : {"resolve", "fill", "click", "observe", "record", "recorded", "stored"},
               state : States, ends : {"succeeded", "needs_attention"}, taken : BOOLEAN]
    BY HandlingHand DEF States
  <1>5. hand'[w] = h /\ pc'[w] = "completing" /\ \A v \in Workers \ {w} : pc'[v] = pc[v]
    BY <1>3, HandlingHand DEF FormInv, FormTypeOK, Loop!TypeOK
  <1>6. HandOK(w)'
    <2>1. HandOK(w)
      BY DEF FormInv
    <2>2. /\ h.at = hand[w].at /\ h.state = s
          /\ h.ends = "needs_attention" /\ h.taken = hand[w].taken
      BY HandlingHand
    <2>3. UNCHANGED <<status, formRev, accepted, cur>>
      BY <1>2, <1>3 DEF queue, rowVars, outside
    <2> QED
      BY <1>1, <1>2, <1>5, <2>1, <2>2, <2>3 DEF HandOK, Submitting
  <1>7. UNCHANGED <<queue, revVars, rowVars, disturbed, accepted, cur>>
    BY <1>2, <1>3 DEF outside
  <1> HIDE DEF h
  <1> QED
    BY <1>3, <1>4, <1>5, <1>6, <1>7, HandlingHand, CalmHandler

LEMMA RaisesInv ==
  ASSUME FormInv, Loop!TypeOK', NEW w \in Workers,
         RaisesEarly(w) \/ RejectedAndRaises(w) \/ Recorded(w) \/ ScanStored(w)
  PROVE  FormInv'
  <1>1. UNCHANGED formVars /\ (Loop!HandlerReturns(w) \/ Loop!HandlerRaises(w))
    BY DEF RaisesEarly, RejectedAndRaises, Recorded, ScanStored
  <1>2. /\ pc[w] = "handling" /\ pc'[w] \in {"completing", "failing"}
        /\ \A v \in Workers \ {w} : pc'[v] = pc[v]
        /\ UNCHANGED <<queue, cur>>
    BY <1>1 DEF Loop!HandlerReturns, Loop!HandlerRaises, Loop!queueVars, queue, FormInv,
                FormTypeOK, Loop!TypeOK
  <1>3. HandOK(w)'
    <2>1. HandOK(w) /\ UNCHANGED <<status, formRev, accepted, rstatus, verdict, hand, cur>>
      BY <1>1, <1>2 DEF FormInv, formVars, revVars, rowVars, outside, queue
    <2> QED
      BY <1>2, <2>1 DEF HandOK, Submitting, Proved
  <1>4. UNCHANGED <<revVars, rowVars, disturbed, accepted, hand>>
    BY <1>1 DEF formVars, outside
  <1>5. hand' = [hand EXCEPT ![w] = hand[w]]
    BY <1>4, HandlingHand
  <1> QED
    BY <1>2, <1>3, <1>4, <1>5, HandlingHand, CalmHandler

LEMMA ClickInv ==
  ASSUME FormInv, Loop!TypeOK', NEW w \in Workers, NEW take \in BOOLEAN, Click(w, take)
  PROVE  FormInv'
  <1>1. HandOK(w) /\ pc[w] = "handling" /\ hand[w].at = "click"
    BY DEF FormInv, Click, Handling
  <1>2. cur[w] \in SubmitJobs /\ formRev[cur[w]] \in Revisions
    BY <1>1, RowHasRevision DEF HandOK, Submitting
  <1> DEFINE r == formRev[cur[w]]
             h == [hand[w] EXCEPT !.at = "observe", !.taken = take]
  <1>3. /\ accepted' = [accepted EXCEPT ![r] = IF take THEN OneMore(@) ELSE @]
        /\ hand' = [hand EXCEPT ![w] = h]
        /\ UNCHANGED <<revVars, rowVars, disturbed, queue, pc, cur>>
    BY HandlingHand DEF Click, loopVars
  <1>4. /\ accepted' \in [Revisions -> 0..2]
        /\ \A q \in Revisions : accepted[q] > 0 => accepted'[q] > 0
        /\ take => accepted'[r] > 0
    <2>1. \A n \in 0..2 : OneMore(n) \in 1..2
      BY DEF OneMore
    <2>2. accepted \in [Revisions -> 0..2] /\ r \in Revisions
      BY <1>2, HandlingHand
    <2> HIDE DEF r
    <2>3. CASE take
      <3>1. accepted' = [accepted EXCEPT ![r] = OneMore(accepted[r])]
        BY <1>3, <2>2, <2>3
      <3> QED
        BY <2>1, <2>2, <3>1
    <2>4. CASE ~take
      BY <1>3, <2>2, <2>4
    <2> QED
      BY <2>3, <2>4
  <1>5. h \in [at : {"resolve", "fill", "click", "observe", "record", "recorded", "stored"},
               state : States, ends : {"succeeded", "needs_attention"}, taken : BOOLEAN]
    BY HandlingHand
  <1>6. HandOK(w)'
    <2>1. hand'[w] = h
      BY <1>3, HandlingHand
    <2>2. /\ h.at = "observe" /\ h.state = hand[w].state
          /\ h.ends = hand[w].ends /\ h.taken = take
      BY HandlingHand
    <2>3. UNCHANGED <<status, formRev, rstatus, verdict, pc, cur>>
      BY <1>3 DEF queue, rowVars, revVars
    <2>4. hand[w].state # "confirmed" /\ hand[w].ends # "succeeded"
      BY <1>1, <1>2 DEF HandOK, Submitting
    <2> QED
      BY <1>1, <1>2, <1>4, <2>1, <2>2, <2>3, <2>4, HandlingHand DEF HandOK, Submitting
  <1> QED
    BY <1>3, <1>4, <1>5, <1>6, CalmHandler

-----------------------------------------------------------------------------
(* The steps that record something *)

LEMMA SameExisting ==
  ASSUME \A q \in Revisions : rstatus'[q] # "none" <=> rstatus[q] # "none"
  PROVE  Existing' = Existing /\ Latest' = Latest
  BY DEF Existing, Latest

\* The row of a worker that handles a submission.
LEMMA SubmittedRow ==
  ASSUME FormInv, NEW w \in Workers, pc[w] # "idle", Submitting(w)
  PROVE  /\ cur[w] \in SubmitJobs /\ cur[w] \in Jobs
         /\ formRev[cur[w]] \in Revisions /\ formRev[cur[w]] # 0
  BY RowHasRevision DEF FormInv, HandOK, Submitting

LEMMA RecordsInv ==
  ASSUME FormInv, Loop!TypeOK', NEW w \in Workers, Records(w)
  PROVE  FormInv'
  <1> DEFINE r == formRev[cur[w]]
  <1>1. HandOK(w) /\ pc[w] = "handling" /\ hand[w].at = "record" /\ Current(r)
    BY DEF FormInv, Records, Handling
  <1>2. hand[w].state = "confirmed" /\ hand[w].taken /\ Submitting(w)
    BY <1>1 DEF HandOK
  <1>3. r \in Revisions /\ accepted[r] > 0 /\ rstatus[r] = "approved" /\ r = Latest
    BY <1>1, <1>2, SubmittedRow DEF HandOK, Current
  <1>4. PICK how \in {"succeeded", "needs_attention"} :
            hand' = [hand EXCEPT ![w].at = "recorded", ![w].ends = how]
    BY DEF Records
  <1> HIDE DEF r
  <1>5. /\ rstatus' = [rstatus EXCEPT ![r] = "submitted"]
        /\ outcome' = [outcome EXCEPT ![r] = "confirmed"]
        /\ verdict' = [verdict EXCEPT ![r] = "provider"]
        /\ UNCHANGED <<rowVars, outside, loopVars>>
    BY DEF Records, r
  <1>6. FormTypeOK'
    <2>1. [hand[w] EXCEPT !.at = "recorded", !.ends = how] \in
              [at : {"resolve", "fill", "click", "observe", "record", "recorded", "stored"},
               state : States, ends : {"succeeded", "needs_attention"}, taken : BOOLEAN]
      BY HandlingHand
    <2>2. hand' = [hand EXCEPT ![w] = [hand[w] EXCEPT !.at = "recorded", !.ends = how]]
      BY <1>4, HandlingHand
    <2>3. hand' \in [Workers ->
              [at : {"resolve", "fill", "click", "observe", "record", "recorded", "stored"},
               state : States, ends : {"succeeded", "needs_attention"}, taken : BOOLEAN]]
      BY <2>1, <2>2 DEF FormInv, FormTypeOK
    <2>4. /\ rstatus' \in [Revisions -> {"none", "scanned", "approved", "submitted",
                                         "needs_attention", "superseded"}]
          /\ outcome' \in [Revisions -> States]
          /\ verdict' \in [Revisions -> {"none", "provider", "user", "not_submitted"}]
      BY <1>5 DEF FormInv, FormTypeOK, States
    <2> QED
      BY <1>5, <2>3, <2>4 DEF FormInv, FormTypeOK, rowVars, outside
  <1>7. /\ rstatus'[r] = "submitted" /\ outcome'[r] = "confirmed" /\ verdict'[r] = "provider"
        /\ \A q \in Revisions \ {r} :
              rstatus'[q] = rstatus[q] /\ outcome'[q] = outcome[q] /\ verdict'[q] = verdict[q]
    BY <1>3, <1>5 DEF FormInv, FormTypeOK
  <1>8. Latest' = Latest
    BY <1>3, <1>7, SameExisting
  <1>9. UNCHANGED <<formRev, result, accepted, status, pc, cur>>
    BY <1>5 DEF rowVars, outside, loopVars, queue
  <1>10. ASSUME NEW q \in Revisions PROVE RevisionOK(q)'
    BY <1>3, <1>7, <1>8, <1>9 DEF FormInv, RevisionOK
  <1>11. ASSUME NEW k \in SubmitJobs PROVE RowOK(k)'
    <2>1. RowOK(k) /\ formRev[k] \in 0..MaxRevision
      BY DEF FormInv, FormTypeOK
    <2>2. CASE formRev[k] = r
      BY <1>3, <1>7, <1>9, <2>1, <2>2, Assumptions DEF RowOK, Proved
    <2>3. CASE formRev[k] # r
      <3>1. formRev[k] # 0 => formRev[k] \in Revisions \ {r}
        BY <2>1, <2>3, Assumptions
      <3>2. ~Current(formRev[k])
        BY <1>3, <2>3 DEF Current
      <3> QED
        BY <1>7, <1>9, <2>1, <3>1, <3>2 DEF RowOK, Proved, Loop!Active
    <2> QED
      BY <2>2, <2>3
  <1>12. OneAttempt'
    BY <1>9 DEF FormInv, OneAttempt
  <1>13. NotesHold
    BY <1>7, <1>9 DEF NotesHold, Proved
  <1>14. HandOK(w)'
    <2>1. /\ hand'[w].at = "recorded" /\ hand'[w].state = "confirmed"
          /\ hand'[w].ends = how /\ hand'[w].taken
      BY <1>2, <1>4, HandlingHand
    <2> QED
      BY <1>1, <1>2, <1>3, <1>7, <1>9, <2>1 DEF HandOK, Submitting, Proved, r
  <1>15. OthersStay(w)
    BY <1>4, <1>9, HandlingHand DEF OthersStay
  <1> QED
    BY <1>6, <1>10, <1>11, <1>12, <1>13, <1>14, <1>15, OthersOK DEF FormInv

LEMMA ApproveInv ==
  ASSUME FormInv, Loop!TypeOK', NEW r \in Revisions, ApproveRevision(r)
  PROVE  FormInv'
  <1>1. /\ r = Latest /\ rstatus[r] = "scanned"
        /\ rstatus' = [rstatus EXCEPT ![r] = "approved"]
        /\ UNCHANGED <<outcome, verdict, formRev, result, hand, accepted, disturbed,
                       status, pc, cur>>
    BY DEF ApproveRevision, rowVars, outside, loopVars, queue
  <1>2. FormTypeOK'
    BY <1>1 DEF FormInv, FormTypeOK
  <1>3. /\ rstatus'[r] = "approved"
        /\ \A q \in Revisions \ {r} : rstatus'[q] = rstatus[q]
    BY <1>1 DEF FormInv, FormTypeOK
  <1>4. Latest' = Latest
    BY <1>1, <1>3, SameExisting
  <1>5. ASSUME NEW q \in Revisions PROVE RevisionOK(q)'
    BY <1>1, <1>3, <1>4 DEF FormInv, RevisionOK
  <1>6. ASSUME NEW k \in SubmitJobs PROVE RowOK(k)'
    <2>1. RowOK(k) /\ formRev[k] \in 0..MaxRevision
      BY DEF FormInv, FormTypeOK
    <2>2. formRev[k] # r
      BY <1>1, <2>1, Assumptions DEF RowOK
    <2>3. formRev[k] # 0 => formRev[k] \in Revisions \ {r}
      BY <2>1, <2>2, Assumptions
    <2> QED
      BY <1>1, <1>3, <1>4, <2>1, <2>3 DEF RowOK, Proved, Current, Loop!Active
  <1>7. OneAttempt'
    BY <1>1 DEF FormInv, OneAttempt
  <1>8. NotesHold
    BY <1>1, <1>3 DEF NotesHold, Proved
  <1> QED
    BY <1>1, <1>2, <1>5, <1>6, <1>7, <1>8, HandsStay DEF FormInv

LEMMA ResolveSubmittedInv ==
  ASSUME FormInv, Loop!TypeOK', NEW r \in Revisions, ResolveSubmitted(r)
  PROVE  FormInv'
  <1>1. /\ r = Latest /\ rstatus[r] \in {"approved", "needs_attention"}
        /\ \A j \in Jobs : status[j] \notin Loop!Active
        /\ rstatus' = [rstatus EXCEPT ![r] = "submitted"]
        /\ outcome' = [outcome EXCEPT ![r] = "confirmed"]
        /\ verdict' = [verdict EXCEPT ![r] = "user"]
        /\ UNCHANGED <<formRev, result, hand, accepted, disturbed, status, pc, cur>>
    BY DEF ResolveSubmitted, Resolvable, rowVars, outside, loopVars, queue
  <1>2. FormTypeOK'
    BY <1>1 DEF FormInv, FormTypeOK, States
  <1>3. /\ rstatus'[r] = "submitted" /\ outcome'[r] = "confirmed" /\ verdict'[r] = "user"
        /\ \A q \in Revisions \ {r} :
              rstatus'[q] = rstatus[q] /\ outcome'[q] = outcome[q] /\ verdict'[q] = verdict[q]
    BY <1>1 DEF FormInv, FormTypeOK
  <1>4. Latest' = Latest
    BY <1>1, <1>3, SameExisting
  <1>5. ASSUME NEW q \in Revisions PROVE RevisionOK(q)'
    BY <1>1, <1>3, <1>4 DEF FormInv, RevisionOK
  <1>6. ASSUME NEW k \in SubmitJobs PROVE RowOK(k)'
    <2>1. RowOK(k) /\ formRev[k] \in 0..MaxRevision /\ status[k] \notin Loop!Active
      BY <1>1, Assumptions DEF FormInv, FormTypeOK
    <2>2. CASE formRev[k] = r
      BY <1>1, <1>3, <2>1, <2>2 DEF RowOK, Proved
    <2>3. CASE formRev[k] # r
      <3>1. formRev[k] # 0 => formRev[k] \in Revisions \ {r}
        BY <2>1, <2>3, Assumptions
      <3> QED
        BY <1>1, <1>3, <2>1, <3>1 DEF RowOK, Proved, Loop!Active
    <2> QED
      BY <2>2, <2>3
  <1>7. OneAttempt'
    BY <1>1 DEF FormInv, OneAttempt
  <1>8. NotesHold
    BY <1>1, <1>3 DEF NotesHold, Proved
  <1> QED
    BY <1>1, <1>2, <1>5, <1>6, <1>7, <1>8, HandsStay DEF FormInv

LEMMA ResolveNotSubmittedInv ==
  ASSUME FormInv, Loop!TypeOK', NEW r \in Revisions, ResolveNotSubmitted(r)
  PROVE  FormInv'
  <1>1. /\ r = Latest /\ r + 1 < MaxRevision /\ rstatus[r] \in {"approved", "needs_attention"}
        /\ \A j \in Jobs : status[j] \notin Loop!Active
        /\ rstatus' = [rstatus EXCEPT ![r] = "superseded", ![r + 1] = "scanned"]
        /\ outcome' = [outcome EXCEPT ![r] = "uncertain"]
        /\ verdict' = [verdict EXCEPT ![r] = "not_submitted"]
        /\ UNCHANGED <<formRev, result, hand, accepted, disturbed, status, pc, cur>>
    BY DEF ResolveNotSubmitted, Resolvable, rowVars, outside, loopVars, queue
  <1>2. FormTypeOK'
    BY <1>1 DEF FormInv, FormTypeOK, States
  <1>3. r \in Nat /\ r + 1 \in Revisions
    BY <1>1, Assumptions
  <1>4. /\ rstatus'[r] = "superseded" /\ outcome'[r] = "uncertain" /\ verdict'[r] = "not_submitted"
        /\ rstatus'[r + 1] = "scanned" /\ outcome'[r + 1] = outcome[r + 1]
        /\ verdict'[r + 1] = verdict[r + 1]
        /\ \A q \in Revisions \ {r, r + 1} :
              rstatus'[q] = rstatus[q] /\ outcome'[q] = outcome[q] /\ verdict'[q] = verdict[q]
    BY <1>1, <1>3 DEF FormInv, FormTypeOK
  <1>5. \A q \in Revisions : rstatus'[q] # "none" <=> q <= r + 1
    <2> SUFFICES ASSUME NEW q \in Revisions PROVE rstatus'[q] # "none" <=> q <= r + 1
      OBVIOUS
    <2>1. q \in Nat /\ (rstatus[q] # "none" <=> q <= r)
      BY <1>1, Assumptions DEF FormInv, RevisionOK
    <2>2. CASE q \in {r, r + 1}
      BY <1>3, <1>4, <2>1, <2>2
    <2>3. CASE q \notin {r, r + 1}
      BY <1>3, <1>4, <2>1, <2>3
    <2> QED
      BY <2>2, <2>3
  <1>6. Latest' = r + 1
    BY <1>3, <1>5, LatestNext, Assumptions
  <1>7. rstatus[r + 1] = "none" /\ outcome[r + 1] = "none" /\ verdict[r + 1] = "none"
    BY <1>1, <1>3 DEF FormInv, FormTypeOK, RevisionOK
  <1>8. ASSUME NEW q \in Revisions PROVE RevisionOK(q)'
    <2>1. CASE q = r
      BY <1>3, <1>4, <1>5, <1>6, <2>1 DEF RevisionOK
    <2>2. CASE q = r + 1
      BY <1>3, <1>4, <1>5, <1>6, <1>7, <2>2 DEF RevisionOK
    <2>3. CASE q \notin {r, r + 1}
      <3>1. RevisionOK(q) /\ q \in Nat /\ q \in Revisions \ {r, r + 1}
        BY <2>3, Assumptions DEF FormInv
      <3>2. q < r + 1 => q < r
        BY <1>3, <3>1
      <3> QED
        BY <1>1, <1>4, <1>5, <1>6, <3>1, <3>2 DEF RevisionOK
    <2> QED
      BY <2>1, <2>2, <2>3
  <1>9. ASSUME NEW k \in SubmitJobs PROVE RowOK(k)'
    <2>1. RowOK(k) /\ formRev[k] \in 0..MaxRevision /\ status[k] \notin Loop!Active
      BY <1>1, Assumptions DEF FormInv, FormTypeOK
    <2>2. CASE formRev[k] = r
      BY <1>1, <1>4, <2>1, <2>2 DEF RowOK, Proved
    <2>3. CASE formRev[k] # r
      <3>1. formRev[k] # 0 => formRev[k] \in Revisions \ {r, r + 1}
        BY <1>7, <2>1, <2>3, Assumptions DEF RowOK
      <3>2. CASE formRev[k] = 0
        BY <1>1, <2>1, <3>2 DEF RowOK, Loop!Active
      <3>3. CASE formRev[k] # 0
        <4>1. /\ rstatus'[formRev[k]] = rstatus[formRev[k]]
              /\ verdict'[formRev[k]] = verdict[formRev[k]]
          BY <1>4, <3>1, <3>3
        <4>2. status'[k] = status[k] /\ formRev'[k] = formRev[k] /\ result'[k] = result[k]
          BY <1>1
        <4> QED
          BY <2>1, <4>1, <4>2 DEF RowOK, Proved
      <3> QED
        BY <3>2, <3>3
    <2> QED
      BY <2>2, <2>3
  <1>10. OneAttempt'
    BY <1>1 DEF FormInv, OneAttempt
  <1>11. NotesHold
    <2>1. ASSUME NEW q \in Revisions, Proved(q) PROVE Proved(q)'
      <3>1. q \in Revisions \ {r, r + 1}
        BY <1>1, <1>7, <2>1 DEF Proved
      <3> QED
        BY <1>4, <2>1, <3>1 DEF Proved
    <2> QED
      BY <1>1, <2>1 DEF NotesHold
  <1> QED
    BY <1>1, <1>2, <1>8, <1>9, <1>10, <1>11, HandsStay DEF FormInv

-----------------------------------------------------------------------------
(* Rows that are enqueued, and rows that are deleted with them *)

LEMMA EnqueuedRows ==
  ASSUME FormInv, NEW j \in Jobs, NEW old \in SUBSET Ended, EnqueueRow(j, old)
  PROVE  /\ status[j] = "absent" /\ j \notin old
         /\ status'[j] = "queued"
         /\ \A k \in old : status'[k] = "absent" /\ \A v \in Workers : cur[v] # k
         /\ \A k \in Jobs \ (old \cup {j}) : status'[k] = status[k]
         /\ result' = [k \in SubmitJobs |-> IF k \in old \cup {j} THEN "none" ELSE result[k]]
         /\ UNCHANGED <<rstatus, outcome, verdict, hand, accepted, disturbed, pc, cur>>
  <1>1. status[j] = "absent" /\ j \notin old
    BY DEF EnqueueRow, Loop!Enqueue, Loop!Terminal
  <1>2. status' = [k \in Jobs |-> IF k = j THEN "queued"
                                  ELSE IF k \in old THEN "absent" ELSE status[k]]
    BY DEF EnqueueRow, Loop!Enqueue
  <1>3. \A k \in old : k \in Jobs /\ \A v \in Workers : cur[v] # k
    BY DEF Ended
  <1> QED
    BY <1>1, <1>2, <1>3 DEF EnqueueRow, revVars, outside

LEMMA EnqueueScanInv ==
  ASSUME FormInv, Loop!TypeOK', NEW j \in Jobs, EnqueueScan(j)
  PROVE  FormInv'
  <1>1. j \notin SubmitJobs
    BY DEF EnqueueScan
  <1>2. PICK old \in SUBSET Ended :
            /\ formRev' = [k \in SubmitJobs |-> IF k \in old THEN 0 ELSE formRev[k]]
            /\ EnqueueRow(j, old)
    BY DEF EnqueueScan
  <1>3. /\ status[j] = "absent" /\ j \notin old
        /\ status'[j] = "queued"
        /\ \A k \in old : status'[k] = "absent" /\ \A v \in Workers : cur[v] # k
        /\ \A k \in Jobs \ (old \cup {j}) : status'[k] = status[k]
        /\ result' = [k \in SubmitJobs |-> IF k \in old \cup {j} THEN "none" ELSE result[k]]
        /\ UNCHANGED <<rstatus, outcome, verdict, hand, accepted, disturbed, pc, cur>>
    BY <1>2, EnqueuedRows
  <1>4. FormTypeOK'
    BY <1>2, <1>3, Assumptions DEF FormInv, FormTypeOK, States
  <1>5. Latest' = Latest
    BY <1>3, SameExisting
  <1>6. ASSUME NEW q \in Revisions PROVE RevisionOK(q)'
    BY <1>3, <1>5 DEF FormInv, RevisionOK
  <1>7. ASSUME NEW k \in SubmitJobs PROVE RowOK(k)'
    <2>1. CASE k \in old
      BY <1>2, <1>3, <2>1, Assumptions DEF RowOK, Loop!Active
    <2>2. CASE k \notin old
      <3>1. /\ formRev'[k] = formRev[k] /\ result'[k] = result[k] /\ status'[k] = status[k]
            /\ RowOK(k)
        BY <1>1, <1>2, <1>3, <2>2, Assumptions DEF FormInv
      <3> QED
        BY <1>3, <1>5, <3>1 DEF RowOK, Proved, Current
    <2> QED
      BY <2>1, <2>2
  <1>8. OneAttempt'
    BY <1>2 DEF FormInv, OneAttempt
  <1>9. NotesHold
    BY <1>1, <1>2, <1>3, Assumptions DEF NotesHold, Proved
  <1> QED
    BY <1>3, <1>4, <1>6, <1>7, <1>8, <1>9, HandsStay DEF FormInv

LEMMA EnqueueSubmitInv ==
  ASSUME FormInv, Loop!TypeOK', NEW j \in Jobs, EnqueueSubmit(j)
  PROVE  FormInv'
  <1>1. j \in SubmitJobs /\ Current(Latest) /\ Latest \in Revisions
    BY DEF EnqueueSubmit, Current
  <1>2. PICK old \in SUBSET Ended :
            /\ Attempts(Latest) \subseteq old
            /\ formRev' = [k \in SubmitJobs |-> IF k = j THEN Latest
                                               ELSE IF k \in old THEN 0 ELSE formRev[k]]
            /\ EnqueueRow(j, old)
    BY DEF EnqueueSubmit
  <1>3. /\ status[j] = "absent" /\ j \notin old
        /\ status'[j] = "queued"
        /\ \A k \in old : status'[k] = "absent" /\ \A v \in Workers : cur[v] # k
        /\ \A k \in Jobs \ (old \cup {j}) : status'[k] = status[k]
        /\ result' = [k \in SubmitJobs |-> IF k \in old \cup {j} THEN "none" ELSE result[k]]
        /\ UNCHANGED <<rstatus, outcome, verdict, hand, accepted, disturbed, pc, cur>>
    BY <1>2, EnqueuedRows
  <1>4. FormTypeOK'
    <2>1. formRev' \in [SubmitJobs -> 0..MaxRevision]
      BY <1>2, LatestType, Assumptions DEF FormInv, FormTypeOK
    <2>2. result' \in [SubmitJobs -> States]
      BY <1>3 DEF FormInv, FormTypeOK, States
    <2> QED
      BY <1>3, <2>1, <2>2 DEF FormInv, FormTypeOK
  <1>5. Latest' = Latest
    BY <1>3, SameExisting
  <1>6. ASSUME NEW q \in Revisions PROVE RevisionOK(q)'
    BY <1>3, <1>5 DEF FormInv, RevisionOK
  <1>7. Current(Latest)'
    BY <1>1, <1>3, <1>5 DEF Current
  <1>8. ASSUME NEW k \in SubmitJobs PROVE RowOK(k)'
    <2>1. CASE k \in old
      BY <1>2, <1>3, <2>1, Assumptions DEF RowOK, Loop!Active
    <2>2. CASE k = j
      <3>1. /\ formRev'[k] = Latest /\ formRev'[k] # 0 /\ result'[k] = "none"
            /\ status'[k] = "queued"
        BY <1>1, <1>2, <1>3, <2>2, Assumptions
      <3>2. rstatus'[Latest] = "approved"
        BY <1>1, <1>3 DEF Current
      <3> QED
        BY <1>5, <1>7, <3>1, <3>2 DEF RowOK
    <2>3. CASE k # j /\ k \notin old
      <3>1. /\ formRev'[k] = formRev[k] /\ result'[k] = result[k] /\ status'[k] = status[k]
            /\ RowOK(k)
        BY <1>2, <1>3, <2>3, Assumptions DEF FormInv
      <3> QED
        BY <1>3, <1>5, <3>1 DEF RowOK, Proved, Current
    <2> QED
      BY <2>1, <2>2, <2>3
  <1>9. OneAttempt'
    <2> SUFFICES ASSUME NEW i \in SubmitJobs, NEW k \in SubmitJobs,
                        formRev'[i] # 0, formRev'[i] = formRev'[k]
                 PROVE  i = k
      BY DEF OneAttempt
    <2>1. \A m \in SubmitJobs : m # j /\ m \notin old => formRev'[m] = formRev[m]
                                                     /\ formRev[m] # Latest
      BY <1>2 DEF Attempts
    <2>2. i \notin old /\ k \notin old
      BY <1>2, <1>3
    <2> QED
      BY <1>2, <2>1, <2>2 DEF FormInv, OneAttempt
  <1>10. NotesHold
    <2>1. \A k \in Jobs : status[k] # "absent" /\ (\E v \in Workers : cur[v] = k) =>
             k \notin old /\ k # j
      BY <1>3
    <2> QED
      BY <1>2, <1>3, <2>1, Assumptions DEF NotesHold, Proved
  <1> QED
    BY <1>3, <1>4, <1>6, <1>8, <1>9, <1>10, HandsStay DEF FormInv

-----------------------------------------------------------------------------
(* A scan that replaces the revisions before it *)

LEMMA ObservedHere ==
  ASSUME NEW q, NEW s, Observed(q, s)
  PROVE  outcome[q] = s \/ \E k \in SubmitJobs : formRev[k] = q /\ result[k] = s
  BY DEF Observed, ObservedBut, Attempts

LEMMA NoConfirmation ==
  ASSUME FormInv, NEW q \in Revisions, rstatus[q] # "submitted"
  PROVE  ~Observed(q, "confirmed")
  <1>1. outcome[q] # "confirmed"
    BY DEF FormInv, RevisionOK
  <1>2. \A k \in SubmitJobs : formRev[k] = q => result[k] # "confirmed"
    BY Assumptions DEF FormInv, RowOK
  <1> QED
    BY <1>1, <1>2, ObservedHere

LEMMA StoresScanInv ==
  ASSUME FormInv, Loop!TypeOK', NEW w \in Workers, StoresScan(w)
  PROVE  FormInv'
  <1> DEFINE L == Latest
             S == {j \in SubmitJobs : formRev[j] \in Replaced}
  <1>1. /\ HandOK(w) /\ pc[w] = "handling" /\ hand[w].at = "fill" /\ ~Submitting(w)
        /\ \A q \in Existing : rstatus[q] # "submitted"
        /\ \A j \in SubmitJobs : status[j] # "running"
        /\ L < MaxRevision
        /\ \A q \in Replaced : MayBeSuperseded(q)
        /\ Loop!CancelSuperseded(S)
    BY DEF FormInv, StoresScan, ScanAccepted, Handling
  <1>2. /\ rstatus' = [q \in Revisions |-> IF q \in Replaced THEN "superseded"
                                           ELSE IF q = L + 1 THEN "scanned" ELSE rstatus[q]]
        /\ hand' = [hand EXCEPT ![w].at = "stored", ![w].ends = "succeeded"]
        /\ UNCHANGED <<outcome, verdict, formRev, result, accepted, disturbed, pc, cur>>
    BY DEF StoresScan, StoreRevision, rowVars, outside
  <1>3. RowsCalm
    BY <1>1, OtherCalm DEF FormInv, FormTypeOK
  <1>4. L \in 0..MaxRevision /\ L + 1 \in Revisions
    BY <1>1, LatestType, Assumptions
  <1>5. \A q \in Revisions : /\ q \in Nat /\ (rstatus[q] # "none" <=> q <= L)
                             /\ rstatus[q] # "submitted"
    BY <1>1, Assumptions DEF FormInv, RevisionOK, Existing
  <1> HIDE DEF L
  <1>6. \A q \in Revisions : rstatus'[q] = IF q <= L THEN "superseded"
                                           ELSE IF q = L + 1 THEN "scanned" ELSE "none"
    BY <1>2, <1>4, <1>5 DEF Replaced, Existing
  <1>7. Latest' = L + 1
    <2>1. \A q \in Revisions : rstatus'[q] # "none" <=> q <= L + 1
      BY <1>4, <1>5, <1>6
    <2>2. L + 1 \in 0..MaxRevision
      BY <1>4, Assumptions
    <2> QED
      BY <2>1, <2>2, LatestNext
  <1>8. \A q \in Existing : Observed(q, "uncertain") => verdict[q] = "not_submitted"
    <2> SUFFICES ASSUME NEW q \in Existing, Observed(q, "uncertain")
                 PROVE  verdict[q] = "not_submitted"
      OBVIOUS
    <2>1. CASE rstatus[q] = "superseded"
      <3>1. RevisionOK(q) /\ q \in Revisions /\ q \in Nat \ {0}
        BY Assumptions DEF FormInv, Existing
      <3>2. CASE outcome[q] = "uncertain"
        BY <2>1, <3>1, <3>2 DEF RevisionOK
      <3>3. CASE outcome[q] # "uncertain"
        BY <2>1, <3>1, <3>3, ObservedHere DEF FormInv, RowOK
      <3> QED
        BY <3>2, <3>3
    <2>2. CASE rstatus[q] # "superseded"
      <3>1. MayBeSuperseded(q)
        BY <1>1, <2>2 DEF Replaced
      <3>2. \A p \in Existing : ~Observed(p, "confirmed")
        BY <1>5, NoConfirmation DEF Existing
      <3> QED
        BY <3>1, <3>2 DEF MayBeSuperseded
    <2> QED
      BY <2>1, <2>2
  <1>9. FormTypeOK'
    <2>1. [hand[w] EXCEPT !.at = "stored", !.ends = "succeeded"] \in
              [at : {"resolve", "fill", "click", "observe", "record", "recorded", "stored"},
               state : States, ends : {"succeeded", "needs_attention"}, taken : BOOLEAN]
      BY HandlingHand
    <2>2. hand' = [hand EXCEPT ![w] = [hand[w] EXCEPT !.at = "stored", !.ends = "succeeded"]]
      BY <1>2, HandlingHand
    <2>3. hand' \in [Workers ->
              [at : {"resolve", "fill", "click", "observe", "record", "recorded", "stored"},
               state : States, ends : {"succeeded", "needs_attention"}, taken : BOOLEAN]]
      BY <2>1, <2>2 DEF FormInv, FormTypeOK
    <2>4. rstatus' \in [Revisions -> {"none", "scanned", "approved", "submitted",
                                      "needs_attention", "superseded"}]
      BY <1>2 DEF FormInv, FormTypeOK
    <2> QED
      BY <1>2, <2>3, <2>4 DEF FormInv, FormTypeOK
  <1>10. ASSUME NEW q \in Revisions PROVE RevisionOK(q)'
    <2>1. RevisionOK(q) /\ q \in Nat /\ (rstatus[q] # "none" <=> q <= L)
      BY <1>5 DEF FormInv
    <2>2. outcome[q] = "uncertain" /\ q <= L => verdict[q] = "not_submitted"
      BY <1>8, <2>1 DEF Observed, ObservedBut, Existing
    <2>3. CASE q <= L
      BY <1>2, <1>4, <1>5, <1>6, <1>7, <2>1, <2>2, <2>3 DEF RevisionOK
    <2>4. CASE ~(q <= L)
      BY <1>2, <1>4, <1>5, <1>6, <1>7, <2>1, <2>4 DEF RevisionOK
    <2> QED
      BY <2>3, <2>4
  <1>11. ASSUME NEW k \in SubmitJobs PROVE RowOK(k)'
    <2>1. /\ RowOK(k) /\ formRev[k] \in 0..MaxRevision /\ k \in Jobs
          /\ status[k] # "running" /\ formRev'[k] = formRev[k] /\ result'[k] = result[k]
      BY <1>1, <1>2, Assumptions DEF FormInv, FormTypeOK
    <2>2. formRev[k] # 0 => /\ formRev[k] \in Revisions /\ formRev[k] \in Existing
                            /\ rstatus'[formRev[k]] = "superseded"
      BY <1>5, <1>6, <2>1, Assumptions DEF RowOK, Existing
    <2>3. status'[k] \notin Loop!Active
      <3> SUFFICES ASSUME status'[k] \in Loop!Active PROVE FALSE
        OBVIOUS
      <3>1. status[k] = "queued"
        BY <1>3, <2>1 DEF RowsCalm, Loop!Active
      <3>2. formRev[k] # 0 /\ Current(formRev[k])
        BY <1>5, <2>1, <2>2, <3>1 DEF RowOK, Proved, Loop!Active
      <3>3. k \in S
        BY <2>2, <3>2 DEF Replaced, Current
      <3>4. status'[k] = "cancelled"
        BY <1>1, <2>1, <3>1, <3>3 DEF Loop!CancelSuperseded, Loop!Active
      <3> QED
        BY <3>4 DEF Loop!Active
    <2>4. status'[k] # "succeeded"
      BY <1>3, <1>5, <2>1, <2>2 DEF RowsCalm, RowOK, Proved
    <2>5. formRev[k] # 0 /\ result[k] = "uncertain" => verdict'[formRev[k]] = "not_submitted"
      BY <1>2, <1>8, <2>2 DEF Observed, ObservedBut, Attempts
    <2>6. formRev[k] # 0 => result[k] # "confirmed"
      BY <1>5, <2>1, <2>2 DEF RowOK
    <2>7. formRev'[k] = 0 <=> status'[k] = "absent"
      BY <1>3, <2>1 DEF RowOK, RowsCalm
    <2> QED
      BY <2>1, <2>2, <2>3, <2>4, <2>5, <2>6, <2>7 DEF RowOK
  <1>12. OneAttempt'
    BY <1>2 DEF FormInv, OneAttempt
  <1>13. NotesHold
    BY <1>2, <1>3, <1>5 DEF NotesHold, Proved, RowsCalm
  <1>14. HandOK(w)'
    <2>1. /\ hand'[w].at = "stored" /\ hand'[w].state = hand[w].state
          /\ hand'[w].taken = hand[w].taken
      BY <1>2, HandlingHand
    <2> QED
      BY <1>1, <1>2, <1>3, <2>1 DEF HandOK, Submitting, RowsCalm
  <1>15. OthersStay(w)
    BY <1>2, HandlingHand DEF OthersStay
  <1> QED
    BY <1>9, <1>10, <1>11, <1>12, <1>13, <1>14, <1>15, OthersOK DEF FormInv

-----------------------------------------------------------------------------
(* The worker reports the outcome *)

\* The worker forgets the row; nothing it held is needed any more.
LEMMA ReleasedHand ==
  ASSUME FormInv, NEW w \in Workers, Loop!Release(w), hand' = [hand EXCEPT ![w] = Fresh]
  PROVE  OthersStay(w) /\ HandOK(w)'
  <1>1. /\ pc'[w] = "idle" /\ cur'[w] = NoJob
        /\ \A v \in Workers \ {w} : pc'[v] = pc[v] /\ cur'[v] = cur[v]
    BY Released DEF FormInv
  <1>2. hand'[w] = Fresh /\ \A v \in Workers \ {w} : hand'[v] = hand[v]
    BY DEF FormInv, FormTypeOK
  <1> QED
    BY <1>1, <1>2, Assumptions DEF OthersStay, HandOK, Submitting, Fresh

LEMMA FreshType ==
  Fresh \in [at : {"resolve", "fill", "click", "observe", "record", "recorded", "stored"},
             state : States, ends : {"succeeded", "needs_attention"}, taken : BOOLEAN]
  BY DEF Fresh, States

\* A submit row whose columns are not written, and whose revision is not.
LEMMA RowKept ==
  ASSUME FormInv, NEW k \in SubmitJobs, Latest' = Latest,
         status'[k] = status[k], formRev'[k] = formRev[k], result'[k] = result[k],
         formRev[k] # 0 => /\ rstatus'[formRev[k]] = rstatus[formRev[k]]
                           /\ verdict'[formRev[k]] = verdict[formRev[k]]
  PROVE  RowOK(k)'
  <1>1. RowOK(k)
    BY DEF FormInv
  <1>2. CASE formRev[k] = 0
    BY <1>1, <1>2 DEF RowOK, Loop!Active
  <1>3. CASE formRev[k] # 0
    BY <1>1, <1>3 DEF RowOK, Proved, Current
  <1> QED
    BY <1>2, <1>3

LEMMA CompletedRow ==
  ASSUME FormInv, NEW w \in Workers, NEW j \in Jobs, NEW t, Loop!CompleteJob(w, j, t)
  PROVE  /\ status[j] = "running" /\ status'[j] = t
         /\ \A k \in Jobs \ {j} : status'[k] = status[k]
  BY DEF Loop!CompleteJob, Loop!HoldsLease, FormInv, FormTypeOK, Loop!TypeOK, Loop!QueueTypeOK

LEMMA CompletesPlainlyInv ==
  ASSUME FormInv, Loop!TypeOK', NEW w \in Workers, NEW j \in Jobs, CompletesPlainly(w, j)
  PROVE  FormInv'
  <1>1. /\ HandOK(w) /\ pc[w] = "completing" /\ cur[w] = j /\ ~WithAttention(w)
        /\ Loop!CompleteJob(w, j, hand[w].ends)
        /\ result' = [k \in SubmitJobs |-> IF k = j THEN hand[w].state ELSE result[k]]
        /\ UNCHANGED <<rstatus, outcome, verdict, formRev, accepted, disturbed>>
        /\ Loop!Release(w)
        /\ hand' = [hand EXCEPT ![w] = Fresh]
    BY DEF FormInv, CompletesPlainly, Done, revVars, outside
  <1>2. /\ status[j] = "running" /\ status'[j] = hand[w].ends
        /\ hand[w].ends \in {"succeeded", "needs_attention"} /\ hand[w].state \in States
        /\ \A k \in Jobs \ {j} : status'[k] = status[k]
    <2>1. /\ status[j] = "running" /\ status'[j] = hand[w].ends
          /\ \A k \in Jobs \ {j} : status'[k] = status[k]
      BY <1>1, CompletedRow
    <2>2. hand[w].ends \in {"succeeded", "needs_attention"} /\ hand[w].state \in States
      BY HandlingHand
    <2> QED
      BY <2>1, <2>2
  <1>3. OthersStay(w) /\ HandOK(w)'
    BY <1>1, ReleasedHand
  <1>4. FormTypeOK'
    BY <1>1, <1>2, FreshType DEF FormInv, FormTypeOK
  <1>5. Latest' = Latest
    BY <1>1, SameExisting
  <1>6. ASSUME NEW q \in Revisions PROVE RevisionOK(q)'
    BY <1>1, <1>5 DEF FormInv, RevisionOK
  <1>7. ASSUME NEW k \in SubmitJobs PROVE RowOK(k)'
    <2>1. CASE k = j
      <3>1. RowOK(j) /\ Submitting(w) /\ formRev[j] # 0
        BY <1>1, <1>2, <2>1, RowHasRevision DEF FormInv, Submitting
      <3>2. \/ hand[w].ends = "succeeded" /\ hand[w].state = "confirmed" /\ Proved(formRev[j])
            \/ hand[w].ends = "needs_attention" /\ hand[w].state = "none"
        BY <1>1, <1>2, <3>1 DEF HandOK, WithAttention
      <3>3. result'[j] = hand[w].state /\ formRev'[j] = formRev[j]
        BY <1>1, <2>1
      <3> QED
        BY <1>1, <1>2, <2>1, <3>1, <3>2, <3>3 DEF RowOK, Proved, Loop!Active
    <2>2. CASE k # j
      <3>1. status'[k] = status[k] /\ result'[k] = result[k]
        BY <1>1, <1>2, <2>2, Assumptions
      <3> QED
        BY <1>1, <1>5, <3>1, RowKept
    <2> QED
      BY <2>1, <2>2
  <1>8. OneAttempt'
    BY <1>1 DEF FormInv, OneAttempt
  <1>9. NotesHold
    BY <1>1, <1>2 DEF NotesHold, Proved
  <1> QED
    BY <1>3, <1>4, <1>6, <1>7, <1>8, <1>9, OthersOK DEF FormInv

LEMMA RefusedInv ==
  ASSUME FormInv, Loop!TypeOK', NEW w \in Workers, NEW j \in Jobs, CompletionRefused(w, j)
  PROVE  FormInv'
  <1>1. /\ UNCHANGED <<queue, revVars, rowVars, accepted, disturbed>>
        /\ Loop!Release(w) /\ hand' = [hand EXCEPT ![w] = Fresh]
    BY DEF CompletionRefused, Done, outside
  <1>2. OthersStay(w) /\ HandOK(w)'
    BY <1>1, ReleasedHand
  <1>3. RowsCalm /\ RevisionsKept
    BY <1>1, OtherCalm DEF FormInv, FormTypeOK, RevisionsKept
  <1>4. FormTypeOK'
    BY <1>1, FreshType DEF FormInv, FormTypeOK, revVars, rowVars
  <1> QED
    BY <1>2, <1>3, <1>4, KeptRevisions, CalmNotes, OthersOK DEF FormInv

\* What complete_application_form_submit_attention does to the revision of a row
\* it may complete.
LEMMA AttentionRecorded ==
  ASSUME FormInv, NEW w \in Workers, NEW j \in Jobs, CompletesWithAttention(w, j)
  PROVE  LET r == formRev[j] IN
         /\ r \in Revisions /\ r # 0 /\ j \in SubmitJobs
         /\ \/ /\ hand[w].state = "confirmed"
               /\ rstatus'[r] = "submitted" /\ outcome'[r] = "confirmed"
               /\ verdict'[r] = "provider" /\ accepted[r] > 0
            \/ /\ hand[w].state \in {"not_attempted", "uncertain"}
               /\ Current(r)
               /\ rstatus'[r] = "needs_attention" /\ outcome'[r] = hand[w].state
               /\ verdict'[r] = verdict[r]
            \/ /\ hand[w].state \in {"not_attempted", "uncertain"}
               /\ Proved(r) /\ UNCHANGED <<rstatus, outcome, verdict>>
         /\ rstatus[r] # "none"
         /\ Current(r) \/ Proved(r)
         /\ \A q \in Revisions \ {r} :
               rstatus'[q] = rstatus[q] /\ outcome'[q] = outcome[q] /\ verdict'[q] = verdict[q]
         /\ rstatus' \in [Revisions -> {"none", "scanned", "approved", "submitted",
                                        "needs_attention", "superseded"}]
         /\ outcome' \in [Revisions -> States]
         /\ verdict' \in [Revisions -> {"none", "provider", "user", "not_submitted"}]
  <1> DEFINE r == formRev[j]
  <1>1. /\ HandOK(w) /\ pc[w] = "completing" /\ cur[w] = j /\ WithAttention(w)
        /\ Loop!CompleteJob(w, j, "needs_attention")
        /\ RecordAttention(r, hand[w].state)
    BY DEF FormInv, CompletesWithAttention
  <1>2. /\ j \in SubmitJobs /\ r \in Revisions /\ r # 0
        /\ hand[w].state \in {"not_attempted", "uncertain", "confirmed"}
    BY <1>1, SubmittedRow, HandlingHand DEF WithAttention, Submitting, States
  <1>3. Current(r) \/ Proved(r)
    BY <1>1, <1>2, CompletedRow DEF FormInv, RowOK, Loop!Active
  <1>4. rstatus[r] \in {"approved", "submitted"}
    BY <1>3 DEF Current, Proved
  <1>5. hand[w].state = "confirmed" => accepted[r] > 0
    BY <1>1 DEF HandOK
  <1>6. /\ rstatus \in [Revisions -> {"none", "scanned", "approved", "submitted",
                                      "needs_attention", "superseded"}]
        /\ outcome \in [Revisions -> States]
        /\ verdict \in [Revisions -> {"none", "provider", "user", "not_submitted"}]
    BY DEF FormInv, FormTypeOK
  <1> HIDE DEF r
  <1>7. CASE hand[w].state = "confirmed"
    <2>1. /\ rstatus' = [rstatus EXCEPT ![r] = "submitted"]
          /\ outcome' = [outcome EXCEPT ![r] = "confirmed"]
          /\ verdict' = [verdict EXCEPT ![r] = "provider"]
      BY <1>1, <1>7 DEF RecordAttention
    <2> QED
      BY <1>2, <1>3, <1>4, <1>5, <1>6, <1>7, <2>1 DEF States, r
  <1>8. CASE hand[w].state # "confirmed" /\ rstatus[r] = "approved"
    <2>1. /\ rstatus' = [rstatus EXCEPT ![r] = "needs_attention"]
          /\ outcome' = [outcome EXCEPT ![r] = hand[w].state]
          /\ verdict' = verdict
      BY <1>1, <1>8 DEF RecordAttention
    <2>2. Current(r)
      BY <1>3, <1>8 DEF Proved
    <2> QED
      BY <1>2, <1>3, <1>4, <1>6, <1>8, <2>1, <2>2 DEF States, r
  <1>9. CASE hand[w].state # "confirmed" /\ rstatus[r] = "submitted"
    <2>1. UNCHANGED <<rstatus, outcome, verdict>>
      BY <1>1, <1>9 DEF RecordAttention, revVars
    <2>2. Proved(r)
      BY <1>3, <1>9 DEF Current
    <2> QED
      BY <1>2, <1>3, <1>4, <1>6, <1>9, <2>1, <2>2 DEF r
  <1> QED
    BY <1>4, <1>7, <1>8, <1>9

LEMMA CompletesWithAttentionInv ==
  ASSUME FormInv, Loop!TypeOK', NEW w \in Workers, NEW j \in Jobs,
         CompletesWithAttention(w, j)
  PROVE  FormInv'
  <1> DEFINE r == formRev[j]
             s == hand[w].state
  <1>1. /\ Loop!CompleteJob(w, j, "needs_attention")
        /\ result' = [result EXCEPT ![j] = s]
        /\ UNCHANGED <<formRev, accepted, disturbed>>
        /\ Loop!Release(w)
        /\ hand' = [hand EXCEPT ![w] = Fresh]
    BY DEF CompletesWithAttention, Done, outside
  <1>2. /\ r \in Revisions /\ r # 0 /\ j \in SubmitJobs
        /\ \/ /\ s = "confirmed"
              /\ rstatus'[r] = "submitted" /\ outcome'[r] = "confirmed"
              /\ verdict'[r] = "provider" /\ accepted[r] > 0
           \/ /\ s \in {"not_attempted", "uncertain"} /\ Current(r)
              /\ rstatus'[r] = "needs_attention" /\ outcome'[r] = s
              /\ verdict'[r] = verdict[r]
           \/ /\ s \in {"not_attempted", "uncertain"}
              /\ Proved(r) /\ UNCHANGED <<rstatus, outcome, verdict>>
        /\ rstatus[r] # "none"
        /\ Current(r) \/ Proved(r)
    BY AttentionRecorded
  <1>3. /\ \A q \in Revisions \ {r} :
              rstatus'[q] = rstatus[q] /\ outcome'[q] = outcome[q] /\ verdict'[q] = verdict[q]
        /\ rstatus' \in [Revisions -> {"none", "scanned", "approved", "submitted",
                                       "needs_attention", "superseded"}]
        /\ outcome' \in [Revisions -> States]
        /\ verdict' \in [Revisions -> {"none", "provider", "user", "not_submitted"}]
    BY AttentionRecorded
  <1>4. /\ status[j] = "running" /\ status'[j] = "needs_attention"
        /\ \A k \in Jobs \ {j} : status'[k] = status[k]
    BY <1>1, CompletedRow
  <1>5. s \in States
    BY HandlingHand
  <1>6. OthersStay(w) /\ HandOK(w)'
    BY <1>1, ReleasedHand
  <1> HIDE DEF r, s
  <1>7. FormTypeOK'
    BY <1>1, <1>3, <1>5, FreshType DEF FormInv, FormTypeOK
  <1>8. Latest' = Latest
    <2>1. rstatus'[r] # "none"
      BY <1>2
    <2> QED
      BY <1>2, <1>3, <2>1, SameExisting
  <1>9. ASSUME NEW q \in Revisions PROVE RevisionOK(q)'
    <2>1. RevisionOK(q) /\ q \in Nat /\ Latest \in Nat
      BY Assumptions, LatestType DEF FormInv
    <2>2. CASE q = r
      <3>1. Current(r) => q = Latest /\ rstatus[q] = "approved"
        BY <2>2 DEF Current
      <3>2. Proved(r) => rstatus[q] = "submitted"
        BY <2>2 DEF Proved
      <3> QED
        BY <1>1, <1>2, <1>8, <2>1, <2>2, <3>1, <3>2 DEF RevisionOK
    <2>3. CASE q # r
      BY <1>1, <1>3, <1>8, <2>1, <2>3 DEF RevisionOK
    <2> QED
      BY <2>2, <2>3
  <1>10. ASSUME NEW k \in SubmitJobs PROVE RowOK(k)'
    <2>1. CASE k = j
      <3>1. /\ result'[k] = s /\ formRev'[k] = r /\ formRev'[k] # 0
            /\ status'[k] = "needs_attention"
        BY <1>1, <1>2, <1>4, <2>1 DEF r, FormInv, FormTypeOK
      <3>2. /\ rstatus'[r] \in {"submitted", "needs_attention"}
            /\ s = "confirmed" => rstatus'[r] = "submitted"
        BY <1>2 DEF Proved
      <3> QED
        BY <3>1, <3>2 DEF RowOK, Loop!Active
    <2>2. CASE k # j
      <3>1. formRev[k] # 0 => formRev[k] \in Revisions \ {r}
        BY <1>2, <2>2, Assumptions DEF FormInv, FormTypeOK, OneAttempt, r
      <3>2. status'[k] = status[k] /\ result'[k] = result[k] /\ formRev'[k] = formRev[k]
        BY <1>1, <1>4, <2>2, Assumptions DEF FormInv, FormTypeOK
      <3> QED
        BY <1>3, <1>8, <3>1, <3>2, RowKept
    <2> QED
      BY <2>1, <2>2
  <1>11. OneAttempt'
    BY <1>1 DEF FormInv, OneAttempt
  <1>12. NotesHold
    <2>1. Proved(r) => rstatus'[r] = "submitted" /\ verdict'[r] = "provider"
      BY <1>2 DEF Proved, Current
    <2>2. \A q \in Revisions : Proved(q) => Proved(q)'
      BY <1>3, <2>1 DEF Proved
    <2> QED
      BY <1>1, <1>4, <2>2 DEF NotesHold
  <1> QED
    BY <1>6, <1>7, <1>9, <1>10, <1>11, <1>12, OthersOK DEF FormInv

LEMMA StepFormInv ==
  ASSUME FormInv, Loop!TypeOK', [FormNext]_allVars
  PROVE  FormInv'
  <1>1. CASE UserStep
    BY <1>1, EnqueueScanInv, EnqueueSubmitInv, OutsideInv, ApproveInv, ResolveSubmittedInv,
       ResolveNotSubmittedInv DEF UserStep
  <1>2. CASE \E w \in Workers : Handler(w)
    BY <1>2, GoesOnInv, EndsInv, RaisesInv, ClickInv, RecordsInv, StoresScanInv DEF Handler
  <1>3. CASE \E w \in Workers : RunOnce(w)
    BY <1>3, RunOnceInv
  <1>4. CASE \E w \in Workers, j \in Jobs : \/ CompletesWithAttention(w, j)
                                           \/ CompletesPlainly(w, j) \/ CompletionRefused(w, j)
    BY <1>4, CompletesWithAttentionInv, CompletesPlainlyInv, RefusedInv
  <1>5. CASE \E j \in Jobs : LeaseLapses(j) \/ RowBecomesDue(j)
    BY <1>5, OutsideInv
  <1>6. CASE UNCHANGED allVars
    <2>1. UNCHANGED <<queue, revVars, rowVars, accepted, disturbed, hand, pc, cur>>
      BY <1>6 DEF allVars, loopVars, formVars, outside
    <2>2. RowsCalm /\ RevisionsKept
      BY <2>1, OtherCalm DEF FormInv, FormTypeOK, RevisionsKept
    <2>3. FormTypeOK'
      BY <2>1 DEF FormInv, FormTypeOK, revVars, rowVars
    <2> QED
      BY <2>1, <2>2, <2>3, KeptRevisions, CalmNotes, HandsStay DEF FormInv
  <1> QED
    BY <1>1, <1>2, <1>3, <1>4, <1>5, <1>6 DEF FormNext

-----------------------------------------------------------------------------
(* Every step is one of WorkerLoop's *)

\* What the queue sees of a row, by its revision.
LEMMA ApprovalOf ==
  ASSUME FormInv, NEW k \in SubmitJobs
  PROVE  /\ formRev[k] = 0 => Approval[k] = "current"
         /\ Current(formRev[k]) => Approval[k] = "current"
         /\ Proved(formRev[k]) /\ formRev[k] # 0 => Approval[k] = "confirmed"
         /\ formRev[k] # 0 /\ rstatus[formRev[k]] \in {"needs_attention", "superseded"} =>
               Approval[k] = "stale"
         /\ formRev[k] # 0 => formRev[k] \in Revisions
  <1>1. formRev[k] # 0 => formRev[k] \in Revisions
    BY Assumptions DEF FormInv, FormTypeOK
  <1>2. Proved(formRev[k]) /\ formRev[k] # 0 => outcome[formRev[k]] = "confirmed"
    BY <1>1 DEF FormInv, RevisionOK, Proved
  <1> QED
    BY <1>1, <1>2 DEF Approval, Current, Proved

\* The row keeps its revision and the revision its columns.
LEMMA ApprovalSame ==
  ASSUME FormInv, NEW k \in SubmitJobs, Latest' = Latest, formRev'[k] = formRev[k],
         formRev[k] # 0 => /\ rstatus'[formRev[k]] = rstatus[formRev[k]]
                           /\ outcome'[formRev[k]] = outcome[formRev[k]]
  PROVE  Approval'[k] = Approval[k]
  <1>1. CASE formRev[k] = 0
    BY <1>1 DEF Approval
  <1>2. CASE formRev[k] # 0
    BY <1>2 DEF Approval, Current
  <1> QED
    BY <1>1, <1>2

LEMMA EnqueueRefines ==
  ASSUME FormInv, NEW j \in Jobs, EnqueueScan(j) \/ EnqueueSubmit(j)
  PROVE  Loop!UserEnqueues(j)
  <1>1. PICK old \in SUBSET Ended :
            /\ EnqueueRow(j, old)
            /\ \/ /\ j \notin SubmitJobs
                  /\ formRev' = [k \in SubmitJobs |-> IF k \in old THEN 0 ELSE formRev[k]]
               \/ /\ j \in SubmitJobs /\ Current(Latest)
                  /\ formRev' = [k \in SubmitJobs |-> IF k = j THEN Latest
                                                     ELSE IF k \in old THEN 0 ELSE formRev[k]]
    BY DEF EnqueueScan, EnqueueSubmit
  <1>2. UNCHANGED <<rstatus, outcome>> /\ Latest' = Latest /\ UNCHANGED <<pc, cur, attemptNo>>
    BY <1>1, SameExisting DEF EnqueueRow, revVars
  <1>3. \A k \in SubmitJobs : Approval'[k] = IF k \in old \cup {j} THEN "current" ELSE Approval[k]
    <2> SUFFICES ASSUME NEW k \in SubmitJobs
                 PROVE  Approval'[k] = IF k \in old \cup {j} THEN "current" ELSE Approval[k]
      OBVIOUS
    <2>1. CASE k = j
      BY <1>1, <1>2, <2>1 DEF Approval, Current
    <2>2. CASE k # j /\ k \in old
      BY <1>1, <2>2 DEF Approval
    <2>3. CASE k # j /\ k \notin old
      <3>1. formRev'[k] = formRev[k]
        BY <1>1, <2>3
      <3> QED
        BY <1>2, <2>3, <3>1, ApprovalSame
    <2> QED
      BY <2>1, <2>2, <2>3
  <1>4. Approval' = [k \in SubmitJobs |-> IF k \in old \cup {j} THEN "current" ELSE Approval[k]]
    BY <1>3 DEF Approval
  <1>5. old \in SUBSET {k \in Jobs : status[k] \in Loop!Terminal}
    BY DEF Ended
  <1> QED
    BY <1>1, <1>2, <1>4, <1>5 DEF Loop!UserEnqueues, EnqueueRow, Loop!workerVars

LEMMA ApproveRefines ==
  ASSUME FormInv, NEW r \in Revisions, ApproveRevision(r)
  PROVE  UNCHANGED Approval
  <1>1. /\ r = Latest /\ rstatus[r] = "scanned"
        /\ rstatus' = [rstatus EXCEPT ![r] = "approved"]
        /\ UNCHANGED <<outcome, formRev>>
    BY DEF ApproveRevision, rowVars
  <1>2. rstatus'[r] = "approved" /\ \A q \in Revisions \ {r} : rstatus'[q] = rstatus[q]
    BY <1>1 DEF FormInv, FormTypeOK
  <1>3. Latest' = Latest
    BY <1>1, <1>2, SameExisting
  <1>4. ASSUME NEW k \in SubmitJobs PROVE Approval'[k] = Approval[k]
    <2>1. formRev[k] # 0 => formRev[k] \in Revisions \ {r}
      BY <1>1, ApprovalOf DEF FormInv, RowOK
    <2> QED
      BY <1>1, <1>2, <1>3, <2>1, ApprovalSame
  <1> QED
    BY <1>4 DEF Approval

\* An attempt whose outcome is not known has left status approved.
LEMMA UncertainLeft ==
  ASSUME FormInv, NEW r \in Revisions, Resolvable(r)
  PROVE  rstatus[r] = "needs_attention"
  <1>1. rstatus[r] \in {"approved", "needs_attention"} /\ Observed(r, "uncertain") /\ r # 0
    BY Assumptions DEF Resolvable
  <1>2. RevisionOK(r) /\ \A k \in SubmitJobs : RowOK(k)
    BY DEF FormInv
  <1> QED
    BY <1>1, <1>2, ObservedHere DEF RevisionOK, RowOK

LEMMA ResolveSubmittedRefines ==
  ASSUME FormInv, NEW r \in Revisions, ResolveSubmitted(r)
  PROVE  [Loop!Next]_(Loop!vars)
  <1>1. /\ rstatus[r] = "needs_attention" /\ r # 0
        /\ \A j \in Jobs : status[j] \notin Loop!Active
        /\ rstatus' = [rstatus EXCEPT ![r] = "submitted"]
        /\ outcome' = [outcome EXCEPT ![r] = "confirmed"]
        /\ UNCHANGED <<formRev, queue, pc, cur, attemptNo>>
    BY UncertainLeft, Assumptions DEF ResolveSubmitted, Resolvable, rowVars, loopVars
  <1>2. /\ rstatus'[r] = "submitted" /\ outcome'[r] = "confirmed"
        /\ \A q \in Revisions \ {r} : rstatus'[q] = rstatus[q] /\ outcome'[q] = outcome[q]
    BY <1>1 DEF FormInv, FormTypeOK
  <1>3. Latest' = Latest
    BY <1>1, <1>2, SameExisting
  <1>4. \A k \in SubmitJobs : formRev[k] # r => Approval'[k] = Approval[k]
    BY <1>1, <1>2, <1>3, ApprovalOf, ApprovalSame
  <1>5. CASE \E j \in SubmitJobs : formRev[j] = r
    <2>1. PICK j \in SubmitJobs : formRev[j] = r
      BY <1>5
    <2>2. \A k \in SubmitJobs \ {j} : formRev[k] # r
      BY <1>1, <2>1 DEF FormInv, OneAttempt
    <2>3. Approval[j] = "stale"
      BY <1>1, <2>1, ApprovalOf
    <2>4. Approval'[j] = "confirmed"
      BY <1>1, <1>2, <2>1 DEF Approval, Current
    <2>5. Approval' = [Approval EXCEPT ![j] = "confirmed"]
      BY <1>4, <2>2, <2>4 DEF Approval
    <2>6. Loop!RevisionVerified(j)
      BY <1>1, <2>3, <2>5, Assumptions
      DEF Loop!RevisionVerified, Loop!queueVars, Loop!workerVars, queue
    <2> QED
      BY <2>6 DEF Loop!Next, Loop!RevisionStep
  <1>6. CASE \A j \in SubmitJobs : formRev[j] # r
    <2>1. Approval' = Approval
      BY <1>4, <1>6 DEF Approval
    <2> QED
      BY <1>1, <2>1 DEF Loop!vars, Loop!queueVars, Loop!workerVars, queue
  <1> QED
    BY <1>5, <1>6

LEMMA ResolveNotSubmittedRefines ==
  ASSUME FormInv, NEW r \in Revisions, ResolveNotSubmitted(r)
  PROVE  UNCHANGED Approval
  <1>1. /\ rstatus[r] = "needs_attention" /\ r = Latest /\ r + 1 \in Revisions /\ r \in Nat
        /\ rstatus' = [rstatus EXCEPT ![r] = "superseded", ![r + 1] = "scanned"]
        /\ UNCHANGED formRev
    BY UncertainLeft, Assumptions DEF ResolveNotSubmitted, Resolvable, rowVars
  <1>2. rstatus'[r] = "superseded" /\ \A q \in Revisions \ {r, r + 1} : rstatus'[q] = rstatus[q]
    BY <1>1 DEF FormInv, FormTypeOK
  <1>3. ASSUME NEW k \in SubmitJobs PROVE Approval'[k] = Approval[k]
    <2>1. CASE formRev[k] = 0
      BY <1>1, <2>1 DEF Approval
    <2>2. CASE formRev[k] # 0
      <3>1. /\ formRev[k] \in Revisions /\ RevisionOK(formRev[k])
            /\ rstatus[formRev[k]] # "none"
        BY <2>2, ApprovalOf DEF FormInv, RowOK
      <3>2. \/ formRev[k] = r
            \/ rstatus[formRev[k]] = "superseded" /\ formRev[k] < r
        BY <1>1, <3>1, Assumptions DEF RevisionOK
      <3>3. rstatus[formRev[k]] \in {"needs_attention", "superseded"}
            /\ rstatus'[formRev[k]] = "superseded"
        <4>1. CASE formRev[k] = r
          BY <1>1, <1>2, <4>1
        <4>2. CASE formRev[k] # r
          <5>1. formRev[k] \in Revisions \ {r, r + 1}
            BY <1>1, <3>1, <3>2, <4>2, Assumptions
          <5> QED
            BY <1>2, <3>2, <4>2, <5>1
        <4> QED
          BY <4>1, <4>2
      <3>4. Approval[k] = "stale"
        BY <2>2, <3>3, ApprovalOf
      <3>5. Approval'[k] = "stale"
        BY <1>1, <2>2, <3>3 DEF Approval, Current
      <3> QED
        BY <3>4, <3>5
    <2> QED
      BY <2>1, <2>2
  <1> QED
    BY <1>3 DEF Approval

LEMMA RecordsRefines ==
  ASSUME FormInv, NEW w \in Workers, Records(w)
  PROVE  \E j \in SubmitJobs : Loop!RevisionConfirmed(w, j)
  <1> DEFINE j == cur[w]
             r == formRev[j]
  <1>1. HandOK(w) /\ pc[w] = "handling" /\ hand[w].at = "record"
    BY DEF FormInv, Records, Handling
  <1>2. j \in SubmitJobs /\ r \in Revisions /\ r # 0
    BY <1>1, SubmittedRow DEF HandOK
  <1>3. /\ Loop!HoldsLease(w, j) /\ ~cancelReq[j] /\ Current(r)
        /\ rstatus' = [rstatus EXCEPT ![r] = "submitted"]
        /\ outcome' = [outcome EXCEPT ![r] = "confirmed"]
        /\ UNCHANGED <<formRev, queue, pc, cur, attemptNo>>
    BY DEF Records, rowVars, loopVars
  <1> HIDE DEF r, j
  <1>4. /\ rstatus'[r] = "submitted" /\ outcome'[r] = "confirmed"
        /\ \A q \in Revisions \ {r} : rstatus'[q] = rstatus[q] /\ outcome'[q] = outcome[q]
    BY <1>2, <1>3 DEF FormInv, FormTypeOK
  <1>5. Latest' = Latest
    <2>1. rstatus[r] = "approved"
      BY <1>3 DEF Current
    <2> QED
      BY <1>2, <1>4, <2>1, SameExisting
  <1>6. Approval[j] = "current"
    BY <1>2, <1>3, ApprovalOf DEF r
  <1>7. Approval' = [Approval EXCEPT ![j] = "confirmed"]
    <2>1. Approval'[j] = "confirmed"
      BY <1>2, <1>3, <1>4 DEF Approval, Current, r
    <2>2. ASSUME NEW k \in SubmitJobs \ {j} PROVE Approval'[k] = Approval[k]
      <3>1. formRev[k] # 0 => formRev[k] \in Revisions \ {r}
        BY <1>2, ApprovalOf DEF FormInv, OneAttempt, r
      <3> QED
        BY <1>3, <1>4, <1>5, <3>1, ApprovalSame
    <2> QED
      BY <2>1, <2>2 DEF Approval
  <1>8. Loop!RevisionConfirmed(w, j)
    BY <1>1, <1>3, <1>6, <1>7 DEF Loop!RevisionConfirmed, Loop!queueVars, Loop!workerVars, queue, j
  <1> QED
    BY <1>2, <1>8

LEMMA StoresScanRefines ==
  ASSUME FormInv, NEW w \in Workers, StoresScan(w)
  PROVE  [Loop!Next]_(Loop!vars)
  <1> DEFINE L == Latest
             S == {j \in SubmitJobs : formRev[j] \in Replaced}
  <1>1. /\ L < MaxRevision
        /\ \A q \in Existing : rstatus[q] # "submitted"
        /\ \A j \in SubmitJobs : status[j] # "running"
        /\ Loop!CancelSuperseded(S)
        /\ rstatus' = [q \in Revisions |-> IF q \in Replaced THEN "superseded"
                                           ELSE IF q = L + 1 THEN "scanned" ELSE rstatus[q]]
        /\ UNCHANGED <<outcome, formRev, pc, cur, attemptNo>>
    BY DEF StoresScan, ScanAccepted, StoreRevision, rowVars
  <1>2. L \in Nat /\ L + 1 \in Revisions
    BY <1>1, LatestType, Assumptions
  <1>3. ASSUME NEW k \in SubmitJobs, formRev[k] # 0
        PROVE  /\ formRev[k] \in Existing
               /\ rstatus'[formRev[k]] = "superseded" /\ Approval'[k] = "stale"
               /\ k \notin S => Approval[k] = "stale"
               /\ k \in S => formRev[k] = L
    <2>1. /\ formRev[k] \in Existing /\ formRev[k] \in Revisions /\ RevisionOK(formRev[k])
      BY <1>3, ApprovalOf DEF FormInv, RowOK, Existing
    <2>2. formRev[k] <= L /\ formRev[k] \in Nat
      BY <2>1, Assumptions DEF RevisionOK, Existing
    <2>3. rstatus'[formRev[k]] = "superseded"
      BY <1>1, <1>2, <2>1, <2>2 DEF Replaced
    <2>4. Approval'[k] = "stale"
      BY <1>1, <1>3, <2>3 DEF Approval, Current
    <2>5. k \notin S => Approval[k] = "stale"
      BY <1>3, <2>1, ApprovalOf DEF Replaced
    <2>6. k \in S => formRev[k] = L
      BY <1>2, <2>1, <2>2 DEF Replaced, RevisionOK, Existing
    <2> QED
      BY <2>1, <2>3, <2>4, <2>5, <2>6
  <1>4. ASSUME NEW k \in SubmitJobs, k \notin S PROVE Approval'[k] = Approval[k]
    <2>1. CASE formRev[k] = 0
      BY <1>1, <2>1 DEF Approval
    <2>2. CASE formRev[k] # 0
      BY <1>3, <1>4, <2>2
    <2> QED
      BY <2>1, <2>2
  <1>5. CASE \E j \in S : Approval[j] = "current"
    <2>1. PICK j \in S : Approval[j] = "current"
      BY <1>5
    <2>2. j \in SubmitJobs /\ formRev[j] # 0 /\ j \in Jobs
      BY Assumptions DEF Replaced, Existing
    <2>3. S = {j}
      <3>1. ASSUME NEW k \in S PROVE k = j
        <4>1. k \in SubmitJobs /\ formRev[k] # 0
          BY Assumptions DEF Replaced, Existing
        <4>2. formRev[k] = formRev[j]
          BY <1>3, <2>2, <4>1
        <4> QED
          BY <2>2, <4>1, <4>2 DEF FormInv, OneAttempt
      <3> QED
        BY <3>1
    <2>4. Approval' = [Approval EXCEPT ![j] = "stale"]
      <3>1. Approval'[j] = "stale"
        BY <1>3, <2>2
      <3>2. \A k \in SubmitJobs \ {j} : Approval'[k] = Approval[k]
        BY <1>4, <2>3
      <3> QED
        BY <3>1, <3>2 DEF Approval
    <2>5. Loop!CancelSuperseded({j})
      BY <1>1, <2>3
    <2>6. Loop!RevisionSuperseded(j)
      BY <1>1, <2>1, <2>4, <2>5 DEF Loop!RevisionSuperseded, Loop!workerVars
    <2> QED
      BY <2>2, <2>6 DEF Loop!Next, Loop!RevisionStep
  <1>6. CASE \A j \in S : Approval[j] # "current"
    <2>1. ASSUME NEW j \in S PROVE Approval'[j] = Approval[j] /\ status[j] \notin Loop!Active
      <3>1. j \in SubmitJobs /\ formRev[j] # 0
        BY Assumptions DEF Replaced, Existing
      <3>2. Approval'[j] = "stale" /\ rstatus[formRev[j]] # "submitted"
        BY <1>1, <1>3, <3>1
      <3>3. ~Current(formRev[j])
        BY <1>6, <3>1, ApprovalOf
      <3>4. Approval[j] = "stale"
        BY <3>1, <3>2, <3>3 DEF Approval
      <3>5. status[j] \notin Loop!Active
        BY <3>1, <3>2, <3>3 DEF FormInv, RowOK, Proved
      <3> QED
        BY <3>2, <3>4, <3>5
    <2>2. Approval' = Approval
      BY <1>4, <2>1 DEF Approval
    <2>3. UNCHANGED queue
      <3>1. /\ status' = [j \in Jobs |-> status[j]]
            /\ cancelReq' = [j \in Jobs |-> cancelReq[j]]
            /\ ahead' = Loop!Lined({}, {})
            /\ UNCHANGED <<attempts, lockedBy, lease, due>>
        <4>1. \A j \in S : status[j] \notin Loop!Active
          BY <2>1
        <4>2. {j \in S : status[j] \in Loop!Active} = {}
          BY <4>1
        <4> HIDE DEF S
        <4>3. Loop!TypeOK
          BY DEF FormInv, FormTypeOK
        <4> QED
          BY <1>1, <4>2, <4>3 DEF Loop!CancelSuperseded, Loop!TypeOK, Loop!QueueTypeOK
      <3>2. Loop!TypeOK
        BY DEF FormInv, FormTypeOK
      <3>3. ahead' = ahead
        BY <3>1, <3>2 DEF Loop!Lined, Loop!TypeOK, Loop!QueueTypeOK
      <3>4. status' = status /\ cancelReq' = cancelReq
        BY <3>1, <3>2 DEF Loop!TypeOK, Loop!QueueTypeOK
      <3> QED
        BY <3>1, <3>3, <3>4 DEF queue
    <2> QED
      BY <1>1, <2>2, <2>3 DEF Loop!vars, Loop!queueVars, Loop!workerVars, queue
  <1> QED
    BY <1>5, <1>6

LEMMA AttentionRefines ==
  ASSUME FormInv, NEW w \in Workers, NEW j \in Jobs, CompletesWithAttention(w, j)
  PROVE  Loop!WorkerRecordsAttention(w, j) \/ Loop!WorkerCompletes(w, j)
  <1> DEFINE r == formRev[j]
             s == hand[w].state
  <1>1. /\ pc[w] = "completing" /\ cur[w] = j
        /\ Loop!CompleteJob(w, j, "needs_attention")
        /\ formRev' = formRev /\ Loop!Release(w)
    BY DEF CompletesWithAttention
  <1>2. /\ r \in Revisions /\ r # 0 /\ j \in SubmitJobs
        /\ \/ /\ s = "confirmed"
              /\ rstatus'[r] = "submitted" /\ outcome'[r] = "confirmed"
           \/ /\ Current(r) /\ rstatus'[r] = "needs_attention" /\ s # "confirmed"
           \/ /\ Proved(r) /\ UNCHANGED <<rstatus, outcome>>
        /\ rstatus[r] # "none"
        /\ Current(r) \/ Proved(r)
        /\ \A q \in Revisions \ {r} : rstatus'[q] = rstatus[q] /\ outcome'[q] = outcome[q]
    BY AttentionRecorded
  <1> HIDE DEF r, s
  <1>3. Latest' = Latest
    <2>1. rstatus'[r] # "none"
      BY <1>2
    <2> QED
      BY <1>2, <2>1, SameExisting
  <1>4. ASSUME NEW k \in SubmitJobs \ {j} PROVE Approval'[k] = Approval[k]
    <2>1. formRev[k] # 0 => formRev[k] \in Revisions \ {r}
      BY <1>2, ApprovalOf DEF FormInv, OneAttempt, r
    <2> QED
      BY <1>1, <1>2, <1>3, <2>1, ApprovalSame
  <1>5. CASE Current(r)
    <2>1. Approval[j] = "current"
      BY <1>2, <1>5, ApprovalOf DEF r
    <2>2. Approval'[j] \in {"stale", "confirmed"}
      <3>1. rstatus'[r] # "approved"
        BY <1>2, <1>5 DEF Current, Proved
      <3> QED
        BY <1>1, <1>2, <3>1 DEF Approval, Current, r
    <2>3. \E a \in {"stale", "confirmed"} : Approval' = [Approval EXCEPT ![j] = a]
      <3>1. PICK a \in {"stale", "confirmed"} : Approval'[j] = a
        BY <2>2
      <3>2. Approval' = [Approval EXCEPT ![j] = a]
        BY <1>4, <3>1 DEF Approval
      <3> QED
        BY <3>2
    <2> QED
      BY <1>1, <1>2, <2>1, <2>3 DEF Loop!WorkerRecordsAttention
  <1>6. CASE Proved(r)
    <2>1. Approval[j] = "confirmed"
      BY <1>2, <1>6, ApprovalOf DEF r
    <2>2. rstatus'[r] = "submitted" /\ outcome'[r] = "confirmed"
      <3>1. rstatus[r] = "submitted" /\ outcome[r] = "confirmed"
        BY <1>2, <1>6 DEF Proved, FormInv, RevisionOK
      <3> QED
        BY <1>2, <3>1 DEF Current
    <2>3. Approval'[j] = "confirmed"
      BY <1>1, <1>2, <2>2 DEF Approval, Current, r
    <2>4. Approval' = Approval
      BY <1>4, <2>1, <2>3 DEF Approval
    <2> QED
      BY <1>1, <2>4 DEF Loop!WorkerCompletes
  <1> QED
    BY <1>2, <1>5, <1>6

LEMMA PlainlyRefines ==
  ASSUME FormInv, NEW w \in Workers, NEW j \in Jobs,
         CompletesPlainly(w, j) \/ CompletionRefused(w, j)
  PROVE  Loop!WorkerCompletes(w, j)
  <1>1. UNCHANGED Approval
    BY ApprovalKept DEF CompletesPlainly, CompletionRefused, revVars, rowVars
  <1>2. CASE CompletesPlainly(w, j)
    <2>1. hand[w].ends \in {"succeeded", "needs_attention"}
      BY HandlingHand
    <2> QED
      BY <1>1, <1>2, <2>1 DEF CompletesPlainly, Loop!WorkerCompletes
  <1>3. CASE CompletionRefused(w, j)
    <2>1. ~Loop!HoldsLease(w, j) \/ cancelReq[j]
      <3> SUFFICES ASSUME Loop!HoldsLease(w, j), ~cancelReq[j] PROVE FALSE
        OBVIOUS
      <3>1. WithAttention(w) /\ rstatus[formRev[j]] \notin {"approved", "submitted"}
        BY <1>3 DEF CompletionRefused, Completable
      <3>2. j \in SubmitJobs /\ status[j] = "running"
        BY <1>3, <3>1 DEF CompletionRefused, WithAttention, Submitting, Loop!HoldsLease
      <3> QED
        BY <3>1, <3>2 DEF FormInv, RowOK, Current, Proved, Loop!Active
    <2> QED
      BY <1>1, <1>3, <2>1 DEF CompletionRefused, Loop!WorkerCompletes, Loop!queueVars, queue
  <1> QED
    BY <1>2, <1>3

\* A step that leaves the queue and the workers, as WorkerLoop sees them.
LEMMA Stutters ==
  ASSUME UNCHANGED loopVars, UNCHANGED Approval
  PROVE  UNCHANGED Loop!vars
  BY DEF loopVars, queue, Loop!vars, Loop!queueVars, Loop!workerVars

LEMMA StepRefines ==
  ASSUME FormInv, [FormNext]_allVars
  PROVE  [Loop!Next]_(Loop!vars)
  <1>1. CASE UserStep
    <2>1. CASE \E j \in Jobs : EnqueueScan(j) \/ EnqueueSubmit(j)
      BY <2>1, EnqueueRefines DEF Loop!Next
    <2>2. CASE \E j \in Jobs : CancelRow(j)
      <3>1. PICK j \in Jobs : CancelRow(j)
        BY <2>2
      <3>2. Loop!UserCancels(j)
        BY <3>1, ApprovalKept DEF CancelRow, Loop!UserCancels, Loop!workerVars, revVars, rowVars
      <3> QED
        BY <3>2 DEF Loop!Next
    <2>3. CASE \E r \in Revisions : ApproveRevision(r)
      BY <2>3, ApproveRefines, Stutters DEF ApproveRevision
    <2>4. CASE \E r \in Revisions : ResolveSubmitted(r)
      BY <2>4, ResolveSubmittedRefines
    <2>5. CASE \E r \in Revisions : ResolveNotSubmitted(r)
      BY <2>5, ResolveNotSubmittedRefines, Stutters DEF ResolveNotSubmitted
    <2> QED
      BY <1>1, <2>1, <2>2, <2>3, <2>4, <2>5 DEF UserStep
  <1>2. ASSUME NEW w \in Workers, Handler(w) PROVE [Loop!Next]_(Loop!vars)
    <2>1. CASE \/ ResolveTask(w) \/ BeforeSubmit(w) \/ Confirmed(w) \/ RecordFails(w)
               \/ \E take \in BOOLEAN : Click(w, take)
      <3>1. UNCHANGED <<revVars, rowVars, loopVars>>
        BY <2>1 DEF ResolveTask, BeforeSubmit, Confirmed, RecordFails, Click, GoesOn
      <3> QED
        BY <3>1, ApprovalKept, Stutters DEF revVars, rowVars
    <2>2. CASE NoAction(w) \/ NeedsUser(w) \/ Unclear(w) \/ Rejected(w)
      BY <2>2 DEF NoAction, NeedsUser, Unclear, Rejected, Ends, Loop!WorkerStep, Loop!Next
    <2>3. CASE RaisesEarly(w) \/ RejectedAndRaises(w) \/ Recorded(w) \/ ScanStored(w)
      BY <2>3 DEF RaisesEarly, RejectedAndRaises, Recorded, ScanStored, Loop!WorkerStep, Loop!Next
    <2>4. CASE Records(w)
      BY <2>4, RecordsRefines DEF Loop!Next, Loop!RevisionStep
    <2>5. CASE StoresScan(w)
      BY <2>5, StoresScanRefines
    <2> QED
      BY <1>2, <2>1, <2>2, <2>3, <2>4, <2>5 DEF Handler
  <1>3. CASE \E w \in Workers : RunOnce(w)
    BY <1>3 DEF RunOnce, Loop!WorkerStep, Loop!Next
  <1>4. CASE \E w \in Workers, j \in Jobs : \/ CompletesWithAttention(w, j)
                                           \/ CompletesPlainly(w, j) \/ CompletionRefused(w, j)
    BY <1>4, AttentionRefines, PlainlyRefines DEF Loop!WorkerStep, Loop!Next
  <1>5. CASE \E j \in Jobs : LeaseLapses(j) \/ RowBecomesDue(j)
    BY <1>5 DEF LeaseLapses, RowBecomesDue, Loop!Next
  <1>6. CASE UNCHANGED allVars
    <2>1. UNCHANGED loopVars /\ UNCHANGED <<rstatus, outcome, formRev>>
      BY <1>6 DEF allVars, formVars, revVars, rowVars
    <2> QED
      BY <2>1, ApprovalKept, Stutters
  <1> QED
    BY <1>1, <1>2, <1>3, <1>4, <1>5, <1>6 DEF FormNext

-----------------------------------------------------------------------------
(* The inductive invariant holds *)

IInv == LoopP!IInv /\ FormInv

LEMMA InitIInv == FormInit => IInv
  <1> SUFFICES ASSUME FormInit PROVE IInv
    OBVIOUS
  <1>1. LoopP!IInv /\ Loop!TypeOK
    BY LoopStarts, LoopFacts DEF FormInit
  <1>2. FormTypeOK
    <2>1. hand \in [Workers ->
              [at : {"resolve", "fill", "click", "observe", "record", "recorded", "stored"},
               state : States, ends : {"succeeded", "needs_attention"}, taken : BOOLEAN]]
      BY FreshType DEF FormInit
    <2>2. /\ rstatus \in [Revisions -> {"none", "scanned", "approved", "submitted",
                                        "needs_attention", "superseded"}]
          /\ outcome \in [Revisions -> States]
          /\ verdict \in [Revisions -> {"none", "provider", "user", "not_submitted"}]
          /\ result  \in [SubmitJobs -> States]
      BY DEF FormInit, States
    <2>3. /\ formRev \in [SubmitJobs -> 0..MaxRevision]
          /\ accepted \in [Revisions -> 0..2]
          /\ disturbed \in BOOLEAN
      <3>1. 0 \in 0..MaxRevision /\ 0 \in 0..2
        BY Assumptions
      <3> QED
        BY <3>1 DEF FormInit
    <2> QED
      BY <1>1, <2>1, <2>2, <2>3 DEF FormTypeOK
  <1>3. \A r \in Revisions : rstatus[r] = "none" /\ outcome[r] = "none" /\ verdict[r] = "none"
    BY DEF FormInit
  <1>4. Latest = 0
    BY <1>3, LatestOf, Assumptions
  <1>5. \A r \in Revisions : RevisionOK(r)
    BY <1>3, <1>4, Assumptions DEF RevisionOK
  <1>6. \A j \in SubmitJobs : formRev[j] = 0 /\ status[j] = "absent" /\ result[j] = "none"
    BY Assumptions DEF FormInit, Loop!Init, Loop!QueueInit
  <1>7. \A j \in SubmitJobs : RowOK(j)
    BY <1>6 DEF RowOK, Loop!Active
  <1>8. OneAttempt
    BY <1>6 DEF OneAttempt
  <1>9. \A w \in Workers : HandOK(w)
    BY Assumptions DEF FormInit, Loop!Init, HandOK, Fresh, Submitting
  <1> QED
    BY <1>1, <1>2, <1>5, <1>7, <1>8, <1>9 DEF IInv, FormInv

LEMMA StepIInv ==
  ASSUME IInv, [FormNext]_allVars
  PROVE  IInv' /\ [Loop!Next]_(Loop!vars)
  <1>1. [Loop!Next]_(Loop!vars)
    BY StepRefines DEF IInv
  <1>2. LoopP!IInv'
    BY <1>1, LoopKeeps DEF IInv
  <1>3. Loop!TypeOK'
    BY Zenon, <1>2 DEF LoopP!IInv, Loop!TypeOK, LoopP!TypeOK, Loop!QueueTypeOK,
                       LoopP!QueueTypeOK, Loop!Steps, LoopP!Steps, Loop!Statuses, LoopP!Statuses,
                       Loop!Active, LoopP!Active, Loop!Terminal, LoopP!Terminal
  <1>4. FormInv'
    BY <1>3, StepFormInv DEF IInv
  <1> QED
    BY <1>1, <1>2, <1>4 DEF IInv

\* The invariant says what the properties say.
LEMMA InvImplies ==
  ASSUME FormInv
  PROVE  RevisionsInLine /\ OutcomesAreTrue /\ UncertainIsDecided
  <1>1. \A r \in Existing : r \in Revisions /\ r # 0 /\ RevisionOK(r)
    BY Assumptions DEF FormInv, Existing
  <1>2. RevisionsInLine
    <2>1. OneLiveRevision
      BY <1>1 DEF OneLiveRevision, RevisionOK, Existing
    <2>2. ActiveSubmitIsCurrent
      BY DEF ActiveSubmitIsCurrent, FormInv, RowOK, Proved
    <2> QED
      BY <2>1, <2>2 DEF RevisionsInLine
  <1>3. OutcomesAreTrue
    <2>1. SubmittedIsReal
      BY <1>1 DEF SubmittedIsReal, FormInv, RevisionOK, RowOK, Proved
    <2>2. ConfirmationIsRecorded
      BY <1>1, NoConfirmation DEF ConfirmationIsRecorded
    <2> QED
      BY <2>1, <2>2 DEF OutcomesAreTrue
  <1>4. UncertainIsDecided
    <2> SUFFICES ASSUME NEW r \in Existing, rstatus[r] = "superseded", Observed(r, "uncertain")
                 PROVE  verdict[r] = "not_submitted"
      BY DEF UncertainIsDecided
    <2>1. CASE outcome[r] = "uncertain"
      BY <1>1, <2>1 DEF RevisionOK
    <2>2. CASE outcome[r] # "uncertain"
      BY <1>1, <2>2, ObservedHere DEF FormInv, RowOK
    <2> QED
      BY <2>1, <2>2
  <1> QED
    BY <1>2, <1>3, <1>4

\* A submitted revision is the newest one, and the history knows of it.
LEMMA SubmittedIsLatest ==
  ASSUME FormInv, NEW r \in Revisions, rstatus[r] = "submitted"
  PROVE  /\ r = Latest /\ r \in Existing /\ outcome[r] = "confirmed"
         /\ \A old : Closed(old)
         /\ ~Current(Latest)
  <1>1. RevisionOK(r) /\ r \in Nat /\ Latest \in Nat /\ r \in Existing
    BY LatestType, Assumptions DEF FormInv, Existing
  <1>2. r = Latest /\ outcome[r] = "confirmed"
    BY <1>1 DEF RevisionOK
  <1> QED
    BY <1>1, <1>2 DEF Closed, ObservedBut, Current

LEMMA ClosedStep ==
  ASSUME FormInv, [FormNext]_allVars, NEW r \in Revisions, rstatus[r] = "submitted"
  PROVE  /\ UNCHANGED <<rstatus[r], outcome[r], verdict[r]>>
         /\ Existing' = Existing
         /\ \A j \in Jobs : status[j] = "absent" => status'[j] = "absent"
  <1> DEFINE Goal == /\ UNCHANGED <<rstatus[r], outcome[r], verdict[r]>>
                     /\ Existing' = Existing
                     /\ \A j \in Jobs : status[j] = "absent" => status'[j] = "absent"
  <1> SUFFICES Goal
    OBVIOUS
  <1>1. r = Latest /\ \A old : Closed(old)
    BY SubmittedIsLatest
  <1>2. \A q : ~Current(q)
    BY <1>1 DEF Current
  <1>3. ASSUME UNCHANGED revVars, RowsCalm PROVE Goal
    <2>1. UNCHANGED <<rstatus, outcome, verdict>>
      BY <1>3 DEF revVars
    <2>2. Existing' = Existing
      BY <2>1 DEF Existing
    <2>3. \A j \in Jobs : status[j] = "absent" => status'[j] = "absent"
      BY <1>3 DEF RowsCalm
    <2> QED
      BY <2>1, <2>2, <2>3
  <1>4. Loop!TypeOK
    BY DEF FormInv, FormTypeOK
  <1> HIDE DEF Goal
  <1>5. CASE UserStep
    <2>1. \A j \in Jobs : ~EnqueueScan(j) /\ ~EnqueueSubmit(j)
      BY <1>1 DEF EnqueueScan, EnqueueSubmit
    <2>2. \A q \in Revisions : /\ ~ApproveRevision(q)
                               /\ ~ResolveSubmitted(q) /\ ~ResolveNotSubmitted(q)
      BY <1>1 DEF ApproveRevision, ResolveSubmitted, ResolveNotSubmitted, Resolvable
    <2>3. ASSUME NEW j \in Jobs, CancelRow(j) PROVE Goal
      BY <1>3, <1>4, <2>3, OtherCalm DEF CancelRow
    <2> QED
      BY <1>5, <2>1, <2>2, <2>3 DEF UserStep
  <1>6. ASSUME NEW w \in Workers, Handler(w) PROVE Goal
    <2>1. ~Records(w) /\ ~StoresScan(w)
      BY <1>1, <1>2, SubmittedIsLatest DEF Records, StoresScan, ScanAccepted
    <2>2. CASE ResolveTask(w) \/ BeforeSubmit(w) \/ Confirmed(w) \/ RecordFails(w)
      BY <1>3, <1>4, <2>2, OtherCalm
      DEF ResolveTask, BeforeSubmit, Confirmed, RecordFails, GoesOn, loopVars
    <2>3. CASE NoAction(w) \/ NeedsUser(w) \/ Unclear(w) \/ Rejected(w)
      <3>1. UNCHANGED revVars /\ UNCHANGED queue
        BY <2>3 DEF NoAction, NeedsUser, Unclear, Rejected, Ends, Loop!HandlerReturns,
                    Loop!queueVars, queue
      <3> QED
        BY <1>3, <1>4, <3>1, OtherCalm
    <2>4. CASE RaisesEarly(w) \/ RejectedAndRaises(w) \/ Recorded(w) \/ ScanStored(w)
      <3>1. UNCHANGED revVars /\ UNCHANGED queue
        BY <2>4 DEF RaisesEarly, RejectedAndRaises, Recorded, ScanStored, formVars,
                    Loop!HandlerReturns, Loop!HandlerRaises, Loop!queueVars, queue
      <3> QED
        BY <1>3, <1>4, <3>1, OtherCalm
    <2>5. CASE \E take \in BOOLEAN : Click(w, take)
      <3>1. UNCHANGED revVars /\ UNCHANGED queue
        BY <2>5 DEF Click, loopVars
      <3> QED
        BY <1>3, <1>4, <3>1, OtherCalm
    <2> QED
      BY <1>6, <2>1, <2>2, <2>3, <2>4, <2>5 DEF Handler
  <1>7. ASSUME NEW w \in Workers, RunOnce(w) PROVE Goal
    BY <1>3, <1>7, RunOnceMoves DEF RunOnce
  <1>8. ASSUME NEW w \in Workers, NEW j \in Jobs, CompletesPlainly(w, j) PROVE Goal
    <2>1. UNCHANGED revVars /\ Loop!CompleteJob(w, j, hand[w].ends)
      BY <1>8 DEF CompletesPlainly
    <2>2. /\ status[j] = "running"
          /\ \A k \in Jobs \ {j} : status'[k] = status[k]
      BY <2>1, CompletedRow
    <2> QED
      BY <2>1, <2>2 DEF Goal, revVars, Existing
  <1>9. ASSUME NEW w \in Workers, NEW j \in Jobs, CompletionRefused(w, j) PROVE Goal
    BY <1>3, <1>4, <1>9, OtherCalm DEF CompletionRefused
  <1>10. ASSUME NEW w \in Workers, NEW j \in Jobs, CompletesWithAttention(w, j) PROVE Goal
    <2> DEFINE q == formRev[j]
    <2>1. /\ q \in Revisions /\ Proved(q)
          /\ \/ rstatus'[q] = "submitted" /\ outcome'[q] = "confirmed" /\ verdict'[q] = "provider"
             \/ UNCHANGED <<rstatus, outcome, verdict>>
          /\ \A p \in Revisions \ {q} :
                rstatus'[p] = rstatus[p] /\ outcome'[p] = outcome[p] /\ verdict'[p] = verdict[p]
      BY <1>2, <1>10, AttentionRecorded
    <2> HIDE DEF q
    <2>2. q = r /\ outcome[r] = "confirmed" /\ verdict[r] = "provider"
      BY <1>1, <2>1, SubmittedIsLatest DEF Proved
    <2>3. UNCHANGED <<rstatus[r], outcome[r], verdict[r]>>
      BY <2>1, <2>2
    <2>4. Existing' = Existing
      BY <2>1, <2>2, <2>3 DEF Existing
    <2>5. /\ status[j] = "running"
          /\ \A k \in Jobs \ {j} : status'[k] = status[k]
      BY <1>10, CompletedRow DEF CompletesWithAttention
    <2> QED
      BY <2>3, <2>4, <2>5 DEF Goal
  <1>11. ASSUME NEW j \in Jobs, LeaseLapses(j) \/ RowBecomesDue(j) PROVE Goal
    BY <1>3, <1>4, <1>11, OtherCalm DEF LeaseLapses, RowBecomesDue, Loop!LeaseExpires,
                                        Loop!JobBecomesDue, formVars
  <1>12. CASE UNCHANGED allVars
    BY <1>3, <1>4, <1>12, OtherCalm DEF allVars, formVars, loopVars
  <1> QED
    BY <1>5, <1>6, <1>7, <1>8, <1>9, <1>10, <1>11, <1>12 DEF FormNext

-----------------------------------------------------------------------------
(* One application, as long as nothing is disturbed *)

\* The worker has clicked, the provider took it, and the worker will say so.
PastClick(w) ==
    /\ hand[w].taken
    /\ \/ pc[w] = "handling" /\ hand[w].at \in {"observe", "record", "recorded"}
       \/ pc[w] = "completing" /\ hand[w].state \in {"uncertain", "confirmed"}

BeforeClick(w) ==
    \/ pc[w] = "claimed"
    \/ pc[w] = "handling" /\ hand[w].at \in {"resolve", "fill", "click"}

\* Leases of running rows are live, and a worker with a submit row has it to itself;
\* until it clicks, the revision is the approved, newest one.
Undisturbed ==
    ~disturbed =>
        /\ \A j \in Jobs : status[j] = "running" =>
              lease[j] = "live" /\ (j \in SubmitJobs => ~cancelReq[j])
        /\ \A w \in Workers : cur[w] \in SubmitJobs =>
              /\ status[cur[w]] = "running" /\ lockedBy[cur[w]] = w
              /\ BeforeClick(w) => Current(formRev[cur[w]])

\* An application that the provider took is on record, or its row still runs; a
\* worker that is left with this row knows of it.
Underway(r) == \E j \in Attempts(r) :
    status[j] = "running" /\ \A w \in Workers : cur[w] = j => PastClick(w)

Accounted(r) ==
    \/ rstatus[r] = "submitted"
    \/ rstatus[r] = "needs_attention" /\ outcome[r] = "uncertain"
    \/ rstatus[r] = "approved" /\ Underway(r)

NotSubmitted == \E r \in Revisions : verdict[r] = "not_submitted"

Sole ==
    ~disturbed =>
        \/ NotSubmitted
        \/ \A r \in Revisions : accepted[r] > 0 => accepted[r] = 1 /\ Accounted(r)

\* Running submit rows go on, except for those of X; only the rows of T start.
Steady(X, T) ==
    /\ \A j \in Jobs \ T : status'[j] = "running" =>
          /\ status[j] = "running" /\ lease'[j] = lease[j]
          /\ j \in SubmitJobs => cancelReq'[j] = cancelReq[j]
    /\ \A j \in SubmitJobs \ X : status[j] = "running" =>
          status'[j] = "running" /\ lockedBy'[j] = lockedBy[j] /\ formRev'[j] = formRev[j]

\* They start for worker w, with an approved form.
Taken(w, T) ==
    \A j \in T :
        /\ status[j] = "queued" /\ status'[j] = "running"
        /\ lockedBy'[j] = w /\ lease'[j] = "live"
        /\ j \in SubmitJobs =>
              ~cancelReq'[j] /\ Current(formRev[j]) /\ formRev'[j] = formRev[j]

\* What the workers do meanwhile.
WorkersKeep(w, X, T) ==
    \A v \in Workers : cur'[v] \in SubmitJobs =>
        \/ v = w /\ cur'[v] \in T
        \/ /\ cur'[v] = cur[v] /\ cur[v] \notin X
           /\ BeforeClick(v)' => BeforeClick(v)
           /\ PastClick(v) => PastClick(v)'

LEMMA SteadyKeeps ==
  ASSUME FormInv, Undisturbed, Sole, ~disturbed,
         UNCHANGED <<rstatus, outcome, verdict, accepted>>,
         NEW w, NEW X, NEW T, Steady(X, T), Taken(w, T), WorkersKeep(w, X, T),
         \A j \in X \cap SubmitJobs : \/ rstatus[formRev[j]] # "approved"
                                      \/ \E v \in Workers : cur[v] = j /\ ~PastClick(v)
  PROVE  Undisturbed' /\ Sole'
  <1>1. Latest' = Latest
    BY SameExisting
  <1>2. \A q : Current(q) => q \in Revisions /\ rstatus'[q] = "approved" /\ q = Latest'
    BY <1>1 DEF Current
  <1>3. ASSUME NEW j \in Jobs, status'[j] = "running"
        PROVE  lease'[j] = "live" /\ (j \in SubmitJobs => ~cancelReq'[j])
    <2>1. CASE j \in T
      BY <2>1 DEF Taken
    <2>2. CASE j \notin T
      BY <1>3, <2>2 DEF Steady, Undisturbed
    <2> QED
      BY <2>1, <2>2
  <1>4. ASSUME NEW v \in Workers, cur'[v] \in SubmitJobs
        PROVE  /\ status'[cur'[v]] = "running" /\ lockedBy'[cur'[v]] = v
               /\ BeforeClick(v)' => Current(formRev[cur[v]])'
    <2>1. CASE v = w /\ cur'[v] \in T
      <3>1. /\ status'[cur'[v]] = "running" /\ lockedBy'[cur'[v]] = v
            /\ Current(formRev[cur'[v]]) /\ formRev'[cur'[v]] = formRev[cur'[v]]
        BY <1>4, <2>1 DEF Taken
      <3> QED
        BY <1>2, <3>1 DEF Current
    <2>2. CASE /\ cur'[v] = cur[v] /\ cur[v] \notin X
               /\ BeforeClick(v)' => BeforeClick(v)
      <3>1. /\ status[cur[v]] = "running" /\ lockedBy[cur[v]] = v
            /\ BeforeClick(v) => Current(formRev[cur[v]])
        BY <1>4, <2>2 DEF Undisturbed
      <3>2. /\ status'[cur[v]] = "running" /\ lockedBy'[cur[v]] = v
            /\ formRev'[cur[v]] = formRev[cur[v]]
        BY <1>4, <2>2, <3>1 DEF Steady
      <3> QED
        BY <1>2, <2>2, <3>1, <3>2 DEF Current
    <2> QED
      BY <1>4, <2>1, <2>2 DEF WorkersKeep
  <1>5. ASSUME NEW r \in Revisions, rstatus[r] = "approved", Underway(r)
        PROVE  Underway(r)'
    <2>1. PICK j \in SubmitJobs :
              /\ formRev[j] = r /\ status[j] = "running"
              /\ \A v \in Workers : cur[v] = j => PastClick(v)
      BY <1>5 DEF Underway, Attempts
    <2>2. j \notin X /\ j \notin T
      BY <1>5, <2>1 DEF Taken
    <2>3. status'[j] = "running" /\ formRev'[j] = r
      BY <2>1, <2>2 DEF Steady
    <2>4. \A v \in Workers : cur'[v] = j => PastClick(v)'
      BY <2>1, <2>2 DEF WorkersKeep
    <2> QED
      BY <2>3, <2>4 DEF Underway, Attempts
  <1>6. Undisturbed'
    BY <1>3, <1>4 DEF Undisturbed
  <1>7. Sole'
    <2>1. \A r \in Revisions : Accounted(r) => Accounted(r)'
      BY <1>5 DEF Accounted
    <2> QED
      BY <2>1 DEF Sole, NotSubmitted
  <1> QED
    BY <1>6, <1>7

-----------------------------------------------------------------------------
(* The steps that leave revisions alone *)

LEMMA SweepSteady ==
  ASSUME LoopP!IInv, FormInv, Undisturbed, ~disturbed, formRev' = formRev,
         NEW w \in Workers, NEW T \in SUBSET Loop!Claimable(Loop!Stale, Loop!Confirmed),
         Loop!SweepAndTake(w, T, Loop!Stale, Loop!Confirmed)
  PROVE  Steady({}, T) /\ Taken(w, T)
  <1>1. /\ Loop!Requeued(Loop!Stale, Loop!Confirmed) = {}
        /\ Loop!Exhausted(Loop!Stale, Loop!Confirmed) = {}
        /\ \A j \in Loop!Withdrawn(Loop!Stale, Loop!Confirmed) : status[j] = "queued"
    BY DEF Loop!Requeued, Loop!Exhausted, Loop!Expired, Loop!Withdrawn, Undisturbed
  <1>2. ASSUME NEW j \in T
        PROVE  /\ status[j] = "queued" /\ j \in Jobs /\ ~cancelReq[j] /\ j \notin Loop!Stale
               /\ j \notin Loop!Revoked(Loop!Stale, Loop!Confirmed)
    <2>1. status[j] = "queued" /\ j \in Jobs /\ j \notin Loop!Stale
      BY <1>1, <1>2, ClaimableRows DEF Undisturbed
    <2>2. ~cancelReq[j]
      BY <2>1, LoopFacts
    <2> QED
      BY <2>1, <2>2 DEF Loop!Revoked
  <1>3. ASSUME NEW j \in SubmitJobs, status[j] \in {"queued", "running"}
        PROVE  /\ j \notin Loop!Stale => Current(formRev[j])
               /\ j \notin Loop!Stale \/ j \in Loop!Confirmed
    <2>1. Current(formRev[j]) \/ (Proved(formRev[j]) /\ formRev[j] # 0)
      <3>1. status[j] # "absent" /\ status[j] \in Loop!Active
        BY <1>3 DEF Loop!Active
      <3> QED
        BY <3>1 DEF FormInv, RowOK
    <2> QED
      BY <2>1, ApprovalOf DEF Loop!Stale, Loop!Confirmed
  <1>4. ASSUME NEW j \in Jobs, j \notin T, status[j] = "running"
        PROVE  /\ status'[j] = "running" /\ lockedBy'[j] = lockedBy[j] /\ lease'[j] = lease[j]
               /\ j \in SubmitJobs => cancelReq'[j] = cancelReq[j]
    <2>1. j \notin Loop!Withdrawn(Loop!Stale, Loop!Confirmed)
      BY <1>1, <1>4
    <2>2. /\ status'[j] = "running" /\ lockedBy'[j] = lockedBy[j] /\ lease'[j] = lease[j]
          /\ cancelReq'[j] = (cancelReq[j] \/ j \in Loop!Revoked(Loop!Stale, Loop!Confirmed))
      BY <1>1, <1>4, <2>1 DEF Loop!SweepAndTake
    <2>3. j \in SubmitJobs => j \notin Loop!Revoked(Loop!Stale, Loop!Confirmed)
      BY <1>3, <1>4 DEF Loop!Revoked
    <2>4. cancelReq[j] \in BOOLEAN
      BY DEF FormInv, FormTypeOK, Loop!TypeOK, Loop!QueueTypeOK
    <2> QED
      BY <2>2, <2>3, <2>4
  <1>5. ASSUME NEW j \in Jobs, j \notin T, status'[j] = "running" PROVE status[j] = "running"
    BY <1>1, <1>5 DEF Loop!SweepAndTake
  <1>6. Steady({}, T)
    <2>1. \A j \in SubmitJobs : status[j] = "running" => j \notin T
      BY <1>2
    <2> QED
      BY <1>4, <1>5, <2>1, Assumptions DEF Steady
  <1>7. Taken(w, T)
    <2> SUFFICES ASSUME NEW j \in T
                 PROVE  /\ status[j] = "queued" /\ status'[j] = "running"
                        /\ lockedBy'[j] = w /\ lease'[j] = "live"
                        /\ j \in SubmitJobs =>
                              ~cancelReq'[j] /\ Current(formRev[j]) /\ formRev'[j] = formRev[j]
      BY DEF Taken
    <2>1. status[j] = "queued" /\ j \in Jobs /\ ~cancelReq[j] /\ j \notin Loop!Stale
          /\ j \notin Loop!Revoked(Loop!Stale, Loop!Confirmed)
      BY <1>2
    <2>2. status'[j] = "running"
      BY <2>1, ClaimableRows DEF Loop!SweepAndTake
    <2>3. lockedBy'[j] = w /\ lease'[j] = "live"
      BY <2>1 DEF Loop!SweepAndTake
    <2>4. ~cancelReq'[j]
      BY <2>1 DEF Loop!SweepAndTake
    <2> QED
      BY <1>3, <2>1, <2>2, <2>3, <2>4
  <1> QED
    BY <1>6, <1>7

LEMMA QueueSteady ==
  ASSUME FormInv, Undisturbed, ~disturbed, formRev' = formRev,
         \/ UNCHANGED queue
         \/ \E j \in Jobs : \/ Loop!BecomeDue(j) \/ \E v \in Workers : Loop!HeartbeatCancels(v, j)
                            \/ Loop!CancelJob(j) /\ ~(j \in SubmitJobs /\ status[j] = "running")
  PROVE  Steady({}, {}) /\ \A w : Taken(w, {})
  <1>1. Loop!QueueTypeOK
    BY DEF FormInv, FormTypeOK, Loop!TypeOK
  <1>2. CASE UNCHANGED queue
    BY <1>2 DEF Steady, Taken, queue
  <1>3. CASE \E j \in Jobs : Loop!BecomeDue(j)
    BY <1>3 DEF Loop!BecomeDue, Steady, Taken
  <1>4. CASE \E j \in Jobs, v \in Workers : Loop!HeartbeatCancels(v, j)
    <2>1. PICK j \in Jobs, v \in Workers : Loop!HeartbeatCancels(v, j)
      BY <1>4
    <2>2. j \notin SubmitJobs /\ status'[j] = "cancelled"
      BY <1>1, <2>1 DEF Loop!HeartbeatCancels, Loop!HoldsLease, Undisturbed, Loop!QueueTypeOK
    <2>3. \A k \in Jobs \ {j} : status'[k] = status[k] /\ lockedBy'[k] = lockedBy[k]
                                /\ lease'[k] = lease[k] /\ cancelReq'[k] = cancelReq[k]
      BY <1>1, <2>1 DEF Loop!HeartbeatCancels, Loop!Unlock, Loop!QueueTypeOK
    <2> QED
      BY <2>2, <2>3, Assumptions DEF Steady, Taken
  <1>5. CASE \E j \in Jobs : Loop!CancelJob(j) /\ ~(j \in SubmitJobs /\ status[j] = "running")
    <2>1. PICK j \in Jobs : Loop!CancelJob(j) /\ ~(j \in SubmitJobs /\ status[j] = "running")
      BY <1>5
    <2>2. /\ UNCHANGED <<lockedBy, lease>>
          /\ status'[j] = "running" => status[j] = "running"
          /\ \A k \in Jobs \ {j} : status'[k] = status[k] /\ cancelReq'[k] = cancelReq[k]
      BY <1>1, <2>1 DEF Loop!CancelJob, Loop!QueueTypeOK
    <2> QED
      BY <2>1, <2>2, Assumptions DEF Steady, Taken
  <1> QED
    BY <1>2, <1>3, <1>4, <1>5

LEMMA OthersKeep ==
  ASSUME NEW w \in Workers, NEW X, NEW T, OthersStay(w),
         \A v \in Workers \ {w} : cur[v] \in SubmitJobs => cur[v] \notin X,
         cur'[w] \in SubmitJobs =>
            \/ cur'[w] \in T
            \/ /\ cur'[w] = cur[w] /\ cur[w] \notin X
               /\ BeforeClick(w)' => BeforeClick(w)
               /\ PastClick(w) => PastClick(w)'
  PROVE  WorkersKeep(w, X, T)
  <1>1. \A v \in Workers \ {w} : /\ cur'[v] = cur[v]
                                 /\ BeforeClick(v)' => BeforeClick(v)
                                 /\ PastClick(v) => PastClick(v)'
    BY DEF OthersStay, BeforeClick, PastClick
  <1> QED
    BY <1>1 DEF WorkersKeep

\* The lease holder that gives up a row.
LEMMA StopSteady ==
  ASSUME FormInv, Undisturbed, ~disturbed, formRev' = formRev,
         NEW w \in Workers, NEW j \in Jobs,
         \/ Loop!FailJob(w, j, TRUE)
         \/ \E t \in {"succeeded", "needs_attention"} : Loop!CompleteJob(w, j, t)
  PROVE  /\ Steady({j}, {}) /\ Taken(w, {})
         /\ \A v \in Workers \ {w} : cur[v] \in SubmitJobs => cur[v] \notin {j}
  <1>1. Loop!QueueTypeOK
    BY DEF FormInv, FormTypeOK, Loop!TypeOK
  <1>2. /\ lockedBy[j] = w /\ status[j] = "running" /\ status'[j] # "running"
        /\ \A k \in Jobs \ {j} : status'[k] = status[k] /\ lockedBy'[k] = lockedBy[k]
                                 /\ lease'[k] = lease[k] /\ cancelReq'[k] = cancelReq[k]
    BY <1>1 DEF Loop!FailJob, Loop!CompleteJob, Loop!HoldsLease, Loop!Unlock, Loop!QueueTypeOK
  <1>3. \A v \in Workers : cur[v] \in SubmitJobs => lockedBy[cur[v]] = v
    BY DEF Undisturbed
  <1> QED
    BY <1>2, <1>3, Assumptions DEF Steady, Taken

LEMMA RunOnceSole ==
  ASSUME LoopP!IInv, FormInv, Undisturbed, Sole, ~disturbed, NEW w \in Workers, RunOnce(w)
  PROVE  Undisturbed' /\ Sole'
  <1>0. FormTypeOK /\ Loop!TypeOK /\ HandOK(w)
    BY DEF FormInv, FormTypeOK
  <1>1. /\ UNCHANGED <<rstatus, outcome, verdict, accepted, formRev>>
        /\ OthersStay(w) /\ Moves(w)
    BY RunOnceMoves DEF RunOnce, revVars, rowVars, outside
  <1>2. hand'[w] = (IF pc'[w] = "idle" THEN Fresh ELSE hand[w])
    BY <1>0 DEF RunOnce, FormTypeOK
  <1>3. CASE \E j \in Jobs : Loop!WorkerClaims(w, j)
    <2>1. PICK j \in Jobs : Loop!WorkerClaims(w, j)
      BY <1>3
    <2>2. /\ {j} \in SUBSET Loop!Claimable(Loop!Stale, Loop!Confirmed)
          /\ Loop!SweepAndTake(w, {j}, Loop!Stale, Loop!Confirmed)
      BY <2>1 DEF Loop!WorkerClaims, Loop!Claim, Loop!First
    <2>3. Steady({}, {j}) /\ Taken(w, {j})
      BY <1>1, <2>2, SweepSteady
    <2>4. cur'[w] = j
      BY <1>0, <2>1 DEF Loop!WorkerClaims, Loop!TypeOK
    <2>5. WorkersKeep(w, {}, {j})
      BY <1>1, <2>4, OthersKeep
    <2> QED
      BY <1>1, <2>3, <2>5, SteadyKeeps
  <1>4. CASE (\E j \in Jobs : Loop!ClaimReplyLost(w, j)) \/ Loop!WorkerFindsNothing(w)
    <2>1. PICK T \in SUBSET Loop!Claimable(Loop!Stale, Loop!Confirmed) :
              Loop!SweepAndTake(w, T, Loop!Stale, Loop!Confirmed)
      <3>1. CASE \E j \in Jobs : Loop!ClaimReplyLost(w, j)
        <4>1. PICK j \in Jobs : Loop!ClaimReplyLost(w, j)
          BY <3>1
        <4>2. /\ {j} \in SUBSET Loop!Claimable(Loop!Stale, Loop!Confirmed)
              /\ Loop!SweepAndTake(w, {j}, Loop!Stale, Loop!Confirmed)
          BY <4>1 DEF Loop!ClaimReplyLost, Loop!Claim, Loop!First
        <4> QED
          BY <4>2
      <3>2. CASE Loop!WorkerFindsNothing(w)
        <4>1. /\ {} \in SUBSET Loop!Claimable(Loop!Stale, Loop!Confirmed)
              /\ Loop!SweepAndTake(w, {}, Loop!Stale, Loop!Confirmed)
          BY <3>2 DEF Loop!WorkerFindsNothing, Loop!ClaimNothing
        <4> QED
          BY <4>1
      <3> QED
        BY <1>4, <3>1, <3>2
    <2>2. UNCHANGED <<pc, cur>> /\ pc[w] = "idle"
      BY <1>4 DEF Loop!ClaimReplyLost, Loop!WorkerFindsNothing, Loop!workerVars
    <2>3. cur'[w] \notin SubmitJobs
      BY <1>0, <2>2, Assumptions DEF HandOK
    <2>4. Steady({}, T) /\ Taken(w, T)
      BY <1>1, <2>1, SweepSteady
    <2>5. WorkersKeep(w, {}, T)
      BY <1>1, <2>3, OthersKeep
    <2> QED
      BY <1>1, <2>4, <2>5, SteadyKeeps
  <1>5. CASE \/ \E j \in Jobs : \/ Loop!InitialHeartbeat(w, j) \/ Loop!InitialHeartbeatFails(w, j)
                                \/ Loop!HeartbeatEndsHandler(w, j) \/ Loop!HeartbeatReplyLost(w, j)
             \/ Loop!TerminalRequestLost(w) \/ Loop!Crash(w)
    <2>1. \/ UNCHANGED queue
          \/ \E j \in Jobs, v \in Workers : Loop!HeartbeatCancels(v, j)
      BY <1>5 DEF Loop!InitialHeartbeat, Loop!InitialHeartbeatFails, Loop!HeartbeatEndsHandler,
                  Loop!HeartbeatReplyLost, Loop!TerminalRequestLost, Loop!Crash,
                  Loop!HeartbeatRenews, Loop!HeartbeatRefused, Loop!queueVars, queue
    <2>2. Steady({}, {}) /\ Taken(w, {})
      BY <1>1, <2>1, QueueSteady
    <2>3. pc[w] # "idle"
      BY <1>5 DEF Loop!InitialHeartbeat, Loop!InitialHeartbeatFails, Loop!HeartbeatEndsHandler,
                  Loop!HeartbeatReplyLost, Loop!TerminalRequestLost, Loop!Crash
    <2>4. cur'[w] \in SubmitJobs =>
              /\ cur'[w] = cur[w]
              /\ BeforeClick(w)' => BeforeClick(w)
              /\ PastClick(w) => PastClick(w)'
      BY <1>1, <2>3, Assumptions DEF Moves, BeforeClick, PastClick
    <2>5. WorkersKeep(w, {}, {})
      BY <1>1, <2>4, OthersKeep
    <2> QED
      BY <1>1, <2>2, <2>5, SteadyKeeps
  <1>6. CASE \E j \in Jobs : Loop!WorkerFails(w, j)
    <2>1. PICK j \in Jobs : Loop!WorkerFails(w, j)
      BY <1>6
    <2>2. /\ pc[w] = "failing" /\ cur[w] = j /\ cur'[w] = NoJob
          /\ Loop!FailJob(w, j, TRUE) \/ UNCHANGED queue
      BY <1>0, <2>1, Released DEF Loop!WorkerFails, Loop!queueVars, queue
    <2>3. ~PastClick(w) /\ cur'[w] \notin SubmitJobs
      BY <2>2, Assumptions DEF PastClick
    <2>4. CASE Loop!FailJob(w, j, TRUE)
      <3>1. /\ Steady({j}, {}) /\ Taken(w, {})
            /\ \A v \in Workers \ {w} : cur[v] \in SubmitJobs => cur[v] \notin {j}
        BY <1>1, <2>4, StopSteady
      <3>2. WorkersKeep(w, {j}, {})
        BY <1>1, <2>3, <3>1, OthersKeep
      <3> QED
        BY <1>1, <2>2, <2>3, <3>1, <3>2, SteadyKeeps
    <2>5. CASE UNCHANGED queue
      <3>1. Steady({}, {}) /\ Taken(w, {})
        BY <1>1, <2>5, QueueSteady
      <3>2. WorkersKeep(w, {}, {})
        BY <1>1, <2>3, OthersKeep
      <3> QED
        BY <1>1, <3>1, <3>2, SteadyKeeps
    <2> QED
      BY <2>2, <2>4, <2>5
  <1> QED
    BY <1>3, <1>4, <1>5, <1>6 DEF RunOnce

LEMMA CompletesPlainlySole ==
  ASSUME FormInv, Undisturbed, Sole, ~disturbed, NEW w \in Workers, NEW j \in Jobs,
         CompletesPlainly(w, j)
  PROVE  Undisturbed' /\ Sole'
  <1>1. /\ HandOK(w) /\ pc[w] = "completing" /\ cur[w] = j /\ ~WithAttention(w)
        /\ Loop!CompleteJob(w, j, hand[w].ends)
        /\ UNCHANGED <<rstatus, outcome, verdict, accepted, formRev>>
        /\ Loop!Release(w) /\ hand' = [hand EXCEPT ![w] = Fresh]
    BY DEF FormInv, CompletesPlainly, Done, revVars, outside
  <1>2. OthersStay(w) /\ cur'[w] \notin SubmitJobs
    BY <1>1, ReleasedHand, Released, Assumptions DEF FormInv
  <1>3. hand[w].ends \in {"succeeded", "needs_attention"} /\ hand[w].state \in States
    BY HandlingHand
  <1>4. /\ Steady({j}, {}) /\ Taken(w, {})
        /\ \A v \in Workers \ {w} : cur[v] \in SubmitJobs => cur[v] \notin {j}
    BY <1>1, <1>3, StopSteady
  <1>5. WorkersKeep(w, {j}, {})
    BY <1>2, <1>4, OthersKeep
  <1>6. j \in SubmitJobs => rstatus[formRev[j]] # "approved" \/ ~PastClick(w)
    <2>1. CASE Submitting(w) /\ hand[w].ends = "succeeded"
      BY <1>1, <2>1 DEF HandOK, Proved
    <2>2. CASE Submitting(w) /\ hand[w].ends # "succeeded"
      BY <1>1, <1>3, <2>2 DEF WithAttention, PastClick
    <2> QED
      BY <1>1, <2>1, <2>2 DEF Submitting
  <1> QED
    BY <1>1, <1>4, <1>5, <1>6, SteadyKeeps

LEMMA RefusedSole ==
  ASSUME FormInv, Undisturbed, Sole, ~disturbed, NEW w \in Workers, NEW j \in Jobs,
         CompletionRefused(w, j)
  PROVE  Undisturbed' /\ Sole'
  <1>1. /\ UNCHANGED <<rstatus, outcome, verdict, accepted, formRev, queue>>
        /\ Loop!Release(w) /\ hand' = [hand EXCEPT ![w] = Fresh]
    BY DEF CompletionRefused, Done, revVars, rowVars, outside
  <1>2. OthersStay(w) /\ cur'[w] \notin SubmitJobs
    BY <1>1, ReleasedHand, Released, Assumptions DEF FormInv
  <1>3. Steady({}, {}) /\ Taken(w, {})
    BY <1>1, QueueSteady
  <1>4. WorkersKeep(w, {}, {})
    BY <1>2, OthersKeep
  <1> QED
    BY <1>1, <1>3, <1>4, SteadyKeeps

\* A step of the handler that writes nothing and takes back no click.
LEMMA HandlerCalm ==
  ASSUME FormInv, Undisturbed, Sole, ~disturbed, NEW w \in Workers, OthersStay(w),
         UNCHANGED <<queue, rstatus, outcome, verdict, accepted, formRev, cur>>,
         BeforeClick(w)' => BeforeClick(w), PastClick(w) => PastClick(w)'
  PROVE  Undisturbed' /\ Sole'
  <1>1. Steady({}, {}) /\ Taken(w, {})
    BY QueueSteady
  <1>2. WorkersKeep(w, {}, {})
    BY OthersKeep
  <1> QED
    BY <1>1, <1>2, SteadyKeeps

LEMMA GoesOnSole ==
  ASSUME FormInv, Undisturbed, Sole, ~disturbed, NEW w \in Workers,
         ResolveTask(w) \/ BeforeSubmit(w) \/ Confirmed(w) \/ RecordFails(w)
  PROVE  Undisturbed' /\ Sole'
  <1>1. PICK at \in {"fill", "click", "record", "recorded"}, s \in {"none", "confirmed"} :
            /\ GoesOn(w, at, s)
            /\ pc[w] = "handling"
            /\ \/ at \in {"fill", "click"} /\ hand[w].at \in {"resolve", "fill"}
               \/ at \in {"record", "recorded"} /\ hand[w].taken
    BY DEF ResolveTask, BeforeSubmit, Confirmed, RecordFails, Handling, FormInv, HandOK
  <1>2. /\ hand' = [hand EXCEPT ![w].at = at, ![w].state = s]
        /\ UNCHANGED <<queue, rstatus, outcome, verdict, accepted, formRev, cur, pc>>
    BY <1>1 DEF GoesOn, revVars, rowVars, outside, loopVars
  <1>3. /\ hand'[w].at = at /\ hand'[w].taken = hand[w].taken
        /\ \A v \in Workers \ {w} : hand'[v] = hand[v]
    BY <1>2, HandlingHand
  <1>4. OthersStay(w)
    BY <1>2, <1>3 DEF OthersStay
  <1>5. BeforeClick(w)' => BeforeClick(w)
    BY <1>1, <1>2, <1>3 DEF BeforeClick
  <1>6. PastClick(w) => PastClick(w)'
    BY <1>1, <1>2, <1>3 DEF PastClick
  <1> QED
    BY <1>2, <1>4, <1>5, <1>6, HandlerCalm

LEMMA EndsSole ==
  ASSUME FormInv, Undisturbed, Sole, ~disturbed, NEW w \in Workers,
         \/ NoAction(w) \/ NeedsUser(w) \/ Unclear(w) \/ Rejected(w)
         \/ RaisesEarly(w) \/ RejectedAndRaises(w) \/ Recorded(w) \/ ScanStored(w)
  PROVE  Undisturbed' /\ Sole'
  <1>1. /\ UNCHANGED <<queue, rstatus, outcome, verdict, accepted, formRev, cur>>
        /\ pc[w] = "handling" /\ pc'[w] \in {"completing", "failing"}
        /\ \A v \in Workers \ {w} : pc'[v] = pc[v]
    <2>1. UNCHANGED <<rstatus, outcome, verdict, accepted, formRev>>
      BY DEF NoAction, NeedsUser, Unclear, Rejected, RaisesEarly, RejectedAndRaises, Recorded,
             ScanStored, formVars, revVars, rowVars, outside
    <2>2. Loop!HandlerReturns(w) \/ Loop!HandlerRaises(w)
      BY DEF NoAction, NeedsUser, Unclear, Rejected, RaisesEarly, RejectedAndRaises, Recorded,
             ScanStored, Ends
    <2> QED
      BY <2>1, <2>2 DEF Loop!HandlerReturns, Loop!HandlerRaises, Loop!queueVars, queue, FormInv,
                        FormTypeOK, Loop!TypeOK
  <1>2. \A v \in Workers \ {w} : hand'[v] = hand[v]
    BY HandlingHand DEF NoAction, NeedsUser, Unclear, Rejected, RaisesEarly, RejectedAndRaises,
                        Recorded, ScanStored, formVars, Ends
  <1>3. OthersStay(w)
    BY <1>1, <1>2 DEF OthersStay
  <1>4. PastClick(w) => PastClick(w)'
    <2> SUFFICES ASSUME PastClick(w) PROVE PastClick(w)'
      OBVIOUS
    <2>1. hand[w].taken /\ hand[w].at \in {"observe", "record", "recorded"}
      BY <1>1 DEF PastClick
    <2>2. Unclear(w) \/ Recorded(w)
      BY <2>1 DEF NoAction, NeedsUser, Rejected, RaisesEarly, RejectedAndRaises, ScanStored,
                  Handling
    <2>3. CASE Unclear(w)
      <3>1. /\ hand' = [hand EXCEPT ![w].ends = "needs_attention", ![w].state = "uncertain"]
            /\ pc' = [pc EXCEPT ![w] = "completing"]
        BY <2>3 DEF Unclear, Ends, Loop!HandlerReturns
      <3>2. hand'[w].taken = hand[w].taken /\ hand'[w].state = "uncertain"
        BY <3>1, HandlingHand
      <3>3. pc'[w] = "completing"
        BY <3>1 DEF FormInv, FormTypeOK, Loop!TypeOK
      <3> QED
        BY <2>1, <3>2, <3>3 DEF PastClick
    <2>4. CASE Recorded(w)
      <3>1. hand' = hand /\ pc' = [pc EXCEPT ![w] = "completing"] /\ hand[w].at = "recorded"
        BY <2>4 DEF Recorded, formVars, Loop!HandlerReturns, Handling
      <3>2. hand[w].state = "confirmed"
        BY <3>1 DEF FormInv, HandOK
      <3>3. pc'[w] = "completing"
        BY <3>1 DEF FormInv, FormTypeOK, Loop!TypeOK
      <3> QED
        BY <2>1, <3>1, <3>2, <3>3 DEF PastClick
    <2> QED
      BY <2>2, <2>3, <2>4
  <1>5. ~BeforeClick(w)'
    BY <1>1 DEF BeforeClick
  <1> QED
    BY <1>1, <1>3, <1>4, <1>5, HandlerCalm

\* While the worker has not clicked, nothing was accepted.
LEMMA NothingAccepted ==
  ASSUME FormInv, Sole, ~disturbed, ~NotSubmitted, NEW w \in Workers, Submitting(w),
         Current(formRev[cur[w]]), pc[w] # "idle", ~PastClick(w)
  PROVE  \A q \in Revisions : ~(accepted[q] > 0)
  <1> SUFFICES ASSUME NEW q \in Revisions, accepted[q] > 0 PROVE FALSE
    OBVIOUS
  <1>1. Accounted(q)
    BY DEF Sole
  <1>2. q = Latest
    BY <1>1, LatestType, Assumptions DEF FormInv, RevisionOK, Accounted
  <1>3. q = formRev[cur[w]] /\ rstatus[q] = "approved"
    BY <1>2 DEF Current
  <1>4. PICK j \in SubmitJobs : formRev[j] = q /\ \A v \in Workers : cur[v] = j => PastClick(v)
    BY <1>1, <1>3 DEF Accounted, Underway, Attempts
  <1>5. j = cur[w]
    <2>1. q # 0
      BY Assumptions
    <2> QED
      BY <1>3, <1>4, <2>1 DEF FormInv, OneAttempt, Submitting
  <1> QED
    BY <1>4, <1>5

LEMMA ClickSole ==
  ASSUME FormInv, Undisturbed, Sole, ~disturbed, NEW w \in Workers, NEW take \in BOOLEAN,
         Click(w, take)
  PROVE  Undisturbed' /\ Sole'
  <1>1. HandOK(w) /\ pc[w] = "handling" /\ hand[w].at = "click"
    BY DEF FormInv, Click, Handling
  <1> DEFINE j == cur[w]
             r == formRev[j]
  <1>2. Submitting(w) /\ j \in SubmitJobs /\ j \in Jobs /\ r \in Revisions /\ r # 0
    BY <1>1, SubmittedRow DEF HandOK
  <1>3. /\ status[j] = "running" /\ lockedBy[j] = w /\ Current(r)
    BY <1>1, <1>2 DEF Undisturbed, BeforeClick
  <1>4. /\ accepted' = [accepted EXCEPT ![r] = IF take THEN OneMore(@) ELSE @]
        /\ UNCHANGED <<queue, rstatus, outcome, verdict, formRev, cur, pc>>
        /\ hand'[w].at = "observe" /\ hand'[w].taken = take
        /\ \A v \in Workers \ {w} : hand'[v] = hand[v]
    <2>1. hand' = [hand EXCEPT ![w].at = "observe", ![w].taken = take]
      BY DEF Click
    <2>2. /\ hand'[w].at = "observe" /\ hand'[w].taken = take
          /\ \A v \in Workers \ {w} : hand'[v] = hand[v]
      BY <2>1, HandlingHand
    <2> QED
      BY <2>2 DEF Click, loopVars, revVars, rowVars
  <1>5. Latest' = Latest
    BY <1>4, SameExisting
  <1>6. UNCHANGED <<status, lockedBy, lease, cancelReq>>
    BY <1>4 DEF queue
  <1>7. Undisturbed'
    <2>1. \A v \in Workers : BeforeClick(v)' => BeforeClick(v)
      BY <1>1, <1>4 DEF BeforeClick
    <2> QED
      BY <1>4, <1>5, <1>6, <2>1 DEF Undisturbed, Current
  <1>8. ~PastClick(w)
    BY <1>1 DEF PastClick
  <1>9. CASE NotSubmitted
    BY <1>4, <1>7, <1>9 DEF Sole, NotSubmitted
  <1>10. CASE ~NotSubmitted
    <2>1. \A q \in Revisions : ~(accepted[q] > 0)
      BY <1>1, <1>2, <1>3, <1>8, <1>10, NothingAccepted
    <2> HIDE DEF r, j
    <2>0. accepted \in [Revisions -> 0..2]
      BY HandlingHand
    <2>2. \A q \in Revisions : accepted[q] = 0
      BY <2>0, <2>1
    <2>3. /\ accepted'[r] = IF take THEN 1 ELSE 0
          /\ \A q \in Revisions \ {r} : accepted'[q] = 0
      <3>1. accepted' = [accepted EXCEPT ![r] = IF take THEN OneMore(accepted[r]) ELSE accepted[r]]
        BY <1>4 DEF r, j
      <3>2. r \in Revisions
        BY <1>2 DEF r, j
      <3> QED
        BY <2>0, <2>2, <3>1, <3>2 DEF OneMore
    <2>4. take => Accounted(formRev[j])'
      <3> SUFFICES ASSUME take PROVE Accounted(formRev[j])'
        OBVIOUS
      <3>1. formRev'[j] = r /\ rstatus'[r] = "approved" /\ status'[j] = "running"
        BY <1>3, <1>4, <1>6 DEF Current, r
      <3>2. \A v \in Workers : cur'[v] = j => v = w
        BY <1>2, <1>3, <1>4 DEF Undisturbed
      <3>3. PastClick(w)'
        BY <1>1, <1>4 DEF PastClick
      <3>4. \A v \in Workers : cur'[v] = j => PastClick(v)'
        BY <3>2, <3>3
      <3>5. j' = j
        BY <1>4 DEF j
      <3>6. \E k \in SubmitJobs : /\ formRev'[k] = r /\ status'[k] = "running"
                                  /\ \A v \in Workers : cur'[v] = k => PastClick(v)'
        BY <1>2, <3>1, <3>4
      <3> QED
        BY <3>1, <3>5, <3>6 DEF Accounted, Underway, Attempts
    <2>5. j' = j
      BY <1>4 DEF j
    <2>6. ASSUME NEW q \in Revisions, accepted'[q] > 0
          PROVE  accepted'[q] = 1 /\ Accounted(q)'
      <3>1. q = r /\ take
        BY <2>3, <2>6
      <3>2. formRev'[j'] = q
        BY <1>4, <2>5, <3>1 DEF r
      <3> QED
        BY <2>3, <2>4, <3>1, <3>2
    <2> QED
      BY <1>7, <2>6 DEF Sole
  <1> QED
    BY <1>7, <1>9, <1>10

-----------------------------------------------------------------------------
(* The steps that write revisions *)

LEMMA NoneBeforeClick ==
  ASSUME Undisturbed, ~disturbed, NEW X, Steady(X, {}),
         \A v \in Workers : cur'[v] \in SubmitJobs =>
             cur'[v] = cur[v] /\ cur[v] \notin X /\ ~BeforeClick(v)'
  PROVE  Undisturbed'
  BY DEF Undisturbed, Steady

\* An accepted application has been made with the newest revision.
LEMMA AcceptedIsLatest ==
  ASSUME FormInv, Sole, ~disturbed, ~NotSubmitted, NEW q \in Revisions, accepted[q] > 0
  PROVE  q = Latest /\ accepted[q] = 1 /\ Accounted(q)
  <1>1. Accounted(q) /\ accepted[q] = 1
    BY DEF Sole
  <1>2. q = Latest
    BY <1>1, LatestType, Assumptions DEF FormInv, RevisionOK, Accounted
  <1> QED
    BY <1>1, <1>2

\* Once the newest revision is submitted, every accepted application is on record.
LEMMA SubmittedAccounts ==
  ASSUME FormInv, Sole, ~disturbed, accepted' = accepted,
         NotSubmitted => NotSubmitted', rstatus'[Latest] = "submitted"
  PROVE  Sole'
  <1>1. CASE NotSubmitted
    BY <1>1 DEF Sole
  <1>2. CASE ~NotSubmitted
    <2> SUFFICES ASSUME NEW q \in Revisions, accepted'[q] > 0
                 PROVE  accepted'[q] = 1 /\ Accounted(q)'
      BY DEF Sole
    <2>1. q = Latest /\ accepted[q] = 1
      BY <1>2, AcceptedIsLatest
    <2> QED
      BY <2>1 DEF Accounted
  <1> QED
    BY <1>1, <1>2

LEMMA RecordsSole ==
  ASSUME FormInv, Undisturbed, Sole, ~disturbed, NEW w \in Workers, Records(w)
  PROVE  Undisturbed' /\ Sole'
  <1> DEFINE j == cur[w]
             r == formRev[j]
  <1>1. HandOK(w) /\ pc[w] = "handling" /\ hand[w].at = "record"
    BY DEF FormInv, Records, Handling
  <1>2. j \in SubmitJobs /\ r \in Revisions /\ r # 0
    BY <1>1, SubmittedRow DEF HandOK
  <1>3. /\ Current(r)
        /\ rstatus' = [rstatus EXCEPT ![r] = "submitted"]
        /\ verdict' = [verdict EXCEPT ![r] = "provider"]
        /\ UNCHANGED <<formRev, accepted, queue, pc, cur>>
        /\ \E how \in {"succeeded", "needs_attention"} :
              hand' = [hand EXCEPT ![w].at = "recorded", ![w].ends = how]
    BY DEF Records, rowVars, outside, loopVars
  <1>4. hand'[w].at = "recorded" /\ \A v \in Workers \ {w} : hand'[v] = hand[v]
    <2>1. PICK how \in {"succeeded", "needs_attention"} :
              hand' = [hand EXCEPT ![w].at = "recorded", ![w].ends = how]
      BY <1>3
    <2> QED
      BY <2>1, HandlingHand
  <1>5. ASSUME NEW v \in Workers, cur'[v] \in SubmitJobs PROVE ~BeforeClick(v)'
    <2>1. CASE v = w
      BY <1>1, <1>3, <1>4, <2>1 DEF BeforeClick
    <2>2. CASE v # w
      <3>1. cur[v] # j
        BY <1>2, <1>3, <1>5, <2>2 DEF Undisturbed
      <3>2. formRev[cur[v]] # r
        BY <1>2, <1>3, <1>5, <3>1 DEF FormInv, OneAttempt
      <3>3. ~Current(formRev[cur[v]])
        BY <1>3, <3>2 DEF Current
      <3>4. ~BeforeClick(v)
        BY <1>3, <1>5, <3>3 DEF Undisturbed
      <3> QED
        BY <1>3, <1>4, <2>2, <3>4 DEF BeforeClick
    <2> QED
      BY <2>1, <2>2
  <1>6. Undisturbed'
    BY <1>3, <1>5, QueueSteady, NoneBeforeClick
  <1> HIDE DEF r, j
  <1>7. rstatus'[Latest] = "submitted"
    BY <1>2, <1>3 DEF Current, FormInv, FormTypeOK
  <1>8. NotSubmitted => NotSubmitted'
    <2>1. verdict[r] # "not_submitted"
      BY <1>2, <1>3 DEF FormInv, RevisionOK, Current
    <2> QED
      BY <1>3, <2>1 DEF NotSubmitted, FormInv, FormTypeOK
  <1> QED
    BY <1>3, <1>6, <1>7, <1>8, SubmittedAccounts

LEMMA AttentionSole ==
  ASSUME FormInv, Undisturbed, Sole, ~disturbed, NEW w \in Workers, NEW j \in Jobs,
         CompletesWithAttention(w, j)
  PROVE  Undisturbed' /\ Sole'
  <1> DEFINE r == formRev[j]
             s == hand[w].state
  <1>1. /\ HandOK(w) /\ pc[w] = "completing" /\ cur[w] = j
        /\ Loop!CompleteJob(w, j, "needs_attention")
        /\ UNCHANGED <<formRev, accepted>>
        /\ Loop!Release(w) /\ hand' = [hand EXCEPT ![w] = Fresh]
    BY DEF FormInv, CompletesWithAttention, Done, outside
  <1>2. /\ r \in Revisions /\ r # 0 /\ j \in SubmitJobs
        /\ \/ /\ s = "confirmed"
              /\ rstatus'[r] = "submitted" /\ outcome'[r] = "confirmed"
              /\ verdict'[r] = "provider" /\ accepted[r] > 0
           \/ /\ s \in {"not_attempted", "uncertain"} /\ Current(r)
              /\ rstatus'[r] = "needs_attention" /\ outcome'[r] = s
              /\ verdict'[r] = verdict[r]
           \/ /\ s \in {"not_attempted", "uncertain"}
              /\ Proved(r) /\ UNCHANGED <<rstatus, outcome, verdict>>
        /\ Current(r) \/ Proved(r)
        /\ \A q \in Revisions \ {r} :
              rstatus'[q] = rstatus[q] /\ outcome'[q] = outcome[q] /\ verdict'[q] = verdict[q]
    BY AttentionRecorded
  <1>3. OthersStay(w) /\ cur'[w] \notin SubmitJobs
    BY <1>1, ReleasedHand, Released, Assumptions DEF FormInv
  <1>4. /\ Steady({j}, {})
        /\ \A v \in Workers \ {w} : cur[v] \in SubmitJobs => cur[v] # j
    BY <1>1, StopSteady
  <1> HIDE DEF r, s
  <1>5. r = Latest
    BY <1>2, SubmittedIsLatest DEF Current, Proved
  <1>6. ASSUME NEW v \in Workers, cur'[v] \in SubmitJobs
        PROVE  cur'[v] = cur[v] /\ cur[v] \notin {j} /\ ~BeforeClick(v)'
    <2>1. v # w /\ pc'[v] = pc[v] /\ cur'[v] = cur[v] /\ hand'[v] = hand[v] /\ cur[v] # j
      BY <1>3, <1>4, <1>6 DEF OthersStay
    <2>2. formRev[cur[v]] # r
      BY <1>2, <1>6, <2>1 DEF FormInv, OneAttempt, r
    <2>3. ~Current(formRev[cur[v]])
      BY <1>5, <2>2 DEF Current
    <2>4. ~BeforeClick(v)
      BY <1>6, <2>1, <2>3 DEF Undisturbed
    <2> QED
      BY <2>1, <2>4 DEF BeforeClick
  <1>7. Undisturbed'
    BY <1>4, <1>6, NoneBeforeClick
  <1>8. NotSubmitted => NotSubmitted'
    <2>1. verdict[r] # "not_submitted"
      BY <1>2 DEF FormInv, RevisionOK, Current, Proved
    <2> QED
      BY <1>2, <2>1 DEF NotSubmitted
  <1>9. CASE rstatus'[r] = "submitted"
    BY <1>1, <1>5, <1>7, <1>8, <1>9, SubmittedAccounts
  <1>10. CASE rstatus'[r] # "submitted"
    <2>1. /\ s \in {"not_attempted", "uncertain"} /\ Current(r)
          /\ rstatus'[r] = "needs_attention" /\ outcome'[r] = s
      BY <1>2, <1>10 DEF Proved
    <2>2. CASE NotSubmitted
      BY <1>7, <1>8, <2>2 DEF Sole
    <2>3. CASE ~NotSubmitted
      <3>1. ASSUME NEW q \in Revisions, accepted'[q] > 0
            PROVE  accepted'[q] = 1 /\ Accounted(q)'
        <4>1. q = r /\ accepted[q] = 1
          BY <1>1, <1>5, <2>3, <3>1, AcceptedIsLatest
        <4>2. PastClick(w)
          BY <1>1, <1>2, <2>1, <2>3, <3>1, <4>1, NothingAccepted DEF Submitting, r
        <4>3. s = "uncertain"
          BY <1>1, <2>1, <4>2 DEF PastClick, s
        <4> QED
          BY <1>1, <2>1, <4>1, <4>3 DEF Accounted
      <3> QED
        BY <1>7, <3>1 DEF Sole
    <2> QED
      BY <2>2, <2>3
  <1> QED
    BY <1>9, <1>10

\* A scan is stored only while no form is being submitted and none was.
LEMMA StoresScanSole ==
  ASSUME FormInv, Undisturbed, Sole, ~disturbed, NEW w \in Workers, StoresScan(w)
  PROVE  Undisturbed' /\ Sole'
  <1> DEFINE S == {j \in SubmitJobs : formRev[j] \in Replaced}
  <1>1. /\ \A q \in Existing : rstatus[q] # "submitted"
        /\ \A j \in SubmitJobs : status[j] # "running"
        /\ \A q \in Replaced : MayBeSuperseded(q)
        /\ Loop!CancelSuperseded(S)
        /\ UNCHANGED <<verdict, accepted, formRev, pc, cur>>
    BY DEF StoresScan, ScanAccepted, StoreRevision, rowVars, outside
  <1>2. Undisturbed'
    <2>1. \A v \in Workers : cur'[v] \notin SubmitJobs
      BY <1>1 DEF Undisturbed
    <2>2. Steady({}, {})
      <3>1. Loop!QueueTypeOK
        BY DEF FormInv, FormTypeOK, Loop!TypeOK
      <3> QED
        BY <1>1, <3>1, Assumptions DEF Loop!CancelSuperseded, Steady
    <2> QED
      BY <2>1, <2>2, NoneBeforeClick
  <1>3. CASE NotSubmitted
    BY <1>1, <1>2, <1>3 DEF Sole, NotSubmitted
  <1>4. CASE ~NotSubmitted
    <2> SUFFICES ASSUME NEW q \in Revisions, accepted[q] > 0 PROVE FALSE
      BY <1>1, <1>2 DEF Sole
    <2>1. Accounted(q)
      BY <1>4, AcceptedIsLatest
    <2>2. rstatus[q] = "needs_attention" /\ outcome[q] = "uncertain" /\ q \in Existing
      BY <1>1, <2>1 DEF Accounted, Underway, Attempts, Existing
    <2>3. MayBeSuperseded(q) /\ Observed(q, "uncertain") /\ verdict[q] # "not_submitted"
      BY <1>1, <1>4, <2>2 DEF Replaced, Observed, ObservedBut, NotSubmitted
    <2>4. \A p \in Existing : ~Observed(p, "confirmed")
      BY <1>1, NoConfirmation DEF Existing
    <2> QED
      BY <2>3, <2>4 DEF MayBeSuperseded
  <1> QED
    BY <1>3, <1>4

-----------------------------------------------------------------------------
(* What the user does *)

LEMMA EnqueueSole ==
  ASSUME FormInv, Undisturbed, Sole, ~disturbed, NEW j \in Jobs,
         EnqueueScan(j) \/ EnqueueSubmit(j)
  PROVE  Undisturbed' /\ Sole'
  <1>1. PICK old \in SUBSET Ended :
            /\ EnqueueRow(j, old)
            /\ \A k \in SubmitJobs \ (old \cup {j}) : formRev'[k] = formRev[k]
    BY DEF EnqueueScan, EnqueueSubmit
  <1>2. /\ status[j] = "absent" /\ status'[j] = "queued"
        /\ \A k \in old : status'[k] = "absent" /\ status[k] # "running"
        /\ \A k \in Jobs \ (old \cup {j}) : status'[k] = status[k]
        /\ UNCHANGED <<rstatus, outcome, verdict, hand, accepted, pc, cur>>
    BY <1>1, EnqueuedRows DEF Ended, Loop!Terminal
  <1>3. /\ UNCHANGED <<lockedBy, lease>>
        /\ \A k \in Jobs \ (old \cup {j}) : cancelReq'[k] = cancelReq[k]
    BY <1>1 DEF EnqueueRow, Loop!Enqueue, FormInv, FormTypeOK, Loop!TypeOK, Loop!QueueTypeOK
  <1>4. Steady({}, {})
    BY <1>1, <1>2, <1>3, Assumptions DEF Steady
  <1>5. WorkersKeep(j, {}, {}) /\ Taken(j, {})
    BY <1>2 DEF WorkersKeep, Taken, BeforeClick, PastClick
  <1> QED
    BY <1>2, <1>4, <1>5, SteadyKeeps

LEMMA OutsideSole ==
  ASSUME FormInv, Undisturbed, Sole, ~disturbed, ~disturbed', NEW j \in Jobs,
         CancelRow(j) \/ LeaseLapses(j) \/ RowBecomesDue(j)
  PROVE  Undisturbed' /\ Sole'
  <1>1. UNCHANGED <<rstatus, outcome, verdict, formRev, hand, accepted, pc, cur>>
    BY DEF CancelRow, LeaseLapses, RowBecomesDue, Loop!LeaseExpires, Loop!JobBecomesDue,
           Loop!workerVars, formVars, outside, revVars, rowVars
  <1>2. \/ Loop!BecomeDue(j)
        \/ Loop!CancelJob(j) /\ ~(j \in SubmitJobs /\ status[j] = "running")
    BY DEF CancelRow, LeaseLapses, RowBecomesDue, Loop!JobBecomesDue
  <1>3. Steady({}, {}) /\ Taken(j, {})
    BY <1>1, <1>2, QueueSteady
  <1>4. WorkersKeep(j, {}, {})
    BY <1>1 DEF WorkersKeep, BeforeClick, PastClick
  <1> QED
    BY <1>1, <1>3, <1>4, SteadyKeeps

LEMMA ApproveSole ==
  ASSUME FormInv, Undisturbed, Sole, ~disturbed, NEW r \in Revisions, ApproveRevision(r)
  PROVE  Undisturbed' /\ Sole'
  <1>1. /\ r = Latest /\ rstatus[r] = "scanned"
        /\ UNCHANGED <<verdict, accepted, formRev, hand, queue, pc, cur>>
    BY DEF ApproveRevision, rowVars, outside, loopVars
  <1>2. \A v \in Workers : cur[v] \in SubmitJobs => ~BeforeClick(v)
    BY <1>1 DEF Undisturbed, Current
  <1>3. Undisturbed'
    BY <1>1, <1>2, QueueSteady, NoneBeforeClick DEF BeforeClick
  <1>4. CASE NotSubmitted
    BY <1>1, <1>3, <1>4 DEF Sole, NotSubmitted
  <1>5. CASE ~NotSubmitted
    <2>1. \A q \in Revisions : ~(accepted[q] > 0)
      BY <1>1, <1>5, AcceptedIsLatest DEF Accounted
    <2> QED
      BY <1>1, <1>3, <2>1 DEF Sole
  <1> QED
    BY <1>4, <1>5

\* Nobody works on a submission while the user resolves one.
LEMMA ResolveSole ==
  ASSUME FormInv, Undisturbed, Sole, ~disturbed, NEW r \in Revisions,
         ResolveSubmitted(r) \/ ResolveNotSubmitted(r)
  PROVE  Undisturbed' /\ Sole'
  <1>1. /\ r = Latest /\ rstatus[r] \in {"approved", "needs_attention"}
        /\ \A j \in Jobs : status[j] \notin Loop!Active
        /\ UNCHANGED <<accepted, formRev, hand, queue, pc, cur>>
    BY DEF ResolveSubmitted, ResolveNotSubmitted, Resolvable, rowVars, outside, loopVars
  <1>2. \A v \in Workers : cur[v] \notin SubmitJobs
    BY <1>1, Assumptions DEF Undisturbed, Loop!Active
  <1>3. Undisturbed'
    BY <1>1, <1>2, QueueSteady, NoneBeforeClick
  <1>4. CASE ResolveSubmitted(r)
    <2>1. rstatus' = [rstatus EXCEPT ![r] = "submitted"]
          /\ verdict' = [verdict EXCEPT ![r] = "user"]
      BY <1>4 DEF ResolveSubmitted
    <2>2. rstatus'[Latest] = "submitted"
      BY <1>1, <2>1 DEF FormInv, FormTypeOK
    <2>3. verdict[r] # "not_submitted"
      BY <1>1 DEF FormInv, RevisionOK
    <2>4. NotSubmitted => NotSubmitted'
      BY <2>1, <2>3 DEF NotSubmitted, FormInv, FormTypeOK
    <2> QED
      BY <1>1, <1>3, <2>2, <2>4, SubmittedAccounts
  <1>5. CASE ResolveNotSubmitted(r)
    <2>1. verdict'[r] = "not_submitted"
      BY <1>5 DEF ResolveNotSubmitted, FormInv, FormTypeOK
    <2> QED
      BY <1>3, <2>1 DEF Sole, NotSubmitted
  <1> QED
    BY <1>4, <1>5

\* disturbed is never taken back.
LEMMA DisturbedStays ==
  ASSUME [FormNext]_allVars, disturbed
  PROVE  disturbed'
  <1>1. ASSUME NEW w \in Workers, Handler(w) PROVE disturbed'
    BY <1>1 DEF Handler, ResolveTask, GoesOn, NoAction, RaisesEarly, NeedsUser, BeforeSubmit, Click,
       Unclear, Rejected, RejectedAndRaises, Confirmed, Records, RecordFails, Recorded,
       StoresScan, StoreRevision, ScanStored, formVars, outside
  <1>2. ASSUME NEW w \in Workers, RunOnce(w) PROVE disturbed'
    BY <1>2 DEF RunOnce, outside
  <1>3. ASSUME NEW w \in Workers, NEW j \in Jobs,
               \/ CompletesWithAttention(w, j)
               \/ CompletesPlainly(w, j) \/ CompletionRefused(w, j)
        PROVE  disturbed'
    BY <1>3 DEF CompletesWithAttention, CompletesPlainly, CompletionRefused, Done, outside
  <1>4. CASE UserStep
    BY <1>4 DEF UserStep, EnqueueScan, EnqueueSubmit, EnqueueRow, CancelRow, ApproveRevision,
       ResolveSubmitted, ResolveNotSubmitted, outside
  <1>5. ASSUME NEW j \in Jobs, LeaseLapses(j) \/ RowBecomesDue(j) PROVE disturbed'
    BY <1>5 DEF LeaseLapses, RowBecomesDue, formVars, outside
  <1>6. CASE UNCHANGED allVars
    BY <1>6 DEF allVars, formVars, outside
  <1> QED
    BY <1>1, <1>2, <1>3, <1>4, <1>5, <1>6 DEF FormNext

LEMMA StepSole ==
  ASSUME LoopP!IInv, FormInv, Undisturbed, Sole, [FormNext]_allVars
  PROVE  Undisturbed' /\ Sole'
  <1>1. CASE disturbed'
    BY <1>1 DEF Undisturbed, Sole
  <1>2. CASE ~disturbed'
    <2>1. ~disturbed
      BY <1>2, DisturbedStays
    <2>2. CASE UserStep
      BY <1>2, <2>1, <2>2, EnqueueSole, OutsideSole, ApproveSole, ResolveSole DEF UserStep
    <2>3. ASSUME NEW w \in Workers, Handler(w) PROVE Undisturbed' /\ Sole'
      BY <2>1, <2>3, GoesOnSole, EndsSole, ClickSole, RecordsSole, StoresScanSole DEF Handler
    <2>4. CASE \E w \in Workers : RunOnce(w)
      BY <2>1, <2>4, RunOnceSole
    <2>5. CASE \E w \in Workers, j \in Jobs : \/ CompletesWithAttention(w, j)
                                             \/ CompletesPlainly(w, j) \/ CompletionRefused(w, j)
      BY <2>1, <2>5, AttentionSole, CompletesPlainlySole, RefusedSole
    <2>6. CASE \E j \in Jobs : LeaseLapses(j) \/ RowBecomesDue(j)
      BY <1>2, <2>1, <2>6, OutsideSole
    <2>7. CASE UNCHANGED allVars
      <3>1. UNCHANGED <<queue, rstatus, outcome, verdict, accepted, formRev, cur, pc, hand>>
        BY <2>7 DEF allVars, loopVars, formVars, revVars, rowVars, outside
      <3>2. Steady({}, {}) /\ Taken(NoJob, {})
        BY <2>1, <3>1, QueueSteady
      <3>3. WorkersKeep(NoJob, {}, {})
        BY <3>1 DEF WorkersKeep, BeforeClick, PastClick
      <3> QED
        BY <2>1, <3>1, <3>2, <3>3, SteadyKeeps
    <2> QED
      BY <2>2, <2>3, <2>4, <2>5, <2>6, <2>7 DEF FormNext
  <1> QED
    BY <1>1, <1>2

LEMMA InitSole == FormInit => Undisturbed /\ Sole
  <1> SUFFICES ASSUME FormInit PROVE Undisturbed /\ Sole
    OBVIOUS
  <1>1. Undisturbed
    BY Assumptions DEF FormInit, Loop!Init, Loop!QueueInit, Undisturbed
  <1>2. \A r \in Revisions : ~(accepted[r] > 0)
    BY DEF FormInit
  <1> QED
    BY <1>1, <1>2 DEF Sole

LEMMA SoleIsOne ==
  ASSUME FormInv, Sole
  PROVE  OneApplication
  <1>1. CASE disturbed \/ NotSubmitted
    <2>1. NotSubmitted => \E r \in Existing : verdict[r] = "not_submitted"
      BY DEF NotSubmitted, Existing, FormInv, RevisionOK
    <2> QED
      BY <1>1, <2>1 DEF OneApplication
  <1>2. CASE ~disturbed /\ ~NotSubmitted
    BY <1>2, AcceptedIsLatest DEF OneApplication
  <1> QED
    BY <1>1, <1>2

-----------------------------------------------------------------------------
(* The theorems *)

FullInv == IInv /\ Undisturbed /\ Sole

LEMMA Reached == FormSpec => []FullInv /\ [][Loop!Next]_(Loop!vars)
  <1>1. FormInit => FullInv
    BY InitIInv, InitSole DEF FullInv
  <1>2. FullInv /\ [FormNext]_allVars => FullInv' /\ [Loop!Next]_(Loop!vars)
    BY StepIInv, StepSole DEF FullInv, IInv
  <1> QED
    BY <1>1, <1>2, PTL DEF FormSpec

\* Every column keeps to its values, whatever scans, users and workers do at once.
THEOREM FormTypeCorrect == FormSpec => []FormTypeOK
  <1>1. FullInv => FormTypeOK
    BY DEF FullInv, IInv, FormInv
  <1> QED
    BY Reached, <1>1, PTL

\* store_application_form_scan and the resolution of an attempt keep one revision
\* live, and a submit row that may still be claimed is for it.
THEOREM RevisionsAlwaysInLine == FormSpec => []RevisionsInLine
  <1>1. FullInv => RevisionsInLine
    BY InvImplies DEF FullInv, IInv
  <1> QED
    BY Reached, <1>1, PTL

\* "Submitted" on the provider's word is never on record unless the provider took
\* the form, and a confirmation that reached a row is never lost.
THEOREM OutcomesAlwaysTrue == FormSpec => []OutcomesAreTrue
  <1>1. FullInv => OutcomesAreTrue
    BY InvImplies DEF FullInv, IInv
  <1> QED
    BY Reached, <1>1, PTL

\* guard_application_form_revision: no scan replaces an attempt of which nobody
\* knows the outcome.
THEOREM UncertainAlwaysDecided == FormSpec => []UncertainIsDecided
  <1>1. FullInv => UncertainIsDecided
    BY InvImplies DEF FullInv, IInv
  <1> QED
    BY Reached, <1>1, PTL

\* With leases kept and no submission cancelled under way, the provider gets one
\* application, however many workers, scans, approvals, crashes and lost replies
\* there are.
THEOREM AlwaysOneApplication == FormSpec => []OneApplication
  <1>1. FullInv => OneApplication
    BY SoleIsOne DEF FullInv, IInv
  <1> QED
    BY Reached, <1>1, PTL

\* A submitted application gets no other verdict, no revision and no row.
THEOREM SubmittedIsClosed == FormSpec => ClosedForGood
  <1>1. FullInv /\ [FormNext]_allVars =>
          [\A r \in Revisions : rstatus[r] = "submitted" =>
              /\ UNCHANGED <<rstatus[r], outcome[r], verdict[r]>>
              /\ Existing' = Existing
              /\ \A j \in Jobs : status[j] = "absent" => status'[j] = "absent"]_allVars
    BY ClosedStep DEF FullInv, IInv
  <1> QED
    BY Reached, <1>1, PTL DEF FormSpec, ClosedForGood

\* The handler and its records are a run of WorkerLoop, so that what is proved
\* there holds for submissions too.
THEOREM FormImplementsLoop == FormSpec => ImplementsLoop
  <1>1. FormInit => Loop!Init
    BY DEF FormInit
  <1> QED
    BY Reached, <1>1, PTL DEF FormSpec, ImplementsLoop, Loop!Spec

=============================================================================
