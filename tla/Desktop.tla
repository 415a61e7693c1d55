------------------------------ MODULE Desktop ------------------------------
(***************************************************************************)
(* The models of the legacy desktop application, side by side: "part" says *)
(* which of them a behaviour is about, and the others keep their initial   *)
(* state.  A part is one module with its constants.                        *)
(***************************************************************************)
EXTENDS Naturals, FiniteSets

CONSTANTS
    Nil,            \* nobody, nothing
    \* the referral forms
    FormIds, Fills, Tools, Submits, Gets, MaxFailures,
    \* the automatic runs
    Applications, Platforms, CapOf, MaxJobs, ApplyCrashes,
    \* Review & Send
    Tabs, Apps, FirmOf, Writer, Batches, DayCap, MinSample, Percent, SendCrashes,
    \* the stages over the table: they need a page that stands
    Jobs, Stages, Page, StageCrashes,
    \* the reply scan and the tracker
    Threads, Scans, Trackers, MaxMails, MaxAsks

VARIABLES
    part,   \* the model this behaviour is of
    formsStatus, formsArchived, formsLinks, formsBrowser, formsRunning, formsRuns,
    formsSubmits, formsShown, formsSeen, formsPressed, formsBuilding, formsPoll,
    formsGets, formsFailures, formsReal, formsManual,
    runRuns, runFlag, runResult, runPlatform, runUsed, runStop, runProfile, runOut,
    runBox, runAutoOn, runCrashes, runApplied, runMuddled, runLast, runTold,
    runIgnored,
    senderStatus, senderDoubtful, senderPaused, senderWindow, senderLock,
    senderRunning, senderRuns, senderCards, senderChecked, senderButton, senderSays,
    senderCrashes, senderMailed, senderApproved, senderConfirmed, senderFlagged,
    pipeStatus, pipeCopies, pipeAddress, pipeRuns, pipeBusy, pipeReloads, pipeCrashes,
    pipeMailed, pipeApplied, pipeRecorded,
    replyInbox, replyAge, replyStatus, replyBounces, replyLock, replyScans, replyRows,
    replyChip, replyTable, replyAsks, replyRead, replyDue, replyEmptied

formsVars == <<formsStatus, formsArchived, formsLinks, formsBrowser, formsRunning,
               formsRuns, formsSubmits, formsShown, formsSeen, formsPressed,
               formsBuilding, formsPoll, formsGets, formsFailures, formsReal,
               formsManual>>
runVars == <<runRuns, runFlag, runResult, runPlatform, runUsed, runStop, runProfile,
             runOut, runBox, runAutoOn, runCrashes, runApplied, runMuddled, runLast,
             runTold, runIgnored>>
senderVars == <<senderStatus, senderDoubtful, senderPaused, senderWindow, senderLock,
                senderRunning, senderRuns, senderCards, senderChecked, senderButton,
                senderSays, senderCrashes, senderMailed, senderApproved,
                senderConfirmed, senderFlagged>>
pipeVars == <<pipeStatus, pipeCopies, pipeAddress, pipeRuns, pipeBusy, pipeReloads,
              pipeCrashes, pipeMailed, pipeApplied, pipeRecorded>>
replyVars == <<replyInbox, replyAge, replyStatus, replyBounces, replyLock, replyScans,
               replyRows, replyChip, replyTable, replyAsks, replyRead, replyDue,
               replyEmptied>>

vars == <<part, formsVars, runVars, senderVars, pipeVars, replyVars>>

Forms == INSTANCE LegacyForms WITH
    Forms <- FormIds, Runs <- Fills, None <- Nil, status <- formsStatus,
    archived <- formsArchived, links <- formsLinks, browser <- formsBrowser,
    running <- formsRunning, runs <- formsRuns, submits <- formsSubmits,
    shown <- formsShown, seen <- formsSeen, pressed <- formsPressed,
    building <- formsBuilding, poll <- formsPoll, gets <- formsGets,
    failures <- formsFailures, real <- formsReal, manual <- formsManual

Applies == INSTANCE LegacyRuns WITH
    Runs <- Applications, MaxCrashes <- ApplyCrashes, None <- Nil, runs <- runRuns,
    flag <- runFlag, result <- runResult, platform <- runPlatform, used <- runUsed,
    stop <- runStop, profile <- runProfile, out <- runOut, box <- runBox,
    autoOn <- runAutoOn, crashes <- runCrashes, applied <- runApplied,
    muddled <- runMuddled, last <- runLast, told <- runTold, ignored <- runIgnored

Sender == INSTANCE LegacySender WITH
    Runs <- Batches, Cap <- DayCap, MaxCrashes <- SendCrashes, None <- Nil,
    status <- senderStatus, doubtful <- senderDoubtful, paused <- senderPaused,
    window <- senderWindow, lock <- senderLock, running <- senderRunning,
    runs <- senderRuns, cards <- senderCards, checked <- senderChecked,
    button <- senderButton, says <- senderSays, crashes <- senderCrashes,
    mailed <- senderMailed, approved <- senderApproved, confirmed <- senderConfirmed,
    flagged <- senderFlagged

Pipeline == INSTANCE LegacyPipeline WITH
    Runs <- Stages, Tabs <- {Page}, MaxReloads <- 0, MaxCrashes <- StageCrashes,
    None <- Nil, status <- pipeStatus, copies <- pipeCopies, address <- pipeAddress,
    runs <- pipeRuns, busy <- pipeBusy, reloads <- pipeReloads,
    crashes <- pipeCrashes, mailed <- pipeMailed, applied <- pipeApplied,
    recorded <- pipeRecorded

Replies == INSTANCE LegacyReplies WITH
    Apps <- Threads, Tabs <- Trackers, None <- Nil, inbox <- replyInbox,
    age <- replyAge, status <- replyStatus, bounces <- replyBounces,
    lock <- replyLock, scans <- replyScans, rows <- replyRows, chip <- replyChip,
    table <- replyTable, asks <- replyAsks, read <- replyRead, due <- replyDue,
    emptied <- replyEmptied

-----------------------------------------------------------------------------
ASSUME PartsAssumption ==
    /\ Forms!FormsAssumption
    /\ Applies!RunsAssumption
    /\ Sender!SenderAssumption
    /\ Pipeline!PipelineAssumption
    /\ Replies!RepliesAssumption

Parts == {"forms", "runs", "sender", "pipe", "replies"}

Init ==
    /\ part \in Parts
    /\ Forms!Init
    /\ Applies!Init
    /\ Sender!Init
    /\ Pipeline!Init
    /\ Replies!Init

Next ==
    /\ UNCHANGED part
    /\ \/ /\ part = "forms" /\ Forms!Next
          /\ UNCHANGED <<runVars, senderVars, pipeVars, replyVars>>
       \/ /\ part = "runs" /\ Applies!Next
          /\ UNCHANGED <<formsVars, senderVars, pipeVars, replyVars>>
       \/ /\ part = "sender" /\ Sender!Next
          /\ UNCHANGED <<formsVars, runVars, pipeVars, replyVars>>
       \/ /\ part = "pipe" /\ Pipeline!Next
          /\ UNCHANGED <<formsVars, runVars, senderVars, replyVars>>
       \/ /\ part = "replies" /\ Replies!Next
          /\ UNCHANGED <<formsVars, runVars, senderVars, pipeVars>>

Spec == Init /\ [][Next]_vars

-----------------------------------------------------------------------------
(* Properties: their parts are stated and explained in the modules of the parts *)

\* The variables of every part have their types.
TypeOK ==
    /\ part = "forms" => Forms!TypeOK
    /\ part = "runs" => Applies!TypeOK
    /\ part = "sender" => Sender!TypeOK
    /\ part = "pipe" => Pipeline!TypeOK
    /\ part = "replies" => Replies!TypeOK

\* What is recorded as sent was mailed, to a recipient the operator had agreed to, and
\* what is recorded as submitted was submitted, across stale pages, overlapping runs,
\* rollbacks and crashes (send_approved, submit_form, save_form_fill).
SentIsTrue ==
    /\ part = "sender" => Sender!MailedWithConsent /\ Sender!RecordedWasMailed
    /\ part = "forms" => Forms!SubmittedIsReal

\* Nothing is done too often: stages that overlap make one row of a posting and mail it
\* once, scans that overlap count a bounce once, runs one after the other keep an
\* account's cap, and no batch exceeds that of the day (discovery, sender,
\* record_bounce, autoapply, send_approved).
NothingTooOften ==
    /\ part = "pipe" => Pipeline!OneRowPerPosting /\ Pipeline!MailedOnce
    /\ part = "replies" => Replies!BouncedOnce
    /\ part = "runs" => Applies!CapHoldsInTurn
    /\ part = "sender" => Sender!RunKeepsCap

\* What the operator does at the page takes effect: a stop reaches the session it was
\* pressed for, and the table lists what its chip says (_AUTOAPPLY_STOP, renderTable).
OperatorIsHeard ==
    /\ part = "runs" => Applies!StopIsHeard
    /\ part = "replies" => Replies!TableFollowsChip

=============================================================================
