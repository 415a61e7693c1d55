----------------------------- MODULE MCProgress -----------------------------
(* Liveness of everything but the queue and its two refinements: "part" says  *)
(* which model a behaviour is of, and the others keep their initial state.    *)
(* Fairness is that of each module's FairSpec, and is owed by the part that is *)
(* under way only.                                                            *)
EXTENDS Naturals, FiniteSets, TLC

CONSTANTS
    Nil, NoOne, NoProvider, NotRead, Failed, NoRefresh, Writer, j1, j2, p1, o1, r1,
    r2, c1, c2, c3, u1, u2, a1, a2, x1, x2, s1, s2, t1, f1, g1, jobs, forms

Calls == {c1, c2, c3}

VARIABLES
    part,   \* the model this behaviour is of
    accountAccount, accountJob, accountAsked, accountHold, accountStale,
    accountSending, accountLoginLife, accountLoginGen, accountConn, accountRemote,
    accountGrant, accountObjects, accountReq,
    limitsPc, limitsCap, limitsSettings, limitsAdvisory, limitsActive, limitsToday,
    limitsLately, limitsWindow,
    searchStatus, searchTarget, searchStored, searchShown, searchPoll,
    draftContact, draftStatus, draftRows, draftPicked, draftRun, draftCalls,
    draftWanted,
    viewsPhase, viewsRuns, viewsRevoked, viewsData, viewsShown, viewsList,
    viewsRefreshes, viewsError, viewsFailures, viewsView, viewsCancels,
    listsPhase, listsRuns, listsRevoked, listsData, listsShown, listsList,
    listsRefreshes, listsError, listsFailures, listsView, listsCancels,
    formsStatus, formsArchived, formsLinks, formsBrowser, formsRunning, formsRuns,
    formsSubmits, formsShown, formsSeen, formsPressed, formsBuilding, formsPoll,
    formsGets, formsFailures, formsReal, formsManual,
    runRuns, runFlag, runResult, runPlatform, runUsed, runStop, runProfile, runOut,
    runBox, runAutoOn, runCrashes, runApplied, runMuddled, runLast, runTold,
    runIgnored,
    senderStatus, senderDoubtful, senderPaused, senderWindow, senderLock,
    senderRunning, senderRuns, senderCards, senderChecked, senderButton, senderSays,
    senderCrashes, senderMailed, senderApproved, senderConfirmed, senderFlagged

accountVars == <<accountAccount, accountJob, accountAsked, accountHold, accountStale,
                 accountSending, accountLoginLife, accountLoginGen, accountConn,
                 accountRemote, accountGrant, accountObjects, accountReq>>
limitsVars == <<limitsPc, limitsCap, limitsSettings, limitsAdvisory, limitsActive,
                limitsToday, limitsLately, limitsWindow>>
searchVars == <<searchStatus, searchTarget, searchStored, searchShown, searchPoll>>
draftVars == <<draftContact, draftStatus, draftRows, draftPicked, draftRun,
               draftCalls, draftWanted>>
viewsVars == <<viewsPhase, viewsRuns, viewsRevoked, viewsData, viewsShown, viewsList,
               viewsRefreshes, viewsError, viewsFailures, viewsView, viewsCancels>>
listsVars == <<listsPhase, listsRuns, listsRevoked, listsData, listsShown, listsList,
               listsRefreshes, listsError, listsFailures, listsView, listsCancels>>
formsVars == <<formsStatus, formsArchived, formsLinks, formsBrowser, formsRunning,
               formsRuns, formsSubmits, formsShown, formsSeen, formsPressed,
               formsBuilding, formsPoll, formsGets, formsFailures, formsReal,
               formsManual>>
runVars == <<runRuns, runFlag, runResult, runPlatform, runUsed, runStop, runProfile,
             runOut, runBox, runAutoOn, runCrashes, runApplied, runMuddled, runLast,
             runTold, runIgnored>>
senderVars == <<senderStatus, senderDoubtful, senderPaused, senderWindow, senderLock,
                senderRunning, senderRuns, senderCards, senderChecked, senderButton,
                senderSays, senderCrashes, senderMailed, senderApproved,
                senderConfirmed, senderFlagged>>

vars == <<part, accountVars, limitsVars, searchVars, draftVars, viewsVars, listsVars,
          formsVars, runVars, senderVars>>

Deletion == INSTANCE AccountDeletion WITH
    Jobs <- {j1}, EmailJobs <- {j1}, Providers <- {p1}, Files <- {o1},
    Requests <- {r1}, ProviderFails <- FALSE, MayBeCut <- {}, MaxLogins <- 3,
    account <- accountAccount, job <- accountJob, asked <- accountAsked,
    hold <- accountHold, stale <- accountStale, sending <- accountSending,
    loginLife <- accountLoginLife, loginGen <- accountLoginGen, conn <- accountConn,
    remote <- accountRemote, grant <- accountGrant, objects <- accountObjects,
    req <- accountReq

Limits == INSTANCE SendLimits WITH
    Calls <- Calls, Users <- {u1, u2}, Accounts <- {a1, a2},
    User <- (c1 :> u1 @@ c2 :> u1 @@ c3 :> u2), Account <- [c \in Calls |-> a1],
    To <- (c1 :> x1 @@ c2 :> x2 @@ c3 :> x1), QueueMax <- 1, AccountMax <- 1,
    MaxCap <- 2, Nobody <- NoOne, pc <- limitsPc, cap <- limitsCap,
    settings <- limitsSettings, advisory <- limitsAdvisory, active <- limitsActive,
    today <- limitsToday, lately <- limitsLately, window <- limitsWindow

Search == INSTANCE ContactSearch WITH
    Jobs <- {j1}, Searches <- {s1, s2}, MaxAttempts <- 2, Unread <- NotRead,
    status <- searchStatus, target <- searchTarget, stored <- searchStored,
    shown <- searchShown, poll <- searchPoll

Draft == INSTANCE DraftRun WITH
    Tabs <- {t1}, Jobs <- {j1, j2}, Addresses <- {a1}, Slots <- {s1, s2},
    MaxRows <- 2, MaxClicks <- 1, Nobody <- NoOne, contact <- draftContact,
    status <- draftStatus, rows <- draftRows, picked <- draftPicked, run <- draftRun,
    calls <- draftCalls, wanted <- draftWanted

Views == INSTANCE Workspace WITH
    Runs <- {}, MaxAttempts <- 1, Tables <- {jobs, forms}, Broken <- {forms},
    Slots <- {s1, s2}, MaxVersion <- 1, MaxFailures <- 1, Unread <- NotRead,
    Idle <- NoRefresh, phase <- viewsPhase, runs <- viewsRuns,
    revoked <- viewsRevoked, data <- viewsData, shown <- viewsShown,
    list <- viewsList, refreshes <- viewsRefreshes, error <- viewsError,
    failures <- viewsFailures, view <- viewsView, cancels <- viewsCancels

Lists == INSTANCE Workspace WITH
    Runs <- {r1}, MaxAttempts <- 1, Tables <- {jobs, forms}, Broken <- {forms},
    Slots <- {s1}, MaxVersion <- 1, MaxFailures <- 0, Unread <- NotRead,
    Idle <- NoRefresh, phase <- listsPhase, runs <- listsRuns,
    revoked <- listsRevoked, data <- listsData, shown <- listsShown,
    list <- listsList, refreshes <- listsRefreshes, error <- listsError,
    failures <- listsFailures, view <- listsView, cancels <- listsCancels

Forms == INSTANCE LegacyForms WITH
    Forms <- {f1}, Runs <- {r1, r2}, Tools <- {}, Submits <- {}, Gets <- {g1},
    MaxFailures <- 0, None <- Nil, status <- formsStatus, archived <- formsArchived,
    links <- formsLinks, browser <- formsBrowser, running <- formsRunning,
    runs <- formsRuns, submits <- formsSubmits, shown <- formsShown,
    seen <- formsSeen, pressed <- formsPressed, building <- formsBuilding,
    poll <- formsPoll, gets <- formsGets, failures <- formsFailures,
    real <- formsReal, manual <- formsManual

Applies == INSTANCE LegacyRuns WITH
    Runs <- {r1}, Platforms <- {"yc"}, CapOf <- [a \in {"auto", "yc"} |-> 1],
    MaxJobs <- 1, MaxCrashes <- 1, None <- Nil, runs <- runRuns, flag <- runFlag,
    result <- runResult, platform <- runPlatform, used <- runUsed, stop <- runStop,
    profile <- runProfile, out <- runOut, box <- runBox, autoOn <- runAutoOn,
    crashes <- runCrashes, applied <- runApplied, muddled <- runMuddled,
    last <- runLast, told <- runTold, ignored <- runIgnored

Sender == INSTANCE LegacySender WITH
    Tabs <- {t1}, Apps <- {a1}, FirmOf <- (a1 :> x1), Runs <- {r1, r2}, Cap <- 2,
    MinSample <- 1, Percent <- 40, MaxCrashes <- 0, None <- Nil,
    status <- senderStatus, doubtful <- senderDoubtful, paused <- senderPaused,
    window <- senderWindow, lock <- senderLock, running <- senderRunning,
    runs <- senderRuns, cards <- senderCards, checked <- senderChecked,
    button <- senderButton, says <- senderSays, crashes <- senderCrashes,
    mailed <- senderMailed, approved <- senderApproved, confirmed <- senderConfirmed,
    flagged <- senderFlagged

-----------------------------------------------------------------------------
ASSUME PartsAssumption ==
    /\ Deletion!AccountAssumption
    /\ Limits!LimitsAssumption
    /\ Search!SearchAssumption
    /\ Draft!DraftAssumption
    /\ Views!WorkspaceAssumption
    /\ Lists!WorkspaceAssumption
    /\ Forms!FormsAssumption
    /\ Applies!RunsAssumption
    /\ Sender!SenderAssumption

Parts == {"account", "limits", "search", "draft", "tables", "runs", "forms", "apply",
          "sender"}

Init ==
    /\ part \in Parts
    /\ Deletion!AccountInit
    /\ Limits!LimitsInit
    /\ Search!Init
    /\ Draft!Init
    /\ Views!Init
    /\ Lists!Init
    /\ Forms!Init
    /\ Applies!Init
    /\ Sender!Init
    \* A part that is idle has one initial state.
    /\ part = "limits" \/ limitsCap = [u \in {u1, u2} |-> 2]
    /\ part = "draft" \/ draftRun[t1].job = j1
    /\ part = "tables" \/ (viewsView = "other" /\ viewsRefreshes[s1] # NoRefresh)
    /\ part = "runs" \/ listsView = "other"
    /\ part = "forms" \/ formsStatus = [f \in {f1} |-> "found"]
    /\ part = "sender" \/ senderDoubtful = {}

Next ==
    /\ UNCHANGED part
    /\ \/ /\ part = "account" /\ Deletion!AccountNext
          /\ UNCHANGED <<limitsVars, searchVars, draftVars, viewsVars, listsVars,
                         formsVars, runVars, senderVars>>
       \/ /\ part = "limits" /\ Limits!LimitsNext
          /\ UNCHANGED <<accountVars, searchVars, draftVars, viewsVars, listsVars,
                         formsVars, runVars, senderVars>>
       \/ /\ part = "search" /\ Search!Next
          /\ UNCHANGED <<accountVars, limitsVars, draftVars, viewsVars, listsVars,
                         formsVars, runVars, senderVars>>
       \/ /\ part = "draft" /\ Draft!Next
          /\ UNCHANGED <<accountVars, limitsVars, searchVars, viewsVars, listsVars,
                         formsVars, runVars, senderVars>>
       \/ /\ part = "tables" /\ Views!Next
          /\ UNCHANGED <<accountVars, limitsVars, searchVars, draftVars, listsVars,
                         formsVars, runVars, senderVars>>
       \/ /\ part = "runs" /\ Lists!Next
          /\ UNCHANGED <<accountVars, limitsVars, searchVars, draftVars, viewsVars,
                         formsVars, runVars, senderVars>>
       \/ /\ part = "forms" /\ Forms!Next
          /\ UNCHANGED <<accountVars, limitsVars, searchVars, draftVars, viewsVars,
                         listsVars, runVars, senderVars>>
       \/ /\ part = "apply" /\ Applies!Next
          /\ UNCHANGED <<accountVars, limitsVars, searchVars, draftVars, viewsVars,
                         listsVars, formsVars, senderVars>>
       \/ /\ part = "sender" /\ Sender!Next
          /\ UNCHANGED <<accountVars, limitsVars, searchVars, draftVars, viewsVars,
                         listsVars, formsVars, runVars>>

Spec == Init /\ [][Next]_vars

\* What each part's FairSpec assumes, where that part is the one under way.
AccountFairness ==
    /\ WF_accountVars(part = "account" /\ Deletion!Call(r1))
    /\ SF_accountVars(/\ part = "account" /\ accountAccount = "deleting"
                      /\ Deletion!BeginDeletion(r1))
    /\ WF_accountVars(part = "account" /\ Deletion!FinishJob(j1))
    /\ WF_accountVars(part = "account" /\ Deletion!Recover(j1))
    /\ WF_accountVars(/\ part = "account" /\ accountJob[j1] = "running" /\ ~accountHold[j1]
                      /\ Deletion!Lapse(j1))

CallFairness == \A c \in Calls : WF_limitsVars(part = "limits" /\ Limits!Step(c))

PageFairness ==
    /\ \A s \in {s1, s2} :
        /\ WF_searchVars(part = "search" /\ Search!PollStep(s))
        /\ WF_searchVars(part = "search" /\ Search!Starts(s))
        /\ WF_searchVars(part = "search" /\ Search!Leaves(s))
        /\ WF_viewsVars(part = "tables" /\ Views!Progress(s))
    /\ WF_draftVars(part = "draft" /\ Draft!Proceed(t1))
    /\ WF_viewsVars(part = "tables" /\ Views!Timer)
    /\ WF_listsVars(part = "runs" /\ Lists!Timer)
    /\ WF_listsVars(part = "runs" /\ Lists!Progress(s1))

DesktopFairness ==
    /\ WF_formsVars(part = "forms" /\ Forms!Poll)
    /\ WF_formsVars(part = "forms" /\ Forms!GetStep(g1))
    /\ WF_runVars(part = "apply" /\ Applies!TaskStep(r1))
    /\ WF_runVars(part = "apply" /\ Applies!RenderLiStatus)
    /\ \A r \in {r1, r2} :
        /\ WF_formsVars(part = "forms" /\ Forms!ServePrefill(r))
        /\ WF_formsVars(part = "forms" /\ Forms!RunStep(r))
        /\ WF_senderVars(part = "sender" /\ Sender!RunStep(r))

FairSpec ==
    Spec /\ AccountFairness /\ CallFairness /\ PageFairness /\ DesktopFairness

-----------------------------------------------------------------------------
(* Properties: their parts are stated and explained in the modules of the parts *)

\* A deletion that is asked for again comes to its end, and drops no handle of a
\* remote context on its way (delete_account, begin_account_deletion).
DeletionEnds == Deletion!DeletionEnds /\ [](part = "account" => Deletion!HandleKept)

\* Nothing waits for ever: a call of enqueue_email_send for its locks, a polling loop
\* for its row, a drafting run for its answers (and it has tried every job by then, and
\* counted those with a draft), a button or flag of the desktop
\* application for the run that holds it.
WaitsEnd ==
    /\ Limits!CallsEnd
    /\ Search!EveryLoopEnds
    /\ Draft!RunEnds
    /\ [](part = "draft" => Draft!EveryJobIsTried /\ Draft!CountedHasDraft)
    /\ Forms!FlagIsReleased /\ Forms!PollStops
    /\ Applies!ButtonReturns
    /\ Sender!FlagIsReleased

\* An activity view that stays open catches up, with its tables and its runs (the
\* timer and the refreshes of Workspace).
CatchesUp == Views!CatchesUp /\ Lists!CatchesUp

=============================================================================
