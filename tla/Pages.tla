------------------------------- MODULE Pages -------------------------------
(***************************************************************************)
(* The models of the single-page frontend, side by side: "part" says which *)
(* of them a behaviour is about, and the others keep their initial state.  *)
(* A part is one module with its constants.  Where one module is in two    *)
(* parts, they differ in the constants a run gives them, and nothing that  *)
(* is said of a part depends on these: the parts share their variables.    *)
(***************************************************************************)
EXTENDS Naturals, FiniteSets

CONSTANTS
    \* values that are not there, or not yet
    Nil, NoOne, Gone, NoDraft, NoRecipient, JobContact, NotRead, Failed, NoRefresh,
    \* tabs side by side, and those of the parts with other actors
    Tabs, FewTabs,
    \* requests of a page at a time
    DeskRequests, SendsRequests, Places,
    \* the data, see the modules of the parts
    Apps, Jobs, Addresses, Texts, OtherTexts, Files, FewFiles, Tables, Broken, Runs,
    Savers, Facts, PlainFields, FilledFields, Numbers,
    Users, FewUsers, Links, FewLinks, LoginKinds, RetryKinds,
    \* the bounds of the parts
    MaxRevision, MaxApprovals, MaxRows, MaxClicks, MaxRounds, MaxScans, MaxSaves,
    SyncRevisions, SyncReads, MaxEdits, UploadSlots, UploadIds, BucketSlots, SlotIds,
    MaxAttempts, MaxVersion, MaxFailures, LoginPending, RetryPending

VARIABLES
    part,   \* the model this behaviour is of
    deskRow, deskApprovals, deskSends, deskRatified, deskList, deskDraft, deskReq,
    draftContact, draftStatus, draftRows, draftPicked, draftRun, draftCalls,
    draftWanted,
    searchStatus, searchTarget, searchStored, searchShown, searchPoll,
    answersScans, answersLatest, answersSealed, answersSelected, answersPanel,
    answersAnswers, answersCalls, answersTold,
    profileRow, profileDraft, profileLoaded, profileSuggested, profileReads,
    profileCall, profileSaves, profileRefused, profileReviewed, profileTyped,
    profileWiped,
    syncRow, syncForm, syncLater, syncOp, syncAttempt, syncSaves, syncPanel, syncEdits,
    syncSent, syncMuddled, syncFenced, syncUnread,
    resumeObject, resumeRow, resumeIds, resumePage, resumeCall, resumeLost,
    workPhase, workRuns, workRevoked, workData, workShown, workList, workRefreshes,
    workError, workFailures, workView, workCancels,
    loginStored, loginLinks, loginPage, loginHeard, loginSession, loginData,
    loginCall, loginWritten, loginDeleted, loginTyped, loginTwice

deskVars == <<deskRow, deskApprovals, deskSends, deskRatified, deskList, deskDraft,
              deskReq>>
draftVars == <<draftContact, draftStatus, draftRows, draftPicked, draftRun,
               draftCalls, draftWanted>>
searchVars == <<searchStatus, searchTarget, searchStored, searchShown, searchPoll>>
answersVars == <<answersScans, answersLatest, answersSealed, answersSelected,
                 answersPanel, answersAnswers, answersCalls, answersTold>>
profileVars == <<profileRow, profileDraft, profileLoaded, profileSuggested,
                 profileReads, profileCall, profileSaves, profileRefused,
                 profileReviewed, profileTyped, profileWiped>>
syncVars == <<syncRow, syncForm, syncLater, syncOp, syncAttempt, syncSaves, syncPanel,
              syncEdits, syncSent, syncMuddled, syncFenced, syncUnread>>
resumeVars == <<resumeObject, resumeRow, resumeIds, resumePage, resumeCall,
                resumeLost>>
workVars == <<workPhase, workRuns, workRevoked, workData, workShown, workList,
              workRefreshes, workError, workFailures, workView, workCancels>>
loginVars == <<loginStored, loginLinks, loginPage, loginHeard, loginSession,
               loginData, loginCall, loginWritten, loginDeleted, loginTyped,
               loginTwice>>

vars == <<part, deskVars, draftVars, searchVars, answersVars, profileVars, syncVars,
          resumeVars, workVars, loginVars>>

Desk == INSTANCE ReviewDesk WITH
    Applications <- Apps, MaxRequests <- DeskRequests, None <- Nil, row <- deskRow,
    approvals <- deskApprovals, sends <- deskSends, ratified <- deskRatified,
    list <- deskList, draft <- deskDraft, req <- deskReq

Sends == INSTANCE ReviewDesk WITH
    Applications <- Apps, Tabs <- FewTabs, Texts <- OtherTexts,
    MaxRequests <- SendsRequests, None <- Nil, row <- deskRow,
    approvals <- deskApprovals, sends <- deskSends, ratified <- deskRatified,
    list <- deskList, draft <- deskDraft, req <- deskReq

Draft == INSTANCE DraftRun WITH
    Slots <- Places, Nobody <- NoOne, contact <- draftContact,
    status <- draftStatus, rows <- draftRows, picked <- draftPicked, run <- draftRun,
    calls <- draftCalls, wanted <- draftWanted

Search == INSTANCE ContactSearch WITH
    Searches <- Places, MaxAttempts <- MaxRounds, Unread <- NotRead,
    status <- searchStatus, target <- searchTarget, stored <- searchStored,
    shown <- searchShown, poll <- searchPoll

Answers == INSTANCE FormReview WITH
    Tabs <- FewTabs, Slots <- Places, MaxRev <- MaxScans, None <- Nil,
    scans <- answersScans, latest <- answersLatest, sealed <- answersSealed,
    selected <- answersSelected, panel <- answersPanel, answers <- answersAnswers,
    calls <- answersCalls, told <- answersTold

Profile == INSTANCE ProfileForm WITH
    Tabs <- FewTabs, Plain <- PlainFields, Filled <- FilledFields, row <- profileRow,
    draft <- profileDraft, loaded <- profileLoaded, suggested <- profileSuggested,
    reads <- profileReads, call <- profileCall,
    saves <- profileSaves, refused <- profileRefused, reviewed <- profileReviewed,
    typed <- profileTyped, wiped <- profileWiped

Sync == INSTANCE ProfileSync WITH
    Saves <- Savers, MaxRev <- SyncRevisions, Newest <- SyncReads, None <- Nil,
    row <- syncRow, form <- syncForm, later <- syncLater, op <- syncOp,
    attempt <- syncAttempt, saves <- syncSaves, panel <- syncPanel, edits <- syncEdits,
    sent <- syncSent, muddled <- syncMuddled, fenced <- syncFenced, unread <- syncUnread

Upload == INSTANCE Resumes WITH
    Tabs <- FewTabs, Files <- FewFiles, Slots <- UploadSlots, MaxIds <- UploadIds,
    None <- Nil,
    object <- resumeObject, row <- resumeRow, ids <- resumeIds, page <- resumePage,
    call <- resumeCall, lost <- resumeLost

Slot == INSTANCE Resumes WITH
    Slots <- BucketSlots, MaxIds <- SlotIds, None <- Nil,
    object <- resumeObject, row <- resumeRow, ids <- resumeIds, page <- resumePage,
    call <- resumeCall, lost <- resumeLost

Work == INSTANCE Workspace WITH
    Slots <- Places, Unread <- NotRead, Idle <- NoRefresh,
    phase <- workPhase, runs <- workRuns, revoked <- workRevoked, data <- workData,
    shown <- workShown, list <- workList, refreshes <- workRefreshes,
    error <- workError, failures <- workFailures, view <- workView,
    cancels <- workCancels

Login == INSTANCE Session WITH
    MailedLinks <- Links, Kinds <- LoginKinds, MaxPending <- LoginPending, None <- Nil,
    stored <- loginStored, links <- loginLinks, page <- loginPage,
    heard <- loginHeard, session <- loginSession,
    data <- loginData, call <- loginCall, written <- loginWritten,
    deleted <- loginDeleted, typed <- loginTyped, twice <- loginTwice

Retry == INSTANCE Session WITH
    Tabs <- FewTabs, Users <- FewUsers, MailedLinks <- FewLinks, Kinds <- RetryKinds,
    MaxPending <- RetryPending, None <- Nil,
    stored <- loginStored, links <- loginLinks, page <- loginPage,
    heard <- loginHeard, session <- loginSession, data <- loginData,
    call <- loginCall, written <- loginWritten, deleted <- loginDeleted,
    typed <- loginTyped, twice <- loginTwice

-----------------------------------------------------------------------------
ASSUME PartsAssumption ==
    /\ Desk!DeskAssumption
    /\ Sends!DeskAssumption
    /\ Draft!DraftAssumption
    /\ Search!SearchAssumption
    /\ Answers!ReviewAssumption
    /\ Profile!FormAssumption
    /\ Sync!SyncAssumption
    /\ Slot!ResumeAssumption
    /\ Upload!ResumeAssumption
    /\ Work!WorkspaceAssumption
    /\ Login!SessionAssumption
    /\ Retry!SessionAssumption

Parts == {"desk", "sends", "draft", "search", "answers", "profile", "sync", "upload",
          "slot", "work", "login", "retry"}

Init ==
    /\ part \in Parts
    /\ IF part = "sends" THEN Sends!Init ELSE Desk!Init
    /\ Draft!Init
    /\ Search!Init
    /\ Answers!Init
    /\ Profile!Init
    /\ Sync!Init
    /\ IF part = "slot" THEN Slot!Init ELSE Upload!Init
    /\ Work!Init
    /\ IF part = "retry" THEN Retry!Init ELSE Login!Init

Next ==
    /\ UNCHANGED part
    /\ \/ /\ part = "desk" /\ Desk!Next
          /\ UNCHANGED <<draftVars, searchVars, answersVars, profileVars, syncVars,
                         resumeVars, workVars, loginVars>>
       \/ /\ part = "sends" /\ Sends!Next
          /\ UNCHANGED <<draftVars, searchVars, answersVars, profileVars, syncVars,
                         resumeVars, workVars, loginVars>>
       \/ /\ part = "draft" /\ Draft!Next
          /\ UNCHANGED <<deskVars, searchVars, answersVars, profileVars, syncVars,
                         resumeVars, workVars, loginVars>>
       \/ /\ part = "search" /\ Search!Next
          /\ UNCHANGED <<deskVars, draftVars, answersVars, profileVars, syncVars,
                         resumeVars, workVars, loginVars>>
       \/ /\ part = "answers" /\ Answers!Next
          /\ UNCHANGED <<deskVars, draftVars, searchVars, profileVars, syncVars,
                         resumeVars, workVars, loginVars>>
       \/ /\ part = "profile" /\ Profile!Next
          /\ UNCHANGED <<deskVars, draftVars, searchVars, answersVars, syncVars,
                         resumeVars, workVars, loginVars>>
       \/ /\ part = "sync" /\ Sync!Next
          /\ UNCHANGED <<deskVars, draftVars, searchVars, answersVars, profileVars,
                         resumeVars, workVars, loginVars>>
       \/ /\ part = "upload" /\ Upload!Next
          /\ UNCHANGED <<deskVars, draftVars, searchVars, answersVars, profileVars,
                         syncVars, workVars, loginVars>>
       \/ /\ part = "slot" /\ Slot!Next
          /\ UNCHANGED <<deskVars, draftVars, searchVars, answersVars, profileVars,
                         syncVars, workVars, loginVars>>
       \/ /\ part = "work" /\ Work!Next
          /\ UNCHANGED <<deskVars, draftVars, searchVars, answersVars, profileVars,
                         syncVars, resumeVars, loginVars>>
       \/ /\ part = "login" /\ Login!Next
          /\ UNCHANGED <<deskVars, draftVars, searchVars, answersVars, profileVars,
                         syncVars, resumeVars, workVars>>
       \/ /\ part = "retry" /\ Retry!Next
          /\ UNCHANGED <<deskVars, draftVars, searchVars, answersVars, profileVars,
                         syncVars, resumeVars, workVars>>

Spec == Init /\ [][Next]_vars

-----------------------------------------------------------------------------
(* Properties: their parts are stated and explained in the modules of the parts *)

\* The variables of every part have their types.
TypeOK ==
    /\ part = "desk" => Desk!TypeOK
    /\ part = "sends" => Sends!TypeOK
    /\ part = "draft" => Draft!TypeOK
    /\ part = "search" => Search!TypeOK
    /\ part = "answers" => Answers!TypeOK
    /\ part = "profile" => Profile!TypeOK
    /\ part = "sync" => Sync!TypeOK
    /\ part = "slot" => Slot!TypeOK
    /\ part = "upload" => Upload!TypeOK
    /\ part = "work" => Work!TypeOK
    /\ part = "login" => Login!TypeOK
    /\ part = "retry" => Retry!TypeOK

\* An approval is of a content its tab had received, is sent once, and is reported to
\* a user only if it holds (ReviewPanel, FormReview, approve_application_form).
ApprovalsAreTrue ==
    /\ part = "desk" => Desk!ApprovedWasReceived
    /\ part = "sends" => Sends!OneSendPerApproval
    /\ part = "answers" => Answers!ToldMeansSealed

\* What has been approved is not rewritten: neither a message that is queued, by a
\* draft that was on its way, nor the answers of a revision, by a save of the profile
\* (draft_application, refresh_application_form_profile_answers_for_user).
ApprovedIsLeftAlone == Sends!QueuedIsLeftAlone /\ Sync!ApprovalIsOfAnswers

\* A draft goes to the lead its own run had captured, and the profile gets what its
\* user typed or had on the screen, whatever refreshes land meanwhile (draftAll,
\* ProfileView).
UserDecides ==
    /\ part = "draft" => Draft!DraftedAsChosen
    /\ part = "profile" => Profile!OnlyReviewedIsStored /\ Profile!TypedIsSent

\* What is stored of a user agrees: a save of the profile reaches every form that is
\* still open and none that has been handed in (PATCH /profile); the text of a resume
\* is that of its checksum, one resume is active, and no file or row is left over
\* where every request was answered truly (upload, register and parse).
StoredDataAgrees ==
    /\ part = "sync" => Sync!FormsFollowSave /\ Sync!AttemptStays
    /\ part = "slot" => Slot!TextMatchesChecksum
    /\ part = "upload" => Upload!OneActive /\ Upload!NothingLeftBehind

\* What a page shows is so: the session that is stored, nothing of a session that is
\* over, "cancelled" where the run has stopped, a warning where nothing could be
\* loaded, and of a request that is sent again after a 401 its only effect (Page,
\* Workspace, api).
ScreenIsTrue ==
    /\ part = "login" => Login!ShownIsStored /\ Login!ClearedBySignOut
    /\ part = "retry" => Retry!RetryRepeatsNothing
    /\ part = "work" => Work!ShownCancelledIsStopped /\ Work!EmptyIsReported

\* A polling loop that reports the end has shown every lead it could read, although
\* the row may end between its requests (trackPublicContacts).
FinishedShowsEverything == Search!FinishedShowsEverything

=============================================================================
