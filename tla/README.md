# Verification of AutoApply Cloud

TLA+ models of the parts of AutoApply Cloud in which several actors meet: the job queue in
Postgres and the worker processes that serve it, the two kinds of work that cannot be undone
(an e-mail and a submitted application form), the connections, limits and the deletion of an
account, the views of the single page that edit what others edit too, and the desktop
application that still ships beside the hosted one. TLC checks every model on small instances;
TLAPS proves their safety properties for any number of rows, workers, tabs, requests, users and
runs.

Paths below are relative to the repository (`src/`). Migrations are read in order: where a
later one replaces a function, the later text is the one modelled.

## The system

| Component | State it keeps | Operations | What makes it correct | Modelled |
|---|---|---|---|---|
| **Job queue** (`supabase/migrations`, table `automation_jobs`) | one row per requested job: status, attempts, lock, lease, `run_after`, cancellation request, result | `enqueue_`, `cancel_`, `claim_`, `heartbeat_`, `complete_`, `fail_automation_job`, the trigger `cancel_superseded_form_submit_jobs` | one running row per user and provider; a lost worker loses no row; a cancelled row never ends otherwise; no row waits for ever | yes |
| **Worker process** (`worker/main.py`) | which row it works on, nothing on disk | `run_forever` → `run_once`: claim, heartbeat, handler with heartbeats, complete or fail | what it reports belongs to the attempt it was given | yes |
| **E-mail delivery** (`app/saas_main.py`, `202609050001_outreach_email_queue.sql`, `worker/email_runtime.py`) | application (status, content and approved revision, send key), ledgers `send_events` and `provider_send_events` | patch, approve, reserve and enqueue, reconcile, the e-mail handler, finalize | only approved content is mailed, once per person and window; the ledger tells the truth | partly: the end of a window by the clock is left out |
| **Form submission** (`202608110002…`, `202608140002…`, `worker/browser_runtime.py`) | form revisions (status, approval, `submission_result`), submit and scan rows | scan, approve, submit, record, complete with attention, resolve | one application per job; nothing is reported submitted that is not; an uncertain attempt waits for a person | partly: one application, without the bindings to a URL |
| **Gmail connection** | `connections`, `connection_secrets`, `connection_lifecycles` with a generation, `oauth_states` | OAuth start, callback, disconnect, change of the OAuth client | a callback of an older flow changes nothing; nothing is disconnected under a send | yes |
| **Account deletion** (`202608150002…`, `delete_account`) | profile state, and all of the above | `begin_account_deletion`, the clean-up, the delete | it drains rows and sends before it deletes; nothing private or granted is left | yes |
| **Quotas and retention** | counts over the ledgers and the queue | `enqueue_email_send`, `reserve_application_send`, insert triggers, pruning | no limit is passed by calls that race | partly: the triggers that count in one statement are left out |
| **Single-page frontend** (`frontend/app/page.tsx`, `frontend/lib/api.ts`) | copies of rows, editors, open requests | review, drafting, search, form review, profile, resumes, activity, session | what is stored is what the user had before him; what is shown is so | partly: the enqueue form of the discovery view, rendering |
| **Drafting and suggestions**, **Public contact discovery**, **Resumes**, **Authentication** | drafts, leads, storage objects and rows, sessions | the API's side of the views above | as above | partly: prompts, crawling, text extraction and row-level security are data |
| **Managed browser connections** (`app/saas/browser.py`) | connection, generation, binding epoch | begin, save, confirm, abort, finish, disconnect | no remote browser is leaked or shared | only as far as account deletion depends on them |
| **Provider adapters** (`worker/providers`) | none | read, fill and judge one page | a confirmation is fresh and unambiguous | only their three answers |
| **Legacy desktop application** (`app/main.py`, `app/db.py`, `app/services`, `app/integrations`, `static`) | a SQLite file, flags in memory, the page | sending, forms, automatic runs, discovery and drafting, replies | nothing is mailed or submitted twice, or without the operator | partly: digests, import bar, command-line tools, page automation |
| Job discovery and import, Provider credentials and cipher | their tables | crawling and one idempotent transaction; encryption and one statement | mostly data | no |

The components meet at the queue. The API enqueues a row for the user; a worker claims it with
a lease, runs the handler of its kind and completes or fails it. Handlers call further
functions of the database, each fenced by the same lease, and one external service. The user
goes on editing, cancelling and resolving the whole time, from several tabs. Nothing but the
database coordinates them.

What is hard in it:

* **Loss.** A worker can die anywhere, any request or reply can be lost, a lease can run out
  while its worker still works, and a handler of the API can be cut off between two of its
  transactions.
* **Order.** Answers overtake each other in the page, callbacks of older OAuth flows arrive
  after newer ones, an old queue row meets a newer reservation of the same application.
* **Stale copies.** The e-mail handler mails a copy it read several awaits ago, the draft
  endpoint writes by id after its await on the language model, a save of the profile refreshes
  forms it read before they were approved. It reads the newest fifty revisions of a user, and
  says nothing of the forms behind them.
* **Races for a limit.** Reservations are counted before those beside them are committed.
* **Effects that cannot be taken back**: a click on a provider's submit control, an accepted
  message, a revoked token.

`PROJECT.json` lists them one by one, each at its line, with the properties that would notice,
or a note where the code itself goes wrong.

## Modules

```
JobLifecycle        what the queue promises about one job
    ^ refined by
JobQueue            automation_jobs and its functions
    ^ extended by
WorkerLoop          workers, users, lost calls, crashes        WorkerLoopProofs
    ^ extended, refined by      ^ refined by
EmailDelivery                   FormSubmission                 EmailDeliveryProofs
    v refines                                                  FormSubmissionProofs
MailConnection      what a connection promises to a send
    ^ refined by
GmailConnection     flows, callbacks, disconnects              GmailConnectionProofs
AccountDeletion     drain, clean-up, delete                    AccountDeletionProofs
SendLimits          caps, counts and locks                     SendLimitsProofs

Pages               the single page, a view per part           PagesProofs
    instances of  ReviewDesk  DraftRun  ContactSearch  FormReview  ProfileForm
                  ProfileSync  Resumes  Workspace (uses JobLifecycle's phases)  Session

Desktop             the desktop application, a model per part  DesktopProofs
    instances of  LegacySender  LegacyForms  LegacyRuns  LegacyPipeline  LegacyReplies

MCWorkerLoop  MCEmailDelivery  MCFormSubmission  MCAccountDeletion     instances for TLC
MCService  MCPages  MCDesktop  MCProgress                              several models at once
```

**JobQueue** has one action per database function, each a whole transaction. A row is its
`status`, `attempts`, `lockedBy`, `cancelReq`, and what is left of its timestamps: `lease`
(none, live, expired), `due` (`run_after` has passed) and `ahead` (the due rows that became
due before it, which is the order `run_after, created_at` of the final select). `Claim` and
`ClaimNothing` contain all four sweeps of `claim_automation_job` in the order the function
runs them, with the sets of submit rows whose form revision is stale or confirmed as
parameters.

**WorkerLoop** adds the processes. `pc` is the place in `run_once`, `cur` the row, `attemptNo`
the attempts of the record the claim returned. Every call can commit with its reply lost
(`ClaimReplyLost`, `HeartbeatReplyLost`, `InitialHeartbeatFails`) or never arrive
(`TerminalRequestLost`), a worker can crash at every point and comes back with the same
`WORKER_ID`, and `LeaseExpires` may happen at any time, however busy the worker is.
`approval` is the part of a form revision that `claim_automation_job` reads.

**JobLifecycle** is the abstract specification: a job runs at most `MaxAttempts` times, one run
after the other, fails only when all are used, ends once, and is not started again once it is
revoked. The refinement mapping is `phase <- status, runs <- attempts, revoked <- cancelReq`;
leases, locks, order and workers are what it hides.

**EmailDelivery** extends WorkerLoop with applications, the ledger, the Gmail connection and
the handler of `email_runtime.py`, a step per await that matters: read the application,
prepare, put the request on the wire, hear the answer, finalize. The request lives in `wire`
independently of the handler, since `asyncio.to_thread` goes on when the handler is
cancelled; Gmail may accept it (`mailbox`) or refuse it at any later time. A request carries
the row and attempt that made it.

**FormSubmission** computes `approval` from the revisions (`Loop == INSTANCE WorkerLoop WITH
approval <- Approval`) and gives the scan and submit handlers step by step, with the last
fence (`BeforeSubmit`), the click (`Click`), what the page shows afterwards, and the three
ways an outcome reaches the database (`Records`, `CompletesWithAttention`,
`CompletesPlainly`), the triggers that guard revisions and rows included. `accepted` counts
what the provider took.

**MailConnection** is what connection and sends promise each other: a send is reserved only
while the account is connected, and while one is pending nothing starts, saves or ends a
connection. **GmailConnection** implements it with generations, one-time states and handlers
of several transactions that may be cut off after any; EmailDelivery implements it from the
side of the ledger.

**AccountDeletion** has the drain, the refusals, the clean-up over the network and the final
delete, beside workers that still hold what they were given, uploads, logins, disconnects and
other calls to delete the same account. **SendLimits** splits a call of `enqueue_email_send`
where its statements read what others have committed, with the row and advisory locks it takes.

**Pages** puts the views of the single page side by side. The variable `part` says which view a
behaviour is about; the variables of the others keep their initial values, so one run (and one
theorem) speaks of twelve models without multiplying them. Each part is one module:

| Part | Module | What it is |
|---|---|---|
| `desk`, `sends` | ReviewDesk | tabs that show copies of applications, edit, approve and queue them, over requests that come late or not at all, and the draft endpoint beside them |
| `draft` | DraftRun | "create drafts": one job after the other, each with the contact chosen before |
| `search` | ContactSearch | a search the worker runs, and the loop of the page that polls it |
| `answers` | FormReview | the review panel of captured forms, with several requests open in it |
| `profile` | ProfileForm | the profile form between refreshes, suggestions and saves |
| `sync` | ProfileSync | the handler of `PATCH /profile`, the newest revisions it reads, and the forms among them whose answers it refreshes |
| `upload`, `slot` | Resumes | storage objects and rows, written by tabs whose replies get lost |
| `work` | Workspace | nine requests per refresh, refreshes that overlap, the cancel button; the runs behind it move as JobLifecycle allows |
| `login`, `retry` | Session | one stored session, several tabs, expiring tokens, the retry after a 401 |

Two parts of one module differ in the constants a run gives them and in what is asked of them.

The desktop application is five models over its SQLite file, each with the page that drives
it: **LegacySender** (a batch is one transaction over minutes of mailing), **LegacyForms**
(runs save over what they listed), **LegacyRuns** (budgets, the stop flag, one browser
profile), **LegacyPipeline** (stages that list, work and write) and **LegacyReplies** (scans
that go over the mail of a day again and again, and the table that shows them). **Desktop** has
an instance of each, as Pages has of the views: `part` is `forms`, `runs`, `sender`, `pipe` or
`replies`. LegacyPipeline is there with one page that is not loaded anew, because only the
buttons of that page keep two runs of a stage apart; with two, `MailedOnce` is false (see below).

**MCService** and **MCProgress** use the same variable `part` for the models of their runs.
**MCDesktop** explores a part of Desktop in scenes, each with the actors that can overtake one
another and without the others. Idle parts have one pinned initial state; behaviours of different parts share
nothing, so a run of them is the union of the runs of its parts.

## Abstractions

* Every function of the database is one atomic step: it locks the row, or an advisory key,
  before it reads what it decides on. The functions that count before they lock are SendLimits.
* Time appears only as the outcome of comparisons. The 15 minutes of `reconcile` may pass at
  any moment, before or after a lease ends. A behaviour of EmailDelivery stays within one
  `duplicate_window_days`, so the two ledgers are one and nothing leaves the window; in
  SendLimits time takes reservations out of each window.
* The limit of rows per day only refuses more and is left out; the number of active rows is
  `MaxActive`. Every worker takes every kind of row (`WORKER_KINDS` is not split).
* E-mail: `drafted` stands for `drafted` and `draft_pending`, `aside` for `manual`, `applied`,
  `interview`, `rejected`, `archived`; the API's PATCH is a compare-and-swap and so a step.
* Forms: one application. Its pipeline status, its job and prefill rows are left out. A
  revision is its number, because triggers freeze its contents. The provider's decision is
  made at the click; it shows its rejection text only when it did not take the answers.
  Rows are pruned only when no worker is busy with them (90 days against a lease of
  minutes), and removing the temporary resume file does not fail.
* Gmail: a flow stands for its token too, and the user has one Google account.
* Pages: texts, answers, files and facts are members of small sets. A request is served once,
  later than it was sent, and its answer lands later still or never. The nine requests of a
  refresh are one "load" in Session and nine in Workspace. In ProfileSync a profile is one
  fact that every form asks for; `Newest` is the limit of the handler's read (50 in the code), `later[a]`
  counts the revisions made since the newest one of a form, and `ScanElsewhere` stands for those of
  applications that are not modelled one by one. The page never uses the `profile_answers` the API hydrates
  (`docs/05-Build-Runbook.md:504`), nor handles `PASSWORD_RECOVERY` (`docs/05-Build-Runbook.md:485`),
  so neither is in the models.
* Desktop: a stage, a run or a scan is its reads, its work and its one transaction at the end;
  a site takes an application to a job once. A transaction that has waited too long for the
  database fails like any other.
* `reserved`, `lapsed`, `disturbed`, `accepted`, and in the pages `ratified`, `wanted`,
  `reviewed`, `muddled`, `fenced`, `unread`, `lost`, `twice`, `told` are history variables, read by
  properties only.

## Runs

| Run | Instance | Distinct states | What it shows |
|---|---|---|---|
| `queue` | 2 workers (symmetric), a submit row and another row of one lane, 2 attempts | 68,062 | the inductive invariant, lane exclusion, waiting rows, cancellation, the fence, refinement of JobLifecycle |
| `queue_live` | 1 worker, 3 rows, one without a lane | 124,256 | `EveryJobEnds` |
| `email` | 1 worker, 2 applications for one person, 2 keys, 2 attempts | 1,292,461 | success is real, nobody is written to twice unless a lease ran out, ledger, applications and connection agree |
| `email_two_workers` | 2 workers on one row, 2 attempts, 2 contents | 331,222 | only approved content leaves, no retry after dispatch, settled stays settled, refinement of WorkerLoop |
| `email_at_most_once` | 1 worker, 1 key | violation | see below |
| `form` | 1 worker, a scan and a submit row, 2 attempts, 3 revisions | 927,270 | revisions in line, outcomes true, uncertain attempts decided, one application, closed for good |
| `form_one_application` | 1 worker, 1 revision | violation | see below |
| `service` | 2 flows, 2 disconnects, 4 generations; 2 rows, 1 file, 2 deletions cut off anywhere; 4 calls of 2 users sharing an account | 673,544 | nothing stale is connected, clean-up follows the drain, nothing is left, limits and caps hold, refinement of MailConnection |
| `account_stuck` | one deletion that is cut off | violation | see below |
| `pages` | see the next table | 1,021,730 | the seven properties of Pages |
| `desktop` | see the next table | 629,350 | recorded as sent or submitted is so, with consent and within the cap of a run; a stop is heard |
| `progress` | an instance per part, see below | 85,427 | deletions, loops, waits, buttons and flags come to an end; open views catch up |

| Part of `pages` | Instance | | Scene of `desktop` | Part | Instance |
|---|---|---|---|---|---|
| `desk` | 2 tabs, 1 request, 2 revisions | | `forms` | `forms` | 2 fill runs, a submission, a refresh, a failure |
| `sends` | 1 tab, 2 requests | | `runs` | `runs` | 2 automatic runs of one job each, cap 1 |
| `draft` | 2 tabs, 1 job, 2 addresses | | `sites` | `runs` | 1 run on LinkedIn or a site, 2 jobs, caps 1 and 2, a crash |
| `search` | 2 searches, 2 rounds | | `tabs` | `sender` | 2 pages, 1 batch, 2 applications, any contacts not verified |
| `answers` | 1 tab, 1 form, 2 texts | | `batches` | `sender` | 1 page, 2 batches, cap 1, a crash |
| `profile` | 1 tab, 2 fields, 2 saves | | `pipe` | `pipe` | 2 runs of the stages, 1 posting, a crash |
| `sync` | 2 saves, 1 form, 2 revisions, the newest one read | | `scans` | `replies` | 2 scans, 2 messages of 2 applications |
| `upload`, `slot` | 1 tab and 2 slots; 2 tabs and 1 slot | | `table` | `replies` | 1 page with 2 requests, 1 scan, 1 message |
| `work` | 2 refreshes, 1 run | | | | |
| `login`, `retry` | 2 tabs, 2 users; 1 tab, every kind of request | | | | |

The bounds. Two workers are enough for a lease to be taken over while its old holder is
active; the old holder's later attempts add nothing that a crash does not. Two rows of a lane
contend for it, and a third one is what could starve them; exclusion is checked with two and proved
for any number (`MutualExclusion`), a third row whose lease is swept in the same claim included. Two attempts give a first and a
last one (three in the table). A key is reused after its row was deleted, so rows may live any
number of lives. Two keys let an old row meet a newer reservation of its application. Three
revisions let one be scanned, retried after "not submitted" and scanned again
(`MaxRevision` is 50 in the code; the guard leaves the same slot free). Two flows, two
disconnects and four generations let a callback and a disconnect each be overtaken by both kinds. Two
deletions and two rows let one call wait for a row while the other cleans up. In the pages and
the desktop two of every actor that can overtake another are enough for the order of two
requests to be turned round; a third repeats it. No run has a state constraint: every counter
is bounded by a guard. Workers, flows, disconnects, deletions, tabs and
texts are symmetric in the runs of safety properties (`queue`, `email`, `service`, `pages`,
`desktop`); the liveness runs use no symmetry. A save that reads one revision (`Newest`) has forms
behind it as soon as one is captured elsewhere; fifty of them only make the trace longer.

The queue, e-mail and form runs check deadlock: an idle worker keeps polling. The runs over
`part` (`service`, `pages`, `desktop`, `progress`) and `account_stuck` say `CHECK_DEADLOCK FALSE`,
because their behaviours really end: the user is gone, all flows, calls and clicks that the
bounds allow are used up, every tab is closed.

### Fairness

| Specification | Weak fairness of | Because |
|---|---|---|
| `WorkerLoop!FairSpec` | polling, the first heartbeat, the end of a handler, its report; a lease nobody works under, a retry becoming due | the workers that run keep polling and get some answers; every provider call has a timeout, a browser session a maximum; the clock goes on |
| `AccountFairSpec` | a call of the deletion, the end of a row, the recovery of a worker, a lease nobody holds; **strong** fairness of asking again while the account is `deleting` | the handler's calls have timeouts; the page tells the user to try again, and the property is about a user who does |
| `LimitsFairSpec` | each statement of a call | Postgres grants a lock once it is free |
| `ContactSearch!FairSpec` | the steps of a loop; a row that starts and leaves the queue | timers fire and requests end; the rows end by `EveryJobEnds` |
| `DraftRun!FairSpec` | the step after each answer | requests end, with an answer or an error |
| `Workspace!FairSpec` | the timer, the answers of a refresh | as above, in a tab that stays open |
| `LegacyForms`, `LegacyRuns`, `LegacySender` | the steps of a background run, the requests and renderings of the page | threads of one process with timeouts on the browser and the mail |

Nothing is assumed of users (but for asking again above), and crashes and lost replies may
happen for ever. `EveryJobEnds` then holds for two reasons: each loss uses up an attempt, and
the order by `run_after, created_at` lets no later row overtake for ever. MCProgress owes
the fairness of a part only while that part is under way.

## Where the code departs from what is said of it

Three of these have a run that TLC ends with a counterexample:

* **An e-mail can be sent twice under one key** (`email_at_most_once`, `AtMostOncePerKey`). If the
  worker stops, or its lease runs out, between Gmail's acceptance and
  `finalize_application_send`, the sweep queues the row again, the application is still
  `queued`, and the next attempt posts the message again (`worker/email_runtime.py:253`).
  `docs/02-SRS.md:455` says that "retries never repeat an externally meaningful send/apply
  action". `OncePerRecipientUnlessLapsed` shows, and `EmailDeliveryProofs!OncePerRecipient`
  proves, that an expired lease is the only way.
* **A sealed form can be submitted twice** (`form_one_application`, `OneApplicationPerRevision`).
  If the worker stops between the click (`worker/browser_runtime.py:1054`) and the record of its
  outcome, the revision is still approved, the sweep queues the same row again, and the guard
  against a second attempt looks for another row only. `README.md:163-166` says that the worker
  "activates the provider submit control once" and "does not blindly retry an uncertain submit".
  `OneApplication`, checked and proved, says that an expired lease, a cancelled running
  submission or a wrong "not submitted" is needed.
* **A deletion can get stuck** (`account_stuck`, `Retriable`). `begin_account_deletion` refuses
  while a login is `disconnecting`, and `delete_account` itself puts logins into that state; cut
  off there, the account stays in `deleting` for ever (`202608150002…:1428`).
  `docs/04-Technical-Spec.md:809`: "Account deletion is retriable."

The rest were met while modelling. Each is written down as a property in the module named, under
the comment "Does not hold"; no run of the project checks them. The properties that hold are stated
around them, with the condition that excludes the case. For five hazards that no run covers, this
is the instance on which TLC ends with the counterexample:

* **A person can be mailed under two keys** (EmailDelivery `OneKeyPerRecipient`; the instance of
  `email`). A worker posts the message and its lease runs out; the next
  attempt of the row cannot prepare (no token, no resume) and settles the reservation as failed
  (`worker/email_runtime.py:249`), although the first request may have been accepted. A failed
  reservation counts for no window, so a second application to the same person is reserved and
  mailed. `docs/05-Build-Runbook.md:801`: "Never retry an ambiguous external send/apply without
  reconciliation". `OncePerRecipientUnlessLapsed` excepts the lease.
* **A save of the profile leaves older forms as they were** (ProfileSync `EveryFormFollows`; 1 save,
  2 forms, 2 facts, `MaxRev = 2`, `Newest = 1`, `MaxEdits = 1`). The handler reads the newest 50
  revisions of the user over all applications (`app/saas_main.py:2201-2206`) and looks at no others.
  With more, a form whose newest revision lies behind them stays approved with the old fact while
  the save answers 200. `202608130005_profile_form_answer_sync.sql:1`: "Carry newly saved
  deterministic Profile facts into prepared application forms"; the comment at line 2240 warns of
  what "would make the Profile look saved while prepared forms stay stale". `FormsFollowSave`,
  checked and proved, is about the forms among the revisions that the last save read.
* **A form marked as done is opened again** (LegacyForms `DoneStaysDone`; 1 form, 1 run, 1 refresh).
  A prefill run saves `form_error` for a form of its list (`app/services/forms.py:243`) after the
  operator has marked it. Line 275: "Operator submitted the form by hand in the browser; just record
  it as done."
* **A crash repeats the mails of a batch** (LegacySender `MailedOnce`; 1 page, 2 batches, one begun
  when the other is over, 2 applications to 2 firms, `Cap = 2`, a crash). The records of a batch
  commit together at its end (`app/services/sender.py:241`); if the process dies before, the next
  batch finds drafts, and the duplicate guard nothing. Two batches that overlap do the same without
  a crash. Line 11: "one email per company within DUP_WINDOW_DAYS".
* **More rows are active than allowed** (SendLimits `QueueBounded`; 2 calls of one user,
  `QueueMax = 1`, `AccountMax = MaxCap = 2`). The active rows are counted before a lock is taken
  (`202609050001…:242`). `app/saas/store.py:56`: "Too many automation jobs are already active."

The others:

| Property | Where | What happens, and what is said |
|---|---|---|
| GmailConnection `RevokesItsOwn` | `app/saas_main.py:4479` | A disconnect reads connection and secrets without its generation: overtaken, it revokes the token of a newer connection, which stays. `docs/02-SRS.md:259`: a repeated disconnect continues "rather than race a callback". A stale callback that revokes its own new grant ends the current grant as well |
| `SavedGrantIsLive` | `app/saas_main.py:4453` | The answer of a committed `save_google_connection` is lost, and the callback revokes the token it has just saved |
| `ShownMeansSendable` | `202608110007…:278` | A flow that was begun and left keeps the lifecycle `connecting`; the page shows connected, sends answer `gmail_not_connected` |
| AccountDeletion `HandleKept` (two calls) | `app/saas_main.py:2364` | Another request removes the same login, and all contexts are abandoned. Line 2328: "Do not discard the only encrypted cleanup handle" |
| `NoWorkerHolds` | `202608150002…:1447` | A row with an expired lease does not hold the deletion up, though its worker may still hold the bundle. `app/saas_main.py:2314`: only "after every worker has stopped holding tenant plaintext/browser credentials" |
| ReviewDesk `ApprovedIsOnScreen` | `page.tsx:535` | The button posts the revision only; unsaved edits on the screen are not what is approved. Line 542: "Edit, approve, and queue one exact message at a time." |
| `RefusedOnlyIfChanged` | `page.tsx:535` | The page reads `revision`, the API sends `content_revision`: it always expects revision 1. Line 539: "The draft changed; refresh and review it again." |
| DraftRun `ArchivedStaysArchived` | `app/saas_main.py:3317` | A draft that ends late sets the status of an archived role back. `page.tsx:488`: "Role archived." |
| ContactSearch `LeadsAreShown` | `page.tsx:594` | The loop asks forty times and never again. Line 588: "We will show public leads as the worker finds them." |
| FormReview `AnswersOfThisRevision` | `page.tsx:474` | Suggestions are merged into whatever panel is open when they arrive. Line 477: "Answers are editable until you approve this exact revision." |
| ProfileForm `SaveIsAccepted`, `SaveKeepsTheRest` | `page.tsx:376` | The form sends back every column it was given, and is refused; or, after a failed load, sends blanks that overwrite. `docs/02-SRS.md:79`: "without silently overwriting non-blank user values" |
| `ResumeFillsBlanksOnly`; a typed 0 in `TypedIsSent` | `page.tsx:416` | Blank is `!current[key]` of the form, not of the row: after a failed load everything is filled, and a typed 0 is replaced. `docs/04-Technical-Spec.md:645`: "analysis fills only blank browser form fields" |
| ProfileSync `ApprovedEditsStay` | `202608150004…:51` | A save that read the revision before it was approved lays the profile over the answers it had read: the new revision lacks the user's edits |
| `SavedMeansFresh` | `app/saas_main.py:2204` | Of two saves, the one whose row was overwritten may refresh the forms last. Line 2240: "failures must remain visible" |
| Resumes `ActiveHasFile` | `page.tsx:410` | A registration whose answer is lost is taken for a refusal, and the file removed. `docs/02-SRS.md:75-77` |
| `DeletesItsOwn` | `app/saas_main.py:2555` | The object goes first, the row by id later: a file registered in between loses its row. `docs/02-SRS.md:81-82` |
| Workspace `CancelledIsTrue` | `page.tsx:679` | The status in the answer is ignored: "Run cancelled." of a run that succeeded |
| Session `SavedIsOwn` | `lib/api.ts:77` | The profile of one user is saved with the session of another. `docs/02-SRS.md:57` |
| `ShownIsOwn` | `page.tsx:246` | Rows stay on the screen when the user changes without a sign-out. `docs/06-Vercel-Deployment-Checklist.md:655-657` |
| `DeletedWasTyped` | `page.tsx:687` | The typed address is compared with the session shown, the token is that of the session stored |
| LegacyForms `SingleSubmit` | `app/services/forms.py:164` | The status is checked before, and left alone after, a submission. Line 7: "operator-approved single submit" |
| `LinksAreShown` | `referrals.js:221` | The refresh comes before the flag is set, and clears the timer. `main.py:326` |
| LegacyRuns `AppliedWithinCap` | `linkedin_apply.py:113` | The count is written once, after the session; two presses read the same budget. Line 72 |
| `StopHalts`, `LastRunIsLast` | `browser.py:2359`, `main.py:415` | The run clears the stop flag when it begins; a run that raised leaves the result of an earlier one. `main.py:455`, `app.js:292` |
| `NothingLeftIsTrue` | `platform_apply.py:122` | A run of errors only is reported as finished. Line 106 |
| LegacySender `OneMailPerFirm` | `sender.py:212` | The guard asks for the company row, and search and import store a new one with every application. Line 11: "one email per company within DUP_WINDOW_DAYS" |
| `BypassIsPerRecipient`, `ResumedIsTrue` | `sender.py:166`, `app.js:519` | One flag for the batch; a database error answers 200. `sender.py:93`, `app.js:519` "Sending resumed." |
| LegacyPipeline `MailedOnce` with two tabs, `QueueIsUnapplied` | `drafting.py:214`, `db.py:285` | Only one page keeps two runs of a stage apart; an applied row is taken up again. `sender.py:11`, `db.py:657-658` |
| LegacyReplies `NewestReplyCounts`, `NoReplyIsMissed` | `replies.py:109`, `:106` | Newest first, each overwriting the last; one day back, always. Line 3 |
| `ViewIsKept` | `applications.js:121` | An error answered with 200 clears the table. Line 127: "keep last view on transient errors" |

## Proofs

Every theorem holds for all values of the constants that satisfy the named assumptions of the
modules (`QueueAssumption`, `LoopAssumption`, `EmailAssumption`, `FormAssumption`,
`GmailAssumption`, `AccountAssumption`, `LimitsAssumption`, and `PartsAssumption` of Pages and of
Desktop, which are those of their parts): names for "nobody" and "nothing" are not names of something, bounds are natural
numbers, submit rows are rows. TLC evaluates them in the runs.

**WorkerLoopProofs.** Every transaction on the table preserves `QueueInv`, for
any sets of stale and confirmed revisions (`QueueNextInv`), and is a step or a stutter of each
row in JobLifecycle. `LoopInvariant` is `Spec => []IInv` with `IInv` = `QueueInv`, `TypeOK`,
`FenceIsPerAttempt`, `IdleHasNoJob`. The properties of the table are inductive only together:
that a queued row has an attempt left needs the type of `attempts`, exclusion in a lane needs
that an expired row of the lane was swept in the same step, the end of a cancelled row needs
that waiting rows have no request. `FenceIsPerAttempt` is not inductive alone: a claim whose
reply is lost gives a row to a worker that knows nothing of it, which is harmless only because
that worker is idle and remembers no row. `TypeCorrect`, `MutualExclusion`,
`NothingStuckInLine`, `CancellationIsFinal`, `FenceHolds`, `LocksMatch` and `Implementation`
(of JobLifecycle) follow.

**EmailDeliveryProofs.** Every step is a step of WorkerLoop or a stutter (`EmailImplementsLoop`)
and one of MailConnection (`EmailImplementsConnection`), so what is proved of the queue holds
here. `EmailInv` adds to the queue's invariant that the ledger, applications and connection
agree (`LedgerInv`) and what every handler knows of its row, its key and its own requests
(`MailInv`: `Knows`, `Differs`, `Owns`). Two workers in one row differ in their attempt, and an
attempt has a request only if its handler has posted it; hence a retry follows no request of its
attempt, and a success has a message. `OncePerRecipient` needs more: `OnceInv` says that, while
no lease has run out, a running row has a live lease, the row of a worker is its own in the
queue and among the workers and so is the key it sends under, a row whose reservation failed is
not claimed again, and a request is the only one of its row. One counted reservation per
recipient then leaves one request per recipient.

**FormSubmissionProofs.** `FormInv` follows a revision through its life: `RevisionOK` (which
statuses go with which approvals, verdicts and rows), `RowOK` (the revision a submit row is for,
and what its status says of it), `OneAttempt` (a revision has at most one submit
row), `HandOK` (what the handler holds, by its place in the code). With the queue's
invariant, taken over through `LoopP == INSTANCE WorkerLoopProofs`, it is inductive and gives
`RevisionsAlwaysInLine`, `OutcomesAlwaysTrue`, `UncertainAlwaysDecided`, `SubmittedIsClosed` and
`FormTypeCorrect`; `FormImplementsLoop` is the refinement, with `approval` computed from the
revisions. No run repeats it (on the instance of `form` TLC has found it to hold, at twice the time
of the run). `AlwaysOneApplication` needs `Undisturbed` and `Sole`: as long as no lease ran out and
no running submission was cancelled, a handler past its fence still works on the current
revision, and what the provider took is on record or in the hands of the one worker that runs
the row.

**GmailConnectionProofs.** `IInv` adds to the properties that generations only grow and nobody is
ahead of the lifecycle (`Behind`), that a flow which may still save was started with the client
on file and has compared the row it would take a refresh token from (`Current`), and that the
flow which gave the token is over (`TokenIsGiven`). Results: `NoStaleCallback`,
`SendKeepsConnection`, `NoConnectionLost`, `Implementation` (of MailConnection).

**AccountDeletionProofs.** `Placed` says what is true of a call by its place: it cleans up only an
account that is no longer active, so what its steps establish cannot be undone by the user.
Results: `DrainIsComplete`, `PrivateDataGoes`.

**SendLimitsProofs.** What a call has counted stays true up to its commit, because whoever could
add to it needs a lock the call holds (`LocksHeld`, `CountsHold`). Results: `CountsAreExact`,
`CapHolds`.

**PagesProofs.** One invariant per part, and `PagesInv`: that of the part under way holds
(`PartsHold`). A step of a part keeps its own and leaves the rest alone.

| Part | Its invariant, beyond the types | Theorem |
|---|---|---|
| `desk` | every copy, in a tab, an answer or a request, is no newer than its row, and at the row's revision has its content | `ApprovalsStayTrue` |
| `sends` | an approved message has had fewer sends than approvals | `ApprovalsStayTrue` |
| `draft` | every call carries what was captured when its run started | `UserAlwaysDecides` |
| `search` | what was read after the end was seen has every lead stored before it | `FinishedAlwaysShows` |
| `answers` | an approval that was answered with success is sealed before its answer lands | `ApprovalsStayTrue` |
| `profile` | a save under way holds a suggestion only where its user had it on the screen | `UserAlwaysDecides` |
| `sync` | by the stage of the save under way: no form holds an older fact (`Fresh`), none that is read holds it alone (`Half`), or it is on the list (`Pending`); fenced forms, those behind the newest revisions (`unread`, which are still behind them: `UnreadIsOld`), and overlapping or failed saves excepted | `StoredDataAlwaysAgrees` |
| `upload` | for a single tab whose answers all came: storage and rows agree but for the slot it is working on; ids are of one row | `StoredDataAlwaysAgrees` |
| `slot` | the text of a row is written with its checksum | `StoredDataAlwaysAgrees` |
| `work` | a status that was read, or is shown, was true once: rows are not taken away, and what has stopped stays so | `ScreenStaysTrue` |
| `login` | the last change a tab has not heard of is the session stored; no answer finds a Workspace without a session | `ScreenStaysTrue` |
| `retry` | a request that took effect is answered | `ScreenStaysTrue` |

`PagesTypeOK` is the type invariant of all twelve parts. The invariants of the table say only as much
of the types as they use. `PagesTypes` adds the rest, and is inductive relative to `PagesInv`: stored
rows, answers and pages hold ids, versions and contents that exist (`SendsTypes`, `SlotTypes`,
`WorkAlso`), ids are handed out once (`SlotIdsAreOwn`), and a drafting loop always has its place among
the calls (`LoopsHaveSlots`, `FoundFits`). `login` and `retry` both instantiate Session; its types
are proved once, for an instance `Any` of any tabs, users, links, kinds and bound, which each of the
two is (`LoginIsAny`, `RetryIsAny`). The proof assumes of the constants that the bounds are natural
numbers and that the activity is not one of the tables (`WorkspaceAssumption`).

`ApprovedStaysAlone` is the action property over `desk`, `sends` and `sync`: the rows of both
desks move in one of five ways (`RowsStep`), none of which rewrites a queued message.

**DesktopProofs.** The same for Desktop: an invariant per part, `DesktopInv` and `DesktopHolds`.

| Part | Its invariant, beyond the types | Theorem |
|---|---|---|
| `forms` | a form whose provider has confirmed was submitted, before its status is saved | `SentStaysTrue` |
| `runs` | on an account whose runs neither overlapped nor lost a count: at most one run is under way, the count is behind by what it has got, and what it has left fits in what the day has left (`CountIsRight`, `BudgetFits`); the window belongs to the run in it; a session told to stop still has its flag (`ToldIsStopped`) | `NeverTooOften`, `OperatorIsAlwaysHeard` |
| `sender` | what a page has ticked is on it; whatever a batch has on its list was agreed to, what it will record was mailed, and that is no more than the cap (`BatchFits`), so a rollback loses records and makes none up | `SentStaysTrue`, `NeverTooOften` |
| `pipe` | a disabled button has one run; while a run holds a posting, the search for an address finds it without one and never mailed, drafting finds it with one, undrafted and never mailed (`StageFits`): of two stages that hold it, the one that commits leaves this true for the other | `NeverTooOften` |
| `replies` | the bounces a scan has not committed are its own only while it has the database to itself, and are counted nowhere else (`ScanFits`) | `NeverTooOften`, `OperatorIsAlwaysHeard` |

`DesktopTypeOK` is the type invariant, which also says who holds the browser, the window, the
database and the buttons. `MailedOnce` is proved for the one page of Desktop, any number of runs
and any interleaving of the stages; that it needs the page to stand is in the table above.

**Only model-checked.** Liveness (`EveryJobEnds`, `DeletionEnds`, `WaitsEnd`, `CatchesUp`), which
the prover cannot do, and `HandleKept`, `EveryJobIsTried` and `CountedHasDraft`, which are checked
with them. Every invariant of a passing run has a theorem. No module uses a RECURSIVE operator, and
no property needs induction over data.

## Not modelled

The limits per day, the end of a duplicate window in EmailDelivery, `application_prefill` rows, the
binding of company and YC forms to one URL, the begin / save / confirm / abort / finish protocol
of a managed browser connection, and the components of the first table without a module. Page
reading and filling, crawling, parsing, prompts, encryption, row-level security and rendering have
no interleavings of their own. `enqueue_public_contact_discovery` is an enqueue with other limits.

## Plan

Done: the queue and its workers, e-mail, forms, Gmail, account deletion, limits, the single page
and the desktop application, with their types and safety properties proved.

1. `BrowserConnection`: the protocol with binding epochs and remote contexts that must not leak.
2. The enqueue form of the discovery view (`page.tsx:422-450`), digests (`referrals.js:184-213`),
   the import bar (`app.js:528-561`), prefill rows in FormSubmission.
