----------------------------- MODULE LegacyForms -----------------------------
(***************************************************************************)
(* The referral forms of the desktop application: the cards and their       *)
(* buttons (src/static/referrals.js), the background run that reads every   *)
(* open form and builds its pre-filled link, the fill run of formtool.py    *)
(* and the automatic submission (src/app/services/forms.py), which share    *)
(* one browser profile.  A run works on the list of forms it read when it   *)
(* started and saves the outcome of each over whatever the row holds.       *)
(* DRY_RUN is off.                                                          *)
(***************************************************************************)
EXTENDS Naturals

CONSTANTS
    Forms,
    None,
    Runs,           \* bound: runs in all
    Tools,          \* the runs among them that formtool.py starts
    Submits,        \* bound: automatic submissions in all
    Gets,           \* bound: refreshes of the page at a time
    MaxFailures     \* bound: requests of the page that fail

FormsAssumption == Tools \subseteq Runs /\ MaxFailures \in Nat

VARIABLES
    status,     \* status[f]: of the application
    archived, links,    \* hidden cards; forms with a pre-filled link
    browser,    \* who has opened the browser profile
    running,    \* LAST_FILL["running"]
    runs, submits,
    shown,      \* shown[f]: the status on the card, or "absent"
    seen,       \* forms whose card has the link
    pressed,    \* forms whose submit button is disabled
    building,   \* the prefill button is disabled
    poll,       \* pollTimer is set
    gets,       \* gets[g]: a refreshForms under way
    failures,
    real,       \* ghost: submissions of a form, 2 for more
    manual      \* ghost: forms the operator has marked

rows    == <<status, archived, links>>
page    == <<shown, seen, pressed, building, poll>>
ghost   == <<real, manual>>
vars    == <<rows, browser, running, runs, submits, page, gets, failures, ghost>>

Statuses == {"found", "filled", "error", "submitted", "deleted"}
Free     == [pc |-> "free"]
Over     == [pc |-> "over"]
Answer   == [status : [Forms -> Statuses \cup {"absent"}], links : SUBSET Forms, running : BOOLEAN]

TypeOK ==
    /\ status \in [Forms -> Statuses]
    /\ archived \subseteq Forms /\ links \subseteq Forms
    /\ running \in BOOLEAN /\ building \in BOOLEAN /\ poll \in BOOLEAN
    /\ \A r \in Runs : runs[r] \in {Free, Over} \cup
          [pc : {"posted", "asked", "list", "next", "reading"}, todo : SUBSET Forms, form : Forms \cup {None}]
    /\ \A s \in Submits : submits[s] \in {Free, Over} \cup
          [pc : {"posted", "checked", "open", "confirmed"}, form : Forms]
    /\ browser \in {None} \cup {r \in Runs : runs[r].pc = "reading"}
                          \cup {s \in Submits : submits[s].pc = "open"}
    /\ shown \in [Forms -> Statuses \cup {"absent"}]
    /\ seen \subseteq Forms /\ pressed \subseteq Forms
    /\ \A g \in Gets : gets[g] \in {Free} \cup [pc : {"sent"}] \cup [pc : {"answered"}, answer : Answer]
    /\ failures \in 0..MaxFailures
    /\ real \in [Forms -> 0..2] /\ manual \subseteq Forms

\* init() has shown the cards.
Init ==
    /\ status \in [Forms -> {"found", "filled"}]
    /\ archived = {} /\ links = {} /\ browser = None /\ running = FALSE
    /\ runs = [r \in Runs |-> Free] /\ submits = [s \in Submits |-> Free]
    /\ shown = status /\ seen = {} /\ pressed = {}
    /\ building = FALSE /\ poll = FALSE
    /\ gets = [g \in Gets |-> Free] /\ failures = 0
    /\ real = [f \in Forms |-> 0] /\ manual = {}

Exists(f) == status[f] # "deleted"

-----------------------------------------------------------------------------
(* The page *)

\* refreshForms, called from everywhere.
Refresh ==
    \E g \in Gets : gets[g] = Free /\ gets' = [gets EXCEPT ![g] = [pc |-> "sent"]]

Poll ==
    /\ poll /\ Refresh
    /\ UNCHANGED <<rows, browser, running, runs, submits, page, failures, ghost>>

ServeForms(g) ==
    /\ gets[g].pc = "sent"
    /\ gets' = [gets EXCEPT ![g] = [pc |-> "answered", answer |->
          [status |-> [f \in Forms |-> IF Exists(f) /\ f \notin archived THEN status[f] ELSE "absent"],
           links |-> links, running |-> running]]]
    /\ UNCHANGED <<rows, browser, running, runs, submits, page, failures, ghost>>

\* Mutant: the timer is never cleared.
KeepsPolling(g) == poll \/ gets[g].answer.running

\* A timer that is set stays while a run is active.
PollsOn(g) == gets[g].answer.running

\* All cards are rendered anew, with enabled buttons.
Render(g) ==
    /\ gets[g].pc = "answered"
    /\ shown' = gets[g].answer.status
    /\ seen' = gets[g].answer.links
    /\ pressed' = {}
    /\ building' = gets[g].answer.running
    /\ poll' = PollsOn(g)
    /\ gets' = [gets EXCEPT ![g] = Free]
    /\ UNCHANGED <<rows, browser, running, runs, submits, failures, ghost>>

\* A refresh that fails changes nothing.
RefreshFails(g) ==
    /\ gets[g].pc = "sent" /\ failures < MaxFailures
    /\ failures' = failures + 1
    /\ gets' = [gets EXCEPT ![g] = Free]
    /\ UNCHANGED <<rows, browser, running, runs, submits, page, ghost>>

\* prefillForms: the answer sets the timer and refreshes at once.
PressPrefill(r) ==
    /\ ~building /\ r \notin Tools /\ runs[r] = Free
    /\ building' = TRUE
    /\ runs' = [runs EXCEPT ![r] = [pc |-> "posted", todo |-> {}, form |-> None]]
    /\ UNCHANGED <<rows, browser, running, submits, shown, seen, pressed, poll, gets, failures, ghost>>

\* api_forms_prefill looks at the flag; the background task sets it later.
ServePrefill(r) ==
    /\ runs[r].pc = "posted"
    /\ runs' = [runs EXCEPT ![r] = IF running THEN Over ELSE [@ EXCEPT !.pc = "asked"]]
    /\ poll' = TRUE
    /\ Refresh
    /\ UNCHANGED <<rows, browser, running, submits, shown, seen, pressed, building, failures, ghost>>

\* Without an answer the button waits for the next refresh.
PrefillFails(r) ==
    /\ runs[r].pc = "posted" /\ failures < MaxFailures
    /\ failures' = failures + 1
    /\ runs' = [runs EXCEPT ![r] = Over]
    /\ UNCHANGED <<rows, browser, running, submits, page, gets, ghost>>

PressSubmit(s, f) ==
    /\ shown[f] \notin {"absent", "submitted"} /\ f \notin pressed
    /\ submits[s] = Free
    /\ submits' = [submits EXCEPT ![s] = [pc |-> "posted", form |-> f]]
    /\ pressed' = pressed \cup {f}
    /\ UNCHANGED <<rows, browser, running, runs, shown, seen, building, poll, gets, failures, ghost>>

PressMark(f) ==
    /\ shown[f] \notin {"absent", "submitted"} /\ Exists(f)
    /\ status' = [status EXCEPT ![f] = "submitted"]
    /\ manual' = manual \cup {f}
    /\ Refresh
    /\ UNCHANGED <<archived, links, browser, running, runs, submits, page, failures, real>>

Remove(f) ==
    /\ shown[f] # "absent" /\ Exists(f)
    /\ \/ archived' = archived \cup {f} /\ UNCHANGED status
       \/ status' = [status EXCEPT ![f] = "deleted"] /\ UNCHANGED archived
    /\ Refresh
    /\ UNCHANGED <<links, browser, running, runs, submits, page, failures, ghost>>

-----------------------------------------------------------------------------
(* Background runs *)

Begin(r) ==
    /\ runs[r].pc = "asked"
    /\ running' = TRUE
    /\ runs' = [runs EXCEPT ![r].pc = "list"]
    /\ UNCHANGED <<rows, browser, submits, page, gets, failures, ghost>>

\* formtool.py is another process: it knows nothing of the flag.
StartTool(r) ==
    /\ r \in Tools /\ runs[r] = Free
    /\ runs' = [runs EXCEPT ![r] = [pc |-> "list", todo |-> {}, form |-> None]]
    /\ UNCHANGED <<rows, browser, running, submits, page, gets, failures, ghost>>

Open(r, f) == IF r \in Tools THEN status[f] \in {"found", "error"}
                             ELSE status[f] \notin {"submitted", "deleted"}

List(r) ==
    /\ runs[r].pc = "list"
    /\ runs' = [runs EXCEPT ![r].pc = "next", ![r].todo = {f \in Forms : Open(r, f)}]
    /\ UNCHANGED <<rows, browser, running, submits, page, gets, failures, ghost>>

\* What is saved for a form: fill_pending looks whether the row is still there,
\* build_prefill_links does not when the form could not be read.
Unread(r, f) ==
    /\ Exists(f)
    /\ status' = [status EXCEPT ![f] = "error"]
    /\ UNCHANGED links

Good(r, f) ==
    IF ~Exists(f) THEN UNCHANGED <<status, links>>
    ELSE IF r \in Tools THEN /\ status' = [status EXCEPT ![f] = "filled"] /\ UNCHANGED links
                        ELSE /\ links' = links \cup {f} /\ UNCHANGED status

\* The browser is opened for one form, or cannot be.
Read(r, f) ==
    /\ runs[r].pc = "next" /\ f \in runs[r].todo
    /\ \/ /\ browser = None
          /\ browser' = r
          /\ runs' = [runs EXCEPT ![r].pc = "reading", ![r].form = f, ![r].todo = @ \ {f}]
          /\ UNCHANGED <<status, links>>
       \/ /\ browser # None
          /\ UNCHANGED browser
          /\ Unread(r, f)
          /\ runs' = [runs EXCEPT ![r].todo = @ \ {f}]
    /\ UNCHANGED <<archived, running, submits, page, gets, failures, ghost>>

Save(r) ==
    /\ runs[r].pc = "reading"
    /\ Unread(r, runs[r].form) \/ Good(r, runs[r].form)
    /\ browser' = None
    /\ runs' = [runs EXCEPT ![r].pc = "next", ![r].form = None]
    /\ UNCHANGED <<archived, running, submits, page, gets, failures, ghost>>

\* Mutant: the flag is reset by a run that comes to its end.
AfterError == running

AfterRun == FALSE

\* Mutant: the browser stays open behind an exception.
LeftOpen(r) == browser

Closed(r) == IF browser = r THEN None ELSE browser

\* An unread form whose row is gone: fill_pending goes on, the prefill run fails.
Missing(r) ==
    LET f == runs[r].form IN
    \/ runs[r].pc = "reading" /\ ~Exists(f)
    \/ runs[r].pc = "next" /\ browser # None /\ \E g \in runs[r].todo : ~Exists(g)

Breaks(r) ==
    /\ r \notin Tools /\ Missing(r)
    /\ browser' = Closed(r)
    /\ running' = AfterRun
    /\ runs' = [runs EXCEPT ![r] = Over]
    /\ UNCHANGED <<rows, submits, page, gets, failures, ghost>>

SkipMissing(r) ==
    /\ r \in Tools /\ runs[r].pc = "next" /\ browser # None
    /\ \E f \in runs[r].todo : ~Exists(f) /\ runs' = [runs EXCEPT ![r].todo = @ \ {f}]
    /\ UNCHANGED <<rows, browser, running, submits, page, gets, failures, ghost>>

End(r) ==
    /\ runs[r].pc = "next" /\ runs[r].todo = {}
    /\ running' = IF r \in Tools THEN running ELSE FALSE
    /\ runs' = [runs EXCEPT ![r] = Over]
    /\ UNCHANGED <<rows, browser, submits, page, gets, failures, ghost>>

-----------------------------------------------------------------------------
(* Automatic submission *)

Finish(s) == submits' = [submits EXCEPT ![s] = Over] /\ Refresh

CheckSubmit(s) ==
    /\ submits[s].pc = "posted"
    /\ IF status[submits[s].form] \in {"filled", "error"}
       THEN submits' = [submits EXCEPT ![s].pc = "checked"] /\ UNCHANGED gets
       ELSE Finish(s)
    /\ UNCHANGED <<rows, browser, running, runs, page, failures, ghost>>

OpenForm(s) ==
    /\ submits[s].pc = "checked"
    /\ IF browser = None
       THEN /\ browser' = s /\ submits' = [submits EXCEPT ![s].pc = "open"] /\ UNCHANGED gets
       ELSE UNCHANGED browser /\ Finish(s)
    /\ UNCHANGED <<rows, running, runs, page, failures, ghost>>

\* The form is filled and submitted, and confirms it in time or does not; or the
\* browser fails before.
SubmitForm(s) ==
    /\ submits[s].pc = "open"
    /\ browser' = None
    /\ \/ /\ real' = [real EXCEPT ![submits[s].form] = IF @ = 0 THEN 1 ELSE 2]
          /\ \/ submits' = [submits EXCEPT ![s].pc = "confirmed"] /\ UNCHANGED gets
             \/ Finish(s)
       \/ UNCHANGED real /\ Finish(s)
    /\ UNCHANGED <<rows, running, runs, page, failures, manual>>

\* Mutant: res["submitted"] is not looked at.
SubmittedOrNot(s) == submits[s].pc \in {"open", "confirmed"}

Confirmed(s) == submits[s].pc = "confirmed"

Record(s) ==
    /\ Confirmed(s)
    /\ status' = [status EXCEPT ![submits[s].form] = IF @ = "deleted" THEN @ ELSE "submitted"]
    /\ browser' = IF browser = s THEN None ELSE browser
    /\ Finish(s)
    /\ UNCHANGED <<archived, links, running, runs, page, failures, ghost>>

-----------------------------------------------------------------------------
RunStep(r) ==
    \/ Begin(r) \/ List(r) \/ Save(r) \/ Breaks(r) \/ SkipMissing(r) \/ End(r)
    \/ \E f \in Forms : Read(r, f)
SubmitStep(s) == CheckSubmit(s) \/ OpenForm(s) \/ SubmitForm(s) \/ Record(s)
GetStep(g)    == ServeForms(g) \/ Render(g)

Next ==
    \/ Poll
    \/ \E g \in Gets : GetStep(g) \/ RefreshFails(g)
    \/ \E r \in Runs : PressPrefill(r) \/ ServePrefill(r) \/ PrefillFails(r) \/ StartTool(r) \/ RunStep(r)
    \/ \E f \in Forms : PressMark(f) \/ Remove(f) \/ \E s \in Submits : PressSubmit(s, f)
    \/ \E s \in Submits : SubmitStep(s)

Spec == Init /\ [][Next]_vars

\* The timer ticks, requests are answered, the threads of the server go on.
FairSpec ==
    /\ Spec /\ WF_vars(Poll)
    /\ \A g \in Gets : WF_vars(GetStep(g))
    /\ \A r \in Runs : WF_vars(ServePrefill(r)) /\ WF_vars(RunStep(r))
    /\ \A s \in Submits : WF_vars(SubmitStep(s))

-----------------------------------------------------------------------------
(* Properties *)

\* A form the database calls submitted has been submitted, or the operator has said
\* so, whatever runs save in between (submit_form, save_form_fill).
SubmittedIsReal == \A f \in Forms : status[f] = "submitted" => real[f] > 0 \/ f \in manual

\* A run gives its flag back, also when a row it works on is deleted meanwhile
\* (_run_prefill).
FlagIsReleased == running ~> ~running

\* The page does not poll for ever: a timer is cleared once no run is active, in
\* whatever order refreshes are answered (refreshForms).
PollStops == poll ~> ~poll

\* "submit_form(id) operator-approved single submit.": no form is submitted twice.
\* Does not hold: see the README.
SingleSubmit == \A f \in Forms : real[f] < 2

\* "Operator submitted the form by hand in the browser; just record it as done.": the
\* record stays.
\* Does not hold: see the README.
DoneStaysDone == [][\A f \in Forms : status[f] = "submitted" => status'[f] \in {"submitted", "deleted"}]_vars

\* "Building pre-filled links - the cards will show 'Open pre-filled form' shortly."
\* Does not hold: see the README.
LinksAreShown == \A f \in Forms : f \in links ~> f \in seen
=============================================================================
