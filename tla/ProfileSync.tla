---------------------------- MODULE ProfileSync ----------------------------
(***************************************************************************)
(* Saving the profile, and what it does to forms under review: the handler  *)
(* of PATCH /api/v1/profile (src/app/saas_main.py) writes the row, reads    *)
(* the newest revisions of all forms of the user, so many and no more, and  *)
(* sends each form among them whose answers differ from the profile to      *)
(* refresh_application_form_profile_answers_for_user, with the approval,    *)
(* submission and capture of forms in between.  A profile is one fact,      *)
(* which every form asks for; `own' stands for the answers the user wrote.  *)
(***************************************************************************)
EXTENDS Naturals

CONSTANTS
    Saves,      \* bound: requests to save the profile, in all
    Apps,       \* applications with a form
    Facts,      \* what the profile can say
    MaxRev,     \* revisions of a form (50)
    Newest,     \* revisions that a save reads (50)
    MaxEdits,   \* bound: approvals of a form
    None

SyncAssumption ==
    /\ None \notin Facts /\ Facts # {}
    /\ {MaxRev, Newest} \subseteq Nat \ {0} /\ MaxEdits \in Nat

VARIABLES
    row,        \* the profile
    form,       \* form[a]: the newest revision
    later,      \* later[a]: the revisions of other forms made since, up to Newest
    op,         \* applications with a queued or running operation
    attempt,    \* attempt[a]: the submit attempt on the newest revision, if it counts
    saves,      \* requests to save
    panel,      \* panel[a]: the form as it is open for review
    edits,      \* ghost: edits[a]: what the user approved last
    sent,       \* ghost: sent[a]: the revision that was handed in
    muddled,    \* ghost: two saves were in flight at once
    fenced,     \* ghost: forms a save passed over for an operation or an attempt
    unread      \* ghost: forms the last save did not come to, with no revision since

ghost == <<edits, sent, muddled, fenced, unread>>
vars  == <<row, form, later, op, attempt, saves, panel, ghost>>

Answers == [fact : Facts \cup {None}, own : 0..MaxEdits]
Form    == [rev : 1..MaxRev, status : {"prefilled", "approved"}, answers : Answers]

Free == [pc |-> "free"]
Save == [pc : {"write", "read", "sync", "ok", "error"}, fact : Facts,
         snap : [Apps -> Form], todo : SUBSET Apps]

TypeOK ==
    /\ row \in Facts
    /\ form \in [Apps -> Form]
    /\ later \in [Apps -> 0..Newest]
    /\ op \subseteq Apps
    /\ attempt \in [Apps -> {"none", "failed", "lasting"}]
    /\ \A s \in Saves : saves[s] \in {Free} \cup Save
    /\ panel \in [Apps -> {Free} \cup [rev : 1..MaxRev, answers : Answers]]
    /\ edits \in [Apps -> 0..MaxEdits]
    /\ sent \in [Apps -> 0..MaxRev]
    /\ muddled \in BOOLEAN /\ fenced \subseteq Apps /\ unread \subseteq Apps

Captured == [rev |-> 1, status |-> "prefilled", answers |-> [fact |-> None, own |-> 0]]

\* Forms are captured one after the other, those of other applications among them.
Init ==
    /\ row \in Facts
    /\ form = [a \in Apps |-> Captured]
    /\ later \in [Apps -> 0..Newest]
    /\ \A a, b \in Apps : a # b /\ later[a] = later[b] => later[a] = Newest
    /\ op = {} /\ attempt = [a \in Apps |-> "none"]
    /\ saves = [s \in Saves |-> Free]
    /\ panel = [a \in Apps |-> Free]
    /\ edits = [a \in Apps |-> 0] /\ sent = [a \in Apps |-> 0]
    /\ muddled = FALSE /\ fenced = {} /\ unread = {}

\* A revision is made, of the form in `of' or of none that is modelled.
After(of) ==
    [a \in Apps |-> CASE a \in of         -> 0
                     [] later[a] = Newest -> Newest
                     [] OTHER             -> later[a] + 1]

-----------------------------------------------------------------------------
(* Saving. *)

PatchProfile(s, f) ==
    /\ saves[s] = Free
    /\ saves' = [saves EXCEPT ![s] = [pc |-> "write", fact |-> f, snap |-> form, todo |-> {}]]
    /\ muddled' = (muddled \/ \E o \in Saves : saves[o].pc \in {"write", "read", "sync"})
    /\ UNCHANGED <<row, form, later, op, attempt, panel, edits, sent, fenced, unread>>

WriteRow(s) ==
    /\ saves[s].pc = "write"
    /\ row' = saves[s].fact
    /\ saves' = [saves EXCEPT ![s].pc = "read"]
    /\ UNCHANGED <<form, later, op, attempt, panel, ghost>>

\* Mutant: in ascending order of time, the oldest revisions are read.
ReadsOldest(a) == later[a] = Newest

Reads(a) == later[a] < Newest

\* The profile is the row this request wrote; the forms are read now.
ReadForms(s) ==
    /\ saves[s].pc = "read"
    /\ saves' = [saves EXCEPT ![s].pc = "sync", ![s].snap = form,
          ![s].todo = {a \in Apps : Reads(a) /\ form[a].answers.fact # saves[s].fact}]
    /\ unread' = {a \in Apps : later[a] = Newest}
    /\ UNCHANGED <<row, form, later, op, attempt, panel, edits, sent, muddled, fenced>>

\* Mutant: a submit attempt on the revision is not looked for.
MayRefreshAnyway(a, s) ==
    /\ form[a].rev = saves[s].snap[a].rev
    /\ form[a].rev < MaxRev /\ a \notin op

\* Mutant: without the limit on revisions.
MayRefreshForever(a, s) ==
    /\ form[a].rev = saves[s].snap[a].rev
    /\ a \notin op /\ attempt[a] = "none"

\* What the database asks: the expected revision, still the newest, no operation
\* of the application and no attempt on the revision.
MayRefresh(a, s) ==
    /\ form[a].rev = saves[s].snap[a].rev
    /\ form[a].rev < MaxRev /\ a \notin op
    /\ attempt[a] = "none"

\* Mutant: the revision is refreshed in place.
MergedInPlace(a, s) == [form[a] EXCEPT !.answers.fact = saves[s].fact]

\* The answers are those of the snapshot, with the profile's laid over them.
Merged(a, s) ==
    [rev |-> form[a].rev + 1, status |-> "prefilled",
     answers |-> [saves[s].snap[a].answers EXCEPT !.fact = saves[s].fact]]

Differs(a, s) ==
    form[a].answers # [saves[s].snap[a].answers EXCEPT !.fact = saves[s].fact]

SyncOne(s, a) ==
    /\ saves[s].pc = "sync" /\ a \in saves[s].todo
    /\ IF MayRefresh(a, s) /\ Differs(a, s)
       THEN /\ form' = [form EXCEPT ![a] = Merged(a, s)]
            /\ later' = After({a}) /\ unread' = unread \ {a}
       ELSE UNCHANGED <<form, later, unread>>
    /\ saves' = [saves EXCEPT ![s].todo = @ \ {a}]
    /\ fenced' = IF a \in op \/ attempt[a] # "none" \/ form[a].rev = MaxRev
                 THEN fenced \cup {a} ELSE fenced
    /\ UNCHANGED <<row, op, attempt, panel, edits, sent, muddled>>

\* A form that cannot be refreshed makes the request fail, the row being written.
SyncFails(s) ==
    /\ saves[s].pc = "sync" /\ saves[s].todo # {}
    /\ saves' = [saves EXCEPT ![s].pc = "error", ![s].todo = {}]
    /\ UNCHANGED <<row, form, later, op, attempt, panel, ghost>>

Saved(s) ==
    /\ saves[s].pc = "sync" /\ saves[s].todo = {}
    /\ saves' = [saves EXCEPT ![s].pc = "ok"]
    /\ UNCHANGED <<row, form, later, op, attempt, panel, ghost>>

-----------------------------------------------------------------------------
(* Review, submission and capture of the same forms. *)

\* The page shows the answers as they are stored.
OpenForm(a) ==
    /\ panel' = [panel EXCEPT ![a] = [rev |-> form[a].rev, answers |-> form[a].answers]]
    /\ UNCHANGED <<row, form, later, op, attempt, saves, ghost>>

\* Suggestions lay the profile over what is shown; a sealed revision gets none.
Suggest(a) ==
    /\ panel[a] # Free
    /\ ~ (panel[a].rev = form[a].rev /\ form[a].status = "approved")
    /\ panel' = [panel EXCEPT ![a].answers.fact = row]
    /\ UNCHANGED <<row, form, later, op, attempt, saves, ghost>>

\* Mutant: an approval need not be of the newest revision.
AnyRevision(a) == panel[a] # Free

NewestRevision(a) == panel[a] # Free /\ panel[a].rev = form[a].rev

Approve(a) ==
    /\ NewestRevision(a)
    /\ form[a].status = "prefilled" /\ edits[a] < MaxEdits
    /\ edits' = [edits EXCEPT ![a] = @ + 1]
    /\ form' = [form EXCEPT ![a].status = "approved",
                            ![a].answers = [fact |-> panel[a].answers.fact, own |-> edits[a] + 1]]
    /\ UNCHANGED <<row, later, op, attempt, saves, panel, sent, muddled, fenced, unread>>

EnqueueSubmit(a) ==
    /\ form[a].status = "approved" /\ a \notin op /\ attempt[a] = "none"
    /\ op' = op \cup {a} /\ attempt' = [attempt EXCEPT ![a] = "lasting"]
    /\ sent' = [sent EXCEPT ![a] = form[a].rev]
    /\ UNCHANGED <<row, form, later, saves, panel, edits, muddled, fenced, unread>>

\* Confirmed and uncertain attempts last, a failed one counts until the next
\* capture, and one that was "not_attempted" does not count.
SubmitEnds(a) ==
    /\ a \in op /\ attempt[a] = "lasting"
    /\ op' = op \ {a}
    /\ \/ UNCHANGED <<attempt, sent>>
       \/ attempt' = [attempt EXCEPT ![a] = "failed"] /\ UNCHANGED sent
       \/ attempt' = [attempt EXCEPT ![a] = "none"] /\ sent' = [sent EXCEPT ![a] = 0]
    /\ UNCHANGED <<row, form, later, saves, panel, edits, muddled, fenced, unread>>

EnqueueScan(a) ==
    /\ a \notin op /\ attempt[a] # "lasting"
    /\ op' = op \cup {a}
    /\ UNCHANGED <<row, form, later, attempt, saves, panel, ghost>>

\* A capture starts the form over.
ScanEnds(a) ==
    /\ a \in op /\ attempt[a] # "lasting"
    /\ op' = op \ {a}
    /\ IF form[a].rev < MaxRev
       THEN /\ form' = [form EXCEPT ![a] = [Captured EXCEPT !.rev = form[a].rev + 1]]
            /\ edits' = [edits EXCEPT ![a] = 0]
            /\ attempt' = [attempt EXCEPT ![a] = "none"] /\ sent' = [sent EXCEPT ![a] = 0]
            /\ later' = After({a}) /\ unread' = unread \ {a}
       ELSE UNCHANGED <<form, later, edits, attempt, sent, unread>>
    /\ UNCHANGED <<row, saves, panel, muddled, fenced>>

\* The form of another application is captured, or refreshed.
ScanElsewhere ==
    /\ later' = After({})
    /\ UNCHANGED <<row, form, op, attempt, saves, panel, ghost>>

-----------------------------------------------------------------------------

Next ==
    \/ \E s \in Saves : \/ \E f \in Facts : PatchProfile(s, f)
                        \/ WriteRow(s) \/ ReadForms(s) \/ SyncFails(s) \/ Saved(s)
                        \/ \E a \in Apps : SyncOne(s, a)
    \/ \E a \in Apps : OpenForm(a) \/ Suggest(a) \/ Approve(a) \/ EnqueueSubmit(a) \/ SubmitEnds(a)
                       \/ EnqueueScan(a) \/ ScanEnds(a)
    \/ ScanElsewhere

Spec == Init /\ [][Next]_vars

-----------------------------------------------------------------------------
(* Properties. *)

\* The revision that was handed in, with an active, confirmed, failed or
\* uncertain attempt, stays the newest one, whatever save had read the form
\* before (refresh_application_form_profile_answers_for_user).
AttemptStays == \A a \in Apps : attempt[a] # "none" => sent[a] = form[a].rev /\ form[a].status = "approved"

\* No approval is carried over to answers that were not approved: an approved
\* form holds what the user last approved, profile facts included.
ApprovalIsOfAnswers ==
    [][\A a \in Apps :
         (form[a].status = "approved" /\ form'[a].status = "approved")
            => form'[a].answers = form[a].answers]_vars

UpToDate(a) == form[a].status = "approved" => form[a].answers.fact \in {None, row}

AllSaved == \A s \in Saves : saves[s] = Free \/ saves[s].pc = "ok"

\* Saves in turn, none of which failed, leave no form approved with a fact that the
\* profile had before: those excepted that an operation or an attempt kept from them,
\* and those that lay behind the newest revisions when the last save read these (the
\* refresh after every save, its limit, and the fence around the newest revision).
FormsFollowSave == AllSaved /\ ~ muddled => \A a \in Apps \ (fenced \cup unread) : UpToDate(a)

\* "... silently swallowing them would make the Profile look saved while prepared
\* forms stay stale": the same of all forms, however many revisions there are.
\* Does not hold: see the README.
EveryFormFollows == AllSaved /\ ~ muddled => \A a \in Apps \ fenced : UpToDate(a)

\* The same of saves that overlap, for the forms that they come to.
\* Does not hold: see the README.
SavedMeansFresh == AllSaved => \A a \in Apps \ (fenced \cup unread) : UpToDate(a)

\* "Carry newly saved deterministic Profile facts into prepared application forms
\* without weakening immutable review/approval": what the user approved is not lost
\* to a refresh that had read the form before.
\* Does not hold: see the README.
ApprovedEditsStay == \A a \in Apps : form[a].answers.own = edits[a]

=============================================================================
