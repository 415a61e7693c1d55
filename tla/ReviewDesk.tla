----------------------------- MODULE ReviewDesk -----------------------------
(***************************************************************************)
(* The review desk of the single-page frontend (ApplicationsView and the   *)
(* draft button of JobsView in src/frontend/app/page.tsx): tabs that show  *)
(* copies of application rows, edit them, approve them and queue them,     *)
(* over requests that are answered late, answered to nobody or lost, and   *)
(* the API behind them.  The content of a message is its recipient and a   *)
(* text, the subject and body together.                                    *)
(***************************************************************************)
EXTENDS Naturals, FiniteSets

CONSTANTS
    Applications,
    Tabs,
    Gone,           \* the tab of a request nobody waits for
    NoDraft,        \* no application is selected
    None,           \* no value
    NoRecipient,    \* the recipient of a draft is empty
    JobContact,     \* contact_email of the application's job
    Texts,
    MaxRequests,    \* bound: requests under way at a time
    MaxRevision,    \* bound: content revisions of an application
    MaxApprovals    \* bound: approvals of an application

DeskAssumption ==
    /\ Gone \notin Tabs /\ None \notin Texts
    /\ NoRecipient # JobContact
    /\ {MaxRequests, MaxRevision, MaxApprovals} \subseteq Nat \ {0}

VARIABLES
    row,        \* row[a]: the row of public.applications
    approvals,  \* approvals[a]: how often a was approved
    sends,      \* sends[a]: how many send_email rows a was given
    ratified,   \* ratified[a]: what the tab of the last approval had received and showed
    list,       \* list[t][a]: the copy of the row tab t keeps
    draft,      \* draft[t]: the selected application and the content on the screen
    req         \* req[i]: the request in slot i

server == <<row, approvals, sends, ratified>>
tabs   == <<list, draft>>
vars   == <<server, tabs, req>>

Contents == [to : {NoRecipient, JobContact}, text : Texts]
Statuses == {"drafted", "approved", "queued", "sent", "failed"}
Row      == [status : Statuses, revision : 1..MaxRevision, content : Contents,
             approved : 0..MaxRevision]
Draft    == [app : Applications, text : Texts]
Slots    == 1..MaxRequests
Saves     == {"save", "save and approve"}
Approvals == {"approve", "save and approve"}
Idle     == [stage |-> "idle"]
Request  == [stage : {"sent", "drafting", "answered", "refused"}, tab : Tabs \cup {Gone},
             kind : {"save", "save and approve", "approve", "send", "list", "draft"},
             app : Applications,
             base : Row \cup {None}, text : Texts \cup {None}, \* copy and editor at the click
             rows : [Applications -> Row] \cup {None}]          \* the answer

TypeOK ==
    /\ row       \in [Applications -> Row]
    /\ approvals \in [Applications -> 0..MaxApprovals]
    /\ sends     \in [Applications -> Nat]
    /\ ratified  \in [Applications -> [base : Contents, screen : Texts]]
    /\ list      \in [Tabs -> [Applications -> Row]]
    /\ draft     \in [Tabs -> Draft \cup {NoDraft}]
    /\ req       \in [Slots -> Request \cup {Idle}]

Init ==
    /\ row \in [Applications -> {r \in Row : r.status = "drafted" /\ r.revision = 1
                                             /\ r.approved = 0}]
    /\ approvals = [a \in Applications |-> 0]
    /\ sends     = [a \in Applications |-> 0]
    /\ ratified  = [a \in Applications |->
                      [base |-> row[a].content, screen |-> row[a].content.text]]
    /\ list  = [t \in Tabs |-> row]
    /\ draft = [t \in Tabs |-> NoDraft]
    /\ req   = [i \in Slots |-> Idle]

-----------------------------------------------------------------------------
(* A tab *)

\* The effect on [applications, selectedId]: the editor starts over from the
\* copy, whatever was typed.  A missing recipient is filled with the contact of
\* the job, on the screen only; no other recipient is typed here.
Redrawn(t, copies) ==
    IF draft[t] = NoDraft THEN NoDraft
    ELSE [draft[t] EXCEPT !.text = copies[draft[t].app].content.text]

OnScreen(x) == [to |-> JobContact, text |-> x]

Copy(t) == list[t][draft[t].app]

Select(t, a) ==
    /\ draft' = [draft EXCEPT ![t] = [app |-> a, text |-> list[t][a].content.text]]
    /\ UNCHANGED <<server, list, req>>

Type(t, x) ==
    /\ draft[t] # NoDraft
    /\ draft' = [draft EXCEPT ![t].text = x]
    /\ UNCHANGED <<server, list, req>>

FreeSlot(i) == req[i] = Idle /\ \A k \in 1..(i - 1) : req[k] # Idle

\* A request carries what the closure of the click saw.  A button is disabled
\* while busy is its own key, but busy is one string for all of them, and any
\* other click or answer overwrites it: every button can be pressed at any time.
Clicks(t, kind) ==
    /\ draft[t] # NoDraft
    /\ \E i \in Slots :
          /\ FreeSlot(i)
          /\ req' = [req EXCEPT ![i] =
                [stage |-> "sent", tab |-> t, kind |-> kind, app |-> draft[t].app,
                 base |-> IF kind \in Approvals THEN Copy(t) ELSE None,
                 text |-> IF kind \in Approvals \cup Saves THEN draft[t].text ELSE None,
                 rows |-> None]]
    /\ UNCHANGED <<server, tabs>>

Save(t) == Clicks(t, "save")

\* The draft is saved first only when its recipient is not the stored one.
ClickApprove(t) ==
    /\ draft[t] # NoDraft
    /\ Copy(t).status # "approved"
    /\ Clicks(t, IF Copy(t).content.to = JobContact THEN "approve" ELSE "save and approve")

ClickSend(t) ==
    /\ draft[t] # NoDraft
    /\ Copy(t).status = "approved"
    /\ Clicks(t, "send")

Refresh(t) == Clicks(t, "list")

\* "Draft with Groq" on the job of the selected application.
ClickDraft(t) == Clicks(t, "draft")

-----------------------------------------------------------------------------
(* The API *)

\* The page reads row.revision, and the rows of the API have content_revision:
\* the default of numberValue is what is sent.
ExpectedRevision(r) == 1

\* Nobody hears the answer to a request whose tab gave up.
Answers(i, stage) ==
    req' = [req EXCEPT ![i] = IF @.tab = Gone THEN Idle
                              ELSE [@ EXCEPT !.stage = stage,
                                             !.rows = IF stage = "answered" THEN row'
                                                      ELSE req[i].rows]]

\* Mutant: the API and the trigger both count the change.
RewrittenTwice(r, c) ==
    [status |-> "drafted", revision |-> r.revision + 2, content |-> c, approved |-> 0]

\* The stored content changes, and the approval of the old one is gone.
Rewritten(r, c) ==
    [status |-> "drafted", revision |-> r.revision + 1, content |-> c, approved |-> 0]

\* PATCH /applications/{id}, and its compare-and-swap, are one step.
ServeSave(i) ==
    LET r == row[req[i].app]
    IN IF r.status \in {"queued", "sent"}
       THEN UNCHANGED server /\ Answers(i, "refused")
       ELSE /\ r.revision < MaxRevision
            /\ row' = [row EXCEPT ![req[i].app] = Rewritten(r, OnScreen(req[i].text))]
            /\ Answers(i, "answered")
            /\ UNCHANGED <<approvals, sends, ratified>>

\* Mutant: the revision the user reviewed is not compared.
ApprovableUnseen(r, expected) ==
    /\ r.status \in {"drafted", "failed", "approved"}
    /\ r.content.to # NoRecipient

\* approve_application_revision.
Approvable(r, expected) ==
    /\ r.revision = expected
    /\ r.status \in {"drafted", "failed", "approved"}
    /\ r.content.to # NoRecipient

ServeApprove(i) ==
    LET a == req[i].app
    IN IF ~Approvable(row[a], ExpectedRevision(req[i].base))
       THEN UNCHANGED server /\ Answers(i, "refused")
       ELSE /\ approvals[a] < MaxApprovals
            /\ approvals' = [approvals EXCEPT ![a] = @ + 1]
            /\ row' = [row EXCEPT ![a].status = "approved", ![a].approved = row[a].revision]
            /\ ratified' = [ratified EXCEPT ![a] = [base   |-> req[i].base.content,
                                                    screen |-> req[i].text]]
            /\ Answers(i, "answered")
            /\ UNCHANGED sends

\* Mutant: a failed send may be queued again as it was.
SendableAgain(r) == r.status \in {"approved", "failed"} /\ r.approved = r.revision

\* enqueue_email_send: whatever revision is approved now.  Each click brings an
\* idempotency key of its own.
Sendable(r) == r.status = "approved" /\ r.approved = r.revision

ServeSend(i) ==
    LET a == req[i].app
    IN \/ /\ Sendable(row[a])
          /\ row'   = [row EXCEPT ![a].status = "queued"]
          /\ sends' = [sends EXCEPT ![a] = @ + 1]
          /\ Answers(i, "answered")
          /\ UNCHANGED <<approvals, ratified>>
       \/ UNCHANGED server /\ Answers(i, "refused")   \* also for a cap or a missing connection

ServeList(i) == UNCHANGED server /\ Answers(i, "answered")

\* POST /jobs/{id}/draft looks for a drafted application after the model has
\* answered (without one it adds a new application) ...
FindDrafted(i) ==
    /\ row[req[i].app].status = "drafted"
    /\ req' = [req EXCEPT ![i].stage = "drafting"]
    /\ UNCHANGED server

NothingDrafted(i) ==
    /\ row[req[i].app].status # "drafted"
    /\ UNCHANGED server /\ Answers(i, "answered")

\* Mutant: guard_application_content_revision lets every status through.
ContentLockedNever(r) == FALSE

\* guard_application_content_revision.
ContentLocked(r) == r.status \in {"queued", "sent"}

\* ... and writes it by its id, whatever has become of it.
WriteDraft(i) ==
    LET r == row[req[i].app]
    IN IF ContentLocked(r)
       THEN UNCHANGED server /\ Answers(i, "refused")
       ELSE /\ r.revision < MaxRevision
            /\ \E x \in Texts :
                  /\ x # r.content.text
                  /\ row' = [row EXCEPT ![req[i].app] =
                                Rewritten(r, OnScreen(x))]
            /\ Answers(i, "answered")
            /\ UNCHANGED <<approvals, sends, ratified>>

Serve(i) ==
    /\ \/ /\ req[i].stage = "sent"
          /\ \/ req[i].kind \in Saves      /\ ServeSave(i)
             \/ req[i].kind = "approve" /\ ServeApprove(i)
             \/ req[i].kind = "send"    /\ ServeSend(i)
             \/ req[i].kind = "list"    /\ ServeList(i)
             \/ req[i].kind = "draft"   /\ (FindDrafted(i) \/ NothingDrafted(i))
       \/ req[i].stage = "drafting" /\ WriteDraft(i)
    /\ UNCHANGED tabs

\* The worker ends the send.
SendEnds(a, outcome) ==
    /\ row[a].status = "queued"
    /\ row' = [row EXCEPT ![a].status = outcome]
    /\ UNCHANGED <<approvals, sends, ratified, tabs, req>>

-----------------------------------------------------------------------------
(* What the tab does with an answer *)

Receives(t, copies) ==
    /\ list'  = [list EXCEPT ![t] = copies]
    /\ draft' = [draft EXCEPT ![t] = Redrawn(t, copies)]

\* A saved or approved row replaces its copy, and a saved one may be approved
\* next; after a send or a new draft everything is read again.
Land(i) ==
    LET r == req[i]
        t == r.tab
    IN /\ \/ /\ r.stage = "refused"
             /\ req' = [req EXCEPT ![i] = Idle]
             /\ UNCHANGED <<list, draft>>
          \/ /\ r.stage = "answered" /\ r.kind \in {"save", "approve"}
             /\ Receives(t, [list[t] EXCEPT ![r.app] = r.rows[r.app]])
             /\ req' = [req EXCEPT ![i] = Idle]
          \/ /\ r.stage = "answered" /\ r.kind = "save and approve"
             /\ Receives(t, [list[t] EXCEPT ![r.app] = r.rows[r.app]])
             /\ req' = [req EXCEPT ![i].stage = "sent", ![i].kind = "approve",
                                   ![i].base = r.rows[r.app], ![i].rows = None]
          \/ /\ r.stage = "answered" /\ r.kind \in {"send", "draft"}
             /\ req' = [req EXCEPT ![i].stage = "sent", ![i].kind = "list", ![i].rows = None]
             /\ UNCHANGED tabs
          \/ /\ r.stage = "answered" /\ r.kind = "list"
             /\ Receives(t, r.rows)
             /\ req' = [req EXCEPT ![i] = Idle]
       /\ UNCHANGED server

\* The fetch rejects; a request that would change something may still arrive.
Fails(i) ==
    /\ req[i] # Idle
    /\ req[i].tab # Gone
    /\ req' = [req EXCEPT ![i] =
                IF @.kind = "list" \/ @.stage \in {"answered", "refused"} THEN Idle
                ELSE [@ EXCEPT !.tab = Gone]]
   
    /\ UNCHANGED <<server, list, draft>>

NeverArrives(i) ==
    /\ req[i].stage = "sent"
    /\ req[i].tab = Gone
    /\ req' = [req EXCEPT ![i] = Idle]
    /\ UNCHANGED <<server, tabs>>

Next ==
    \/ \E t \in Tabs :
        \/ \E a \in Applications : Select(t, a)
        \/ \E x \in Texts : Type(t, x)
        \/ Save(t) \/ ClickApprove(t) \/ ClickSend(t) \/ Refresh(t) \/ ClickDraft(t)
    \/ \E i \in Slots : Serve(i) \/ Land(i) \/ Fails(i) \/ NeverArrives(i)
    \/ \E a \in Applications : SendEnds(a, "sent") \/ SendEnds(a, "failed")

Spec == Init /\ [][Next]_vars

-----------------------------------------------------------------------------
(* Properties *)

Reviewed(a) == row[a].status \in {"approved", "queued", "sent"}

\* Stale copies, several tabs, late and repeated requests and the draft button
\* never get a content approved, queued or sent that the tab which approved it
\* had not received from the API (approve in ApplicationsView).
ApprovedWasReceived ==
    \A a \in Applications : Reviewed(a) => ratified[a].base = row[a].content

\* "Approve exact draft": what is approved is what the editor showed.
\* Does not hold: see the README.
ApprovedIsOnScreen ==
    \A a \in Applications : Reviewed(a) => ratified[a].screen = row[a].content.text

\* Double clicks, retries after a lost answer and two tabs, each click with a
\* new idempotency key, queue an approved message once: a second send takes a
\* second approval (send in ApplicationsView, enqueue_email_send).
OneSendPerApproval == \A a \in Applications : sends[a] <= approvals[a]

\* Nothing rewrites or takes back a message between its queueing and the end of
\* its send, and nothing revives one that was sent: not a save that was under
\* way, and not the draft button, which writes by id after an await what it read
\* as drafted before (draft_job_application).
QueuedIsLeftAlone ==
    [][\A a \in Applications :
          /\ row[a].status = "queued" =>
                /\ row'[a].status \in {"queued", "sent", "failed"}
                /\ row'[a].content = row[a].content
          /\ row[a].status = "sent" => row'[a] = row[a]]_vars

\* "The draft changed; refresh and review it again." is said only of a draft
\* that changed after the tab received it.
\* Does not hold: see the README.
RefusedOnlyIfChanged ==
    [][\A i \in Slots :
          (/\ req[i].stage = "sent" /\ req[i].kind = "approve"
           /\ req'[i].stage = "refused")
          => req[i].base # row[req[i].app]]_vars
=============================================================================
