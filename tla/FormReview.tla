----------------------------- MODULE FormReview -----------------------------
(***************************************************************************)
(* The review of captured forms in FormPilotView                            *)
(* (src/frontend/app/page.tsx): the user opens the revisions of an          *)
(* application, has answers suggested, edits them and approves a revision.  *)
(* Each of these is a request of its own, several may be under way in one   *)
(* tab, and every answer that lands changes the one review panel.           *)
(* A revision is a pair of an application and a number.                     *)
(***************************************************************************)
EXTENDS Naturals

CONSTANTS
    Tabs, Apps,
    Texts,      \* what the user and the model write into the answers
    None,
    Slots,      \* bound: requests at a time
    MaxRev      \* bound: revisions of an application

VARIABLES
    scans,      \* scans[a]: scans of a that a worker has still to run
    latest,     \* latest[a]: revisions of a so far
    sealed,     \* sealed[r]: the answers revision r was approved with
    selected,   \* selected[t]: selectedApplication
    panel,      \* panel[t]: the newest revision that is shown
    answers,    \* answers[t]: the answers on the screen
    calls,      \* calls[s]: the requests
    told        \* ghost: the approvals a page has been told of

vars == <<scans, latest, sealed, selected, panel, answers, calls, told>>
server == <<scans, latest, sealed>>
screen == <<selected, panel, answers>>

Revs    == Apps \X (1..MaxRev)
App(r)  == r[1]
\* from: the revisions the answers were captured from or suggested for.
Answers == [from : SUBSET Revs, text : Texts \cup {None}]

\* What is not there is no answers.
ReviewAssumption == MaxRev \in Nat /\ Texts # {} /\ None \notin Answers

Blank   == [from |-> {}, text |-> None]
Captured(r) == [from |-> {r}, text |-> None]

Free  == [kind |-> "free"]
Reply == {"", "ok", "refused"}
Call  == [kind : {"open", "suggest", "approve"}, tab : Tabs, app : Apps, rev : Revs \cup {None},
          answers : Answers, reply : Reply]

TypeOK ==
    /\ scans \in [Apps -> 0..MaxRev]
    /\ latest \in [Apps -> 0..MaxRev]
    /\ sealed \in [Revs -> Answers \cup {None}]
    /\ selected \in [Tabs -> Apps \cup {None}]
    /\ panel \in [Tabs -> Revs \cup {None}]
    /\ \A t \in Tabs : panel[t] # None => panel[t][2] <= latest[App(panel[t])]
    /\ answers \in [Tabs -> Answers]
    /\ \A s \in Slots : calls[s] = Free \/ calls[s] \in Call
    /\ told \in SUBSET (Revs \X Answers)

Init ==
    /\ scans    = [a \in Apps |-> 0]
    /\ latest   = [a \in Apps |-> 0]
    /\ sealed   = [r \in Revs |-> None]
    /\ selected = [t \in Tabs |-> None]
    /\ panel    = [t \in Tabs |-> None]
    /\ answers  = [t \in Tabs |-> Blank]
    /\ calls    = [s \in Slots |-> Free]
    /\ told     = {}

Stored(r) == IF sealed[r] = None THEN Captured(r) ELSE sealed[r]

-----------------------------------------------------------------------------
(* Requests of a tab *)

Ask(kind, t, a, r) ==
    \E s \in Slots :
        /\ calls[s] = Free
        /\ calls' = [calls EXCEPT ![s] = [kind |-> kind, tab |-> t, app |-> a, rev |-> r,
                                          answers |-> answers[t], reply |-> ""]]

\* scan and addForm; it is queued once it is answered.
Scan(a) ==
    /\ scans[a] + latest[a] < MaxRev
    /\ scans' = [scans EXCEPT ![a] = @ + 1]
    /\ UNCHANGED <<latest, sealed, screen, calls, told>>

\* openReview: the heading changes at once, the revisions when the answer is in.
OpenReview(t, a) ==
    /\ selected' = [selected EXCEPT ![t] = a]
    /\ Ask("open", t, a, None)
    /\ UNCHANGED <<server, panel, answers, told>>

Close(t) ==
    /\ selected[t] # None
    /\ selected' = [selected EXCEPT ![t] = None]
    /\ panel' = [panel EXCEPT ![t] = None]
    /\ UNCHANGED <<server, answers, calls, told>>

Edit(t, x) ==
    /\ panel[t] # None
    /\ answers' = [answers EXCEPT ![t].text = x]
    /\ UNCHANGED <<server, selected, panel, calls, told>>

Suggest(t) ==
    /\ panel[t] # None
    /\ Ask("suggest", t, App(panel[t]), panel[t])
    /\ UNCHANGED <<server, screen, told>>

Approve(t) ==
    /\ panel[t] # None
    /\ Ask("approve", t, App(panel[t]), panel[t])
    /\ UNCHANGED <<server, screen, told>>

-----------------------------------------------------------------------------
(* The server *)

\* A worker has captured a form, or a saved profile has made a new revision of it.
Scanned(a) ==
    /\ scans[a] > 0
    /\ scans' = [scans EXCEPT ![a] = @ - 1]
    /\ latest' = [latest EXCEPT ![a] = @ + 1]
    /\ UNCHANGED <<sealed, screen, calls, told>>

Arrived(s, kind) == calls[s] # Free /\ calls[s].kind = kind /\ calls[s].reply = ""
Answer(s, reply) == calls' = [calls EXCEPT ![s].reply = reply]

\* Mutant: revisions are counted from the scans that were asked for.
NewestAsked(a) == IF latest[a] + scans[a] = 0 THEN None ELSE <<a, latest[a] + scans[a]>>

Newest(a) == IF latest[a] = 0 THEN None ELSE <<a, latest[a]>>

ServeOpen(s) ==
    LET r == Newest(calls[s].app)
    IN  /\ Arrived(s, "open")
        /\ calls' = [calls EXCEPT ![s].reply = "ok", ![s].rev = r,
                                  ![s].answers = IF r = None THEN Blank ELSE Stored(r)]
        /\ UNCHANGED <<server, screen, told>>

\* A sealed revision gets no suggestions.
ServeSuggest(s) ==
    /\ Arrived(s, "suggest")
    /\ \/ /\ sealed[calls[s].rev] = None
          /\ \E x \in Texts :
                calls' = [calls EXCEPT ![s].reply = "ok",
                             ![s].answers = [from |-> {calls[s].rev}, text |-> x]]
       \/ Answer(s, "refused")
    /\ UNCHANGED <<server, screen, told>>

\* Mutant: any approval of a sealed revision is taken for a retry.
AnyRetry(s) == TRUE

IdenticalRetry(s) == sealed[calls[s].rev] = calls[s].answers

\* approve_application_form_revision: the newest revision, and only once.
ServeApprove(s) ==
    LET r == calls[s].rev IN
    /\ Arrived(s, "approve")
    /\ \/ /\ r[2] = latest[App(r)] /\ sealed[r] = None
          /\ sealed' = [sealed EXCEPT ![r] = calls[s].answers]
          /\ Answer(s, "ok")
       \/ /\ r[2] = latest[App(r)] /\ sealed[r] # None /\ IdenticalRetry(s)
          /\ Answer(s, "ok")
          /\ UNCHANGED sealed
       \/ Answer(s, "refused") /\ UNCHANGED sealed
    /\ UNCHANGED <<scans, latest, screen, told>>

-----------------------------------------------------------------------------
(* Answers land *)

Landing(s, kind) == calls[s] # Free /\ calls[s].kind = kind /\ calls[s].reply = "ok"

\* Whatever application is selected by now.
OpenLands(s) ==
    /\ Landing(s, "open")
    /\ panel' = [panel EXCEPT ![calls[s].tab] = calls[s].rev]
    /\ answers' = [answers EXCEPT ![calls[s].tab] = calls[s].answers]
    /\ calls' = [calls EXCEPT ![s] = Free]
    /\ UNCHANGED <<server, selected, told>>

\* Suggestions are merged into the answers on the screen, whatever they are for.
SuggestionsLand(s) ==
    /\ Landing(s, "suggest")
    /\ answers' = [answers EXCEPT ![calls[s].tab] =
          [from |-> @.from \cup calls[s].answers.from, text |-> calls[s].answers.text]]
    /\ calls' = [calls EXCEPT ![s] = Free]
    /\ UNCHANGED <<server, selected, panel, told>>

\* "Answers approved.", and the selected application is opened again.
ApprovalLands(s) ==
    /\ Landing(s, "approve")
    /\ told' = told \cup {<<calls[s].rev, calls[s].answers>>}
    /\ LET a == selected[calls[s].tab] IN
       calls' = [calls EXCEPT ![s] =
                    IF a = None THEN Free
                    ELSE [kind |-> "open", tab |-> @.tab, app |-> a, rev |-> None,
                          answers |-> Blank, reply |-> ""]]
    /\ UNCHANGED <<server, screen>>

\* A refusal, or an answer that never comes: only a message, and the request may
\* still have had its effect.
Fails(s) ==
    /\ calls[s] # Free /\ calls[s].reply # ""
    /\ calls' = [calls EXCEPT ![s] = Free]
    /\ UNCHANGED <<server, screen, told>>

Next ==
    \/ \E a \in Apps : Scan(a) \/ Scanned(a)
    \/ \E t \in Tabs : \/ \E a \in Apps : OpenReview(t, a)
                       \/ \E x \in Texts : Edit(t, x)
                       \/ Close(t) \/ Suggest(t) \/ Approve(t)
    \/ \E s \in Slots : \/ ServeOpen(s) \/ ServeSuggest(s) \/ ServeApprove(s)
                        \/ OpenLands(s) \/ SuggestionsLand(s) \/ ApprovalLands(s) \/ Fails(s)

Spec == Init /\ [][Next]_vars

-----------------------------------------------------------------------------
(* Properties *)

\* A page that was told its answers are approved was told the truth: the revision
\* is sealed with exactly the answers it had sent, whatever other tabs approve and
\* however often an approval is repeated (approve, approve_application_form_revision).
ToldMeansSealed == \A x \in told : sealed[x[1]] = x[2]

\* "Answers are editable until you approve this exact revision.": a revision is not
\* approved with answers of another one.
\* Does not hold: see the README.
AnswersOfThisRevision == \A r \in Revs : sealed[r] # None => sealed[r].from \subseteq {r}
=============================================================================
