------------------------------ MODULE DraftRun ------------------------------
(***************************************************************************)
(* createDrafts of OutreachView (src/frontend/app/page.tsx): for each       *)
(* selected job in turn the page stores the chosen address in the job and   *)
(* asks the API for a draft (draft_job_application in                       *)
(* src/app/saas_main.py), whatever happened to the jobs before.  A request  *)
(* outlives the page that gave it up, tabs run side by side, and a role may *)
(* be archived meanwhile (JobsView).                                        *)
(***************************************************************************)
EXTENDS Naturals, Sequences

CONSTANTS
    Tabs, Jobs, Addresses,
    Nobody,     \* the owner of a request whose page has given it up
    Slots,      \* draft requests that run on the server at a time
    MaxRows,    \* bound: applications of one job
    MaxClicks   \* bound: clicks of a tab

DraftAssumption == Nobody \notin Tabs /\ MaxRows \in Nat /\ MaxClicks \in Nat

VARIABLES
    contact,    \* contact[j]: jobs.contact_email
    status,     \* status[j]: jobs.status
    rows,       \* rows[j]: the e-mail applications of job j
    picked,     \* picked[t][j]: the address tab t shows for job j
    run,        \* run[t]: the loop of tab t
    calls,      \* calls[s]: the draft requests
    wanted      \* ghost, wanted[t]: the addresses t showed when its run was started

vars == <<contact, status, rows, picked, run, calls, wanted>>
server == <<contact, status, rows>>

AppRow == [recipient : Addresses, wanted : Addresses, status : {"drafted", "reviewed"}]
Free   == [step |-> "free", tab |-> Nobody]
Call   == [step : {"sent", "generating", "looked", "written", "answered", "refused"},
           tab : Tabs \cup {Nobody}, job : Jobs, recipient : Addresses,
           wanted : Addresses, found : 0..MaxRows]
Run    == [at : {"idle", "patch", "draft"}, job : Jobs, todo : SUBSET Jobs,
           to : [Jobs -> Addresses], made : SUBSET Jobs, failed : SUBSET Jobs,
           chosen : SUBSET Jobs, clicks : 0..MaxClicks]

TypeOK ==
    /\ contact \in [Jobs -> Addresses]
    /\ status  \in [Jobs -> {"saved", "drafting", "ready", "archived"}]
    /\ DOMAIN rows = Jobs
    /\ \A j \in Jobs : Len(rows[j]) <= MaxRows /\ \A i \in DOMAIN rows[j] : rows[j][i] \in AppRow
    /\ picked  \in [Tabs -> [Jobs -> Addresses]]
    /\ run     \in [Tabs -> Run]
    /\ calls   \in [Slots -> {Free} \cup Call]
    /\ wanted  \in [Tabs -> [Jobs -> Addresses]]
    /\ \A t \in Tabs : run[t].at = "draft" => \E s \in Slots : calls[s].tab = t

Init ==
    \E a \in Addresses, j \in Jobs :
        /\ contact = [k \in Jobs |-> a]
        /\ status  = [k \in Jobs |-> "saved"]
        /\ rows    = [k \in Jobs |-> <<>>]
        /\ picked  = [t \in Tabs |-> contact]
        /\ run     = [t \in Tabs |-> [at |-> "idle", job |-> j, todo |-> {}, to |-> contact,
                                      made |-> {}, failed |-> {}, chosen |-> {}, clicks |-> 0]]
        /\ calls   = [s \in Slots |-> Free]
        /\ wanted  = [t \in Tabs |-> contact]

-----------------------------------------------------------------------------
(* The page *)

\* The user picks an address, or a refresh or a search changes what is shown.
Pick(t, j, a) ==
    /\ picked[t][j] # a
    /\ picked' = [picked EXCEPT ![t][j] = a]
    /\ UNCHANGED <<server, run, calls, wanted>>

\* The loop goes to its next job, or reports and ends.
Onward(r) ==
    IF r.todo = {} THEN {[r EXCEPT !.at = "idle"]}
    ELSE {[r EXCEPT !.at = "patch", !.job = j, !.todo = @ \ {j}] : j \in r.todo}

\* The recipients are captured once, before the first request.
Click(t, chosen) ==
    /\ run[t].at = "idle" /\ run[t].clicks < MaxClicks
    /\ chosen # {}
    /\ \E r \in Onward([run[t] EXCEPT !.chosen = chosen, !.todo = chosen, !.to = picked[t],
                                      !.made = {}, !.failed = {}, !.clicks = @ + 1]) :
          run' = [run EXCEPT ![t] = r]
    /\ wanted' = [wanted EXCEPT ![t] = picked[t]]
    /\ UNCHANGED <<server, picked, calls>>

\* Mutant: the first failure ends the run.
AfterFailureStop(r) == {[r EXCEPT !.at = "idle", !.failed = @ \cup {r.job}]}

\* Mutant: a job that failed is put back in line.
AfterFailureAgain(r) == Onward([r EXCEPT !.todo = @ \cup {r.job}])

AfterFailure(r) == Onward([r EXCEPT !.failed = @ \cup {r.job}])

Send(t, j, a, w) ==
    \E s \in Slots :
        /\ calls[s] = Free
        /\ calls' = [calls EXCEPT ![s] = [step |-> "sent", tab |-> t, job |-> j,
                                          recipient |-> a, wanted |-> w, found |-> 0]]

Address(t) == run[t].to[run[t].job]

\* PATCH /jobs/{id}; with its answer the page asks for the draft.
ContactSaved(t) ==
    /\ run[t].at = "patch"
    /\ contact' = [contact EXCEPT ![run[t].job] = Address(t)]
    /\ Send(t, run[t].job, Address(t), wanted[t][run[t].job])
    /\ run' = [run EXCEPT ![t].at = "draft"]
    /\ UNCHANGED <<status, rows, picked, wanted>>

\* It fails, or only looks as if it had.
ContactFails(t, effect) ==
    /\ run[t].at = "patch"
    /\ contact' = IF effect THEN [contact EXCEPT ![run[t].job] = Address(t)] ELSE contact
    /\ \E r \in AfterFailure(run[t]) : run' = [run EXCEPT ![t] = r]
    /\ UNCHANGED <<status, rows, picked, calls, wanted>>

\* Mutant: any answer counts as a draft.
AnyAnswer(s) == calls[s].step \in {"answered", "refused"}

Answered(s) == calls[s].step = "answered"

\* The answer to the draft request, or an error before it comes.
DraftReturns(t, s) ==
    /\ run[t].at = "draft" /\ calls[s].tab = t
    /\ \/ /\ Answered(s)
          /\ \E r \in Onward([run[t] EXCEPT !.made = @ \cup {run[t].job}]) :
                run' = [run EXCEPT ![t] = r]
          /\ calls' = [calls EXCEPT ![s] = Free]
       \/ /\ \E r \in AfterFailure(run[t]) : run' = [run EXCEPT ![t] = r]
          /\ calls' = [calls EXCEPT ![s] = IF @.step \in {"answered", "refused"} THEN Free
                                           ELSE [@ EXCEPT !.tab = Nobody]]
    /\ UNCHANGED <<server, picked, wanted>>

\* JobsView: draft asks for one job, and archive takes a role off the lists.
DraftOne(t, j) ==
    /\ run[t].clicks < MaxClicks
    /\ Send(Nobody, j, picked[t][j], picked[t][j])
    /\ run' = [run EXCEPT ![t].clicks = @ + 1]
    /\ UNCHANGED <<server, picked, wanted>>

Archive(j) ==
    /\ status[j] # "archived"
    /\ status' = [status EXCEPT ![j] = "archived"]
    /\ UNCHANGED <<contact, rows, picked, run, calls, wanted>>

\* A review approves a draft, an edit makes it a draft again (ReviewDesk).
Review(j, i) ==
    /\ rows' = [rows EXCEPT ![j][i].status = IF @ = "drafted" THEN "reviewed" ELSE "drafted"]
    /\ UNCHANGED <<contact, status, picked, run, calls, wanted>>

-----------------------------------------------------------------------------
(* draft_job_application, one action per await *)

Moves(s, from, to) ==
    /\ calls[s].step = from
    /\ calls' = [calls EXCEPT ![s].step = to]

\* Mutant: the slot is free before the answer was read.
EndsUnread(s, as) == calls' = [calls EXCEPT ![s] = Free]

\* The request ends; nobody reads the answer of one that was given up.
Ends(s, as) ==
    calls' = [calls EXCEPT ![s] = IF @.tab = Nobody THEN Free ELSE [@ EXCEPT !.step = as]]

\* No key, no quota or no parsed resume.
Refuses(s) ==
    /\ calls[s].step = "sent"
    /\ Ends(s, "refused")
    /\ UNCHANGED <<server, picked, run, wanted>>

Generates(s) ==
    /\ Moves(s, "sent", "generating")
    /\ status' = [status EXCEPT ![calls[s].job] = "drafting"]
    /\ UNCHANGED <<contact, rows, picked, run, wanted>>

GenerationFails(s) ==
    /\ calls[s].step = "generating"
    /\ status' = [status EXCEPT ![calls[s].job] = "saved"]
    /\ Ends(s, "refused")
    /\ UNCHANGED <<contact, rows, picked, run, wanted>>

Drafted(j) == {i \in DOMAIN rows[j] : rows[j][i].status = "drafted"}

\* Any application of the job that is still a draft, or none.
Looks(s) ==
    /\ calls[s].step = "generating"
    /\ \E i \in IF Drafted(calls[s].job) = {} THEN {0} ELSE Drafted(calls[s].job) :
          calls' = [calls EXCEPT ![s].step = "looked", ![s].found = i]
    /\ UNCHANGED <<server, picked, run, wanted>>

\* Mutant: the address of the job wins over the one of the request.
RecipientOfJob(s) == contact[calls[s].job]

Recipient(s) == calls[s].recipient

\* The row that was found is written whatever it has become; else one is added.
Writes(s) ==
    LET j == calls[s].job
        row == [recipient |-> Recipient(s), wanted |-> calls[s].wanted, status |-> "drafted"]
    IN  /\ Moves(s, "looked", "written")
        /\ IF calls[s].found # 0 THEN rows' = [rows EXCEPT ![j][calls[s].found] = row]
           ELSE /\ Len(rows[j]) < MaxRows
                /\ rows' = [rows EXCEPT ![j] = Append(@, row)]
        /\ UNCHANGED <<contact, status, picked, run, wanted>>

Finishes(s) ==
    /\ calls[s].step = "written"
    /\ status' = [status EXCEPT ![calls[s].job] = "ready"]
    /\ Ends(s, "answered")
    /\ UNCHANGED <<contact, rows, picked, run, wanted>>

\* The server is stopped, or a query of it fails.
Dies(s) ==
    /\ calls[s].step \in {"sent", "generating", "looked", "written"}
    /\ Ends(s, "refused")
    /\ UNCHANGED <<server, picked, run, wanted>>

Serve(s) == Refuses(s) \/ Generates(s) \/ GenerationFails(s) \/ Looks(s) \/ Writes(s)
            \/ Finishes(s) \/ Dies(s)
Proceed(t) == ContactSaved(t) \/ (\E e \in BOOLEAN : ContactFails(t, e))
              \/ \E s \in Slots : DraftReturns(t, s)

Next ==
    \/ \E t \in Tabs, j \in Jobs, a \in Addresses : Pick(t, j, a)
    \/ \E t \in Tabs, chosen \in SUBSET Jobs : Click(t, chosen)
    \/ \E t \in Tabs : Proceed(t)
    \/ \E t \in Tabs, j \in Jobs : DraftOne(t, j)
    \/ \E j \in Jobs : Archive(j) \/ \E i \in DOMAIN rows[j] : Review(j, i)
    \/ \E s \in Slots : Serve(s)

Spec == Init /\ [][Next]_vars

\* A request is answered or times out, and the loop takes its next step then.
FairSpec == Spec /\ \A t \in Tabs : WF_vars(Proceed(t))

-----------------------------------------------------------------------------
(* Properties *)

\* A draft is addressed to the lead its user had chosen for the job when the run
\* was started, whatever a picker, a search or another tab has changed in the job
\* by the time the draft is written (createDrafts, draft_job_application).
DraftedAsChosen ==
    \A j \in Jobs : \A i \in DOMAIN rows[j] : rows[j][i].recipient = rows[j][i].wanted

\* A run reports only when every selected job was either drafted or reported as
\* failed: a failure does not take the jobs behind it along (createDrafts).
EveryJobIsTried ==
    \A t \in Tabs : run[t].at = "idle" => run[t].chosen = run[t].made \cup run[t].failed

\* What a run counts as drafted is an application of that job, also when the
\* server dies or the answer to an earlier request is lost (createDrafts).
CountedHasDraft == \A t \in Tabs : \A j \in run[t].made : rows[j] # <<>>

\* A run that was started reports, whatever requests fail (createDrafts).
RunEnds == \A t \in Tabs : run[t].at # "idle" ~> run[t].at = "idle"

\* "Role archived.": nothing brings the role back but the user.
\* Does not hold: see the README.
ArchivedStaysArchived == [][\A j \in Jobs : status[j] = "archived" => status'[j] = "archived"]_vars
=============================================================================
