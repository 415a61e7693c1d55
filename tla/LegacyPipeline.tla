--------------------------- MODULE LegacyPipeline ---------------------------
(***************************************************************************)
(* The stages of the desktop application over its one table: Find Jobs,     *)
(* Find Contacts, Draft Emails and the automatic LinkedIn run.  Each stage  *)
(* reads what it will work on, works for minutes, and writes in one         *)
(* transaction at the end; the buttons of the page (src/static/app.js) are  *)
(* all that keeps two runs of a stage apart.  Sending is one step here      *)
(* (LegacySender has its own), and so is a reply.  A transaction that has   *)
(* waited too long for the database fails like any other.  The postings of  *)
(* the model are from LinkedIn: they have no domain, and Hunter may find an *)
(* address.                                                                 *)
(***************************************************************************)
EXTENDS Naturals, FiniteSets

CONSTANTS
    Jobs, Runs, Tabs,
    None,
    MaxReloads, MaxCrashes      \* bounds: reloads of a page, crashes of the server

Statuses == {"absent", "discovered", "email_found", "drafted", "sent", "replied",
             "li_applied", "li_skipped"}

PipelineAssumption == MaxReloads \in Nat /\ MaxCrashes \in Nat /\ None \notin Statuses

\* The page has two buttons for Find Jobs.
Buttons == {"find", "discover", "contacts", "draft", "auto"}
Kind(b) == IF b = "find" THEN "discover" ELSE b

VARIABLES
    status, copies,  \* as committed: the status of a posting, how many rows it has
    address,    \* postings with an address
    runs,
    busy,       \* busy[t]: the buttons of a page that are disabled
    reloads, crashes,
    mailed,     \* ghost: how often an application was mailed: 0, 1, or 2 for more
    applied,    \* ghost: applications LinkedIn has
    recorded    \* ghost: those that have been li_applied

table == <<status, copies, address>>
ghost == <<mailed, applied, recorded>>
vars  == <<table, runs, busy, reloads, crashes, ghost>>

Free == [pc |-> "free"]
Run  == [pc : {"asked", "work"}, button : Buttons, tab : Tabs, todo : SUBSET Jobs,
         done : [Jobs -> Statuses \cup {None}]]

Running(r, k) == runs[r] # Free /\ runs[r].pc = "work" /\ Kind(runs[r].button) = k

TypeOK ==
    /\ status \in [Jobs -> Statuses] /\ copies \in [Jobs -> 0..2] /\ address \subseteq Jobs
    /\ \A j \in Jobs : status[j] = "absent" <=> copies[j] = 0
    /\ \A j \in address : status[j] # "absent"
    /\ \A r \in Runs : runs[r] \in {Free} \cup Run
    /\ busy \in [Tabs -> SUBSET Buttons]
    /\ \A t \in Tabs : \A b \in busy[t] :
          \E r \in Runs : runs[r] # Free /\ runs[r].tab = t /\ runs[r].button = b
    /\ reloads \in 0..MaxReloads /\ crashes \in 0..MaxCrashes
    /\ mailed \in [Jobs -> 0..2] /\ recorded \subseteq applied /\ applied \subseteq Jobs

Init ==
    /\ status = [j \in Jobs |-> "absent"] /\ copies = [j \in Jobs |-> 0] /\ address = {}
    /\ runs = [r \in Runs |-> Free] /\ busy = [t \in Tabs |-> {}]
    /\ reloads = 0 /\ crashes = 0
    /\ mailed = [j \in Jobs |-> 0] /\ applied = {} /\ recorded = {}

-----------------------------------------------------------------------------
(* The page *)

\* Mutant: the button stays enabled.
StaysEnabled(t, b) == busy

Disabled(t, b) == [busy EXCEPT ![t] = @ \cup {b}]

\* runDiscover, runStage.  The server refuses a second automatic run.
Press(t, b) ==
    /\ b \notin busy[t]
    /\ b = "auto" => {r \in Runs : runs[r] # Free /\ runs[r].button = "auto"} = {}
    /\ \E r \in Runs :
          /\ runs[r] = Free
          /\ runs' = [runs EXCEPT ![r] = [pc |-> "asked", button |-> b, tab |-> t,
                                          todo |-> {}, done |-> [j \in Jobs |-> None]]]
    /\ busy' = Disabled(t, b)
    /\ UNCHANGED <<table, reloads, crashes, ghost>>

\* A page that is loaded anew knows nothing of its requests; the server goes on.
Reload(t) ==
    /\ reloads < MaxReloads /\ reloads' = reloads + 1
    /\ busy' = [busy EXCEPT ![t] = {}]
    /\ UNCHANGED <<table, runs, crashes, ghost>>

-----------------------------------------------------------------------------
(* The stages *)

Queue == {j \in Jobs : status[j] \in {"discovered", "email_found"}}

ForDrafting == {j \in Jobs : status[j] = "email_found"}

\* applications_needing_email asks for no status.
NeedingEmail == {j \in Jobs : status[j] # "absent" /\ j \notin address}

List(b) ==
    CASE Kind(b) = "discover" -> Jobs
      [] b = "contacts" -> NeedingEmail
      [] b = "draft"    -> ForDrafting
      [] b = "auto"     -> Queue

Read(r) ==
    /\ runs[r].pc = "asked"
    /\ runs' = [runs EXCEPT ![r].pc = "work", ![r].todo = List(runs[r].button)]
    /\ UNCHANGED <<table, busy, reloads, crashes, ghost>>

Works(r, j, result) ==
    runs' = [runs EXCEPT ![r].todo = @ \ {j}, ![r].done[j] = result]

\* A stage passes a posting over: not in the results, no address, no draft, external.
PassOver(r, j) ==
    /\ j \in runs[r].todo
    /\ Works(r, j, None)
    /\ UNCHANGED <<table, busy, reloads, crashes, ghost>>

\* _store_linkedin looks for the posting, and with Hunter's answer it may have an address.
Store(r, j) ==
    /\ Running(r, "discover") /\ j \in runs[r].todo
    /\ status[j] = "absent"
    /\ \E s \in {"discovered", "email_found"} : Works(r, j, s)
    /\ UNCHANGED <<table, busy, reloads, crashes, ghost>>

HunterResolve(r, j) ==
    /\ Running(r, "contacts") /\ j \in runs[r].todo
    /\ Works(r, j, "email_found")
    /\ UNCHANGED <<table, busy, reloads, crashes, ghost>>

Draft(r, j) ==
    /\ Running(r, "draft") /\ j \in runs[r].todo
    /\ Works(r, j, "drafted")
    /\ UNCHANGED <<table, busy, reloads, crashes, ghost>>

\* LinkedIn takes an application once, at once.
Apply(r, j) ==
    /\ Running(r, "auto") /\ j \in runs[r].todo
    /\ \/ j \notin applied /\ Works(r, j, "li_applied") /\ applied' = applied \cup {j}
       \/ Works(r, j, "li_skipped") /\ UNCHANGED applied
    /\ UNCHANGED <<table, busy, reloads, crashes, mailed, recorded>>

\* Mutant: the button is enabled where the answer is shown, not in finally.
EndsBusy(r) ==
    /\ runs' = [runs EXCEPT ![r] = Free]
    /\ UNCHANGED busy

Ends(r) ==
    /\ runs' = [runs EXCEPT ![r] = Free]
    /\ busy' = [busy EXCEPT ![runs[r].tab] = @ \ {runs[r].button}]

\* Mutant: the address of a posting is not unique.
NotUnique(r) == TRUE

\* companies.source_url is unique.
Unique(r) == Running(r, "discover") => \A j \in Jobs : runs[r].done[j] # None => copies[j] = 0

\* The automatic run may stop early; the others go through their list.
Commit(r) ==
    LET done == runs[r].done IN
    /\ runs[r].pc = "work" /\ (runs[r].todo = {} \/ Running(r, "auto"))
    /\ Unique(r)
    /\ status' = [j \in Jobs |-> IF done[j] = None THEN status[j] ELSE done[j]]
    /\ copies' = [j \in Jobs |-> IF Running(r, "discover") /\ done[j] # None /\ copies[j] < 2
                                 THEN copies[j] + 1 ELSE copies[j]]
    /\ address' = address \cup {j \in Jobs : done[j] = "email_found"}
    /\ recorded' = recorded \cup {j \in Jobs : done[j] = "li_applied"}
    /\ Ends(r)
    /\ UNCHANGED <<reloads, crashes, mailed, applied>>

\* Everything the run would have written is rolled back.
Fail(r) ==
    /\ runs[r].pc = "work"
    /\ Ends(r)
    /\ UNCHANGED <<table, reloads, crashes, ghost>>

-----------------------------------------------------------------------------
(* Sending, replies, crashes *)

Mail(j) ==
    /\ status[j] = "drafted" /\ j \in address
    /\ status' = [status EXCEPT ![j] = "sent"]
    /\ mailed' = [mailed EXCEPT ![j] = IF @ = 0 THEN 1 ELSE 2]
    /\ UNCHANGED <<copies, address, runs, busy, reloads, crashes, applied, recorded>>

Reply(j) ==
    /\ status[j] = "sent"
    /\ status' = [status EXCEPT ![j] = "replied"]
    /\ UNCHANGED <<copies, address, runs, busy, reloads, crashes, ghost>>

Crash ==
    /\ crashes < MaxCrashes /\ crashes' = crashes + 1
    /\ runs' = [r \in Runs |-> Free] /\ busy' = [t \in Tabs |-> {}]
    /\ UNCHANGED <<table, reloads, ghost>>

Next ==
    \/ \E t \in Tabs : Reload(t) \/ \E b \in Buttons : Press(t, b)
    \/ \E r \in Runs : runs[r] # Free /\
          \/ Read(r) \/ Commit(r) \/ Fail(r)
          \/ \E j \in Jobs : PassOver(r, j) \/ Store(r, j) \/ HunterResolve(r, j)
                             \/ Draft(r, j) \/ Apply(r, j)
    \/ \E j \in Jobs : Mail(j) \/ Reply(j)
    \/ Crash

Spec == Init /\ [][Next]_vars

-----------------------------------------------------------------------------
(* Properties *)

\* A posting has one row, although the page lets two searches overlap that both miss it
\* (find_company_by_source_url): the second one fails as a whole.
OneRowPerPosting == \A j \in Jobs : copies[j] <= 1

\* Nobody is mailed twice, whatever stages overlap; of one stage, two runs at a time
\* would do it, and the buttons prevent that while a page stands.
MailedOnce == \A j \in Jobs : mailed[j] < 2

\* linkedin_jobs, "not yet LinkedIn-applied": what the automatic run has recorded as
\* applied is not in its queue again.
\* Does not hold: see the README.
QueueIsUnapplied == Queue \cap recorded = {}
=============================================================================
