--------------------------- MODULE LegacyReplies ---------------------------
(***************************************************************************)
(* The reply scan of the desktop application (src/app/services/replies.py): *)
(* hourly and by button, each scan one transaction over the mail of a day,  *)
(* and the tracker page that polls its results (src/static/applications.js).*)
(* SQLite lets one transaction write at a time; a scan writes late, except  *)
(* that a bounce writes at once.  Every application of the model has been   *)
(* mailed and has a thread.                                                 *)
(***************************************************************************)
EXTENDS Naturals, Sequences, SequencesExt

CONSTANTS
    Apps, Scans, Tabs,
    None,
    MaxMails,       \* bound: mails that arrive
    MaxAsks         \* bound: requests of a page under way

RepliesAssumption == MaxMails \in Nat /\ MaxAsks \in Nat /\ None \notin Scans

Replies  == {"interview", "rejection"}
Kinds    == Replies \cup {"other", "bounced"}
Statuses == {"sent", "bounced"} \cup Replies

VARIABLES
    inbox,      \* the mails on the threads, oldest first
    age,        \* how many of them are older than a day
    status, bounces,  \* as committed: applications.status, the bounces in send_log
    lock,       \* the scan that has written and not yet committed
    scans,
    rows,       \* rows[t]: ALL of a tracker page; None: empty
    chip, table,      \* the filter of a page; the applications its table lists
    asks,       \* asks[t]: what the requests of a page were answered with, if at all
    read,       \* ghost: mails a scan has recorded
    due,        \* ghost: the newest classified mail of the scans recorded
    emptied     \* ghost: pages that lost their view

server == <<inbox, age, status, bounces, lock, scans, read, due>>
page   == <<rows, chip, table, asks, emptied>>
vars   == <<server, page>>

Free == [pc |-> "free"]
Scan == [pc : {"loop"}, low : Nat, high : Nat, next : Nat, loaded : [Apps -> Statuses],
         logged : SUBSET Apps, pend : [Apps -> Statuses \cup {None}], own : SUBSET Apps]

Open == [is |-> "open"]
Oops == [is |-> "oops"]
Answers == {Open, Oops} \cup [is : {"rows"}, rows : [Apps -> Statuses]]

TypeOK ==
    /\ inbox \in Seq([app : Apps, kind : Kinds]) /\ Len(inbox) <= MaxMails
    /\ age \in 0..Len(inbox)
    /\ status \in [Apps -> Statuses] /\ bounces \in [Apps -> 0..2]
    /\ lock \in Scans \cup {None}
    /\ \A s \in Scans : scans[s] = Free \/ scans[s] \in Scan
    /\ lock # None => scans[lock] # Free /\ scans[lock].next < scans[lock].high
    /\ \A t \in Tabs : /\ rows[t] \in [Apps -> Statuses] \cup {None}
                       /\ chip[t] \in {"all"} \cup Statuses /\ table[t] \subseteq Apps
                       /\ asks[t] \in Seq(Answers) /\ Len(asks[t]) <= MaxAsks
    /\ read \subseteq 1..MaxMails
    /\ due \in [Apps -> Statuses] /\ emptied \subseteq Tabs

Init ==
    /\ inbox = <<>> /\ age = 0
    /\ status = [a \in Apps |-> "sent"] /\ bounces = [a \in Apps |-> 0]
    /\ lock = None /\ scans = [s \in Scans |-> Free]
    /\ rows = [t \in Tabs |-> None] /\ chip = [t \in Tabs |-> "all"]
    /\ table = [t \in Tabs |-> {}] /\ asks = [t \in Tabs |-> <<>>]
    /\ read = {} /\ due = status /\ emptied = {}

-----------------------------------------------------------------------------
(* Mail *)

Arrive(a, k) ==
    /\ Len(inbox) < MaxMails
    /\ inbox' = Append(inbox, [app |-> a, kind |-> k])
    /\ UNCHANGED <<age, status, bounces, lock, scans, read, due, page>>

\* A day goes by, scan or no scan: the application runs when the operator runs it.
GrowsOld ==
    /\ age < Len(inbox)
    /\ age' = age + 1
    /\ UNCHANGED <<inbox, status, bounces, lock, scans, read, due, page>>

-----------------------------------------------------------------------------
(* The scan *)

\* applications_with_thread and the mails of "newer_than:1d", newest first.
Start(s) ==
    /\ scans[s] = Free
    /\ scans' = [scans EXCEPT ![s] =
          [pc |-> "loop", low |-> age + 1, high |-> Len(inbox), next |-> Len(inbox),
           loaded |-> status, logged |-> {a \in Apps : bounces[a] > 0},
           pend |-> [a \in Apps |-> None], own |-> {}]]
    /\ UNCHANGED <<inbox, age, status, bounces, lock, read, due, page>>

HasMail(s) == scans[s] # Free /\ scans[s].next >= scans[s].low
Mail(s)    == inbox[scans[s].next]

\* update_reply: a reply that is none of the kinds keeps the status.
Classify(s) ==
    /\ HasMail(s) /\ Mail(s).kind # "bounced"
    /\ scans' = [scans EXCEPT ![s].next = @ - 1,
          ![s].pend[Mail(s).app] = IF Mail(s).kind = "other" THEN @ ELSE Mail(s).kind]
    /\ UNCHANGED <<inbox, age, status, bounces, lock, read, due, page>>

\* Mutant: the log is looked at before the scan writes.
LoggedEarlier(s, a) == a \in scans[s].logged \cup scans[s].own

\* The new last_checked_at is flushed by the query: the log is read under the lock.
Logged(s, a) == bounces[a] > 0 \/ a \in scans[s].own

RecordBounce(s) ==
    LET a == Mail(s).app IN
    /\ HasMail(s) /\ Mail(s).kind = "bounced"
    /\ lock \in {None, s} /\ lock' = s
    /\ scans' = [scans EXCEPT ![s].next = @ - 1,
          ![s].pend[a] = IF Logged(s, a) THEN @ ELSE "bounced",
          ![s].own = IF Logged(s, a) THEN @ ELSE @ \cup {a}]
    /\ UNCHANGED <<inbox, age, status, bounces, read, due, page>>

\* Mutant: a scan that ends keeps the database.
KeepLock(s) == lock

Unlock(s) == IF lock = s THEN None ELSE lock

Listed(s) == scans[s].low .. scans[s].high

\* Only what differs from what was loaded is written.
Commit(s) ==
    LET pend == scans[s].pend IN
    /\ scans[s] # Free /\ ~ HasMail(s)
    /\ lock \in {None, s}
    /\ status' = [a \in Apps |->
          IF pend[a] \in {None, scans[s].loaded[a]} THEN status[a] ELSE pend[a]]
    /\ bounces' = [a \in Apps |-> IF a \in scans[s].own /\ bounces[a] < 2
                                  THEN bounces[a] + 1 ELSE bounces[a]]
    /\ lock' = Unlock(s)
    /\ scans' = [scans EXCEPT ![s] = Free]
    /\ read' = read \cup Listed(s)
    /\ due' = [a \in Apps |->
          LET told == {i \in Listed(s) : inbox[i].app = a /\ inbox[i].kind # "other"}
          IN  IF told = {} THEN due[a] ELSE inbox[CHOOSE i \in told : \A j \in told : j <= i].kind]
    /\ UNCHANGED <<inbox, age, page>>

\* Groq or Gmail raises, or the wait for the database is too long: all is rolled back.
Fail(s) ==
    /\ scans[s] # Free
    /\ HasMail(s) \/ lock \notin {None, s}
    /\ lock' = Unlock(s)
    /\ scans' = [scans EXCEPT ![s] = Free]
    /\ UNCHANGED <<inbox, age, status, bounces, read, due, page>>

-----------------------------------------------------------------------------
(* The tracker page *)

Filtered(all, f) == IF all = None THEN {} ELSE {a \in Apps : f = "all" \/ all[a] = f}

Poll(t) ==
    /\ Len(asks[t]) < MaxAsks
    /\ asks' = [asks EXCEPT ![t] = Append(@, Open)]
    /\ UNCHANGED <<server, rows, chip, table, emptied>>

\* A database error is answered like any request, without applications.
Serve(t, i) ==
    /\ asks[t][i] = Open
    /\ \E answer \in {[is |-> "rows", rows |-> status], Oops} : asks' = [asks EXCEPT ![t][i] = answer]
    /\ UNCHANGED <<server, rows, chip, table, emptied>>

Got(answer) == IF answer = Oops THEN None ELSE answer.rows

Refresh(t, i) ==
    LET all == Got(asks[t][i]) IN
    /\ asks[t][i] # Open
    /\ asks' = [asks EXCEPT ![t] = RemoveAt(@, i)]
    /\ rows' = [rows EXCEPT ![t] = all]
    /\ table' = [table EXCEPT ![t] = Filtered(all, chip[t])]
    /\ emptied' = IF all = None /\ rows[t] # None THEN emptied \cup {t} ELSE emptied
    /\ UNCHANGED <<server, chip>>

\* The request, or the one for the state next to it, fails.
Lost(t, i) ==
    /\ asks' = [asks EXCEPT ![t] = RemoveAt(@, i)]
    /\ UNCHANGED <<server, rows, chip, table, emptied>>

\* Mutant: a chip takes effect with the next poll.
Later(t, f) == table[t]

Listing(t, f) == Filtered(rows[t], f)

Press(t, f) ==
    /\ f # chip[t]
    /\ chip' = [chip EXCEPT ![t] = f]
    /\ table' = [table EXCEPT ![t] = Listing(t, f)]
    /\ UNCHANGED <<server, rows, asks, emptied>>

Next ==
    \/ \E a \in Apps, k \in Kinds : Arrive(a, k)
    \/ GrowsOld
    \/ \E s \in Scans : Start(s) \/ Classify(s) \/ RecordBounce(s) \/ Commit(s) \/ Fail(s)
    \/ \E t \in Tabs :
          \/ Poll(t)
          \/ \E i \in DOMAIN asks[t] : Serve(t, i) \/ Refresh(t, i) \/ Lost(t, i)
          \/ \E f \in {"all", "sent", "interview", "rejection", "bounced"} : Press(t, f)

Spec == Init /\ [][Next]_vars

-----------------------------------------------------------------------------
(* Properties *)

\* "we log the 'bounced' outcome only ONCE per application", whatever scans overlap and
\* however often the notice is seen again: the log is read after the write that takes
\* the database (record_bounce).
BouncedOnce == \A a \in Apps : bounces[a] <= 1

\* The table of a page lists what its chip says of the rows it has, in whatever order
\* answers, failures and clicks come (renderTable).
TableFollowsChip == \A t \in Tabs : table[t] = Filtered(rows[t], chip[t])

\* "Reads new inbound mail ... updates status": after a scan an application has the
\* status of the newest reply it has read.
\* Does not hold: see the README.
NewestReplyCounts == \A a \in Apps : status[a] = due[a]

\* "Reads new inbound mail, matches each message to an application": no reply is left
\* unread when it is too old for the scans to come.
\* Does not hold: see the README.
NoReplyIsMissed ==
    \A i \in 1..age : i \in read \/ \E s \in Scans : scans[s] # Free /\ i \in Listed(s)

\* "keep last view on transient errors": a page that has shown rows does not lose them.
\* Does not hold: see the README.
ViewIsKept == emptied = {}
=============================================================================
