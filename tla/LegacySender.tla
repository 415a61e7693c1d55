---------------------------- MODULE LegacySender ----------------------------
(***************************************************************************)
(* Review & Send of the desktop application: the draft cards and their      *)
(* check boxes (src/static/app.js), the background run behind /api/send     *)
(* (src/app/main.py) and its one database transaction for the whole batch   *)
(* (src/app/services/sender.py).  The mail is real and leaves at once; its  *)
(* record is only there when the transaction commits.  SQLite lets one      *)
(* transaction write at a time, and a writer that waits too long fails.     *)
(* gmail.send either raises or has sent; the warm-up gate is passed and     *)
(* every application of the model has an address.                           *)
(***************************************************************************)
EXTENDS Naturals, FiniteSets

CONSTANTS
    Tabs, Apps,
    FirmOf,             \* who an application is to
    None, Writer,       \* nobody; discovery, drafting or a scan, writing
    Cap,                \* mails of a day
    MinSample, Percent, \* the bounce rate that pauses sending
    Runs,               \* bound: send requests in all
    MaxCrashes          \* bound: crashes of the server

SenderAssumption ==
    /\ IsFiniteSet(Apps) /\ DOMAIN FirmOf = Apps
    /\ {None, Writer} \cap Runs = {}
    /\ Cap \in Nat \ {0} /\ MinSample \in Nat /\ Percent \in Nat /\ MaxCrashes \in Nat

VARIABLES
    status,     \* status[a]: as committed
    doubtful,   \* contacts that are not verified, as committed
    paused, window, \* sending_paused; the log since bounce_window_start
    lock,       \* who has written and not yet committed
    running,    \* LAST_SEND["running"]
    runs,       \* the requests of /api/send and their runs
    cards,      \* cards[t]: the drafts on a page, and how it shows them
    checked,    \* checked[t]: the boxes that are ticked
    button,     \* button[t]: "Send approved" can be pressed
    says,       \* says[t]: the page's last word is "Sending resumed."
    crashes,
    mailed,     \* ghost: how often an application was mailed: 0, 1, or 2 for more
    approved,   \* ghost: what was ticked, and how the page showed it
    confirmed,  \* ghost: recipients the operator agreed to mail unverified
    flagged     \* ghost: what was mailed although its contact was not verified

db    == <<status, doubtful, paused, window>>
page  == <<cards, checked, button, says>>
ghost == <<mailed, approved, confirmed, flagged>>
vars  == <<db, lock, running, runs, page, crashes, ghost>>

Free == [pc |-> "free"]
Over == [pc |-> "over"]
\* todo, odd: the applications as the run has listed them, and those whose contact
\* was not verified then; sent, bad, pause: what it has written and not committed;
\* skips and errors are written as well (dirty).
Run  == [pc : {"posted", "asked", "preflight", "loop", "ending"}, tab : Tabs, ids : SUBSET Apps,
         allow : BOOLEAN, todo : SUBSET Apps, odd : SUBSET Apps, sent : SUBSET Apps,
         bad : SUBSET Apps, pause : BOOLEAN, dirty : BOOLEAN]

Looks == {"verified", "unverified"}

Logged == {a \in Apps : status[a] # "drafted"}
Outcome(a, what) == <<a, what>> \in window

TypeOK ==
    /\ status \in [Apps -> {"drafted", "sent", "bounced"}]
    /\ doubtful \subseteq Apps
    /\ paused \in BOOLEAN /\ running \in BOOLEAN
    /\ window \subseteq Logged \X {"sent", "bounced"}
    /\ lock \in Runs \cup {None, Writer}
    /\ \A r \in Runs : runs[r] \in {Free, Over} \cup Run
    /\ lock \in Runs => runs[lock] \notin {Free, Over} /\ runs[lock].dirty
    /\ cards \in [Tabs -> [Apps -> Looks \cup {"absent"}]]
    /\ checked \in [Tabs -> SUBSET Apps]
    /\ button \in [Tabs -> BOOLEAN] /\ says \in [Tabs -> BOOLEAN]
    /\ crashes \in 0..MaxCrashes
    /\ mailed \in [Apps -> 0..2]
    /\ approved \subseteq Apps \X Looks
    /\ confirmed \subseteq Apps /\ flagged \subseteq Apps

Init ==
    /\ status = [a \in Apps |-> "drafted"]
    /\ doubtful \in SUBSET Apps
    /\ paused = FALSE /\ window = {} /\ lock = None /\ running = FALSE
    /\ runs = [r \in Runs |-> Free]
    /\ cards = [t \in Tabs |-> [a \in Apps |-> "absent"]]
    /\ checked = [t \in Tabs |-> {}]
    /\ button = [t \in Tabs |-> FALSE] /\ says = [t \in Tabs |-> FALSE]
    /\ crashes = 0
    /\ mailed = [a \in Apps |-> 0]
    /\ approved = {} /\ confirmed = {} /\ flagged = {}

-----------------------------------------------------------------------------
(* The page *)

Shown(t) == {a \in Apps : cards[t][a] # "absent"}

\* openReview, renderDrafts: verified recipients are ticked from the start.
OpenReview(t) ==
    /\ cards' = [cards EXCEPT ![t] = [a \in Apps |->
          IF status[a] # "drafted" THEN "absent"
          ELSE IF a \in doubtful THEN "unverified" ELSE "verified"]]
    /\ checked' = [checked EXCEPT ![t] = {a \in Apps : status[a] = "drafted" /\ a \notin doubtful}]
    /\ button' = [button EXCEPT ![t] = checked'[t] # {}]
    /\ says' = [says EXCEPT ![t] = FALSE]
    /\ UNCHANGED <<db, lock, running, runs, crashes, ghost>>

\* updateApprovedCount enables the button, also while a request is under way.
Toggle(t, a) ==
    /\ a \in Shown(t)
    /\ checked' = [checked EXCEPT ![t] = IF a \in @ THEN @ \ {a} ELSE @ \cup {a}]
    /\ button' = [button EXCEPT ![t] = checked'[t] # {}]
    /\ UNCHANGED <<db, lock, running, runs, cards, says, crashes, ghost>>

\* Mutant: the question is asked, and its answer not waited for.
AskedAbout(t, agreed) == TRUE

Agreed(t, agreed) == agreed

\* sendApproved: one answer allows all of the batch.
SendApproved(t, agreed) ==
    LET odd == {a \in checked[t] : cards[t][a] = "unverified"} IN
    /\ button[t] /\ checked[t] # {}
    /\ odd # {} => Agreed(t, agreed)
    /\ \E r \in Runs :
          /\ runs[r] = Free
          /\ runs' = [runs EXCEPT ![r] =
                [pc |-> "posted", tab |-> t, ids |-> checked[t], allow |-> odd # {},
                 todo |-> {}, odd |-> {}, sent |-> {}, bad |-> {},
                 pause |-> FALSE, dirty |-> FALSE]]
    /\ button' = [button EXCEPT ![t] = FALSE]
    /\ says' = [says EXCEPT ![t] = FALSE]
    /\ approved' = approved \cup {<<a, cards[t][a]>> : a \in checked[t]}
    /\ confirmed' = IF agreed THEN confirmed \cup odd ELSE confirmed
    /\ UNCHANGED <<db, lock, running, cards, checked, crashes, mailed, flagged>>

\* resumeSending: a write that waits too long is answered like any other request,
\* and the page does not look at the answer.
Resume(t) ==
    /\ \/ /\ lock = None
          /\ paused' = FALSE /\ window' = {}
       \/ /\ lock # None
          /\ UNCHANGED <<paused, window>>
    /\ says' = [says EXCEPT ![t] = TRUE]
    /\ UNCHANGED <<status, doubtful, lock, running, runs, cards, checked, button, crashes, ghost>>

-----------------------------------------------------------------------------
(* The server *)

\* api_send looks at the flag; the run it schedules sets it later.  The button
\* is enabled by the answer.
ServeSend(r) ==
    /\ runs[r].pc = "posted"
    /\ runs' = [runs EXCEPT ![r] = IF running THEN Over ELSE [@ EXCEPT !.pc = "asked"]]
    /\ button' = [button EXCEPT ![runs[r].tab] = TRUE]
    /\ UNCHANGED <<db, lock, running, cards, checked, says, crashes, ghost>>

\* _run_send
Begin(r) ==
    /\ runs[r].pc = "asked"
    /\ running' = TRUE
    /\ runs' = [runs EXCEPT ![r].pc = "preflight"]
    /\ UNCHANGED <<db, lock, page, crashes, ghost>>

Listed(r) == {a \in runs[r].ids : status[a] = "drafted"}

Preflight(r) ==
    /\ runs[r].pc = "preflight"
    /\ runs' = [runs EXCEPT ![r] =
          IF paused \/ Cardinality(Logged) >= Cap THEN [@ EXCEPT !.pc = "ending"]
          ELSE [@ EXCEPT !.pc = "loop", !.todo = Listed(r), !.odd = Listed(r) \cap doubtful]]
    /\ UNCHANGED <<db, lock, running, page, crashes, ghost>>

\* A query writes what is pending first, which takes the lock.
CanFlush(r) == ~runs[r].dirty \/ lock \in {None, r}
Flush(r)    == lock' = IF runs[r].dirty THEN r ELSE lock

\* What the run sees: the committed rows and its own.
SentTo(r) == {a \in Apps : status[a] = "sent"} \cup runs[r].sent
Outgone(r) == Logged \cup runs[r].sent

Bouncy(r) ==
    LET out == {a \in Apps : Outcome(a, "sent")} \cup runs[r].sent
        bounced == {a \in Apps : Outcome(a, "bounced")}
    IN  /\ out # {} /\ Cardinality(out) >= MinSample
        /\ Cardinality(bounced) * 100 > Percent * Cardinality(out)

\* Mutant: the cap is only looked at before the run.
AlwaysRoom(r) == TRUE

UnderCap(r) == Cardinality(Outgone(r)) < Cap

Halts(r) ==
    /\ runs[r].pc = "loop" /\ runs[r].todo # {} /\ CanFlush(r)
    /\ ~UnderCap(r) \/ Bouncy(r)
    /\ Flush(r)
    /\ runs' = [runs EXCEPT ![r].pc = "ending", ![r].pause = UnderCap(r),
                            ![r].dirty = @ \/ UnderCap(r)]
    /\ UNCHANGED <<db, running, page, crashes, ghost>>

Turn(r, a) ==
    /\ runs[r].pc = "loop" /\ a \in runs[r].todo /\ CanFlush(r)
    /\ UnderCap(r) /\ ~Bouncy(r)
    /\ Flush(r)

\* The contact is the row that was loaded with the list.
Unsure(r, a) == a \in runs[r].odd

\* Search, import and digests store a company with every application.
CompanyOf(a) == a

Duplicate(r, a) == \E b \in SentTo(r) \ {a} : CompanyOf(b) = CompanyOf(a)

\* Not verified and not allowed, found undeliverable by Hunter, a duplicate, or
\* gmail.send raises: only the log is written.
PassOver(r, a) ==
    /\ Turn(r, a)
    /\ \/ /\ runs' = [runs EXCEPT ![r].todo = @ \ {a}, ![r].dirty = TRUE]
       \/ /\ Unsure(r, a) => runs[r].allow
          /\ runs' = [runs EXCEPT ![r].todo = @ \ {a}, ![r].dirty = TRUE,
                                  ![r].bad = @ \cup {a}]
    /\ UNCHANGED <<db, running, page, crashes, ghost>>

\* Mutant: a failed call is recorded like a good one.
MailsOrNot(r, a) == mailed' \in {mailed, [mailed EXCEPT ![a] = IF @ = 0 THEN 1 ELSE 2]}

Mails(r, a) == mailed' = [mailed EXCEPT ![a] = IF @ = 0 THEN 1 ELSE 2]

MailOut(r, a) ==
    /\ Turn(r, a)
    /\ Unsure(r, a) => runs[r].allow
    /\ ~Duplicate(r, a)
    /\ Mails(r, a)
    /\ flagged' = IF Unsure(r, a) THEN flagged \cup {a} ELSE flagged
    /\ runs' = [runs EXCEPT ![r].todo = @ \ {a}, ![r].dirty = TRUE, ![r].sent = @ \cup {a}]
    /\ UNCHANGED <<db, running, page, crashes, approved, confirmed>>

\* Mutant: the session is left open.
NotReleased(r) == lock

Released(r) == IF lock = r THEN None ELSE lock

Commit(r) ==
    /\ runs[r].pc = "ending" \/ (runs[r].pc = "loop" /\ runs[r].todo = {})
    /\ CanFlush(r)
    /\ status' = [a \in Apps |-> IF a \in runs[r].sent THEN "sent" ELSE status[a]]
    /\ window' = window \cup (runs[r].sent \X {"sent"})
    /\ doubtful' = doubtful \cup runs[r].bad
    /\ paused' = (paused \/ runs[r].pause)
    /\ lock' = Released(r)
    /\ running' = FALSE
    /\ runs' = [runs EXCEPT ![r] = Over]
    /\ UNCHANGED <<page, crashes, ghost>>

\* Mutant: the flag is reset where the result is stored, not in finally.
FlagStays == running

FlagAfterError == FALSE

\* "database is locked": the exception leaves send_approved, nothing is recorded.
LockTimeout(r) ==
    /\ runs[r].pc \in {"loop", "ending"} /\ ~CanFlush(r)
    /\ running' = FlagAfterError
    /\ runs' = [runs EXCEPT ![r] = Over]
    /\ UNCHANGED <<db, lock, page, crashes, ghost>>

OtherWrites ==
    /\ lock' = IF lock = None THEN Writer ELSE None
    /\ lock \in {None, Writer}
    /\ UNCHANGED <<db, running, runs, page, crashes, ghost>>

\* The reply scan finds a bounce.
Bounced(a) ==
    /\ status[a] = "sent" /\ lock = None
    /\ status' = [status EXCEPT ![a] = "bounced"]
    /\ window' = window \cup {<<a, "bounced">>}
    /\ UNCHANGED <<doubtful, paused, lock, running, runs, page, crashes, ghost>>

Crash ==
    /\ crashes < MaxCrashes
    /\ crashes' = crashes + 1
    /\ lock' = None /\ running' = FALSE
    /\ runs' = [r \in Runs |-> IF runs[r] = Free THEN Free ELSE Over]
    /\ button' = [t \in Tabs |-> \/ button[t]
                                 \/ \E r \in Runs : runs[r].pc = "posted" /\ runs[r].tab = t]
    /\ UNCHANGED <<db, cards, checked, says, ghost>>

RunStep(r) ==
    \/ Begin(r) \/ Preflight(r) \/ Halts(r) \/ Commit(r) \/ LockTimeout(r)
    \/ \E a \in Apps : PassOver(r, a) \/ MailOut(r, a)

Next ==
    \/ \E t \in Tabs : \/ OpenReview(t) \/ Resume(t)
                       \/ \E a \in Apps : Toggle(t, a)
                       \/ \E agreed \in BOOLEAN : SendApproved(t, agreed)
    \/ \E r \in Runs : ServeSend(r) \/ RunStep(r)
    \/ OtherWrites \/ Crash \/ \E a \in Apps : Bounced(a)

Spec == Init /\ [][Next]_vars

\* The threads of the server go on.
FairSpec == Spec /\ \A r \in Runs : WF_vars(RunStep(r))

-----------------------------------------------------------------------------
(* Properties *)

\* Whatever pages are stale and runs overlap, a mail goes to a recipient the operator
\* had ticked where the page showed it as verified, or had agreed to mail unverified
\* (sendApproved, approved_applications).
MailedWithConsent ==
    \A a \in Apps : mailed[a] > 0 => <<a, "verified">> \in approved \/ a \in confirmed

\* No run sends more than the cap of the day, however many others commit meanwhile
\* and whatever is written late (send_approved, sent_today).
RunKeepsCap == \A r \in Runs : runs[r] \notin {Free, Over} => Cardinality(runs[r].sent) <= Cap

\* What the database calls sent was mailed, across rollbacks and crashes (record_send).
RecordedWasMailed == \A a \in Logged : mailed[a] > 0

\* The flag that refuses further sends is always taken back: runs that fail do not
\* block the sender (the finally of _run_send).
FlagIsReleased == running ~> ~running

\* "duplicate guard : one email per company within DUP_WINDOW_DAYS": a run does not
\* mail a firm twice.
\* Does not hold: see the README.
OneMailPerFirm ==
    \A r \in Runs : runs[r] \notin {Free, Over} =>
        \A a, b \in runs[r].sent : FirmOf[a] = FirmOf[b] => a = b

\* The same guard: no application is mailed twice.
\* Does not hold: see the README.
MailedOnce == \A a \in Apps : mailed[a] < 2

\* "the operator explicitly checked unverified recipients in Review & Send, so the
\* verify-before-send flag gate is bypassed for them": only for them.
\* Does not hold: see the README.
BypassIsPerRecipient == flagged \subseteq confirmed

\* "Sending resumed.": a page that says so has resumed sending.
\* Does not hold: see the README.
ResumedIsTrue == [][\A t \in Tabs : says'[t] /\ ~says[t] => ~paused']_vars
=============================================================================
