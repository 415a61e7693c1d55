------------------------------ MODULE Workspace ------------------------------
(***************************************************************************)
(* The page's copies of the server's tables (Workspace and ActivityView in  *)
(* src/frontend/app/page.tsx).  refresh asks for all tables at once and     *)
(* applies the answers together when the last one is in; the timer of the   *)
(* activity view, buttons and finished operations start refreshes without   *)
(* waiting for each other.  The runs behind the activity table move as      *)
(* JobLifecycle allows.                                                     *)
(***************************************************************************)
EXTENDS Naturals

CONSTANTS
    Runs,           \* rows of the activity table
    MaxAttempts,    \* runs of a row
    Tables,         \* the other tables
    Broken,         \* tables whose requests are always rejected
    Unread, Failed, \* an answer that is not there, and a rejected request
    Idle,           \* no refresh
    Slots,          \* bound: refreshes at a time
    MaxVersion,     \* bound: changes of a table
    MaxFailures     \* bound: requests that fail by chance

VARIABLES
    phase, runs, revoked,   \* the queue rows, see JobLifecycle
    data,       \* data[tb]: the version of a table on the server
    shown,      \* shown[tb]: what the page shows of a table
    list,       \* list[j]: the status the activity table shows
    refreshes,  \* refreshes[s]: the answers of a refresh under way
    error,      \* refreshError: the tables of the last refresh that failed
    failures,   \* failures by chance, so far
    view,       \* "activity" or another view
    cancels     \* cancels[j]: the cancel request of the page for row j

Queue == INSTANCE JobLifecycle WITH Jobs <- Runs

server  == <<phase, runs, revoked, data>>
page    == <<shown, list, error, view>>
vars    == <<server, page, refreshes, failures, cancels>>

Activity == "activity"
All      == Tables \cup {Activity}
Statuses == {"absent", "queued", "running"} \cup Queue!Outcomes

TypeOK ==
    /\ phase \in [Runs -> Statuses]
    /\ runs \in [Runs -> 0..MaxAttempts]
    /\ revoked \in [Runs -> BOOLEAN]
    /\ data \in [Tables -> 0..MaxVersion]
    /\ shown \in [Tables -> 0..MaxVersion \cup {Unread}]
    /\ list \in [Runs -> Statuses]
    /\ \A s \in Slots : refreshes[s] # Idle =>
          \A tb \in All : refreshes[s][tb] \notin {Unread, Failed} =>
             refreshes[s][tb] \in IF tb = Activity THEN [Runs -> Statuses] ELSE 0..MaxVersion
    /\ error \in SUBSET All
    /\ failures \in 0..MaxFailures
    /\ view \in {Activity, "other"}
    /\ cancels \in [Runs -> {"none", "sent", "answered"}]

\* What a request of a refresh can come back with.
Answer == 0..MaxVersion \cup {Unread, Failed} \cup [Runs -> Statuses]

\* The activity is not one of the tables, and Idle not the answers of a refresh.
WorkspaceAssumption ==
    /\ {MaxAttempts, MaxVersion, MaxFailures} \subseteq Nat
    /\ Activity \notin Tables /\ Broken \subseteq Tables
    /\ Idle \notin [All -> Answer]

NothingRead == [tb \in All |-> Unread]

\* The page loads and starts its first refresh.
Init ==
    /\ Queue!Init
    /\ data = [tb \in Tables |-> 0]
    /\ shown = [tb \in Tables |-> Unread]
    /\ list = phase
    /\ \E s \in Slots : refreshes = [r \in Slots |-> IF r = s THEN NothingRead ELSE Idle]
    /\ error = {}
    /\ failures = 0
    /\ view \in {Activity, "other"}
    /\ cancels = [j \in Runs |-> "none"]

-----------------------------------------------------------------------------
(* The server *)

Change(tb) ==
    /\ data[tb] < MaxVersion
    /\ data' = [data EXCEPT ![tb] = @ + 1]
    /\ UNCHANGED <<phase, runs, revoked, page, refreshes, failures, cancels>>

QueueStep(Step(_)) ==
    /\ phase' \in [Runs -> Statuses]
    /\ runs' \in [Runs -> 0..MaxAttempts]
    /\ revoked' \in [Runs -> BOOLEAN]
    /\ \E j \in Runs : Step(j) /\ \A k \in Runs \ {j} : Queue!Stay(k)

\* Discovery, scans and sends add rows, workers run and end them.
WorkerMoves(j) ==
    \/ Queue!Accept(j) \/ Queue!Run(j) \/ Queue!PutBack(j) \/ Queue!Finish(j)
    \/ Queue!GiveUp(j) \/ (revoked[j] /\ Queue!Cancel(j))

Work ==
    /\ QueueStep(WorkerMoves)
    /\ UNCHANGED <<data, page, refreshes, failures, cancels>>

\* A row that has ended is returned as it is.
Stops(j) ==
    CASE phase[j] = "queued"  -> Queue!Cancel(j)
      [] phase[j] = "running" -> Queue!Revoke(j)
      [] OTHER                -> Queue!Stay(j)

CancelArrives(j) ==
    /\ cancels[j] = "sent"
    /\ QueueStep(LAMBDA k : k = j /\ Stops(k))
    /\ cancels' = [cancels EXCEPT ![j] = "answered"]
    /\ UNCHANGED <<data, page, refreshes, failures>>

-----------------------------------------------------------------------------
(* The page *)

\* The timer of the activity view, the Refresh button, the end of an operation.
StartRefresh ==
    /\ \E s \in Slots :
          /\ refreshes[s] = Idle
          /\ refreshes' = [refreshes EXCEPT ![s] = NothingRead]
    /\ error' = {}
    /\ UNCHANGED <<server, shown, list, view, failures, cancels>>

\* The nine requests of a refresh are served side by side.
Read(s, tb) ==
    /\ refreshes[s] # Idle /\ refreshes[s][tb] = Unread
    /\ \/ /\ tb \notin Broken
          /\ refreshes' = [refreshes EXCEPT ![s][tb] = IF tb = Activity THEN phase ELSE data[tb]]
          /\ UNCHANGED failures
       \/ /\ refreshes' = [refreshes EXCEPT ![s][tb] = Failed]
          /\ tb \in Broken \/ failures < MaxFailures
          /\ failures' = IF tb \in Broken THEN failures ELSE failures + 1
    /\ UNCHANGED <<server, page, cancels>>

\* Mutant: Promise.all instead of Promise.allSettled.
FulfilledTogether(s) == {tb \in All : \A other \in All : refreshes[s][other] # Failed}

\* Mutant: the result of a request is applied without looking at it.
FulfilledOrNot(s) == All

Fulfilled(s) == {tb \in All : refreshes[s][tb] # Failed}

\* Mutant: a warning only if nothing could be loaded.
WarnedIfAllFail(s) == IF Fulfilled(s) = {} THEN All ELSE error

Warned(s) == IF Fulfilled(s) = All THEN error ELSE All \ Fulfilled(s)

EndRefresh(s) ==
    /\ refreshes[s] # Idle
    /\ \A tb \in All : refreshes[s][tb] # Unread
    /\ shown' = [tb \in Tables |-> IF tb \in Fulfilled(s) THEN refreshes[s][tb] ELSE shown[tb]]
    /\ list' = IF Activity \in Fulfilled(s) THEN refreshes[s][Activity] ELSE list
    /\ error' = Warned(s)
    /\ refreshes' = [refreshes EXCEPT ![s] = Idle]
    /\ UNCHANGED <<server, view, failures, cancels>>

\* setView, or the browser's back button: nothing under way is stopped.
SetView(v) ==
    /\ view # v
    /\ view' = v
    /\ UNCHANGED <<server, shown, list, error, refreshes, failures, cancels>>

Cancel(j) ==
    /\ view = Activity
    /\ list[j] \in {"queued", "running"}
    /\ cancels[j] = "none"
    /\ cancels' = [cancels EXCEPT ![j] = "sent"]
    /\ UNCHANGED <<server, page, refreshes, failures>>

\* Mutant: the row is shown as cancelled while the request is under way.
OverlayAtOnce(j) == cancels[j] # "none"

Overlay(j) == cancels[j] = "answered"

\* The answer overlays the status, whatever status it carries.
CancelReturns(j) ==
    /\ Overlay(j)
    /\ list' = [list EXCEPT ![j] = "cancelled"]
    /\ cancels' = [cancels EXCEPT ![j] = IF @ = "sent" THEN @ ELSE "none"]
    /\ UNCHANGED <<server, shown, error, view, refreshes, failures>>

\* The answer is lost, on its way there or back.
CancelIsLost(j) ==
    /\ cancels[j] # "none"
    /\ cancels' = [cancels EXCEPT ![j] = "none"]
    /\ UNCHANGED <<server, page, refreshes, failures>>

Timer == view = Activity /\ StartRefresh
Progress(s) == (\E tb \in All : Read(s, tb)) \/ EndRefresh(s)

Next ==
    \/ \E tb \in Tables : Change(tb)
    \/ Work
    \/ Timer \/ StartRefresh
    \/ \E s \in Slots : Progress(s)
    \/ \E v \in {Activity, "other"} : SetView(v)
    \/ \E j \in Runs : Cancel(j) \/ CancelArrives(j) \/ CancelReturns(j) \/ CancelIsLost(j)

Spec == Init /\ [][Next]_vars

\* The interval fires as long as its view is open, and every request is answered.
FairSpec == Spec /\ WF_vars(Timer) /\ \A s \in Slots : WF_vars(Progress(s))

-----------------------------------------------------------------------------
(* Properties *)

\* A run that is shown as cancelled does not wait for a worker any more and does
\* not go on unstopped, whatever refreshes overtake the cancel request and whoever
\* else moves the row (ActivityView).
ShownCancelledIsStopped ==
    \A j \in Runs : list[j] = "cancelled" =>
        /\ phase[j] # "queued"
        /\ phase[j] = "running" => revoked[j]

\* Once all refreshes are over, a panel that is empty because its table could
\* never be loaded comes with the warning of refreshError.
EmptyIsReported ==
    (\A s \in Slots : refreshes[s] = Idle) =>
        \A tb \in Tables : shown[tb] = Unread => error # {}

\* If the activity view stays open, every table that can be read is current in the
\* end, although other tables fail and refreshes overtake each other; so are the
\* runs, once the user stops cancelling them.
CatchesUp ==
    <>[](view = Activity) =>
        /\ \A tb \in Tables \ Broken : <>[](shown[tb] = data[tb])
        /\ (\A j \in Runs : <>[](cancels[j] = "none")) => <>[](list = phase)

\* "Run cancelled." is true when it is said.
\* Does not hold: see the README.
CancelledIsTrue ==
    [][\A j \in Runs : (cancels[j] = "answered" /\ list'[j] = "cancelled" /\ list[j] # "cancelled"
                        /\ cancels'[j] = "none")
                       => phase[j] = "cancelled" \/ revoked[j]]_vars
=============================================================================
