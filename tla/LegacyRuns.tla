----------------------------- MODULE LegacyRuns -----------------------------
(***************************************************************************)
(* The automatic application runs of the desktop application: the buttons   *)
(* and boxes of src/static/app.js, the requests and background tasks of     *)
(* src/app/main.py, the budget of a day in src/app/services/                *)
(* linkedin_apply.py and platform_apply.py, and the browser session of      *)
(* src/app/integrations/browser.py and platforms.py.  All sessions share    *)
(* one browser profile, which only one of them can open at a time; what     *)
(* goes wrong in a session ends it quietly with the results so far.  A      *)
(* site takes an application to a job once, so every submission is of a     *)
(* further job.                                                             *)
(***************************************************************************)
EXTENDS Naturals

CONSTANTS
    Runs,           \* bound: presses of a run button in all
    Platforms,      \* the other job sites
    CapOf,          \* applications of a day on an account
    MaxJobs,        \* bound: jobs of a run
    MaxCrashes,     \* bound: crashes of the server
    None

Accounts == {"auto"} \cup Platforms             \* runs that submit
Kinds    == Accounts \cup {"assist"}            \* assisted and hard apply do not
Families == {"li", "plat"}                      \* LAST_LI_APPLY, LAST_PLATFORM
Boxes    == {"li"} \cup Platforms               \* where the page shows a run

RunsAssumption ==
    /\ CapOf \in [Accounts -> Nat \ {0}]
    /\ MaxJobs \in Nat \ {0} /\ MaxCrashes \in Nat
    /\ Platforms \cap {"auto", "assist", "li", "plat"} = {} /\ None \notin Runs

VARIABLES
    runs,       \* the requests and the runs they start
    flag,       \* flag[f]: "running"
    result,     \* result[f]: the run whose result is kept
    platform,   \* LAST_PLATFORM["platform"]
    used,       \* used[a]: applications of today, as recorded
    stop,       \* _AUTOAPPLY_STOP
    profile,    \* the run that has the browser profile open
    out,        \* requests the page has no answer to
    box,        \* box[b]: what the page says of a run
    autoOn,     \* the "auto-apply" button can be pressed
    crashes,
    applied,    \* ghost: applications submitted today
    muddled,    \* ghost: accounts with overlapping runs or a lost count
    last,       \* ghost: last[f]: the run that ended last
    told,       \* ghost: told[r]: the operator pressed "Stop" on it, and when
    ignored     \* ghost: runs that went on to another job after that

server == <<runs, flag, result, platform, used, stop, profile>>
page   == <<out, box, autoOn>>
ghost  == <<applied, muddled, last, told, ignored>>
vars   == <<server, page, crashes, ghost>>

Family(k) == IF k \in Platforms THEN "plat" ELSE "li"

Free == [pc |-> "free"]
Run  == [pc : {"posted", "asked", "begun", "session", "opening", "loop", "job", "count",
               "write", "ending", "over"},
         kind : Kinds, left : Nat, jobs : 0..MaxJobs, got : 0..MaxJobs, seen : Nat,
         notes : SUBSET {"skipped", "failed", "halted"}]

New(k) == [pc |-> "posted", kind |-> k, left |-> 0, jobs |-> 0, got |-> 0, seen |-> 0,
           notes |-> {}]

\* What is left of a run that is over; a message is only modelled of a platform.
Gone(run) ==
    IF run.kind \in Platforms THEN [run EXCEPT !.pc = "over", !.jobs = 0, !.seen = 0]
    ELSE [New(run.kind) EXCEPT !.pc = "over"]

Noted(r, what) ==
    IF runs[r].kind \in Platforms THEN runs[r].notes \cup {what} ELSE runs[r].notes

Blank == [says |-> "nothing", run |-> None, of |-> None]

TypeOK ==
    /\ \A r \in Runs : runs[r] \in {Free} \cup Run
    /\ flag \in [Families -> BOOLEAN] /\ result \in [Families -> Runs \cup {None}]
    /\ platform \in Platforms \cup {None}
    /\ used \in [Accounts -> Nat] /\ stop \in BOOLEAN
    /\ profile \in Runs \cup {None}
    /\ profile # None => runs[profile].pc \in {"loop", "job"}
    /\ out \subseteq Runs /\ autoOn \in BOOLEAN
    /\ box \in [Boxes -> [says : {"nothing", "running", "last"}, run : Runs \cup {None},
                          of : Runs \cup {None}]]
    /\ crashes \in 0..MaxCrashes
    /\ applied \in [Accounts -> Nat] /\ muddled \subseteq Accounts
    /\ last \in [Families -> Runs \cup {None}]
    /\ told \in [Runs -> {"no", "early", "open", "undone"}]
    /\ ignored \subseteq Runs \X {"early", "open", "undone"}

Init ==
    /\ runs = [r \in Runs |-> Free]
    /\ flag = [f \in Families |-> FALSE] /\ result = [f \in Families |-> None]
    /\ platform = None
    /\ used = [a \in Accounts |-> 0] /\ stop = FALSE /\ profile = None
    /\ out = {} /\ box = [b \in Boxes |-> Blank] /\ autoOn = TRUE
    /\ crashes = 0
    /\ applied = [a \in Accounts |-> 0] /\ muddled = {}
    /\ last = [f \in Families |-> None]
    /\ told = [r \in Runs |-> "no"] /\ ignored = {}

At(r, pc) == runs[r].pc = pc
Goto(r, pc) == runs' = [runs EXCEPT ![r].pc = pc]
\* The task runs, from the flag to its release.
Live(r) == runs[r].pc \notin {"free", "posted", "asked", "over"}

-----------------------------------------------------------------------------
(* The page. *)

\* A button is off while its request is out; every refresh sets the one of the
\* automatic run anew.
CanPress(k) ==
    IF k = "auto" THEN autoOn ELSE \A r \in out : runs[r].kind # k

Press(r, k) ==
    /\ runs[r] = Free /\ CanPress(k)
    /\ runs' = [runs EXCEPT ![r] = New(k)]
    /\ out' = out \cup {r}
    /\ autoOn' = IF k = "auto" THEN FALSE ELSE autoOn
    /\ UNCHANGED <<flag, result, platform, used, stop, profile, box, crashes, ghost>>

Answer(r) ==
    /\ r \in out /\ ~ At(r, "posted")
    /\ out' = out \ {r}
    /\ autoOn' = IF runs[r].kind = "auto" THEN TRUE ELSE autoOn
    /\ UNCHANGED <<server, box, crashes, ghost>>

Shown(f) ==
    IF flag[f] THEN [Blank EXCEPT !.says = "running"]
    ELSE [says |-> "last", run |-> result[f], of |-> last[f]]

\* An empty result leaves the box as it is.
Shows(f, b) ==
    IF flag[f] \/ result[f] # None THEN [box EXCEPT ![b] = Shown(f)] ELSE box

RenderLiStatus ==
    /\ box' = Shows("li", "li") /\ autoOn' = ~ flag["li"]
    /\ UNCHANGED <<server, out, crashes, ghost>>

RenderPlatformRun ==
    /\ platform # None
    /\ box' = Shows("plat", platform)
    /\ UNCHANGED <<server, out, autoOn, crashes, ghost>>

\* The button is there while the box says that a run is on.
StopLiAuto ==
    /\ box["li"].says = "running"
    /\ stop' = TRUE
    /\ told' = [r \in Runs |->
          IF ~ Live(r) \/ Family(runs[r].kind) # "li" THEN told[r]
          ELSE IF runs[r].kind = "auto" /\ runs[r].pc \in {"opening", "loop", "job"} THEN "open"
          ELSE IF told[r] = "no" THEN "early" ELSE told[r]]
    /\ UNCHANGED <<runs, flag, result, platform, used, profile, page, crashes, applied, muddled,
                   last, ignored>>

-----------------------------------------------------------------------------
(* Requests and tasks. *)

\* The flag is read in the request, and set by the task it leaves behind.
Serve(r) ==
    /\ At(r, "posted")
    /\ Goto(r, IF flag[Family(runs[r].kind)] THEN "over" ELSE "asked")
    /\ UNCHANGED <<flag, result, platform, used, stop, profile, page, crashes, ghost>>

Begin(r) ==
    /\ At(r, "asked")
    /\ LET k == runs[r].kind IN
       /\ flag' = [flag EXCEPT ![Family(k)] = TRUE]
       /\ platform' = IF k \in Platforms THEN k ELSE platform
       /\ muddled' = muddled \cup
             {a \in Accounts : a = k /\ \E o \in Runs \ {r} : Live(o) /\ runs[o].kind = a}
    /\ Goto(r, "begun")
    /\ UNCHANGED <<result, used, stop, profile, page, crashes, applied, last, told, ignored>>

\* Mutant: what was recorded earlier today is forgotten.
WholeCap(a) == CapOf[a]

Remaining(a) == IF used[a] >= CapOf[a] THEN 0 ELSE CapOf[a] - used[a]

\* Ends with a message at once when the cap is reached or nothing is queued.
ReadBudget(r) ==
    /\ At(r, "begun")
    /\ LET k == runs[r].kind
           left == IF k \in Accounts THEN Remaining(k) ELSE MaxJobs
       IN \E n \in 0..MaxJobs :
            /\ k = "auto" => n <= left
            /\ IF left = 0 \/ (n = 0 /\ k \notin Platforms)
               THEN /\ Goto(r, "ending") /\ result' = [result EXCEPT ![Family(k)] = r]
               ELSE /\ runs' = [runs EXCEPT ![r].pc = "session", ![r].left = left, ![r].jobs = n]
                    /\ UNCHANGED result
    /\ UNCHANGED <<flag, platform, used, stop, profile, page, crashes, ghost>>

\* An automatic LinkedIn session starts by forgetting an earlier "Stop".
StartSession(r) ==
    /\ At(r, "session")
    /\ IF runs[r].kind = "auto"
       THEN /\ stop' = FALSE
            /\ told' = [o \in Runs |-> IF told[o] = "open" THEN "undone" ELSE told[o]]
       ELSE UNCHANGED <<stop, told>>
    /\ Goto(r, "opening")
    /\ UNCHANGED <<flag, result, platform, used, profile, page, crashes, applied, muddled, last,
                   ignored>>

Opens(r) ==
    IF profile = None
    THEN /\ profile' = r /\ Goto(r, "loop")
    ELSE /\ runs' = [runs EXCEPT ![r].pc = "count", ![r].notes = Noted(r, "failed")]
         /\ UNCHANGED profile

\* Mutant: "Stop" is forgotten when the window is there, not before.
OpenAndForget(r) ==
    /\ At(r, "opening") /\ Opens(r)
    /\ stop' = IF runs[r].kind = "auto" THEN FALSE ELSE stop
    /\ UNCHANGED <<flag, result, platform, used, page, crashes, ghost>>

Open(r) ==
    /\ At(r, "opening") /\ Opens(r)
    /\ UNCHANGED <<flag, result, platform, used, stop, page, crashes, ghost>>

\* The top of the loop over the jobs.
LoopEnds(r) ==
    \/ runs[r].jobs = 0
    \/ runs[r].kind \in Accounts /\ runs[r].got >= runs[r].left
    \/ runs[r].kind = "auto" /\ stop

NextJob(r) ==
    /\ At(r, "loop") /\ ~ LoopEnds(r)
    /\ runs' = [runs EXCEPT ![r].pc = "job", ![r].jobs = @ - 1]
    /\ ignored' = IF told[r] = "no" THEN ignored ELSE ignored \cup {<<r, told[r]>>}
    /\ UNCHANGED <<flag, result, platform, used, stop, profile, page, crashes, applied, muddled,
                   last, told>>

\* Mutant: the window stays open.
EndSessionOpen(r) ==
    /\ At(r, "loop") /\ LoopEnds(r)
    /\ Goto(r, "count")
    /\ UNCHANGED <<flag, result, platform, used, stop, profile, page, crashes, ghost>>

\* The assisted kinds hold the window, for a limited time, and close it.
EndSession(r) ==
    /\ At(r, "loop") /\ LoopEnds(r)
    /\ Goto(r, "count") /\ profile' = None
    /\ UNCHANGED <<flag, result, platform, used, stop, page, crashes, ghost>>

ApplyTo(r) ==
    /\ At(r, "job")
    /\ \/ /\ runs[r].kind \in Accounts
          /\ runs' = [runs EXCEPT ![r].pc = "loop", ![r].got = @ + 1]
          /\ applied' = [applied EXCEPT ![runs[r].kind] = @ + 1]
          /\ UNCHANGED profile
       \/ /\ runs' = [runs EXCEPT ![r].pc = "loop", ![r].notes = Noted(r, "skipped")]
          /\ UNCHANGED <<applied, profile>>
       \/ /\ runs' = [runs EXCEPT ![r].pc = "loop", ![r].notes = Noted(r, "failed")]
          /\ UNCHANGED <<applied, profile>>
       \/ /\ runs' = [runs EXCEPT ![r].pc = "count", ![r].notes = Noted(r, "halted")]
          /\ profile' = None /\ UNCHANGED applied
    /\ UNCHANGED <<flag, result, platform, used, stop, page, crashes, muddled, last, told, ignored>>

ReadUsed(r) ==
    /\ At(r, "count")
    /\ runs' = [runs EXCEPT ![r].pc = "write",
          ![r].seen = IF runs[r].kind \in Accounts THEN used[runs[r].kind] ELSE 0]
    /\ UNCHANGED <<flag, result, platform, used, stop, profile, page, crashes, ghost>>

Adds(r) == runs[r].seen + runs[r].got

Report(r) ==
    /\ At(r, "write")
    /\ used' = IF runs[r].kind \in Accounts THEN [used EXCEPT ![runs[r].kind] = Adds(r)] ELSE used
    /\ result' = [result EXCEPT ![Family(runs[r].kind)] = r]
    /\ Goto(r, "ending")
    /\ UNCHANGED <<flag, platform, stop, profile, page, crashes, ghost>>

\* The database is locked, or the session raised: no count and no result.
ReportFails(r) ==
    /\ At(r, "write")
    /\ Goto(r, "ending")
    /\ muddled' = muddled \cup ({runs[r].kind} \cap Accounts)
    /\ UNCHANGED <<flag, result, platform, used, stop, profile, page, crashes, applied, last,
                   told, ignored>>

\* Mutant: the flag falls only after a run that left a result.
ReleaseAfterResult(r) == [flag EXCEPT ![Family(runs[r].kind)] = result[Family(runs[r].kind)] # r]

Release(r) == [flag EXCEPT ![Family(runs[r].kind)] = FALSE]

End(r) ==
    /\ At(r, "ending")
    /\ flag' = Release(r)
    /\ last' = [last EXCEPT ![Family(runs[r].kind)] = r]
    /\ runs' = [runs EXCEPT ![r] = Gone(@)]
    /\ UNCHANGED <<result, platform, used, stop, profile, page, crashes, applied, muddled, told,
                   ignored>>

Crash ==
    /\ crashes < MaxCrashes /\ crashes' = crashes + 1
    /\ runs' = [r \in Runs |-> IF runs[r] = Free THEN Free ELSE Gone(runs[r])]
    /\ flag' = [f \in Families |-> FALSE] /\ result' = [f \in Families |-> None]
    /\ platform' = None /\ stop' = FALSE /\ profile' = None
    /\ muddled' = muddled \cup {a \in Accounts : \E r \in Runs : Live(r) /\ runs[r].kind = a}
    /\ UNCHANGED <<used, page, applied, last, told, ignored>>

-----------------------------------------------------------------------------

TaskStep(r) ==
    \/ Begin(r) \/ ReadBudget(r) \/ StartSession(r) \/ Open(r) \/ NextJob(r) \/ EndSession(r)
    \/ ApplyTo(r) \/ ReadUsed(r) \/ Report(r) \/ ReportFails(r) \/ End(r)

Next ==
    \/ \E r \in Runs, k \in Kinds : Press(r, k)
    \/ \E r \in Runs : Answer(r) \/ Serve(r) \/ TaskStep(r)
    \/ RenderLiStatus \/ RenderPlatformRun \/ StopLiAuto \/ Crash

Spec == Init /\ [][Next]_vars

\* A task that is left behind runs; so do the timers of the page.
FairSpec == Spec /\ (\A r \in Runs : WF_vars(TaskStep(r))) /\ WF_vars(RenderLiStatus)

-----------------------------------------------------------------------------
(* Properties. *)

\* Runs that neither overlap nor lose their count keep the day's cap together,
\* however many there are (the budget and the count of autoapply).
CapHoldsInTurn == \A a \in Accounts \ muddled : applied[a] <= CapOf[a]

\* "Stop" pressed while an automatic session is open, the window still opening
\* included, is heard before its next job, unless another session began since
\* (_AUTOAPPLY_STOP is cleared before the window opens).
StopIsHeard == \A r \in Runs : <<r, "open">> \notin ignored

\* Whatever becomes of a run, the button of the automatic run is given back
\* (the finally of the tasks and the polling of renderLiStatus).
ButtonReturns == ~ autoOn ~> autoOn

\* "... submit to in-scope Easy-Apply jobs up to the daily ramp cap":
\* autoapply, whatever happens to a run.
\* Does not hold: see the README.
AppliedWithinCap == applied["auto"] <= CapOf["auto"]

\* "Stop requested — the agent will halt after the current job.": no LinkedIn
\* run that was on when "Stop" was pressed goes on to another job.
\* Does not hold: see the README.
StopHalts == ignored = {}

\* "Last run": what the page shows as the outcome of the last run is its own.
\* Does not hold: see the README.
LastRunIsLast == \A b \in Boxes : box[b].says = "last" => box[b].run = box[b].of

\* "0 applied - every matching job was already applied to, or none were found":
\* a run of which the page says so has not failed on a job, nor to open its window.
\* Does not hold: see the README.
SaysNothingLeft(r) ==
    /\ runs[r].kind \in Platforms /\ runs[r].left > 0
    /\ runs[r].got = 0 /\ runs[r].notes \cap {"skipped", "halted"} = {}
NothingLeftIsTrue ==
    \A b \in Platforms : LET r == box[b].run IN
        (r # None /\ SaysNothingLeft(r)) => "failed" \notin runs[r].notes

=============================================================================
