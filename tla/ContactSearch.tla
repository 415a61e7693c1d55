---------------------------- MODULE ContactSearch ----------------------------
(***************************************************************************)
(* The public contact search of OutreachView (src/frontend/app/page.tsx):   *)
(* each search is a queue row a worker runs, and a loop of the page that    *)
(* asks for the row's status and for the contacts of the selected jobs, a   *)
(* bounded number of times.  Nobody stops a loop, and several may run.      *)
(* A lead is named by the search that found it.                             *)
(***************************************************************************)
EXTENDS Naturals

CONSTANTS
    Jobs,
    Searches,
    Unread,         \* an answer that is not there yet
    Failed,         \* a request that was rejected
    MaxAttempts     \* the 40 rounds of a loop

SearchAssumption == MaxAttempts \in Nat \ {0}

VARIABLES
    status,     \* status[s]: the queue row of search s
    target,     \* target[s]: the jobs selected when s was started
    stored,     \* stored[s]: the jobs s has stored leads for
    shown,      \* shown[j]: the leads the page shows for job j
    poll        \* poll[s]: the loop of search s

vars == <<status, target, stored, shown, poll>>

Answer == {Unread, Failed} \cup SUBSET Searches
Loop   == [at : {"none", "looping", "finished", "gave up"}, attempt : 0..(MaxAttempts - 1),
           seen : {"", "going on", "ended"}, rows : [Jobs -> Answer]]

TypeOK ==
    /\ status \in [Searches -> {"absent", "queued", "running", "ended"}]
    /\ target \in [Searches -> SUBSET Jobs]
    /\ stored \in [Searches -> SUBSET Jobs]
    /\ shown  \in [Jobs -> SUBSET Searches]
    /\ poll   \in [Searches -> Loop]

NoRows  == [j \in Jobs |-> Unread]
Resting == [at |-> "none", attempt |-> 0, seen |-> "", rows |-> NoRows]

Init ==
    /\ status = [s \in Searches |-> "absent"]
    /\ target = [s \in Searches |-> {}]
    /\ stored = [s \in Searches |-> {}]
    /\ shown  = [j \in Jobs |-> {}]
    /\ poll   = [s \in Searches |-> Resting]

\* GET /jobs/{id}/contacts/public.
Contacts(j) == {s \in Searches : j \in stored[s]}

-----------------------------------------------------------------------------
(* The worker *)

Starts(s) ==
    /\ status[s] = "queued"
    /\ status' = [status EXCEPT ![s] = "running"]
    /\ UNCHANGED <<target, stored, shown, poll>>

\* All leads of a run are stored in one call, before the row is completed.
Stores(s) ==
    /\ status[s] = "running"
    /\ \E found \in SUBSET target[s] : stored' = [stored EXCEPT ![s] = @ \cup found]
    /\ UNCHANGED <<status, target, shown, poll>>

\* It ends, in one of the four final statuses, or is put back in line.
Leaves(s) ==
    /\ \/ /\ status[s] = "running"
          /\ \E x \in {"ended", "queued"} : status' = [status EXCEPT ![s] = x]
       \/ status[s] = "queued" /\ status' = [status EXCEPT ![s] = "ended"]
    /\ UNCHANGED <<target, stored, shown, poll>>

-----------------------------------------------------------------------------
(* The page *)

\* findContacts: the answer brings the leads stored so far and starts the loop,
\* unless it is lost.
FindContacts(s, chosen, heard) ==
    /\ status[s] = "absent"
    /\ chosen # {}
    /\ status' = [status EXCEPT ![s] = "queued"]
    /\ target' = [target EXCEPT ![s] = chosen]
    /\ shown' = IF heard THEN [j \in Jobs |-> IF j \in chosen THEN Contacts(j) ELSE shown[j]]
                ELSE shown
    /\ poll' = [poll EXCEPT ![s].at = IF heard THEN "looping" ELSE "none"]
    /\ UNCHANGED stored

\* One round: the status first.  A rejected request says nothing of the row, which
\* then counts as going on.
ReadStatus(s) ==
    /\ poll[s].at = "looping" /\ poll[s].seen = ""
    /\ \E x \in {status[s], "unknown"} :
          poll' = [poll EXCEPT ![s].seen = IF x = "ended" THEN x ELSE "going on"]
    /\ UNCHANGED <<status, target, stored, shown>>

\* Mutant: the contacts are asked for together with the status.
RowsAtOnce(s) == TRUE

\* The contacts are asked for when the status is there.
RowsAfter(s) == poll[s].seen # ""

\* The requests of a round run side by side, and each may be rejected.
ReadRow(s, j) ==
    /\ poll[s].at = "looping"
    /\ RowsAfter(s)
    /\ j \in target[s]
    /\ poll[s].rows[j] = Unread
    /\ \E answer \in {Contacts(j), Failed} : poll' = [poll EXCEPT ![s].rows[j] = answer]
    /\ UNCHANGED <<status, target, stored, shown>>

AllRead(s) == poll[s].seen # "" /\ \A j \in target[s] : poll[s].rows[j] # Unread

\* Mutant: a round that learnt nothing does not count.
AttemptIfEnded(s) == poll[s].attempt

Attempt(s) == poll[s].attempt + 1

\* Mutant: one round too many.
LastTooLate(s) == poll[s].attempt = MaxAttempts

LastRound(s) == Attempt(s) = MaxAttempts

\* The answers that came replace what is shown; the loop ends with the row or
\* with its last round.
EndRound(s) ==
    /\ poll[s].at = "looping" /\ AllRead(s)
    /\ shown' = [j \in Jobs |-> IF poll[s].rows[j] \in {Unread, Failed} THEN shown[j]
                               ELSE poll[s].rows[j]]
    /\ poll' = [poll EXCEPT ![s] =
          IF @.seen = "ended" THEN [Resting EXCEPT !.at = "finished"]
          ELSE IF LastRound(s) THEN [Resting EXCEPT !.at = "gave up"]
          ELSE [Resting EXCEPT !.at = "looping", !.attempt = Attempt(s)]]
    /\ UNCHANGED <<status, target, stored>>

PollStep(s) == ReadStatus(s) \/ (\E j \in Jobs : ReadRow(s, j)) \/ EndRound(s)

Next ==
    \E s \in Searches :
        \/ Starts(s) \/ Stores(s) \/ Leaves(s) \/ PollStep(s)
        \/ \E chosen \in SUBSET Jobs, heard \in BOOLEAN : FindContacts(s, chosen, heard)

Spec == Init /\ [][Next]_vars

\* Requests end, one way or the other, and timers fire; a worker takes the row.
FairSpec == Spec /\ \A s \in Searches : WF_vars(PollStep(s)) /\ WF_vars(Starts(s))
                                        /\ WF_vars(Leaves(s))

-----------------------------------------------------------------------------
(* Properties *)

\* When a loop reports the end of its search, the leads of that search are on the
\* page for every job whose request was answered, however the worker's storing
\* and completing fell between the requests of the last round (findContacts).
FinishedShowsEverything ==
    [][\A s \in Searches :
          (poll[s].at = "looping" /\ poll'[s].at = "finished")
          => \A j \in target[s] :
                (poll[s].rows[j] # Failed /\ j \in stored[s]) => s \in shown'[j]]_vars

\* No loop of the page runs for ever, not even for a row that never ends or a
\* status that is never answered.
EveryLoopEnds == \A s \in Searches : poll[s].at = "looping" ~> poll[s].at # "looping"

\* "We will show public leads as the worker finds them."
\* Does not hold: see the README.
LeadsAreShown ==
    \A s \in Searches, j \in Jobs :
        (j \in stored[s] /\ poll[s].at # "none") ~> (s \in shown[j])
=============================================================================
