----------------------------- MODULE MCDesktop ------------------------------
(* The parts of Desktop on small instances.  A part is explored in scenes:    *)
(* "scene" says which, and what the actors that are not in it may not do.     *)
EXTENDS Desktop, Sequences, TLC

CONSTANTS f1, a1, a2, b1, b2, j1, w1, t1, t2, r1, r2, u1, g1, p1, p2

VARIABLE scene

PartOf == [forms |-> "forms", runs |-> "runs", sites |-> "runs", tabs |-> "sender",
           batches |-> "sender", pipe |-> "pipe", scans |-> "replies",
           table |-> "replies"]

OneEach == (a1 :> b1) @@ (a2 :> b2)      \* every application is to a firm of its own
Caps    == [auto |-> 1, yc |-> 2]

\* A part that is idle has one initial state, and contacts that are not verified are in
\* the scene of the pages.
MCInit ==
    /\ scene \in DOMAIN PartOf
    /\ part = PartOf[scene]
    /\ Init
    /\ part = "forms" \/ formsStatus = [f \in FormIds |-> "found"]
    /\ scene = "tabs" \/ senderDoubtful = {}

AtMostOne(S) == Cardinality(S) <= 1
NotFree(runs, Runs) == {r \in Runs : runs[r] # [pc |-> "free"]}

\* Two runs on LinkedIn, one job each, or one run anywhere and a crash.
RunsInScene ==
    IF scene = "runs"
    THEN /\ runCrashes = 0
         /\ \A r \in NotFree(runRuns, Applications) :
                runRuns[r].kind \notin Platforms /\ runRuns[r].jobs <= 1
    ELSE AtMostOne(NotFree(runRuns, Applications))

\* Two pages and one batch, or one page and two batches and a crash.
SenderInScene ==
    IF scene = "tabs"
    THEN senderCrashes = 0 /\ AtMostOne(NotFree(senderRuns, Batches))
    ELSE AtMostOne({t \in Tabs : senderSays[t] \/ senderButton[t]
                                 \/ senderCards[t] # [a \in Apps |-> "absent"]})

\* Two scans and no page, or a page, one scan and one mail.
RepliesInScene ==
    IF scene = "scans"
    THEN \A t \in Trackers : replyAsks[t] = <<>> /\ replyChip[t] = "all"
    ELSE AtMostOne(NotFree(replyScans, Scans)) /\ Len(replyInbox) <= 1

MCNext ==
    /\ UNCHANGED scene
    /\ Next
    /\ RunsInScene' /\ SenderInScene' /\ RepliesInScene'

MCSpec == MCInit /\ [][MCNext]_<<vars, scene>>

Alike == Permutations({p1, p2}) \cup Permutations({t1, t2})

=============================================================================
