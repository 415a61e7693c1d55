----------------------------- MODULE DesktopProofs -----------------------------
(***************************************************************************)
(* The safety properties of Desktop, for any number of runs, pages and     *)
(* rows.  There is one invariant per part, under its own heading, and      *)
(* DesktopInv says that the invariant of the part a behaviour is about     *)
(* holds.                                                                  *)
(***************************************************************************)
EXTENDS Desktop, FiniteSetTheorems, SequenceTheorems, WellFoundedInduction, TLAPS

-----------------------------------------------------------------------------
(* The referral forms *)

FillRun    == [pc : {"posted", "asked", "list", "next", "reading"},
               todo : SUBSET FormIds, form : FormIds \cup {Nil}]
Submission == [pc : {"posted", "checked", "open", "confirmed"}, form : FormIds]
FormGets   == {Forms!Free} \cup [pc : {"sent"}]
              \cup [pc : {"answered"}, answer : Forms!Answer]

\* A run that reads has a form, and a form that has confirmed its submission has been
\* submitted.
FormsInv ==
    /\ Forms!TypeOK
    /\ formsRuns \in [Fills -> {Forms!Free, Forms!Over} \cup FillRun]
    /\ formsSubmits \in [Submits -> {Forms!Free, Forms!Over} \cup Submission]
    /\ formsGets \in [Gets -> FormGets]
    /\ \A r \in Fills :
          formsRuns[r].pc = "reading" => formsRuns[r].form \in FormIds
    /\ \A s \in Submits :
          formsSubmits[s].pc = "confirmed" => formsReal[formsSubmits[s].form] > 0
    /\ Forms!SubmittedIsReal

LEMMA FormRecords ==
  /\ Forms!Free.pc = "free" /\ Forms!Over.pc = "over"
  /\ \A x \in FillRun :
        /\ x.pc \in {"posted", "asked", "list", "next", "reading"}
        /\ x.todo \in SUBSET FormIds /\ x.form \in FormIds \cup {Nil}
  /\ \A x \in Submission :
        /\ x.pc \in {"posted", "checked", "open", "confirmed"} /\ x.form \in FormIds
  BY DEF Forms!Free, Forms!Over, FillRun, Submission

\* A submission that goes on is for the same form.
LEMMA SubmissionMoves ==
  ASSUME NEW x \in Submission, NEW p \in {"posted", "checked", "open", "confirmed"}
  PROVE  /\ [x EXCEPT !.pc = p] \in Submission /\ [x EXCEPT !.pc = p].pc = p
         /\ [x EXCEPT !.pc = p].form = x.form
  BY DEF Submission

LEMMA FormsRefreshed ==
  ASSUME FormsInv, Forms!Refresh
  PROVE  formsGets' \in [Gets -> FormGets]
  <1>1. [pc |-> "sent"] \in FormGets
    BY DEF FormGets
  <1> QED
    BY <1>1 DEF Forms!Refresh, FormsInv

LEMMA FormsStarts == ASSUME PartsAssumption, Forms!Init PROVE FormsInv
  <1>1. MaxFailures \in Nat
    BY DEF PartsAssumption, Forms!FormsAssumption
  <1>2. /\ formsRuns \in [Fills -> {Forms!Free, Forms!Over} \cup FillRun]
        /\ formsSubmits \in [Submits -> {Forms!Free, Forms!Over} \cup Submission]
        /\ formsGets \in [Gets -> FormGets]
    BY DEF Forms!Init, FormGets
  <1>3. /\ \A s \in Submits : formsSubmits[s].pc = "free"
        /\ \A r \in Fills : formsRuns[r].pc = "free"
    BY FormRecords DEF Forms!Init
  <1>4. /\ formsStatus \in [FormIds -> Forms!Statuses]
        /\ formsShown \in [FormIds -> Forms!Statuses \cup {"absent"}]
        /\ \A f \in FormIds : formsStatus[f] # "submitted"
    BY DEF Forms!Init, Forms!Statuses
  <1>5. /\ formsReal \in [FormIds -> 0..2] /\ 0 \in 0..MaxFailures
    BY <1>1 DEF Forms!Init
  <1>6. Forms!TypeOK
    BY <1>2, <1>4, <1>5 DEF Forms!Init, Forms!TypeOK
  <1> QED
    BY <1>2, <1>3, <1>4, <1>6 DEF FormsInv, Forms!SubmittedIsReal

\* What no step of a run or a submission is about.
LEMMA PageStays ==
  ASSUME FormsInv,
         UNCHANGED <<formsStatus, formsArchived, formsLinks, formsBrowser, formsRunning,
                     formsRuns, formsSubmits, formsReal, formsManual>>,
         formsGets' \in [Gets -> FormGets],
         formsShown' \in [FormIds -> Forms!Statuses \cup {"absent"}],
         formsSeen' \subseteq FormIds, formsPressed' \subseteq FormIds,
         formsBuilding' \in BOOLEAN, formsPoll' \in BOOLEAN, formsFailures' \in 0..MaxFailures
  PROVE  FormsInv'
  <1>1. Forms!TypeOK'
    BY DEF FormsInv, Forms!TypeOK, FormGets
  <1> QED
    BY <1>1 DEF FormsInv, Forms!SubmittedIsReal

LEMMA FormsPage ==
  ASSUME PartsAssumption, FormsInv,
         Forms!Poll \/ \E g \in Gets : Forms!GetStep(g) \/ Forms!RefreshFails(g)
  PROVE  FormsInv'
  <1>1. CASE Forms!Poll
    <2>1. formsGets' \in [Gets -> FormGets]
      BY <1>1, FormsRefreshed DEF Forms!Poll
    <2> QED
      BY <1>1, <2>1, PageStays DEF Forms!Poll, Forms!rows, Forms!page, Forms!ghost, FormsInv,
                                   Forms!TypeOK
  <1>2. ASSUME NEW g \in Gets, Forms!ServeForms(g)
        PROVE  FormsInv'
    <2> DEFINE answer == [status |-> [f \in FormIds |->
                                        IF Forms!Exists(f) /\ f \notin formsArchived
                                        THEN formsStatus[f] ELSE "absent"],
                          links |-> formsLinks, running |-> formsRunning]
    <2>1. answer \in Forms!Answer
      BY DEF Forms!Answer, FormsInv, Forms!TypeOK
    <2>2. [pc |-> "answered", answer |-> answer] \in FormGets
      BY <2>1 DEF FormGets
    <2>3. formsGets' = [formsGets EXCEPT ![g] = [pc |-> "answered", answer |-> answer]]
      BY <1>2 DEF Forms!ServeForms
    <2>4. formsGets' \in [Gets -> FormGets]
      <3> HIDE DEF answer
      <3> QED
        BY <2>2, <2>3 DEF FormsInv
    <2> QED
      BY <1>2, <2>4, PageStays DEF Forms!ServeForms, Forms!rows, Forms!page, Forms!ghost,
                                   FormsInv, Forms!TypeOK
  <1>3. ASSUME NEW g \in Gets, Forms!Render(g)
        PROVE  FormsInv'
    <2>1. formsGets[g].answer \in Forms!Answer
      BY <1>3 DEF Forms!Render, FormsInv, FormGets, Forms!Free
    <2>2. formsGets' \in [Gets -> FormGets]
      BY <1>3 DEF Forms!Render, FormsInv, FormGets
    <2>3. /\ formsGets[g].answer.status \in [FormIds -> Forms!Statuses \cup {"absent"}]
          /\ formsGets[g].answer.links \in SUBSET FormIds
          /\ formsGets[g].answer.running \in BOOLEAN
      BY <2>1 DEF Forms!Answer
    <2> QED
      BY <1>3, <2>2, <2>3, PageStays
         DEF Forms!Render, Forms!PollsOn, Forms!rows, Forms!ghost, FormsInv, Forms!TypeOK
  <1>4. ASSUME NEW g \in Gets, Forms!RefreshFails(g)
        PROVE  FormsInv'
    <2>1. formsGets' \in [Gets -> FormGets]
      BY <1>4 DEF Forms!RefreshFails, FormsInv, FormGets
    <2>2. formsFailures' \in 0..MaxFailures
      BY <1>4 DEF Forms!RefreshFails, FormsInv, Forms!TypeOK, PartsAssumption,
                  Forms!FormsAssumption
    <2> QED
      BY <1>4, <2>1, <2>2, PageStays DEF Forms!RefreshFails, Forms!rows, Forms!page,
                                         Forms!ghost, FormsInv, Forms!TypeOK
  <1> QED
    BY <1>1, <1>2, <1>3, <1>4 DEF Forms!GetStep

\* A run becomes x; whoever has the browser keeps it, unless it is closed.
LEMMA RunBecomes ==
  ASSUME FormsInv, NEW r \in Fills, NEW x \in {Forms!Free, Forms!Over} \cup FillRun,
         formsRuns' = [formsRuns EXCEPT ![r] = x],
         x.pc = "reading" => x.form \in FormIds,
         \/ formsBrowser' = Nil
         \/ formsBrowser' = r /\ x.pc = "reading"
         \/ formsBrowser' = formsBrowser /\ formsBrowser # r
         \/ formsBrowser' = formsBrowser /\ formsRuns[r].pc # "reading",
         formsStatus' \in [FormIds -> Forms!Statuses], formsLinks' \subseteq FormIds,
         \A f \in FormIds : formsStatus'[f] = "submitted" => formsStatus[f] = "submitted",
         formsRunning' \in BOOLEAN, formsBuilding' \in BOOLEAN, formsPoll' \in BOOLEAN,
         formsGets' \in [Gets -> FormGets], formsFailures' \in 0..MaxFailures,
         UNCHANGED <<formsArchived, formsSubmits, formsShown, formsSeen, formsPressed,
                     formsReal, formsManual>>
  PROVE  FormsInv'
  <1>1. formsRuns' \in [Fills -> {Forms!Free, Forms!Over} \cup FillRun]
    BY DEF FormsInv
  <1>2. \A o \in Fills : formsRuns'[o] = IF o = r THEN x ELSE formsRuns[o]
    BY DEF FormsInv
  <1>3. formsBrowser' \in {Nil} \cup {o \in Fills : formsRuns'[o].pc = "reading"}
                               \cup {s \in Submits : formsSubmits'[s].pc = "open"}
    BY <1>2 DEF FormsInv, Forms!TypeOK
  <1>4. Forms!TypeOK'
    BY <1>1, <1>3 DEF FormsInv, Forms!TypeOK, FormGets, FillRun
  <1>5. Forms!SubmittedIsReal'
    BY DEF FormsInv, Forms!SubmittedIsReal
  <1>6. \A o \in Fills :
          formsRuns'[o].pc = "reading" => formsRuns'[o].form \in FormIds
    BY <1>2 DEF FormsInv
  <1> QED
    BY <1>1, <1>4, <1>5, <1>6 DEF FormsInv

LEMMA FormsRuns ==
  ASSUME PartsAssumption, FormsInv, NEW r \in Fills,
         \/ Forms!PressPrefill(r) \/ Forms!ServePrefill(r) \/ Forms!PrefillFails(r)
         \/ Forms!StartTool(r) \/ Forms!RunStep(r)
  PROVE  FormsInv'
  <1>1. /\ formsStatus \in [FormIds -> Forms!Statuses] /\ formsLinks \subseteq FormIds
        /\ formsRunning \in BOOLEAN /\ formsBuilding \in BOOLEAN /\ formsPoll \in BOOLEAN
        /\ formsGets \in [Gets -> FormGets] /\ formsFailures \in 0..MaxFailures
        /\ formsRuns \in [Fills -> {Forms!Free, Forms!Over} \cup FillRun]
        /\ MaxFailures \in Nat
    BY DEF FormsInv, Forms!TypeOK, PartsAssumption, Forms!FormsAssumption
  <1>2. formsRuns[r].pc \notin {"free", "over"} => formsRuns[r] \in FillRun
    BY <1>1, FormRecords
  <1>3. CASE Forms!PressPrefill(r) \/ Forms!StartTool(r)
    <2>1. \E p \in {"posted", "list"} :
            formsRuns' = [formsRuns EXCEPT ![r] = [pc |-> p, todo |-> {}, form |-> Nil]]
      BY <1>3 DEF Forms!PressPrefill, Forms!StartTool
    <2>2. PICK p \in {"posted", "list"} :
            formsRuns' = [formsRuns EXCEPT ![r] = [pc |-> p, todo |-> {}, form |-> Nil]]
      BY <2>1
    <2> DEFINE x == [pc |-> p, todo |-> {}, form |-> Nil]
    <2>3. x \in FillRun /\ x.pc # "reading" /\ formsRuns' = [formsRuns EXCEPT ![r] = x]
      BY <2>2 DEF FillRun
    <2>4. formsRuns[r].pc # "reading"
      BY <1>3, FormRecords DEF Forms!PressPrefill, Forms!StartTool
    <2> HIDE DEF x
    <2> QED
      BY <1>1, <1>3, <2>3, <2>4, RunBecomes
         DEF Forms!PressPrefill, Forms!StartTool, Forms!rows, Forms!page, Forms!ghost
  <1>4. CASE Forms!ServePrefill(r)
    <2> DEFINE x == IF formsRunning THEN Forms!Over ELSE [formsRuns[r] EXCEPT !.pc = "asked"]
    <2>1. formsRuns[r] \in FillRun /\ formsRuns[r].pc # "reading"
      BY <1>2, <1>4 DEF Forms!ServePrefill
    <2>2. /\ formsRuns' = [formsRuns EXCEPT ![r] = x]
          /\ x \in {Forms!Over} \cup FillRun /\ x.pc # "reading"
      BY <1>4, <2>1, FormRecords DEF Forms!ServePrefill, FillRun
    <2>3. formsGets' \in [Gets -> FormGets]
      BY <1>4, FormsRefreshed DEF Forms!ServePrefill
    <2> HIDE DEF x
    <2> QED
      BY <1>1, <1>4, <2>1, <2>2, <2>3, RunBecomes
         DEF Forms!ServePrefill, Forms!rows, Forms!ghost
  <1>5. CASE Forms!PrefillFails(r)
    <2> DEFINE x == Forms!Over
    <2>1. formsFailures' \in 0..MaxFailures
      BY <1>1, <1>5 DEF Forms!PrefillFails
    <2>2. /\ formsRuns' = [formsRuns EXCEPT ![r] = x]
          /\ x \in {Forms!Over} \cup FillRun /\ x.pc # "reading"
          /\ formsRuns[r].pc # "reading"
      BY <1>5, FormRecords DEF Forms!PrefillFails
    <2> HIDE DEF x
    <2> QED
      BY <1>1, <1>5, <2>1, <2>2, RunBecomes
         DEF Forms!PrefillFails, Forms!rows, Forms!page, Forms!ghost
  <1>6. CASE Forms!Begin(r)
    <2> DEFINE x == [formsRuns[r] EXCEPT !.pc = "list"]
    <2>1. /\ formsRuns' = [formsRuns EXCEPT ![r] = x] /\ x \in FillRun
          /\ x.pc # "reading" /\ formsRuns[r].pc # "reading"
      BY <1>2, <1>6 DEF Forms!Begin, FillRun
    <2> HIDE DEF x
    <2> QED
      BY <1>1, <1>6, <2>1, RunBecomes
         DEF Forms!Begin, Forms!rows, Forms!page, Forms!ghost
  <1>7. CASE Forms!List(r)
    <2> DEFINE T == {f \in FormIds : Forms!Open(r, f)}
               x == [formsRuns[r] EXCEPT !.pc = "next", !.todo = T]
    <2>1. formsRuns[r] \in FillRun /\ formsRuns[r].pc # "reading"
      BY <1>2, <1>7 DEF Forms!List
    <2>2. formsRuns' = [formsRuns EXCEPT ![r] = x]
      BY <1>7 DEF Forms!List
    <2>3. x \in FillRun /\ x.pc # "reading"
      BY <2>1 DEF FillRun
    <2> HIDE DEF x
    <2> QED
      BY <1>1, <1>7, <2>1, <2>2, <2>3, RunBecomes
         DEF Forms!List, Forms!rows, Forms!page, Forms!ghost
  <1>8. CASE Forms!Save(r)
    <2>1. formsRuns[r] \in FillRun /\ formsRuns[r].form \in FormIds
      BY <1>2, <1>8 DEF Forms!Save, FormsInv
    <2> DEFINE x == [formsRuns[r] EXCEPT !.pc = "next", !.form = Nil]
    <2>2. /\ formsRuns' = [formsRuns EXCEPT ![r] = x] /\ x \in FillRun /\ x.pc # "reading"
      BY <1>8, <2>1 DEF Forms!Save, FillRun
    <2>3. /\ formsStatus' \in [FormIds -> Forms!Statuses] /\ formsLinks' \subseteq FormIds
          /\ \A f \in FormIds : formsStatus'[f] = "submitted" => formsStatus[f] = "submitted"
      BY <1>1, <1>8, <2>1
         DEF Forms!Save, Forms!Unread, Forms!Good, Forms!Exists, Forms!Statuses
    <2> HIDE DEF x
    <2> QED
      BY <1>1, <1>8, <2>2, <2>3, RunBecomes
         DEF Forms!Save, Forms!page, Forms!ghost
  <1>9. CASE Forms!Breaks(r)
    BY <1>1, <1>9, RunBecomes, FormRecords
       DEF Forms!Breaks, Forms!Closed, Forms!AfterRun, Forms!rows, Forms!page, Forms!ghost
  <1>10. CASE Forms!SkipMissing(r)
    <2>1. formsRuns[r] \in FillRun /\ formsRuns[r].pc # "reading"
      BY <1>2, <1>10 DEF Forms!SkipMissing
    <2>2. PICK f \in formsRuns[r].todo :
            formsRuns' = [formsRuns EXCEPT ![r].todo = @ \ {f}]
      BY <1>10 DEF Forms!SkipMissing
    <2>3. [formsRuns[r] EXCEPT !.todo = @ \ {f}] \in FillRun
      BY <2>1, FormRecords DEF FillRun
    <2> DEFINE x == [formsRuns[r] EXCEPT !.todo = formsRuns[r].todo \ {f}]
    <2>4. formsRuns' = [formsRuns EXCEPT ![r] = x] /\ x \in FillRun /\ x.pc # "reading"
      BY <2>1, <2>2, <2>3 DEF FillRun
    <2> HIDE DEF x
    <2> QED
      BY <1>1, <1>10, <2>1, <2>4, RunBecomes
         DEF Forms!SkipMissing, Forms!rows, Forms!page, Forms!ghost
  <1>11. CASE Forms!End(r)
    BY <1>1, <1>11, RunBecomes, FormRecords
       DEF Forms!End, Forms!rows, Forms!page, Forms!ghost
  <1>12. ASSUME NEW f \in FormIds, Forms!Read(r, f) PROVE FormsInv'
    <2>1. formsRuns[r] \in FillRun /\ formsRuns[r].pc = "next"
      BY <1>2, <1>12 DEF Forms!Read
    <2>2. formsRuns[r].todo \ {f} \in SUBSET FormIds
      BY <2>1, FormRecords
    <2>3. CASE formsBrowser = Nil
      <3> DEFINE x == [formsRuns[r] EXCEPT !.pc = "reading", !.form = f,
                                           !.todo = formsRuns[r].todo \ {f}]
      <3>1. x \in FillRun /\ x.pc = "reading" /\ x.form = f
        BY <2>1, <2>2 DEF FillRun
      <3>2. /\ formsRuns' = [formsRuns EXCEPT ![r] = x] /\ formsBrowser' = r
            /\ UNCHANGED <<formsStatus, formsLinks>>
        BY <1>12, <2>3 DEF Forms!Read
      <3> HIDE DEF x
      <3> QED
        BY <1>1, <1>12, <3>1, <3>2, RunBecomes DEF Forms!Read, Forms!page, Forms!ghost
    <2>4. CASE formsBrowser # Nil
      <3> DEFINE x == [formsRuns[r] EXCEPT !.todo = formsRuns[r].todo \ {f}]
      <3>1. x \in FillRun /\ x.pc # "reading"
        BY <2>1, <2>2 DEF FillRun
      <3>2. /\ formsRuns' = [formsRuns EXCEPT ![r] = x] /\ formsBrowser' = formsBrowser
            /\ Forms!Unread(r, f)
        BY <1>12, <2>4 DEF Forms!Read
      <3>3. /\ formsStatus' \in [FormIds -> Forms!Statuses]
            /\ \A g \in FormIds : formsStatus'[g] = "submitted" => formsStatus[g] = "submitted"
        BY <1>1, <3>2 DEF Forms!Unread, Forms!Statuses
      <3> HIDE DEF x
      <3> QED
        BY <1>1, <1>12, <2>1, <3>1, <3>2, <3>3, RunBecomes
           DEF Forms!Read, Forms!Unread, Forms!page, Forms!ghost
    <2> QED
      BY <2>3, <2>4
  <1> QED
    BY <1>3, <1>4, <1>5, <1>6, <1>7, <1>8, <1>9, <1>10, <1>11, <1>12 DEF Forms!RunStep

LEMMA FormsEdited ==
  ASSUME FormsInv, NEW f \in FormIds, Forms!PressMark(f) \/ Forms!Remove(f)
  PROVE  FormsInv'
  <1>1. formsGets' \in [Gets -> FormGets]
    BY FormsRefreshed DEF Forms!PressMark, Forms!Remove
  <1>2. /\ formsStatus' \in [FormIds -> Forms!Statuses] /\ formsArchived' \subseteq FormIds
        /\ formsManual' \subseteq FormIds /\ formsManual \subseteq formsManual'
        /\ \A g \in FormIds : formsStatus'[g] = "submitted" =>
              formsStatus[g] = "submitted" \/ g \in formsManual'
    BY DEF Forms!PressMark, Forms!Remove, Forms!ghost, FormsInv, Forms!TypeOK, Forms!Statuses
  <1>3. UNCHANGED <<formsLinks, formsBrowser, formsRunning, formsRuns, formsSubmits,
                    formsShown, formsSeen, formsPressed, formsBuilding, formsPoll,
                    formsFailures, formsReal>>
    BY DEF Forms!PressMark, Forms!Remove, Forms!page, Forms!ghost
  <1>4. Forms!TypeOK'
    BY <1>1, <1>2, <1>3 DEF FormsInv, Forms!TypeOK, FormGets
  <1>5. Forms!SubmittedIsReal'
    BY <1>2, <1>3 DEF FormsInv, Forms!SubmittedIsReal
  <1> QED
    BY <1>1, <1>3, <1>4, <1>5 DEF FormsInv

\* A submission becomes x, and a form is submitted more often at most.
LEMMA SubmissionBecomes ==
  ASSUME FormsInv, NEW s \in Submits, NEW x \in {Forms!Free, Forms!Over} \cup Submission,
         formsSubmits' = [formsSubmits EXCEPT ![s] = x],
         \/ formsBrowser' = Nil
         \/ formsBrowser' = s /\ x.pc = "open"
         \/ formsBrowser' = formsBrowser /\ formsBrowser # s
         \/ formsBrowser' = formsBrowser /\ formsSubmits[s].pc # "open",
         formsStatus' \in [FormIds -> Forms!Statuses], formsReal' \in [FormIds -> 0..2],
         \A f \in FormIds : formsReal[f] > 0 => formsReal'[f] > 0,
         x.pc = "confirmed" => formsReal'[x.form] > 0,
         \A f \in FormIds : formsStatus'[f] = "submitted" =>
            formsStatus[f] = "submitted" \/ formsReal'[f] > 0,
         formsGets' \in [Gets -> FormGets], formsPressed' \subseteq FormIds,
         UNCHANGED <<formsArchived, formsLinks, formsRunning, formsRuns, formsShown,
                     formsSeen, formsBuilding, formsPoll, formsFailures, formsManual>>
  PROVE  FormsInv'
  <1>1. formsSubmits' \in [Submits -> {Forms!Free, Forms!Over} \cup Submission]
    BY DEF FormsInv
  <1>2. \A o \in Submits : formsSubmits'[o] = IF o = s THEN x ELSE formsSubmits[o]
    BY DEF FormsInv
  <1>3. formsBrowser' \in {Nil} \cup {o \in Fills : formsRuns'[o].pc = "reading"}
                               \cup {o \in Submits : formsSubmits'[o].pc = "open"}
    BY <1>2 DEF FormsInv, Forms!TypeOK
  <1>4. Forms!TypeOK'
    BY <1>1, <1>3 DEF FormsInv, Forms!TypeOK, FormGets, Submission
  <1>5. Forms!SubmittedIsReal'
    BY DEF FormsInv, Forms!SubmittedIsReal
  <1>6. ASSUME NEW o \in Submits, formsSubmits'[o].pc = "confirmed"
        PROVE  formsReal'[formsSubmits'[o].form] > 0
    <2>1. CASE o = s
      BY <1>2, <1>6, <2>1
    <2>2. CASE o # s
      <3>1. formsSubmits[o].pc = "confirmed" /\ formsSubmits'[o] = formsSubmits[o]
        BY <1>2, <1>6, <2>2
      <3>2. formsSubmits[o].form \in FormIds
        BY <3>1, FormRecords DEF FormsInv
      <3> QED
        BY <3>1, <3>2 DEF FormsInv
    <2> QED
      BY <2>1, <2>2
  <1> QED
    BY <1>1, <1>4, <1>5, <1>6 DEF FormsInv

LEMMA FormsSubmissions ==
  ASSUME FormsInv, NEW s \in Submits,
         Forms!SubmitStep(s) \/ \E f \in FormIds : Forms!PressSubmit(s, f)
  PROVE  FormsInv'
  <1>1. /\ formsStatus \in [FormIds -> Forms!Statuses] /\ formsReal \in [FormIds -> 0..2]
        /\ formsGets \in [Gets -> FormGets] /\ formsPressed \subseteq FormIds
        /\ formsSubmits \in [Submits -> {Forms!Free, Forms!Over} \cup Submission]
    BY DEF FormsInv, Forms!TypeOK
  <1>2. formsSubmits[s].pc \notin {"free", "over"} =>
          formsSubmits[s] \in Submission /\ formsSubmits[s].form \in FormIds
    BY <1>1, FormRecords
  <1>3. Forms!Finish(s) => /\ formsSubmits' = [formsSubmits EXCEPT ![s] = Forms!Over]
                           /\ formsGets' \in [Gets -> FormGets]
    BY FormsRefreshed DEF Forms!Finish
  <1>4. ASSUME NEW f \in FormIds, Forms!PressSubmit(s, f) PROVE FormsInv'
    <2> DEFINE x == [pc |-> "posted", form |-> f]
    <2>1. x \in Submission /\ x.pc = "posted"
      BY DEF Submission
    <2>2. /\ formsSubmits' = [formsSubmits EXCEPT ![s] = x] /\ formsPressed' \subseteq FormIds
          /\ formsSubmits[s].pc # "open"
      BY <1>1, <1>4, FormRecords DEF Forms!PressSubmit
    <2> HIDE DEF x
    <2> QED
      BY <1>1, <1>4, <2>1, <2>2, SubmissionBecomes
         DEF Forms!PressSubmit, Forms!rows, Forms!ghost
  <1>5. CASE Forms!CheckSubmit(s)
    <2>1. [formsSubmits[s] EXCEPT !.pc = "checked"] \in Submission
          /\ [formsSubmits[s] EXCEPT !.pc = "checked"].pc = "checked"
      BY <1>2, <1>5, SubmissionMoves DEF Forms!CheckSubmit
    <2>2. PICK x \in {Forms!Over, [formsSubmits[s] EXCEPT !.pc = "checked"]} :
            /\ formsSubmits' = [formsSubmits EXCEPT ![s] = x]
            /\ formsGets' \in [Gets -> FormGets]
      BY <1>1, <1>3, <1>5 DEF Forms!CheckSubmit
    <2> QED
      BY <1>1, <1>5, <2>1, <2>2, SubmissionBecomes, FormRecords
         DEF Forms!CheckSubmit, Forms!rows, Forms!page, Forms!ghost
  <1>6. CASE Forms!OpenForm(s)
    <2>1. [formsSubmits[s] EXCEPT !.pc = "open"] \in Submission
          /\ [formsSubmits[s] EXCEPT !.pc = "open"].pc = "open"
      BY <1>2, <1>6, SubmissionMoves DEF Forms!OpenForm
    <2>2. CASE formsBrowser = Nil
      BY <1>1, <1>6, <2>1, <2>2, SubmissionBecomes
         DEF Forms!OpenForm, Forms!rows, Forms!page, Forms!ghost
    <2>3. CASE formsBrowser # Nil
      BY <1>1, <1>3, <1>6, <2>3, SubmissionBecomes, FormRecords
         DEF Forms!OpenForm, Forms!rows, Forms!page, Forms!ghost
    <2> QED
      BY <2>2, <2>3
  <1>7. CASE Forms!SubmitForm(s)
    <2> DEFINE f == formsSubmits[s].form
               x == [formsSubmits[s] EXCEPT !.pc = "confirmed"]
    <2>1. x \in Submission /\ x.pc = "confirmed" /\ x.form = f /\ f \in FormIds
      BY <1>2, <1>7, SubmissionMoves DEF Forms!SubmitForm
    <2>2. /\ formsReal' \in [FormIds -> 0..2]
          /\ \A g \in FormIds : formsReal[g] > 0 => formsReal'[g] > 0
          /\ formsSubmits' = [formsSubmits EXCEPT ![s] = x] => formsReal'[f] > 0
          /\ \/ formsSubmits' = [formsSubmits EXCEPT ![s] = Forms!Over]
             \/ formsSubmits' = [formsSubmits EXCEPT ![s] = x] /\ formsReal'[f] > 0
          /\ formsGets' \in [Gets -> FormGets]
      <3>1. CASE /\ formsReal' = [formsReal EXCEPT ![f] = IF @ = 0 THEN 1 ELSE 2]
                 /\ \/ formsSubmits' = [formsSubmits EXCEPT ![s] = x] /\ UNCHANGED formsGets
                    \/ Forms!Finish(s)
        <4>1. /\ formsReal' \in [FormIds -> 0..2] /\ formsReal'[f] > 0
              /\ \A g \in FormIds : formsReal[g] > 0 => formsReal'[g] > 0
          BY <1>1, <2>1, <3>1
        <4> QED
          BY <1>1, <1>3, <3>1, <4>1
      <3>2. CASE UNCHANGED formsReal /\ Forms!Finish(s)
        <4>1. formsSubmits'[s] = Forms!Over
          BY <1>1, <1>3, <3>2
        <4>2. formsSubmits' # [formsSubmits EXCEPT ![s] = x]
          BY <1>1, <2>1, <4>1, FormRecords
        <4> QED
          BY <1>1, <1>3, <3>2, <4>2
      <3> QED
        BY <1>7, <3>1, <3>2 DEF Forms!SubmitForm
    <2> HIDE DEF x, f
    <2>3. formsBrowser' = Nil
      BY <1>7 DEF Forms!SubmitForm
    <2>4. CASE formsSubmits' = [formsSubmits EXCEPT ![s] = Forms!Over]
      BY <1>1, <1>7, <2>2, <2>3, <2>4, SubmissionBecomes, FormRecords
         DEF Forms!SubmitForm, Forms!rows, Forms!page
    <2>5. CASE formsSubmits' = [formsSubmits EXCEPT ![s] = x]
      BY <1>1, <1>7, <2>1, <2>2, <2>3, <2>5, SubmissionBecomes
         DEF Forms!SubmitForm, Forms!rows, Forms!page
    <2> QED
      BY <2>2, <2>4, <2>5
  <1>8. CASE Forms!Record(s)
    <2> DEFINE f == formsSubmits[s].form
    <2>1. f \in FormIds /\ formsReal[f] > 0
      BY <1>2, <1>8 DEF Forms!Record, Forms!Confirmed, FormsInv
    <2>2. /\ formsStatus' \in [FormIds -> Forms!Statuses]
          /\ \A g \in FormIds : formsStatus'[g] = "submitted" =>
                formsStatus[g] = "submitted" \/ formsReal[g] > 0
      BY <1>1, <1>8, <2>1 DEF Forms!Record, Forms!Statuses
    <2>3. formsSubmits[s].pc # "open" /\ formsBrowser' \in {Nil, formsBrowser}
      BY <1>8 DEF Forms!Record, Forms!Confirmed
    <2> QED
      BY <1>1, <1>3, <1>8, <2>2, <2>3, SubmissionBecomes, FormRecords
         DEF Forms!Record, Forms!page, Forms!ghost
  <1> QED
    BY <1>4, <1>5, <1>6, <1>7, <1>8 DEF Forms!SubmitStep

LEMMA FormsStep == ASSUME PartsAssumption, FormsInv, Forms!Next PROVE FormsInv'
  BY FormsPage, FormsRuns, FormsEdited, FormsSubmissions DEF Forms!Next

-----------------------------------------------------------------------------
(* The automatic runs *)

InTurn(x) == x.pc \notin {"free", "posted", "asked", "over"}

\* A run on account a that has not yet counted what it submitted.
Counting(x, a) == InTurn(x) /\ x.pc # "ending" /\ x.kind = a

\* The jobs of a run are fixed when it reads its budget.
JobsFit(x) ==
    /\ x.pc \in {"posted", "asked", "begun", "session", "opening"} => x.got = 0
    /\ x.pc # "over" => x.got + x.jobs <= MaxJobs
    /\ x.pc = "job" => x.got + x.jobs < MaxJobs

\* What a run has left fits in what the day has left, where n are recorded.
BudgetFits(x, a, n) ==
    x.pc \in {"session", "opening", "loop", "job", "count", "write"} =>
        /\ x.left + n <= CapOf[a]
        /\ x.got <= x.left
        /\ x.pc = "job" => x.got < x.left
        /\ x.pc = "write" => x.seen = n

\* The count of an account whose runs do not overlap and lose no count: it is behind by
\* what the one run on the account has got.
CountIsRight(a) ==
    /\ \A r, o \in Applications :
          /\ InTurn(runRuns[r]) /\ runRuns[r].kind = a
          /\ InTurn(runRuns[o]) /\ runRuns[o].kind = a
          => r = o
    /\ \A r \in Applications : Counting(runRuns[r], a) =>
          /\ runApplied[a] = runUsed[a] + runRuns[r].got
          /\ BudgetFits(runRuns[r], a, runUsed[a])
    /\ (\A r \in Applications : ~ Counting(runRuns[r], a)) => runApplied[a] = runUsed[a]
    /\ runApplied[a] <= CapOf[a]

\* The window belongs to the run that works in it.
WindowIsOwned ==
    \A r \in Applications : runRuns[r].pc \in {"loop", "job"} => runProfile = r

\* A session that was told to stop still has its flag, or is over.
ToldIsStopped(r) ==
    runTold[r] = "open" =>
        \/ runRuns[r].pc = "over"
        \/ InTurn(runRuns[r]) /\ runRuns[r].kind = "auto" /\ runStop

RunsInv ==
    /\ Applies!TypeOK
    /\ runRuns \in [Applications -> {Applies!Free} \cup Applies!Run]
    /\ \A r \in Applications : runRuns[r] # Applies!Free => JobsFit(runRuns[r])
    /\ WindowIsOwned
    /\ \A a \in Applies!Accounts \ runMuddled : CountIsRight(a)
    /\ \A r \in Applications : ToldIsStopped(r)
    /\ Applies!StopIsHeard

LEMMA RunsConstants ==
  ASSUME PartsAssumption
  PROVE  /\ MaxJobs \in Nat \ {0} /\ ApplyCrashes \in Nat /\ Nil \notin Applications
         /\ \A a \in Applies!Accounts : CapOf[a] \in Nat \ {0}
         /\ Platforms \cap {"auto", "assist", "li", "plat"} = {}
         /\ \A k \in Applies!Kinds : Applies!Family(k) \in Applies!Families
         /\ Applies!Accounts \subseteq Applies!Kinds /\ "auto" \in Applies!Accounts
  BY DEF PartsAssumption, Applies!RunsAssumption, Applies!Accounts, Applies!Kinds,
         Applies!Family, Applies!Families

LEMMA RunFields ==
  /\ Applies!Free.pc = "free"
  /\ \A x \in Applies!Run :
        /\ x.pc \in {"posted", "asked", "begun", "session", "opening", "loop", "job", "count",
                     "write", "ending", "over"}
        /\ x.kind \in Applies!Kinds /\ x.left \in Nat /\ x.jobs \in 0..MaxJobs
        /\ x.got \in 0..MaxJobs /\ x.seen \in Nat
        /\ x.notes \in SUBSET {"skipped", "failed", "halted"}
  BY DEF Applies!Free, Applies!Run

LEMMA RunsStart == ASSUME PartsAssumption, Applies!Init PROVE RunsInv
  <1>1. \A r \in Applications : runRuns[r] = Applies!Free /\ runRuns[r].pc = "free"
    BY RunFields DEF Applies!Init
  <1>2. Applies!TypeOK
    <2>1. /\ Applies!Blank \in [says : {"nothing", "running", "last"},
                               run : Applications \cup {Nil}, of : Applications \cup {Nil}]
          /\ 0 \in 0..ApplyCrashes
      BY RunsConstants DEF Applies!Blank
    <2>2. /\ runFlag \in [Applies!Families -> BOOLEAN]
          /\ runResult \in [Applies!Families -> Applications \cup {Nil}]
          /\ runUsed \in [Applies!Accounts -> Nat] /\ runApplied \in [Applies!Accounts -> Nat]
          /\ runLast \in [Applies!Families -> Applications \cup {Nil}]
          /\ runTold \in [Applications -> {"no", "early", "open", "undone"}]
          /\ runIgnored \subseteq Applications \X {"early", "open", "undone"}
      BY DEF Applies!Init
    <2>3. runBox \in [Applies!Boxes -> [says : {"nothing", "running", "last"},
                          run : Applications \cup {Nil}, of : Applications \cup {Nil}]]
      BY <2>1 DEF Applies!Init
    <2> QED
      BY <1>1, <2>1, <2>2, <2>3 DEF Applies!Init, Applies!TypeOK
  <1>3. \A a \in Applies!Accounts : CountIsRight(a)
    BY <1>1, RunsConstants
       DEF Applies!Init, CountIsRight, InTurn, Counting
  <1> QED
    BY <1>1, <1>2, <1>3
       DEF Applies!Init, RunsInv, WindowIsOwned, ToldIsStopped, Applies!StopIsHeard

\* A run of an account becomes x: the count stays right if it is right of x, and
\* nothing else is counted or submitted.
LEMMA CountStep ==
  ASSUME runRuns \in [Applications -> {Applies!Free} \cup Applies!Run],
         NEW a, CountIsRight(a), NEW r \in Applications, NEW x,
         runRuns' = [runRuns EXCEPT ![r] = x],
         InTurn(x) /\ x.kind = a =>
            \/ InTurn(runRuns[r]) /\ runRuns[r].kind = a
            \/ \A o \in Applications \ {r} : ~ (InTurn(runRuns[o]) /\ runRuns[o].kind = a),
         Counting(x, a) =>
            runApplied'[a] = runUsed'[a] + x.got /\ BudgetFits(x, a, runUsed'[a]),
         Counting(runRuns[r], a) /\ ~ Counting(x, a) => runApplied'[a] = runUsed'[a],
         ~ Counting(runRuns[r], a) /\ ~ Counting(x, a) =>
            runApplied'[a] = runApplied[a] /\ runUsed'[a] = runUsed[a],
         runApplied'[a] <= CapOf[a]
  PROVE  CountIsRight(a)'
  <1>1. \A o \in Applications : runRuns'[o] = IF o = r THEN x ELSE runRuns[o]
    OBVIOUS
  <1>2. ASSUME NEW o \in Applications, NEW p \in Applications,
               InTurn(runRuns'[o]) /\ runRuns'[o].kind = a,
               InTurn(runRuns'[p]) /\ runRuns'[p].kind = a
        PROVE  o = p
    BY <1>1, <1>2 DEF CountIsRight
  <1>3. ASSUME NEW o \in Applications, Counting(runRuns'[o], a)
        PROVE  /\ runApplied'[a] = runUsed'[a] + runRuns'[o].got
               /\ BudgetFits(runRuns'[o], a, runUsed'[a])
    <2>1. CASE o = r
      BY <1>1, <1>3, <2>1
    <2>2. CASE o # r
      <3>1. runRuns'[o] = runRuns[o] /\ InTurn(runRuns[o]) /\ runRuns[o].kind = a
        BY <1>1, <1>3, <2>2 DEF Counting
      <3>2. ~ Counting(x, a)
        BY <1>1, <1>2, <2>2, <3>1 DEF Counting
      <3>3. ~ Counting(runRuns[r], a)
        BY <2>2, <3>1 DEF Counting, CountIsRight
      <3> QED
        BY <1>3, <3>1, <3>2, <3>3 DEF CountIsRight
    <2> QED
      BY <2>1, <2>2
  <1>4. ASSUME \A o \in Applications : ~ Counting(runRuns'[o], a)
        PROVE  runApplied'[a] = runUsed'[a]
    <2>1. ~ Counting(x, a)
      BY <1>1, <1>4
    <2>2. CASE Counting(runRuns[r], a)
      BY <2>1, <2>2
    <2>3. CASE ~ Counting(runRuns[r], a)
      <3>1. \A o \in Applications : ~ Counting(runRuns[o], a)
        BY <1>1, <1>4, <2>3
      <3> QED
        BY <2>1, <2>3, <3>1 DEF CountIsRight
    <2> QED
      BY <2>2, <2>3
  <1> QED
    BY <1>2, <1>3, <1>4 DEF CountIsRight

\* A run becomes x, and the browser profile goes with it.
LEMMA ApplicationBecomes ==
  ASSUME RunsInv, NEW r \in Applications, NEW x \in Applies!Run, JobsFit(x),
         runRuns' = [runRuns EXCEPT ![r] = x],
         \/ x.pc \in {"loop", "job"} /\ runProfile \in {Nil, r} /\ runProfile' = r
         \/ x.pc \notin {"loop", "job"} /\ runProfile # r /\ runProfile' = runProfile
         \/ x.pc \notin {"loop", "job"} /\ runProfile = r /\ runProfile' = Nil,
         Nil \notin Applications,
         runFlag' \in [Applies!Families -> BOOLEAN],
         runResult' \in [Applies!Families -> Applications \cup {Nil}],
         runPlatform' \in Platforms \cup {Nil},
         runUsed' \in [Applies!Accounts -> Nat], runStop' \in BOOLEAN,
         runOut' \subseteq Applications, runAutoOn' \in BOOLEAN,
         runApplied' \in [Applies!Accounts -> Nat], runMuddled' \subseteq Applies!Accounts,
         runLast' \in [Applies!Families -> Applications \cup {Nil}],
         runTold' \in [Applications -> {"no", "early", "open", "undone"}],
         runIgnored' \subseteq Applications \X {"early", "open", "undone"},
         UNCHANGED <<runBox, runCrashes>>,
         \A a \in Applies!Accounts \ runMuddled' : CountIsRight(a)',
         \A o \in Applications : ToldIsStopped(o)',
         Applies!StopIsHeard'
  PROVE  RunsInv'
  <1>1. \A o \in Applications : runRuns'[o] = IF o = r THEN x ELSE runRuns[o]
    BY DEF RunsInv
  <1>2. runRuns' \in [Applications -> {Applies!Free} \cup Applies!Run]
    BY DEF RunsInv
  <1>3. /\ runProfile' \in Applications \cup {Nil}
        /\ runProfile' # Nil => runRuns'[runProfile'].pc \in {"loop", "job"}
    BY <1>1 DEF RunsInv, Applies!TypeOK
  <1>4. WindowIsOwned'
    BY <1>1 DEF RunsInv, WindowIsOwned
  <1>5. Applies!TypeOK'
    BY <1>2, <1>3 DEF RunsInv, Applies!TypeOK
  <1>6. \A o \in Applications : runRuns'[o] # Applies!Free => JobsFit(runRuns'[o])
    BY <1>1 DEF RunsInv
  <1> QED
    BY <1>2, <1>4, <1>5, <1>6 DEF RunsInv

\* A step of a run that counts, submits and hears nothing.
LEMMA GoesOn ==
  ASSUME PartsAssumption, RunsInv, NEW r \in Applications, NEW x \in Applies!Run, JobsFit(x),
         runRuns' = [runRuns EXCEPT ![r] = x],
         \/ x.pc \in {"loop", "job"} /\ runProfile \in {Nil, r} /\ runProfile' = r
         \/ x.pc \notin {"loop", "job"} /\ runProfile # r /\ runProfile' = runProfile
         \/ x.pc \notin {"loop", "job"} /\ runProfile = r /\ runProfile' = Nil,
         x.kind = runRuns[r].kind, runRuns[r].pc # "over",
         Counting(x, x.kind) => x.got = runRuns[r].got,
         InTurn(x) => InTurn(runRuns[r]),
         InTurn(runRuns[r]) => InTurn(x) \/ x.pc = "over",
         Counting(runRuns[r], x.kind) /\ ~ Counting(x, x.kind) => runRuns[r].got = 0,
         Counting(x, x.kind) => Counting(runRuns[r], x.kind),
         \A a \in Applies!Accounts \ runMuddled :
            Counting(x, a) => BudgetFits(x, a, runUsed[a]),
         runFlag' \in [Applies!Families -> BOOLEAN],
         runResult' \in [Applies!Families -> Applications \cup {Nil}],
         runLast' \in [Applies!Families -> Applications \cup {Nil}],
         UNCHANGED <<runPlatform, runUsed, runStop, runOut, runBox, runAutoOn, runCrashes,
                     runApplied, runMuddled, runTold, runIgnored>>
  PROVE  RunsInv'
  <1>1. \A o \in Applications : runRuns'[o] = IF o = r THEN x ELSE runRuns[o]
    BY DEF RunsInv
  <1>2. ASSUME NEW a \in Applies!Accounts \ runMuddled'
        PROVE  CountIsRight(a)'
    <2>1. CountIsRight(a) /\ a \in Applies!Accounts /\ a \notin runMuddled
      BY <1>2 DEF RunsInv
    <2>2. /\ runUsed'[a] = runUsed[a] /\ runApplied'[a] = runApplied[a]
          /\ runApplied[a] <= CapOf[a] /\ runUsed[a] \in Nat
      BY <2>1 DEF CountIsRight, RunsInv, Applies!TypeOK
    <2>3. Counting(x, a) =>
            runApplied'[a] = runUsed'[a] + x.got /\ BudgetFits(x, a, runUsed'[a])
      BY <2>1, <2>2 DEF CountIsRight, Counting
    <2>4. Counting(runRuns[r], a) /\ ~ Counting(x, a) => runApplied'[a] = runUsed'[a]
      BY <2>1, <2>2 DEF CountIsRight, Counting
    <2>5. InTurn(x) /\ x.kind = a => InTurn(runRuns[r]) /\ runRuns[r].kind = a
      OBVIOUS
    <2>6. runRuns \in [Applications -> {Applies!Free} \cup Applies!Run]
      BY DEF RunsInv
    <2> QED
      BY <2>1, <2>2, <2>3, <2>4, <2>5, <2>6, CountStep
  <1>3. \A o \in Applications : ToldIsStopped(o)'
    BY <1>1 DEF RunsInv, ToldIsStopped
  <1>4. Applies!StopIsHeard'
    BY DEF RunsInv, Applies!StopIsHeard
  <1>5. /\ runPlatform \in Platforms \cup {Nil} /\ runUsed \in [Applies!Accounts -> Nat]
        /\ runStop \in BOOLEAN /\ runOut \subseteq Applications /\ runAutoOn \in BOOLEAN
        /\ runApplied \in [Applies!Accounts -> Nat] /\ runMuddled \subseteq Applies!Accounts
        /\ runTold \in [Applications -> {"no", "early", "open", "undone"}]
        /\ runIgnored \subseteq Applications \X {"early", "open", "undone"}
    BY DEF RunsInv, Applies!TypeOK
  <1>6. Nil \notin Applications
    BY RunsConstants
  <1> QED
    BY <1>2, <1>3, <1>4, <1>5, <1>6, ApplicationBecomes

\* The page and its requests: nothing of a run changes but what it was told.
LEMMA RunsStay ==
  ASSUME RunsInv,
         UNCHANGED <<runRuns, runFlag, runResult, runPlatform, runUsed, runProfile, runCrashes,
                     runApplied, runMuddled, runLast, runIgnored>>,
         runStop' \in BOOLEAN, runOut' \subseteq Applications, runAutoOn' \in BOOLEAN,
         runBox' \in [Applies!Boxes -> [says : {"nothing", "running", "last"},
                          run : Applications \cup {Nil}, of : Applications \cup {Nil}]],
         runTold' \in [Applications -> {"no", "early", "open", "undone"}],
         \A r \in Applications : ToldIsStopped(r)'
  PROVE  RunsInv'
  <1>1. \A a \in Applies!Accounts \ runMuddled' : CountIsRight(a)'
    BY DEF RunsInv, CountIsRight
  <1>2. Applies!TypeOK'
    BY DEF RunsInv, Applies!TypeOK
  <1>3. WindowIsOwned' /\ Applies!StopIsHeard'
    BY DEF RunsInv, WindowIsOwned, Applies!StopIsHeard
  <1> QED
    BY <1>1, <1>2, <1>3 DEF RunsInv

LEMMA BoxShows ==
  ASSUME RunsInv, NEW f \in Applies!Families, NEW b,
         runBox' = Applies!Shows(f, b)
  PROVE  runBox' \in [Applies!Boxes -> [says : {"nothing", "running", "last"},
                          run : Applications \cup {Nil}, of : Applications \cup {Nil}]]
  <1> DEFINE B == [says : {"nothing", "running", "last"},
                   run : Applications \cup {Nil}, of : Applications \cup {Nil}]
  <1>1. runResult[f] \in Applications \cup {Nil} /\ runLast[f] \in Applications \cup {Nil}
    BY DEF RunsInv, Applies!TypeOK
  <1>2. Applies!Shown(f) \in B
    BY <1>1 DEF Applies!Shown, Applies!Blank
  <1>3. runBox \in [Applies!Boxes -> B]
    BY DEF RunsInv, Applies!TypeOK
  <1>4. runBox' \in {runBox, [runBox EXCEPT ![b] = Applies!Shown(f)]}
    BY DEF Applies!Shows
  <1> HIDE DEF B
  <1>5. runBox' \in [Applies!Boxes -> B]
    BY <1>2, <1>3, <1>4
  <1> QED
    BY <1>5 DEF B

LEMMA RunsPage ==
  ASSUME PartsAssumption, RunsInv,
         \/ Applies!RenderLiStatus \/ Applies!RenderPlatformRun \/ Applies!StopLiAuto
         \/ \E r \in Applications : Applies!Answer(r)
  PROVE  RunsInv'
  <1>1. /\ runOut \subseteq Applications /\ runStop \in BOOLEAN /\ runAutoOn \in BOOLEAN
        /\ runTold \in [Applications -> {"no", "early", "open", "undone"}]
        /\ runBox \in [Applies!Boxes -> [says : {"nothing", "running", "last"},
                           run : Applications \cup {Nil}, of : Applications \cup {Nil}]]
        /\ runFlag \in [Applies!Families -> BOOLEAN]
        /\ {"li", "plat"} = Applies!Families
    BY DEF RunsInv, Applies!TypeOK, Applies!Families
  <1>2. CASE UNCHANGED <<runRuns, runStop, runTold>>
    <2>1. \A r \in Applications : ToldIsStopped(r)'
      BY <1>2 DEF RunsInv, ToldIsStopped
    <2>2. CASE Applies!RenderLiStatus
      <3>1. runBox' = Applies!Shows("li", "li")
        BY <2>2 DEF Applies!RenderLiStatus
      <3> QED
        BY <1>1, <2>1, <2>2, <3>1, BoxShows, RunsStay
           DEF Applies!RenderLiStatus, Applies!server, Applies!ghost
    <2>3. CASE Applies!RenderPlatformRun
      <3>1. runBox' = Applies!Shows("plat", runPlatform)
        BY <2>3 DEF Applies!RenderPlatformRun
      <3> QED
        BY <1>1, <2>1, <2>3, <3>1, BoxShows, RunsStay
           DEF Applies!RenderPlatformRun, Applies!server, Applies!ghost
    <2>4. ASSUME NEW r \in Applications, Applies!Answer(r) PROVE RunsInv'
      BY <1>1, <2>1, <2>4, RunsStay
         DEF Applies!Answer, Applies!server, Applies!ghost
    <2>5. CASE Applies!StopLiAuto
      BY <1>1, <1>2, <2>1, <2>5, RunsStay DEF Applies!StopLiAuto, Applies!page
    <2> QED
      BY <2>2, <2>3, <2>4, <2>5
  <1>3. CASE Applies!StopLiAuto
    <2>1. /\ runTold' \in [Applications -> {"no", "early", "open", "undone"}]
          /\ \A r \in Applications : runTold'[r] = "open" =>
                \/ runTold[r] = "open"
                \/ InTurn(runRuns[r]) /\ runRuns[r].kind = "auto"
      BY <1>1, <1>3 DEF Applies!StopLiAuto, Applies!Live, InTurn
    <2>2. ASSUME NEW r \in Applications PROVE ToldIsStopped(r)'
      BY <1>3, <2>1 DEF RunsInv, ToldIsStopped, Applies!StopLiAuto
    <2> QED
      BY <1>1, <1>3, <2>1, <2>2, RunsStay DEF Applies!StopLiAuto, Applies!page
  <1> QED
    BY <1>2, <1>3 DEF Applies!Answer, Applies!RenderLiStatus, Applies!RenderPlatformRun,
                      Applies!server, Applies!ghost

\* What the steps of a run start from.
LEMMA RunKnown ==
  ASSUME PartsAssumption, RunsInv, NEW r \in Applications
  PROVE  /\ runRuns \in [Applications -> {Applies!Free} \cup Applies!Run]
         /\ runFlag \in [Applies!Families -> BOOLEAN]
         /\ runResult \in [Applies!Families -> Applications \cup {Nil}]
         /\ runPlatform \in Platforms \cup {Nil} /\ runUsed \in [Applies!Accounts -> Nat]
         /\ runStop \in BOOLEAN /\ runOut \subseteq Applications /\ runAutoOn \in BOOLEAN
         /\ runApplied \in [Applies!Accounts -> Nat] /\ runMuddled \subseteq Applies!Accounts
         /\ runLast \in [Applies!Families -> Applications \cup {Nil}]
         /\ runTold \in [Applications -> {"no", "early", "open", "undone"}]
         /\ runIgnored \subseteq Applications \X {"early", "open", "undone"}
         /\ runProfile \in Applications \cup {Nil} /\ Nil \notin Applications
         /\ runProfile # Nil => runRuns[runProfile].pc \in {"loop", "job"}
         /\ runRuns[r].pc \in {"loop", "job"} => runProfile = r
         /\ runRuns[r].pc # "free" =>
               runRuns[r] \in Applies!Run /\ JobsFit(runRuns[r]) /\ runRuns[r] # Applies!Free
         /\ runRuns[r] = Applies!Free => runRuns[r].pc = "free"
         /\ \A a \in Applies!Accounts \ runMuddled : CountIsRight(a)
         /\ \A o \in Applications : ToldIsStopped(o)
         /\ Applies!StopIsHeard
  BY RunsConstants, RunFields DEF RunsInv, Applies!TypeOK, WindowIsOwned

LEMMA RunServes ==
  ASSUME PartsAssumption, RunsInv, NEW r \in Applications, Applies!Serve(r)
  PROVE  RunsInv'
  <1> DEFINE x == [runRuns[r] EXCEPT !.pc = IF runFlag[Applies!Family(runRuns[r].kind)]
                                            THEN "over" ELSE "asked"]
  <1>1. runRuns[r] \in Applies!Run /\ JobsFit(runRuns[r]) /\ runRuns[r].pc = "posted"
    BY RunKnown DEF Applies!Serve, Applies!At
  <1>2. /\ x \in Applies!Run /\ x.pc \in {"over", "asked"} /\ x.kind = runRuns[r].kind
        /\ x.got = runRuns[r].got /\ x.jobs = runRuns[r].jobs
    BY <1>1 DEF Applies!Run
  <1>3. runRuns' = [runRuns EXCEPT ![r] = x]
    BY DEF Applies!Serve, Applies!Goto
  <1> HIDE DEF x
  <1>4. JobsFit(x)
    BY <1>1, <1>2 DEF JobsFit
  <1>5. runProfile # r /\ runProfile' = runProfile
    BY <1>1, RunKnown DEF Applies!Serve
  <1> QED
    BY <1>1, <1>2, <1>3, <1>4, <1>5, RunKnown, GoesOn
       DEF Applies!Serve, Applies!page, Applies!ghost, InTurn, Counting

LEMMA RunReadsBudget ==
  ASSUME PartsAssumption, RunsInv, NEW r \in Applications, Applies!ReadBudget(r)
  PROVE  RunsInv'
  <1>1. runRuns[r] \in Applies!Run /\ JobsFit(runRuns[r]) /\ runRuns[r].pc = "begun"
    BY RunKnown DEF Applies!ReadBudget, Applies!At
  <1> DEFINE k == runRuns[r].kind
             left == IF k \in Applies!Accounts THEN Applies!Remaining(k) ELSE MaxJobs
  <1>2. /\ left \in Nat /\ k \in Applies!Kinds
        /\ k \in Applies!Accounts /\ left # 0 => left + runUsed[k] <= CapOf[k]
    <2>1. k \in Applies!Kinds
      BY <1>1, RunFields
    <2>2. k \in Applies!Accounts => CapOf[k] \in Nat /\ runUsed[k] \in Nat
      BY RunKnown, RunsConstants
    <2> QED
      BY <2>1, <2>2, RunsConstants DEF Applies!Remaining
  <1>3. PICK n \in 0..MaxJobs :
          IF left = 0 \/ (n = 0 /\ k \notin Platforms)
          THEN /\ Applies!Goto(r, "ending")
               /\ runResult' = [runResult EXCEPT ![Applies!Family(k)] = r]
          ELSE /\ runRuns' = [runRuns EXCEPT ![r].pc = "session", ![r].left = left,
                                             ![r].jobs = n]
               /\ UNCHANGED runResult
    BY DEF Applies!ReadBudget
  <1>4. runProfile # r /\ runProfile' = runProfile
    BY <1>1, RunKnown DEF Applies!ReadBudget
  <1>5. runResult' \in [Applies!Families -> Applications \cup {Nil}]
    BY <1>2, <1>3, RunKnown, RunsConstants
  <1> HIDE DEF left
  <1>6. CASE left = 0 \/ (n = 0 /\ k \notin Platforms)
    <2> DEFINE x == [runRuns[r] EXCEPT !.pc = "ending"]
    <2>1. /\ x \in Applies!Run /\ x.pc = "ending" /\ x.kind = runRuns[r].kind
          /\ x.got = runRuns[r].got /\ x.jobs = runRuns[r].jobs
      BY <1>1 DEF Applies!Run
    <2>2. runRuns' = [runRuns EXCEPT ![r] = x]
      BY <1>3, <1>6 DEF Applies!Goto
    <2> HIDE DEF x
    <2>3. JobsFit(x) /\ runRuns[r].got = 0
      BY <1>1, <2>1 DEF JobsFit
    <2> QED
      BY <1>1, <2>1, <2>2, <2>3, <1>4, <1>5, RunKnown, GoesOn
         DEF Applies!ReadBudget, Applies!page, Applies!ghost, InTurn, Counting
  <1>7. CASE ~ (left = 0 \/ (n = 0 /\ k \notin Platforms))
    <2> DEFINE x == [runRuns[r] EXCEPT !.pc = "session", !.left = left, !.jobs = n]
    <2>1. /\ x \in Applies!Run /\ x.pc = "session" /\ x.kind = k
          /\ x.got = runRuns[r].got /\ x.jobs = n /\ x.left = left
      BY <1>1, <1>2 DEF Applies!Run
    <2>2. runRuns' = [runRuns EXCEPT ![r] = x]
      BY <1>3, <1>7
    <2> HIDE DEF x
    <2>3. JobsFit(x) /\ x.got = 0
      BY <1>1, <2>1, RunsConstants DEF JobsFit
    <2>4. \A a \in Applies!Accounts : x.kind = a => BudgetFits(x, a, runUsed[a])
      BY <1>2, <1>7, <2>1, <2>3 DEF BudgetFits
    <2>5. \A a \in Applies!Accounts \ runMuddled :
             Counting(x, a) => BudgetFits(x, a, runUsed[a])
      BY <2>4 DEF Counting
    <2> QED
      BY <1>1, <2>1, <2>2, <2>3, <2>5, <1>4, <1>5, RunKnown, GoesOn
         DEF Applies!ReadBudget, Applies!page, Applies!ghost, InTurn, Counting
  <1> QED
    BY <1>6, <1>7

\* What a run that counts on an account has of it.
LEMMA RunFitted ==
  ASSUME RunsInv, NEW a \in Applies!Accounts \ runMuddled, NEW r \in Applications,
         Counting(runRuns[r], a)
  PROVE  /\ BudgetFits(runRuns[r], a, runUsed[a])
         /\ runApplied[a] = runUsed[a] + runRuns[r].got
  BY DEF RunsInv, CountIsRight

LEMMA RunOpens ==
  ASSUME PartsAssumption, RunsInv, NEW r \in Applications, Applies!Open(r)
  PROVE  RunsInv'
  <1>1. runRuns[r] \in Applies!Run /\ JobsFit(runRuns[r]) /\ runRuns[r].pc = "opening"
    BY RunKnown DEF Applies!Open, Applies!At
  <1>2. Applies!Noted(r, "failed") \in SUBSET {"skipped", "failed", "halted"}
    BY <1>1, RunFields DEF Applies!Noted
  <1>3. PICK x \in {[runRuns[r] EXCEPT !.pc = "loop"],
                    [runRuns[r] EXCEPT !.pc = "count", !.notes = Applies!Noted(r, "failed")]} :
          /\ runRuns' = [runRuns EXCEPT ![r] = x]
          /\ \/ x.pc = "loop" /\ runProfile = Nil /\ runProfile' = r
             \/ x.pc = "count" /\ runProfile # r /\ runProfile' = runProfile
    <2>1. CASE runProfile = Nil
      BY <1>1, <2>1 DEF Applies!Open, Applies!Opens, Applies!Goto, Applies!Run
    <2>2. CASE runProfile # Nil
      <3>1. runProfile # r /\ runProfile' = runProfile
        BY <1>1, <2>2, RunKnown DEF Applies!Open, Applies!Opens
      <3> QED
        BY <1>1, <2>2, <3>1 DEF Applies!Open, Applies!Opens, Applies!Run
    <2> QED
      BY <2>1, <2>2
  <1>4. /\ x \in Applies!Run /\ x.pc \in {"loop", "count"} /\ x.kind = runRuns[r].kind
        /\ x.got = runRuns[r].got /\ x.jobs = runRuns[r].jobs /\ x.left = runRuns[r].left
    <2>1. [runRuns[r] EXCEPT !.pc = "loop"] \in Applies!Run
      BY <1>1 DEF Applies!Run
    <2>2. [runRuns[r] EXCEPT !.pc = "count", !.notes = Applies!Noted(r, "failed")]
            \in Applies!Run
      BY <1>1, <1>2 DEF Applies!Run
    <2> QED
      BY <1>1, <1>3, <2>1, <2>2 DEF Applies!Run
  <1>5. JobsFit(x)
    BY <1>1, <1>4, RunFields DEF JobsFit
  <1>6. \A a \in Applies!Accounts \ runMuddled : Counting(x, a) => BudgetFits(x, a, runUsed[a])
    <2>1. ASSUME NEW a \in Applies!Accounts \ runMuddled, Counting(x, a)
          PROVE  BudgetFits(runRuns[r], a, runUsed[a])
      BY <1>1, <1>4, <2>1, RunFitted DEF Counting, InTurn
    <2> QED
      BY <1>1, <1>4, <2>1 DEF BudgetFits
  <1> QED
    BY <1>1, <1>3, <1>4, <1>5, <1>6, RunKnown, GoesOn
       DEF Applies!Open, Applies!page, Applies!ghost, InTurn, Counting

LEMMA RunEndsSession ==
  ASSUME PartsAssumption, RunsInv, NEW r \in Applications, Applies!EndSession(r)
  PROVE  RunsInv'
  <1>1. runRuns[r] \in Applies!Run /\ JobsFit(runRuns[r]) /\ runRuns[r].pc = "loop"
    BY RunKnown DEF Applies!EndSession, Applies!At
  <1> DEFINE x == [runRuns[r] EXCEPT !.pc = "count"]
  <1>2. /\ runRuns' = [runRuns EXCEPT ![r] = x]
        /\ x \in Applies!Run /\ x.pc = "count" /\ x.kind = runRuns[r].kind
        /\ x.got = runRuns[r].got /\ x.jobs = runRuns[r].jobs /\ x.left = runRuns[r].left
    BY <1>1 DEF Applies!EndSession, Applies!Goto, Applies!Run
  <1> HIDE DEF x
  <1>3. JobsFit(x)
    BY <1>1, <1>2, RunFields DEF JobsFit
  <1>4. \A a \in Applies!Accounts \ runMuddled : Counting(x, a) => BudgetFits(x, a, runUsed[a])
    <2>1. ASSUME NEW a \in Applies!Accounts \ runMuddled, Counting(x, a)
          PROVE  BudgetFits(runRuns[r], a, runUsed[a])
      BY <1>1, <1>2, <2>1, RunFitted DEF Counting, InTurn
    <2> QED
      BY <1>1, <1>2, <2>1 DEF BudgetFits
  <1>5. runProfile = r /\ runProfile' = Nil
    BY <1>1, RunKnown DEF Applies!EndSession
  <1> QED
    BY <1>1, <1>2, <1>3, <1>4, <1>5, RunKnown, GoesOn
       DEF Applies!EndSession, Applies!page, Applies!ghost, InTurn, Counting

LEMMA RunReadsUsed ==
  ASSUME PartsAssumption, RunsInv, NEW r \in Applications, Applies!ReadUsed(r)
  PROVE  RunsInv'
  <1>1. runRuns[r] \in Applies!Run /\ JobsFit(runRuns[r]) /\ runRuns[r].pc = "count"
    BY RunKnown DEF Applies!ReadUsed, Applies!At
  <1> DEFINE seen == IF runRuns[r].kind \in Applies!Accounts THEN runUsed[runRuns[r].kind] ELSE 0
             x == [runRuns[r] EXCEPT !.pc = "write", !.seen = seen]
  <1>2. seen \in Nat
    BY RunKnown
  <1>3. /\ runRuns' = [runRuns EXCEPT ![r] = x]
        /\ x \in Applies!Run /\ x.pc = "write" /\ x.kind = runRuns[r].kind /\ x.seen = seen
        /\ x.got = runRuns[r].got /\ x.jobs = runRuns[r].jobs /\ x.left = runRuns[r].left
    BY <1>1, <1>2 DEF Applies!ReadUsed, Applies!Run
  <1> HIDE DEF x
  <1>4. JobsFit(x)
    BY <1>1, <1>3, RunFields DEF JobsFit
  <1>5. \A a \in Applies!Accounts \ runMuddled : Counting(x, a) => BudgetFits(x, a, runUsed[a])
    <2>1. ASSUME NEW a \in Applies!Accounts \ runMuddled, Counting(x, a)
          PROVE  BudgetFits(runRuns[r], a, runUsed[a]) /\ x.seen = runUsed[a]
      BY <1>1, <1>3, <2>1, RunFitted DEF Counting, InTurn
    <2> QED
      BY <1>1, <1>3, <2>1 DEF BudgetFits
  <1>6. runProfile # r /\ runProfile' = runProfile
    BY <1>1, RunKnown DEF Applies!ReadUsed
  <1> QED
    BY <1>1, <1>3, <1>4, <1>5, <1>6, RunKnown, GoesOn
       DEF Applies!ReadUsed, Applies!page, Applies!ghost, InTurn, Counting

LEMMA GoneFits ==
  ASSUME NEW x \in Applies!Run, MaxJobs \in Nat
  PROVE  /\ Applies!Gone(x) \in Applies!Run /\ Applies!Gone(x).pc = "over"
         /\ Applies!Gone(x).kind = x.kind /\ JobsFit(Applies!Gone(x))
  <1>0. 0 \in 0..MaxJobs /\ 0 \in Nat
    OBVIOUS
  <1>1. CASE x.kind \in Platforms
    <2>1. Applies!Gone(x) = [x EXCEPT !.pc = "over", !.jobs = 0, !.seen = 0]
      BY <1>1 DEF Applies!Gone
    <2>2. /\ [x EXCEPT !.pc = "over", !.jobs = 0, !.seen = 0] \in Applies!Run
          /\ [x EXCEPT !.pc = "over", !.jobs = 0, !.seen = 0].pc = "over"
          /\ [x EXCEPT !.pc = "over", !.jobs = 0, !.seen = 0].kind = x.kind
      BY <1>0 DEF Applies!Run
    <2> QED
      BY <2>1, <2>2 DEF JobsFit
  <1>2. CASE x.kind \notin Platforms
    <2>1. Applies!Gone(x) = [pc |-> "over", kind |-> x.kind, left |-> 0, jobs |-> 0,
                             got |-> 0, seen |-> 0, notes |-> {}]
      BY <1>2 DEF Applies!Gone, Applies!New
    <2>2. x.kind \in Applies!Kinds
      BY RunFields
    <2> QED
      BY <1>0, <2>1, <2>2 DEF Applies!Run, JobsFit
  <1> QED
    BY <1>1, <1>2

LEMMA RunEnds ==
  ASSUME PartsAssumption, RunsInv, NEW r \in Applications, Applies!End(r)
  PROVE  RunsInv'
  <1>1. runRuns[r] \in Applies!Run /\ runRuns[r].pc = "ending"
    BY RunKnown DEF Applies!End, Applies!At
  <1> DEFINE x == Applies!Gone(runRuns[r])
  <1>2. /\ runRuns' = [runRuns EXCEPT ![r] = x]
        /\ x \in Applies!Run /\ x.pc = "over" /\ x.kind = runRuns[r].kind /\ JobsFit(x)
    BY <1>1, GoneFits, RunsConstants DEF Applies!End
  <1> HIDE DEF x
  <1>3. runProfile # r /\ runProfile' = runProfile
    BY <1>1, RunKnown DEF Applies!End
  <1>4. /\ runFlag' \in [Applies!Families -> BOOLEAN]
        /\ runLast' \in [Applies!Families -> Applications \cup {Nil}]
    BY <1>1, RunKnown, RunFields, RunsConstants DEF Applies!End, Applies!Release
  <1> QED
    BY <1>1, <1>2, <1>3, <1>4, RunKnown, GoesOn
       DEF Applies!End, Applies!page, InTurn, Counting

LEMMA RunPressed ==
  ASSUME PartsAssumption, RunsInv, NEW r \in Applications, NEW k \in Applies!Kinds,
         Applies!Press(r, k)
  PROVE  RunsInv'
  <1> DEFINE x == Applies!New(k)
  <1>1. x \in Applies!Run /\ x.pc = "posted" /\ JobsFit(x)
    BY RunsConstants DEF Applies!New, Applies!Run, JobsFit
  <1>2. runRuns' = [runRuns EXCEPT ![r] = x] /\ runRuns[r].pc = "free"
    BY RunKnown DEF Applies!Press
  <1> HIDE DEF x
  <1>3. ASSUME NEW a \in Applies!Accounts \ runMuddled' PROVE CountIsRight(a)'
    <2>1. CountIsRight(a) /\ runUsed' = runUsed /\ runApplied' = runApplied
      BY <1>3, RunKnown DEF Applies!Press, Applies!ghost
    <2>2. runApplied[a] <= CapOf[a]
      BY <2>1 DEF CountIsRight
    <2> QED
      BY <1>1, <1>2, <2>1, <2>2, RunKnown, CountStep DEF InTurn, Counting
  <1>4. \A o \in Applications : ToldIsStopped(o)'
    BY <1>1, <1>2, RunKnown DEF Applies!Press, Applies!ghost, ToldIsStopped, InTurn
  <1>5. Applies!StopIsHeard'
    BY RunKnown DEF Applies!Press, Applies!ghost, Applies!StopIsHeard
  <1>6. runProfile # r /\ runProfile' = runProfile
    BY <1>2, RunKnown DEF Applies!Press
  <1>7. runOut' \subseteq Applications /\ runAutoOn' \in BOOLEAN
    BY RunKnown DEF Applies!Press
  <1> QED
    BY <1>1, <1>2, <1>3, <1>4, <1>5, <1>6, <1>7, RunKnown, ApplicationBecomes
       DEF Applies!Press, Applies!ghost

LEMMA RunBegins ==
  ASSUME PartsAssumption, RunsInv, NEW r \in Applications, Applies!Begin(r)
  PROVE  RunsInv'
  <1>1. runRuns[r] \in Applies!Run /\ JobsFit(runRuns[r]) /\ runRuns[r].pc = "asked"
    BY RunKnown DEF Applies!Begin, Applies!At
  <1> DEFINE x == [runRuns[r] EXCEPT !.pc = "begun"]
             k == runRuns[r].kind
  <1>2. /\ runRuns' = [runRuns EXCEPT ![r] = x]
        /\ x \in Applies!Run /\ x.pc = "begun" /\ x.kind = k
        /\ x.got = runRuns[r].got /\ x.jobs = runRuns[r].jobs
    BY <1>1 DEF Applies!Begin, Applies!Goto, Applies!Run
  <1> HIDE DEF x
  <1>3. JobsFit(x) /\ x.got = 0
    BY <1>1, <1>2 DEF JobsFit
  <1>4. runMuddled' = runMuddled \cup
          {a \in Applies!Accounts : a = k /\ \E o \in Applications \ {r} :
              Applies!Live(o) /\ runRuns[o].kind = a}
    BY DEF Applies!Begin
  <1>5. ASSUME NEW a \in Applies!Accounts \ runMuddled' PROVE CountIsRight(a)'
    <2>1. CountIsRight(a) /\ runUsed' = runUsed /\ runApplied' = runApplied
      BY <1>4, <1>5, RunKnown DEF Applies!Begin
    <2>2. runApplied[a] <= CapOf[a]
      BY <2>1 DEF CountIsRight
    <2>3. k = a => \A o \in Applications \ {r} : ~ (InTurn(runRuns[o]) /\ runRuns[o].kind = a)
      BY <1>4, <1>5 DEF Applies!Live, InTurn
    <2>4. ~ InTurn(runRuns[r])
      BY <1>1 DEF InTurn
    <2>5. k = a => runApplied[a] = runUsed[a] + x.got
      <3>1. ASSUME k = a PROVE \A o \in Applications : ~ Counting(runRuns[o], a)
        BY <2>3, <2>4, <3>1 DEF Counting
      <3>2. runUsed[a] \in Nat
        BY <1>5, RunKnown
      <3> QED
        BY <1>3, <2>1, <3>1, <3>2 DEF CountIsRight
    <2>6. BudgetFits(x, a, runUsed'[a])
      BY <1>2 DEF BudgetFits
    <2> QED
      BY <1>2, <2>1, <2>2, <2>3, <2>4, <2>5, <2>6, RunKnown, CountStep DEF Counting
  <1>6. \A o \in Applications : ToldIsStopped(o)'
    <2>1. runTold' = runTold /\ runStop' = runStop
      BY DEF Applies!Begin
    <2> QED
      BY <1>1, <1>2, <2>1, RunKnown DEF ToldIsStopped, InTurn
  <1>7. Applies!StopIsHeard'
    BY RunKnown DEF Applies!Begin, Applies!StopIsHeard
  <1>8. runProfile # r /\ runProfile' = runProfile
    BY <1>1, RunKnown DEF Applies!Begin
  <1>9. /\ runFlag' \in [Applies!Families -> BOOLEAN]
        /\ runPlatform' \in Platforms \cup {Nil} /\ runMuddled' \subseteq Applies!Accounts
    BY <1>4, RunKnown DEF Applies!Begin
  <1> QED
    BY <1>2, <1>3, <1>5, <1>6, <1>7, <1>8, <1>9, RunKnown, ApplicationBecomes
       DEF Applies!Begin, Applies!page

LEMMA RunStartsSession ==
  ASSUME PartsAssumption, RunsInv, NEW r \in Applications, Applies!StartSession(r)
  PROVE  RunsInv'
  <1>1. runRuns[r] \in Applies!Run /\ JobsFit(runRuns[r]) /\ runRuns[r].pc = "session"
    BY RunKnown DEF Applies!StartSession, Applies!At
  <1> DEFINE x == [runRuns[r] EXCEPT !.pc = "opening"]
  <1>2. /\ runRuns' = [runRuns EXCEPT ![r] = x]
        /\ x \in Applies!Run /\ x.pc = "opening" /\ x.kind = runRuns[r].kind
        /\ x.got = runRuns[r].got /\ x.jobs = runRuns[r].jobs /\ x.left = runRuns[r].left
    BY <1>1 DEF Applies!StartSession, Applies!Goto, Applies!Run
  <1> HIDE DEF x
  <1>3. JobsFit(x)
    BY <1>1, <1>2 DEF JobsFit
  <1>4. ASSUME NEW a \in Applies!Accounts \ runMuddled' PROVE CountIsRight(a)'
    <2>1. /\ CountIsRight(a) /\ runUsed' = runUsed /\ runApplied' = runApplied
          /\ a \in Applies!Accounts \ runMuddled
      BY <1>4, RunKnown DEF Applies!StartSession
    <2>2. runApplied[a] <= CapOf[a]
      BY <2>1 DEF CountIsRight
    <2>3. Counting(x, a) <=> Counting(runRuns[r], a)
      BY <1>1, <1>2 DEF Counting, InTurn
    <2>4. ASSUME Counting(x, a)
          PROVE  runApplied[a] = runUsed[a] + x.got /\ BudgetFits(x, a, runUsed[a])
      <3>1. /\ BudgetFits(runRuns[r], a, runUsed[a])
            /\ runApplied[a] = runUsed[a] + runRuns[r].got
        BY <2>1, <2>3, <2>4, RunFitted
      <3> QED
        BY <1>1, <1>2, <3>1 DEF BudgetFits
    <2>5. InTurn(runRuns[r])
      BY <1>1 DEF InTurn
    <2> QED
      BY <1>2, <2>1, <2>2, <2>3, <2>4, <2>5, RunKnown, CountStep
  <1>5. \A o \in Applications : ToldIsStopped(o)'
    <2>1. CASE runRuns[r].kind = "auto"
      <3>1. \A o \in Applications : runTold'[o] # "open"
        BY <2>1 DEF Applies!StartSession
      <3> QED
        BY <3>1 DEF ToldIsStopped
    <2>2. CASE runRuns[r].kind # "auto"
      <3>1. runTold' = runTold /\ runStop' = runStop
        BY <2>2 DEF Applies!StartSession
      <3> QED
        BY <1>1, <1>2, <3>1, RunKnown DEF ToldIsStopped, InTurn
    <2> QED
      BY <2>1, <2>2
  <1>6. Applies!StopIsHeard'
    BY RunKnown DEF Applies!StartSession, Applies!StopIsHeard
  <1>7. runProfile # r /\ runProfile' = runProfile
    BY <1>1, RunKnown DEF Applies!StartSession
  <1>8. /\ runStop' \in BOOLEAN
        /\ runTold' \in [Applications -> {"no", "early", "open", "undone"}]
    BY RunKnown DEF Applies!StartSession
  <1> QED
    BY <1>2, <1>3, <1>4, <1>5, <1>6, <1>7, <1>8, RunKnown, ApplicationBecomes
       DEF Applies!StartSession, Applies!page

LEMMA RunTakesJob ==
  ASSUME PartsAssumption, RunsInv, NEW r \in Applications, Applies!NextJob(r)
  PROVE  RunsInv'
  <1>1. /\ runRuns[r] \in Applies!Run /\ JobsFit(runRuns[r]) /\ runRuns[r].pc = "loop"
        /\ runRuns[r].jobs \in 0..MaxJobs /\ runRuns[r].jobs # 0
        /\ runRuns[r].got \in 0..MaxJobs /\ runRuns[r].left \in Nat
        /\ runRuns[r].kind \in Applies!Accounts => runRuns[r].got < runRuns[r].left
    <2>1. runRuns[r] \in Applies!Run /\ JobsFit(runRuns[r]) /\ runRuns[r].pc = "loop"
      BY RunKnown DEF Applies!NextJob, Applies!At
    <2> QED
      BY <2>1, RunFields, RunsConstants DEF Applies!NextJob, Applies!LoopEnds
  <1> DEFINE n == runRuns[r].jobs - 1
             x == [runRuns[r] EXCEPT !.pc = "job", !.jobs = n]
  <1>2. n \in 0..MaxJobs
    BY <1>1, RunsConstants
  <1>3. /\ runRuns' = [runRuns EXCEPT ![r] = x]
        /\ x \in Applies!Run /\ x.pc = "job" /\ x.kind = runRuns[r].kind
        /\ x.got = runRuns[r].got /\ x.jobs = runRuns[r].jobs - 1 /\ x.left = runRuns[r].left
    BY <1>1, <1>2 DEF Applies!NextJob, Applies!Run
  <1> HIDE DEF x
  <1>4. JobsFit(x)
    BY <1>1, <1>3, RunsConstants DEF JobsFit
  <1>5. ASSUME NEW a \in Applies!Accounts \ runMuddled' PROVE CountIsRight(a)'
    <2>1. /\ CountIsRight(a) /\ runUsed' = runUsed /\ runApplied' = runApplied
          /\ a \in Applies!Accounts \ runMuddled
      BY <1>5, RunKnown DEF Applies!NextJob
    <2>2. runApplied[a] <= CapOf[a]
      BY <2>1 DEF CountIsRight
    <2>3. Counting(x, a) <=> Counting(runRuns[r], a)
      BY <1>1, <1>3 DEF Counting, InTurn
    <2>4. ASSUME Counting(x, a)
          PROVE  runApplied[a] = runUsed[a] + x.got /\ BudgetFits(x, a, runUsed[a])
      <3>1. /\ BudgetFits(runRuns[r], a, runUsed[a])
            /\ runApplied[a] = runUsed[a] + runRuns[r].got
        BY <2>1, <2>3, <2>4, RunFitted
      <3>2. x.got < x.left
        BY <1>1, <1>3, <2>1, <2>4 DEF Counting
      <3> QED
        BY <1>1, <1>3, <3>1, <3>2 DEF BudgetFits
    <2>5. InTurn(runRuns[r])
      BY <1>1 DEF InTurn
    <2> QED
      BY <1>3, <2>1, <2>2, <2>3, <2>4, <2>5, RunKnown, CountStep
  <1>6. \A o \in Applications : ToldIsStopped(o)'
    <2>1. runTold' = runTold /\ runStop' = runStop
      BY DEF Applies!NextJob
    <2> QED
      BY <1>1, <1>3, <2>1, RunKnown DEF ToldIsStopped, InTurn
  <1>7. runTold[r] # "open"
    <2>1. runTold[r] = "open" => runRuns[r].kind = "auto" /\ runStop
      BY <1>1, RunKnown DEF ToldIsStopped
    <2> QED
      BY <2>1 DEF Applies!NextJob, Applies!LoopEnds
  <1>8. /\ runIgnored' \in {runIgnored, runIgnored \cup {<<r, runTold[r]>>}}
        /\ runTold[r] \in {"no", "early", "open", "undone"}
        /\ runIgnored' # runIgnored => runTold[r] # "no"
    BY RunKnown DEF Applies!NextJob
  <1>9. runIgnored' \subseteq Applications \X {"early", "open", "undone"}
    BY <1>8, RunKnown
  <1>10. Applies!StopIsHeard'
    <2>1. ASSUME NEW o \in Applications, <<o, "open">> \in runIgnored' PROVE FALSE
      <3>1. <<o, "open">> \notin runIgnored
        BY RunKnown DEF Applies!StopIsHeard
      <3>2. <<o, "open">> = <<r, runTold[r]>>
        BY <1>8, <2>1, <3>1
      <3> QED
        BY <1>7, <3>2
    <2> QED
      BY <2>1 DEF Applies!StopIsHeard
  <1>11. runProfile = r /\ runProfile' = r
    BY <1>1, RunKnown DEF Applies!NextJob
  <1> QED
    BY <1>3, <1>4, <1>5, <1>6, <1>9, <1>10, <1>11, RunKnown, ApplicationBecomes
       DEF Applies!NextJob, Applies!page

\* A job ends: one more is submitted, or nothing is; the session may end with it.
LEMMA RunApplies ==
  ASSUME PartsAssumption, RunsInv, NEW r \in Applications, Applies!ApplyTo(r)
  PROVE  RunsInv'
  <1>1. /\ runRuns[r] \in Applies!Run /\ JobsFit(runRuns[r]) /\ runRuns[r].pc = "job"
        /\ runRuns[r].jobs \in 0..MaxJobs /\ runRuns[r].got \in 0..MaxJobs
        /\ runRuns[r].left \in Nat
        /\ \A what \in {"skipped", "failed", "halted"} :
              Applies!Noted(r, what) \in SUBSET {"skipped", "failed", "halted"}
    <2>1. runRuns[r] \in Applies!Run /\ JobsFit(runRuns[r]) /\ runRuns[r].pc = "job"
      BY RunKnown DEF Applies!ApplyTo, Applies!At
    <2> QED
      BY <2>1, RunFields DEF Applies!Noted
  <1>2. runProfile = r
    BY <1>1, RunKnown
  <1>3. CASE /\ runRuns[r].kind \in Applies!Accounts
             /\ runRuns' = [runRuns EXCEPT ![r].pc = "loop", ![r].got = @ + 1]
             /\ runApplied' = [runApplied EXCEPT ![runRuns[r].kind] = @ + 1]
             /\ UNCHANGED runProfile
    <2> DEFINE n == runRuns[r].got + 1
               x == [runRuns[r] EXCEPT !.pc = "loop", !.got = n]
    <2>1. n \in 0..MaxJobs /\ n + runRuns[r].jobs <= MaxJobs
      BY <1>1, RunsConstants DEF JobsFit
    <2>2. /\ runRuns' = [runRuns EXCEPT ![r] = x]
          /\ x \in Applies!Run /\ x.pc = "loop" /\ x.kind = runRuns[r].kind
          /\ x.got = runRuns[r].got + 1 /\ x.jobs = runRuns[r].jobs
          /\ x.left = runRuns[r].left
      BY <1>1, <1>3, <2>1 DEF Applies!Run
    <2>3. JobsFit(x)
      BY <2>1, <2>2 DEF JobsFit
    <2> HIDE DEF x, n
    <2>4. ASSUME NEW a \in Applies!Accounts \ runMuddled' PROVE CountIsRight(a)'
      <3>1. /\ CountIsRight(a) /\ runUsed' = runUsed /\ a \in Applies!Accounts \ runMuddled
            /\ runUsed[a] \in Nat /\ runApplied[a] \in Nat /\ CapOf[a] \in Nat
        BY <2>4, RunKnown, RunsConstants DEF Applies!ApplyTo
      <3>2. runApplied'[a] = IF a = runRuns[r].kind THEN runApplied[a] + 1 ELSE runApplied[a]
        BY <1>3, <3>1, RunKnown
      <3>3. runApplied[a] <= CapOf[a]
        BY <3>1 DEF CountIsRight
      <3>4. InTurn(runRuns[r]) /\ (Counting(x, a) <=> Counting(runRuns[r], a))
            /\ (Counting(x, a) <=> a = runRuns[r].kind)
        BY <1>1, <2>2 DEF Counting, InTurn
      <3>5. ASSUME a = runRuns[r].kind
            PROVE  /\ runApplied'[a] = runUsed[a] + x.got /\ BudgetFits(x, a, runUsed[a])
                   /\ runApplied'[a] <= CapOf[a]
        <4>1. /\ BudgetFits(runRuns[r], a, runUsed[a])
              /\ runApplied[a] = runUsed[a] + runRuns[r].got
          BY <3>1, <3>4, <3>5, RunFitted
        <4>2. runRuns[r].left + runUsed[a] <= CapOf[a] /\ runRuns[r].got < runRuns[r].left
          BY <1>1, <4>1 DEF BudgetFits
        <4>3. BudgetFits(x, a, runUsed[a])
          BY <1>1, <2>2, <4>2 DEF BudgetFits
        <4> QED
          BY <1>1, <2>2, <3>1, <3>2, <3>5, <4>1, <4>2, <4>3
      <3> QED
        BY <2>2, <3>1, <3>2, <3>3, <3>4, <3>5, RunKnown, CountStep
    <2>5. \A o \in Applications : ToldIsStopped(o)'
      BY <1>1, <2>2, RunKnown DEF Applies!ApplyTo, ToldIsStopped, InTurn
    <2>6. Applies!StopIsHeard'
      BY RunKnown DEF Applies!ApplyTo, Applies!StopIsHeard
    <2>7. runApplied' \in [Applies!Accounts -> Nat] /\ runProfile' = r
      BY <1>2, <1>3, RunKnown
    <2> QED
      BY <1>2, <2>2, <2>3, <2>4, <2>5, <2>6, <2>7, RunKnown, ApplicationBecomes
         DEF Applies!ApplyTo, Applies!page
  <1>4. ASSUME NEW p \in {"loop", "count"}, NEW what \in {"skipped", "failed", "halted"},
               runRuns' = [runRuns EXCEPT ![r].pc = p, ![r].notes = Applies!Noted(r, what)],
               p = "loop" => runProfile' = runProfile,
               p = "count" => runProfile' = Nil,
               UNCHANGED runApplied
        PROVE  RunsInv'
    <2> DEFINE x == [runRuns[r] EXCEPT !.pc = p, !.notes = Applies!Noted(r, what)]
    <2>1. Applies!Noted(r, what) \in SUBSET {"skipped", "failed", "halted"}
      BY <1>1
    <2>2. /\ runRuns' = [runRuns EXCEPT ![r] = x]
          /\ x \in Applies!Run /\ x.pc = p /\ x.kind = runRuns[r].kind
          /\ x.got = runRuns[r].got /\ x.jobs = runRuns[r].jobs /\ x.left = runRuns[r].left
      BY <1>1, <1>4, <2>1 DEF Applies!Run
    <2> HIDE DEF x
    <2>3. JobsFit(x)
      BY <1>1, <2>2 DEF JobsFit
    <2>4. \A a \in Applies!Accounts \ runMuddled :
             Counting(x, a) => BudgetFits(x, a, runUsed[a])
      <3>1. ASSUME NEW a \in Applies!Accounts \ runMuddled, Counting(x, a)
            PROVE  BudgetFits(runRuns[r], a, runUsed[a])
        BY <1>1, <2>2, <3>1, RunFitted DEF Counting, InTurn
      <3> QED
        BY <1>1, <2>2, <3>1 DEF BudgetFits
    <2> QED
      BY <1>1, <1>2, <1>4, <2>2, <2>3, <2>4, RunKnown, GoesOn
         DEF Applies!ApplyTo, Applies!page, InTurn, Counting
  <1> QED
    BY <1>3, <1>4 DEF Applies!ApplyTo

\* The count of the day takes up what a run has got, if the run saves it.
LEMMA RunReports ==
  ASSUME PartsAssumption, RunsInv, NEW r \in Applications,
         Applies!Report(r) \/ Applies!ReportFails(r)
  PROVE  RunsInv'
  <1>1. /\ runRuns[r] \in Applies!Run /\ JobsFit(runRuns[r]) /\ runRuns[r].pc = "write"
        /\ runRuns[r].jobs \in 0..MaxJobs /\ runRuns[r].got \in 0..MaxJobs
        /\ runRuns[r].seen \in Nat /\ runRuns[r].kind \in Applies!Kinds
    <2>1. runRuns[r] \in Applies!Run /\ JobsFit(runRuns[r]) /\ runRuns[r].pc = "write"
      BY RunKnown DEF Applies!Report, Applies!ReportFails, Applies!At
    <2> QED
      BY <2>1, RunFields
  <1> DEFINE x == [runRuns[r] EXCEPT !.pc = "ending"]
  <1>2. /\ runRuns' = [runRuns EXCEPT ![r] = x]
        /\ x \in Applies!Run /\ x.pc = "ending" /\ x.kind = runRuns[r].kind
        /\ x.got = runRuns[r].got /\ x.jobs = runRuns[r].jobs
    BY <1>1 DEF Applies!Report, Applies!ReportFails, Applies!Goto, Applies!Run
  <1> HIDE DEF x
  <1>3. JobsFit(x)
    BY <1>1, <1>2 DEF JobsFit
  <1>4. /\ runUsed' \in [Applies!Accounts -> Nat]
        /\ runResult' \in [Applies!Families -> Applications \cup {Nil}]
        /\ runMuddled' \subseteq Applies!Accounts
    <2>1. Applies!Adds(r) \in Nat
      BY <1>1 DEF Applies!Adds
    <2> QED
      BY <1>1, <2>1, RunKnown, RunsConstants
         DEF Applies!Report, Applies!ReportFails, Applies!ghost
  <1>5. ASSUME NEW a \in Applies!Accounts \ runMuddled' PROVE CountIsRight(a)'
    <2>1. /\ CountIsRight(a) /\ runApplied' = runApplied /\ a \in Applies!Accounts \ runMuddled
          /\ runUsed[a] \in Nat /\ runApplied[a] \in Nat
      BY <1>5, RunKnown DEF Applies!Report, Applies!ReportFails, Applies!ghost
    <2>2. runApplied[a] <= CapOf[a]
      BY <2>1 DEF CountIsRight
    <2>3. InTurn(runRuns[r]) /\ ~ Counting(x, a)
      BY <1>1, <1>2 DEF InTurn, Counting
    <2>4. CASE a = runRuns[r].kind
      <3>1. Applies!Report(r)
        BY <1>5, <2>1, <2>4 DEF Applies!ReportFails
      <3>2. runUsed'[a] = runRuns[r].seen + runRuns[r].got
        BY <2>1, <2>4, <3>1, RunKnown DEF Applies!Report, Applies!Adds
      <3>3. /\ BudgetFits(runRuns[r], a, runUsed[a])
            /\ runApplied[a] = runUsed[a] + runRuns[r].got
        BY <1>1, <2>1, <2>4, RunFitted DEF Counting, InTurn
      <3>4. runRuns[r].seen = runUsed[a]
        BY <1>1, <3>3 DEF BudgetFits
      <3>5. Counting(runRuns[r], a) /\ runApplied'[a] = runUsed'[a]
        BY <1>1, <2>1, <2>4, <3>2, <3>3, <3>4 DEF Counting, InTurn
      <3> QED
        BY <1>2, <2>1, <2>2, <2>3, <2>4, <3>5, RunKnown, CountStep
    <2>5. CASE a # runRuns[r].kind
      <3>1. runUsed'[a] = runUsed[a]
        BY <2>1, <2>5, RunKnown DEF Applies!Report, Applies!ReportFails
      <3>2. ~ Counting(runRuns[r], a) /\ x.kind # a
        BY <1>2, <2>5 DEF Counting
      <3> QED
        BY <1>2, <2>1, <2>2, <2>3, <3>1, <3>2, RunKnown, CountStep
    <2> QED
      BY <2>4, <2>5
  <1>6. \A o \in Applications : ToldIsStopped(o)'
    <2>1. runTold' = runTold /\ runStop' = runStop
      BY DEF Applies!Report, Applies!ReportFails, Applies!ghost
    <2> QED
      BY <1>1, <1>2, <2>1, RunKnown DEF ToldIsStopped, InTurn
  <1>7. Applies!StopIsHeard'
    BY RunKnown DEF Applies!Report, Applies!ReportFails, Applies!ghost, Applies!StopIsHeard
  <1>8. runProfile # r /\ runProfile' = runProfile
    BY <1>1, RunKnown DEF Applies!Report, Applies!ReportFails
  <1> QED
    BY <1>2, <1>3, <1>4, <1>5, <1>6, <1>7, <1>8, RunKnown, ApplicationBecomes
       DEF Applies!Report, Applies!ReportFails, Applies!page, Applies!ghost

LEMMA RunsCrash ==
  ASSUME PartsAssumption, RunsInv, Applies!Crash PROVE RunsInv'
  <1> DEFINE gone(r) == IF runRuns[r] = Applies!Free THEN Applies!Free
                        ELSE Applies!Gone(runRuns[r])
  <1>1. \A r \in Applications : runRuns'[r] = gone(r)
    BY DEF Applies!Crash
  <1>2. \A r \in Applications :
          \/ gone(r) = Applies!Free /\ gone(r).pc = "free" /\ runRuns[r] = Applies!Free
          \/ /\ gone(r) \in Applies!Run /\ gone(r).pc = "over" /\ JobsFit(gone(r))
             /\ gone(r).kind = runRuns[r].kind /\ runRuns[r] # Applies!Free
    BY GoneFits, RunKnown, RunsConstants, RunFields
  <1>3. runRuns' \in [Applications -> {Applies!Free} \cup Applies!Run]
    BY <1>2 DEF Applies!Crash
  <1> HIDE DEF gone
  <1>4. \A r \in Applications : runRuns'[r].pc \in {"free", "over"} /\ ~ InTurn(runRuns'[r])
    BY <1>1, <1>2 DEF InTurn
  <1>5. Applies!TypeOK'
    <2>1. /\ runFlag' \in [Applies!Families -> BOOLEAN]
          /\ runResult' \in [Applies!Families -> Applications \cup {Nil}]
          /\ runMuddled' \subseteq Applies!Accounts /\ runCrashes' \in 0..ApplyCrashes
      BY RunsConstants, RunKnown DEF Applies!Crash, RunsInv, Applies!TypeOK
    <2> QED
      BY <1>3, <2>1 DEF Applies!Crash, Applies!page, RunsInv, Applies!TypeOK
  <1>6. \A r \in Applications : runRuns'[r] # Applies!Free => JobsFit(runRuns'[r])
    BY <1>1, <1>2
  <1>7. WindowIsOwned'
    BY <1>4 DEF WindowIsOwned
  <1>8. ASSUME NEW a \in Applies!Accounts \ runMuddled' PROVE CountIsRight(a)'
    <2>1. /\ a \in Applies!Accounts \ runMuddled
          /\ \A r \in Applications : ~ (InTurn(runRuns[r]) /\ runRuns[r].kind = a)
      BY <1>8 DEF Applies!Crash, Applies!Live, InTurn
    <2>2. CountIsRight(a)
      BY <2>1 DEF RunsInv
    <2>3. runApplied[a] = runUsed[a] /\ runApplied[a] <= CapOf[a]
      BY <2>1, <2>2 DEF CountIsRight, Counting
    <2> QED
      BY <1>4, <2>3 DEF CountIsRight, Counting, Applies!Crash
  <1>9. \A r \in Applications : ToldIsStopped(r)'
    <2>1. ASSUME NEW r \in Applications, runTold[r] = "open" PROVE runRuns'[r].pc = "over"
      <3>1. runRuns[r] # Applies!Free
        BY <2>1, RunFields DEF RunsInv, ToldIsStopped, InTurn
      <3> QED
        BY <1>1, <1>2, <3>1
    <2> QED
      BY <2>1 DEF ToldIsStopped, Applies!Crash
  <1>10. Applies!StopIsHeard'
    BY DEF RunsInv, Applies!Crash, Applies!StopIsHeard
  <1> QED
    BY <1>3, <1>5, <1>6, <1>7, <1>8, <1>9, <1>10 DEF RunsInv

LEMMA RunsStep == ASSUME PartsAssumption, RunsInv, Applies!Next PROVE RunsInv'
  BY RunsPage, RunServes, RunReadsBudget, RunOpens, RunEndsSession, RunReadsUsed, RunEnds,
     RunPressed, RunBegins, RunStartsSession, RunTakesJob, RunApplies, RunReports, RunsCrash
     DEF Applies!Next, Applies!TaskStep

LEMMA RunsKeepCap == ASSUME RunsInv PROVE Applies!CapHoldsInTurn
  BY DEF RunsInv, CountIsRight, Applies!CapHoldsInTurn

-----------------------------------------------------------------------------
(* Review & Send *)

Willing == {a \in Apps : <<a, "verified">> \in senderApproved \/ a \in senderConfirmed}
Mailed  == {a \in Apps : senderMailed[a] > 0}

\* A batch that is under way was agreed to, and what it has sent was mailed.
BatchFits(x, willing, out) ==
    /\ x.ids \subseteq willing /\ x.todo \subseteq x.ids /\ x.sent \subseteq out
    /\ Cardinality(x.sent) <= DayCap
    /\ x.pc = "posted" => ~ x.dirty

SenderInv ==
    /\ Sender!TypeOK
    /\ senderRuns \in [Batches -> {Sender!Free, Sender!Over} \cup Sender!Run]
    /\ \A t \in Tabs : senderChecked[t] \subseteq Sender!Shown(t)
    /\ \A r \in Batches :
          senderRuns[r] \notin {Sender!Free, Sender!Over} =>
              BatchFits(senderRuns[r], Willing, Mailed)
    /\ Sender!RecordedWasMailed
    /\ Sender!MailedWithConsent

\* The module of the part has names of its own for the finite sets.
LEMMA SameFiniteSets ==
  ASSUME NEW S
  PROVE  Sender!IsFiniteSet(S) <=> IsFiniteSet(S)
  BY DEF Sender!IsFiniteSet, IsFiniteSet

LEMMA SameCardinality ==
  ASSUME NEW S
  PROVE  Sender!Cardinality(S) = Cardinality(S)
  BY DEF Sender!Cardinality, Cardinality

LEMMA SenderConstants ==
  ASSUME PartsAssumption
  PROVE  /\ IsFiniteSet(Apps) /\ Nil \notin Batches /\ Writer \notin Batches
         /\ DayCap \in Nat \ {0} /\ SendCrashes \in Nat
  <1>1. Sender!SenderAssumption
    BY DEF PartsAssumption
  <1>2. Nil \in {Nil, Writer} /\ Writer \in {Nil, Writer}
    OBVIOUS
  <1> QED
    BY <1>1, <1>2, SameFiniteSets DEF Sender!SenderAssumption

LEMMA BatchFields ==
  /\ Sender!Free.pc = "free" /\ Sender!Over.pc = "over"
  /\ \A x \in Sender!Run :
        /\ x.pc \in {"posted", "asked", "preflight", "loop", "ending"} /\ x.tab \in Tabs
        /\ x.ids \in SUBSET Apps /\ x.todo \in SUBSET Apps /\ x.sent \in SUBSET Apps
        /\ x.bad \in SUBSET Apps /\ x.dirty \in BOOLEAN
        /\ x \notin {Sender!Free, Sender!Over}
  <1>1. Sender!Free.pc = "free" /\ Sender!Over.pc = "over"
    BY DEF Sender!Free, Sender!Over
  <1>2. \A x \in Sender!Run :
        /\ x.pc \in {"posted", "asked", "preflight", "loop", "ending"} /\ x.tab \in Tabs
        /\ x.ids \in SUBSET Apps /\ x.todo \in SUBSET Apps /\ x.sent \in SUBSET Apps
        /\ x.bad \in SUBSET Apps /\ x.dirty \in BOOLEAN
    BY DEF Sender!Run
  <1> QED
    BY <1>1, <1>2

LEMMA SenderStarts == ASSUME PartsAssumption, Sender!Init PROVE SenderInv
  <1>1. /\ senderRuns \in [Batches -> {Sender!Free, Sender!Over} \cup Sender!Run]
        /\ \A r \in Batches : senderRuns[r] = Sender!Free
    BY DEF Sender!Init
  <1>2. /\ senderStatus \in [Apps -> {"drafted", "sent", "bounced"}]
        /\ Sender!Logged = {} /\ senderMailed \in [Apps -> 0..2]
        /\ \A a \in Apps : senderMailed[a] = 0
    BY DEF Sender!Init, Sender!Logged
  <1>3. /\ senderCards \in [Tabs -> [Apps -> Sender!Looks \cup {"absent"}]]
        /\ senderChecked \in [Tabs -> SUBSET Apps] /\ \A t \in Tabs : senderChecked[t] = {}
        /\ senderButton \in [Tabs -> BOOLEAN] /\ senderSays \in [Tabs -> BOOLEAN]
    BY DEF Sender!Init
  <1>4. senderCrashes \in 0..SendCrashes /\ Nil \notin Batches
    BY SenderConstants DEF Sender!Init
  <1>5. Sender!TypeOK
    BY <1>1, <1>2, <1>3, <1>4 DEF Sender!Init, Sender!TypeOK
  <1> QED
    BY <1>1, <1>2, <1>3, <1>5
       DEF SenderInv, Sender!RecordedWasMailed, Sender!MailedWithConsent

\* What the steps of a batch start from.
LEMMA BatchKnown ==
  ASSUME SenderInv, NEW r \in Batches
  PROVE  /\ senderRuns \in [Batches -> {Sender!Free, Sender!Over} \cup Sender!Run]
         /\ senderRuns[r].pc \notin {"free", "over"} =>
               senderRuns[r] \in Sender!Run /\ BatchFits(senderRuns[r], Willing, Mailed)
         /\ senderLock \in Batches \cup {Nil, Writer}
         /\ senderLock = r => senderRuns[r] \in Sender!Run /\ senderRuns[r].dirty
         /\ senderStatus \in [Apps -> {"drafted", "sent", "bounced"}]
         /\ senderDoubtful \subseteq Apps /\ senderPaused \in BOOLEAN
         /\ senderRunning \in BOOLEAN
         /\ senderWindow \subseteq Sender!Logged \X {"sent", "bounced"}
         /\ senderButton \in [Tabs -> BOOLEAN] /\ senderSays \in [Tabs -> BOOLEAN]
         /\ senderMailed \in [Apps -> 0..2] /\ senderApproved \subseteq Apps \X Sender!Looks
         /\ senderConfirmed \subseteq Apps /\ senderFlagged \subseteq Apps
         /\ Sender!RecordedWasMailed /\ Sender!MailedWithConsent
  BY BatchFields DEF SenderInv, Sender!TypeOK

\* A batch becomes x: nothing that was agreed to or mailed is taken back.
LEMMA BatchBecomes ==
  ASSUME SenderInv, NEW r \in Batches, NEW x \in {Sender!Free, Sender!Over} \cup Sender!Run,
         senderRuns' = [senderRuns EXCEPT ![r] = x],
         x \notin {Sender!Free, Sender!Over} => BatchFits(x, Willing', Mailed'),
         Willing \subseteq Willing', Mailed \subseteq Mailed',
         \/ senderLock' \in {Nil, Writer}
         \/ senderLock' = r /\ x \notin {Sender!Free, Sender!Over} /\ x.dirty
         \/ senderLock' = senderLock /\ senderLock # r,
         Nil \notin Batches, Writer \notin Batches,
         senderStatus' \in [Apps -> {"drafted", "sent", "bounced"}],
         senderDoubtful' \subseteq Apps, senderPaused' \in BOOLEAN, senderRunning' \in BOOLEAN,
         senderWindow' \subseteq Sender!Logged' \X {"sent", "bounced"},
         senderButton' \in [Tabs -> BOOLEAN], senderSays' \in [Tabs -> BOOLEAN],
         senderMailed' \in [Apps -> 0..2],
         senderApproved' \subseteq Apps \X Sender!Looks, senderConfirmed' \subseteq Apps,
         senderFlagged' \subseteq Apps,
         UNCHANGED <<senderCards, senderChecked, senderCrashes>>,
         Sender!RecordedWasMailed', Sender!MailedWithConsent'
  PROVE  SenderInv'
  <1>1. \A o \in Batches : senderRuns'[o] = IF o = r THEN x ELSE senderRuns[o]
    BY DEF SenderInv
  <1>2. senderRuns' \in [Batches -> {Sender!Free, Sender!Over} \cup Sender!Run]
    BY DEF SenderInv
  <1>3. /\ senderLock' \in Batches \cup {Nil, Writer}
        /\ senderLock' \in Batches =>
              /\ senderRuns'[senderLock'] \notin {Sender!Free, Sender!Over}
              /\ senderRuns'[senderLock'].dirty
    BY <1>1 DEF SenderInv, Sender!TypeOK
  <1>4. Sender!TypeOK'
    BY <1>2, <1>3 DEF SenderInv, Sender!TypeOK
  <1>5. ASSUME NEW o \in Batches, senderRuns'[o] \notin {Sender!Free, Sender!Over}
        PROVE  BatchFits(senderRuns'[o], Willing', Mailed')
    <2>1. CASE o = r
      BY <1>1, <1>5, <2>1
    <2>2. CASE o # r
      <3>1. senderRuns'[o] = senderRuns[o] /\ BatchFits(senderRuns[o], Willing, Mailed)
        BY <1>1, <1>5, <2>2 DEF SenderInv
      <3> QED
        BY <3>1 DEF BatchFits
    <2> QED
      BY <2>1, <2>2
  <1>6. \A t \in Tabs : senderChecked'[t] \subseteq Sender!Shown(t)'
    BY DEF SenderInv, Sender!Shown
  <1> QED
    BY <1>2, <1>4, <1>5, <1>6 DEF SenderInv

\* Nothing of a batch changes.
LEMMA BatchesStay ==
  ASSUME SenderInv,
         UNCHANGED <<senderRuns, senderCrashes, senderDoubtful, senderRunning, senderMailed,
                     senderApproved, senderConfirmed, senderFlagged>>,
         Sender!Logged' = Sender!Logged,
         senderStatus' \in [Apps -> {"drafted", "sent", "bounced"}],
         senderPaused' \in BOOLEAN,
         senderWindow' \subseteq Sender!Logged \X {"sent", "bounced"},
         senderLock' \in {Nil, Writer, senderLock}, {Nil, Writer} \cap Batches = {},
         senderCards' \in [Tabs -> [Apps -> Sender!Looks \cup {"absent"}]],
         senderChecked' \in [Tabs -> SUBSET Apps],
         \A t \in Tabs : senderChecked'[t] \subseteq Sender!Shown(t)',
         senderButton' \in [Tabs -> BOOLEAN], senderSays' \in [Tabs -> BOOLEAN]
  PROVE  SenderInv'
  <1>1. Sender!TypeOK'
    BY DEF SenderInv, Sender!TypeOK
  <1>2. \A r \in Batches :
          senderRuns'[r] \notin {Sender!Free, Sender!Over} =>
              BatchFits(senderRuns'[r], Willing', Mailed')
    BY DEF SenderInv, Willing, Mailed
  <1>3. Sender!RecordedWasMailed' /\ Sender!MailedWithConsent'
    BY DEF SenderInv, Sender!RecordedWasMailed, Sender!MailedWithConsent
  <1> QED
    BY <1>1, <1>2, <1>3 DEF SenderInv

LEMMA SenderPage ==
  ASSUME PartsAssumption, SenderInv,
         \/ \E t \in Tabs : \/ Sender!OpenReview(t) \/ Sender!Resume(t)
                            \/ \E a \in Apps : Sender!Toggle(t, a)
         \/ Sender!OtherWrites \/ \E a \in Apps : Sender!Bounced(a)
  PROVE  SenderInv'
  <1>1. /\ senderStatus \in [Apps -> {"drafted", "sent", "bounced"}]
        /\ senderPaused \in BOOLEAN /\ senderWindow \subseteq Sender!Logged \X {"sent", "bounced"}
        /\ {Nil, Writer} \cap Batches = {}
        /\ senderCards \in [Tabs -> [Apps -> Sender!Looks \cup {"absent"}]]
        /\ senderChecked \in [Tabs -> SUBSET Apps]
        /\ \A t \in Tabs : senderChecked[t] \subseteq Sender!Shown(t)
        /\ senderButton \in [Tabs -> BOOLEAN] /\ senderSays \in [Tabs -> BOOLEAN]
    BY SenderConstants DEF SenderInv, Sender!TypeOK
  <1>2. ASSUME NEW t \in Tabs, Sender!OpenReview(t) PROVE SenderInv'
    <2> DEFINE cards == [a \in Apps |->
                            IF senderStatus[a] # "drafted" THEN "absent"
                            ELSE IF a \in senderDoubtful THEN "unverified" ELSE "verified"]
               ticked == {a \in Apps : senderStatus[a] = "drafted" /\ a \notin senderDoubtful}
    <2>1. /\ senderCards' = [senderCards EXCEPT ![t] = cards]
          /\ senderChecked' = [senderChecked EXCEPT ![t] = ticked]
          /\ senderButton' = [senderButton EXCEPT ![t] = senderChecked'[t] # {}]
          /\ senderSays' = [senderSays EXCEPT ![t] = FALSE]
      BY <1>2 DEF Sender!OpenReview
    <2>2. /\ cards \in [Apps -> Sender!Looks \cup {"absent"}] /\ ticked \in SUBSET Apps
          /\ \A a \in ticked : cards[a] # "absent"
      BY DEF Sender!Looks
    <2> HIDE DEF cards, ticked
    <2>3. /\ senderCards' \in [Tabs -> [Apps -> Sender!Looks \cup {"absent"}]]
          /\ senderChecked' \in [Tabs -> SUBSET Apps]
          /\ senderButton' \in [Tabs -> BOOLEAN] /\ senderSays' \in [Tabs -> BOOLEAN]
      BY <1>1, <2>1, <2>2
    <2>4. ASSUME NEW u \in Tabs PROVE senderChecked'[u] \subseteq Sender!Shown(u)'
      <3>1. CASE u = t
        BY <1>1, <2>1, <2>2, <3>1 DEF Sender!Shown
      <3>2. CASE u # t
        BY <1>1, <2>1, <3>2 DEF Sender!Shown
      <3> QED
        BY <3>1, <3>2
    <2> QED
      BY <1>1, <1>2, <2>3, <2>4, BatchesStay
         DEF Sender!OpenReview, Sender!db, Sender!ghost, Sender!Logged
  <1>3. ASSUME NEW t \in Tabs, NEW a \in Apps, Sender!Toggle(t, a) PROVE SenderInv'
    <2>1. /\ senderChecked' \in [Tabs -> SUBSET Apps]
          /\ \A u \in Tabs : senderChecked'[u] \subseteq Sender!Shown(u)
      BY <1>1, <1>3 DEF Sender!Toggle
    <2>2. senderButton' \in [Tabs -> BOOLEAN]
      BY <1>1, <1>3 DEF Sender!Toggle
    <2>3. UNCHANGED senderCards
      BY <1>3 DEF Sender!Toggle
    <2>4. \A u \in Tabs : senderChecked'[u] \subseteq Sender!Shown(u)'
      BY <2>1, <2>3 DEF Sender!Shown
    <2> QED
      BY <1>1, <1>3, <2>1, <2>2, <2>4, BatchesStay
         DEF Sender!Toggle, Sender!db, Sender!ghost, Sender!Logged
  <1>4. ASSUME NEW t \in Tabs, Sender!Resume(t) PROVE SenderInv'
    <2>1. \A u \in Tabs : senderChecked'[u] \subseteq Sender!Shown(u)'
      BY <1>1, <1>4 DEF Sender!Resume, Sender!Shown
    <2>2. senderSays' \in [Tabs -> BOOLEAN]
      BY <1>1, <1>4 DEF Sender!Resume
    <2> QED
      BY <1>1, <1>4, <2>1, <2>2, BatchesStay DEF Sender!Resume, Sender!ghost, Sender!Logged
  <1>5. CASE Sender!OtherWrites
    <2>1. \A u \in Tabs : senderChecked'[u] \subseteq Sender!Shown(u)'
      BY <1>1, <1>5 DEF Sender!OtherWrites, Sender!page, Sender!Shown
    <2> QED
      BY <1>1, <1>5, <2>1, BatchesStay
         DEF Sender!OtherWrites, Sender!db, Sender!page, Sender!ghost, Sender!Logged
  <1>6. ASSUME NEW a \in Apps, Sender!Bounced(a) PROVE SenderInv'
    <2>1. \A u \in Tabs : senderChecked'[u] \subseteq Sender!Shown(u)'
      BY <1>1, <1>6 DEF Sender!Bounced, Sender!page, Sender!Shown
    <2>2. /\ senderStatus' \in [Apps -> {"drafted", "sent", "bounced"}]
          /\ Sender!Logged' = Sender!Logged /\ a \in Sender!Logged
      BY <1>1, <1>6 DEF Sender!Bounced, Sender!Logged
    <2>3. senderWindow' \subseteq Sender!Logged \X {"sent", "bounced"}
      BY <1>1, <1>6, <2>2 DEF Sender!Bounced
    <2> QED
      BY <1>1, <1>6, <2>1, <2>2, <2>3, BatchesStay
         DEF Sender!Bounced, Sender!page, Sender!ghost
  <1> QED
    BY <1>2, <1>3, <1>4, <1>5, <1>6

\* One more of what a run has sent still fits in the cap, if all that is out is under it.
LEMMA OneMoreFits ==
  ASSUME PartsAssumption, NEW r \in Batches, senderRuns[r].sent \subseteq Apps, NEW a \in Apps,
         Sender!UnderCap(r)
  PROVE  Cardinality(senderRuns[r].sent \cup {a}) <= DayCap
  <1> DEFINE S == senderRuns[r].sent
             O == Sender!Logged \cup S
  <1>1. IsFiniteSet(O) /\ IsFiniteSet(S)
    <2>1. O \subseteq Apps /\ S \subseteq Apps
      BY DEF Sender!Logged
    <2> QED
      BY <2>1, SenderConstants, FS_Subset
  <1>2. Cardinality(S) <= Cardinality(O) /\ Cardinality(S) \in Nat /\ Cardinality(O) \in Nat
    <2>1. S \subseteq O
      OBVIOUS
    <2> HIDE DEF S, O
    <2> QED
      BY <1>1, <2>1, FS_Subset, FS_CardinalityType
  <1>3. Cardinality(O) < DayCap
    BY SameCardinality DEF Sender!UnderCap, Sender!Outgone
  <1>4. Cardinality(S \cup {a}) \in {Cardinality(S), Cardinality(S) + 1}
    <2> HIDE DEF S
    <2> QED
      BY <1>1, FS_AddElement
  <1> QED
    BY <1>2, <1>3, <1>4, SenderConstants

LEMMA BatchPosted ==
  ASSUME PartsAssumption, SenderInv, NEW t \in Tabs, NEW agreed \in BOOLEAN,
         Sender!SendApproved(t, agreed)
  PROVE  SenderInv'
  <1> DEFINE odd == {a \in senderChecked[t] : senderCards[t][a] = "unverified"}
  <1>1. PICK r \in Batches :
          /\ senderRuns[r] = Sender!Free
          /\ senderRuns' = [senderRuns EXCEPT ![r] =
                [pc |-> "posted", tab |-> t, ids |-> senderChecked[t], allow |-> odd # {},
                 todo |-> {}, odd |-> {}, sent |-> {}, bad |-> {},
                 pause |-> FALSE, dirty |-> FALSE]]
    BY DEF Sender!SendApproved
  <1> DEFINE x == [pc |-> "posted", tab |-> t, ids |-> senderChecked[t], allow |-> odd # {},
                   todo |-> {}, odd |-> {}, sent |-> {}, bad |-> {},
                   pause |-> FALSE, dirty |-> FALSE]
  <1>2. /\ senderChecked[t] \subseteq Apps
        /\ \A a \in senderChecked[t] : senderCards[t][a] \in Sender!Looks
    BY DEF SenderInv, Sender!TypeOK, Sender!Shown
  <1>3. /\ x \in Sender!Run /\ x.ids = senderChecked[t] /\ x.todo = {} /\ x.sent = {}
        /\ x.dirty = FALSE
    BY <1>2 DEF Sender!Run
  <1>4. senderRuns' = [senderRuns EXCEPT ![r] = x]
    BY <1>1
  <1> HIDE DEF x
  <1>5. /\ senderApproved' = senderApproved \cup
              {<<a, senderCards[t][a]>> : a \in senderChecked[t]}
        /\ senderConfirmed' = IF agreed THEN senderConfirmed \cup odd ELSE senderConfirmed
        /\ odd # {} => agreed
    BY DEF Sender!SendApproved, Sender!Agreed
  <1>6. senderApproved' \subseteq Apps \X Sender!Looks /\ senderConfirmed' \subseteq Apps
    BY <1>2, <1>5, BatchKnown
  <1>7. Willing \subseteq Willing'
    BY <1>5 DEF Willing
  <1>8. senderChecked[t] \subseteq Willing'
    <2>1. ASSUME NEW a \in senderChecked[t] PROVE a \in Willing'
      <3>1. CASE senderCards[t][a] = "verified"
        BY <1>2, <1>5, <2>1, <3>1 DEF Willing
      <3>2. CASE senderCards[t][a] = "unverified"
        BY <1>2, <1>5, <2>1, <3>2 DEF Willing
      <3> QED
        BY <1>2, <2>1, <3>1, <3>2 DEF Sender!Looks
    <2> QED
      BY <2>1
  <1>9. UNCHANGED <<senderStatus, senderDoubtful, senderPaused, senderWindow, senderLock,
                    senderRunning, senderCards, senderChecked, senderCrashes, senderMailed,
                    senderFlagged>>
    BY DEF Sender!SendApproved, Sender!db
  <1>10. Mailed' = Mailed /\ Sender!Logged' = Sender!Logged
    BY <1>9 DEF Mailed, Sender!Logged
  <1>11. BatchFits(x, Willing', Mailed')
    <2>1. Cardinality({}) = 0
      BY FS_EmptySet
    <2> QED
      BY <1>3, <1>8, <2>1, SenderConstants DEF BatchFits
  <1>12. senderLock # r
    BY <1>1, BatchKnown, BatchFields
  <1>13. senderButton' \in [Tabs -> BOOLEAN] /\ senderSays' \in [Tabs -> BOOLEAN]
    BY <1>1, BatchKnown DEF Sender!SendApproved
  <1>14. Sender!RecordedWasMailed'
    BY <1>1, <1>9, <1>10, BatchKnown DEF Sender!RecordedWasMailed
  <1>15. Sender!MailedWithConsent'
    BY <1>1, <1>5, <1>9, BatchKnown DEF Sender!MailedWithConsent
  <1> QED
    BY <1>1, <1>3, <1>4, <1>6, <1>7, <1>9, <1>10, <1>11, <1>12, <1>13, <1>14, <1>15,
       BatchKnown, SenderConstants, BatchBecomes

\* The steps of a batch that mail and record nothing.
LEMMA BatchGoesOn ==
  ASSUME PartsAssumption, SenderInv, NEW r \in Batches,
         NEW x \in {Sender!Free, Sender!Over} \cup Sender!Run,
         senderRuns' = [senderRuns EXCEPT ![r] = x],
         x \notin {Sender!Free, Sender!Over} => BatchFits(x, Willing, Mailed),
         \/ senderLock' = Nil
         \/ senderLock' = r /\ x \notin {Sender!Free, Sender!Over} /\ x.dirty
         \/ senderLock' = senderLock /\ senderLock # r,
         senderRunning' \in BOOLEAN, senderButton' \in [Tabs -> BOOLEAN],
         UNCHANGED <<senderStatus, senderDoubtful, senderPaused, senderWindow, senderCards,
                     senderChecked, senderSays, senderCrashes, senderMailed, senderApproved,
                     senderConfirmed, senderFlagged>>
  PROVE  SenderInv'
  <1>1. Willing' = Willing /\ Mailed' = Mailed /\ Sender!Logged' = Sender!Logged
    BY DEF Willing, Mailed, Sender!Logged
  <1>2. Sender!RecordedWasMailed' /\ Sender!MailedWithConsent'
    BY <1>1, BatchKnown DEF Sender!RecordedWasMailed, Sender!MailedWithConsent
  <1> QED
    BY <1>1, <1>2, BatchKnown, SenderConstants, BatchBecomes

LEMMA BatchServed ==
  ASSUME PartsAssumption, SenderInv, NEW r \in Batches, Sender!ServeSend(r)
  PROVE  SenderInv'
  <1>1. /\ senderRuns[r] \in Sender!Run /\ BatchFits(senderRuns[r], Willing, Mailed)
        /\ senderRuns[r].pc = "posted" /\ ~ senderRuns[r].dirty
    BY BatchKnown DEF Sender!ServeSend, BatchFits
  <1>2. senderLock # r /\ senderLock' = senderLock
    BY <1>1, BatchKnown DEF Sender!ServeSend
  <1>3. senderButton' \in [Tabs -> BOOLEAN]
    BY BatchKnown DEF Sender!ServeSend
  <1> DEFINE x == [senderRuns[r] EXCEPT !.pc = "asked"]
  <1>4. /\ x \in Sender!Run /\ x.pc = "asked" /\ x.ids = senderRuns[r].ids
        /\ x.todo = senderRuns[r].todo /\ x.sent = senderRuns[r].sent
    BY <1>1 DEF Sender!Run
  <1>5. senderRuns' \in {[senderRuns EXCEPT ![r] = Sender!Over], [senderRuns EXCEPT ![r] = x]}
    BY DEF Sender!ServeSend
  <1> HIDE DEF x
  <1>6. BatchFits(x, Willing, Mailed)
    BY <1>1, <1>4 DEF BatchFits
  <1> QED
    BY <1>2, <1>3, <1>4, <1>5, <1>6, BatchKnown, BatchGoesOn
       DEF Sender!ServeSend, Sender!db, Sender!ghost

LEMMA BatchBegins ==
  ASSUME PartsAssumption, SenderInv, NEW r \in Batches,
         Sender!Begin(r) \/ Sender!Preflight(r)
  PROVE  SenderInv'
  <1>1. /\ senderRuns[r] \in Sender!Run /\ BatchFits(senderRuns[r], Willing, Mailed)
        /\ senderLock = r => senderRuns[r].dirty
    BY BatchKnown DEF Sender!Begin, Sender!Preflight
  <1>2. /\ senderRuns[r].ids \in SUBSET Apps /\ senderRuns[r].todo \in SUBSET Apps
        /\ senderRuns[r].odd \in SUBSET Apps
    BY <1>1 DEF Sender!Run
  <1>3. PICK p \in {"preflight", "ending", "loop"}, T \in SUBSET senderRuns[r].ids,
             U \in SUBSET Apps :
          senderRuns' = [senderRuns EXCEPT ![r] =
              [senderRuns[r] EXCEPT !.pc = p, !.todo = T, !.odd = U]]
    <2>1. CASE Sender!Begin(r)
      <3>1. [senderRuns[r] EXCEPT !.pc = "preflight"]
              = [senderRuns[r] EXCEPT !.pc = "preflight", !.todo = senderRuns[r].todo,
                                      !.odd = senderRuns[r].odd]
        BY <1>1 DEF Sender!Run
      <3>2. senderRuns[r].todo \in SUBSET senderRuns[r].ids
        BY <1>1 DEF BatchFits
      <3>3. senderRuns' = [senderRuns EXCEPT ![r] = [senderRuns[r] EXCEPT !.pc = "preflight"]]
        BY <2>1 DEF Sender!Begin
      <3> QED
        BY <1>2, <3>1, <3>2, <3>3
    <2>2. CASE Sender!Preflight(r)
      <3>1. [senderRuns[r] EXCEPT !.pc = "ending"]
              = [senderRuns[r] EXCEPT !.pc = "ending", !.todo = senderRuns[r].todo,
                                      !.odd = senderRuns[r].odd]
        BY <1>1 DEF Sender!Run
      <3>2. senderRuns[r].todo \in SUBSET senderRuns[r].ids
        BY <1>1 DEF BatchFits
      <3> DEFINE T == {a \in senderRuns[r].ids : senderStatus[a] = "drafted"}
                 U == T \cap senderDoubtful
      <3>3. \/ senderRuns' = [senderRuns EXCEPT ![r] =
                  [senderRuns[r] EXCEPT !.pc = "ending"]]
            \/ senderRuns' = [senderRuns EXCEPT ![r] =
                  [senderRuns[r] EXCEPT !.pc = "loop", !.todo = T, !.odd = U]]
        BY <2>2 DEF Sender!Preflight, Sender!Listed
      <3>4. T \in SUBSET senderRuns[r].ids /\ U \in SUBSET Apps
        BY <1>2
      <3> HIDE DEF T, U
      <3>5. CASE senderRuns' = [senderRuns EXCEPT ![r] = [senderRuns[r] EXCEPT !.pc = "ending"]]
        BY <1>2, <3>1, <3>2, <3>5
      <3>6. CASE senderRuns' = [senderRuns EXCEPT ![r] =
                    [senderRuns[r] EXCEPT !.pc = "loop", !.todo = T, !.odd = U]]
        BY <3>4, <3>6
      <3> QED
        BY <3>3, <3>5, <3>6
    <2> QED
      BY <2>1, <2>2
  <1> DEFINE x == [senderRuns[r] EXCEPT !.pc = p, !.todo = T, !.odd = U]
  <1>4. /\ x \in Sender!Run /\ x.pc = p /\ x.ids = senderRuns[r].ids /\ x.todo = T
        /\ x.sent = senderRuns[r].sent /\ x.dirty = senderRuns[r].dirty
    BY <1>1, <1>2, <1>3 DEF Sender!Run
  <1>5. senderRuns' = [senderRuns EXCEPT ![r] = x]
    BY <1>3
  <1> HIDE DEF x
  <1>6. BatchFits(x, Willing, Mailed)
    BY <1>1, <1>3, <1>4 DEF BatchFits
  <1>7. \/ senderLock' = r /\ x.dirty
        \/ senderLock' = senderLock /\ senderLock # r
    <2>1. senderLock' = senderLock
      BY DEF Sender!Begin, Sender!Preflight
    <2>2. senderRuns[r].dirty => x.dirty
      BY <1>4, Zenon
    <2> QED
      BY <1>1, <2>1, <2>2
  <1>8. x \notin {Sender!Free, Sender!Over}
    BY <1>4, BatchFields
  <1> QED
    BY <1>4, <1>5, <1>6, <1>7, <1>8, BatchKnown, BatchGoesOn
       DEF Sender!Begin, Sender!Preflight, Sender!db, Sender!page, Sender!ghost

\* A turn of the loop leaves the lock with the run if it had written before.
LEMMA TurnKnown ==
  ASSUME PartsAssumption, SenderInv, NEW r \in Batches, NEW x, x.dirty,
         x \notin {Sender!Free, Sender!Over}, Sender!Flush(r)
  PROVE  \/ senderLock' = r /\ x \notin {Sender!Free, Sender!Over} /\ x.dirty
         \/ senderLock' = senderLock /\ senderLock # r
  <1>1. senderLock = r => senderRuns[r].dirty
    BY BatchKnown
  <1> QED
    BY <1>1 DEF Sender!Flush

LEMMA BatchHalts ==
  ASSUME PartsAssumption, SenderInv, NEW r \in Batches, Sender!Halts(r)
  PROVE  SenderInv'
  <1>1. /\ senderRuns[r] \in Sender!Run /\ BatchFits(senderRuns[r], Willing, Mailed)
        /\ senderRuns[r].pc = "loop" /\ senderRuns[r].dirty \in BOOLEAN
        /\ senderLock = r => senderRuns[r].dirty
    BY BatchKnown, BatchFields DEF Sender!Halts
  <1> DEFINE room == Sender!UnderCap(r)
             x == [senderRuns[r] EXCEPT !.pc = "ending", !.pause = room,
                                        !.dirty = senderRuns[r].dirty \/ room]
  <1>2. room \in BOOLEAN
    BY DEF Sender!UnderCap
  <1>3. senderRuns' = [senderRuns EXCEPT ![r] = x]
    BY DEF Sender!Halts
  <1> HIDE DEF room
  <1>4. /\ x \in Sender!Run /\ x.pc = "ending" /\ x.ids = senderRuns[r].ids
        /\ x.todo = senderRuns[r].todo /\ x.sent = senderRuns[r].sent
    BY <1>1, <1>2 DEF Sender!Run
  <1>5. senderRuns[r].dirty => x.dirty
    <2>1. x.dirty = (senderRuns[r].dirty \/ room)
      BY <1>1 DEF Sender!Run
    <2> HIDE DEF x
    <2> QED
      BY <2>1, Zenon
  <1> HIDE DEF x
  <1>6. BatchFits(x, Willing, Mailed)
    BY <1>1, <1>4 DEF BatchFits
  <1>7. x \notin {Sender!Free, Sender!Over}
    BY <1>4, BatchFields
  <1>8. \/ senderLock' = r /\ x.dirty
        \/ senderLock' = senderLock /\ senderLock # r
    BY <1>1, <1>5 DEF Sender!Halts, Sender!Flush
  <1>9. UNCHANGED <<senderStatus, senderDoubtful, senderPaused, senderWindow, senderCards,
                    senderChecked, senderButton, senderSays, senderCrashes, senderMailed,
                    senderApproved, senderConfirmed, senderFlagged, senderRunning>>
    BY DEF Sender!Halts, Sender!db, Sender!page, Sender!ghost
  <1>10. senderRunning \in BOOLEAN /\ senderButton \in [Tabs -> BOOLEAN]
    BY BatchKnown
  <1> QED
    BY <1>3, <1>4, <1>6, <1>7, <1>8, <1>9, <1>10, BatchGoesOn

LEMMA BatchPassesOver ==
  ASSUME PartsAssumption, SenderInv, NEW r \in Batches, NEW a \in Apps, Sender!PassOver(r, a)
  PROVE  SenderInv'
  <1>1. /\ senderRuns[r] \in Sender!Run /\ BatchFits(senderRuns[r], Willing, Mailed)
        /\ senderRuns[r].pc = "loop"
    BY BatchKnown DEF Sender!PassOver, Sender!Turn
  <1>2. senderRuns[r].bad \in SUBSET Apps /\ senderRuns[r].todo \in SUBSET Apps
    BY <1>1, BatchFields
  <1>3. PICK B \in SUBSET Apps :
          senderRuns' = [senderRuns EXCEPT ![r] = [senderRuns[r] EXCEPT
              !.todo = senderRuns[r].todo \ {a}, !.dirty = TRUE, !.bad = B]]
    <2>1. [senderRuns[r] EXCEPT !.todo = senderRuns[r].todo \ {a}, !.dirty = TRUE]
            = [senderRuns[r] EXCEPT !.todo = senderRuns[r].todo \ {a}, !.dirty = TRUE,
                                    !.bad = senderRuns[r].bad]
      BY <1>1 DEF Sender!Run
    <2>2. senderRuns[r].bad \cup {a} \in SUBSET Apps
      BY <1>2
    <2>3. \/ senderRuns' = [senderRuns EXCEPT ![r] = [senderRuns[r] EXCEPT
                !.todo = senderRuns[r].todo \ {a}, !.dirty = TRUE]]
          \/ senderRuns' = [senderRuns EXCEPT ![r] = [senderRuns[r] EXCEPT
                !.todo = senderRuns[r].todo \ {a}, !.dirty = TRUE,
                !.bad = senderRuns[r].bad \cup {a}]]
      BY DEF Sender!PassOver
    <2> QED
      BY <1>2, <2>1, <2>2, <2>3
  <1> DEFINE x == [senderRuns[r] EXCEPT !.todo = senderRuns[r].todo \ {a}, !.dirty = TRUE,
                                        !.bad = B]
  <1>4. /\ x \in Sender!Run /\ x.pc = "loop" /\ x.ids = senderRuns[r].ids
        /\ x.todo = senderRuns[r].todo \ {a} /\ x.sent = senderRuns[r].sent
        /\ x.dirty = TRUE
    BY <1>1, <1>2, <1>3 DEF Sender!Run
  <1>5. senderRuns' = [senderRuns EXCEPT ![r] = x]
    BY <1>3
  <1> HIDE DEF x
  <1>6. BatchFits(x, Willing, Mailed)
    BY <1>1, <1>4 DEF BatchFits
  <1>7. x \notin {Sender!Free, Sender!Over}
    BY <1>4, BatchFields
  <1>8. \/ senderLock' = r /\ x \notin {Sender!Free, Sender!Over} /\ x.dirty
        \/ senderLock' = senderLock /\ senderLock # r
    BY <1>4, <1>7, TurnKnown DEF Sender!PassOver, Sender!Turn
  <1> QED
    BY <1>4, <1>5, <1>6, <1>7, <1>8, BatchKnown, BatchGoesOn
       DEF Sender!PassOver, Sender!db, Sender!page, Sender!ghost

LEMMA BatchMails ==
  ASSUME PartsAssumption, SenderInv, NEW r \in Batches, NEW a \in Apps, Sender!MailOut(r, a)
  PROVE  SenderInv'
  <1>1. /\ senderRuns[r] \in Sender!Run /\ BatchFits(senderRuns[r], Willing, Mailed)
        /\ senderRuns[r].pc = "loop" /\ a \in senderRuns[r].todo /\ Sender!UnderCap(r)
    BY BatchKnown DEF Sender!MailOut, Sender!Turn
  <1>2. senderRuns[r].todo \in SUBSET Apps /\ senderRuns[r].sent \in SUBSET Apps
    BY <1>1, BatchFields
  <1> DEFINE x == [senderRuns[r] EXCEPT !.todo = senderRuns[r].todo \ {a}, !.dirty = TRUE,
                                        !.sent = senderRuns[r].sent \cup {a}]
  <1>3. /\ x \in Sender!Run /\ x.pc = "loop" /\ x.ids = senderRuns[r].ids
        /\ x.todo = senderRuns[r].todo \ {a} /\ x.sent = senderRuns[r].sent \cup {a}
        /\ x.dirty = TRUE
    BY <1>1, <1>2 DEF Sender!Run
  <1>4. senderRuns' = [senderRuns EXCEPT ![r] = x]
    BY DEF Sender!MailOut
  <1> HIDE DEF x
  <1>5. /\ UNCHANGED <<senderStatus, senderDoubtful, senderPaused, senderWindow, senderRunning,
                       senderCards, senderChecked, senderButton, senderSays, senderCrashes,
                       senderApproved, senderConfirmed>>
        /\ senderMailed' = [senderMailed EXCEPT ![a] = IF @ = 0 THEN 1 ELSE 2]
        /\ senderFlagged' \in {senderFlagged, senderFlagged \cup {a}}
    BY DEF Sender!MailOut, Sender!Mails, Sender!db, Sender!page
  <1>6. /\ senderMailed' \in [Apps -> 0..2] /\ senderFlagged' \subseteq Apps
        /\ Mailed' = Mailed \cup {a}
    <2>1. /\ senderMailed \in [Apps -> 0..2] /\ senderFlagged \subseteq Apps
      BY BatchKnown
    <2>2. /\ senderMailed' \in [Apps -> 0..2]
          /\ \A b \in Apps : senderMailed'[b] > 0 <=> (b = a \/ senderMailed[b] > 0)
      BY <1>5, <2>1
    <2> QED
      BY <1>5, <2>1, <2>2 DEF Mailed
  <1>7. Willing' = Willing /\ Sender!Logged' = Sender!Logged
    BY <1>5 DEF Willing, Sender!Logged
  <1>8. BatchFits(x, Willing', Mailed')
    <2>1. Cardinality(senderRuns[r].sent \cup {a}) <= DayCap
      BY <1>1, <1>2, OneMoreFits
    <2> QED
      BY <1>1, <1>3, <1>6, <1>7, <2>1 DEF BatchFits
  <1>9. x \notin {Sender!Free, Sender!Over}
    BY <1>3, BatchFields
  <1>10. \/ senderLock' = r /\ x \notin {Sender!Free, Sender!Over} /\ x.dirty
         \/ senderLock' = senderLock /\ senderLock # r
    BY <1>3, <1>9, TurnKnown DEF Sender!MailOut, Sender!Turn
  <1>11. a \in Willing /\ Mailed \subseteq Willing
    BY <1>1, BatchKnown DEF BatchFits, Mailed, Willing, Sender!MailedWithConsent
  <1>12. Sender!RecordedWasMailed'
    <2>1. \A b \in Sender!Logged : b \in Mailed
      BY BatchKnown DEF Sender!RecordedWasMailed, Mailed, Sender!Logged
    <2>2. \A b \in Sender!Logged' : b \in Mailed'
      BY <1>6, <1>7, <2>1
    <2> QED
      BY <2>2 DEF Sender!RecordedWasMailed, Mailed
  <1>13. Sender!MailedWithConsent'
    <2>1. \A b \in Mailed' : b \in Willing'
      BY <1>6, <1>7, <1>11
    <2> QED
      BY <2>1 DEF Sender!MailedWithConsent, Mailed, Willing
  <1> QED
    BY <1>3, <1>4, <1>5, <1>6, <1>7, <1>8, <1>10, <1>12, <1>13, BatchKnown, SenderConstants,
       BatchBecomes

LEMMA BatchCommits ==
  ASSUME PartsAssumption, SenderInv, NEW r \in Batches, Sender!Commit(r)
  PROVE  SenderInv'
  <1>1. /\ senderRuns[r] \in Sender!Run /\ BatchFits(senderRuns[r], Willing, Mailed)
        /\ senderRuns[r].sent \in SUBSET Apps /\ senderRuns[r].bad \in SUBSET Apps
    <2>1. senderRuns[r] \in Sender!Run /\ BatchFits(senderRuns[r], Willing, Mailed)
      BY BatchKnown DEF Sender!Commit
    <2> QED
      BY <2>1, BatchFields
  <1> DEFINE sent == senderRuns[r].sent
  <1>2. /\ senderStatus' = [a \in Apps |-> IF a \in sent THEN "sent" ELSE senderStatus[a]]
        /\ senderWindow' = senderWindow \cup (sent \X {"sent"})
        /\ senderDoubtful' = senderDoubtful \cup senderRuns[r].bad
        /\ senderPaused' \in BOOLEAN
        /\ senderLock' = IF senderLock = r THEN Nil ELSE senderLock
        /\ senderRunning' = FALSE
        /\ senderRuns' = [senderRuns EXCEPT ![r] = Sender!Over]
        /\ UNCHANGED <<senderCards, senderChecked, senderButton, senderSays, senderCrashes,
                       senderMailed, senderApproved, senderConfirmed, senderFlagged>>
    BY DEF Sender!Commit, Sender!Released, Sender!page, Sender!ghost
  <1>3. /\ senderStatus' \in [Apps -> {"drafted", "sent", "bounced"}]
        /\ Sender!Logged' = Sender!Logged \cup sent
    BY <1>1, <1>2, BatchKnown DEF Sender!Logged
  <1> HIDE DEF sent
  <1>4. senderWindow' \subseteq Sender!Logged' \X {"sent", "bounced"}
    BY <1>2, <1>3, BatchKnown
  <1>5. Willing' = Willing /\ Mailed' = Mailed
    BY <1>2 DEF Willing, Mailed
  <1>6. Sender!RecordedWasMailed'
    <2>1. \A a \in Sender!Logged' : a \in Mailed
      BY <1>1, <1>3, BatchKnown DEF sent, BatchFits, Sender!RecordedWasMailed, Mailed,
                                    Sender!Logged
    <2> QED
      BY <1>2, <2>1 DEF Sender!RecordedWasMailed, Mailed
  <1>7. Sender!MailedWithConsent'
    BY <1>2, BatchKnown DEF Sender!MailedWithConsent
  <1>8. senderDoubtful' \subseteq Apps
    BY <1>1, <1>2, BatchKnown
  <1>9. \/ senderLock' = Nil
        \/ senderLock' = senderLock /\ senderLock # r
    BY <1>2
  <1> QED
    BY <1>2, <1>3, <1>4, <1>5, <1>6, <1>7, <1>8, <1>9, BatchKnown, SenderConstants, BatchBecomes

LEMMA BatchTimesOut ==
  ASSUME PartsAssumption, SenderInv, NEW r \in Batches, Sender!LockTimeout(r)
  PROVE  SenderInv'
  <1>1. senderLock # r /\ senderLock' = senderLock
    BY DEF Sender!LockTimeout, Sender!CanFlush
  <1>2. senderRuns' = [senderRuns EXCEPT ![r] = Sender!Over] /\ senderRunning' = FALSE
    BY DEF Sender!LockTimeout, Sender!FlagAfterError
  <1>3. UNCHANGED <<senderStatus, senderDoubtful, senderPaused, senderWindow, senderCards,
                    senderChecked, senderButton, senderSays, senderCrashes, senderMailed,
                    senderApproved, senderConfirmed, senderFlagged>>
    BY DEF Sender!LockTimeout, Sender!db, Sender!page, Sender!ghost
  <1> QED
    BY <1>1, <1>2, <1>3, BatchKnown, BatchGoesOn

LEMMA SenderCrashes ==
  ASSUME PartsAssumption, SenderInv, Sender!Crash PROVE SenderInv'
  <1>1. \A r \in Batches : senderRuns'[r] \in {Sender!Free, Sender!Over}
    BY DEF Sender!Crash
  <1>2. senderRuns' \in [Batches -> {Sender!Free, Sender!Over} \cup Sender!Run]
    BY DEF Sender!Crash
  <1>3. senderButton' \in [Tabs -> BOOLEAN] /\ senderCrashes' \in 0..SendCrashes
    BY SenderConstants DEF Sender!Crash, SenderInv, Sender!TypeOK
  <1>4. UNCHANGED <<senderStatus, senderDoubtful, senderPaused, senderWindow, senderCards,
                    senderChecked, senderSays, senderMailed, senderApproved, senderConfirmed,
                    senderFlagged>>
    BY DEF Sender!Crash, Sender!db, Sender!ghost
  <1>5. Sender!Logged' = Sender!Logged
    BY <1>4 DEF Sender!Logged
  <1>6. Sender!TypeOK'
    BY <1>1, <1>2, <1>3, <1>4, <1>5, SenderConstants DEF Sender!Crash, SenderInv, Sender!TypeOK
  <1>7. Sender!RecordedWasMailed' /\ Sender!MailedWithConsent'
    BY <1>4, <1>5 DEF SenderInv, Sender!RecordedWasMailed, Sender!MailedWithConsent
  <1>8. \A t \in Tabs : senderChecked'[t] \subseteq Sender!Shown(t)'
    BY <1>4 DEF SenderInv, Sender!Shown
  <1> QED
    BY <1>1, <1>2, <1>6, <1>7, <1>8 DEF SenderInv

LEMMA SenderStep == ASSUME PartsAssumption, SenderInv, Sender!Next PROVE SenderInv'
  BY SenderPage, BatchPosted, BatchServed, BatchBegins, BatchHalts, BatchPassesOver, BatchMails,
     BatchCommits, BatchTimesOut, SenderCrashes DEF Sender!Next, Sender!RunStep

LEMMA SenderKeepsCap == ASSUME SenderInv PROVE Sender!RunKeepsCap
  BY SameCardinality DEF SenderInv, BatchFits, Sender!RunKeepsCap

-----------------------------------------------------------------------------
(* The stages over the table *)

\* A run holds a posting: it has it on its list, or will write it.
Holds(x, j) == j \in x.todo \/ x.done[j] # Nil

\* What a stage may write.
Writes(b) ==
    CASE b \in {"find", "discover"} -> {"discovered", "email_found"}
      [] b = "contacts" -> {"email_found"}
      [] b = "draft"    -> {"drafted"}
      [] b = "auto"     -> {"li_applied", "li_skipped"}

\* What a stage relies on, for as long as it holds a posting: whoever looks for an
\* address finds none there, and whoever drafts finds no draft and no mail.
StageFits(x, state, rows, known, mails, taken) ==
    \A j \in Jobs :
        /\ x.done[j] \in Writes(x.button) \cup {Nil}
        /\ x.done[j] = "li_applied" => j \in taken
        /\ Holds(x, j) =>
              /\ x.button \in {"contacts", "auto"} => rows[j] > 0
              /\ x.button = "contacts" => j \notin known /\ mails[j] = 0
              /\ x.button = "draft" =>
                    /\ j \in known /\ mails[j] = 0
                    /\ state[j] \in {"email_found", "li_applied", "li_skipped"}

\* A posting that can be drafted or mailed has an address and was not mailed.
MailFits(state, j, known, mails) ==
    /\ state \in {"email_found", "drafted"} => j \in known /\ mails = 0
    /\ mails > 0 => j \in known
    /\ mails < 2

\* A posting has a row when it has a status, and one row.
RowFits(state, rows) == (state = "absent" <=> rows = 0) /\ rows <= 1

Active(r) == pipeRuns[r] # Pipeline!Free

\* The button of a run that is under way is disabled, and so there is one run of it.
ButtonsHold ==
    /\ \A r \in Stages : Active(r) => pipeRuns[r].button \in pipeBusy[Page]
    /\ \A r, o \in Stages :
          Active(r) /\ Active(o) /\ pipeRuns[r].button = pipeRuns[o].button => r = o

TableFits ==
    \A j \in Jobs :
        /\ MailFits(pipeStatus[j], j, pipeAddress, pipeMailed[j])
        /\ RowFits(pipeStatus[j], pipeCopies[j])
        /\ j \in pipeAddress => pipeStatus[j] # "absent"

RunsFit ==
    \A r \in Stages : Active(r) =>
        StageFits(pipeRuns[r], pipeStatus, pipeCopies, pipeAddress, pipeMailed, pipeApplied)

PipeInv ==
    /\ Pipeline!TypeOK
    /\ pipeRuns \in [Stages -> {Pipeline!Free} \cup Pipeline!Run]
    /\ ButtonsHold
    /\ TableFits
    /\ RunsFit

LEMMA NilIsNoStatus == ASSUME PartsAssumption
                       PROVE  /\ Nil \notin Pipeline!Statuses /\ StageCrashes \in Nat
                              /\ Nil \notin {"discovered", "email_found", "drafted",
                                             "li_applied", "li_skipped", "absent"}
  BY DEF PartsAssumption, Pipeline!PipelineAssumption, Pipeline!Statuses

LEMMA StageFields ==
  ASSUME NEW x \in Pipeline!Run
  PROVE  /\ x.pc \in {"asked", "work"} /\ x.button \in Pipeline!Buttons /\ x.tab = Page
         /\ x.todo \in SUBSET Jobs /\ x.done \in [Jobs -> Pipeline!Statuses \cup {Nil}]
         /\ x # Pipeline!Free
  <1>1. x.pc # "free" /\ Pipeline!Free.pc = "free"
    BY DEF Pipeline!Run, Pipeline!Free
  <1> QED
    BY <1>1 DEF Pipeline!Run

LEMMA StagesStart == ASSUME PartsAssumption, Pipeline!Init PROVE PipeInv
  <1>1. /\ pipeStatus \in [Jobs -> Pipeline!Statuses] /\ pipeCopies \in [Jobs -> 0..2]
        /\ pipeMailed \in [Jobs -> 0..2] /\ pipeAddress = {}
        /\ pipeRecorded = {} /\ pipeApplied = {}
        /\ \A j \in Jobs : pipeStatus[j] = "absent" /\ pipeCopies[j] = 0 /\ pipeMailed[j] = 0
    BY DEF Pipeline!Init, Pipeline!Statuses
  <1>2. /\ pipeRuns \in [Stages -> {Pipeline!Free} \cup Pipeline!Run]
        /\ \A r \in Stages : pipeRuns[r] = Pipeline!Free
    BY DEF Pipeline!Init
  <1>3. /\ pipeBusy \in [{Page} -> SUBSET Pipeline!Buttons]
        /\ \A t \in {Page} : pipeBusy[t] = {}
        /\ pipeReloads \in 0..0 /\ pipeCrashes \in 0..StageCrashes
    BY NilIsNoStatus DEF Pipeline!Init
  <1>4. Pipeline!TypeOK
    BY <1>1, <1>2, <1>3 DEF Pipeline!TypeOK
  <1>5. TableFits
    BY <1>1 DEF TableFits, MailFits, RowFits
  <1> QED
    BY <1>2, <1>4, <1>5 DEF PipeInv, ButtonsHold, RunsFit, Active

\* What the steps start from.
LEMMA StagesKnown ==
  ASSUME PartsAssumption, PipeInv
  PROVE  /\ pipeStatus \in [Jobs -> Pipeline!Statuses] /\ pipeCopies \in [Jobs -> 0..2]
         /\ pipeMailed \in [Jobs -> 0..2] /\ pipeAddress \subseteq Jobs
         /\ pipeRuns \in [Stages -> {Pipeline!Free} \cup Pipeline!Run]
         /\ pipeBusy \in [{Page} -> SUBSET Pipeline!Buttons]
         /\ pipeBusy[Page] \subseteq Pipeline!Buttons
         /\ \A b \in pipeBusy[Page] : \E r \in Stages : Active(r) /\ pipeRuns[r].button = b
         /\ pipeReloads \in 0..0 /\ pipeCrashes \in 0..StageCrashes
         /\ pipeRecorded \subseteq pipeApplied /\ pipeApplied \subseteq Jobs
         /\ \A r \in Stages : Active(r) => pipeRuns[r] \in Pipeline!Run
  BY DEF PipeInv, Pipeline!TypeOK, Active

\* The pieces of the invariant put together.
LEMMA StagesTogether ==
  ASSUME pipeStatus' \in [Jobs -> Pipeline!Statuses], pipeCopies' \in [Jobs -> 0..2],
         pipeMailed' \in [Jobs -> 0..2], pipeAddress' \subseteq Jobs,
         pipeRuns' \in [Stages -> {Pipeline!Free} \cup Pipeline!Run],
         pipeBusy' \in [{Page} -> SUBSET Pipeline!Buttons],
         \A b \in pipeBusy'[Page] : \E r \in Stages : Active(r)' /\ pipeRuns'[r].button = b,
         pipeReloads' \in 0..0, pipeCrashes' \in 0..StageCrashes,
         pipeRecorded' \subseteq pipeApplied', pipeApplied' \subseteq Jobs,
         ButtonsHold', TableFits', RunsFit'
  PROVE  PipeInv'
  <1>1. \A j \in Jobs : pipeStatus'[j] = "absent" <=> pipeCopies'[j] = 0
    BY DEF TableFits, RowFits
  <1>2. \A j \in pipeAddress' : pipeStatus'[j] # "absent"
    BY DEF TableFits
  <1>3. \A t \in {Page} : \A b \in pipeBusy'[t] :
           \E r \in Stages : /\ pipeRuns'[r] # Pipeline!Free
                             /\ pipeRuns'[r].tab = t /\ pipeRuns'[r].button = b
    <2> SUFFICES ASSUME NEW b \in pipeBusy'[Page]
                 PROVE  \E r \in Stages : /\ pipeRuns'[r] # Pipeline!Free
                                          /\ pipeRuns'[r].tab = Page
                                          /\ pipeRuns'[r].button = b
      OBVIOUS
    <2>1. PICK r \in Stages : Active(r)' /\ pipeRuns'[r].button = b
      OBVIOUS
    <2>2. pipeRuns'[r] # Pipeline!Free /\ pipeRuns'[r] \in Pipeline!Run
      BY <2>1 DEF Active
    <2> QED
      BY <2>1, <2>2, StageFields
  <1>4. Pipeline!TypeOK'
    BY <1>1, <1>2, <1>3 DEF Pipeline!TypeOK
  <1> QED
    BY <1>4 DEF PipeInv

\* A run goes on as x: its list or its results change, and nothing is written.
LEMMA StageGoesOn ==
  ASSUME PartsAssumption, PipeInv, NEW r \in Stages, Active(r), NEW x \in Pipeline!Run,
         x.button = pipeRuns[r].button, pipeRuns' = [pipeRuns EXCEPT ![r] = x],
         StageFits(x, pipeStatus, pipeCopies, pipeAddress, pipeMailed, pipeApplied'),
         pipeApplied \subseteq pipeApplied', pipeApplied' \subseteq Jobs,
         UNCHANGED <<pipeStatus, pipeCopies, pipeAddress, pipeBusy, pipeReloads,
                     pipeCrashes, pipeMailed, pipeRecorded>>
  PROVE  PipeInv'
  <1>1. \A o \in Stages : pipeRuns'[o] = IF o = r THEN x ELSE pipeRuns[o]
    BY StagesKnown
  <1>2. \A o \in Stages : /\ Active(o)' <=> Active(o)
                          /\ pipeRuns'[o].button = pipeRuns[o].button
    BY <1>1, StageFields DEF Active
  <1>3. pipeRuns' \in [Stages -> {Pipeline!Free} \cup Pipeline!Run]
    BY StagesKnown
  <1>4. \A b \in pipeBusy'[Page] : \E o \in Stages : Active(o)' /\ pipeRuns'[o].button = b
    BY <1>2, StagesKnown
  <1>5. ButtonsHold'
    BY <1>2 DEF PipeInv, ButtonsHold
  <1>6. TableFits'
    BY DEF PipeInv, TableFits
  <1>7. ASSUME NEW o \in Stages, Active(o)'
        PROVE  StageFits(pipeRuns'[o], pipeStatus', pipeCopies', pipeAddress', pipeMailed',
                         pipeApplied')
    <2>1. CASE o = r
      BY <1>1, <2>1
    <2>2. CASE o # r
      <3>1. /\ pipeRuns'[o] = pipeRuns[o]
            /\ StageFits(pipeRuns[o], pipeStatus, pipeCopies, pipeAddress, pipeMailed,
                         pipeApplied)
        BY <1>1, <1>2, <1>7, <2>2 DEF PipeInv, RunsFit
      <3> QED
        BY <3>1 DEF StageFits
    <2> QED
      BY <2>1, <2>2
  <1>8. RunsFit'
    BY <1>7 DEF RunsFit
  <1>9. pipeRecorded' \subseteq pipeApplied'
    BY StagesKnown
  <1> QED
    BY <1>3, <1>4, <1>5, <1>6, <1>8, <1>9, StagesKnown, StagesTogether

LEMMA StageIsPressed ==
  ASSUME PartsAssumption, PipeInv, NEW b \in Pipeline!Buttons, Pipeline!Press(Page, b)
  PROVE  PipeInv'
  <1> DEFINE x == [pc |-> "asked", button |-> b, tab |-> Page, todo |-> {},
                   done |-> [j \in Jobs |-> Nil]]
  <1>1. PICK r \in Stages : /\ pipeRuns[r] = Pipeline!Free
                            /\ pipeRuns' = [pipeRuns EXCEPT ![r] = x]
    BY DEF Pipeline!Press
  <1>2. /\ b \notin pipeBusy[Page]
        /\ pipeBusy' = [pipeBusy EXCEPT ![Page] = @ \cup {b}]
        /\ UNCHANGED <<pipeStatus, pipeCopies, pipeAddress, pipeReloads, pipeCrashes,
                       pipeMailed, pipeApplied, pipeRecorded>>
    BY DEF Pipeline!Press, Pipeline!Disabled, Pipeline!table, Pipeline!ghost
  <1>3. x \in Pipeline!Run /\ x.button = b /\ x.todo = {} /\ \A j \in Jobs : x.done[j] = Nil
    BY DEF Pipeline!Run
  <1> HIDE DEF x
  <1>4. \A o \in Stages : pipeRuns'[o] = IF o = r THEN x ELSE pipeRuns[o]
    BY <1>1, StagesKnown
  <1>5. pipeRuns' \in [Stages -> {Pipeline!Free} \cup Pipeline!Run]
    BY <1>1, <1>3, StagesKnown
  <1>6. /\ pipeBusy'[Page] = pipeBusy[Page] \cup {b}
        /\ pipeBusy' \in [{Page} -> SUBSET Pipeline!Buttons]
    BY <1>2, StagesKnown
  <1>7. \A o \in Stages : Active(o)' <=> Active(o) \/ o = r
    BY <1>1, <1>3, <1>4, StageFields DEF Active
  <1>8. ~ Active(r)
    BY <1>1 DEF Active
  <1>9. ASSUME NEW c \in pipeBusy'[Page]
        PROVE  \E o \in Stages : Active(o)' /\ pipeRuns'[o].button = c
    <2>1. CASE c = b
      BY <1>3, <1>4, <1>7, <2>1
    <2>2. CASE c # b
      <3>1. PICK o \in Stages : Active(o) /\ pipeRuns[o].button = c
        BY <1>6, <2>2, StagesKnown
      <3> QED
        BY <1>4, <1>7, <1>8, <3>1
    <2> QED
      BY <2>1, <2>2
  <1>10. ButtonsHold'
    <2>1. \A o \in Stages : Active(o)' => pipeRuns'[o].button \in pipeBusy'[Page]
      BY <1>3, <1>4, <1>6, <1>7 DEF PipeInv, ButtonsHold
    <2>2. ASSUME NEW o \in Stages, NEW p \in Stages, Active(o)', Active(p)',
                 pipeRuns'[o].button = pipeRuns'[p].button
          PROVE  o = p
      <3>1. \A q \in Stages : q # r /\ Active(q)' =>
               Active(q) /\ pipeRuns'[q] = pipeRuns[q] /\ pipeRuns[q].button # b
        BY <1>2, <1>4, <1>7 DEF PipeInv, ButtonsHold
      <3>2. pipeRuns'[r].button = b
        BY <1>3, <1>4
      <3> QED
        BY <2>2, <3>1, <3>2 DEF PipeInv, ButtonsHold
    <2> QED
      BY <2>1, <2>2 DEF ButtonsHold
  <1>11. TableFits'
    BY <1>2 DEF PipeInv, TableFits
  <1>12. ASSUME NEW o \in Stages, Active(o)'
         PROVE  StageFits(pipeRuns'[o], pipeStatus', pipeCopies', pipeAddress', pipeMailed',
                          pipeApplied')
    <2>1. CASE o = r
      <3>1. \A j \in Jobs : /\ ~ Holds(x, j) /\ x.done[j] \in Writes(x.button) \cup {Nil}
                            /\ x.done[j] # "li_applied"
        BY <1>3, NilIsNoStatus DEF Holds
      <3> QED
        BY <1>4, <2>1, <3>1 DEF StageFits
    <2>2. CASE o # r
      BY <1>2, <1>4, <1>7, <1>12, <2>2 DEF PipeInv, RunsFit
    <2> QED
      BY <2>1, <2>2
  <1>13. RunsFit'
    BY <1>12 DEF RunsFit
  <1> QED
    BY <1>2, <1>5, <1>6, <1>9, <1>10, <1>11, <1>13, StagesKnown, StagesTogether

\* A list names the postings that fit the stage.
LEMMA ListFits ==
  ASSUME PartsAssumption, PipeInv, NEW b \in Pipeline!Buttons
  PROVE  /\ Pipeline!List(b) \subseteq Jobs
         /\ \A j \in Pipeline!List(b) :
               /\ b \in {"contacts", "auto"} => pipeCopies[j] > 0
               /\ b = "contacts" => j \notin pipeAddress /\ pipeMailed[j] = 0
               /\ b = "draft" => /\ j \in pipeAddress /\ pipeMailed[j] = 0
                                 /\ pipeStatus[j] = "email_found"
  <1>1. ASSUME NEW j \in Jobs
        PROVE  /\ pipeStatus[j] # "absent" => pipeCopies[j] > 0
               /\ j \notin pipeAddress => pipeMailed[j] = 0
               /\ pipeStatus[j] = "email_found" => j \in pipeAddress /\ pipeMailed[j] = 0
    BY StagesKnown DEF PipeInv, TableFits, MailFits, RowFits
  <1>2. CASE b \in {"find", "discover"}
    BY <1>2 DEF Pipeline!List, Pipeline!Kind
  <1>3. CASE b = "contacts"
    BY <1>1, <1>3 DEF Pipeline!List, Pipeline!Kind, Pipeline!NeedingEmail
  <1>4. CASE b = "draft"
    BY <1>1, <1>4 DEF Pipeline!List, Pipeline!Kind, Pipeline!ForDrafting
  <1>5. CASE b = "auto"
    BY <1>1, <1>5 DEF Pipeline!List, Pipeline!Kind, Pipeline!Queue
  <1> QED
    BY <1>2, <1>3, <1>4, <1>5 DEF Pipeline!Buttons

LEMMA StageReads ==
  ASSUME PartsAssumption, PipeInv, NEW r \in Stages, Active(r), Pipeline!Read(r)
  PROVE  PipeInv'
  <1> DEFINE b == pipeRuns[r].button
             x == [pipeRuns[r] EXCEPT !.pc = "work", !.todo = Pipeline!List(b)]
  <1>1. /\ pipeRuns[r] \in Pipeline!Run /\ b \in Pipeline!Buttons
        /\ StageFits(pipeRuns[r], pipeStatus, pipeCopies, pipeAddress, pipeMailed,
                     pipeApplied)
    BY StagesKnown, StageFields DEF PipeInv, RunsFit
  <1>2. pipeRuns' = [pipeRuns EXCEPT ![r] = x]
    BY ZenonT(60) DEF Pipeline!Read
  <1>3. Pipeline!List(b) \in SUBSET Jobs
    BY <1>1, ListFits
  <1>4. /\ x \in Pipeline!Run /\ x.button = b /\ x.done = pipeRuns[r].done
        /\ x.todo = Pipeline!List(b)
    <2> HIDE DEF b
    <2> QED
      BY <1>1, <1>3 DEF Pipeline!Run, b
  <1> HIDE DEF x
  <1>5. ASSUME NEW j \in Jobs, Holds(x, j)
        PROVE  j \in Pipeline!List(b) \/ Holds(pipeRuns[r], j)
    BY <1>4, <1>5 DEF Holds
  <1>6. StageFits(x, pipeStatus, pipeCopies, pipeAddress, pipeMailed, pipeApplied)
    BY <1>1, <1>4, <1>5, ListFits DEF StageFits
  <1>7. UNCHANGED <<pipeStatus, pipeCopies, pipeAddress, pipeBusy, pipeReloads, pipeCrashes,
                    pipeMailed, pipeApplied, pipeRecorded>>
    BY DEF Pipeline!Read, Pipeline!table, Pipeline!ghost
  <1> QED
    BY <1>2, <1>4, <1>6, <1>7, StagesKnown, StageGoesOn

\* A stage that works on a posting has it on its list, and its result is one it may write.
LEMMA StageWorks ==
  ASSUME PartsAssumption, PipeInv, NEW r \in Stages, Active(r), NEW j \in Jobs, NEW result,
         j \in pipeRuns[r].todo, Pipeline!Works(r, j, result),
         result \in Writes(pipeRuns[r].button) \cup {Nil},
         result \in Pipeline!Statuses \cup {Nil},
         result = "li_applied" => j \in pipeApplied',
         pipeApplied \subseteq pipeApplied', pipeApplied' \subseteq Jobs,
         UNCHANGED <<pipeStatus, pipeCopies, pipeAddress, pipeBusy, pipeReloads,
                     pipeCrashes, pipeMailed, pipeRecorded>>
  PROVE  PipeInv'
  <1> DEFINE T == pipeRuns[r].todo \ {j}
             D == [pipeRuns[r].done EXCEPT ![j] = result]
             x == [pipeRuns[r] EXCEPT !.todo = T, !.done = D]
  <1>1. /\ pipeRuns[r] \in Pipeline!Run
        /\ StageFits(pipeRuns[r], pipeStatus, pipeCopies, pipeAddress, pipeMailed,
                     pipeApplied)
    BY StagesKnown DEF PipeInv, RunsFit
  <1>2. pipeRuns[r].todo \in SUBSET Jobs /\ pipeRuns[r].done \in [Jobs -> Pipeline!Statuses \cup {Nil}]
    BY <1>1, StageFields
  <1>3. pipeRuns' = [pipeRuns EXCEPT ![r] = x]
    BY ZenonT(60) DEF Pipeline!Works
  <1>4. /\ T \in SUBSET Jobs /\ D \in [Jobs -> Pipeline!Statuses \cup {Nil}]
        /\ \A k \in Jobs : D[k] = IF k = j THEN result ELSE pipeRuns[r].done[k]
        /\ T \subseteq pipeRuns[r].todo
    BY <1>2
  <1> HIDE DEF T, D
  <1>5. x \in Pipeline!Run /\ x.button = pipeRuns[r].button /\ x.todo = T /\ x.done = D
    BY <1>1, <1>4 DEF Pipeline!Run
  <1> HIDE DEF x
  <1>6. \A k \in Jobs : Holds(x, k) => Holds(pipeRuns[r], k)
    BY <1>4, <1>5 DEF Holds
  <1>7. StageFits(x, pipeStatus, pipeCopies, pipeAddress, pipeMailed, pipeApplied')
    BY <1>1, <1>4, <1>5, <1>6 DEF StageFits
  <1> QED
    BY <1>3, <1>5, <1>7, StageGoesOn

LEMMA StageTakesPosting ==
  ASSUME PartsAssumption, PipeInv, NEW r \in Stages, Active(r), NEW j \in Jobs,
         \/ Pipeline!PassOver(r, j) \/ Pipeline!Store(r, j) \/ Pipeline!HunterResolve(r, j)
         \/ Pipeline!Draft(r, j) \/ Pipeline!Apply(r, j)
  PROVE  PipeInv'
  <1> DEFINE b == pipeRuns[r].button
  <1>1. /\ j \in pipeRuns[r].todo
        /\ UNCHANGED <<pipeStatus, pipeCopies, pipeAddress, pipeBusy, pipeReloads,
                       pipeCrashes, pipeMailed, pipeRecorded>>
    BY DEF Pipeline!PassOver, Pipeline!Store, Pipeline!HunterResolve, Pipeline!Draft,
           Pipeline!Apply, Pipeline!table, Pipeline!ghost
  <1>2. b \in Pipeline!Buttons /\ pipeApplied \subseteq Jobs
    BY StagesKnown, StageFields
  <1>3. \A v \in {"discovered", "email_found", "drafted", "li_applied", "li_skipped"} :
           v \in Pipeline!Statuses
    BY DEF Pipeline!Statuses
  <1>4. PICK result :
           /\ Pipeline!Works(r, j, result)
           /\ result \in Writes(b) \cup {Nil} /\ result \in Pipeline!Statuses \cup {Nil}
           /\ result = "li_applied" => j \in pipeApplied'
           /\ pipeApplied \subseteq pipeApplied' /\ pipeApplied' \subseteq Jobs
    <2>1. CASE Pipeline!PassOver(r, j)
      BY <1>2, <2>1, NilIsNoStatus DEF Pipeline!PassOver, Pipeline!ghost
    <2>2. CASE Pipeline!Store(r, j)
      <3>1. b \in {"find", "discover"}
        BY <1>2, <2>2 DEF Pipeline!Store, Pipeline!Running, Pipeline!Kind
      <3>2. PICK v \in {"discovered", "email_found"} : Pipeline!Works(r, j, v)
        BY <2>2 DEF Pipeline!Store
      <3>3. v \in Writes(b) /\ v # "li_applied"
        BY <3>1 DEF Writes
      <3> QED
        BY <1>2, <1>3, <2>2, <3>2, <3>3 DEF Pipeline!Store, Pipeline!ghost
    <2>3. CASE Pipeline!HunterResolve(r, j)
      <3>1. b = "contacts"
        BY <1>2, <2>3 DEF Pipeline!HunterResolve, Pipeline!Running, Pipeline!Kind
      <3>2. "email_found" \in Writes(b)
        BY <3>1 DEF Writes
      <3> QED
        BY <1>2, <1>3, <2>3, <3>2 DEF Pipeline!HunterResolve, Pipeline!ghost
    <2>4. CASE Pipeline!Draft(r, j)
      <3>1. b = "draft"
        BY <1>2, <2>4 DEF Pipeline!Draft, Pipeline!Running, Pipeline!Kind
      <3>2. "drafted" \in Writes(b)
        BY <3>1 DEF Writes
      <3> QED
        BY <1>2, <1>3, <2>4, <3>2 DEF Pipeline!Draft, Pipeline!ghost
    <2>5. CASE Pipeline!Apply(r, j)
      <3>1. b = "auto"
        BY <1>2, <2>5 DEF Pipeline!Apply, Pipeline!Running, Pipeline!Kind
      <3>2. "li_applied" \in Writes(b) /\ "li_skipped" \in Writes(b)
        BY <3>1 DEF Writes
      <3>3. CASE Pipeline!Works(r, j, "li_applied") /\ pipeApplied' = pipeApplied \cup {j}
        BY <1>2, <1>3, <3>2, <3>3
      <3>4. CASE Pipeline!Works(r, j, "li_skipped") /\ pipeApplied' = pipeApplied
        BY <1>2, <1>3, <3>2, <3>4
      <3> QED
        BY <2>5, <3>3, <3>4 DEF Pipeline!Apply
    <2> QED
      BY <2>1, <2>2, <2>3, <2>4, <2>5
  <1> QED
    BY <1>1, <1>4, StageWorks

\* A run ends: its button is enabled, and nothing else changes at the page.
LEMMA StageEnds ==
  ASSUME PartsAssumption, PipeInv, NEW r \in Stages, Active(r), Pipeline!Ends(r)
  PROVE  /\ pipeRuns' \in [Stages -> {Pipeline!Free} \cup Pipeline!Run]
         /\ pipeBusy' \in [{Page} -> SUBSET Pipeline!Buttons]
         /\ \A b \in pipeBusy'[Page] :
               \E o \in Stages : Active(o)' /\ pipeRuns'[o].button = b
         /\ ButtonsHold'
         /\ \A o \in Stages : Active(o)' => /\ Active(o) /\ pipeRuns'[o] = pipeRuns[o]
                                            /\ pipeRuns[o].button # pipeRuns[r].button
  <1>1. /\ pipeRuns' = [pipeRuns EXCEPT ![r] = Pipeline!Free]
        /\ pipeBusy' = [pipeBusy EXCEPT ![Page] = @ \ {pipeRuns[r].button}]
    <2>1. pipeRuns[r].tab = Page
      BY StagesKnown, StageFields
    <2> QED
      BY <2>1 DEF Pipeline!Ends
  <1>2. \A o \in Stages : pipeRuns'[o] = IF o = r THEN Pipeline!Free ELSE pipeRuns[o]
    BY <1>1, StagesKnown
  <1>3. pipeRuns' \in [Stages -> {Pipeline!Free} \cup Pipeline!Run]
    BY <1>1, StagesKnown
  <1>4. /\ pipeBusy'[Page] = pipeBusy[Page] \ {pipeRuns[r].button}
        /\ pipeBusy' \in [{Page} -> SUBSET Pipeline!Buttons]
    BY <1>1, StagesKnown
  <1>5. ASSUME NEW o \in Stages, Active(o)'
        PROVE  /\ Active(o) /\ pipeRuns'[o] = pipeRuns[o]
               /\ pipeRuns[o].button # pipeRuns[r].button
    <2>1. o # r
      BY <1>2, <1>5 DEF Active
    <2>2. Active(o) /\ pipeRuns'[o] = pipeRuns[o]
      BY <1>2, <1>5, <2>1 DEF Active
    <2> QED
      BY <2>1, <2>2 DEF PipeInv, ButtonsHold
  <1>6. ASSUME NEW b \in pipeBusy'[Page]
        PROVE  \E o \in Stages : Active(o)' /\ pipeRuns'[o].button = b
    <2>1. PICK o \in Stages : Active(o) /\ pipeRuns[o].button = b
      BY <1>4, StagesKnown
    <2>2. o # r
      BY <1>4, <2>1
    <2> QED
      BY <1>2, <2>1, <2>2 DEF Active
  <1>7. ButtonsHold'
    BY <1>4, <1>5 DEF PipeInv, ButtonsHold
  <1> QED
    BY <1>3, <1>4, <1>5, <1>6, <1>7

LEMMA StageFails ==
  ASSUME PartsAssumption, PipeInv, NEW r \in Stages, Active(r), Pipeline!Fail(r)
  PROVE  PipeInv'
  <1>1. /\ Pipeline!Ends(r)
        /\ UNCHANGED <<pipeStatus, pipeCopies, pipeAddress, pipeReloads, pipeCrashes,
                       pipeMailed, pipeApplied, pipeRecorded>>
    BY DEF Pipeline!Fail, Pipeline!table, Pipeline!ghost
  <1>2. TableFits'
    BY <1>1 DEF PipeInv, TableFits
  <1>3. RunsFit'
    BY <1>1, StageEnds DEF PipeInv, RunsFit
  <1> QED
    BY <1>1, <1>2, <1>3, StagesKnown, StageEnds, StagesTogether

\* What a run that commits writes for a posting.
LEMMA WhatIsWritten ==
  ASSUME PartsAssumption, PipeInv, NEW r \in Stages, Active(r), Pipeline!Commit(r),
         NEW j \in Jobs, pipeRuns[r].done[j] # Nil
  PROVE  LET done == pipeRuns[r].done[j]
             b == pipeRuns[r].button
         IN
         \/ /\ b \in {"find", "discover"} /\ Pipeline!Running(r, "discover")
            /\ done \in {"discovered", "email_found"}
            /\ pipeStatus[j] = "absent" /\ pipeCopies[j] = 0 /\ pipeMailed[j] = 0
         \/ /\ b = "contacts" /\ done = "email_found" /\ ~ Pipeline!Running(r, "discover")
            /\ pipeCopies[j] > 0 /\ j \notin pipeAddress /\ pipeMailed[j] = 0
         \/ /\ b = "draft" /\ done = "drafted" /\ ~ Pipeline!Running(r, "discover")
            /\ pipeStatus[j] # "absent" /\ j \in pipeAddress /\ pipeMailed[j] = 0
         \/ /\ b = "auto" /\ done \in {"li_applied", "li_skipped"}
            /\ ~ Pipeline!Running(r, "discover")
            /\ pipeCopies[j] > 0
            /\ done = "li_applied" => j \in pipeApplied
  <1> DEFINE b == pipeRuns[r].button
  <1>1. /\ b \in Pipeline!Buttons /\ pipeRuns[r].pc = "work"
        /\ StageFits(pipeRuns[r], pipeStatus, pipeCopies, pipeAddress, pipeMailed,
                     pipeApplied)
    BY StagesKnown, StageFields DEF PipeInv, RunsFit, Pipeline!Commit
  <1>2. pipeRuns[r].done[j] \in Writes(b) /\ Holds(pipeRuns[r], j)
    BY <1>1 DEF StageFits, Holds
  <1>3. Pipeline!Running(r, "discover") <=> b \in {"find", "discover"}
    BY <1>1 DEF Pipeline!Running, Pipeline!Kind, Active, Pipeline!Buttons
  <1>4. CASE b \in {"find", "discover"}
    <2>1. pipeRuns[r].done[j] \in {"discovered", "email_found"}
      BY <1>2, <1>4 DEF Writes
    <2>2. pipeCopies[j] = 0
      BY <1>3, <1>4 DEF Pipeline!Commit, Pipeline!Unique
    <2>3. pipeStatus[j] = "absent" /\ pipeMailed[j] = 0
      BY <2>2, StagesKnown DEF PipeInv, TableFits, RowFits, MailFits
    <2> QED
      BY <1>3, <1>4, <2>1, <2>2, <2>3
  <1>5. CASE b = "contacts"
    BY <1>1, <1>2, <1>3, <1>5 DEF Writes, StageFits
  <1>6. CASE b = "draft"
    BY <1>1, <1>2, <1>3, <1>6 DEF Writes, StageFits
  <1>7. CASE b = "auto"
    BY <1>1, <1>2, <1>3, <1>7 DEF Writes, StageFits
  <1> QED
    BY <1>1, <1>4, <1>5, <1>6, <1>7 DEF Pipeline!Buttons

LEMMA StageCommits ==
  ASSUME PartsAssumption, PipeInv, NEW r \in Stages, Active(r), Pipeline!Commit(r)
  PROVE  PipeInv'
  <1> DEFINE d == pipeRuns[r].done
             b == pipeRuns[r].button
             found == Pipeline!Running(r, "discover")
  <1>1. /\ pipeStatus' = [j \in Jobs |-> IF d[j] = Nil THEN pipeStatus[j] ELSE d[j]]
        /\ pipeCopies' = [j \in Jobs |-> IF found /\ d[j] # Nil /\ pipeCopies[j] < 2
                                         THEN pipeCopies[j] + 1 ELSE pipeCopies[j]]
        /\ pipeAddress' = pipeAddress \cup {j \in Jobs : d[j] = "email_found"}
        /\ pipeRecorded' = pipeRecorded \cup {j \in Jobs : d[j] = "li_applied"}
        /\ Pipeline!Ends(r)
        /\ UNCHANGED <<pipeReloads, pipeCrashes, pipeMailed, pipeApplied>>
    BY DEF Pipeline!Commit
  <1>2. /\ d \in [Jobs -> Pipeline!Statuses \cup {Nil}] /\ Nil \notin Pipeline!Statuses
        /\ Nil # "email_found" /\ Nil # "li_applied"
    BY StagesKnown, StageFields, NilIsNoStatus
  <1>3. ASSUME NEW j \in Jobs, d[j] # Nil
        PROVE  \/ /\ b \in {"find", "discover"} /\ found
                  /\ d[j] \in {"discovered", "email_found"}
                  /\ pipeStatus[j] = "absent" /\ pipeCopies[j] = 0 /\ pipeMailed[j] = 0
               \/ /\ b = "contacts" /\ d[j] = "email_found" /\ ~ found
                  /\ pipeCopies[j] > 0 /\ j \notin pipeAddress /\ pipeMailed[j] = 0
               \/ /\ b = "draft" /\ d[j] = "drafted" /\ ~ found
                  /\ pipeStatus[j] # "absent" /\ j \in pipeAddress /\ pipeMailed[j] = 0
               \/ /\ b = "auto" /\ d[j] \in {"li_applied", "li_skipped"} /\ ~ found
                  /\ pipeCopies[j] > 0
                  /\ d[j] = "li_applied" => j \in pipeApplied
    BY <1>3, WhatIsWritten
  <1> HIDE DEF d, b, found
  <1>4. ASSUME NEW j \in Jobs
        PROVE  /\ pipeCopies[j] \in 0..1
               /\ pipeStatus[j] = "absent" <=> pipeCopies[j] = 0
               /\ pipeMailed[j] \in 0..1
               /\ MailFits(pipeStatus[j], j, pipeAddress, pipeMailed[j])
               /\ j \in pipeAddress => pipeStatus[j] # "absent"
    <2>1. pipeCopies[j] \in 0..2 /\ pipeMailed[j] \in 0..2
      BY StagesKnown
    <2> QED
      BY <2>1 DEF PipeInv, TableFits, RowFits, MailFits
  <1>5. ASSUME NEW j \in Jobs, d[j] = Nil
        PROVE  /\ pipeStatus'[j] = pipeStatus[j] /\ pipeCopies'[j] = pipeCopies[j]
               /\ j \in pipeAddress' <=> j \in pipeAddress
    BY <1>1, <1>2, <1>5
  <1>6. ASSUME NEW j \in Jobs, d[j] # Nil
        PROVE  /\ pipeStatus'[j] = d[j] /\ d[j] \in Pipeline!Statuses
               /\ pipeCopies'[j] = IF found THEN pipeCopies[j] + 1 ELSE pipeCopies[j]
               /\ j \in pipeAddress' <=> j \in pipeAddress \/ d[j] = "email_found"
    <2>1. pipeStatus'[j] = d[j] /\ d[j] \in Pipeline!Statuses
      BY <1>1, <1>2, <1>6
    <2>2. pipeCopies[j] < 2
      BY <1>4
    <2>3. pipeCopies'[j] = IF found THEN pipeCopies[j] + 1 ELSE pipeCopies[j]
      BY <1>1, <1>6, <2>2
    <2> QED
      BY <1>1, <2>1, <2>3
  <1>7. /\ pipeStatus' \in [Jobs -> Pipeline!Statuses] /\ pipeCopies' \in [Jobs -> 0..2]
        /\ pipeAddress' \subseteq Jobs
    <2>1. pipeStatus' \in [Jobs -> Pipeline!Statuses]
      BY <1>1, <1>2, StagesKnown
    <2>2. pipeCopies' \in [Jobs -> 0..2]
      BY <1>1, StagesKnown
    <2> QED
      BY <1>1, <2>1, <2>2, StagesKnown
  <1>8. pipeRecorded' \subseteq pipeApplied' /\ pipeApplied' \subseteq Jobs
    <2>1. ASSUME NEW j \in Jobs, d[j] = "li_applied" PROVE j \in pipeApplied
      BY <1>2, <1>3, <2>1
    <2> QED
      BY <1>1, <2>1, StagesKnown
  <1>9. ASSUME NEW j \in Jobs
        PROVE  /\ MailFits(pipeStatus'[j], j, pipeAddress', pipeMailed'[j])
               /\ RowFits(pipeStatus'[j], pipeCopies'[j])
               /\ j \in pipeAddress' => pipeStatus'[j] # "absent"
    <2>1. CASE d[j] = Nil
      BY <1>1, <1>4, <1>5, <2>1 DEF MailFits, RowFits
    <2>2. CASE d[j] # Nil
      <3>1. CASE found
        BY <1>1, <1>3, <1>4, <1>6, <2>2, <3>1 DEF MailFits, RowFits
      <3>2. CASE ~ found
        BY <1>1, <1>3, <1>4, <1>6, <2>2, <3>2 DEF MailFits, RowFits
      <3> QED
        BY <3>1, <3>2
    <2> QED
      BY <2>1, <2>2
  <1>10. TableFits'
    BY <1>9 DEF TableFits
  <1>11. ASSUME NEW o \in Stages, Active(o)'
         PROVE  StageFits(pipeRuns'[o], pipeStatus', pipeCopies', pipeAddress', pipeMailed',
                          pipeApplied')
    <2> DEFINE x == pipeRuns[o]
    <2>1. /\ pipeRuns'[o] = x /\ x.button # b
          /\ StageFits(x, pipeStatus, pipeCopies, pipeAddress, pipeMailed, pipeApplied)
      BY <1>1, <1>11, StageEnds DEF PipeInv, RunsFit, b
    <2> HIDE DEF x
    <2>2. ASSUME NEW j \in Jobs, Holds(x, j)
          PROVE  /\ x.button \in {"contacts", "auto"} => pipeCopies'[j] > 0
                 /\ x.button = "contacts" => j \notin pipeAddress'
                 /\ x.button = "draft" =>
                       /\ j \in pipeAddress'
                       /\ pipeStatus'[j] \in {"email_found", "li_applied", "li_skipped"}
      <3>1. CASE d[j] = Nil
        BY <1>5, <2>1, <2>2, <3>1 DEF StageFits
      <3>2. CASE d[j] # Nil
        <4>1. /\ x.button \in {"contacts", "auto"} => pipeCopies[j] > 0
              /\ x.button = "contacts" => j \notin pipeAddress
              /\ x.button = "draft" =>
                    /\ j \in pipeAddress
                    /\ pipeStatus[j] \in {"email_found", "li_applied", "li_skipped"}
          BY <2>1, <2>2 DEF StageFits
        <4>2. x.button \in {"contacts", "draft", "auto"} => b \notin {"find", "discover"}
          BY <1>3, <1>4, <3>2, <4>1
        <4> QED
          BY <1>3, <1>4, <1>6, <2>1, <3>2, <4>1, <4>2
      <3> QED
        BY <3>1, <3>2
    <2> QED
      BY <1>1, <2>1, <2>2 DEF StageFits
  <1>12. RunsFit'
    BY <1>11 DEF RunsFit
  <1> QED
    BY <1>1, <1>7, <1>8, <1>10, <1>12, StagesKnown, StageEnds, StagesTogether

LEMMA PostingIsMailed ==
  ASSUME PartsAssumption, PipeInv, NEW j \in Jobs, Pipeline!Mail(j) \/ Pipeline!Reply(j)
  PROVE  PipeInv'
  <1>1. /\ pipeStatus[j] \in {"drafted", "sent"}
        /\ \E s \in {"sent", "replied"} : pipeStatus' = [pipeStatus EXCEPT ![j] = s]
        /\ UNCHANGED <<pipeCopies, pipeAddress, pipeRuns, pipeBusy, pipeReloads,
                       pipeCrashes, pipeApplied, pipeRecorded>>
    BY DEF Pipeline!Mail, Pipeline!Reply, Pipeline!ghost
  <1>2. \A k \in Jobs \ {j} : pipeStatus'[k] = pipeStatus[k] /\ pipeMailed'[k] = pipeMailed[k]
    BY StagesKnown DEF Pipeline!Mail, Pipeline!Reply, Pipeline!ghost
  <1>3. /\ pipeStatus'[j] \in {"sent", "replied"} /\ pipeStatus' \in [Jobs -> Pipeline!Statuses]
    BY <1>1, StagesKnown DEF Pipeline!Statuses
  <1>4. \A k \in Jobs : MailFits(pipeStatus[k], k, pipeAddress, pipeMailed[k])
    BY DEF PipeInv, TableFits
  <1>5. /\ pipeMailed' \in [Jobs -> 0..2] /\ pipeMailed'[j] < 2
        /\ pipeMailed'[j] > 0 => j \in pipeAddress
    <2>1. CASE Pipeline!Reply(j)
      BY <1>4, <2>1, StagesKnown DEF Pipeline!Reply, Pipeline!ghost, MailFits
    <2>2. CASE Pipeline!Mail(j)
      <3>1. pipeMailed[j] = 0 /\ j \in pipeAddress
        BY <1>4, <2>2 DEF Pipeline!Mail, MailFits
      <3> QED
        BY <2>2, <3>1, StagesKnown DEF Pipeline!Mail
    <2> QED
      BY <2>1, <2>2
  <1>6. TableFits'
    <2> SUFFICES ASSUME NEW k \in Jobs
                 PROVE  /\ MailFits(pipeStatus'[k], k, pipeAddress', pipeMailed'[k])
                        /\ RowFits(pipeStatus'[k], pipeCopies'[k])
                        /\ k \in pipeAddress' => pipeStatus'[k] # "absent"
      BY DEF TableFits
    <2>1. /\ RowFits(pipeStatus[k], pipeCopies[k])
          /\ k \in pipeAddress => pipeStatus[k] # "absent"
      BY DEF PipeInv, TableFits
    <2>2. CASE k = j
      BY <1>1, <1>3, <1>5, <2>1, <2>2 DEF MailFits, RowFits
    <2>3. CASE k # j
      BY <1>1, <1>2, <1>4, <2>1, <2>3 DEF MailFits, RowFits
    <2> QED
      BY <2>2, <2>3
  <1>7. ASSUME NEW o \in Stages, Active(o)'
        PROVE  StageFits(pipeRuns'[o], pipeStatus', pipeCopies', pipeAddress', pipeMailed',
                         pipeApplied')
    <2>1. /\ pipeRuns'[o] = pipeRuns[o]
          /\ StageFits(pipeRuns[o], pipeStatus, pipeCopies, pipeAddress, pipeMailed,
                       pipeApplied)
      BY <1>1, <1>7 DEF PipeInv, RunsFit, Active
    <2>2. pipeRuns[o].button = "contacts" /\ Pipeline!Mail(j) => ~ Holds(pipeRuns[o], j)
      BY <2>1 DEF StageFits, Pipeline!Mail
    <2>3. pipeRuns[o].button = "draft" => ~ Holds(pipeRuns[o], j)
      BY <1>1, <2>1 DEF StageFits
    <2>4. Pipeline!Reply(j) => pipeMailed' = pipeMailed
      BY DEF Pipeline!Reply, Pipeline!ghost
    <2> QED
      BY <1>1, <1>2, <2>1, <2>2, <2>3, <2>4 DEF StageFits
  <1>8. RunsFit'
    BY <1>7 DEF RunsFit
  <1>9. ButtonsHold'
    BY <1>1 DEF PipeInv, ButtonsHold, Active
  <1>10. \A b \in pipeBusy'[Page] : \E o \in Stages : Active(o)' /\ pipeRuns'[o].button = b
    BY <1>1, StagesKnown DEF Active
  <1> QED
    BY <1>1, <1>3, <1>5, <1>6, <1>8, <1>9, <1>10, StagesKnown, StagesTogether

LEMMA StagesCrash ==
  ASSUME PartsAssumption, PipeInv, Pipeline!Crash
  PROVE  PipeInv'
  <1>1. /\ pipeRuns' \in [Stages -> {Pipeline!Free} \cup Pipeline!Run]
        /\ \A r \in Stages : ~ Active(r)'
        /\ pipeBusy' \in [{Page} -> SUBSET Pipeline!Buttons] /\ pipeBusy'[Page] = {}
    BY DEF Pipeline!Crash, Active
  <1>2. pipeCrashes' \in 0..StageCrashes
    BY StagesKnown, NilIsNoStatus DEF Pipeline!Crash
  <1>3. UNCHANGED <<pipeStatus, pipeCopies, pipeAddress, pipeReloads, pipeMailed,
                    pipeApplied, pipeRecorded>>
    BY DEF Pipeline!Crash, Pipeline!table, Pipeline!ghost
  <1>4. TableFits'
    BY <1>3 DEF PipeInv, TableFits
  <1>5. ButtonsHold' /\ RunsFit'
    BY <1>1 DEF ButtonsHold, RunsFit
  <1> QED
    BY <1>1, <1>2, <1>3, <1>4, <1>5, StagesKnown, StagesTogether

LEMMA StagesStep == ASSUME PartsAssumption, PipeInv, Pipeline!Next PROVE PipeInv'
  <1>1. CASE \E t \in {Page} : Pipeline!Reload(t)
    BY <1>1 DEF Pipeline!Reload, PipeInv, Pipeline!TypeOK
  <1>2. CASE \E t \in {Page} : \E b \in Pipeline!Buttons : Pipeline!Press(t, b)
    BY <1>2, StageIsPressed
  <1>3. ASSUME NEW r \in Stages, pipeRuns[r] # Pipeline!Free,
               \/ Pipeline!Read(r) \/ Pipeline!Commit(r) \/ Pipeline!Fail(r)
               \/ \E j \in Jobs : \/ Pipeline!PassOver(r, j) \/ Pipeline!Store(r, j)
                                  \/ Pipeline!HunterResolve(r, j) \/ Pipeline!Draft(r, j)
                                  \/ Pipeline!Apply(r, j)
        PROVE  PipeInv'
    <2>1. Active(r)
      BY <1>3 DEF Active
    <2> QED
      BY <1>3, <2>1, StageReads, StageCommits, StageFails, StageTakesPosting
  <1>4. CASE \E j \in Jobs : Pipeline!Mail(j) \/ Pipeline!Reply(j)
    BY <1>4, PostingIsMailed
  <1>5. CASE Pipeline!Crash
    BY <1>5, StagesCrash
  <1> QED
    BY <1>1, <1>2, <1>3, <1>4, <1>5 DEF Pipeline!Next

-----------------------------------------------------------------------------
(* The reply scan and the tracker *)

\* A scan counts a bounce of its own only while it has the database to itself.
ScanFits(x, s, lock, count, mails) ==
    /\ x.low \in Nat \ {0} /\ x.high \in Nat /\ x.high <= mails
    /\ x.next \in Nat /\ x.next <= x.high
    /\ x.own # {} => lock = s
    /\ \A a \in x.own : count[a] = 0

RepliesInv ==
    /\ Replies!TypeOK
    /\ replyScans \in [Scans -> {Replies!Free} \cup Replies!Scan]
    /\ replyRows \in [Trackers -> [Threads -> Replies!Statuses] \cup {Nil}]
    /\ replyChip \in [Trackers -> {"all"} \cup Replies!Statuses]
    /\ replyTable \in [Trackers -> SUBSET Threads]
    /\ replyAsks \in [Trackers -> Seq(Replies!Answers)]
    /\ \A s \in Scans : replyScans[s] # Replies!Free =>
          ScanFits(replyScans[s], s, replyLock, replyBounces, Len(replyInbox))
    /\ Replies!BouncedOnce
    /\ Replies!TableFollowsChip

LEMMA RepliesConstants ==
  ASSUME PartsAssumption PROVE MaxMails \in Nat /\ MaxAsks \in Nat /\ Nil \notin Scans
  BY DEF PartsAssumption, Replies!RepliesAssumption

LEMMA ScanFields ==
  ASSUME NEW x \in Replies!Scan
  PROVE  /\ x.low \in Nat /\ x.high \in Nat /\ x.next \in Nat /\ x.own \in SUBSET Threads
         /\ x.loaded \in [Threads -> Replies!Statuses]
         /\ x.pend \in [Threads -> Replies!Statuses \cup {Nil}] /\ x # Replies!Free
  <1>1. x.pc = "loop" /\ Replies!Free.pc = "free"
    BY DEF Replies!Scan, Replies!Free
  <1> QED
    BY <1>1 DEF Replies!Scan

LEMMA RepliesStart == ASSUME PartsAssumption, Replies!Init PROVE RepliesInv
  <1>1. /\ replyRows \in [Trackers -> [Threads -> Replies!Statuses] \cup {Nil}]
        /\ replyChip \in [Trackers -> {"all"} \cup Replies!Statuses]
        /\ replyTable \in [Trackers -> SUBSET Threads]
        /\ replyAsks \in [Trackers -> Seq(Replies!Answers)]
        /\ \A t \in Trackers : Len(replyAsks[t]) <= MaxAsks
    BY RepliesConstants DEF Replies!Init
  <1>2. /\ replyScans \in [Scans -> {Replies!Free} \cup Replies!Scan]
        /\ \A s \in Scans : replyScans[s] = Replies!Free
    BY DEF Replies!Init
  <1>3. /\ replyInbox \in Seq([app : Threads, kind : Replies!Kinds])
        /\ Len(replyInbox) <= MaxMails /\ replyAge \in 0..Len(replyInbox)
    BY RepliesConstants DEF Replies!Init
  <1>4. /\ replyStatus \in [Threads -> Replies!Statuses] /\ replyBounces \in [Threads -> 0..2]
        /\ replyDue \in [Threads -> Replies!Statuses]
        /\ \A a \in Threads : replyBounces[a] <= 1
    BY DEF Replies!Init, Replies!Statuses
  <1>5. Replies!TypeOK
    BY <1>1, <1>2, <1>3, <1>4 DEF Replies!Init, Replies!TypeOK
  <1>6. Replies!TableFollowsChip
    BY DEF Replies!Init, Replies!TableFollowsChip, Replies!Filtered
  <1> QED
    BY <1>1, <1>2, <1>4, <1>5, <1>6 DEF RepliesInv, Replies!BouncedOnce

\* The mails, the database and the scans change; the pages do not.
LEMMA ServerSteps ==
  ASSUME RepliesInv, UNCHANGED <<replyRows, replyChip, replyTable, replyAsks, replyEmptied>>,
         replyInbox' \in Seq([app : Threads, kind : Replies!Kinds]),
         Len(replyInbox') <= MaxMails, replyAge' \in 0..Len(replyInbox'),
         replyStatus' \in [Threads -> Replies!Statuses],
         replyBounces' \in [Threads -> 0..2], replyLock' \in Scans \cup {Nil},
         replyScans' \in [Scans -> {Replies!Free} \cup Replies!Scan],
         replyLock' # Nil => /\ replyScans'[replyLock'] # Replies!Free
                             /\ replyScans'[replyLock'].next < replyScans'[replyLock'].high,
         replyRead' \subseteq 1..MaxMails, replyDue' \in [Threads -> Replies!Statuses],
         \A s \in Scans : replyScans'[s] # Replies!Free =>
            ScanFits(replyScans'[s], s, replyLock', replyBounces', Len(replyInbox')),
         Replies!BouncedOnce'
  PROVE  RepliesInv'
  <1>1. Replies!TypeOK'
    BY DEF RepliesInv, Replies!TypeOK
  <1>2. Replies!TableFollowsChip'
    BY DEF RepliesInv, Replies!TableFollowsChip, Replies!Filtered
  <1> QED
    BY <1>1, <1>2 DEF RepliesInv

\* What the steps of the server start from.
LEMMA ScanKnown ==
  ASSUME PartsAssumption, RepliesInv, NEW s \in Scans
  PROVE  /\ replyInbox \in Seq([app : Threads, kind : Replies!Kinds])
         /\ Len(replyInbox) \in Nat /\ Len(replyInbox) <= MaxMails
         /\ replyAge \in Nat /\ replyAge <= Len(replyInbox)
         /\ replyStatus \in [Threads -> Replies!Statuses]
         /\ replyBounces \in [Threads -> 0..2] /\ replyLock \in Scans \cup {Nil}
         /\ replyScans \in [Scans -> {Replies!Free} \cup Replies!Scan]
         /\ replyLock # Nil => /\ replyScans[replyLock] # Replies!Free
                               /\ replyScans[replyLock].next < replyScans[replyLock].high
         /\ replyRead \subseteq 1..MaxMails /\ replyDue \in [Threads -> Replies!Statuses]
         /\ replyScans[s] # Replies!Free =>
               /\ replyScans[s] \in Replies!Scan
               /\ ScanFits(replyScans[s], s, replyLock, replyBounces, Len(replyInbox))
         /\ Replies!BouncedOnce /\ Nil \notin Scans /\ MaxMails \in Nat
  BY RepliesConstants DEF RepliesInv, Replies!TypeOK

LEMMA MailArrives ==
  ASSUME PartsAssumption, RepliesInv,
         \/ \E a \in Threads, k \in Replies!Kinds : Replies!Arrive(a, k)
         \/ Replies!GrowsOld
  PROVE  RepliesInv'
  <1>1. /\ replyInbox \in Seq([app : Threads, kind : Replies!Kinds])
        /\ Len(replyInbox) \in Nat /\ Len(replyInbox) <= MaxMails /\ MaxMails \in Nat
        /\ replyAge \in Nat /\ replyAge <= Len(replyInbox)
    BY RepliesConstants DEF RepliesInv, Replies!TypeOK
  <1>2. UNCHANGED <<replyStatus, replyBounces, replyLock, replyScans, replyRead, replyDue,
                    replyRows, replyChip, replyTable, replyAsks, replyEmptied>>
    BY DEF Replies!Arrive, Replies!GrowsOld, Replies!page
  <1>3. /\ replyInbox' \in Seq([app : Threads, kind : Replies!Kinds])
        /\ Len(replyInbox) <= Len(replyInbox') /\ Len(replyInbox') <= MaxMails
        /\ replyAge' \in 0..Len(replyInbox') /\ Len(replyInbox') \in Nat
    <2>1. CASE Replies!GrowsOld
      BY <1>1, <2>1 DEF Replies!GrowsOld
    <2>2. CASE ~ Replies!GrowsOld
      <3>1. PICK a \in Threads, k \in Replies!Kinds : Replies!Arrive(a, k)
        BY <2>2
      <3>2. [app |-> a, kind |-> k] \in [app : Threads, kind : Replies!Kinds]
        OBVIOUS
      <3>3. /\ replyInbox' = Append(replyInbox, [app |-> a, kind |-> k])
            /\ replyAge' = replyAge /\ Len(replyInbox) < MaxMails
        BY <3>1 DEF Replies!Arrive
      <3>4. /\ replyInbox' \in Seq([app : Threads, kind : Replies!Kinds])
            /\ Len(replyInbox') = Len(replyInbox) + 1
        BY <1>1, <3>2, <3>3, AppendProperties
      <3> QED
        BY <1>1, <3>3, <3>4
    <2> QED
      BY <2>1, <2>2
  <1>4. ASSUME NEW s \in Scans, replyScans'[s] # Replies!Free
        PROVE  ScanFits(replyScans'[s], s, replyLock', replyBounces', Len(replyInbox'))
    <2>1. ScanFits(replyScans[s], s, replyLock, replyBounces, Len(replyInbox))
      BY <1>2, <1>4 DEF RepliesInv
    <2> QED
      BY <1>1, <1>2, <1>3, <2>1 DEF ScanFits
  <1>5. Replies!BouncedOnce'
    BY <1>2 DEF RepliesInv, Replies!BouncedOnce
  <1>6. /\ replyStatus' \in [Threads -> Replies!Statuses]
        /\ replyBounces' \in [Threads -> 0..2] /\ replyLock' \in Scans \cup {Nil}
        /\ replyScans' \in [Scans -> {Replies!Free} \cup Replies!Scan]
        /\ replyRead' \subseteq 1..MaxMails /\ replyDue' \in [Threads -> Replies!Statuses]
        /\ replyLock' # Nil => /\ replyScans'[replyLock'] # Replies!Free
                               /\ replyScans'[replyLock'].next < replyScans'[replyLock'].high
    BY <1>2 DEF RepliesInv, Replies!TypeOK
  <1> QED
    BY <1>2, <1>3, <1>4, <1>5, <1>6, ServerSteps

\* A scan becomes x, and counts nothing.
LEMMA ScanBecomes ==
  ASSUME PartsAssumption, RepliesInv, NEW s \in Scans,
         NEW x \in {Replies!Free} \cup Replies!Scan,
         replyScans' = [replyScans EXCEPT ![s] = x],
         x # Replies!Free => ScanFits(x, s, replyLock', replyBounces, Len(replyInbox)),
         \/ replyLock' = replyLock /\ replyLock # s
         \/ /\ replyLock' = s /\ x # Replies!Free /\ x.next < x.high
            /\ replyLock \in {Nil, s}
         \/ replyLock' = Nil /\ replyLock = s,
         UNCHANGED <<replyInbox, replyAge, replyStatus, replyBounces, replyRead, replyDue,
                     replyRows, replyChip, replyTable, replyAsks, replyEmptied>>
  PROVE  RepliesInv'
  <1>1. \A o \in Scans : replyScans'[o] = IF o = s THEN x ELSE replyScans[o]
    BY ScanKnown
  <1>2. replyScans' \in [Scans -> {Replies!Free} \cup Replies!Scan]
    BY ScanKnown
  <1>3. /\ replyLock' \in Scans \cup {Nil}
        /\ replyLock' # Nil => /\ replyScans'[replyLock'] # Replies!Free
                               /\ replyScans'[replyLock'].next < replyScans'[replyLock'].high
    BY <1>1, ScanKnown
  <1>4. ASSUME NEW o \in Scans, replyScans'[o] # Replies!Free
        PROVE  ScanFits(replyScans'[o], o, replyLock', replyBounces', Len(replyInbox'))
    <2>1. CASE o = s
      BY <1>1, <1>4, <2>1
    <2>2. CASE o # s
      <3>1. /\ replyScans'[o] = replyScans[o]
            /\ ScanFits(replyScans[o], o, replyLock, replyBounces, Len(replyInbox))
        BY <1>1, <1>4, <2>2 DEF RepliesInv
      <3>2. replyLock = o => replyLock' = o
        BY <2>2, RepliesConstants
      <3> QED
        BY <3>1, <3>2 DEF ScanFits
    <2> QED
      BY <2>1, <2>2
  <1>5. Replies!BouncedOnce'
    BY DEF RepliesInv, Replies!BouncedOnce
  <1>6. replyAge' \in 0..Len(replyInbox') /\ Len(replyInbox') <= MaxMails
    BY DEF RepliesInv, Replies!TypeOK
  <1> QED
    BY <1>2, <1>3, <1>4, <1>5, <1>6, ScanKnown, ServerSteps

LEMMA ScanStarts ==
  ASSUME PartsAssumption, RepliesInv, NEW s \in Scans, Replies!Start(s)
  PROVE  RepliesInv'
  <1> DEFINE x == [pc |-> "loop", low |-> replyAge + 1, high |-> Len(replyInbox),
                   next |-> Len(replyInbox), loaded |-> replyStatus,
                   logged |-> {a \in Threads : replyBounces[a] > 0},
                   pend |-> [a \in Threads |-> Nil], own |-> {}]
  <1>1. /\ x \in Replies!Scan /\ x.low = replyAge + 1 /\ x.high = Len(replyInbox)
        /\ x.next = Len(replyInbox) /\ x.own = {}
    BY ScanKnown DEF Replies!Scan
  <1>2. replyScans[s] = Replies!Free /\ replyScans' = [replyScans EXCEPT ![s] = x]
    BY DEF Replies!Start
  <1> HIDE DEF x
  <1>3. ScanFits(x, s, replyLock', replyBounces, Len(replyInbox))
    BY <1>1, ScanKnown DEF ScanFits
  <1>4. replyLock' = replyLock /\ replyLock # s
    BY <1>2, ScanKnown DEF Replies!Start
  <1> QED
    BY <1>1, <1>2, <1>3, <1>4, ScanBecomes DEF Replies!Start, Replies!page

\* The mail a scan is about to read.
LEMMA MailKnown ==
  ASSUME PartsAssumption, RepliesInv, NEW s \in Scans, Replies!HasMail(s)
  PROVE  /\ replyScans[s] \in Replies!Scan /\ replyScans[s] # Replies!Free
         /\ ScanFits(replyScans[s], s, replyLock, replyBounces, Len(replyInbox))
         /\ replyScans[s].next - 1 \in Nat
         /\ replyScans[s].next \in 1..Len(replyInbox)
         /\ Replies!Mail(s).app \in Threads /\ Replies!Mail(s).kind \in Replies!Kinds
  <1>1. /\ replyScans[s] \in Replies!Scan /\ replyScans[s] # Replies!Free
        /\ ScanFits(replyScans[s], s, replyLock, replyBounces, Len(replyInbox))
        /\ replyScans[s].next >= replyScans[s].low
    BY ScanKnown DEF Replies!HasMail
  <1>2. replyScans[s].next - 1 \in Nat /\ replyScans[s].next \in 1..Len(replyInbox)
    BY <1>1, ScanKnown DEF ScanFits
  <1>3. replyInbox[replyScans[s].next] \in [app : Threads, kind : Replies!Kinds]
    <2>1. replyInbox \in Seq([app : Threads, kind : Replies!Kinds])
      BY ScanKnown
    <2> QED
      BY <1>2, <2>1, ElementOfSeq
  <1> QED
    BY <1>1, <1>2, <1>3 DEF Replies!Mail

LEMMA ScanClassifies ==
  ASSUME PartsAssumption, RepliesInv, NEW s \in Scans, Replies!Classify(s)
  PROVE  RepliesInv'
  <1>1. /\ replyScans[s] \in Replies!Scan
        /\ ScanFits(replyScans[s], s, replyLock, replyBounces, Len(replyInbox))
        /\ replyScans[s].next - 1 \in Nat
        /\ Replies!Mail(s).app \in Threads /\ Replies!Mail(s).kind \in Replies!Kinds
    BY MailKnown DEF Replies!Classify
  <1>2. replyScans[s].pend \in [Threads -> Replies!Statuses \cup {Nil}]
    BY <1>1, ScanFields
  <1> DEFINE n == replyScans[s].next - 1
             P == [replyScans[s].pend EXCEPT ![Replies!Mail(s).app] =
                      IF Replies!Mail(s).kind = "other" THEN @ ELSE Replies!Mail(s).kind]
             x == [replyScans[s] EXCEPT !.next = n, !.pend = P]
  <1>3. P \in [Threads -> Replies!Statuses \cup {Nil}]
    <2>1. Replies!Mail(s).kind # "other" => Replies!Mail(s).kind \in Replies!Statuses
      BY <1>1 DEF Replies!Classify, Replies!Kinds, Replies!Statuses
    <2> QED
      BY <1>2, <2>1
  <1>4. replyScans' = [replyScans EXCEPT ![s] = x]
    BY ZenonT(60) DEF Replies!Classify
  <1> HIDE DEF P
  <1>5. /\ x \in Replies!Scan /\ x.low = replyScans[s].low /\ x.high = replyScans[s].high
        /\ x.next = replyScans[s].next - 1 /\ x.own = replyScans[s].own
    BY <1>1, <1>3 DEF Replies!Scan
  <1> HIDE DEF x
  <1>6. replyLock' = replyLock
    BY DEF Replies!Classify
  <1>7. ScanFits(x, s, replyLock', replyBounces, Len(replyInbox))
    BY <1>1, <1>5, <1>6, ScanKnown DEF ScanFits
  <1>8. x # Replies!Free /\ (replyLock = s => x.next < x.high)
    <2>1. replyLock = s => replyScans[s].next < replyScans[s].high
      BY ScanKnown
    <2>2. replyScans[s].next \in Nat /\ replyScans[s].high \in Nat
      BY <1>1 DEF ScanFits
    <2> QED
      BY <1>5, <2>1, <2>2, ScanFields
  <1>9. \/ replyLock' = replyLock /\ replyLock # s
        \/ replyLock' = s /\ x.next < x.high /\ replyLock \in {Nil, s}
    BY <1>6, <1>8
  <1>10. UNCHANGED <<replyInbox, replyAge, replyStatus, replyBounces, replyRead, replyDue,
                     replyRows, replyChip, replyTable, replyAsks, replyEmptied>>
    BY DEF Replies!Classify, Replies!page
  <1> QED
    BY <1>4, <1>5, <1>7, <1>8, <1>9, <1>10, ScanBecomes

LEMMA ScanRecordsBounce ==
  ASSUME PartsAssumption, RepliesInv, NEW s \in Scans, Replies!RecordBounce(s)
  PROVE  RepliesInv'
  <1> DEFINE a == Replies!Mail(s).app
  <1>1. /\ replyScans[s] \in Replies!Scan
        /\ ScanFits(replyScans[s], s, replyLock, replyBounces, Len(replyInbox))
        /\ replyScans[s].next - 1 \in Nat /\ a \in Threads
    BY MailKnown DEF Replies!RecordBounce
  <1>2. /\ replyScans[s].pend \in [Threads -> Replies!Statuses \cup {Nil}]
        /\ replyScans[s].own \in SUBSET Threads
    BY <1>1, ScanFields
  <1>3. replyLock \in {Nil, s} /\ replyLock' = s
    BY DEF Replies!RecordBounce
  <1> DEFINE n == replyScans[s].next - 1
             P == [replyScans[s].pend EXCEPT ![a] =
                      IF Replies!Logged(s, a) THEN @ ELSE "bounced"]
             O == IF Replies!Logged(s, a) THEN replyScans[s].own ELSE replyScans[s].own \cup {a}
             x == [replyScans[s] EXCEPT !.next = n, !.pend = P, !.own = O]
  <1>4. P \in [Threads -> Replies!Statuses \cup {Nil}] /\ O \in SUBSET Threads
    BY <1>1, <1>2 DEF Replies!Statuses
  <1>5. \A b \in O : replyBounces[b] = 0
    <2>1. replyBounces[a] \in 0..2
      BY <1>1, ScanKnown
    <2>2. ~ Replies!Logged(s, a) => replyBounces[a] = 0
      BY <2>1 DEF Replies!Logged
    <2> QED
      BY <1>1, <2>2 DEF ScanFits
  <1>6. replyScans' = [replyScans EXCEPT ![s] = x]
    BY ZenonT(60) DEF Replies!RecordBounce
  <1> HIDE DEF P, O
  <1>7. /\ x \in Replies!Scan /\ x.low = replyScans[s].low /\ x.high = replyScans[s].high
        /\ x.next = replyScans[s].next - 1 /\ x.own = O
    BY <1>1, <1>4 DEF Replies!Scan
  <1> HIDE DEF x
  <1>8. /\ ScanFits(x, s, replyLock', replyBounces, Len(replyInbox))
        /\ x.next < x.high
    BY <1>1, <1>3, <1>5, <1>7, ScanKnown DEF ScanFits
  <1> QED
    BY <1>3, <1>6, <1>7, <1>8, ScanFields, ScanBecomes
       DEF Replies!RecordBounce, Replies!page

LEMMA ScanFails ==
  ASSUME PartsAssumption, RepliesInv, NEW s \in Scans, Replies!Fail(s)
  PROVE  RepliesInv'
  <1>1. replyScans' = [replyScans EXCEPT ![s] = Replies!Free]
    BY DEF Replies!Fail
  <1>2. \/ replyLock' = replyLock /\ replyLock # s
        \/ replyLock' = Nil /\ replyLock = s
    BY DEF Replies!Fail, Replies!Unlock
  <1>3. UNCHANGED <<replyInbox, replyAge, replyStatus, replyBounces, replyRead, replyDue,
                    replyRows, replyChip, replyTable, replyAsks, replyEmptied>>
    BY DEF Replies!Fail, Replies!page
  <1> QED
    BY <1>1, <1>2, <1>3, ScanBecomes

\* A set of numbers up to h that is not empty has a largest one.
LEMMA LargestOne ==
  ASSUME NEW h \in Nat, NEW T \in SUBSET (0..h), T # {}
  PROVE  \E i \in T : \A j \in T : j <= i
  <1> DEFINE D == {h - i : i \in T}
  <1>1. D \subseteq Nat /\ D # {}
    <2>1. \A i \in T : h - i \in Nat
      <3> TAKE i \in T
      <3>1. i \in 0..h
        OBVIOUS
      <3> QED
        BY <3>1
    <2>2. PICK i \in T : TRUE
      OBVIOUS
    <2> QED
      BY <2>1, <2>2
  <1>2. PICK d \in D : \A e \in D : ~ (e < d)
    <2> HIDE DEF D
    <2>1. \E d \in D : \A e \in D : <<e, d>> \notin OpToRel(<, Nat)
      BY <1>1, NatLessThanWellFounded, WFMin, Zenon
    <2>2. PICK d \in D : \A e \in D : <<e, d>> \notin OpToRel(<, Nat)
      BY <2>1, Zenon
    <2>3. \A e \in D : ~ (e < d)
      <3> TAKE e \in D
      <3>1. <<e, d>> \notin {ss \in Nat \X Nat : ss[1] < ss[2]}
        BY <2>2, Zenon DEF OpToRel
      <3>2. e \in Nat /\ d \in Nat
        BY <1>1
      <3> QED
        BY <3>1, <3>2
    <2> QED
      BY <2>3
  <1>3. PICK i \in T : d = h - i
    OBVIOUS
  <1>4. ASSUME NEW j \in T PROVE j <= i
    <2>1. h - j \in D /\ h - j \in Nat /\ d \in Nat
      BY <1>1
    <2>2. ~ (h - j < d)
      BY <1>2, <2>1
    <2> QED
      BY <1>3, <2>1, <2>2
  <1> QED
    BY <1>4

LEMMA ScanCommits ==
  ASSUME PartsAssumption, RepliesInv, NEW s \in Scans, Replies!Commit(s)
  PROVE  RepliesInv'
  <1>1. /\ replyScans[s] \in Replies!Scan
        /\ ScanFits(replyScans[s], s, replyLock, replyBounces, Len(replyInbox))
        /\ replyLock \in {Nil, s}
    BY ScanKnown DEF Replies!Commit
  <1>2. /\ replyScans[s].pend \in [Threads -> Replies!Statuses \cup {Nil}]
        /\ replyScans[s].low \in Nat /\ replyScans[s].high \in Nat
    BY <1>1, ScanFields
  <1>3. /\ replyScans' = [replyScans EXCEPT ![s] = Replies!Free]
        /\ replyLock' = Nil
        /\ UNCHANGED <<replyInbox, replyAge, replyRows, replyChip, replyTable, replyAsks,
                       replyEmptied>>
    BY <1>1 DEF Replies!Commit, Replies!Unlock, Replies!page
  <1>4. /\ replyScans' \in [Scans -> {Replies!Free} \cup Replies!Scan]
        /\ \A o \in Scans : replyScans'[o] = IF o = s THEN Replies!Free ELSE replyScans[o]
    BY <1>3, ScanKnown
  <1>5. replyStatus' \in [Threads -> Replies!Statuses]
    BY <1>2, ScanKnown DEF Replies!Commit
  <1>6. \A a \in Threads : replyBounces'[a] =
          IF a \in replyScans[s].own /\ replyBounces[a] < 2
          THEN replyBounces[a] + 1 ELSE replyBounces[a]
    BY DEF Replies!Commit
  <1>7. replyBounces' \in [Threads -> 0..2]
    BY ScanKnown DEF Replies!Commit
  <1>8. Replies!BouncedOnce'
    <2>1. ASSUME NEW a \in Threads PROVE replyBounces'[a] <= 1
      <3>1. replyBounces[a] \in 0..2 /\ replyBounces[a] <= 1
        BY ScanKnown DEF Replies!BouncedOnce
      <3>2. a \in replyScans[s].own => replyBounces[a] = 0
        BY <1>1 DEF ScanFits
      <3> QED
        BY <1>6, <3>1, <3>2
    <2> QED
      BY <2>1 DEF Replies!BouncedOnce
  <1>9. Replies!Listed(s) \subseteq 1..Len(replyInbox)
    BY <1>1, ScanKnown DEF ScanFits, Replies!Listed
  <1>10. replyRead' \subseteq 1..MaxMails
    BY <1>9, ScanKnown DEF Replies!Commit
  <1>11. replyDue' \in [Threads -> Replies!Statuses]
    <2> DEFINE told(a) == {i \in Replies!Listed(s) :
                              replyInbox[i].app = a /\ replyInbox[i].kind # "other"}
               newest(a) == CHOOSE i \in told(a) : \A j \in told(a) : j <= i
    <2>1. replyDue' = [a \in Threads |-> IF told(a) = {} THEN replyDue[a]
                                         ELSE replyInbox[newest(a)].kind]
      BY DEF Replies!Commit
    <2>2. ASSUME NEW a \in Threads, told(a) # {}
          PROVE  replyInbox[newest(a)].kind \in Replies!Statuses
      <3>1. told(a) \in SUBSET (0..Len(replyInbox))
        BY <1>9
      <3>2. \E i \in told(a) : \A j \in told(a) : j <= i
        <4> HIDE DEF told
        <4> QED
          BY <2>2, <3>1, ScanKnown, LargestOne
      <3>3. newest(a) \in told(a)
        <4> HIDE DEF told
        <4> QED
          BY <3>2
      <3>4. newest(a) \in 1..Len(replyInbox) /\ replyInbox[newest(a)].kind # "other"
        BY <1>9, <3>3
      <3> HIDE DEF newest, told
      <3>5. replyInbox[newest(a)] \in [app : Threads, kind : Replies!Kinds]
        <4>1. replyInbox \in Seq([app : Threads, kind : Replies!Kinds])
          BY ScanKnown
        <4> QED
          BY <3>4, <4>1, ElementOfSeq
      <3> QED
        BY <3>4, <3>5 DEF Replies!Kinds, Replies!Statuses
    <2> HIDE DEF told, newest
    <2>3. \A a \in Threads : replyDue[a] \in Replies!Statuses
      BY ScanKnown
    <2> QED
      BY <2>1, <2>2, <2>3
  <1>12. ASSUME NEW o \in Scans, replyScans'[o] # Replies!Free
         PROVE  ScanFits(replyScans'[o], o, replyLock', replyBounces', Len(replyInbox'))
    <2>1. /\ o # s /\ replyScans'[o] = replyScans[o]
          /\ ScanFits(replyScans[o], o, replyLock, replyBounces, Len(replyInbox))
      BY <1>4, <1>12 DEF RepliesInv
    <2>2. replyScans[o].own = {}
      BY <1>1, <2>1, RepliesConstants DEF ScanFits
    <2> QED
      BY <1>3, <2>1, <2>2 DEF ScanFits
  <1>13. replyAge' \in 0..Len(replyInbox') /\ Len(replyInbox') <= MaxMails
    BY <1>3 DEF RepliesInv, Replies!TypeOK
  <1> QED
    BY <1>3, <1>4, <1>5, <1>7, <1>8, <1>10, <1>11, <1>12, <1>13, ScanKnown, ServerSteps

\* The pages change; the mails, the database and the scans do not.
LEMMA TrackersChange ==
  ASSUME RepliesInv, UNCHANGED <<replyInbox, replyAge, replyStatus, replyBounces, replyLock,
                                 replyScans, replyRead, replyDue>>,
         replyRows' \in [Trackers -> [Threads -> Replies!Statuses] \cup {Nil}],
         replyChip' \in [Trackers -> {"all"} \cup Replies!Statuses],
         replyTable' \in [Trackers -> SUBSET Threads],
         replyAsks' \in [Trackers -> Seq(Replies!Answers)],
         \A t \in Trackers : Len(replyAsks'[t]) <= MaxAsks,
         replyEmptied' \subseteq Trackers,
         \A t \in Trackers : replyTable'[t] = Replies!Filtered(replyRows'[t], replyChip'[t])
  PROVE  RepliesInv'
  <1>1. Replies!TypeOK'
    BY DEF RepliesInv, Replies!TypeOK
  <1>2. \A s \in Scans : replyScans'[s] # Replies!Free =>
          ScanFits(replyScans'[s], s, replyLock', replyBounces', Len(replyInbox'))
    BY DEF RepliesInv
  <1>3. Replies!BouncedOnce' /\ Replies!TableFollowsChip'
    BY DEF RepliesInv, Replies!BouncedOnce, Replies!TableFollowsChip, Replies!Filtered
  <1> QED
    BY <1>1, <1>2, <1>3 DEF RepliesInv

LEMMA TrackerKnown ==
  ASSUME PartsAssumption, RepliesInv, NEW t \in Trackers
  PROVE  /\ replyRows \in [Trackers -> [Threads -> Replies!Statuses] \cup {Nil}]
         /\ replyChip \in [Trackers -> {"all"} \cup Replies!Statuses]
         /\ replyTable \in [Trackers -> SUBSET Threads]
         /\ replyAsks \in [Trackers -> Seq(Replies!Answers)]
         /\ \A u \in Trackers : Len(replyAsks[u]) <= MaxAsks
         /\ replyAsks[t] \in Seq(Replies!Answers) /\ Len(replyAsks[t]) \in Nat
         /\ replyEmptied \subseteq Trackers /\ MaxAsks \in Nat
         /\ replyStatus \in [Threads -> Replies!Statuses]
         /\ \A u \in Trackers : replyTable[u] = Replies!Filtered(replyRows[u], replyChip[u])
  BY RepliesConstants DEF RepliesInv, Replies!TypeOK, Replies!TableFollowsChip

\* The requests of a page become q.
LEMMA AsksBecome ==
  ASSUME PartsAssumption, RepliesInv, NEW t \in Trackers, NEW q \in Seq(Replies!Answers),
         Len(q) <= MaxAsks, replyAsks' = [replyAsks EXCEPT ![t] = q]
  PROVE  /\ replyAsks' \in [Trackers -> Seq(Replies!Answers)]
         /\ \A u \in Trackers : Len(replyAsks'[u]) <= MaxAsks
  <1>1. \A u \in Trackers : replyAsks'[u] = IF u = t THEN q ELSE replyAsks[u]
    BY TrackerKnown
  <1> QED
    BY <1>1, TrackerKnown

LEMMA TrackerAsks ==
  ASSUME PartsAssumption, RepliesInv, NEW t \in Trackers, Replies!Poll(t)
  PROVE  RepliesInv'
  <1>1. Replies!Open \in Replies!Answers
    BY DEF Replies!Answers
  <1> DEFINE q == Append(replyAsks[t], Replies!Open)
  <1>2. /\ q \in Seq(Replies!Answers) /\ Len(q) = Len(replyAsks[t]) + 1
        /\ Len(replyAsks[t]) < MaxAsks
    BY <1>1, TrackerKnown, AppendProperties DEF Replies!Poll
  <1>3. replyAsks' = [replyAsks EXCEPT ![t] = q]
    BY DEF Replies!Poll
  <1> HIDE DEF q
  <1>4. /\ replyAsks' \in [Trackers -> Seq(Replies!Answers)]
        /\ \A u \in Trackers : Len(replyAsks'[u]) <= MaxAsks
    BY <1>2, <1>3, TrackerKnown, AsksBecome
  <1> QED
    BY <1>4, TrackerKnown, TrackersChange DEF Replies!Poll, Replies!server

LEMMA TrackerIsServed ==
  ASSUME PartsAssumption, RepliesInv, NEW t \in Trackers, NEW i \in DOMAIN replyAsks[t],
         Replies!Serve(t, i)
  PROVE  RepliesInv'
  <1>1. PICK answer \in {[is |-> "rows", rows |-> replyStatus], Replies!Oops} :
          replyAsks' = [replyAsks EXCEPT ![t][i] = answer]
    BY DEF Replies!Serve
  <1>2. answer \in Replies!Answers
    BY <1>1, TrackerKnown DEF Replies!Answers
  <1> DEFINE q == [replyAsks[t] EXCEPT ![i] = answer]
  <1>3. q \in Seq(Replies!Answers) /\ Len(q) = Len(replyAsks[t])
    BY <1>2, TrackerKnown, ExceptSeq
  <1>4. replyAsks' = [replyAsks EXCEPT ![t] = q]
    BY <1>1
  <1> HIDE DEF q
  <1>5. /\ replyAsks' \in [Trackers -> Seq(Replies!Answers)]
        /\ \A u \in Trackers : Len(replyAsks'[u]) <= MaxAsks
    BY <1>3, <1>4, TrackerKnown, AsksBecome
  <1> QED
    BY <1>5, TrackerKnown, TrackersChange DEF Replies!Serve, Replies!server

\* A request that is over leaves the list of the page.
LEMMA AskEnds ==
  ASSUME PartsAssumption, RepliesInv, NEW t \in Trackers, NEW i \in DOMAIN replyAsks[t],
         replyAsks' = [replyAsks EXCEPT ![t] = Replies!RemoveAt(@, i)]
  PROVE  /\ replyAsks' \in [Trackers -> Seq(Replies!Answers)]
         /\ \A u \in Trackers : Len(replyAsks'[u]) <= MaxAsks
  <1> DEFINE n == Len(replyAsks[t])
             front == SubSeq(replyAsks[t], 1, i - 1)
             back == SubSeq(replyAsks[t], i + 1, n)
  <1>1. n \in Nat /\ n <= MaxAsks /\ i \in 1..n /\ replyAsks[t] \in Seq(Replies!Answers)
    BY TrackerKnown, LenProperties
  <1>2. front \in Seq(Replies!Answers) /\ Len(front) = i - 1
    <2>1. \A j \in 1..(i - 1) : replyAsks[t][j] \in Replies!Answers
      BY <1>1
    <2> QED
      BY <1>1, <2>1, SubSeqProperties
  <1>3. back \in Seq(Replies!Answers) /\ Len(back) = n - i
    <2>1. \A j \in (i + 1)..n : replyAsks[t][j] \in Replies!Answers
      BY <1>1
    <2> QED
      BY <1>1, <2>1, SubSeqProperties
  <1> DEFINE q == front \o back
  <1>4. q \in Seq(Replies!Answers) /\ Len(q) = n - 1
    <2>1. i \in Nat
      BY <1>1
    <2> HIDE DEF front, back
    <2>2. q \in Seq(Replies!Answers) /\ Len(q) = Len(front) + Len(back)
      BY <1>2, <1>3, ConcatProperties
    <2> QED
      BY <1>1, <1>2, <1>3, <2>1, <2>2
  <1>5. replyAsks' = [replyAsks EXCEPT ![t] = q]
    BY DEF Replies!RemoveAt
  <1> HIDE DEF q
  <1> QED
    BY <1>1, <1>4, <1>5, TrackerKnown, AsksBecome

LEMMA TrackerIsAnswered ==
  ASSUME PartsAssumption, RepliesInv, NEW t \in Trackers, NEW i \in DOMAIN replyAsks[t],
         Replies!Refresh(t, i) \/ Replies!Lost(t, i)
  PROVE  RepliesInv'
  <1>1. /\ replyAsks' \in [Trackers -> Seq(Replies!Answers)]
        /\ \A u \in Trackers : Len(replyAsks'[u]) <= MaxAsks
    BY AskEnds DEF Replies!Refresh, Replies!Lost
  <1>2. CASE Replies!Lost(t, i)
    BY <1>1, <1>2, TrackerKnown, TrackersChange DEF Replies!Lost, Replies!server
  <1>3. CASE Replies!Refresh(t, i)
    <2> DEFINE all == Replies!Got(replyAsks[t][i])
    <2>1. replyAsks[t][i] \in Replies!Answers /\ replyAsks[t][i] # Replies!Open
      BY <1>3, TrackerKnown DEF Replies!Refresh
    <2>2. all \in [Threads -> Replies!Statuses] \cup {Nil}
      BY <2>1 DEF Replies!Got, Replies!Answers
    <2>3. /\ replyRows' = [replyRows EXCEPT ![t] = all]
          /\ replyTable' = [replyTable EXCEPT ![t] = Replies!Filtered(all, replyChip[t])]
          /\ replyEmptied' \in {replyEmptied, replyEmptied \cup {t}} /\ replyChip' = replyChip
      BY <1>3 DEF Replies!Refresh
    <2> HIDE DEF all
    <2>4. Replies!Filtered(all, replyChip[t]) \subseteq Threads
      BY DEF Replies!Filtered
    <2>5. /\ replyRows' \in [Trackers -> [Threads -> Replies!Statuses] \cup {Nil}]
          /\ replyTable' \in [Trackers -> SUBSET Threads]
          /\ replyEmptied' \subseteq Trackers
      BY <2>2, <2>3, <2>4, TrackerKnown
    <2>6. ASSUME NEW u \in Trackers
          PROVE  replyTable'[u] = Replies!Filtered(replyRows'[u], replyChip'[u])
      <3>1. CASE u = t
        BY <2>3, <3>1, TrackerKnown
      <3>2. CASE u # t
        BY <2>3, <3>2, TrackerKnown
      <3> QED
        BY <3>1, <3>2
    <2> QED
      BY <1>1, <1>3, <2>3, <2>5, <2>6, TrackerKnown, TrackersChange
         DEF Replies!Refresh, Replies!server
  <1> QED
    BY <1>2, <1>3

LEMMA ChipIsPressed ==
  ASSUME PartsAssumption, RepliesInv, NEW t \in Trackers,
         NEW f \in {"all", "sent", "interview", "rejection", "bounced"}, Replies!Press(t, f)
  PROVE  RepliesInv'
  <1>1. /\ replyChip' = [replyChip EXCEPT ![t] = f]
        /\ replyTable' = [replyTable EXCEPT ![t] = Replies!Filtered(replyRows[t], f)]
        /\ replyRows' = replyRows
    BY DEF Replies!Press, Replies!Listing
  <1>2. Replies!Filtered(replyRows[t], f) \subseteq Threads
    BY DEF Replies!Filtered
  <1>3. f \in {"all"} \cup Replies!Statuses
    BY DEF Replies!Statuses, Replies!Replies
  <1>4. /\ replyChip' \in [Trackers -> {"all"} \cup Replies!Statuses]
        /\ replyTable' \in [Trackers -> SUBSET Threads]
    BY <1>1, <1>2, <1>3, TrackerKnown
  <1>5. ASSUME NEW u \in Trackers
        PROVE  replyTable'[u] = Replies!Filtered(replyRows'[u], replyChip'[u])
    <2>1. CASE u = t
      BY <1>1, <2>1, TrackerKnown
    <2>2. CASE u # t
      BY <1>1, <2>2, TrackerKnown
    <2> QED
      BY <2>1, <2>2
  <1> QED
    BY <1>1, <1>4, <1>5, TrackerKnown, TrackersChange DEF Replies!Press, Replies!server

LEMMA RepliesStep == ASSUME PartsAssumption, RepliesInv, Replies!Next PROVE RepliesInv'
  BY MailArrives, ScanStarts, ScanClassifies, ScanRecordsBounce, ScanCommits, ScanFails,
     TrackerAsks, TrackerIsServed, TrackerIsAnswered, ChipIsPressed DEF Replies!Next

-----------------------------------------------------------------------------
(* The parts together *)

DesktopInv ==
    /\ part \in Parts
    /\ part = "forms" => FormsInv
    /\ part = "runs" => RunsInv
    /\ part = "sender" => SenderInv
    /\ part = "pipe" => PipeInv
    /\ part = "replies" => RepliesInv

LEMMA DesktopStart == Init => DesktopInv
  BY PartsAssumption, FormsStarts, RunsStart, SenderStarts, StagesStart, RepliesStart
     DEF Init, DesktopInv, Parts

\* A step in which nothing happens.
LEMMA DesktopRest == ASSUME DesktopInv, UNCHANGED vars PROVE DesktopInv'
  <1>0. part' = part /\ UNCHANGED <<formsVars, runVars, senderVars, pipeVars, replyVars>>
    BY DEF vars
  <1>1. CASE part = "forms"
    <2>1. UNCHANGED <<formsStatus, formsArchived, formsLinks, formsBrowser, formsRunning,
                      formsRuns, formsSubmits, formsShown, formsSeen, formsPressed,
                      formsBuilding, formsPoll, formsGets, formsFailures, formsReal,
                      formsManual>> /\ FormsInv
      BY <1>0, <1>1 DEF formsVars, DesktopInv
    <2>2. FormsInv'
      BY <2>1 DEF FormsInv, Forms!TypeOK, Forms!SubmittedIsReal
    <2> QED
      BY <1>0, <1>1, <2>2 DEF DesktopInv, Parts
  <1>2. CASE part = "runs"
    <2>1. UNCHANGED <<runRuns, runFlag, runResult, runPlatform, runUsed, runStop, runProfile,
                      runOut, runBox, runAutoOn, runCrashes, runApplied, runMuddled, runLast,
                      runTold, runIgnored>> /\ RunsInv
      BY <1>0, <1>2 DEF runVars, DesktopInv
    <2>2. Applies!TypeOK' /\ WindowIsOwned' /\ Applies!StopIsHeard'
      BY <2>1 DEF RunsInv, Applies!TypeOK, WindowIsOwned, Applies!StopIsHeard
    <2>3. (\A a \in Applies!Accounts \ runMuddled : CountIsRight(a))'
      BY <2>1 DEF RunsInv, CountIsRight
    <2>4. (\A r \in Applications : ToldIsStopped(r))'
      BY <2>1 DEF RunsInv, ToldIsStopped
    <2>5. RunsInv'
      BY <2>1, <2>2, <2>3, <2>4 DEF RunsInv
    <2> QED
      BY <1>0, <1>2, <2>5 DEF DesktopInv, Parts
  <1>3. CASE part = "sender"
    <2>1. UNCHANGED <<senderStatus, senderDoubtful, senderPaused, senderWindow, senderLock,
                      senderRunning, senderRuns, senderCards, senderChecked, senderButton,
                      senderSays, senderCrashes, senderMailed, senderApproved,
                      senderConfirmed, senderFlagged>> /\ SenderInv
      BY <1>0, <1>3 DEF senderVars, DesktopInv
    <2>2. Sender!TypeOK' /\ Sender!RecordedWasMailed' /\ Sender!MailedWithConsent'
      BY <2>1 DEF SenderInv, Sender!TypeOK, Sender!RecordedWasMailed,
                  Sender!MailedWithConsent, Sender!Logged
    <2>3. Willing' = Willing /\ Mailed' = Mailed
      BY <2>1 DEF Willing, Mailed
    <2>4. SenderInv'
      BY <2>1, <2>2, <2>3 DEF SenderInv, Sender!Shown
    <2> QED
      BY <1>0, <1>3, <2>4 DEF DesktopInv, Parts
  <1>4. CASE part = "pipe"
    <2>1. UNCHANGED <<pipeStatus, pipeCopies, pipeAddress, pipeRuns, pipeBusy, pipeReloads,
                      pipeCrashes, pipeMailed, pipeApplied, pipeRecorded>> /\ PipeInv
      BY <1>0, <1>4 DEF pipeVars, DesktopInv
    <2>2. PipeInv'
      BY <2>1 DEF PipeInv, Pipeline!TypeOK, ButtonsHold, TableFits, RunsFit, Active
    <2> QED
      BY <1>0, <1>4, <2>2 DEF DesktopInv, Parts
  <1>5. CASE part = "replies"
    <2>1. UNCHANGED <<replyInbox, replyAge, replyStatus, replyBounces, replyLock, replyScans,
                      replyRows, replyChip, replyTable, replyAsks, replyRead, replyDue,
                      replyEmptied>> /\ RepliesInv
      BY <1>0, <1>5 DEF replyVars, DesktopInv
    <2>2. RepliesInv'
      BY <2>1 DEF RepliesInv, Replies!TypeOK, Replies!BouncedOnce,
                  Replies!TableFollowsChip, Replies!Filtered
    <2> QED
      BY <1>0, <1>5, <2>2 DEF DesktopInv, Parts
  <1> QED
    BY <1>1, <1>2, <1>3, <1>4, <1>5 DEF DesktopInv, Parts

LEMMA DesktopStep == ASSUME DesktopInv, [Next]_vars PROVE DesktopInv'
  <1>1. ASSUME Next PROVE DesktopInv'
    <2>1. CASE part = "forms"
      BY PartsAssumption, <1>1, <2>1, FormsStep DEF Next, DesktopInv
    <2>2. CASE part = "runs"
      BY PartsAssumption, <1>1, <2>2, RunsStep DEF Next, DesktopInv
    <2>3. CASE part = "sender"
      BY PartsAssumption, <1>1, <2>3, SenderStep DEF Next, DesktopInv
    <2>4. CASE part = "pipe"
      BY PartsAssumption, <1>1, <2>4, StagesStep DEF Next, DesktopInv
    <2>5. CASE part = "replies"
      BY PartsAssumption, <1>1, <2>5, RepliesStep DEF Next, DesktopInv
    <2> QED
      BY <2>1, <2>2, <2>3, <2>4, <2>5 DEF DesktopInv, Parts
  <1> QED
    BY <1>1, DesktopRest

\* In every reachable state, the invariant of the part holds.
THEOREM DesktopHolds == Spec => []DesktopInv
  <1> QED
    BY DesktopStart, DesktopStep, PTL DEF Spec

\* The variables of every part have their types.
THEOREM DesktopTypeOK == Spec => []TypeOK
  <1>1. DesktopInv => TypeOK
    BY DEF DesktopInv, FormsInv, RunsInv, SenderInv, PipeInv, RepliesInv, TypeOK
  <1> QED
    BY <1>1, DesktopHolds, PTL

\* What is recorded as sent was mailed, to a recipient the operator had agreed to, and
\* what is recorded as submitted was submitted (send_approved, submit_form,
\* save_form_fill), however many pages, batches, forms and crashes there are.
THEOREM SentStaysTrue == Spec => []SentIsTrue
  <1>1. DesktopInv => SentIsTrue
    BY DEF DesktopInv, FormsInv, SenderInv, SentIsTrue
  <1> QED
    BY <1>1, DesktopHolds, PTL

\* A posting has one row and is mailed once although the stages overlap, a bounce is
\* counted once although the scans do, an account whose runs come one after the other
\* keeps its cap, and a batch that of the day.
THEOREM NeverTooOften == Spec => []NothingTooOften
  <1>1. PipeInv => Pipeline!OneRowPerPosting /\ Pipeline!MailedOnce
    BY DEF PipeInv, TableFits, RowFits, MailFits, Pipeline!OneRowPerPosting,
           Pipeline!MailedOnce
  <1>2. RepliesInv => Replies!BouncedOnce
    BY DEF RepliesInv
  <1>3. DesktopInv => NothingTooOften
    BY <1>1, <1>2, RunsKeepCap, SenderKeepsCap DEF DesktopInv, NothingTooOften
  <1> QED
    BY <1>3, DesktopHolds, PTL

\* A stop reaches the session it was pressed for, and the table lists what its chip says.
THEOREM OperatorIsAlwaysHeard == Spec => []OperatorIsHeard
  <1>1. DesktopInv => OperatorIsHeard
    BY DEF DesktopInv, RunsInv, RepliesInv, OperatorIsHeard
  <1> QED
    BY <1>1, DesktopHolds, PTL

==============================================================================
